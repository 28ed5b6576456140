-------------------------- MODULE BundleProperties ---------------------------
(***************************************************************************)
(* What the bundle server owes the device fleet and the vendors: stated    *)
(* over BundleIngest; docs/API.md and docs/FWB_FORMAT.md are the yardstick.*)
(* RejectedLeavesNothing, PublishedFilesIntact, LatestOnlyGrows and what   *)
(* ImplementsRegistry says hold of uploads of one name that do not overlap:*)
(* see the run bundle_overlap.                                             *)
(***************************************************************************)
EXTENDS BundleIngest

Places ==
    Ended \cup {"verify", "revoked", "latest", "clear", "write", "move", "cleanup",
                "revokedAgain", "latestAgain", "insert", "audit"}

Uploaded == {row \in bundles : row.blob # Seeded}

IsDir(dir) ==
    /\ dir.exists \in BOOLEAN
    /\ \A e \in dir.entries : e.content \in Blobs /\ e.path \in Bundle[e.content].files
    /\ dir.exists \/ dir.entries = {}

(* The types of the data root and of a thread's memory. *)
TypeOK ==
    /\ created \in BOOLEAN
    /\ bundles \subseteq SeedRows \cup {RowOf(b) : b \in Blobs}
    /\ revocations \subseteq Revoked
    /\ \A k \in Keys : IsDir(tmp[k]) /\ IsDir(stage[k])
    /\ audit \in Seq(Keys)
    /\ server \in {"down", "seed", "revocations", "up"}
    /\ starts \in 0..MaxStarts
    /\ cutOff \in BOOLEAN
    /\ pc \in [Requests -> Places]
    /\ blob \in [Requests -> Blobs \cup {Seeded}]
    /\ \A r \in Requests : Running(r) => /\ server = "up"
                                         /\ blob[r] \in Uploads[r]
                                         /\ unwritten[r] \subseteq Bundle[blob[r]].files
    /\ uploads \in [Requests -> 0..MaxUploads]

-----------------------------------------------------------------------------

(***************************************************************************)
(* Section 7, rollback rule: "a bundle's version MUST be strictly greater  *)
(* than the latest already-published version for the same name": what an   *)
(* upload adds is newer than all there is of its name at that moment,      *)
(* although the check was made some steps earlier (Registry.publish).      *)
(***************************************************************************)
LatestOnlyGrows ==
    [][\A row \in bundles' \ bundles, other \in bundles :
           row.blob # Seeded /\ row.name = other.name => other.version < row.version]_vars

(***************************************************************************)
(* API.md: "a rejected upload MUST create no files under the data root, no *)
(* registry row, and no PUBLISH audit record": when it is refused, the data*)
(* root holds of the bundle what it held when the upload arrived, what     *)
(* crashed uploads left there included.                                    *)
(***************************************************************************)
RejectedLeavesNothing ==
    [][\A r \in Requests :
           pc[r] # "refused" /\ pc'[r] = "refused" => before[r] = {Footprint(blob[r])'}]_vars

(***************************************************************************)
(* Every published upload has exactly its own files staged, all of them,   *)
(* whatever earlier uploads of the same version were refused or died       *)
(* half-way (stage_bundle through <version>.tmp).                          *)
(***************************************************************************)
PublishedFilesIntact ==
    \A row \in Uploaded : stage[Registry!KeyOf(row)] = Complete(row.blob)

(***************************************************************************)
(* Section 7: "a (name, version) pair present in data/revocations.json is  *)
(* refused at publish time, regardless of ordering", however uploads       *)
(* overlap and wherever the server crashes and starts again.               *)
(***************************************************************************)
RevocationsHonoured ==
    \A row \in Uploaded : Registry!KeyOf(row) \notin Revoked

(***************************************************************************)
(* The same unless a crash fell into the start that created registry.db,   *)
(* which no later start makes up for (Registry.open loads the list when    *)
(* the file is fresh).                                                     *)
(***************************************************************************)
RevokedNotPublished == cutOff \/ RevocationsHonoured

(***************************************************************************)
(* Section 8: each published upload has its PUBLISH record, or the thread  *)
(* that published it is about to write it, as long as the server has not   *)
(* crashed.                                                                *)
(***************************************************************************)
RecordedUnlessCrashed ==
    starts = 1 /\ server = "up" =>
        \A row \in Uploaded :
            \/ \E k \in DOMAIN audit : audit[k] = Registry!KeyOf(row)
            \/ \E r \in Requests : pc[r] = "audit" /\ blob[r] = row.blob

(***************************************************************************)
(* Registry and audit trail are those of BundleRegistry: versions of a     *)
(* name in ascending order, nothing withdrawn, a record at most once and   *)
(* only for what is published.                                             *)
(***************************************************************************)
ImplementsRegistry == Registry!Spec

(***************************************************************************)
(* An upload is answered, or the server crashes.                           *)
(***************************************************************************)
UploadEnds == \A r \in Requests : Running(r) ~> ~Running(r)

=============================================================================
