---------------------------- MODULE BundleIngest -----------------------------
(***************************************************************************)
(* The bundle server with the reference solution applied: `serve` opens    *)
(* and seeds the registry before it accepts requests, then each upload is  *)
(* a thread of its own.  An upload verifies the bundle, checks revocation  *)
(* and version, stages the files in <version>.tmp, moves them into place,  *)
(* checks again and inserts the row, and appends to the audit trail.  No   *)
(* lock and no transaction spans two of these steps.  The server may crash *)
(* at any step and be started again on the same data root.                 *)
(***************************************************************************)
EXTENDS Integers, Sequences, FiniteSets

CONSTANTS
    Requests,       \* threads of the server
    Uploads,        \* Uploads[r]: the bundle files that thread r may be sent
    Bundle,         \* Bundle[b]: name, version, files, genuine
    Seeded,         \* the blob of a row that came with the seed
    SeedRows,       \* registry_seed.sql
    Revoked,        \* revocations.json, as <<name, version>>
    MaxUploads,     \* bound on the uploads of one thread
    MaxStarts       \* bound on the starts of the server

Blobs == UNION {Uploads[r] : r \in Requests}

(* Versions are given by their rank in the order of section 7. *)
ASSUME BundleAssumption ==
    \A b \in Blobs :
        /\ Bundle[b].version \in Nat
        /\ Bundle[b].files # {} /\ Bundle[b].files \subseteq Nat
        /\ Bundle[b].genuine \in BOOLEAN

ASSUME SeedAssumption ==
    /\ Seeded \notin Blobs
    /\ \A row \in SeedRows : row.blob = Seeded /\ row.version \in Nat

ASSUME BoundsAssumption == MaxUploads \in Nat /\ MaxStarts \in Nat

VARIABLES
    (* The data root. *)
    created,        \* registry.db exists
    bundles,        \* rows of the bundles table
    revocations,    \* rows of the revocations table
    tmp,            \* staging/<name>/<version>.tmp, by <<name, version>>
    stage,          \* staging/<name>/<version>
    audit,          \* the PUBLISH records of audit.log
    (* The server and its threads. *)
    server,         \* "down", a place in Registry.open, or "up"
    starts,
    cutOff,         \* history: a crash cut off a start that created registry.db
    pc,             \* where a thread stands
    blob,           \* the upload it handles
    unwritten,      \* files of it not yet in the temporary directory
    uploads,        \* uploads it was sent so far
    before          \* history: what there was of the upload when it arrived

db == <<created, bundles, revocations>>
files == <<tmp, stage>>
dataRoot == <<db, files, audit>>
thread == <<pc, blob, unwritten, uploads, before>>
vars == <<dataRoot, server, starts, cutOff, thread>>

-----------------------------------------------------------------------------
(* Rows, keys and directories. *)

Key(b) == <<Bundle[b].name, Bundle[b].version>>

Keys == {Key(b) : b \in Blobs}

RowOf(b) == [name |-> Bundle[b].name, version |-> Bundle[b].version, blob |-> b]

Registry == INSTANCE BundleRegistry WITH
                Seed <- SeedRows,
                Offered <- {RowOf(b) : b \in Blobs}

NoDir == [exists |-> FALSE, entries |-> {}]

EmptyDir == [exists |-> TRUE, entries |-> {}]

Entry(f, b) == [path |-> f, content |-> b]

(* mkdir(parents, exist_ok) and write_bytes. *)
Put(dir, f, b) ==
    [exists |-> TRUE, entries |-> {e \in dir.entries : e.path # f} \cup {Entry(f, b)}]

Complete(b) == [exists |-> TRUE, entries |-> {Entry(f, b) : f \in Bundle[b].files}]

(* What the data root holds of a bundle. *)
Footprint(b) ==
    [row |-> RowOf(b) \in bundles,
     tmp |-> tmp[Key(b)],
     stage |-> stage[Key(b)],
     records |-> Cardinality({k \in DOMAIN audit : audit[k] = Key(b)})]

-----------------------------------------------------------------------------

Ended == {"idle", "done", "refused", "killed"}

Running(r) == pc[r] \notin Ended

Init ==
    /\ created = FALSE
    /\ Registry!Init
    /\ revocations = {}
    /\ tmp = [k \in Keys |-> NoDir]
    /\ stage = [k \in Keys |-> NoDir]
    /\ server = "down"
    /\ starts = 0
    /\ cutOff = FALSE
    /\ pc = [r \in Requests |-> "idle"]
    /\ blob = [r \in Requests |-> Seeded]
    /\ unwritten = [r \in Requests |-> {}]
    /\ uploads = [r \in Requests |-> 0]
    /\ before = [r \in Requests |-> {}]

-----------------------------------------------------------------------------
(* make_server: Registry.open before the first request. *)

(* fresh is computed, and the schema is created. *)
Open ==
    /\ server = "down"
    /\ starts < MaxStarts
    /\ starts' = starts + 1
    /\ created' = TRUE
    /\ server' = IF created THEN "up" ELSE "seed"
    /\ UNCHANGED <<bundles, revocations, files, audit, cutOff, thread>>

RunSeed ==
    /\ server = "seed"
    /\ bundles' = bundles \cup SeedRows
    /\ server' = "revocations"
    /\ UNCHANGED <<created, revocations, files, audit, starts, cutOff, thread>>

LoadRevocations ==
    /\ server = "revocations"
    /\ revocations' = Revoked
    /\ server' = "up"
    /\ UNCHANGED <<created, bundles, files, audit, starts, cutOff, thread>>

(* The process dies, and its threads with it. *)
Crash ==
    /\ server # "down"
    /\ server' = "down"
    /\ pc' = [r \in Requests |-> IF Running(r) THEN "killed" ELSE pc[r]]
    /\ unwritten' = [r \in Requests |-> {}]
    /\ cutOff' = (cutOff \/ server \in {"seed", "revocations"})
    /\ UNCHANGED <<dataRoot, starts, blob, uploads, before>>

-----------------------------------------------------------------------------
(* IngestService.ingest *)

Receive(r, b) ==
    /\ server = "up"
    /\ ~Running(r)
    /\ uploads[r] < MaxUploads
    /\ uploads' = [uploads EXCEPT ![r] = @ + 1]
    /\ blob' = [blob EXCEPT ![r] = b]
    /\ before' = [before EXCEPT ![r] = {Footprint(b)}]
    /\ pc' = [pc EXCEPT ![r] = "verify"]
    /\ UNCHANGED <<dataRoot, server, starts, cutOff, unwritten>>

Goto(r, place) == pc' = [pc EXCEPT ![r] = place]

(* load_bundle, verify_bundle and the vendor of the token. *)
Verify(r) ==
    /\ pc[r] = "verify"
    /\ Goto(r, IF Bundle[blob[r]].genuine THEN "revoked" ELSE "refused")
    /\ UNCHANGED <<dataRoot, server, starts, cutOff, blob, unwritten, uploads, before>>

(* A slip for RevokedNotPublished: the latest version is looked up. *)
IsRevokedLatest(b) ==
    \E row \in bundles : /\ row.name = Bundle[b].name
                         /\ row.version >= Bundle[b].version
                         /\ Registry!KeyOf(row) \in revocations

(* is_revoked *)
IsRevoked(b) == Key(b) \in revocations

(* A slip for LatestOnlyGrows and ImplementsRegistry: only the same version *)
(* is refused.                                                             *)
IsPublished(b) ==
    \E row \in bundles : row.name = Bundle[b].name /\ row.version = Bundle[b].version

(* latest and compare: not newer than the latest published version. *)
IsOutdated(b) ==
    \E row \in bundles : row.name = Bundle[b].name /\ row.version >= Bundle[b].version

(* is_revoked, asked by ingest and once more by publish. *)
CheckRevoked(r) ==
    /\ \/ pc[r] = "revoked" /\ Goto(r, IF IsRevoked(blob[r]) THEN "refused" ELSE "latest")
       \/ /\ pc[r] = "revokedAgain"
          /\ Goto(r, IF IsRevoked(blob[r]) THEN "refused" ELSE "latestAgain")
    /\ UNCHANGED <<dataRoot, server, starts, cutOff, blob, unwritten, uploads, before>>

(* A slip for RejectedLeavesNothing: publish alone asks for the version. *)
CheckLatestOnce(r) ==
    /\ \/ pc[r] = "latest" /\ Goto(r, "clear")
       \/ /\ pc[r] = "latestAgain"
          /\ Goto(r, IF IsOutdated(blob[r]) THEN "refused" ELSE "insert")
    /\ UNCHANGED <<dataRoot, server, starts, cutOff, blob, unwritten, uploads, before>>

(* The rollback rule, asked by ingest and once more by publish. *)
CheckLatest(r) ==
    /\ \/ pc[r] = "latest" /\ Goto(r, IF IsOutdated(blob[r]) THEN "refused" ELSE "clear")
       \/ /\ pc[r] = "latestAgain"
          /\ Goto(r, IF IsOutdated(blob[r]) THEN "refused" ELSE "insert")
    /\ UNCHANGED <<dataRoot, server, starts, cutOff, blob, unwritten, uploads, before>>

-----------------------------------------------------------------------------
(* stage_bundle *)

(* A slip for PublishedFilesIntact: what a crash left is not removed. *)
KeepTmp(r) ==
    /\ pc[r] = "clear"
    /\ tmp' = [tmp EXCEPT ![Key(blob[r])].exists = TRUE]
    /\ unwritten' = [unwritten EXCEPT ![r] = Bundle[blob[r]].files]
    /\ Goto(r, "write")
    /\ UNCHANGED <<db, stage, audit, server, starts, cutOff, blob, uploads, before>>

ClearTmp(r) ==
    /\ pc[r] = "clear"
    /\ tmp' = [tmp EXCEPT ![Key(blob[r])] = EmptyDir]
    /\ unwritten' = [unwritten EXCEPT ![r] = Bundle[blob[r]].files]
    /\ Goto(r, "write")
    /\ UNCHANGED <<db, stage, audit, server, starts, cutOff, blob, uploads, before>>

(* A slip for UploadEnds: the file stays in the list. *)
WriteFileAgain(r) ==
    /\ pc[r] = "write"
    /\ \E f \in unwritten[r] :
        /\ \A g \in unwritten[r] : f <= g
        /\ tmp' = [tmp EXCEPT ![Key(blob[r])] = Put(@, f, blob[r])]
    /\ UNCHANGED <<db, stage, audit, server, starts, cutOff, pc, blob, unwritten, uploads, before>>

(* One file, in the order of the sorted paths. *)
WriteFile(r) ==
    /\ pc[r] = "write"
    /\ \E f \in unwritten[r] :
        /\ \A g \in unwritten[r] : f <= g
        /\ tmp' = [tmp EXCEPT ![Key(blob[r])] = Put(@, f, blob[r])]
        /\ unwritten' = [unwritten EXCEPT ![r] = @ \ {f}]
    /\ UNCHANGED <<db, stage, audit, server, starts, cutOff, pc, blob, uploads, before>>

(* rmtree of what is staged, then os.replace; a crash may come between. *)
ClearStage(r) ==
    /\ pc[r] = "write"
    /\ unwritten[r] = {}
    /\ stage' = [stage EXCEPT ![Key(blob[r])] = NoDir]
    /\ Goto(r, "move")
    /\ UNCHANGED <<db, tmp, audit, server, starts, cutOff, blob, unwritten, uploads, before>>

(* os.replace takes a directory to a free place, or to an empty one. *)
CanMove(k) == tmp[k].exists /\ stage[k].entries = {}

(* Otherwise the OSError leaves through the finally clause.                *)
Move(r) ==
    LET k == Key(blob[r])
    IN  /\ pc[r] = "move"
        /\ stage' = IF CanMove(k) THEN [stage EXCEPT ![k] = tmp[k]] ELSE stage
        /\ tmp' = [tmp EXCEPT ![k] = NoDir]
        /\ Goto(r, IF CanMove(k) THEN "cleanup" ELSE "refused")
        /\ UNCHANGED <<db, audit, server, starts, cutOff, blob, unwritten, uploads, before>>

(* The finally clause: by now the directory may be another thread's. *)
Cleanup(r) ==
    /\ pc[r] = "cleanup"
    /\ tmp' = [tmp EXCEPT ![Key(blob[r])] = NoDir]
    /\ Goto(r, "revokedAgain")
    /\ UNCHANGED <<db, stage, audit, server, starts, cutOff, blob, unwritten, uploads, before>>

-----------------------------------------------------------------------------
(* publish and the audit trail. *)

(* A slip for RecordedUnlessCrashed: published without a record. *)
InsertSilently(r) ==
    /\ pc[r] = "insert"
    /\ bundles' = IF IsPublished(blob[r]) THEN bundles ELSE bundles \cup {RowOf(blob[r])}
    /\ Goto(r, IF IsPublished(blob[r]) THEN "refused" ELSE "done")
    /\ UNCHANGED <<created, revocations, files, audit, server, starts, cutOff, blob, unwritten,
                   uploads, before>>

(* get finds the row, or the INSERT meets the primary key, or it is added. *)
Insert(r) ==
    /\ pc[r] = "insert"
    /\ bundles' = IF IsPublished(blob[r]) THEN bundles ELSE bundles \cup {RowOf(blob[r])}
    /\ Goto(r, IF IsPublished(blob[r]) THEN "refused" ELSE "audit")
    /\ UNCHANGED <<created, revocations, files, audit, server, starts, cutOff, blob, unwritten,
                   uploads, before>>

(* A slip for TypeOK: the record names the bundle without its version. *)
AppendName(r) ==
    /\ pc[r] = "audit"
    /\ audit' = Append(audit, <<Bundle[blob[r]].name>>)
    /\ Goto(r, "done")
    /\ UNCHANGED <<db, files, server, starts, cutOff, blob, unwritten, uploads, before>>

AppendRecord(r) ==
    /\ pc[r] = "audit"
    /\ audit' = Append(audit, Key(blob[r]))
    /\ Goto(r, "done")
    /\ UNCHANGED <<db, files, server, starts, cutOff, blob, unwritten, uploads, before>>

-----------------------------------------------------------------------------

RequestStep(r) ==
    \/ Verify(r) \/ CheckRevoked(r) \/ CheckLatest(r)
    \/ ClearTmp(r) \/ WriteFile(r) \/ ClearStage(r) \/ Move(r) \/ Cleanup(r)
    \/ Insert(r) \/ AppendRecord(r)

Next ==
    \/ Open \/ RunSeed \/ LoadRevocations \/ Crash
    \/ \E r \in Requests :
        \/ \E b \in Uploads[r] : Receive(r, b)
        \/ RequestStep(r)

(* A thread of a live server is scheduled until it has answered. *)
Spec == Init /\ [][Next]_vars /\ \A r \in Requests : WF_vars(RequestStep(r))

=============================================================================
