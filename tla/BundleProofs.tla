---------------------------- MODULE BundleProofs -----------------------------
(***************************************************************************)
(* Theorems about the bundle server, for every set of threads and bundles  *)
(* and any number of uploads and starts.  Types, revocation and the record *)
(* of what is published need no assumption.  The rest is about uploads of  *)
(* one name that do not overlap: stage_bundle and publish keep each other's*)
(* promises only when between the check of the version and the INSERT      *)
(* nobody else works on the name.                                          *)
(***************************************************************************)
EXTENDS BundleProperties, SequenceTheorems, TLAPS

(* No two uploads of one name are handled at the same time. *)
NoOverlap ==
    \A r, s \in Requests :
        Running(r) /\ Running(s) /\ Bundle[blob[r]].name = Bundle[blob[s]].name => r = s

-----------------------------------------------------------------------------
(* The inductive invariants. *)

Dirs == [exists : BOOLEAN, entries : SUBSET [path : Nat, content : Blobs]]

(* The types of TypeOK, part by part, with the domains of the functions. *)
Memory ==
    /\ pc \in [Requests -> Places]
    /\ blob \in [Requests -> Blobs \cup {Seeded}]
    /\ unwritten \in [Requests -> SUBSET Nat]
    /\ uploads \in [Requests -> 0..MaxUploads]
    /\ before = [r \in Requests |-> before[r]]

DataRoot ==
    /\ created \in BOOLEAN
    /\ bundles \subseteq SeedRows \cup {RowOf(b) : b \in Blobs}
    /\ revocations \subseteq Revoked
    /\ tmp \in [Keys -> Dirs] /\ stage \in [Keys -> Dirs]
    /\ \A k \in Keys : IsDir(tmp[k]) /\ IsDir(stage[k])
    /\ audit \in Seq(Keys)

Server ==
    /\ server \in {"down", "seed", "revocations", "up"}
    /\ starts \in 0..MaxStarts
    /\ cutOff \in BOOLEAN

(* A thread has files to write in stage_bundle only, keeps the upload it   *)
(* was sent, and runs on a live server.                                    *)
Busy ==
    \A r \in Requests :
        /\ pc[r] # "write" => unwritten[r] = {}
        /\ pc[r] # "idle" => blob[r] \in Uploads[r]
        /\ Running(r) => server = "up" /\ unwritten[r] \subseteq Bundle[blob[r]].files

(* Seed and revocations are loaded once, before the first upload, or never. *)
FirstStart ==
    /\ created /\ server \in {"down", "up"} => cutOff \/ revocations = Revoked
    /\ ~created => server = "down" /\ bundles = {}
    /\ starts = 0 => ~created
    /\ server = "seed" => bundles = {}
    /\ ~created \/ server \in {"seed", "revocations"} =>
           /\ bundles \subseteq SeedRows
           /\ audit = <<>>
           /\ \A r \in Requests : pc[r] = "idle"

Typed == Memory /\ DataRoot /\ Server /\ Busy /\ FirstStart

(* Where a thread stands once the version was compared ... *)
Compared == {"clear", "write", "move", "cleanup", "revokedAgain", "latestAgain", "insert"}

(* ... and once its files are in place. *)
InPlace == {"cleanup", "revokedAgain", "latestAgain", "insert"}

RevocationKept ==
    /\ \A row \in Uploaded : Registry!KeyOf(row) \notin revocations
    /\ \A r \in Requests :
           pc[r] \in {"latest"} \cup Compared => Key(blob[r]) \notin revocations

Recorded == {audit[k] : k \in DOMAIN audit}

(* A record is of a published upload; who is about to write one has        *)
(* published.                                                              *)
RecordsArePublished ==
    /\ \A key \in Recorded : \E row \in Uploaded : Registry!KeyOf(row) = key
    /\ \A r \in Requests : pc[r] = "audit" => RowOf(blob[r]) \in bundles

(* While nobody else works on its name: the upload is still the newest,    *)
(* the directories hold what it wrote, and its record is not written.      *)
UploadAlone ==
    \A r \in Requests :
        /\ pc[r] \in Compared => ~IsOutdated(blob[r])
        /\ pc[r] = "write" =>
               tmp[Key(blob[r])] =
                   [exists |-> TRUE,
                    entries |-> {Entry(f, blob[r]) : f \in Bundle[blob[r]].files \ unwritten[r]}]
        /\ pc[r] = "move" =>
               tmp[Key(blob[r])] = Complete(blob[r]) /\ stage[Key(blob[r])] = NoDir
        /\ pc[r] \in InPlace => stage[Key(blob[r])] = Complete(blob[r])
        /\ pc[r] = "audit" => Key(blob[r]) \notin Recorded

(* Until the version was compared an upload has touched nothing. *)
Early == {"verify", "revoked", "latest"}

NothingTouched ==
    \A r \in Requests : pc[r] \in Early => before[r] = {Footprint(blob[r])}

-----------------------------------------------------------------------------
(* Blobs, keys and rows. *)

LEMMA BlobKey ==
    ASSUME NEW b \in Blobs
    PROVE  /\ Key(b) \in Keys
           /\ RowOf(b).blob = b /\ RowOf(b).name = Bundle[b].name
           /\ RowOf(b).version = Bundle[b].version
           /\ Registry!KeyOf(RowOf(b)) = Key(b)
           /\ Bundle[b].version \in Nat /\ Bundle[b].files \subseteq Nat
           /\ b # Seeded
PROOF
  BY BundleAssumption, SeedAssumption DEF Keys, Key, RowOf, Registry!KeyOf

LEMMA UploadIsBlob ==
    ASSUME NEW r \in Requests, NEW b \in Uploads[r]
    PROVE  b \in Blobs
PROOF
  BY DEF Blobs

(* What an upload published is the row of a bundle. *)
LEMMA UploadedRow ==
    ASSUME NEW R, R \subseteq SeedRows \cup {RowOf(b) : b \in Blobs},
           NEW row \in R, row.blob # Seeded
    PROVE  row.blob \in Blobs /\ row = RowOf(row.blob)
PROOF
  BY SeedAssumption DEF RowOf

LEMMA RowVersion ==
    ASSUME NEW R, R \subseteq SeedRows \cup {RowOf(b) : b \in Blobs}, NEW row \in R
    PROVE  row.version \in Nat
PROOF
  BY SeedAssumption, BlobKey

LEMMA SameKey ==
    ASSUME NEW b \in Blobs, NEW c \in Blobs, Key(b) = Key(c)
    PROVE  Bundle[b].name = Bundle[c].name /\ Bundle[b].version = Bundle[c].version
PROOF
  BY DEF Key

-----------------------------------------------------------------------------
(* Directories. *)

GoodDir(dir) == dir \in Dirs /\ IsDir(dir)

LEMMA FreshDirs ==
    GoodDir(NoDir) /\ GoodDir(EmptyDir)
PROOF
  BY DEF GoodDir, Dirs, IsDir, NoDir, EmptyDir

LEMMA PutGood ==
    ASSUME NEW dir, GoodDir(dir), NEW b \in Blobs, NEW f \in Bundle[b].files
    PROVE  GoodDir(Put(dir, f, b))
PROOF
<1> DEFINE rest == {e \in dir.entries : e.path # f}
           all == rest \cup {Entry(f, b)}
<1>1. f \in Nat
  BY BlobKey
<1>2. \A e \in rest : e \in [path : Nat, content : Blobs]
                      /\ e.content \in Blobs /\ e.path \in Bundle[e.content].files
  BY DEF GoodDir, Dirs, IsDir
<1>3. Entry(f, b) \in [path : Nat, content : Blobs]
      /\ Entry(f, b).content = b /\ Entry(f, b).path = f
  BY <1>1 DEF Entry
<1>4. \A e \in all : e \in [path : Nat, content : Blobs]
                     /\ e.content \in Blobs /\ e.path \in Bundle[e.content].files
  BY <1>2, <1>3
<1>5. Put(dir, f, b) = [exists |-> TRUE, entries |-> all]
  BY DEF Put
<1> HIDE DEF all
<1>6. Put(dir, f, b).entries = all /\ Put(dir, f, b).exists = TRUE
  BY <1>5
<1>7. all \subseteq [path : Nat, content : Blobs]
  BY <1>4
<1>8. Put(dir, f, b) \in Dirs
  BY <1>5, <1>7 DEF Dirs
<1> QED
  BY <1>4, <1>6, <1>8 DEF GoodDir, IsDir

-----------------------------------------------------------------------------
(* Types. *)

LEMMA TypedIsTyped ==
    Typed => TypeOK
PROOF
<1>1. ASSUME NEW r \in Requests
      PROVE  Running(r) => pc[r] # "idle"
  BY DEF Running, Ended
<1> QED
  BY <1>1 DEF Typed, TypeOK, Memory, DataRoot, Server, Busy

LEMMA TypedInit ==
    Init => Typed
PROOF
<1> SUFFICES ASSUME Init
             PROVE  Typed
  OBVIOUS
<1>1. Memory
  BY BoundsAssumption DEF Init, Memory, Places, Ended
<1>2. DataRoot
  <2>1. tmp \in [Keys -> Dirs] /\ stage \in [Keys -> Dirs]
    BY FreshDirs DEF Init, GoodDir
  <2>2. \A k \in Keys : tmp[k] = NoDir /\ stage[k] = NoDir
    BY DEF Init
  <2>3. \A k \in Keys : IsDir(tmp[k]) /\ IsDir(stage[k])
    BY <2>2, FreshDirs DEF GoodDir
  <2>4. audit \in Seq(Keys)
    BY DEF Init, Registry!Init
  <2> QED
    BY <2>1, <2>3, <2>4 DEF Init, Registry!Init, DataRoot
<1>3. Server
  <2>1. cutOff \in BOOLEAN
    BY Zenon DEF Init
  <2> QED
    BY <2>1, BoundsAssumption DEF Init, Server
<1>4. Busy
  BY DEF Init, Busy, Running, Ended
<1>5. FirstStart
  BY DEF Init, Registry!Init, FirstStart
<1> QED
  BY <1>1, <1>2, <1>3, <1>4, <1>5 DEF Typed

(* Before an upload arrives the server has come up. *)
LEMMA UploadsComeLater ==
    ASSUME FirstStart, \E r \in Requests : pc[r] # "idle"
    PROVE  created /\ starts # 0 /\ server \notin {"seed", "revocations"}
PROOF
  BY DEF FirstStart

LEMMA TypedStart ==
    ASSUME Typed, Open \/ RunSeed \/ LoadRevocations
    PROVE  Typed'
PROOF
<1> USE DEF Typed
<1>1. Memory'
  BY DEF Open, RunSeed, LoadRevocations, thread, Memory
<1>2. DataRoot'
  <2>1. CASE Open
    BY <2>1 DEF Open, files, DataRoot
  <2>2. CASE RunSeed
    BY <2>2 DEF RunSeed, files, DataRoot
  <2>3. CASE LoadRevocations
    BY <2>3 DEF LoadRevocations, files, DataRoot
  <2> QED
    BY <2>1, <2>2, <2>3
<1>3. Server'
  BY BoundsAssumption DEF Open, RunSeed, LoadRevocations, Server
<1>4. Busy'
  <2>1. server # "up"
    BY DEF Open, RunSeed, LoadRevocations
  <2>2. \A r \in Requests : ~Running(r)
    BY <2>1 DEF Busy
  <2> QED
    BY <2>2 DEF Open, RunSeed, LoadRevocations, thread, Busy, Running
<1>5. FirstStart'
  <2>1. CASE Open
    BY <2>1 DEF Open, thread, FirstStart, Server
  <2>2. CASE RunSeed
    BY <2>2 DEF RunSeed, thread, FirstStart
  <2>3. CASE LoadRevocations
    BY <2>3 DEF LoadRevocations, thread, FirstStart
  <2> QED
    BY <2>1, <2>2, <2>3
<1> QED
  BY <1>1, <1>2, <1>3, <1>4, <1>5

LEMMA TypedCrash ==
    ASSUME Typed, Crash
    PROVE  Typed'
PROOF
<1> USE DEF Typed
<1>1. Memory'
  <2>1. \A r \in Requests : (IF Running(r) THEN "killed" ELSE pc[r]) \in Places
    BY DEF Memory, Places, Ended
  <2> QED
    BY <2>1 DEF Crash, Memory
<1>2. DataRoot'
  BY DEF Crash, dataRoot, db, files, DataRoot
<1>3. Server'
  BY DEF Crash, Server
<1>4. Busy'
  <2>1. \A r \in Requests : ~ Running(r)'
    BY DEF Crash, Running, Ended
  <2>2. \A r \in Requests : pc'[r] # "idle" => pc[r] # "idle"
    BY DEF Crash, Running, Ended
  <2> QED
    BY <2>1, <2>2 DEF Crash, Busy
<1>5. FirstStart'
  <2>1. created
    BY DEF Crash, FirstStart
  <2>2. cutOff \/ server \in {"seed", "revocations"} => cutOff'
    BY Zenon DEF Crash
  <2>3. cutOff' \/ revocations' = Revoked
    BY <2>1, <2>2 DEF Crash, dataRoot, db, FirstStart, Server
  <2>4. ~created' => server' = "down" /\ bundles' = {}
    BY <2>1 DEF Crash, dataRoot, db
  <2> QED
    BY <2>1, <2>3, <2>4 DEF Crash, dataRoot, db, FirstStart
<1> QED
  BY <1>1, <1>2, <1>3, <1>4, <1>5

LEMMA TypedReceive ==
    ASSUME Typed, NEW r \in Requests, NEW b \in Uploads[r], Receive(r, b)
    PROVE  Typed'
PROOF
<1> USE DEF Typed
<1>0. b \in Blobs
  BY UploadIsBlob
<1>1. Memory'
  <2>1. uploads' \in [Requests -> 0..MaxUploads]
    BY BoundsAssumption DEF Receive, Memory
  <2>2. before' = [s \in Requests |-> before'[s]]
    BY DEF Receive, Memory
  <2>3. "verify" \in Places
    BY DEF Places
  <2> QED
    BY <1>0, <2>1, <2>2, <2>3 DEF Receive, Memory
<1>2. DataRoot'
  BY DEF Receive, dataRoot, db, files, DataRoot
<1>3. Server'
  BY DEF Receive, Server
<1>4. Busy'
  BY DEF Receive, Memory, Busy, Running, Ended
<1>5. FirstStart'
  BY DEF Receive, dataRoot, db, FirstStart
<1> QED
  BY <1>1, <1>2, <1>3, <1>4, <1>5

(* What a thread leaves alone: the other threads, the directories of other *)
(* keys, and all there is of rows and records.                             *)
Undisturbed(r) ==
    /\ UNCHANGED <<created, revocations, server, starts, cutOff, blob, uploads, before>>
    /\ \A s \in Requests : s # r => pc'[s] = pc[s] /\ unwritten'[s] = unwritten[s]
    /\ \A k \in Keys : k # Key(blob[r]) => tmp'[k] = tmp[k] /\ stage'[k] = stage[k]
    /\ bundles' = bundles \/ bundles' = bundles \cup {RowOf(blob[r])}
    /\ audit' = audit \/ audit' = Append(audit, Key(blob[r]))

LEMMA StepIsOfThread ==
    ASSUME Typed, NEW r \in Requests, RequestStep(r)
    PROVE  /\ Running(r) /\ server = "up" /\ created
           /\ blob[r] \in Uploads[r] /\ blob[r] \in Blobs
           /\ Key(blob[r]) \in Keys
           /\ Undisturbed(r)
PROOF
<1> USE DEF Typed
<1>1. Running(r)
  BY DEF RequestStep, Verify, CheckRevoked, CheckLatest, ClearTmp, WriteFile, ClearStage,
         Move, Cleanup, Insert, AppendRecord, Running, Ended
<1>2. pc[r] # "idle"
  BY <1>1 DEF Running, Ended
<1>3. server = "up" /\ created
  BY <1>1, <1>2, UploadsComeLater DEF Busy
<1>4. blob[r] \in Uploads[r] /\ blob[r] \in Blobs
  BY <1>2, UploadIsBlob DEF Busy
<1>5. Key(blob[r]) \in Keys
  BY <1>4, BlobKey
<1>6. Undisturbed(r)
  <2> DEFINE k == Key(blob[r])
  <2> HIDE DEF k
  <2>0. \A p : Goto(r, p) => \A s \in Requests : s # r => pc'[s] = pc[s]
    BY DEF Goto, Memory
  <2>1. CASE Verify(r) \/ CheckRevoked(r) \/ CheckLatest(r)
    BY <2>0, <2>1 DEF Verify, CheckRevoked, CheckLatest, dataRoot, db, files, Undisturbed
  <2>2. CASE ClearTmp(r)
    BY <2>0, <2>2 DEF ClearTmp, db, Undisturbed, Memory, DataRoot
  <2>3. CASE WriteFile(r)
    BY <2>3 DEF WriteFile, db, Undisturbed, Memory, DataRoot
  <2>4. CASE ClearStage(r)
    BY <2>0, <2>4 DEF ClearStage, db, Undisturbed, Memory, DataRoot
  <2>5. CASE Move(r)
    BY <2>0, <2>5 DEF Move, db, Undisturbed, Memory, DataRoot
  <2>6. CASE Cleanup(r)
    BY <2>0, <2>6 DEF Cleanup, db, Undisturbed, Memory, DataRoot
  <2>7. CASE Insert(r)
    BY <2>0, <2>7 DEF Insert, files, Undisturbed
  <2>8. CASE AppendRecord(r)
    BY <2>0, <2>8 DEF AppendRecord, db, files, Undisturbed
  <2> QED
    BY <2>1, <2>2, <2>3, <2>4, <2>5, <2>6, <2>7, <2>8 DEF RequestStep
<1> QED
  BY <1>1, <1>3, <1>4, <1>5, <1>6

LEMMA GotoPlace ==
    ASSUME Memory, NEW r \in Requests, NEW p \in Places, Goto(r, p)
    PROVE  pc' \in [Requests -> Places] /\ pc'[r] = p
PROOF
  BY DEF Goto, Memory

LEMMA TypedRequestStep ==
    ASSUME Typed, NEW r \in Requests, RequestStep(r)
    PROVE  Typed'
PROOF
<1> USE DEF Typed
<1>0. /\ Running(r) /\ server = "up" /\ created
      /\ blob[r] \in Uploads[r] /\ blob[r] \in Blobs /\ Key(blob[r]) \in Keys
      /\ Undisturbed(r)
  BY StepIsOfThread
<1>1. pc' \in [Requests -> Places]
  <2> USE DEF Places, Ended
  <2>1. CASE Verify(r)
    BY <2>1, GotoPlace DEF Verify
  <2>2. CASE CheckRevoked(r)
    BY <2>2, GotoPlace DEF CheckRevoked
  <2>3. CASE CheckLatest(r)
    BY <2>3, GotoPlace DEF CheckLatest
  <2>4. CASE WriteFile(r)
    BY <2>4 DEF WriteFile, Memory
  <2>5. CASE Move(r)
    BY <2>5, GotoPlace DEF Move
  <2>6. CASE Insert(r)
    BY <2>6, GotoPlace DEF Insert
  <2>7. CASE ClearTmp(r) \/ ClearStage(r) \/ Cleanup(r) \/ AppendRecord(r)
    BY <2>7, GotoPlace DEF ClearTmp, ClearStage, Cleanup, AppendRecord
  <2> QED
    BY <2>1, <2>2, <2>3, <2>4, <2>5, <2>6, <2>7 DEF RequestStep
(* Only stage_bundle has files left to write. *)
<1>2. /\ unwritten' \in [Requests -> SUBSET Nat]
      /\ unwritten'[r] \subseteq Bundle[blob[r]].files
      /\ pc'[r] # "write" => unwritten'[r] = {}
  <2>0. /\ unwritten[r] \subseteq Bundle[blob[r]].files
        /\ pc[r] # "write" => unwritten[r] = {}
    BY <1>0 DEF Busy
  <2>1. CASE ClearTmp(r)
    BY <1>0, <2>1, BlobKey DEF ClearTmp, Goto, Memory
  <2>2. CASE WriteFile(r)
    BY <2>0, <2>2 DEF WriteFile, Memory
  <2>3. CASE ClearStage(r)
    BY <2>0, <2>3 DEF ClearStage, Goto, Memory
  <2>4. CASE Verify(r) \/ CheckRevoked(r) \/ CheckLatest(r) \/ Move(r) \/ Cleanup(r)
    BY <2>0, <2>4 DEF Verify, CheckRevoked, CheckLatest, Move, Cleanup, Memory
  <2>5. CASE Insert(r) \/ AppendRecord(r)
    BY <2>0, <2>5 DEF Insert, AppendRecord, Memory
  <2> QED
    BY <2>1, <2>2, <2>3, <2>4, <2>5 DEF RequestStep
<1>3. Memory'
  BY <1>0, <1>1, <1>2 DEF Undisturbed, Memory
<1>4. /\ tmp' \in [Keys -> Dirs] /\ stage' \in [Keys -> Dirs]
      /\ IsDir(tmp'[Key(blob[r])]) /\ IsDir(stage'[Key(blob[r])])
  <2> DEFINE k == Key(blob[r])
  <2>0. /\ k \in Keys /\ GoodDir(NoDir) /\ GoodDir(EmptyDir)
        /\ GoodDir(tmp[k]) /\ GoodDir(stage[k])
        /\ tmp \in [Keys -> Dirs] /\ stage \in [Keys -> Dirs]
    BY <1>0, FreshDirs DEF GoodDir, DataRoot
  <2>1. CASE ClearTmp(r)
    BY <2>0, <2>1 DEF ClearTmp, GoodDir
  <2>2. CASE WriteFile(r)
    <3>1. PICK f \in unwritten[r] : tmp' = [tmp EXCEPT ![k] = Put(@, f, blob[r])]
      BY <2>2 DEF WriteFile
    <3> DEFINE dir == Put(tmp[k], f, blob[r])
    <3>2. GoodDir(dir)
      BY <1>0, <2>0, PutGood DEF Busy
    <3>3. stage' = stage /\ tmp' = [tmp EXCEPT ![k] = dir]
      BY <2>2, <3>1 DEF WriteFile
    <3> HIDE DEF k, dir
    <3>4. tmp' \in [Keys -> Dirs] /\ tmp'[k] = dir
      BY <2>0, <3>2, <3>3 DEF GoodDir
    <3> QED
      BY <2>0, <3>2, <3>3, <3>4 DEF GoodDir, k
  <2>3. CASE ClearStage(r)
    BY <2>0, <2>3 DEF ClearStage, GoodDir
  <2>4. CASE Move(r)
    BY <2>0, <2>4 DEF Move, GoodDir
  <2>5. CASE Cleanup(r)
    BY <2>0, <2>5 DEF Cleanup, GoodDir
  <2>6. CASE Verify(r) \/ CheckRevoked(r) \/ CheckLatest(r) \/ Insert(r) \/ AppendRecord(r)
    BY <2>0, <2>6 DEF Verify, CheckRevoked, CheckLatest, Insert, AppendRecord, dataRoot,
                      files, GoodDir
  <2> QED
    BY <2>1, <2>2, <2>3, <2>4, <2>5, <2>6 DEF RequestStep
<1>5. DataRoot'
  <2>1. \A k \in Keys : IsDir(tmp'[k]) /\ IsDir(stage'[k])
    BY <1>0, <1>4 DEF Undisturbed, DataRoot
  <2>2. audit' \in Seq(Keys)
    BY <1>0 DEF Undisturbed, DataRoot
  <2>3. bundles' \subseteq SeedRows \cup {RowOf(b) : b \in Blobs}
    BY <1>0 DEF Undisturbed, DataRoot
  <2> QED
    BY <1>0, <1>4, <2>1, <2>2, <2>3 DEF Undisturbed, DataRoot
<1>6. Server'
  BY <1>0 DEF Undisturbed, Server
<1>7. Busy'
  BY <1>0, <1>2 DEF Undisturbed, Busy, Running, Ended
<1>8. FirstStart'
  BY <1>0 DEF Undisturbed, FirstStart
<1> QED
  BY <1>3, <1>5, <1>6, <1>7, <1>8

LEMMA TypedStep ==
    ASSUME Typed, [Next]_vars
    PROVE  Typed'
PROOF
<1>1. CASE UNCHANGED vars
  BY <1>1 DEF Typed, vars, dataRoot, db, files, thread, Memory, DataRoot, Server, Busy,
                          FirstStart, Running
<1> QED
  BY <1>1, TypedStart, TypedCrash, TypedReceive, TypedRequestStep DEF Next

(***************************************************************************)
(* The types of the data root and of the threads' memory, for any number   *)
(* of threads and bundles; a thread runs on a live server only, with an    *)
(* upload of its own (Registry.open, IngestService.ingest).                *)
(***************************************************************************)
THEOREM TypeCorrect ==
    Spec => []TypeOK
PROOF
<1>1. Typed => TypeOK
  BY TypedIsTyped
<1> QED
  BY <1>1, TypedInit, TypedStep, PTL DEF Spec

-----------------------------------------------------------------------------
(* Revocations and records: no assumption on the threads. *)

LEMMA PlaceRuns ==
    ASSUME NEW r \in Requests,
           pc[r] \in {"verify", "revoked", "latest", "audit"} \cup Compared
    PROVE  Running(r)
PROOF
  BY DEF Running, Ended, Compared

(* Nobody runs while the server starts, and what it loads is not uploaded. *)
LEMMA StartFacts ==
    ASSUME Typed, Open \/ RunSeed \/ LoadRevocations
    PROVE  /\ \A r \in Requests : ~Running(r)
           /\ Uploaded' = Uploaded /\ UNCHANGED <<files, audit, thread>>
PROOF
<1>1. server # "up"
  BY DEF Open, RunSeed, LoadRevocations
<1>2. Uploaded' = Uploaded
  BY SeedAssumption DEF Open, RunSeed, LoadRevocations, Uploaded
<1> QED
  BY <1>1, <1>2 DEF Typed, Busy, Open, RunSeed, LoadRevocations

(* Nobody runs after a crash, which touches no file. *)
LEMMA CrashFacts ==
    ASSUME Crash
    PROVE  /\ \A r \in Requests : ~ Running(r)' /\ pc'[r] \in {"killed", pc[r]}
           /\ Uploaded' = Uploaded /\ Recorded' = Recorded
           /\ UNCHANGED <<created, bundles, revocations, tmp, stage, audit, blob, before>>
PROOF
  BY DEF Crash, Running, Ended, Uploaded, Recorded, dataRoot, db, files

LEMMA ReceiveFacts ==
    ASSUME Typed, NEW r \in Requests, NEW b \in Uploads[r], Receive(r, b)
    PROVE  /\ pc'[r] = "verify" /\ blob'[r] = b /\ before'[r] = {Footprint(b)}
           /\ ~Running(r) /\ server = "up"
           /\ \A s \in Requests : s # r => /\ pc'[s] = pc[s] /\ blob'[s] = blob[s]
                                           /\ before'[s] = before[s]
           /\ Uploaded' = Uploaded /\ Recorded' = Recorded
           /\ UNCHANGED <<created, bundles, revocations, tmp, stage, audit, server, starts,
                          cutOff, unwritten>>
PROOF
  BY DEF Receive, Typed, Memory, Uploaded, Recorded, dataRoot, db, files

LEMMA UploadedGrows ==
    ASSUME Typed, NEW r \in Requests, RequestStep(r)
    PROVE  /\ Uploaded \subseteq Uploaded'
           /\ Uploaded' \subseteq Uploaded \cup {RowOf(blob[r])}
PROOF
  BY StepIsOfThread DEF Undisturbed, Uploaded

LEMMA AppendRecorded ==
    ASSUME NEW S, NEW a \in Seq(S), NEW x \in S, NEW y \in Seq(S), y = Append(a, x)
    PROVE  /\ {y[k] : k \in DOMAIN y} = {a[k] : k \in DOMAIN a} \cup {x}
           /\ \A key : key # x => {k \in DOMAIN y : y[k] = key} = {k \in DOMAIN a : a[k] = key}
PROOF
<1>1. /\ DOMAIN a = 1..Len(a) /\ Len(a) \in Nat
      /\ DOMAIN y = 1..(Len(a) + 1) /\ y[Len(a) + 1] = x
      /\ \A k \in 1..Len(a) : y[k] = a[k]
  OBVIOUS
<1>2. DOMAIN y = DOMAIN a \cup {Len(a) + 1}
  BY <1>1
<1> QED
  BY <1>1, <1>2

LEMMA RecordedGrows ==
    ASSUME Typed, NEW r \in Requests, RequestStep(r)
    PROVE  \/ audit' = audit /\ Recorded' = Recorded
           \/ /\ audit' = Append(audit, Key(blob[r]))
              /\ Recorded' = Recorded \cup {Key(blob[r])}
              /\ \A key : key # Key(blob[r]) =>
                     {k \in DOMAIN audit' : audit'[k] = key} = {k \in DOMAIN audit : audit[k] = key}
PROOF
<1>1. audit \in Seq(Keys) /\ Key(blob[r]) \in Keys
  BY StepIsOfThread DEF Typed, DataRoot
<1>2. CASE audit' = audit
  BY <1>2 DEF Recorded
<1>3. CASE audit' = Append(audit, Key(blob[r]))
  <2>1. audit' \in Seq(Keys)
    BY <1>1, <1>3
  <2> QED
    BY <1>1, <1>3, <2>1, AppendRecorded DEF Recorded
<1> QED
  BY <1>2, <1>3, StepIsOfThread DEF Undisturbed

LEMMA RevocationStep ==
    ASSUME Typed, RevocationKept, [Next]_vars
    PROVE  RevocationKept'
PROOF
<1>1. CASE UNCHANGED vars
  BY <1>1 DEF vars, dataRoot, db, thread, RevocationKept, Uploaded
<1>2. CASE Open \/ RunSeed \/ LoadRevocations
  <2>1. /\ \A r \in Requests : pc'[r] \notin {"latest"} \cup Compared
        /\ Uploaded' = Uploaded
    BY <1>2, StartFacts, PlaceRuns DEF thread
  <2>2. CASE LoadRevocations
    <3>1. Uploaded = {}
      BY <2>2, SeedAssumption DEF LoadRevocations, Typed, FirstStart, Uploaded
    <3> QED
      BY <2>1, <3>1 DEF RevocationKept
  <2>3. CASE Open \/ RunSeed
    BY <2>1, <2>3 DEF Open, RunSeed, RevocationKept
  <2> QED
    BY <1>2, <2>2, <2>3
<1>3. CASE Crash
  BY <1>3, CrashFacts DEF RevocationKept, Compared
<1>4. ASSUME NEW r \in Requests, NEW b \in Uploads[r], Receive(r, b)
      PROVE  RevocationKept'
  BY <1>4, ReceiveFacts DEF RevocationKept, Compared
<1>5. ASSUME NEW r \in Requests, RequestStep(r)
      PROVE  RevocationKept'
  <2>1. /\ Undisturbed(r) /\ blob[r] \in Blobs
    BY <1>5, StepIsOfThread
(* The answer of is_revoked still stands. *)
  <2>2. pc'[r] \in {"latest"} \cup Compared => Key(blob[r]) \notin revocations
    <3> USE <2>1 DEF RevocationKept, Compared, Goto, Typed, Memory
    <3>1. CASE Verify(r) \/ CheckRevoked(r)
      BY <3>1 DEF Verify, CheckRevoked, IsRevoked
    <3>2. CASE CheckLatest(r)
      BY <3>2 DEF CheckLatest
    <3>3. CASE ClearTmp(r) \/ WriteFile(r) \/ ClearStage(r)
      BY <3>3 DEF ClearTmp, WriteFile, ClearStage
    <3>4. CASE Move(r) \/ Cleanup(r)
      BY <3>4 DEF Move, Cleanup
    <3>5. CASE Insert(r) \/ AppendRecord(r)
      BY <3>5 DEF Insert, AppendRecord
    <3> QED
      BY <1>5, <3>1, <3>2, <3>3, <3>4, <3>5 DEF RequestStep
  <2>3. ASSUME NEW row \in Uploaded'
        PROVE  Registry!KeyOf(row) \notin revocations
    <3>1. CASE row \in Uploaded
      BY <3>1 DEF RevocationKept
    <3>2. CASE row \notin Uploaded
      <4>1. row = RowOf(blob[r]) /\ bundles' # bundles
        BY <1>5, <3>2, UploadedGrows DEF Uploaded
      <4>2. pc[r] = "insert"
        BY <1>5, <4>1 DEF RequestStep, Verify, CheckRevoked, CheckLatest, ClearTmp, WriteFile,
                          ClearStage, Move, Cleanup, Insert, AppendRecord, dataRoot, db
      <4> QED
        BY <2>1, <4>1, <4>2, BlobKey DEF RevocationKept, Compared
    <3> QED
      BY <3>1, <3>2
  <2> QED
    BY <2>1, <2>2, <2>3 DEF Undisturbed, RevocationKept
<1> QED
  BY <1>1, <1>2, <1>3, <1>4, <1>5 DEF Next

(* The only step that adds a row, and the only one that adds a record. *)
LEMMA InsertAlone ==
    ASSUME Typed, NEW r \in Requests, RequestStep(r), bundles' # bundles
    PROVE  /\ Insert(r) /\ pc[r] = "insert" /\ pc'[r] = "audit" /\ ~IsPublished(blob[r])
           /\ bundles' = bundles \cup {RowOf(blob[r])}
PROOF
<1>1. Insert(r)
  BY DEF RequestStep, Verify, CheckRevoked, CheckLatest, ClearTmp, WriteFile, ClearStage, Move,
         Cleanup, AppendRecord, dataRoot, db
<1> QED
  BY <1>1 DEF Insert, Goto, Typed, Memory

LEMMA RecordAlone ==
    ASSUME Typed, NEW r \in Requests, RequestStep(r),
           audit' # audit \/ pc[r] = "audit"
    PROVE  /\ AppendRecord(r) /\ pc[r] = "audit" /\ pc'[r] = "done"
           /\ audit' = Append(audit, Key(blob[r]))
PROOF
<1>1. AppendRecord(r)
  BY DEF RequestStep, Verify, CheckRevoked, CheckLatest, ClearTmp, WriteFile, ClearStage, Move,
         Cleanup, Insert, dataRoot, files
<1> QED
  BY <1>1 DEF AppendRecord, Goto, Typed, Memory

LEMMA PublishedStep ==
    ASSUME Typed, RecordsArePublished, [Next]_vars
    PROVE  RecordsArePublished'
PROOF
<1> USE DEF RecordsArePublished
<1>1. CASE UNCHANGED vars
  BY <1>1 DEF vars, dataRoot, db, thread, Uploaded, Recorded
<1>2. CASE Open \/ RunSeed \/ LoadRevocations
  <2>1. \A r \in Requests : pc'[r] # "audit"
    BY <1>2, StartFacts, PlaceRuns DEF thread
  <2>2. Uploaded' = Uploaded /\ Recorded' = Recorded
    BY <1>2, StartFacts DEF Recorded
  <2> QED
    BY <2>1, <2>2
<1>3. CASE Crash
  BY <1>3, CrashFacts
<1>4. ASSUME NEW r \in Requests, NEW b \in Uploads[r], Receive(r, b)
      PROVE  RecordsArePublished'
  BY <1>4, ReceiveFacts
<1>5. ASSUME NEW r \in Requests, RequestStep(r)
      PROVE  RecordsArePublished'
  <2>1. Undisturbed(r) /\ blob[r] \in Blobs
    BY <1>5, StepIsOfThread
  <2>2. pc'[r] = "audit" => RowOf(blob[r]) \in bundles'
    <3>1. CASE bundles' # bundles
      BY <1>5, <3>1, InsertAlone
    <3>2. CASE bundles' = bundles /\ ~Insert(r)
      BY <1>5, <3>2 DEF RequestStep, Verify, CheckRevoked, CheckLatest, ClearTmp, WriteFile,
                        ClearStage, Move, Cleanup, AppendRecord, Goto, Typed, Memory
    <3>3. CASE bundles' = bundles /\ Insert(r)
      BY <3>3 DEF Insert, Goto, Typed, Memory
    <3> QED
      BY <3>1, <3>2, <3>3
  <2>3. ASSUME NEW key \in Recorded'
        PROVE  \E row \in Uploaded' : Registry!KeyOf(row) = key
    <3>1. CASE key \in Recorded
      BY <1>5, <3>1, UploadedGrows
    <3>2. CASE key \notin Recorded
      <4>1. key = Key(blob[r]) /\ audit' # audit
        BY <1>5, <3>2, RecordedGrows
      <4>2. pc[r] = "audit"
        BY <1>5, <4>1, RecordAlone
      <4>3. RowOf(blob[r]) \in Uploaded
        BY <2>1, <4>2, BlobKey DEF Uploaded
      <4> QED
        BY <1>5, <2>1, <4>1, <4>3, BlobKey, UploadedGrows
    <3> QED
      BY <3>1, <3>2
  <2>4. \A s \in Requests : pc'[s] = "audit" => RowOf(blob'[s]) \in bundles'
    BY <2>1, <2>2 DEF Undisturbed
  <2> QED
    BY <2>3, <2>4
<1> QED
  BY <1>1, <1>2, <1>3, <1>4, <1>5 DEF Next

HasRecord(row) == \E k \in DOMAIN audit : audit[k] = Registry!KeyOf(row)

Recording(row) == \E r \in Requests : pc[r] = "audit" /\ blob[r] = row.blob

LEMMA RecordedStep ==
    ASSUME Typed, RecordedUnlessCrashed, [Next]_vars
    PROVE  RecordedUnlessCrashed'
PROOF
<1>0. \A row : HasRecord(row) <=> Registry!KeyOf(row) \in Recorded
  BY DEF HasRecord, Recorded
<1>1. CASE UNCHANGED vars
  BY <1>1 DEF vars, dataRoot, db, thread, Uploaded, RecordedUnlessCrashed
<1>2. CASE Open \/ RunSeed
(* The first start goes on to the seed. *)
  BY <1>2 DEF Open, RunSeed, Typed, FirstStart, Server, RecordedUnlessCrashed
<1>3. CASE LoadRevocations
  <2>1. Uploaded' = {}
    BY <1>3, SeedAssumption DEF LoadRevocations, Typed, FirstStart, Uploaded
  <2> QED
    BY <2>1 DEF RecordedUnlessCrashed
<1>4. CASE Crash
  BY <1>4 DEF Crash, RecordedUnlessCrashed
<1>5. ASSUME NEW r \in Requests, NEW b \in Uploads[r], Receive(r, b)
      PROVE  RecordedUnlessCrashed'
  <2>1. pc[r] # "audit"
    BY <1>5, ReceiveFacts, PlaceRuns
  <2>2. starts' = starts
    BY <1>5 DEF Receive
  <2> QED
    BY <1>5, <2>1, <2>2, ReceiveFacts DEF RecordedUnlessCrashed
<1>6. ASSUME NEW r \in Requests, RequestStep(r), starts = 1
      PROVE  RecordedUnlessCrashed'
  <2>1. Undisturbed(r) /\ blob[r] \in Blobs /\ server = "up"
    BY <1>6, StepIsOfThread
  <2>2. \A row \in Uploaded : HasRecord(row) \/ Recording(row)
    BY <1>6, <2>1 DEF RecordedUnlessCrashed, HasRecord, Recording
  <2>3. ASSUME NEW row \in Uploaded'
        PROVE  \/ \E k \in DOMAIN audit' : audit'[k] = Registry!KeyOf(row)
               \/ \E s \in Requests : pc'[s] = "audit" /\ blob'[s] = row.blob
    <3>0. /\ Registry!KeyOf(row) \in Recorded' =>
                 \E k \in DOMAIN audit' : audit'[k] = Registry!KeyOf(row)
          /\ Recorded \subseteq Recorded'
      BY <1>6, RecordedGrows DEF Recorded
    <3>1. CASE row \in Uploaded /\ HasRecord(row)
      BY <1>0, <3>0, <3>1
    <3>2. CASE row \in Uploaded /\ Recording(row)
      <4>1. PICK s \in Requests : pc[s] = "audit" /\ blob[s] = row.blob
        BY <3>2 DEF Recording
      <4>2. CASE s # r
        BY <2>1, <4>1, <4>2 DEF Undisturbed
      <4>3. CASE s = r
        <5>1. audit' = Append(audit, Key(blob[r]))
          BY <1>6, <4>1, <4>3, RecordAlone
        <5>2. audit \in Seq(Keys) /\ Key(blob[r]) \in Keys
          BY <1>6, StepIsOfThread DEF Typed, DataRoot
        <5>3. Len(audit) + 1 \in DOMAIN audit' /\ audit'[Len(audit) + 1] = Key(blob[r])
          BY <5>1, <5>2
        <5>4. row = RowOf(blob[r])
          BY <3>2, <4>1, <4>3, UploadedRow DEF Typed, DataRoot, Uploaded
        <5> QED
          BY <2>1, <5>3, <5>4, BlobKey
      <4> QED
        BY <4>2, <4>3
    <3>3. CASE row \notin Uploaded
      <4>1. row = RowOf(blob[r]) /\ bundles' # bundles
        BY <1>6, <3>3, UploadedGrows DEF Uploaded
      <4>2. pc'[r] = "audit" /\ blob'[r] = row.blob
        BY <1>6, <2>1, <4>1, InsertAlone, BlobKey DEF Undisturbed
      <4> QED
        BY <4>2
    <3> QED
      BY <2>2, <3>1, <3>2, <3>3
  <2> QED
    BY <2>3 DEF RecordedUnlessCrashed
<1>7. ASSUME NEW r \in Requests, RequestStep(r), starts # 1
      PROVE  RecordedUnlessCrashed'
  <2>1. starts' # 1
    BY <1>7, StepIsOfThread DEF Undisturbed
  <2> QED
    BY <2>1 DEF RecordedUnlessCrashed
<1> QED
  BY <1>1, <1>2, <1>3, <1>4, <1>5, <1>6, <1>7 DEF Next

(* What holds whoever uploads what. *)
AnyUploads == Typed /\ RevocationKept /\ RecordsArePublished /\ RecordedUnlessCrashed

LEMMA AnyUploadsInit ==
    Init => AnyUploads
PROOF
<1> SUFFICES ASSUME Init
             PROVE  AnyUploads
  OBVIOUS
<1>1. Uploaded = {} /\ Recorded = {} /\ \A r \in Requests : pc[r] = "idle"
  BY DEF Init, Registry!Init, Uploaded, Recorded
<1> QED
  BY <1>1, TypedInit DEF AnyUploads, RevocationKept, RecordsArePublished,
                         RecordedUnlessCrashed, Compared

LEMMA AnyUploadsStep ==
    ASSUME AnyUploads, [Next]_vars
    PROVE  AnyUploads'
PROOF
  BY TypedStep, RevocationStep, PublishedStep, RecordedStep DEF AnyUploads

(***************************************************************************)
(* No upload publishes a pair of data/revocations.json, however uploads    *)
(* overlap, unless a crash cut off the start that created registry.db: the *)
(* run bundle_first_start shows that case (Registry.open, publish).        *)
(***************************************************************************)
THEOREM RevokedStaysOut ==
    Spec => []RevokedNotPublished
PROOF
<1>1. ASSUME AnyUploads, ~cutOff
      PROVE  RevocationsHonoured
  <2> USE <1>1 DEF AnyUploads, Typed, FirstStart, RevocationsHonoured
  <2>1. CASE revocations = Revoked
    BY <2>1 DEF RevocationKept
  <2>2. CASE revocations # Revoked
    <3>1. bundles \subseteq SeedRows
      BY <2>2 DEF Server
    <3>2. Uploaded = {}
      BY <3>1, SeedAssumption DEF Uploaded
    <3> QED
      BY <3>2
  <2> QED
    BY <2>1, <2>2
<1>2. AnyUploads => RevokedNotPublished
  BY <1>1 DEF RevokedNotPublished
<1> QED
  BY <1>2, AnyUploadsInit, AnyUploadsStep, PTL DEF Spec

(***************************************************************************)
(* Until the first crash, each published upload has its PUBLISH record or  *)
(* its thread is about to write it.                                        *)
(***************************************************************************)
THEOREM RecordedUntilCrash ==
    Spec => []RecordedUnlessCrashed
PROOF
<1>1. AnyUploads => RecordedUnlessCrashed
  BY DEF AnyUploads
<1> QED
  BY <1>1, AnyUploadsInit, AnyUploadsStep, PTL DEF Spec

-----------------------------------------------------------------------------
(* Uploads of one name that do not overlap. *)

(* What a running thread relies on: ~IsOutdated, its directories and that  *)
(* its record is not there.                                                *)
AloneAt(r) ==
    /\ pc[r] \in Compared => ~IsOutdated(blob[r])
    /\ pc[r] = "write" =>
           tmp[Key(blob[r])] =
               [exists |-> TRUE,
                entries |-> {Entry(f, blob[r]) : f \in Bundle[blob[r]].files \ unwritten[r]}]
    /\ pc[r] = "move" =>
           tmp[Key(blob[r])] = Complete(blob[r]) /\ stage[Key(blob[r])] = NoDir
    /\ pc[r] \in InPlace => stage[Key(blob[r])] = Complete(blob[r])
    /\ pc[r] = "audit" => Key(blob[r]) \notin Recorded

Alone == UploadAlone /\ PublishedFilesIntact

LEMMA AloneAtEach ==
    UploadAlone <=> \A r \in Requests : AloneAt(r)
PROOF
  BY DEF UploadAlone, AloneAt

(* A running thread of another name sees nothing of the step. *)
LEMMA OthersAlone ==
    ASSUME Typed, NoOverlap, NEW r \in Requests, RequestStep(r),
           NEW s \in Requests, s # r, AloneAt(s)
    PROVE  AloneAt(s)'
PROOF
<1>1. /\ Running(r) /\ Undisturbed(r) /\ Key(blob[r]) \in Keys /\ blob[r] \in Blobs
  BY StepIsOfThread
<1>2. CASE ~Running(s)
  <2>1. ~ Running(s)'
    BY <1>1, <1>2 DEF Undisturbed, Running
  <2> QED
    BY <2>1 DEF AloneAt, Running, Ended, Compared, InPlace
<1>3. CASE Running(s)
  <2>1. blob[s] \in Blobs /\ Key(blob[s]) \in Keys
    BY <1>3, UploadIsBlob, BlobKey DEF Typed, Busy, Running, Ended
  <2>2. Bundle[blob[s]].name # Bundle[blob[r]].name
    BY <1>1, <1>3 DEF NoOverlap
  <2>3. Key(blob[s]) # Key(blob[r])
    BY <1>1, <2>1, <2>2, SameKey
  <2>4. /\ tmp'[Key(blob[s])] = tmp[Key(blob[s])]
        /\ stage'[Key(blob[s])] = stage[Key(blob[s])]
        /\ pc'[s] = pc[s] /\ unwritten'[s] = unwritten[s] /\ blob'[s] = blob[s]
    BY <1>1, <2>1, <2>3 DEF Undisturbed
  <2>5. IsOutdated(blob[s])' <=> IsOutdated(blob[s])
    BY <1>1, <2>2, <2>4, BlobKey DEF Undisturbed, IsOutdated
  <2>6. Key(blob[s]) \in Recorded' <=> Key(blob[s]) \in Recorded
    BY <2>3, RecordedGrows
  <2> QED
    BY <2>4, <2>5, <2>6 DEF AloneAt
<1> QED
  BY <1>2, <1>3

(* An upload that is not outdated has no row of its version. *)
LEMMA NewestIsUnpublished ==
    ASSUME Typed, NEW b \in Blobs, ~IsOutdated(b)
    PROVE  /\ ~IsPublished(b)
           /\ \A row \in bundles : Registry!KeyOf(row) # Key(b)
           /\ \A row \in bundles : row.name = Bundle[b].name => row.version < Bundle[b].version
PROOF
<1>1. \A row \in bundles : row.version \in Nat
  BY RowVersion DEF Typed, DataRoot
<1>2. Bundle[b].version \in Nat
  BY BlobKey
<1>3. \A row \in bundles : row.name = Bundle[b].name => row.version < Bundle[b].version
  BY <1>1, <1>2 DEF IsOutdated
<1>4. ~IsPublished(b)
  BY <1>2, <1>3 DEF IsPublished
<1>5. \A row \in bundles : Registry!KeyOf(row) # Key(b)
  BY <1>4 DEF IsPublished, Registry!KeyOf, Key
<1> QED
  BY <1>3, <1>4, <1>5

(* stage_bundle writes into a directory of its own: cleared, filled file by*)
(* file, and moved to a place it has cleared.                              *)
LEMMA ThreadAlone ==
    ASSUME Typed, RecordsArePublished, NEW r \in Requests, RequestStep(r), AloneAt(r)
    PROVE  AloneAt(r)'
PROOF
<1> DEFINE b == blob[r]
           k == Key(b)
<1>1. /\ Running(r) /\ Undisturbed(r) /\ k \in Keys /\ b \in Blobs
      /\ pc \in [Requests -> Places] /\ unwritten \in [Requests -> SUBSET Nat]
      /\ tmp \in [Keys -> Dirs] /\ stage \in [Keys -> Dirs]
      /\ unwritten[r] \subseteq Bundle[b].files
  BY StepIsOfThread DEF Typed, Memory, DataRoot, Busy
<1>2. blob' = blob /\ b \in Blobs
  BY <1>1 DEF Undisturbed
<1> USE DEF Compared, InPlace
<1>3. CASE Verify(r) \/ CheckRevoked(r)
  <2>1. /\ UNCHANGED <<bundles, tmp, stage>>
        /\ pc'[r] \in {"revoked", "refused", "latest", "latestAgain"}
        /\ pc'[r] = "latestAgain" => pc[r] = "revokedAgain"
    BY <1>1, <1>3 DEF Verify, CheckRevoked, Goto, dataRoot, db, files
  <2>2. CASE pc'[r] = "latestAgain"
    <3>1. pc[r] = "revokedAgain" /\ ~IsOutdated(b) /\ stage[k] = Complete(b)
      BY <2>1, <2>2 DEF AloneAt
    <3> QED
      BY <1>2, <2>1, <2>2, <3>1 DEF AloneAt, IsOutdated
  <2>3. CASE pc'[r] # "latestAgain"
    BY <2>1, <2>3 DEF AloneAt
  <2> QED
    BY <2>2, <2>3
<1>4. CASE CheckLatest(r)
  <2>1. /\ UNCHANGED <<bundles, tmp, stage>>
        /\ pc'[r] \in {"refused", "clear", "insert"}
        /\ pc'[r] # "refused" => ~IsOutdated(b)
        /\ pc'[r] = "insert" => pc[r] = "latestAgain"
    BY <1>1, <1>4 DEF CheckLatest, Goto, dataRoot, db, files
  <2> QED
    BY <1>2, <2>1 DEF AloneAt, IsOutdated
<1>5. CASE ClearTmp(r)
  <2>1. /\ pc[r] = "clear" /\ pc'[r] = "write" /\ bundles' = bundles
        /\ unwritten'[r] = Bundle[b].files /\ tmp'[k] = EmptyDir
    BY <1>1, <1>5 DEF ClearTmp, Goto, db
  <2>2. {Entry(f, b) : f \in Bundle[b].files \ Bundle[b].files} = {}
    OBVIOUS
  <2> QED
    BY <1>2, <2>1, <2>2 DEF AloneAt, IsOutdated, EmptyDir
<1>6. CASE WriteFile(r)
  <2>1. PICK f \in unwritten[r] :
            /\ tmp' = [tmp EXCEPT ![k] = Put(@, f, b)]
            /\ unwritten' = [unwritten EXCEPT ![r] = @ \ {f}]
    BY <1>6 DEF WriteFile
  <2>2. /\ pc[r] = "write" /\ pc' = pc /\ bundles' = bundles
    BY <1>6 DEF WriteFile, db
  <2>3. /\ tmp'[k] = Put(tmp[k], f, b) /\ unwritten'[r] = unwritten[r] \ {f}
    BY <1>1, <2>1
  <2> DEFINE files0 == Bundle[b].files \ unwritten[r]
             files1 == Bundle[b].files \ unwritten'[r]
  <2>4. files1 = files0 \cup {f} /\ f \notin files0
    BY <1>1, <2>3
  <2>5. tmp[k] = [exists |-> TRUE, entries |-> {Entry(g, b) : g \in files0}]
    BY <2>2 DEF AloneAt
  <2> HIDE DEF files0, files1
  <2>6. {e \in {Entry(g, b) : g \in files0} : e.path # f} = {Entry(g, b) : g \in files0}
    BY <2>4 DEF Entry
  <2>7. {Entry(g, b) : g \in files0} \cup {Entry(f, b)} = {Entry(g, b) : g \in files1}
    BY <2>4
  <2>8. Put(tmp[k], f, b) = [exists |-> TRUE, entries |-> {Entry(g, b) : g \in files1}]
    <3> DEFINE old == {Entry(g, b) : g \in files0}
    <3> HIDE DEF old
    <3>1. tmp[k].entries = old /\ {e \in old : e.path # f} = old
      BY <2>5, <2>6 DEF old
    <3>2. Put(tmp[k], f, b) = [exists |-> TRUE, entries |-> old \cup {Entry(f, b)}]
      BY <3>1 DEF Put
    <3> QED
      BY <2>7, <3>2 DEF old
  <2>9. tmp'[k] = [exists |-> TRUE, entries |-> {Entry(g, b) : g \in files1}]
    BY <2>3, <2>8
  <2> QED
    BY <1>2, <2>2, <2>9 DEF AloneAt, IsOutdated, files1
<1>7. CASE ClearStage(r)
  <2>1. /\ pc[r] = "write" /\ pc'[r] = "move" /\ bundles' = bundles /\ tmp' = tmp
        /\ unwritten[r] = {} /\ stage'[k] = NoDir
    BY <1>1, <1>7 DEF ClearStage, Goto, db
  <2>2. tmp[k] = Complete(b)
    BY <2>1 DEF AloneAt, Complete
  <2> QED
    BY <1>2, <2>1, <2>2 DEF AloneAt, IsOutdated
<1>8. CASE Move(r)
  <2>1. pc[r] = "move" /\ tmp[k] = Complete(b) /\ stage[k] = NoDir
    BY <1>8 DEF Move, AloneAt
  <2>2. CanMove(k)
    BY <2>1 DEF CanMove, Complete, NoDir
  <2>3. /\ pc'[r] = "cleanup" /\ bundles' = bundles /\ stage'[k] = Complete(b)
    BY <1>1, <1>8, <2>1, <2>2 DEF Move, Goto, db
  <2> QED
    BY <1>2, <2>1, <2>3 DEF AloneAt, IsOutdated
<1>9. CASE Cleanup(r)
  <2>1. /\ pc[r] = "cleanup" /\ pc'[r] = "revokedAgain" /\ bundles' = bundles
        /\ stage' = stage
    BY <1>1, <1>9 DEF Cleanup, Goto, db
  <2> QED
    BY <1>2, <2>1 DEF AloneAt, IsOutdated
<1>10. CASE Insert(r)
  <2>1. pc[r] = "insert" /\ audit' = audit /\ pc'[r] \in {"refused", "audit"}
    BY <1>1, <1>10 DEF Insert, Goto
  <2>2. k \notin Recorded
    BY <1>1, <2>1, NewestIsUnpublished DEF AloneAt, RecordsArePublished, Uploaded
  <2>3. Recorded' = Recorded
    BY <2>1 DEF Recorded
  <2> QED
    BY <1>2, <2>1, <2>2, <2>3 DEF AloneAt
<1>11. CASE AppendRecord(r)
  <2>1. pc'[r] = "done"
    BY <1>1, <1>11 DEF AppendRecord, Goto
  <2> QED
    BY <2>1 DEF AloneAt
<1> QED
  BY <1>3, <1>4, <1>5, <1>6, <1>7, <1>8, <1>9, <1>10, <1>11 DEF RequestStep

(* What is published is not staged again: a thread touches a directory     *)
(* only while nothing of its version is published.                         *)
LEMMA PublishedStays ==
    ASSUME Typed, NEW r \in Requests, RequestStep(r), AloneAt(r), PublishedFilesIntact
    PROVE  PublishedFilesIntact'
PROOF
<1> DEFINE b == blob[r]
           k == Key(b)
<1>1. /\ Undisturbed(r) /\ k \in Keys /\ b \in Blobs
      /\ stage \in [Keys -> Dirs]
  BY StepIsOfThread DEF Typed, DataRoot
<1>2. ASSUME NEW row \in Uploaded, Registry!KeyOf(row) = k
      PROVE  stage'[k] = stage[k]
  <2>1. pc[r] \notin Compared
    BY <1>1, <1>2, NewestIsUnpublished DEF AloneAt, Uploaded
  <2> QED
    BY <2>1 DEF RequestStep, Verify, CheckRevoked, CheckLatest, ClearTmp, WriteFile, ClearStage,
                Move, Cleanup, Insert, AppendRecord, dataRoot, files, Compared
<1>3. ASSUME NEW row \in Uploaded'
      PROVE  stage'[Registry!KeyOf(row)] = Complete(row.blob)
  <2>1. CASE row \in Uploaded
    <3>1. row = RowOf(row.blob) /\ row.blob \in Blobs
      BY <2>1, UploadedRow DEF Typed, DataRoot, Uploaded
    <3>2. Registry!KeyOf(row) \in Keys
      BY <3>1, BlobKey
    <3> QED
      BY <1>1, <1>2, <2>1, <3>2 DEF Undisturbed, PublishedFilesIntact
  <2>2. CASE row \notin Uploaded
    <3>1. row = RowOf(b) /\ bundles' # bundles
      BY <2>2, UploadedGrows DEF Uploaded
    <3>2. Insert(r) /\ pc[r] = "insert"
      BY <3>1, InsertAlone
    <3>3. stage' = stage /\ stage[k] = Complete(b)
      BY <3>2 DEF Insert, files, AloneAt, InPlace
    <3>4. Registry!KeyOf(row) = k /\ row.blob = b
      BY <1>1, <3>1, BlobKey
    <3> QED
      BY <3>3, <3>4
  <2> QED
    BY <2>1, <2>2
<1> QED
  BY <1>3 DEF PublishedFilesIntact

LEMMA AloneStep ==
    ASSUME AnyUploads, NoOverlap, Alone, [Next]_vars
    PROVE  Alone'
PROOF
<1> USE DEF AnyUploads
<1>0. \A r \in Requests : AloneAt(r)
  BY AloneAtEach DEF Alone
<1>a. ASSUME \A r \in Requests : AloneAt(r)', PublishedFilesIntact'
      PROVE  Alone'
  BY <1>a DEF Alone, UploadAlone, AloneAt
<1>1. CASE UNCHANGED vars
  <2>1. PublishedFilesIntact'
    BY <1>1 DEF Alone, vars, dataRoot, db, files, Uploaded, PublishedFilesIntact
  <2>2. \A r \in Requests : AloneAt(r)'
    BY <1>0, <1>1 DEF vars, dataRoot, db, files, thread, AloneAt, IsOutdated, Recorded
  <2> QED
    BY <1>a, <2>1, <2>2
<1>2. CASE Open \/ RunSeed \/ LoadRevocations
  <2>1. \A r \in Requests : ~ Running(r)'
    BY <1>2, StartFacts DEF thread, Running
  <2>2. \A r \in Requests : AloneAt(r)'
    BY <2>1 DEF AloneAt, Running, Ended, Compared, InPlace
  <2>3. PublishedFilesIntact'
    BY <1>2, StartFacts DEF Alone, files, PublishedFilesIntact
  <2> QED
    BY <1>a, <2>2, <2>3
<1>3. CASE Crash
  <2>1. \A r \in Requests : AloneAt(r)'
    BY <1>3, CrashFacts DEF AloneAt, Running, Ended, Compared, InPlace
  <2>2. PublishedFilesIntact'
    BY <1>3, CrashFacts DEF Alone, PublishedFilesIntact
  <2> QED
    BY <1>a, <2>1, <2>2
<1>4. ASSUME NEW r \in Requests, NEW b \in Uploads[r], Receive(r, b)
      PROVE  Alone'
  <2>1. \A s \in Requests : AloneAt(s)'
    BY <1>0, <1>4, ReceiveFacts DEF AloneAt, IsOutdated, Compared, InPlace
  <2>2. PublishedFilesIntact'
    BY <1>4, ReceiveFacts DEF Alone, PublishedFilesIntact
  <2> QED
    BY <1>a, <2>1, <2>2
<1>5. ASSUME NEW r \in Requests, RequestStep(r)
      PROVE  Alone'
  <2>1. \A s \in Requests : AloneAt(s)'
    BY <1>0, <1>5, OthersAlone, ThreadAlone
  <2>2. PublishedFilesIntact'
    BY <1>0, <1>5, PublishedStays DEF Alone
  <2> QED
    BY <1>a, <2>1, <2>2
<1> QED
  BY <1>1, <1>2, <1>3, <1>4, <1>5 DEF Next

LEMMA AloneInit ==
    Init => Alone
PROOF
  BY DEF Init, Registry!Init, Alone, UploadAlone, PublishedFilesIntact, Uploaded, Compared,
         InPlace

(***************************************************************************)
(* Every published upload has exactly its own files staged, whatever was   *)
(* refused or died half-way before, as long as no two uploads of one name  *)
(* are handled at the same time (stage_bundle).                            *)
(***************************************************************************)
THEOREM FilesIntact ==
    Spec /\ []NoOverlap => []PublishedFilesIntact
PROOF
<1>1. Alone => PublishedFilesIntact
  BY DEF Alone
<1> QED
  BY <1>1, AnyUploadsInit, AnyUploadsStep, AloneInit, AloneStep, PTL DEF Spec

-----------------------------------------------------------------------------
(* The registry of docs/FWB_FORMAT.md. *)

(* Every step is one of the registry's, or leaves it alone. *)
LEMMA RegistryStep ==
    ASSUME AnyUploads, NoOverlap, Alone, [Next]_vars
    PROVE  [Registry!Next]_<<bundles, audit>>
PROOF
<1> USE DEF AnyUploads
<1>1. CASE UNCHANGED vars \/ Open \/ LoadRevocations \/ Crash
  BY <1>1 DEF vars, dataRoot, db, Open, LoadRevocations, Crash
<1>2. CASE RunSeed
  <2>1. bundles = {} /\ bundles' = SeedRows /\ audit' = audit
    BY <1>2 DEF RunSeed, Typed, FirstStart
  <2> QED
    BY <2>1 DEF Registry!Next, Registry!LoadSeed
<1>3. ASSUME NEW r \in Requests, NEW b \in Uploads[r], Receive(r, b)
      PROVE  UNCHANGED <<bundles, audit>>
  BY <1>3, ReceiveFacts
<1>4. ASSUME NEW r \in Requests, RequestStep(r)
      PROVE  [Registry!Next]_<<bundles, audit>>
  <2> DEFINE b == blob[r]
  <2>1. AloneAt(r) /\ b \in Blobs /\ Undisturbed(r)
    BY <1>4, AloneAtEach, StepIsOfThread DEF Alone
  <2>2. RowOf(b) \in {RowOf(c) : c \in Blobs}
    BY <2>1
  <2>3. CASE bundles' # bundles
    <3>1. Insert(r) /\ pc[r] = "insert" /\ bundles' = bundles \cup {RowOf(b)}
      BY <1>4, <2>3, InsertAlone
    <3>2. \A other \in bundles : other.name = Bundle[b].name => other.version < Bundle[b].version
      BY <2>1, <3>1, NewestIsUnpublished DEF AloneAt, Compared
    <3>3. audit' = audit
      BY <3>1 DEF Insert
    <3>4. Registry!Publish(RowOf(b))
      BY <2>1, <3>1, <3>2, <3>3, BlobKey DEF Registry!Publish
    <3> QED
      BY <2>2, <3>4 DEF Registry!Next
  <2>4. CASE bundles' = bundles /\ audit' # audit
    <3>1. AppendRecord(r) /\ pc[r] = "audit" /\ audit' = Append(audit, Key(b))
      BY <1>4, <2>4, RecordAlone
    <3>2. RowOf(b) \in bundles
      BY <3>1 DEF RecordsArePublished
    <3>3. \A k \in DOMAIN audit : audit[k] # Key(b)
      BY <2>1, <3>1 DEF AloneAt, Recorded
    <3>4. Registry!Record(RowOf(b))
      BY <2>1, <2>4, <3>1, <3>2, <3>3, BlobKey DEF Registry!Record
    <3> QED
      BY <2>2, <3>4 DEF Registry!Next
  <2> QED
    BY <2>3, <2>4
<1> QED
  BY <1>1, <1>2, <1>3, <1>4 DEF Next

(***************************************************************************)
(* Uploads of one name that do not overlap: rows and records are those of  *)
(* BundleRegistry.  The seed is loaded once, versions of a name come in    *)
(* ascending order, nothing is withdrawn, and a record is written at most  *)
(* once and only for what is published.                                    *)
(***************************************************************************)
THEOREM RegistryImplemented ==
    Spec /\ []NoOverlap => ImplementsRegistry
PROOF
<1>1. Init => Registry!Init
  BY DEF Init
<1> QED
  BY <1>1, AnyUploadsInit, AnyUploadsStep, AloneInit, AloneStep, RegistryStep, PTL
     DEF Spec, ImplementsRegistry, Registry!Spec

(***************************************************************************)
(* The rollback rule holds as long as no two uploads of one name overlap:  *)
(* the run bundle_overlap shows that the assumption is needed.             *)
(***************************************************************************)
THEOREM LatestGrows ==
    Spec /\ []NoOverlap => LatestOnlyGrows
PROOF
<1>1. ASSUME AnyUploads, NoOverlap, Alone, [Next]_vars,
             NEW row \in bundles' \ bundles, NEW other \in bundles,
             row.blob # Seeded, row.name = other.name
      PROVE  other.version < row.version
  <2> USE <1>1 DEF AnyUploads
  <2>1. ~RunSeed
    BY SeedAssumption DEF RunSeed
  <2>2. bundles' # bundles
    OBVIOUS
  <2>3. PICK r \in Requests : RequestStep(r)
    BY <2>1, <2>2, ReceiveFacts DEF Next, vars, dataRoot, db, Open, LoadRevocations, Crash
  <2>4. /\ pc[r] = "insert" /\ row = RowOf(blob[r]) /\ blob[r] \in Blobs
        /\ AloneAt(r)
    BY <2>2, <2>3, InsertAlone, StepIsOfThread, AloneAtEach DEF Alone
  <2> QED
    BY <2>4, NewestIsUnpublished, BlobKey DEF AloneAt, Compared
<1>2. AnyUploads /\ NoOverlap /\ Alone /\ [Next]_vars =>
          [\A row \in bundles' \ bundles, other \in bundles :
               row.blob # Seeded /\ row.name = other.name => other.version < row.version]_vars
  BY <1>1
<1> QED
  BY <1>2, AnyUploadsInit, AnyUploadsStep, AloneInit, AloneStep, PTL DEF Spec, LatestOnlyGrows

-----------------------------------------------------------------------------
(* What a refused upload leaves. *)

LEMMA FootprintKept ==
    ASSUME NEW b \in Blobs,
           RowOf(b) \in bundles' <=> RowOf(b) \in bundles,
           tmp'[Key(b)] = tmp[Key(b)], stage'[Key(b)] = stage[Key(b)],
           {k \in DOMAIN audit' : audit'[k] = Key(b)} = {k \in DOMAIN audit : audit[k] = Key(b)}
    PROVE  Footprint(b)' = Footprint(b)
PROOF
  BY DEF Footprint

(* The footprint of another name does not see the step. *)
LEMMA OthersFootprint ==
    ASSUME Typed, NEW r \in Requests, RequestStep(r), NEW b \in Blobs,
           Bundle[b].name # Bundle[blob[r]].name
    PROVE  Footprint(b)' = Footprint(b)
PROOF
<1>1. Undisturbed(r) /\ blob[r] \in Blobs
  BY StepIsOfThread
<1>2. Key(b) # Key(blob[r]) /\ Key(b) \in Keys
  BY <1>1, SameKey, BlobKey
<1>3. RowOf(b) \in bundles' <=> RowOf(b) \in bundles
  BY <1>1, BlobKey DEF Undisturbed
<1>4. {k \in DOMAIN audit' : audit'[k] = Key(b)} = {k \in DOMAIN audit : audit[k] = Key(b)}
  BY <1>2, RecordedGrows
<1> QED
  BY <1>1, <1>2, <1>3, <1>4, FootprintKept DEF Undisturbed

(* Until the first comparison of the version nothing is written, and after *)
(* it nobody is refused: the questions asked again have the same answers.  *)
LEMMA RefusedBeforeStaging ==
    ASSUME AnyUploads, NEW r \in Requests, RequestStep(r), AloneAt(r),
           pc'[r] \in Early \cup {"refused"}
    PROVE  pc[r] \in Early /\ UNCHANGED <<bundles, tmp, stage, audit>>
PROOF
<1> DEFINE b == blob[r]
<1> USE DEF AnyUploads, Typed, Memory, Goto, Early
<1>0. b \in Blobs
  BY StepIsOfThread
<1>1. CASE Verify(r)
  BY <1>1 DEF Verify, dataRoot, db, files
<1>2. CASE CheckRevoked(r)
  <2>1. pc[r] = "revokedAgain" => ~IsRevoked(b)
    BY DEF RevocationKept, Compared, IsRevoked
  <2> QED
    BY <1>2, <2>1 DEF CheckRevoked, dataRoot, db, files
<1>3. CASE CheckLatest(r)
  <2>1. pc[r] = "latestAgain" => ~IsOutdated(b)
    BY DEF AloneAt, Compared
  <2> QED
    BY <1>3, <2>1 DEF CheckLatest, dataRoot, db, files
<1>4. CASE ClearTmp(r) \/ WriteFile(r) \/ ClearStage(r) \/ Cleanup(r) \/ AppendRecord(r)
  BY <1>4 DEF ClearTmp, WriteFile, ClearStage, Cleanup, AppendRecord
<1>5. CASE Move(r)
  <2>1. CanMove(Key(b))
    BY <1>5 DEF Move, AloneAt, CanMove, Complete, NoDir
  <2> QED
    BY <1>5, <2>1 DEF Move
<1>6. CASE Insert(r)
  <2>1. ~IsPublished(b)
    BY <1>0, <1>6, NewestIsUnpublished DEF Insert, AloneAt, Compared
  <2> QED
    BY <1>6, <2>1 DEF Insert
<1> QED
  BY <1>1, <1>2, <1>3, <1>4, <1>5, <1>6 DEF RequestStep

(* A step of the upload that stays early, or is refused, leaves its        *)
(* footprint as it was when the upload arrived.                            *)
LEMMA RefusedUntouched ==
    ASSUME AnyUploads, Alone, NothingTouched, NEW r \in Requests, RequestStep(r),
           pc'[r] \in Early \cup {"refused"}
    PROVE  before[r] = {Footprint(blob[r])'} /\ before'[r] = before[r] /\ blob' = blob
PROOF
<1>1. Undisturbed(r) /\ AloneAt(r)
  BY StepIsOfThread, AloneAtEach DEF AnyUploads, Alone
<1>2. pc[r] \in Early /\ UNCHANGED <<bundles, tmp, stage, audit>>
  BY <1>1, RefusedBeforeStaging
<1>3. Footprint(blob[r])' = Footprint(blob[r])
  BY <1>1, <1>2 DEF Footprint, Undisturbed
<1> QED
  BY <1>1, <1>2, <1>3 DEF NothingTouched, Undisturbed

LEMMA NothingTouchedStep ==
    ASSUME NoOverlap, AnyUploads, Alone, NothingTouched, [Next]_vars
    PROVE  NothingTouched'
PROOF
<1> USE DEF AnyUploads
<1>1. CASE UNCHANGED vars
  BY <1>1 DEF vars, dataRoot, db, files, thread, NothingTouched, Footprint
<1>2. CASE Open \/ RunSeed \/ LoadRevocations
  <2>1. \A r \in Requests : pc'[r] \notin Early
    BY <1>2, StartFacts DEF thread, Early, Running, Ended
  <2> QED
    BY <2>1 DEF NothingTouched
<1>3. CASE Crash
  <2>1. \A r \in Requests : pc'[r] \notin Early
    BY <1>3, CrashFacts DEF Early, Running, Ended
  <2> QED
    BY <2>1 DEF NothingTouched
<1>4. ASSUME NEW r \in Requests, NEW b \in Uploads[r], Receive(r, b)
      PROVE  NothingTouched'
  <2>1. \A c : Footprint(c)' = Footprint(c)
    BY <1>4, ReceiveFacts DEF Footprint
  <2> QED
    BY <1>4, <2>1, ReceiveFacts DEF NothingTouched
<1>5. ASSUME NEW r \in Requests, RequestStep(r)
      PROVE  NothingTouched'
  <2>1. Undisturbed(r) /\ Running(r) /\ blob[r] \in Blobs
    BY <1>5, StepIsOfThread
  <2>2. ASSUME NEW s \in Requests, pc'[s] \in Early
        PROVE  before'[s] = {Footprint(blob[s])'}
    <3>1. CASE s = r
      BY <1>5, <2>2, <3>1, RefusedUntouched
    <3>2. CASE s # r
      <4>1. pc[s] \in Early /\ Running(s) /\ blob[s] \in Blobs
        BY <2>1, <2>2, <3>2, UploadIsBlob DEF Undisturbed, Early, Running, Ended, Typed, Busy
      <4>2. Bundle[blob[s]].name # Bundle[blob[r]].name
        BY <2>1, <3>2, <4>1 DEF NoOverlap
      <4>3. \A b \in Blobs : b = blob[s] => Footprint(b)' = Footprint(b)
        BY <1>5, <4>2, OthersFootprint
      <4>4. Footprint(blob[s])' = Footprint(blob[s])
        BY <2>1, <4>1, <4>3 DEF Undisturbed, Footprint
      <4> QED
        BY <2>1, <4>1, <4>4 DEF Undisturbed, NothingTouched
    <3> QED
      BY <3>1, <3>2
  <2> QED
    BY <2>2 DEF NothingTouched
<1> QED
  BY <1>1, <1>2, <1>3, <1>4, <1>5 DEF Next

(***************************************************************************)
(* A rejected upload leaves of its bundle what there was when it arrived:  *)
(* no row, no file, no record, what crashed uploads left included, as long *)
(* as no two uploads of one name are handled at the same time; when they   *)
(* are, publish may refuse one whose files are staged already              *)
(* (IngestService.ingest, Registry.publish).                               *)
(***************************************************************************)
THEOREM RefusedLeavesNothing ==
    Spec /\ []NoOverlap => RejectedLeavesNothing
PROOF
<1>1. Init => NothingTouched
  BY DEF Init, NothingTouched, Early
<1>2. AnyUploads /\ NoOverlap /\ Alone /\ NothingTouched /\ [Next]_vars => NothingTouched'
  BY NothingTouchedStep
<1>3. ASSUME AnyUploads, Alone, NothingTouched, [Next]_vars,
             NEW r \in Requests, pc[r] # "refused", pc'[r] = "refused"
      PROVE  before[r] = {Footprint(blob[r])'}
  <2> USE <1>3 DEF AnyUploads
  <2>1. \E s \in Requests : RequestStep(s)
    BY StartFacts, CrashFacts, ReceiveFacts DEF Next, vars, thread
  <2>2. PICK s \in Requests : RequestStep(s)
    BY <2>1
  <2>3. s = r
    BY <2>2, StepIsOfThread DEF Undisturbed
  <2> QED
    BY <2>2, <2>3, RefusedUntouched
<1>4. AnyUploads /\ Alone /\ NothingTouched /\ [Next]_vars =>
          [\A r \in Requests :
               pc[r] # "refused" /\ pc'[r] = "refused" => before[r] = {Footprint(blob[r])'}]_vars
  BY <1>3
<1> QED
  BY <1>1, <1>2, <1>4, AnyUploadsInit, AnyUploadsStep, AloneInit, AloneStep, PTL
     DEF Spec, RejectedLeavesNothing

=============================================================================
