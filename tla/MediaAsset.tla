------------------------------ MODULE MediaAsset ------------------------------
(***************************************************************************)
(* The upload of an image: src/backend/src/media-storage/                  *)
(* media-asset.service.ts.  A row is created PENDING, the object is put    *)
(* into the bucket, and the row becomes READY; a later upload of the same  *)
(* file by the company gets that row instead.  The lock on the file is a   *)
(* column of the row, its deduplicationKey, under a unique index.          *)
(*                                                                         *)
(* Rows of different companies or files have different keys and share      *)
(* nothing: the module is about one company and one file.  Row and object  *)
(* are written by calls to two systems, each of which may fail, also after *)
(* it did what it was asked; and uploads of several clients overlap.       *)
(***************************************************************************)
EXTENDS Naturals

CONSTANTS
    Assets,     \* ids, and with them object keys: randomUUID
    Uploads,    \* requests handled at the same time
    MaxFaults,  \* bound on failed calls and crashes
    None

ASSUME FaultsAssumption == MaxFaults \in Nat
ASSUME NoneAssumption == None \notin Assets

VARIABLES
    status,     \* status of a row, NONE for no row
    keyed,      \* rows whose deduplicationKey is set
    expiring,   \* rows with an expiresAt
    expired,    \* expiresAt <= now
    objects,    \* objects in the bucket
    pc,         \* the await an upload stands at
    mine,       \* mediaAssetId: the id it creates its row with
    seen,       \* the row that holds the key, and its status, as the upload read it
    tries,      \* unique constraint errors it met
    confirmed,  \* the status of its own row as it read it after finalizing
    returned,   \* the asset it was answered last
    faults,     \* faults so far
    happened    \* their kinds

rowVars == <<status, keyed, expiring, expired>>
uploadVars == <<pc, mine, seen, tries, confirmed>>
faultVars == <<faults, happened>>
vars == <<rowVars, objects, uploadVars, returned, faultVars>>

Statuses == {"PENDING", "READY", "DELETE_PENDING", "FAILED"}
FaultKinds == {"database", "lost", "storage", "crash"}
Nothing == [asset |-> None, status |-> "NONE"]

\* The awaits at which an upload has a row of its own.
InProgress == {"upload", "finalize", "reload", "reconcile", "compensate", "markFailed"}
Looking == {"find", "release", "create", "recheck"}

TypeOK ==
    /\ status \in [Assets -> Statuses \union {"NONE"}]
    /\ keyed \in SUBSET Assets
    /\ expiring \in SUBSET Assets /\ expired \in SUBSET expiring
    /\ objects \in SUBSET Assets
    /\ pc \in [Uploads -> {"idle"} \union Looking \union InProgress]
    /\ mine \in [Uploads -> Assets \union {None}]
    /\ seen \in [Uploads -> [asset : Assets, status : Statuses] \union {Nothing}]
    /\ tries \in [Uploads -> 0..2]
    /\ confirmed \in [Uploads -> Statuses \union {"NONE"}]
    /\ returned \in [Uploads -> Assets \union {None}]
    /\ faults \in Nat /\ happened \in SUBSET FaultKinds
    /\ \A u \in Uploads :
          /\ pc[u] # "idle" => mine[u] # None
          /\ pc[u] = "release" => seen[u] # Nothing

Init ==
    /\ status = [a \in Assets |-> "NONE"]
    /\ keyed = {} /\ expiring = {} /\ expired = {} /\ objects = {}
    /\ pc = [u \in Uploads |-> "idle"]
    /\ mine = [u \in Uploads |-> None]
    /\ seen = [u \in Uploads |-> Nothing]
    /\ tries = [u \in Uploads |-> 0]
    /\ confirmed = [u \in Uploads |-> "NONE"]
    /\ returned = [u \in Uploads |-> None]
    /\ faults = 0 /\ happened = {}

------------------------------------------------------------------------------
(* Helpers *)

Fault(kind) ==
    /\ faults < MaxFaults
    /\ faults' = faults + 1
    /\ happened' = happened \union {kind}

\* What a call answers: "ok"; an error without effect; an error after the effect.
DatabaseAnswer(r) ==
    \/ r = "ok" /\ UNCHANGED faultVars
    \/ r = "error" /\ Fault("database")
    \/ r = "lost" /\ Fault("lost")

StorageAnswer(r) ==
    \/ r = "ok" /\ UNCHANGED faultVars
    \/ r \in {"error", "lost"} /\ Fault("storage")

Answers == {"ok", "error", "lost"}

Goto(u, step) == pc' = [pc EXCEPT ![u] = step]

\* The request is over.
Forget(u) ==
    /\ Goto(u, "idle")
    /\ mine' = [mine EXCEPT ![u] = None]
    /\ seen' = [seen EXCEPT ![u] = Nothing]
    /\ tries' = [tries EXCEPT ![u] = 0]
    /\ confirmed' = [confirmed EXCEPT ![u] = "NONE"]

\* An exception is answered.
Throw(u) == Forget(u) /\ UNCHANGED returned

Return(u, a) == Forget(u) /\ returned' = [returned EXCEPT ![u] = a]

\* Mutant of IsExpired: a row that will expire counts as expired.
IsExpiredEver(a) == a \in expiring

IsExpired(a) == a \in expired

------------------------------------------------------------------------------
(* Time, clients, crashes *)

Expire(a) ==
    /\ a \in expiring \ expired
    /\ expired' = expired \union {a}
    /\ UNCHANGED <<status, keyed, expiring, objects, uploadVars, returned, faultVars>>

\* A valid request; the id it will use is drawn when it starts.
Start(u, a) ==
    /\ pc[u] = "idle"
    /\ status[a] = "NONE" /\ a \notin objects
    /\ \A v \in Uploads : mine[v] # a
    /\ Goto(u, "find")
    /\ mine' = [mine EXCEPT ![u] = a]
    /\ returned' = [returned EXCEPT ![u] = None]
    /\ UNCHANGED <<rowVars, objects, seen, tries, confirmed, faultVars>>

\* The process dies.
Crash(u) ==
    /\ pc[u] # "idle"
    /\ Fault("crash")
    /\ Throw(u)
    /\ UNCHANGED <<rowVars, objects>>

\* A query fails, and nothing catches it.
QueryFails(u) ==
    /\ pc[u] \in {"find", "recheck"}
    /\ Fault("database")
    /\ Throw(u)
    /\ UNCHANGED <<rowVars, objects>>

------------------------------------------------------------------------------
(* Before the upload *)

\* Mutant of InUse: the key of a PENDING row may be released.
InUseNever(a) == FALSE

\* "Media asset upload is already in progress"
InUse(a) == status[a] = "PENDING"

Reusable(a) == status[a] = "READY" /\ ~IsExpired(a)

\* prepareExistingAssetForUpload, up to its update: 409, the asset, or on to the
\* release of its key.
PrepareExisting(u, a) ==
    \/ InUse(a) /\ Throw(u) /\ UNCHANGED faultVars
    \/ Reusable(a) /\ Return(u, a) /\ UNCHANGED faultVars
    \/ /\ ~InUse(a) /\ ~Reusable(a)
       /\ Goto(u, "release")
       /\ seen' = [seen EXCEPT ![u] = [asset |-> a, status |-> status[a]]]
       /\ UNCHANGED <<mine, tries, confirmed, returned, faultVars>>

\* create: findByDeduplicationKeyForCompany.
FindExisting(u) ==
    /\ pc[u] = "find"
    /\ \/ /\ keyed = {}
          /\ Goto(u, "create")
          /\ UNCHANGED <<mine, seen, tries, confirmed, returned, faultVars>>
       \/ \E a \in keyed : PrepareExisting(u, a)
    /\ UNCHANGED <<rowVars, objects>>

\* createPendingAsset after a unique constraint error: 409 or the row in the way.
Recheck(u) ==
    /\ pc[u] = "recheck"
    /\ \/ keyed = {} /\ Throw(u) /\ UNCHANGED faultVars
       \/ \E a \in keyed : PrepareExisting(u, a)
    /\ UNCHANGED <<rowVars, objects>>

\* The condition of the release.
StillAsSeen(s) ==
    /\ s.asset \in keyed
    /\ status[s.asset] = s.status
    /\ s.status = "READY" => IsExpired(s.asset)

ReleaseKey(s) ==
    /\ keyed' = keyed \ {s.asset}
    /\ status' = [status EXCEPT ![s.asset] = IF @ = "READY" THEN "DELETE_PENDING" ELSE @]
    /\ UNCHANGED <<expiring, expired>>

\* prepareExistingAssetForUpload: the update, then the only retry of the creation.
Release(u, r) ==
    /\ pc[u] = "release"
    /\ DatabaseAnswer(r)
    /\ IF r # "error" /\ StillAsSeen(seen[u]) THEN ReleaseKey(seen[u]) ELSE UNCHANGED rowVars
    /\ IF r = "ok" /\ StillAsSeen(seen[u]) /\ tries[u] < 2
         THEN /\ Goto(u, "create")
              /\ seen' = [seen EXCEPT ![u] = Nothing]
              /\ UNCHANGED <<mine, tries, confirmed, returned>>
         ELSE Throw(u)
    /\ UNCHANGED objects

\* mediaAsset.create.
Insert(a) ==
    /\ status' = [status EXCEPT ![a] = "PENDING"]
    /\ keyed' = keyed \union {a}
    /\ \E e \in {{}, {a}} : expiring' = expiring \union e
    /\ UNCHANGED expired

CreatePending(u, r) ==
    /\ pc[u] = "create"
    /\ DatabaseAnswer(r)
    /\ \/ r # "error" /\ keyed = {} /\ Insert(mine[u])
       \/ (r = "error" \/ keyed # {}) /\ UNCHANGED rowVars
    /\ \/ /\ r = "ok" /\ keyed = {}
          /\ Goto(u, "upload")
          /\ UNCHANGED <<mine, seen, tries, confirmed, returned>>
       \/ /\ r = "ok" /\ keyed # {}
          /\ Goto(u, "recheck")
          /\ tries' = [tries EXCEPT ![u] = @ + 1]
          /\ UNCHANGED <<mine, seen, confirmed, returned>>
       \/ r # "ok" /\ Throw(u)
    /\ UNCHANGED objects

------------------------------------------------------------------------------
(* uploadAndFinalize *)

\* On to the next await of an upload that has its row.
Proceed(u, step) == Goto(u, step) /\ UNCHANGED <<mine, seen, tries, confirmed, returned>>

\* Mutant of UploadObject: a failed upload is only answered.
UploadObjectThrows(u, r) ==
    /\ pc[u] = "upload"
    /\ StorageAnswer(r)
    /\ objects' = IF r = "error" THEN objects ELSE objects \union {mine[u]}
    /\ IF r = "ok" THEN Proceed(u, "finalize") ELSE Throw(u)
    /\ UNCHANGED rowVars

UploadObject(u, r) ==
    /\ pc[u] = "upload"
    /\ StorageAnswer(r)
    /\ objects' = IF r = "error" THEN objects ELSE objects \union {mine[u]}
    /\ Proceed(u, IF r = "ok" THEN "finalize" ELSE "markFailed")
    /\ UNCHANGED rowVars

\* The update to READY, under the condition that the row is PENDING.
Finalize(u, r) ==
    /\ pc[u] = "finalize"
    /\ DatabaseAnswer(r)
    /\ status' = IF r # "error" /\ status[mine[u]] = "PENDING"
                   THEN [status EXCEPT ![mine[u]] = "READY"] ELSE status
    /\ Proceed(u, IF r = "ok" /\ status[mine[u]] = "PENDING" THEN "reload" ELSE "reconcile")
    /\ UNCHANGED <<keyed, expiring, expired, objects>>

\* isMatchingReadyAsset, or on to the compensation with the status that was read.
\* The columns it compares besides are those the upload itself wrote.
ReturnIfReady(u) ==
    \/ status[mine[u]] = "READY" /\ Return(u, mine[u])
    \/ /\ status[mine[u]] # "READY"
       /\ Goto(u, "compensate")
       /\ confirmed' = [confirmed EXCEPT ![u] = status[mine[u]]]
       /\ UNCHANGED <<mine, seen, tries, returned>>

\* Mutant of Reload: a failed reload is compensated.
ReloadCompensates(u, r) ==
    /\ pc[u] = "reload"
    /\ r # "lost" /\ DatabaseAnswer(r)
    /\ IF r = "ok" THEN ReturnIfReady(u) ELSE Proceed(u, "compensate")
    /\ UNCHANGED <<rowVars, objects>>

\* After a confirmed update.
Reload(u, r) ==
    /\ pc[u] = "reload"
    /\ r # "lost" /\ DatabaseAnswer(r)
    /\ IF r = "ok" THEN ReturnIfReady(u) ELSE Throw(u)
    /\ UNCHANGED <<rowVars, objects>>

\* Mutant of Reconcile: an unconfirmed finalization is only answered.
ReconcileThrows(u, r) ==
    /\ pc[u] = "reconcile"
    /\ r # "lost" /\ DatabaseAnswer(r)
    /\ IF r = "ok" THEN ReturnIfReady(u) ELSE Throw(u)
    /\ UNCHANGED <<rowVars, objects>>

\* reconcileFinalizationFailure; without a confirmation, the object is deleted all
\* the same (compensateUnconfirmedFinalization).
Reconcile(u, r) ==
    /\ pc[u] = "reconcile"
    /\ r # "lost" /\ DatabaseAnswer(r)
    /\ IF r = "ok" THEN ReturnIfReady(u) ELSE Proceed(u, "compensate")
    /\ UNCHANGED <<rowVars, objects>>

\* tryCompensateUpload: its failure is logged.
Compensate(u, r) ==
    /\ pc[u] = "compensate"
    /\ StorageAnswer(r)
    /\ objects' = IF r = "error" THEN objects ELSE objects \ {mine[u]}
    /\ IF confirmed[u] = "PENDING" THEN Proceed(u, "markFailed") ELSE Throw(u)
    /\ UNCHANGED rowVars

\* Mutant of SetFailed: the key stays.
SetFailedKeepsKey(a) ==
    /\ status' = [status EXCEPT ![a] = "FAILED"]
    /\ UNCHANGED <<keyed, expiring, expired>>

SetFailed(a) ==
    /\ status' = [status EXCEPT ![a] = "FAILED"]
    /\ keyed' = keyed \ {a}
    /\ UNCHANGED <<expiring, expired>>

\* tryMarkFailed: its failure is logged; the request is answered 500.
MarkFailed(u, r) ==
    /\ pc[u] = "markFailed"
    /\ DatabaseAnswer(r)
    /\ IF r # "error" /\ status[mine[u]] = "PENDING"
         THEN SetFailed(mine[u]) ELSE UNCHANGED rowVars
    /\ Throw(u)
    /\ UNCHANGED objects

------------------------------------------------------------------------------
(* The specification *)

Step(u) ==
    \/ FindExisting(u)
    \/ Recheck(u)
    \/ QueryFails(u)
    \/ \E r \in Answers :
          \/ Release(u, r)
          \/ CreatePending(u, r)
          \/ UploadObject(u, r)
          \/ Finalize(u, r)
          \/ Reload(u, r)
          \/ Reconcile(u, r)
          \/ Compensate(u, r)
          \/ MarkFailed(u, r)

Next ==
    \/ \E a \in Assets : Expire(a)
    \/ \E u \in Uploads :
          \/ \E a \in Assets : Start(u, a)
          \/ Step(u)
          \/ Crash(u)

Spec == Init /\ [][Next]_vars

------------------------------------------------------------------------------
(* Properties *)

\* The key is a lock: one row holds it, PENDING or READY, and a row that is PENDING
\* holds it, whatever fails.  The schema calls it the "Active tenant-scoped
\* deduplication lock for PENDING or reusable READY assets".
KeyIsLock ==
    /\ \A a, b \in keyed : a = b
    /\ \A a \in keyed : status[a] \in {"PENDING", "READY"}
    /\ \A a \in Assets : status[a] = "PENDING" => a \in keyed

\* A file is not uploaded by two requests at a time, whatever fails.
OneUploadAtATime ==
    \A u, v \in Uploads : pc[u] \in {"upload", "finalize"} /\ pc[v] \in {"upload", "finalize"}
        => u = v

\* A READY row has its object, unless the reply to a commit was lost: then the
\* object may be deleted, for want of a confirmation, under a row that became READY.
ReadyHasObject ==
    "lost" \notin happened => \A a \in Assets : status[a] = "READY" => a \in objects

\* An asset that a client was given stays READY until it expires, whatever fails and
\* whatever other uploads of the file do.
ReturnedStaysReady ==
    \A u \in Uploads, a \in Assets :
        returned[u] = a => status[a] = "READY" \/ a \in expired

\* The rejection "Media asset upload is already in progress" is true as long as only
\* the storage fails: a PENDING row has an upload that works on it.
PendingIsInProgress ==
    happened \subseteq {"storage"} =>
        \A a \in Assets : status[a] = "PENDING" =>
            \E u \in Uploads : pc[u] \in InProgress /\ mine[u] = a

\* No object is left behind as long as only the database fails, in whatever way: it
\* belongs to a row that is or was READY, or to an upload that works on it.
NoOrphans ==
    happened \subseteq {"database", "lost"} =>
        \A a \in objects :
            \/ status[a] \in {"READY", "DELETE_PENDING"}
            \/ \E u \in Uploads : pc[u] \in InProgress /\ mine[u] = a

\* The awaits that are left of an upload, at most.
AwaitsLeft(u) ==
    CASE pc[u] = "find" -> 17
      [] pc[u] = "release" -> 16 - 3 * tries[u]
      [] pc[u] = "create" -> 15 - 3 * tries[u]
      [] pc[u] = "recheck" -> 17 - 3 * tries[u]
      [] pc[u] = "upload" -> 6
      [] pc[u] = "finalize" -> 5
      [] pc[u] \in {"reload", "reconcile"} -> 4
      [] pc[u] = "compensate" -> 3
      [] pc[u] = "markFailed" -> 2
      [] pc[u] = "idle" -> 0

\* Every await of an upload that returns brings it closer to its answer: uploads that
\* take the key from each other do not make it look and create for ever.
UploadProgress(u) ==
    pc[u] # "idle" =>
        \/ pc'[u] = pc[u] /\ tries'[u] = tries[u]
        \/ AwaitsLeft(u)' \in 0 .. AwaitsLeft(u) - 1

UploadsEnd == [][\A u \in Uploads : UploadProgress(u)]_vars

------------------------------------------------------------------------------
(* The inductive invariant *)

\* Ids are used once; before its row is created, an upload's id means nothing.
OwnInv ==
    /\ \A u, v \in Uploads : mine[u] = mine[v] /\ mine[u] # None => u = v
    /\ \A u \in Uploads : pc[u] = "idle" <=> mine[u] = None
    /\ \A u \in Uploads : pc[u] \in Looking => status[mine[u]] = "NONE"
    /\ \A a \in objects : status[a] # "NONE"

\* What an upload knows of its own row and object; only it moves a PENDING row.
StageInv(u) ==
    /\ pc[u] = "release" => seen[u].status # "PENDING"
    /\ pc[u] \in {"upload", "finalize", "markFailed"} => status[mine[u]] = "PENDING"
    /\ pc[u] \in {"finalize", "reload", "reconcile"} => mine[u] \in objects
    /\ pc[u] = "reload" => status[mine[u]] \in {"READY", "DELETE_PENDING"}
    /\ pc[u] \in {"reconcile", "compensate"} => status[mine[u]] \notin {"NONE", "FAILED"}
    /\ pc[u] \in {"reconcile", "compensate"} /\ "lost" \notin happened =>
          status[mine[u]] # "READY"
    /\ pc[u] \in {"reconcile", "compensate"} /\ happened \subseteq {"storage"} =>
          pc[u] = "compensate" /\ status[mine[u]] # "PENDING"
    /\ pc[u] \notin {"compensate", "markFailed"} => confirmed[u] = "NONE"
    /\ pc[u] = "compensate" /\ confirmed[u] = "PENDING" => status[mine[u]] = "PENDING"
    /\ pc[u] = "markFailed" /\ happened \subseteq {"database", "lost"} =>
          mine[u] \notin objects

StagesInv == \A u \in Uploads : StageInv(u)

\* The creation is retried once.
TriesInv ==
    \A u \in Uploads :
        /\ pc[u] \in {"idle", "find"} => tries[u] = 0
        /\ pc[u] = "create" => tries[u] < 2

IInv ==
    /\ TypeOK /\ TriesInv /\ OwnInv /\ StagesInv /\ KeyIsLock
    /\ ReadyHasObject /\ ReturnedStaysReady /\ PendingIsInProgress /\ NoOrphans
==============================================================================
