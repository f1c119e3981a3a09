--------------------------- MODULE MediaAssetProofs ---------------------------
(***************************************************************************)
(* Proofs about MediaAsset, for any ids, uploads and number of faults.     *)
(***************************************************************************)
EXTENDS MediaAsset, TLAPS

USE FaultsAssumption, NoneAssumption

\* Faults are counted, and their kinds never forgotten.
FaultsGrow ==
    faults' \in Nat /\ happened' \in SUBSET FaultKinds /\ happened \subseteq happened'

LEMMA FaultStep ==
    ASSUME TypeOK, NEW kind \in FaultKinds, Fault(kind)
    PROVE  FaultsGrow /\ kind \in happened'
  BY DEF TypeOK, Fault, FaultsGrow

LEMMA NoFault ==
    ASSUME TypeOK, UNCHANGED faultVars
    PROVE  FaultsGrow /\ happened' = happened
  BY DEF TypeOK, faultVars, FaultsGrow

LEMMA DatabaseStep ==
    ASSUME TypeOK, NEW r, DatabaseAnswer(r)
    PROVE  /\ FaultsGrow
           /\ r = "ok" => happened' = happened
           /\ r = "error" => "database" \in happened'
           /\ r = "lost" => "lost" \in happened'
           /\ r \in Answers
  <1>1. CASE r = "ok" /\ UNCHANGED faultVars
    BY <1>1, NoFault DEF Answers
  <1>2. CASE r = "error" /\ Fault("database")
    BY <1>2, FaultStep DEF FaultKinds, Answers
  <1>3. CASE r = "lost" /\ Fault("lost")
    BY <1>3, FaultStep DEF FaultKinds, Answers
  <1>q. QED
    BY <1>1, <1>2, <1>3 DEF DatabaseAnswer

LEMMA StorageStep ==
    ASSUME TypeOK, NEW r, StorageAnswer(r)
    PROVE  /\ FaultsGrow
           /\ r = "ok" => happened' = happened
           /\ r # "ok" => "storage" \in happened'
           /\ r \in Answers
  <1>1. CASE r = "ok" /\ UNCHANGED faultVars
    BY <1>1, NoFault DEF Answers
  <1>2. CASE r \in {"error", "lost"} /\ Fault("storage")
    BY <1>2, FaultStep DEF FaultKinds, Answers
  <1>q. QED
    BY <1>1, <1>2 DEF StorageAnswer

\* What becomes of an upload's locals.
Local(u) ==
    /\ pc' \in [Uploads -> {"idle"} \union Looking \union InProgress]
    /\ mine' \in [Uploads -> Assets \union {None}]
    /\ seen' \in [Uploads -> [asset : Assets, status : Statuses] \union {Nothing}]
    /\ tries' \in [Uploads -> 0..2]
    /\ confirmed' \in [Uploads -> Statuses \union {"NONE"}]
    /\ returned' \in [Uploads -> Assets \union {None}]
    /\ pc'[u] # "idle" => mine'[u] # None
    /\ pc'[u] = "release" => seen'[u] # Nothing
    /\ \A v \in Uploads \ {u} :
          /\ pc'[v] = pc[v] /\ mine'[v] = mine[v] /\ seen'[v] = seen[v]
          /\ tries'[v] = tries[v] /\ confirmed'[v] = confirmed[v] /\ returned'[v] = returned[v]

LEMMA LocalForget ==
    ASSUME TypeOK, NEW u \in Uploads, Forget(u),
           \/ UNCHANGED returned
           \/ \E a \in Assets : returned' = [returned EXCEPT ![u] = a]
    PROVE  /\ Local(u) /\ pc'[u] = "idle" /\ mine'[u] = None
           /\ tries'[u] = 0 /\ confirmed'[u] = "NONE"
  BY DEF TypeOK, Forget, Goto, Local

LEMMA LocalProceed ==
    ASSUME TypeOK, NEW u \in Uploads, NEW step \in InProgress, Proceed(u, step),
           pc[u] # "idle"
    PROVE  /\ Local(u) /\ pc'[u] = step
           /\ UNCHANGED <<mine, tries, confirmed, returned>>
  BY DEF TypeOK, Proceed, Goto, Local, InProgress

\* The rows keep their types, and only u's locals change.
LEMMA TypeFrame ==
    ASSUME TypeOK, NEW u \in Uploads, Local(u),
           status' \in [Assets -> Statuses \union {"NONE"}],
           keyed' \in SUBSET Assets, expiring' \in SUBSET Assets,
           expired' \in SUBSET expiring', objects' \in SUBSET Assets,
           faults' \in Nat, happened' \in SUBSET FaultKinds
    PROVE  TypeOK'
  BY DEF TypeOK, Local

\* What a step of upload u may do to the rows.
RowsKept == UNCHANGED <<status, keyed, expiring, expired>>

Released(b) ==
    /\ b \in expired \/ status[b] # "READY"
    /\ b \in keyed /\ status[b] # "PENDING"
    /\ keyed' = keyed \ {b}
    /\ status' = [status EXCEPT ![b] = IF @ = "READY" THEN "DELETE_PENDING" ELSE @]
    /\ UNCHANGED <<expiring, expired>>

Inserted(b) ==
    /\ keyed = {} /\ keyed' = {b}
    /\ status' = [status EXCEPT ![b] = "PENDING"]
    /\ expiring \subseteq expiring' /\ expiring' \in SUBSET Assets
    /\ UNCHANGED expired

Readied(b) ==
    /\ status[b] = "PENDING"
    /\ status' = [status EXCEPT ![b] = "READY"]
    /\ UNCHANGED <<keyed, expiring, expired>>

GivenUp(b) ==
    /\ status[b] = "PENDING"
    /\ status' = [status EXCEPT ![b] = "FAILED"]
    /\ keyed' = keyed \ {b}
    /\ UNCHANGED <<expiring, expired>>

RowEffect(u) ==
    \/ RowsKept
    \/ \E b \in Assets \ {mine[u]} : Released(b)
    \/ pc[u] = "create" /\ Inserted(mine[u])
    \/ pc[u] = "finalize" /\ Readied(mine[u])
    \/ pc[u] = "markFailed" /\ GivenUp(mine[u])

\* What is known of an upload's own row and object before it takes a step.
Known(u) ==
    /\ mine[u] \in Assets
    /\ pc[u] \in Looking =>
          status[mine[u]] = "NONE" /\ mine[u] \notin objects /\ mine[u] \notin keyed
    /\ mine[u] \in objects => status[mine[u]] # "NONE"
    /\ StageInv(u)
    /\ status[mine[u]] = "READY" /\ "lost" \notin happened => mine[u] \in objects
    /\ status[mine[u]] = "PENDING" /\ happened \subseteq {"storage"} => pc[u] \in InProgress
    /\ mine[u] \in objects /\ happened \subseteq {"database", "lost"} =>
          status[mine[u]] \in {"READY", "DELETE_PENDING"} \/ pc[u] \in InProgress

LEMMA KnownBefore ==
    ASSUME IInv, NEW u \in Uploads, pc[u] # "idle"
    PROVE  Known(u)
  <1>1. mine[u] \in Assets
    BY DEF IInv, TypeOK
  <1>2. \A v \in Uploads : mine[v] = mine[u] => v = u
    BY <1>1 DEF IInv, OwnInv
  <1>3. StageInv(u)
    BY DEF IInv, StagesInv
  <1>4. mine[u] \in objects => status[mine[u]] # "NONE"
    BY DEF IInv, OwnInv
  <1>5. pc[u] \in Looking => status[mine[u]] = "NONE"
    BY DEF IInv, OwnInv
  <1>6. mine[u] \in keyed => status[mine[u]] # "NONE"
    BY DEF IInv, KeyIsLock
  <1>7. status[mine[u]] = "READY" /\ "lost" \notin happened => mine[u] \in objects
    BY <1>1 DEF IInv, ReadyHasObject
  <1>8. status[mine[u]] = "PENDING" /\ happened \subseteq {"storage"} => pc[u] \in InProgress
    BY <1>1, <1>2 DEF IInv, PendingIsInProgress
  <1>9. mine[u] \in objects /\ happened \subseteq {"database", "lost"} =>
           status[mine[u]] \in {"READY", "DELETE_PENDING"} \/ pc[u] \in InProgress
    BY <1>1, <1>2 DEF IInv, NoOrphans
  <1>q. QED
    BY <1>1, <1>3, <1>4, <1>5, <1>6, <1>7, <1>8, <1>9 DEF Known

\* What a step of an upload in progress does.
Effect(u) ==
    /\ Local(u)
    /\ FaultsGrow
    /\ RowEffect(u)
    /\ objects' \in SUBSET Assets /\ objects' \ {mine[u]} = objects \ {mine[u]}
    /\ \/ returned'[u] = returned[u]
       \/ RowsKept /\ returned'[u] \in Assets /\ status[returned'[u]] = "READY"
    /\ mine'[u] \in {mine[u], None}
    /\ pc'[u] = "idle" <=> mine'[u] = None
    /\ pc'[u] \in Looking => status'[mine[u]] = "NONE"
    /\ mine[u] \in objects' => status'[mine[u]] # "NONE"
    /\ pc'[u] \in {"idle", "find"} => tries'[u] = 0
    /\ pc'[u] = "create" => tries'[u] < 2
    /\ StageInv(u)'
    /\ status'[mine[u]] = "READY" /\ "lost" \notin happened' => mine[u] \in objects'
    /\ status'[mine[u]] = "PENDING" /\ happened' \subseteq {"storage"} =>
          pc'[u] \in InProgress
    /\ mine[u] \in objects' /\ happened' \subseteq {"database", "lost"} =>
          status'[mine[u]] \in {"READY", "DELETE_PENDING"} \/ pc'[u] \in InProgress

\* A request that ends and leaves rows and objects as they are; its row is not
\* PENDING, or something failed.
LEMMA ForgetEffect ==
    ASSUME IInv, NEW u \in Uploads, pc[u] # "idle", Forget(u), FaultsGrow,
           RowsKept, UNCHANGED objects,
           \/ UNCHANGED returned
           \/ \E a \in Assets : status[a] = "READY" /\ returned' = [returned EXCEPT ![u] = a],
           status[mine[u]] = "PENDING" => ~(happened' \subseteq {"storage"}),
           mine[u] \in objects /\ happened' \subseteq {"database", "lost"} =>
               status[mine[u]] \in {"READY", "DELETE_PENDING"}
    PROVE  Effect(u)
  <1>1. Known(u)
    BY KnownBefore
  <1>2. /\ Local(u) /\ pc'[u] = "idle" /\ mine'[u] = None
        /\ tries'[u] = 0 /\ confirmed'[u] = "NONE"
    BY LocalForget DEF IInv
  <1>3. \/ returned'[u] = returned[u]
        \/ returned'[u] \in Assets /\ status[returned'[u]] = "READY"
    BY DEF IInv, TypeOK
  <1>4. objects' \in SUBSET Assets
    BY DEF IInv, TypeOK
  <1>q. QED
    BY <1>1, <1>2, <1>3, <1>4 DEF Effect, Known, RowEffect, RowsKept, FaultsGrow, Looking, StageInv

\* An upload that goes from one await before its row exists to another.
LEMMA LookOn ==
    ASSUME IInv, NEW u \in Uploads, pc[u] \in Looking, Local(u), FaultsGrow,
           RowsKept \/ \E b \in Assets \ {mine[u]} : Released(b),
           UNCHANGED <<objects, mine, confirmed, returned>>, pc'[u] \in Looking,
           pc'[u] = "find" => tries'[u] = 0, pc'[u] = "create" => tries'[u] < 2,
           pc'[u] = "release" => seen'[u].status # "PENDING"
    PROVE  Effect(u)
  <1>1. Known(u) /\ pc[u] # "idle"
    BY KnownBefore DEF Looking
  <1>2. status'[mine[u]] = "NONE"
    BY <1>1 DEF Known, RowsKept, Released, IInv, TypeOK
  <1>3. objects' \in SUBSET Assets
    BY DEF IInv, TypeOK
  <1>q. QED
    BY <1>1, <1>2, <1>3 DEF Effect, Known, RowEffect, Looking, StageInv

\* prepareExistingAssetForUpload changes nothing before its update.
LEMMA PrepareEffect ==
    ASSUME IInv, NEW u \in Uploads, pc[u] \in Looking, NEW a \in keyed,
           PrepareExisting(u, a), UNCHANGED <<rowVars, objects>>
    PROVE  Effect(u)
  <1>1. Known(u) /\ pc[u] # "idle" /\ a \in Assets
    BY KnownBefore DEF Looking, IInv, TypeOK
  <1>2. RowsKept /\ FaultsGrow
    BY NoFault DEF PrepareExisting, IInv, rowVars, RowsKept
  <1>3. CASE InUse(a) /\ Throw(u)
    BY <1>1, <1>2, <1>3, ForgetEffect DEF Throw, Known
  <1>4. CASE Reusable(a) /\ Return(u, a)
    <2>1. status[a] = "READY" /\ Forget(u) /\ returned' = [returned EXCEPT ![u] = a]
      BY <1>4 DEF Reusable, Return
    <2>q. QED
      BY <1>1, <1>2, <2>1, ForgetEffect DEF Known
  <1>5. CASE /\ ~InUse(a) /\ Goto(u, "release")
             /\ seen' = [seen EXCEPT ![u] = [asset |-> a, status |-> status[a]]]
             /\ UNCHANGED <<mine, tries, confirmed, returned>>
    <2>1. status[a] \in Statuses
      BY <1>1 DEF IInv, KeyIsLock, Statuses
    <2>2. Local(u) /\ pc'[u] \in Looking /\ pc'[u] = "release"
      BY <1>1, <1>5, <2>1 DEF Goto, Local, IInv, TypeOK, Looking, Nothing
    <2>3. seen'[u].status # "PENDING"
      BY <1>5 DEF InUse, IInv, TypeOK
    <2>q. QED
      BY <1>2, <1>5, <2>2, <2>3, LookOn
  <1>q. QED
    BY <1>3, <1>4, <1>5 DEF PrepareExisting

LEMMA FindEffect ==
    ASSUME IInv, NEW u \in Uploads, FindExisting(u) \/ Recheck(u)
    PROVE  Effect(u)
  <1>1. pc[u] \in Looking /\ pc[u] # "idle" /\ UNCHANGED <<rowVars, objects>> /\ Known(u)
    BY KnownBefore DEF FindExisting, Recheck, Looking
  <1>2. ASSUME NEW a \in keyed, PrepareExisting(u, a)
        PROVE  Effect(u)
    BY <1>1, <1>2, PrepareEffect
  <1>3. CASE /\ pc[u] = "find" /\ Goto(u, "create")
             /\ UNCHANGED <<mine, seen, tries, confirmed, returned, faultVars>>
    <2>1. Local(u) /\ pc'[u] \in Looking /\ pc'[u] = "create"
      BY <1>1, <1>3 DEF Goto, Local, IInv, TypeOK, Looking
    <2>3. tries'[u] = 0
      BY <1>3 DEF IInv, TriesInv
    <2>2. FaultsGrow /\ RowsKept
      BY <1>1, <1>3, NoFault DEF IInv, rowVars, RowsKept
    <2>q. QED
      BY <1>1, <1>3, <2>1, <2>2, <2>3, LookOn
  <1>4. CASE Throw(u) /\ UNCHANGED faultVars
    BY <1>1, <1>4, NoFault, ForgetEffect DEF IInv, rowVars, RowsKept, Throw, Known
  <1>q. QED
    BY <1>2, <1>3, <1>4 DEF FindExisting, Recheck

LEMMA FailureEffect ==
    ASSUME IInv, NEW u \in Uploads, QueryFails(u) \/ Crash(u)
    PROVE  Effect(u)
  <1>1. /\ pc[u] # "idle" /\ Throw(u) /\ RowsKept /\ UNCHANGED objects
        /\ (pc[u] \in Looking /\ Fault("database")) \/ Fault("crash")
    BY DEF QueryFails, Crash, Looking, rowVars, RowsKept
  <1>2. FaultsGrow /\ (pc[u] \in Looking \/ "crash" \in happened')
    BY <1>1, FaultStep DEF IInv, FaultKinds
  <1>q. QED
    BY <1>1, <1>2, KnownBefore, ForgetEffect DEF Throw, Known

\* Only a row of another upload holds the key.
LEMMA ReleaseEffect ==
    ASSUME IInv, NEW u \in Uploads, NEW r \in Answers, Release(u, r)
    PROVE  Effect(u)
  <1>1. pc[u] \in Looking /\ pc[u] # "idle" /\ UNCHANGED objects /\ Known(u)
    BY KnownBefore DEF Release, Looking
  <1>2. FaultsGrow
    BY DatabaseStep DEF Release, IInv
  <1>3. RowsKept \/ \E b \in Assets \ {mine[u]} : Released(b)
    <2>1. CASE UNCHANGED rowVars
      BY <2>1 DEF rowVars, RowsKept
    <2>2. CASE StillAsSeen(seen[u]) /\ ReleaseKey(seen[u])
      <3>1. seen[u].asset \in keyed /\ keyed \subseteq Assets
        BY <2>2 DEF StillAsSeen, IInv, TypeOK
      <3>2. Released(seen[u].asset)
        BY <2>2, <1>1 DEF StillAsSeen, ReleaseKey, Released, IsExpired, Known, StageInv, Release
      <3>q. QED
        BY <1>1, <3>1, <3>2 DEF Known
    <2>q. QED
      BY <2>1, <2>2 DEF Release
  <1>4. CASE /\ tries[u] < 2 /\ Goto(u, "create")
             /\ seen' = [seen EXCEPT ![u] = Nothing]
             /\ UNCHANGED <<mine, tries, confirmed, returned>>
    <2>1. Local(u) /\ pc'[u] \in Looking /\ pc'[u] = "create"
      BY <1>1, <1>4 DEF Goto, Local, IInv, TypeOK, Looking
    <2>q. QED
      BY <1>1, <1>2, <1>3, <1>4, <2>1, LookOn
  <1>5. CASE Throw(u)
    <2>1. status'[mine[u]] = "NONE" /\ mine[u] \notin objects
      BY <1>1, <1>3 DEF Known, RowsKept, Released, IInv, TypeOK
    <2>2. /\ Local(u) /\ pc'[u] = "idle" /\ mine'[u] = None /\ UNCHANGED returned
          /\ tries'[u] = 0 /\ confirmed'[u] = "NONE"
      BY <1>5, LocalForget DEF Throw, IInv
    <2>3. objects' \in SUBSET Assets
      BY <1>1 DEF IInv, TypeOK
    <2>q. QED
      BY <1>1, <1>2, <1>3, <2>1, <2>2, <2>3 DEF Effect, RowEffect, Looking, StageInv
  <1>q. QED
    BY <1>4, <1>5 DEF Release

LEMMA CreateEffect ==
    ASSUME IInv, NEW u \in Uploads, NEW r \in Answers, CreatePending(u, r)
    PROVE  Effect(u)
  <1>1. /\ pc[u] = "create" /\ pc[u] \in Looking /\ pc[u] # "idle"
        /\ UNCHANGED objects /\ objects' \in SUBSET Assets /\ Known(u)
    BY KnownBefore DEF CreatePending, Looking, IInv, TypeOK
  <1>2. FaultsGrow /\ (r = "lost" => "lost" \in happened')
    BY DatabaseStep DEF CreatePending, IInv
  <1>3. CASE r # "error" /\ keyed = {} /\ Insert(mine[u])
    <2>1. Inserted(mine[u])
      BY <1>1, <1>3 DEF Insert, Inserted, Known, IInv, TypeOK
    <2>2. status'[mine[u]] = "PENDING" /\ mine[u] \in Assets /\ mine[u] \notin objects
      BY <1>1, <2>1 DEF Inserted, Known, IInv, TypeOK
    <2>3. CASE r = "ok"
      <3>1. Goto(u, "upload") /\ UNCHANGED <<mine, seen, tries, confirmed, returned>>
        BY <1>3, <2>3 DEF CreatePending
      <3>2. Local(u) /\ pc'[u] = "upload"
        BY <1>1, <3>1 DEF Goto, Local, IInv, TypeOK, InProgress
      <3>q. QED
        BY <1>1, <1>2, <2>1, <2>2, <3>1, <3>2
           DEF Effect, RowEffect, StageInv, Looking, InProgress, Known
    <2>4. CASE r = "lost"
      <3>1. Throw(u)
        BY <1>3, <2>4 DEF CreatePending
      <3>2. /\ Local(u) /\ pc'[u] = "idle" /\ mine'[u] = None /\ UNCHANGED returned
            /\ tries'[u] = 0 /\ confirmed'[u] = "NONE"
        BY <3>1, LocalForget DEF Throw, IInv
      <3>q. QED
        BY <1>1, <1>2, <2>1, <2>2, <2>4, <3>2 DEF Effect, RowEffect, StageInv, Looking
    <2>q. QED
      BY <1>3, <2>3, <2>4 DEF Answers
  <1>4. CASE (r = "error" \/ keyed # {}) /\ UNCHANGED rowVars
    <2>1. RowsKept
      BY <1>4 DEF rowVars, RowsKept
    <2>2. CASE r = "ok"
      <3>1. /\ Goto(u, "recheck") /\ tries' = [tries EXCEPT ![u] = @ + 1]
            /\ UNCHANGED <<mine, seen, confirmed, returned>>
        BY <1>4, <2>2 DEF CreatePending
      <3>2. tries[u] < 2
        BY <1>1 DEF IInv, TriesInv
      <3>3. tries' \in [Uploads -> 0..2]
        BY <3>1, <3>2 DEF IInv, TypeOK
      <3>4. Local(u) /\ pc'[u] \in Looking /\ pc'[u] = "recheck"
        BY <1>1, <3>1, <3>3 DEF Goto, Local, IInv, TypeOK, Looking
      <3>q. QED
        BY <1>1, <1>2, <2>1, <3>1, <3>4, LookOn
    <2>3. CASE r # "ok"
      BY <1>1, <1>2, <1>4, <2>1, <2>3, ForgetEffect DEF CreatePending, Throw, Known
    <2>q. QED
      BY <2>2, <2>3
  <1>q. QED
    BY <1>3, <1>4 DEF CreatePending

LEMMA UploadEffect ==
    ASSUME IInv, NEW u \in Uploads, NEW r \in Answers, UploadObject(u, r)
    PROVE  Effect(u)
  <1> DEFINE next == IF r = "ok" THEN "finalize" ELSE "markFailed"
  <1>1. pc[u] = "upload" /\ pc[u] # "idle" /\ Known(u) /\ RowsKept
    BY KnownBefore DEF UploadObject, rowVars, RowsKept
  <1>2. FaultsGrow /\ (r # "ok" => "storage" \in happened')
    BY StorageStep DEF UploadObject, IInv
  <1>3. status[mine[u]] = "PENDING" /\ mine[u] \in Assets
    BY <1>1 DEF Known, StageInv
  <1>4. Local(u) /\ pc'[u] = next /\ UNCHANGED <<mine, confirmed, returned>>
    BY <1>1, LocalProceed DEF UploadObject, InProgress, IInv
  <1>5. /\ objects' \in SUBSET Assets /\ objects' \ {mine[u]} = objects \ {mine[u]}
        /\ r = "ok" => mine[u] \in objects'
    BY <1>3 DEF UploadObject, IInv, TypeOK
  <1>q. QED
    BY <1>1, <1>2, <1>3, <1>4, <1>5
       DEF Effect, RowEffect, RowsKept, StageInv, Looking, InProgress, Known

LEMMA FinalizeEffect ==
    ASSUME IInv, NEW u \in Uploads, NEW r \in Answers, Finalize(u, r)
    PROVE  Effect(u)
  <1> DEFINE next == IF r = "ok" THEN "reload" ELSE "reconcile"
  <1>1. /\ pc[u] = "finalize" /\ pc[u] # "idle" /\ Known(u)
        /\ UNCHANGED <<keyed, expiring, expired, objects>> /\ objects' \in SUBSET Assets
    BY KnownBefore DEF Finalize, IInv, TypeOK
  <1>2. /\ FaultsGrow
        /\ r = "error" => "database" \in happened'
        /\ r = "lost" => "lost" \in happened'
    BY DatabaseStep DEF Finalize, IInv
  <1>3. status[mine[u]] = "PENDING" /\ mine[u] \in Assets /\ mine[u] \in objects
    BY <1>1 DEF Known, StageInv
  <1>4. Local(u) /\ pc'[u] = next /\ UNCHANGED <<mine, confirmed, returned>>
    BY <1>1, <1>3, LocalProceed DEF Finalize, InProgress, IInv
  <1>5. CASE r = "error"
    <2>1. RowsKept
      BY <1>1, <1>5 DEF Finalize, RowsKept
    <2>q. QED
      BY <1>1, <1>2, <1>3, <1>4, <1>5, <2>1
         DEF Effect, RowEffect, RowsKept, StageInv, Looking, InProgress, Known
  <1>6. CASE r # "error"
    <2>1. Readied(mine[u]) /\ status'[mine[u]] = "READY"
      BY <1>1, <1>3, <1>6 DEF Finalize, Readied, IInv, TypeOK
    <2>q. QED
      BY <1>1, <1>2, <1>3, <1>4, <1>6, <2>1
         DEF Effect, RowEffect, StageInv, Looking, InProgress, Answers, Known
  <1>q. QED
    BY <1>5, <1>6

LEMMA ReturnEffect ==
    ASSUME IInv, NEW u \in Uploads, pc[u] \in {"reload", "reconcile"},
           ReturnIfReady(u), UNCHANGED <<rowVars, objects, happened>>, FaultsGrow
    PROVE  Effect(u)
  <1>1. pc[u] # "idle" /\ Known(u) /\ RowsKept /\ objects' \in SUBSET Assets
    BY KnownBefore DEF rowVars, RowsKept, IInv, TypeOK
  <1>2. CASE status[mine[u]] = "READY" /\ Return(u, mine[u])
    BY <1>1, <1>2, ForgetEffect DEF Return, Known
  <1>3. CASE /\ status[mine[u]] # "READY"
             /\ Goto(u, "compensate")
             /\ confirmed' = [confirmed EXCEPT ![u] = status[mine[u]]]
             /\ UNCHANGED <<mine, seen, tries, returned>>
    <2>1. mine[u] \in Assets /\ StageInv(u) /\ mine[u] \in objects
      BY <1>1 DEF Known, StageInv
    <2>2. /\ Local(u) /\ pc'[u] = "compensate" /\ UNCHANGED <<mine, returned>>
          /\ confirmed'[u] = status[mine[u]]
      BY <1>3, <2>1 DEF Goto, Local, IInv, TypeOK, InProgress, StageInv
    <2>q. QED
      BY <1>1, <1>3, <2>1, <2>2
         DEF Effect, RowEffect, RowsKept, StageInv, Looking, InProgress, Known
  <1>q. QED
    BY <1>2, <1>3 DEF ReturnIfReady

LEMMA ReloadEffect ==
    ASSUME IInv, NEW u \in Uploads, NEW r \in Answers, Reload(u, r) \/ Reconcile(u, r)
    PROVE  Effect(u)
  <1>1. /\ pc[u] \in {"reload", "reconcile"} /\ pc[u] # "idle" /\ Known(u) /\ RowsKept
        /\ UNCHANGED <<rowVars, objects>> /\ objects' \in SUBSET Assets
    BY KnownBefore DEF Reload, Reconcile, rowVars, RowsKept, IInv, TypeOK
  <1>2. /\ FaultsGrow
        /\ r = "ok" => UNCHANGED happened
        /\ r = "error" => "database" \in happened'
    BY DatabaseStep DEF Reload, Reconcile, IInv
  <1>3. CASE r = "ok"
    BY <1>1, <1>2, <1>3, ReturnEffect DEF Reload, Reconcile
  <1>4. CASE r # "ok" /\ Reload(u, r)
    BY <1>1, <1>2, <1>4, ForgetEffect DEF Reload, Throw, Known, StageInv
  <1>5. CASE r # "ok" /\ Reconcile(u, r)
    <2>1. pc[u] = "reconcile" /\ mine[u] \in Assets /\ StageInv(u) /\ mine[u] \in objects
      BY <1>1, <1>5 DEF Reconcile, Known, StageInv
    <2>2. Local(u) /\ pc'[u] = "compensate" /\ UNCHANGED <<mine, confirmed, returned>>
      BY <1>1, <1>5, LocalProceed DEF Reconcile, InProgress, IInv
    <2>q. QED
      BY <1>1, <1>2, <1>5, <2>1, <2>2
         DEF Effect, RowEffect, RowsKept, StageInv, Looking, InProgress, FaultsGrow,
             Reconcile, Answers
  <1>q. QED
    BY <1>3, <1>4, <1>5

LEMMA CompensateEffect ==
    ASSUME IInv, NEW u \in Uploads, NEW r \in Answers, Compensate(u, r)
    PROVE  Effect(u)
  <1>1. pc[u] = "compensate" /\ pc[u] # "idle" /\ Known(u) /\ RowsKept
    BY KnownBefore DEF Compensate, rowVars, RowsKept
  <1>2. FaultsGrow /\ (r # "ok" => "storage" \in happened')
    BY StorageStep DEF Compensate, IInv
  <1>3. mine[u] \in Assets /\ StageInv(u)
    BY <1>1 DEF Known
  <1>4. /\ objects' \in SUBSET Assets /\ objects' \ {mine[u]} = objects \ {mine[u]}
        /\ r = "ok" => mine[u] \notin objects'
        /\ mine[u] \in objects' => mine[u] \in objects
    BY <1>3 DEF Compensate, IInv, TypeOK
  <1>5. CASE confirmed[u] = "PENDING" /\ Proceed(u, "markFailed")
    <2>1. Local(u) /\ pc'[u] = "markFailed" /\ UNCHANGED <<mine, confirmed, returned>>
      BY <1>1, <1>5, LocalProceed DEF InProgress, IInv
    <2>q. QED
      BY <1>1, <1>2, <1>3, <1>4, <1>5, <2>1
         DEF Effect, RowEffect, RowsKept, StageInv, Looking, InProgress, Known
  <1>6. CASE Throw(u)
    <2>1. /\ Local(u) /\ pc'[u] = "idle" /\ mine'[u] = None /\ UNCHANGED returned
          /\ tries'[u] = 0 /\ confirmed'[u] = "NONE"
      BY <1>6, LocalForget DEF Throw, IInv
    <2>q. QED
      BY <1>1, <1>2, <1>3, <1>4, <2>1
         DEF Effect, RowEffect, RowsKept, StageInv, Looking, FaultsGrow
  <1>q. QED
    BY <1>5, <1>6 DEF Compensate

LEMMA MarkFailedEffect ==
    ASSUME IInv, NEW u \in Uploads, NEW r \in Answers, MarkFailed(u, r)
    PROVE  Effect(u)
  <1>1. /\ pc[u] = "markFailed" /\ pc[u] # "idle" /\ Known(u)
        /\ UNCHANGED objects /\ objects' \in SUBSET Assets
    BY KnownBefore DEF MarkFailed, IInv, TypeOK
  <1>2. FaultsGrow /\ (r = "error" => "database" \in happened')
    BY DatabaseStep DEF MarkFailed, IInv
  <1>3. mine[u] \in Assets /\ StageInv(u) /\ status[mine[u]] = "PENDING"
    BY <1>1 DEF Known, StageInv
  <1>4. /\ Local(u) /\ pc'[u] = "idle" /\ mine'[u] = None /\ UNCHANGED returned
        /\ tries'[u] = 0 /\ confirmed'[u] = "NONE"
    BY LocalForget DEF MarkFailed, Throw, IInv
  <1>5. CASE r = "error"
    <2>1. RowsKept
      BY <1>5 DEF MarkFailed, rowVars, RowsKept
    <2>q. QED
      BY <1>1, <1>2, <1>3, <1>4, <1>5, <2>1
         DEF Effect, RowEffect, RowsKept, StageInv, Looking, FaultsGrow
  <1>6. CASE r # "error"
    <2>1. GivenUp(mine[u]) /\ status'[mine[u]] = "FAILED"
      BY <1>3, <1>6 DEF MarkFailed, SetFailed, GivenUp, IInv, TypeOK
    <2>q. QED
      BY <1>1, <1>2, <1>3, <1>4, <2>1
         DEF Effect, RowEffect, StageInv, Looking, FaultsGrow
  <1>q. QED
    BY <1>5, <1>6

------------------------------------------------------------------------------
(* From the effect of a step to the invariant *)

\* What another upload's row and object go through.
LEMMA OtherRows ==
    ASSUME IInv, NEW u \in Uploads, Effect(u), NEW a \in Assets, a # mine[u]
    PROVE  /\ \/ status'[a] = status[a]
              \/ status[a] = "READY" /\ status'[a] = "DELETE_PENDING"
           /\ a \in objects' <=> a \in objects
  BY DEF Effect, RowEffect, RowsKept, Released, Inserted, Readied, GivenUp, IInv, TypeOK,
     KeyIsLock

LEMMA EffectTypes ==
    ASSUME IInv, NEW u \in Uploads, pc[u] # "idle", Effect(u)
    PROVE  TypeOK'
  <1>1. mine[u] \in Assets
    BY DEF IInv, TypeOK
  <1>2. /\ status' \in [Assets -> Statuses \union {"NONE"}]
        /\ keyed' \in SUBSET Assets /\ expiring' \in SUBSET Assets
        /\ expired' \in SUBSET expiring'
    <2>1. CASE RowsKept
      BY <2>1 DEF RowsKept, IInv, TypeOK
    <2>2. ASSUME NEW b \in Assets, Released(b)
          PROVE  /\ status' \in [Assets -> Statuses \union {"NONE"}]
                 /\ keyed' \in SUBSET Assets /\ expiring' \in SUBSET Assets
                 /\ expired' \in SUBSET expiring'
      BY <2>2 DEF Released, IInv, TypeOK, Statuses
    <2>3. CASE Inserted(mine[u])
      BY <1>1, <2>3 DEF Inserted, IInv, TypeOK, Statuses
    <2>4. CASE Readied(mine[u]) \/ GivenUp(mine[u])
      BY <1>1, <2>4 DEF Readied, GivenUp, IInv, TypeOK, Statuses
    <2>q. QED
      BY <2>1, <2>2, <2>3, <2>4 DEF Effect, RowEffect
  <1>q. QED
    BY <1>2, TypeFrame DEF Effect, FaultsGrow, IInv

LEMMA EffectLock ==
    ASSUME IInv, NEW u \in Uploads, pc[u] # "idle", Effect(u)
    PROVE  KeyIsLock'
  <1>1. mine[u] \in Assets /\ KeyIsLock /\ TypeOK
    BY DEF IInv, TypeOK
  <1>2. CASE RowsKept
    BY <1>1, <1>2 DEF RowsKept, KeyIsLock
  <1>3. ASSUME NEW b \in Assets, Released(b)
        PROVE  KeyIsLock'
    BY <1>1, <1>3 DEF Released, KeyIsLock, TypeOK
  <1>4. CASE Inserted(mine[u])
    BY <1>1, <1>4 DEF Inserted, KeyIsLock, TypeOK
  <1>5. CASE Readied(mine[u])
    BY <1>1, <1>5 DEF Readied, KeyIsLock, TypeOK
  <1>6. CASE GivenUp(mine[u])
    BY <1>1, <1>6 DEF GivenUp, KeyIsLock, TypeOK
  <1>q. QED
    BY <1>2, <1>3, <1>4, <1>5, <1>6 DEF Effect, RowEffect

LEMMA EffectReturned ==
    ASSUME IInv, NEW u \in Uploads, pc[u] # "idle", Effect(u)
    PROVE  ReturnedStaysReady'
  <1>1. mine[u] \in Assets /\ TypeOK
    BY DEF IInv, TypeOK
  <1>2. ASSUME NEW a \in Assets, status[a] = "READY" \/ a \in expired
        PROVE  status'[a] = "READY" \/ a \in expired'
    <2>1. CASE RowsKept
      BY <1>2, <2>1 DEF RowsKept
    <2>2. ASSUME NEW b \in Assets, Released(b)
          PROVE  status'[a] = "READY" \/ a \in expired'
      BY <1>1, <1>2, <2>2 DEF Released, TypeOK
    <2>3. CASE pc[u] = "create" /\ Inserted(mine[u])
      <3>1. status[mine[u]] = "NONE"
        BY <2>3 DEF IInv, OwnInv, Looking
      <3>q. QED
        BY <1>1, <1>2, <2>3, <3>1 DEF Inserted, TypeOK
    <2>4. CASE Readied(mine[u]) \/ GivenUp(mine[u])
      BY <1>1, <1>2, <2>4 DEF Readied, GivenUp, TypeOK
    <2>q. QED
      BY <2>1, <2>2, <2>3, <2>4 DEF Effect, RowEffect
  <1> SUFFICES ASSUME NEW v \in Uploads, NEW a \in Assets, returned'[v] = a
               PROVE  status'[a] = "READY" \/ a \in expired'
    BY DEF ReturnedStaysReady
  <1>3. CASE returned'[v] = returned[v]
    BY <1>2, <1>3 DEF IInv, ReturnedStaysReady
  <1>4. CASE returned'[v] # returned[v]
    <2>1. v = u
      BY <1>4 DEF Effect, Local
    <2>q. QED
      BY <1>2, <1>4, <2>1 DEF Effect
  <1>q. QED
    BY <1>3, <1>4

LEMMA EffectOwn ==
    ASSUME IInv, NEW u \in Uploads, pc[u] # "idle", Effect(u)
    PROVE  OwnInv' /\ TriesInv'
  <1>1. mine[u] \in Assets /\ OwnInv /\ TriesInv /\ TypeOK
    BY DEF IInv, TypeOK
  <1>2. \A v \in Uploads \ {u} :
           /\ pc'[v] = pc[v] /\ mine'[v] = mine[v] /\ tries'[v] = tries[v]
           /\ mine[v] # mine[u]
    BY <1>1 DEF Effect, Local, OwnInv
  <1>3. mine'[u] \in {mine[u], None} /\ (pc'[u] = "idle" <=> mine'[u] = None)
    BY DEF Effect
  <1>4. \A v, w \in Uploads : mine'[v] = mine'[w] /\ mine'[v] # None => v = w
    BY <1>1, <1>2, <1>3 DEF OwnInv
  <1>5. \A v \in Uploads : pc'[v] = "idle" <=> mine'[v] = None
    BY <1>1, <1>2, <1>3 DEF OwnInv
  <1>6. ASSUME NEW v \in Uploads, pc'[v] \in Looking
        PROVE  status'[mine'[v]] = "NONE"
    <2>1. CASE v = u
      BY <1>3, <1>6, <2>1 DEF Effect, Looking
    <2>2. CASE v # u
      <3>1. pc[v] \in Looking /\ mine'[v] = mine[v] /\ mine[v] # mine[u]
        BY <1>2, <1>6, <2>2
      <3>2. mine[v] \in Assets /\ status[mine[v]] = "NONE"
        BY <1>1, <3>1 DEF OwnInv, TypeOK, Looking
      <3>q. QED
        BY <3>1, <3>2, OtherRows
    <2>q. QED
      BY <2>1, <2>2
  <1>7. ASSUME NEW a \in objects'
        PROVE  status'[a] # "NONE"
    <2>1. CASE a = mine[u]
      BY <1>7, <2>1 DEF Effect
    <2>2. CASE a # mine[u]
      <3>1. a \in Assets
        BY <1>7 DEF Effect
      <3>q. QED
        BY <1>1, <1>7, <2>2, <3>1, OtherRows DEF OwnInv
    <2>q. QED
      BY <2>1, <2>2
  <1>8. TriesInv'
    BY <1>1, <1>2 DEF TriesInv, Effect
  <1>q. QED
    BY <1>4, <1>5, <1>6, <1>7, <1>8 DEF OwnInv

\* Other uploads know as much as before of their own rows.
LEMMA EffectStages ==
    ASSUME IInv, NEW u \in Uploads, pc[u] # "idle", Effect(u)
    PROVE  StagesInv'
  <1> SUFFICES ASSUME NEW v \in Uploads
               PROVE  StageInv(v)'
    BY DEF StagesInv
  <1>1. CASE v = u
    BY <1>1 DEF Effect
  <1>2. CASE v # u
    <2>1. /\ pc'[v] = pc[v] /\ mine'[v] = mine[v] /\ confirmed'[v] = confirmed[v]
          /\ seen'[v] = seen[v] /\ happened \subseteq happened'
      BY <1>2 DEF Effect, Local, FaultsGrow
    <2>2. StageInv(v)
      BY DEF IInv, StagesInv
    <2>3. CASE pc[v] = "idle"
      BY <2>1, <2>2, <2>3 DEF StageInv
    <2>4. CASE pc[v] # "idle"
      <3>1. mine[v] \in Assets /\ mine[v] # mine[u]
        BY <1>2, <2>4 DEF IInv, TypeOK, OwnInv
      <3>q. QED
        BY <2>1, <2>2, <3>1, OtherRows DEF StageInv
    <2>q. QED
      BY <2>3, <2>4
  <1>q. QED
    BY <1>1, <1>2

LEMMA EffectAssets ==
    ASSUME IInv, NEW u \in Uploads, pc[u] # "idle", Effect(u)
    PROVE  ReadyHasObject' /\ PendingIsInProgress' /\ NoOrphans'
  <1>1. mine[u] \in Assets /\ happened \subseteq happened'
    BY DEF IInv, TypeOK, Effect, FaultsGrow
  <1>2. pc'[u] \in InProgress => mine'[u] = mine[u]
    BY DEF Effect, InProgress
  <1>3. \A v \in Uploads : mine[v] # mine[u] => pc'[v] = pc[v] /\ mine'[v] = mine[v]
    BY DEF Effect, Local
  <1>4. ReadyHasObject'
    <2> SUFFICES ASSUME "lost" \notin happened', NEW a \in Assets, status'[a] = "READY"
                 PROVE  a \in objects'
      BY DEF ReadyHasObject
    <2>1. CASE a = mine[u]
      BY <2>1 DEF Effect
    <2>2. CASE a # mine[u]
      BY <1>1, <2>2, OtherRows DEF IInv, ReadyHasObject
    <2>q. QED
      BY <2>1, <2>2
  <1>5. PendingIsInProgress'
    <2> SUFFICES ASSUME happened' \subseteq {"storage"}, NEW a \in Assets,
                        status'[a] = "PENDING"
                 PROVE  \E v \in Uploads : pc'[v] \in InProgress /\ mine'[v] = a
      BY DEF PendingIsInProgress
    <2>1. CASE a = mine[u]
      BY <1>2, <2>1 DEF Effect
    <2>2. CASE a # mine[u]
      <3>1. PICK v \in Uploads : pc[v] \in InProgress /\ mine[v] = a
        BY <1>1, <2>2, OtherRows DEF IInv, PendingIsInProgress
      <3>q. QED
        BY <1>3, <2>2, <3>1
    <2>q. QED
      BY <2>1, <2>2
  <1>6. NoOrphans'
    <2> SUFFICES ASSUME happened' \subseteq {"database", "lost"}, NEW a \in objects',
                        status'[a] \notin {"READY", "DELETE_PENDING"}
                 PROVE  \E v \in Uploads : pc'[v] \in InProgress /\ mine'[v] = a
      BY DEF NoOrphans
    <2>1. CASE a = mine[u]
      BY <1>2, <2>1 DEF Effect
    <2>2. CASE a # mine[u]
      <3>1. a \in Assets /\ a \in objects /\ status[a] \notin {"READY", "DELETE_PENDING"}
        <4>1. a \in Assets
          BY DEF Effect
        <4>q. QED
          BY <2>2, <4>1, OtherRows
      <3>2. PICK v \in Uploads : pc[v] \in InProgress /\ mine[v] = a
        BY <1>1, <3>1 DEF IInv, NoOrphans
      <3>q. QED
        BY <1>3, <2>2, <3>2
    <2>q. QED
      BY <2>1, <2>2
  <1>q. QED
    BY <1>4, <1>5, <1>6

\* Every step of a request preserves the invariant.
LEMMA UploadStep ==
    ASSUME IInv, NEW u \in Uploads, pc[u] # "idle", Effect(u)
    PROVE  IInv'
  BY EffectTypes, EffectLock, EffectReturned, EffectOwn, EffectStages, EffectAssets DEF IInv

\* A new request has an id of its own and knows nothing yet.
LEMMA StartStep ==
    ASSUME IInv, NEW u \in Uploads, NEW a \in Assets, Start(u, a)
    PROVE  IInv'
  <1>1. /\ UNCHANGED <<status, keyed, expiring, expired, objects, seen, tries, confirmed,
                       faults, happened>>
        /\ pc[u] = "idle" /\ mine[u] = None /\ status[a] = "NONE" /\ a \notin objects
        /\ \A v \in Uploads : mine[v] # a
    BY DEF Start, rowVars, faultVars, IInv, OwnInv
  <1>2. /\ pc'[u] = "find" /\ mine'[u] = a /\ returned'[u] = None
        /\ \A v \in Uploads \ {u} :
              pc'[v] = pc[v] /\ mine'[v] = mine[v] /\ returned'[v] = returned[v]
    BY DEF Start, Goto, IInv, TypeOK
  <1>3. TypeOK'
    BY <1>1 DEF Start, Goto, IInv, TypeOK, Looking
  <1>4. OwnInv' /\ TriesInv'
    BY <1>1, <1>2 DEF IInv, OwnInv, TriesInv, Looking
  <1>5. StagesInv'
    <2> SUFFICES ASSUME NEW v \in Uploads
                 PROVE  StageInv(v)'
      BY DEF StagesInv
    <2>1. StageInv(v)
      BY DEF IInv, StagesInv
    <2>q. QED
      BY <1>1, <1>2, <2>1 DEF StageInv
  <1>6. KeyIsLock' /\ ReadyHasObject' /\ ReturnedStaysReady'
    BY <1>1, <1>2 DEF IInv, KeyIsLock, ReadyHasObject, ReturnedStaysReady
  <1>7. \A v \in Uploads : pc[v] \in InProgress =>
                             pc'[v] = pc[v] /\ mine'[v] = mine[v]
    BY <1>1, <1>2 DEF InProgress
  <1>8. PendingIsInProgress' /\ NoOrphans'
    BY <1>1, <1>7 DEF IInv, PendingIsInProgress, NoOrphans
  <1>q. QED
    BY <1>3, <1>4, <1>5, <1>6, <1>8 DEF IInv

\* Time alone changes nothing that is said.
LEMMA ExpireStep ==
    ASSUME IInv, UNCHANGED <<status, keyed, expiring, objects, uploadVars, returned, faultVars>>,
           expired \subseteq expired', expired' \in SUBSET expiring
    PROVE  IInv'
  <1>1. UNCHANGED <<pc, mine, seen, tries, confirmed, faults, happened>>
    BY DEF uploadVars, faultVars
  <1>2. TypeOK' /\ TriesInv'
    BY <1>1 DEF IInv, TypeOK, TriesInv
  <1>3. OwnInv' /\ KeyIsLock' /\ ReadyHasObject' /\ ReturnedStaysReady'
    BY <1>1 DEF IInv, OwnInv, KeyIsLock, ReadyHasObject, ReturnedStaysReady
  <1>4. StagesInv'
    BY <1>1 DEF IInv, StagesInv, StageInv
  <1>5. PendingIsInProgress' /\ NoOrphans'
    BY <1>1 DEF IInv, PendingIsInProgress, NoOrphans
  <1>q. QED
    BY <1>2, <1>3, <1>4, <1>5 DEF IInv

\* There is neither row nor request at the start.
LEMMA InitIInv == Init => IInv
  BY DEF Init, IInv, TypeOK, TriesInv, OwnInv, StagesInv, StageInv, KeyIsLock,
     ReadyHasObject, ReturnedStaysReady, PendingIsInProgress, NoOrphans, Looking, InProgress,
     FaultKinds

------------------------------------------------------------------------------
(* Theorems *)

\* The inductive invariant holds for any ids, uploads and number of faults.
THEOREM Invariance == Spec => []IInv
  <1>1. IInv /\ [Next]_vars => IInv'
    <2> SUFFICES ASSUME IInv, [Next]_vars
                 PROVE  IInv'
      OBVIOUS
    <2>1. ASSUME NEW a \in Assets, Expire(a)
          PROVE  IInv'
      <3>1. expired' \in SUBSET expiring /\ expired \subseteq expired'
        BY <2>1 DEF Expire, IInv, TypeOK
      <3>q. QED
        BY <2>1, <3>1, ExpireStep DEF Expire
    <2>2. ASSUME NEW u \in Uploads, NEW a \in Assets, Start(u, a)
          PROVE  IInv'
      BY <2>2, StartStep
    <2>3. ASSUME NEW u \in Uploads, Step(u) \/ Crash(u)
          PROVE  IInv'
      <3>1. pc[u] # "idle"
        BY <2>3 DEF Step, Crash, FindExisting, Recheck, QueryFails, Release, CreatePending,
           UploadObject, Finalize, Reload, Reconcile, Compensate, MarkFailed
      <3>2. Effect(u)
        BY <2>3, FindEffect, FailureEffect, ReleaseEffect, CreateEffect, UploadEffect,
           FinalizeEffect, ReloadEffect, CompensateEffect, MarkFailedEffect DEF Step
      <3>q. QED
        BY <3>1, <3>2, UploadStep
    <2>4. CASE UNCHANGED vars
      <3>1. expired \in SUBSET expiring
        BY DEF IInv, TypeOK
      <3>q. QED
        BY <2>4, <3>1, ExpireStep DEF vars, rowVars
    <2>q. QED
      BY <2>1, <2>2, <2>3, <2>4 DEF Next
  <1>q. QED
    BY InitIInv, <1>1, PTL DEF Spec

\* Every variable keeps its type.
THEOREM TypeCorrect == Spec => []TypeOK
  <1>1. IInv => TypeOK
    BY DEF IInv
  <1>q. QED
    BY Invariance, <1>1, PTL

\* One row holds the key of a file, PENDING or READY, and a PENDING row holds it.
THEOREM KeyLocks == Spec => []KeyIsLock
  <1>1. IInv => KeyIsLock
    BY DEF IInv
  <1>q. QED
    BY Invariance, <1>1, PTL

\* The key of its PENDING row keeps other uploads of the file out.
THEOREM UploadsExclude == Spec => []OneUploadAtATime
  <1>1. IInv => OneUploadAtATime
    <2> SUFFICES ASSUME IInv, NEW u \in Uploads, NEW v \in Uploads,
                        pc[u] \in {"upload", "finalize"}, pc[v] \in {"upload", "finalize"}
                 PROVE  u = v
      BY DEF OneUploadAtATime
    <2>1. /\ mine[u] \in Assets /\ status[mine[u]] = "PENDING"
          /\ mine[v] \in Assets /\ status[mine[v]] = "PENDING"
      BY DEF IInv, TypeOK, StagesInv, StageInv
    <2>2. mine[u] = mine[v]
      BY <2>1 DEF IInv, KeyIsLock
    <2>q. QED
      BY <2>1, <2>2 DEF IInv, OwnInv
  <1>q. QED
    BY Invariance, <1>1, PTL

\* Unless the reply to a commit is lost, READY rows have their objects.
THEOREM ReadyHas == Spec => []ReadyHasObject
  <1>1. IInv => ReadyHasObject
    BY DEF IInv
  <1>q. QED
    BY Invariance, <1>1, PTL

\* An asset that was returned is READY until it expires.
THEOREM ReturnedStays == Spec => []ReturnedStaysReady
  <1>1. IInv => ReturnedStaysReady
    BY DEF IInv
  <1>q. QED
    BY Invariance, <1>1, PTL

\* Failures of the storage alone leave no PENDING row behind.
THEOREM PendingProgresses == Spec => []PendingIsInProgress
  <1>1. IInv => PendingIsInProgress
    BY DEF IInv
  <1>q. QED
    BY Invariance, <1>1, PTL

\* Failures of the database alone leave no object behind.
THEOREM ObjectsBelong == Spec => []NoOrphans
  <1>1. IInv => NoOrphans
    BY DEF IInv
  <1>q. QED
    BY Invariance, <1>1, PTL
\* The awaits that may follow each other with the same number of tries.
Follows ==
    {<<"find", "create">>, <<"find", "release">>, <<"recheck", "release">>,
     <<"release", "create">>, <<"create", "upload">>, <<"upload", "finalize">>,
     <<"upload", "markFailed">>, <<"finalize", "reload">>, <<"finalize", "reconcile">>,
     <<"reload", "compensate">>, <<"reconcile", "compensate">>,
     <<"compensate", "markFailed">>}

\* A step along them, the retry of the creation, and the answer bring it closer.
LEMMA FollowsProgress ==
    ASSUME TypeOK, NEW u \in Uploads, pc[u] # "idle", NEW step, NEW t,
           pc' = [pc EXCEPT ![u] = step], tries' = [tries EXCEPT ![u] = t],
           \/ step = "idle"
           \/ t = tries[u] /\ <<pc[u], step>> \in Follows
           \/ pc[u] = "create" /\ step = "recheck" /\ t = tries[u] + 1 /\ tries[u] < 2,
           NEW v \in Uploads
    PROVE  UploadProgress(v)
  <1>1. CASE v # u
    BY <1>1 DEF UploadProgress, TypeOK
  <1>2. CASE v = u
    <2>1. pc'[u] = step /\ tries'[u] = t /\ tries[u] \in 0..2
      BY DEF TypeOK
    <2>2. CASE step = "idle"
      <3>1. AwaitsLeft(u)' = 0
        BY <2>1, <2>2 DEF AwaitsLeft
      <3>2. pc[u] \in Looking => AwaitsLeft(u) \in Nat \ {0}
        BY <2>1 DEF AwaitsLeft, Looking
      <3>3. pc[u] \in InProgress => AwaitsLeft(u) \in Nat \ {0}
        BY DEF AwaitsLeft, InProgress
      <3>4. AwaitsLeft(u) \in Nat \ {0}
        BY <3>2, <3>3 DEF TypeOK
      <3>q. QED
        BY <1>2, <3>1, <3>4 DEF UploadProgress
    <2>3. CASE pc[u] = "create" /\ step = "recheck" /\ t = tries[u] + 1 /\ tries[u] < 2
      <3>1. AwaitsLeft(u) = 15 - 3 * tries[u]
        BY <2>3 DEF AwaitsLeft
      <3>2. AwaitsLeft(u)' = 17 - 3 * (tries[u] + 1)
        BY <2>1, <2>3 DEF AwaitsLeft
      <3>q. QED
        BY <1>2, <2>1, <2>3, <3>1, <3>2 DEF UploadProgress
    <2>4. CASE t = tries[u] /\ <<pc[u], step>> \in Follows /\ step \in Looking
      <3>1. \/ pc[u] = "find" /\ step \in {"create", "release"}
            \/ pc[u] = "recheck" /\ step = "release"
            \/ pc[u] = "release" /\ step = "create"
        BY <2>4 DEF Follows, Looking
      <3>2. /\ pc[u] = "find" => AwaitsLeft(u) = 17
            /\ pc[u] = "recheck" => AwaitsLeft(u) = 17 - 3 * tries[u]
            /\ pc[u] = "release" => AwaitsLeft(u) = 16 - 3 * tries[u]
        BY DEF AwaitsLeft
      <3>3. /\ step = "release" => AwaitsLeft(u)' = 16 - 3 * tries[u]
            /\ step = "create" => AwaitsLeft(u)' = 15 - 3 * tries[u]
        BY <2>1, <2>4 DEF AwaitsLeft
      <3>q. QED
        BY <1>2, <2>1, <3>1, <3>2, <3>3 DEF UploadProgress
    <2>5. CASE t = tries[u] /\ <<pc[u], step>> \in Follows /\ step \in InProgress
      <3>1. \/ pc[u] = "create" /\ step = "upload"
            \/ pc[u] = "upload" /\ step \in {"finalize", "markFailed"}
            \/ pc[u] = "finalize" /\ step \in {"reload", "reconcile"}
            \/ pc[u] \in {"reload", "reconcile"} /\ step = "compensate"
            \/ pc[u] = "compensate" /\ step = "markFailed"
        BY <2>5 DEF Follows, InProgress
      <3>2. /\ pc[u] = "create" => AwaitsLeft(u) = 15 - 3 * tries[u]
            /\ pc[u] = "upload" => AwaitsLeft(u) = 6
            /\ pc[u] = "finalize" => AwaitsLeft(u) = 5
            /\ pc[u] \in {"reload", "reconcile"} => AwaitsLeft(u) = 4
            /\ pc[u] = "compensate" => AwaitsLeft(u) = 3
        BY DEF AwaitsLeft
      <3>3. /\ step = "upload" => AwaitsLeft(u)' = 6
            /\ step = "finalize" => AwaitsLeft(u)' = 5
            /\ step \in {"reload", "reconcile"} => AwaitsLeft(u)' = 4
            /\ step = "compensate" => AwaitsLeft(u)' = 3
            /\ step = "markFailed" => AwaitsLeft(u)' = 2
        BY <2>1 DEF AwaitsLeft
      <3>q. QED
        BY <1>2, <2>1, <3>1, <3>2, <3>3 DEF UploadProgress
    <2>6. \/ step = "idle" \/ <<pc[u], step>> \notin Follows
          \/ step \in Looking \/ step \in InProgress
      BY DEF Follows, Looking, InProgress
    <2>q. QED
      BY <2>2, <2>3, <2>4, <2>5, <2>6
  <1>q. QED
    BY <1>1, <1>2

\* The answer of a request.
LEMMA ForgetProgress ==
    ASSUME TypeOK, NEW u \in Uploads, pc[u] # "idle", Forget(u), NEW v \in Uploads
    PROVE  UploadProgress(v)
  BY FollowsProgress DEF Forget, Goto

\* A step that leaves the number of tries.
LEMMA GotoProgress ==
    ASSUME TypeOK, NEW u \in Uploads, NEW step, Goto(u, step), UNCHANGED tries,
           <<pc[u], step>> \in Follows, NEW v \in Uploads
    PROVE  UploadProgress(v)
  <1>1. tries' = [tries EXCEPT ![u] = tries[u]]
    BY DEF TypeOK
  <1>2. pc[u] # "idle"
    BY DEF Follows
  <1>q. QED
    BY <1>1, <1>2, FollowsProgress DEF Goto

\* Each await of an upload.
LEMMA StepProgress ==
    ASSUME IInv, NEW u \in Uploads, Step(u), NEW v \in Uploads
    PROVE  UploadProgress(v)
  <1>0. TypeOK /\ (pc[u] = "create" => tries[u] < 2)
    BY DEF IInv, TriesInv
  <1>1. ASSUME NEW a, PrepareExisting(u, a), pc[u] \in {"find", "recheck"}
        PROVE  UploadProgress(v)
    BY <1>0, <1>1, ForgetProgress, GotoProgress DEF PrepareExisting, Throw, Return, Follows
  <1>2. CASE FindExisting(u)
    BY <1>0, <1>1, <1>2, GotoProgress DEF FindExisting, Follows
  <1>3. CASE Recheck(u)
    BY <1>0, <1>1, <1>3, ForgetProgress DEF Recheck, Throw
  <1>4. CASE QueryFails(u)
    BY <1>0, <1>4, ForgetProgress DEF QueryFails, Throw
  <1>5. ASSUME NEW r \in Answers, Release(u, r)
        PROVE  UploadProgress(v)
    BY <1>0, <1>5, ForgetProgress, GotoProgress DEF Release, Throw, Follows
  <1>6. ASSUME NEW r \in Answers, CreatePending(u, r)
        PROVE  UploadProgress(v)
    <2>1. pc[u] = "create" /\ \/ Goto(u, "upload") /\ UNCHANGED tries
                              \/ Goto(u, "recheck") /\ tries' = [tries EXCEPT ![u] = @ + 1]
                              \/ Forget(u)
      BY <1>6 DEF CreatePending, Throw
    <2>2. CASE Goto(u, "upload") /\ UNCHANGED tries
      BY <1>0, <2>1, <2>2, GotoProgress DEF Follows
    <2>3. CASE Goto(u, "recheck") /\ tries' = [tries EXCEPT ![u] = @ + 1]
      BY <1>0, <2>1, <2>3, FollowsProgress DEF Goto
    <2>q. QED
      BY <1>0, <2>1, <2>2, <2>3, ForgetProgress
  <1>7. ASSUME NEW step, Proceed(u, step), <<pc[u], step>> \in Follows
        PROVE  UploadProgress(v)
    BY <1>0, <1>7, GotoProgress DEF Proceed
  <1>8. CASE \E r \in Answers : UploadObject(u, r) \/ Finalize(u, r)
    <2>1. \/ pc[u] = "upload" /\ \E step \in {"finalize", "markFailed"} : Proceed(u, step)
          \/ pc[u] = "finalize" /\ \E step \in {"reload", "reconcile"} : Proceed(u, step)
      BY <1>8 DEF UploadObject, Finalize
    <2>q. QED
      BY <1>7, <2>1 DEF Follows
  <1>9. ASSUME ReturnIfReady(u), pc[u] \in {"reload", "reconcile"}
        PROVE  UploadProgress(v)
    BY <1>0, <1>9, ForgetProgress, GotoProgress DEF ReturnIfReady, Return, Follows
  <1>10. ASSUME NEW r \in Answers, Reload(u, r) \/ Reconcile(u, r)
         PROVE  UploadProgress(v)
    BY <1>0, <1>7, <1>9, <1>10, ForgetProgress DEF Reload, Reconcile, Throw, Follows
  <1>11. ASSUME NEW r \in Answers, Compensate(u, r) \/ MarkFailed(u, r)
         PROVE  UploadProgress(v)
    BY <1>0, <1>7, <1>11, ForgetProgress DEF Compensate, MarkFailed, Throw, Follows
  <1>q. QED
    BY <1>2, <1>3, <1>4, <1>5, <1>6, <1>8, <1>10, <1>11 DEF Step

\* No loop of an upload goes on for ever: the creation is retried once, whoever holds
\* the key then.
THEOREM UploadsComeToAnEnd == Spec => UploadsEnd
  <1>1. ASSUME IInv, [Next]_vars, NEW v \in Uploads
        PROVE  UploadProgress(v)
    <2>0. TypeOK
      BY <1>1 DEF IInv
    <2>1. CASE UNCHANGED uploadVars
      BY <2>1 DEF uploadVars, UploadProgress
    <2>2. ASSUME NEW u \in Uploads, NEW a \in Assets, Start(u, a)
          PROVE  UploadProgress(v)
      BY <2>0, <2>2 DEF Start, Goto, UploadProgress, TypeOK
    <2>3. ASSUME NEW u \in Uploads, Crash(u)
          PROVE  UploadProgress(v)
      BY <2>0, <2>3, ForgetProgress DEF Crash, Throw
    <2>q. QED
      BY <1>1, <2>1, <2>2, <2>3, StepProgress DEF Next, Expire, vars
  <1>2. IInv /\ [Next]_vars => [\A u \in Uploads : UploadProgress(u)]_vars
    BY <1>1
  <1>q. QED
    BY <1>2, Invariance, PTL DEF Spec, UploadsEnd
==============================================================================
