------------------------------ MODULE FailureProofs ------------------------------
(***************************************************************************)
(* A session fails only for a reason, and not before the timeouts of the   *)
(* code: FInv is inductive together with IInv, for every value of the      *)
(* constants.                                                              *)
(***************************************************************************)
EXTENDS ReconcilerProofs

-----------------------------------------------------------------------------
(***************************************************************************)
(* What every step does                                                    *)
(***************************************************************************)

\* No step but the user's makes a session.
LEMMA NoRevival ==
  ASSUME IInv, Next, api = None, api' # None
  PROVE  UserCreate
<1> SUFFICES ASSUME ~UserCreate PROVE FALSE
  OBVIOUS
<1>1. ASSUME NEW m, NEW o \in Outcome, StatusUpdate(m, o) PROVE FALSE
  BY <1>1 DEF StatusUpdate, Answer, Applied, Current
<1>2. CASE AddFinalizer \/ RemoveFinalizer
  BY <1>2, Zenon DEF AddFinalizer, RemoveFinalizer, Answer, Applied, Current
<1>3. CASE RecordPublishedPhase
  BY <1>3, RecordEffect, NoneFacts DEF IInv
<1>4. CASE ReconcilePending
  BY <1>1, <1>4 DEF ReconcilePending
<1>5. CASE CheckPod
  BY <1>1, <1>5, Zenon DEF CheckPod, store
<1>6. CASE ReconcileRunning
  BY <1>1, <1>6, Zenon DEF ReconcileRunning, store
<1>7. CASE UpdateStatusFailed
  BY <1>1, <1>7 DEF UpdateStatusFailed
<1>8. CASE DeleteStatus
  BY <1>1, <1>8 DEF DeleteStatus
<1>9. CASE PublishPhase \/ StartCreating \/ EnsureObject \/ EnsureSecret \/ ReconcileSettled
           \/ DeletePublish
  BY <1>9, Zenon DEF PublishPhase, StartCreating, EnsureObject, EnsureSecret, ReconcileSettled,
              DeletePublish, store
<1>10. CASE Reconcile \/ SyncSession \/ Resync \/ \E k \in Watched : SyncObject(k)
  BY <1>10 DEF Reconcile, SyncSession, Resync, SyncObject, store
<1>11. CASE EnvironmentNext
  BY <1>11 DEF EnvironmentNext, UserDelete, UserEdit, Tick, Crash, PodReady, PodUnready,
              PodLoss, PodTurns, PodGone,
               BrokerFails, BrokerRecovers, BrokerTakes, ForeignCreate,
               CollectGarbage, store
<1> QED
  BY SMTT(40), <1>2, <1>3, <1>4, <1>5, <1>6, <1>7, <1>8, <1>9, <1>10, <1>11
     DEF Next, ControllerNext, WorkerStep

\* Disturbances that were met stay met.
LEMMA SpendMet ==
  ASSUME TypeOK, UNCHANGED scenario \/ \E d \in Disturbance : Spend(d)
  PROVE  scenario.met \subseteq scenario'.met
  BY ZenonT(40) DEF Spend, TypeOK, Scenario

LEMMA MetGrows ==
  ASSUME TypeOK, Next
  PROVE  scenario.met \subseteq scenario'.met
<1> USE DEF Disturbance
<1>1. ASSUME NEW m, NEW o \in Outcome, Answer(m, o) \/ StatusUpdate(m, o)
      PROVE  UNCHANGED scenario \/ \E d \in Disturbance : Spend(d)
  BY <1>1 DEF Answer, StatusUpdate
<1>2. ASSUME NEW k, NEW r \in CreateResult, Create(k, r)
      PROVE  UNCHANGED scenario \/ \E d \in Disturbance : Spend(d)
  BY <1>2 DEF Create
<1>3. ASSUME NEW m, NEW ok \in BOOLEAN, Publish(m, ok)
      PROVE  UNCHANGED scenario \/ \E d \in Disturbance : Spend(d)
  BY <1>3 DEF Publish
<1>4. CASE AddFinalizer \/ RemoveFinalizer \/ ReconcilePending \/ UpdateStatusFailed \/ DeleteStatus
  BY ZenonT(40), <1>1, <1>4, SpendMet
     DEF AddFinalizer, RemoveFinalizer, ReconcilePending, UpdateStatusFailed, DeleteStatus
<1>5. CASE CheckPod \/ ReconcileRunning
  BY <1>1, <1>5, SpendMet, Zenon DEF CheckPod, ReconcileRunning
<1>6. CASE EnsureObject \/ EnsureSecret
  BY <1>2, <1>6, SpendMet, Zenon DEF EnsureObject, EnsureSecret
<1>7. CASE PublishPhase \/ DeletePublish
  BY <1>3, <1>7, SpendMet DEF PublishPhase, DeletePublish
<1>8. CASE StartCreating \/ ReconcileSettled \/ RecordPublishedPhase
  BY <1>8, SpendMet, ZenonT(40) DEF StartCreating, ReconcileSettled, RecordPublishedPhase
<1>9. CASE Reconcile \/ SyncSession \/ Resync \/ \E k \in Watched : SyncObject(k)
  BY <1>9, SpendMet DEF Reconcile, SyncSession, Resync, SyncObject
<1>10. CASE EnvironmentNext
  BY <1>10, SpendMet
     DEF EnvironmentNext, UserCreate, UserDelete, UserEdit, Tick, Crash, PodReady, PodUnready,
              PodLoss, PodTurns, PodGone,
         BrokerFails, BrokerRecovers, BrokerTakes, ForeignCreate, CollectGarbage
<1> QED
  BY <1>4, <1>5, <1>6, <1>7, <1>8, <1>9, <1>10 DEF Next, ControllerNext, WorkerStep

\* Only the user's create makes another session.
LEMMA BornKept == ASSUME Next, ~UserCreate PROVE born' = born
<1>1. CASE WorkerStep
  BY <1>1 DEF WorkerStep, AddFinalizer, PublishPhase, RecordPublishedPhase, ReconcilePending,
              StartCreating, EnsureObject, EnsureSecret, CheckPod, ReconcileRunning,
              ReconcileSettled, UpdateStatusFailed, DeleteStatus, DeletePublish, RemoveFinalizer
<1>2. CASE Reconcile \/ SyncSession \/ Resync \/ \E k \in Watched : SyncObject(k)
  BY <1>2, SMTT(40) DEF Reconcile, SyncSession, Resync, SyncObject
<1>3. CASE EnvironmentNext
  BY SMTT(40),
     <1>3 DEF EnvironmentNext, UserDelete, UserEdit, Tick, Crash, PodReady, PodUnready,
              PodLoss, PodTurns, PodGone,
              BrokerFails, BrokerRecovers, BrokerTakes, ForeignCreate, CollectGarbage
<1> QED
  BY <1>1, <1>2, <1>3, SMTT(40) DEF Next, ControllerNext

\* The cache keeps what it has of an object or takes what is stored.
LEMMA SeenMoves ==
  ASSUME TypeOK, Next
  PROVE  /\ \A k \in Watched : objsSeen'[k] \in {objsSeen[k], objs[k]}
         /\ \/ objsSeen'["Pod"] = objsSeen["Pod"] /\ podSeen' = podSeen
            \/ objsSeen'["Pod"] = objs["Pod"] /\ podSeen' = pod
<1>1. "Pod" \in Watched /\ objsSeen \in [Watched -> Owner \cup {None}]
  BY OrderFacts DEF Watched, TypeOK
<1>2. CASE WorkerStep
  <2>1. UNCHANGED informers
    BY ZenonT(40),
       <1>2 DEF WorkerStep, AddFinalizer, PublishPhase, RecordPublishedPhase, ReconcilePending,
                StartCreating, EnsureObject, EnsureSecret, CheckPod, ReconcileRunning,
                ReconcileSettled, UpdateStatusFailed, DeleteStatus, DeletePublish, RemoveFinalizer
  <2> QED
    BY <2>1 DEF informers
<1>3. ASSUME NEW k \in Watched, SyncObject(k)
      PROVE  /\ \A j \in Watched : objsSeen'[j] \in {objsSeen[j], objs[j]}
             /\ \/ objsSeen'["Pod"] = objsSeen["Pod"] /\ podSeen' = podSeen
                \/ objsSeen'["Pod"] = objs["Pod"] /\ podSeen' = pod
  <2>1. /\ objsSeen' = [objsSeen EXCEPT ![k] = objs[k]]
        /\ podSeen' = IF k = "Pod" THEN pod ELSE podSeen
    BY <1>3 DEF SyncObject
  <2>2. \A j \in Watched : objsSeen'[j] = IF j = k THEN objs[k] ELSE objsSeen[j]
    BY <1>1, <2>1
  <2> QED
    BY <1>1, <2>1, <2>2
<1>4. CASE Crash
  BY <1>1, <1>4 DEF Crash
<1>5. CASE Reconcile \/ SyncSession \/ Resync
  BY <1>5, SMTT(40) DEF Reconcile, SyncSession, Resync, informers
<1>6. CASE EnvironmentNext /\ ~Crash
  BY <1>6 DEF EnvironmentNext, UserCreate, UserDelete, UserEdit, Tick, PodReady, PodUnready,
              PodLoss, PodTurns, PodGone, BrokerFails, BrokerRecovers, BrokerTakes, ForeignCreate,
              CollectGarbage, informers
<1> QED
  BY <1>2, <1>3, <1>4, <1>5, <1>6 DEF Next, ControllerNext

\* reconcileCreating alone makes a session Running, and only when the pod is
\* ready in the cache.
LEMMA NewlyRunning ==
  ASSUME IInv, Next, NEW u \in Uid, <<u, "Running">> \in stored', <<u, "Running">> \notin stored
  PROVE  PodInCache /\ podSeen = "Ready"
<1> SUFFICES ASSUME ~(PodInCache /\ podSeen = "Ready") PROVE FALSE
  OBVIOUS
<1>1. ASSUME NEW m, NEW o \in Outcome, StatusUpdate(m, o)
      PROVE  m.uid = u /\ m.phase = "Running"
  BY <1>1, SMTT(40) DEF StatusUpdate
<1>2. pc # "idle" => mem \in Session
  BY DEF IInv, TypeOK
<1>3. CASE ReconcilePending
  <2>1. mem \in Session
    BY <1>2, <1>3 DEF ReconcilePending
  <2>2. [mem EXCEPT !.phase = "Creating", !.start = now].phase = "Creating"
    BY <2>1 DEF Session
  <2> QED
    BY <1>1, <1>3, <2>2 DEF ReconcilePending
<1>4. CASE CheckPod
  BY <1>4, Zenon DEF CheckPod, store
<1>5. CASE ReconcileRunning
  <2>1. mem \in Session /\ pc = "phase" /\ mem.phase = "Running"
    BY <1>2, <1>5 DEF ReconcileRunning
  <2>2. <<mem.uid, "Running">> \in stored
    BY <2>1 DEF IInv, WorkerInv, Forward, PhaseCopied
  <2>3. ASSUME NEW r PROVE SetPodReady(mem, r).uid = mem.uid
    BY <2>1 DEF SetPodReady, Session
  <2> QED
    BY <1>1, <1>5, <2>2, <2>3, Zenon DEF ReconcileRunning, store
<1>6. CASE UpdateStatusFailed
  <2>1. mem \in Session
    BY <1>2, <1>6 DEF UpdateStatusFailed
  <2>2. FailedStatus(mem).phase = "Failed"
    BY <2>1 DEF FailedStatus, Session
  <2> QED
    BY <1>1, <1>6, <2>2 DEF UpdateStatusFailed
<1>7. CASE DeleteStatus
  <2>1. mem \in Session
    BY <1>2, <1>7 DEF DeleteStatus
  <2>2. TerminatingStatus(mem).phase = "Terminating"
    BY <2>1 DEF TerminatingStatus, Session
  <2> QED
    BY <1>1, <1>7, <2>2, SMTT(40) DEF DeleteStatus
<1>8. CASE AddFinalizer \/ RemoveFinalizer \/ RecordPublishedPhase
  BY <1>8, Zenon DEF AddFinalizer, RemoveFinalizer, RecordPublishedPhase
<1>9. CASE PublishPhase \/ StartCreating \/ EnsureObject \/ EnsureSecret \/ ReconcileSettled
           \/ DeletePublish
  BY <1>9, ZenonT(40) DEF PublishPhase, StartCreating, EnsureObject, EnsureSecret, ReconcileSettled,
              DeletePublish, store
<1>10. CASE Reconcile \/ SyncSession \/ Resync \/ \E k \in Watched : SyncObject(k)
  BY <1>10 DEF Reconcile, SyncSession, Resync, SyncObject, store
<1>11. CASE UserCreate
  <2>1. stored' = stored \cup {<<born + 1, "">>} /\ "Running" # ""
    BY <1>11 DEF UserCreate
  <2>2. <<u, "Running">> # <<born + 1, "">>
    BY <2>1, ZenonT(40)
  <2> QED
    BY <2>1, <2>2
<1>12. CASE EnvironmentNext /\ ~UserCreate
  BY <1>12 DEF EnvironmentNext, UserDelete, UserEdit, Tick, Crash, PodReady, PodUnready,
               PodLoss, PodTurns, PodGone, BrokerFails, BrokerRecovers, BrokerTakes, ForeignCreate,
               CollectGarbage, store
<1> QED
  BY SMTT(40), <1>3, <1>4, <1>5, <1>6, <1>7, <1>8, <1>9, <1>10, <1>11, <1>12
     DEF Next, ControllerNext, WorkerStep

\* The controller touches the session's objects only to create one, for the
\* session that is stored.
LEMMA ControllerChildren ==
  ASSUME IInv, ControllerNext
  PROVE  \/ UNCHANGED <<objs, pod>>
         \/ /\ \E k \in Kind : Created(k) /\ Live(mem.uid)
            /\ UNCHANGED <<api, stored, born, objsSeen, podSeen>>
<1>1. CASE EnsureObject \/ EnsureSecret
  <2>1. /\ pc = "ensure" /\ Order[step] \in Kind
        /\ UNCHANGED <<api, stored, born, objsSeen, podSeen>>
    BY <1>1, OrderFacts, Zenon DEF EnsureObject, EnsureSecret, store, informers, IInv, TypeOK
  <2>2. Live(mem.uid)
    BY <2>1 DEF IInv, WorkerInv, Forward
  <2>3. UNCHANGED children \/ \E r \in CreateResult : Create(Order[step], r)
    BY <1>1, ZenonT(40) DEF EnsureObject, EnsureSecret
  <2>4. UNCHANGED children \/ Created(Order[step])
    BY <2>3 DEF Create
  <2> QED
    BY <2>1, <2>2, <2>4, SMTT(40) DEF children
<1>2. CASE WorkerStep /\ ~(EnsureObject \/ EnsureSecret)
  <2>1. UNCHANGED children
    BY <1>2 DEF WorkerStep, AddFinalizer, PublishPhase, RecordPublishedPhase, ReconcilePending,
                StartCreating, CheckPod, ReconcileRunning, ReconcileSettled,
                UpdateStatusFailed, DeleteStatus, DeletePublish, RemoveFinalizer
  <2> QED
    BY <2>1, SMTT(40) DEF children
<1>3. CASE Reconcile \/ SyncSession \/ Resync \/ \E k \in Watched : SyncObject(k)
  BY <1>3, SMTT(40) DEF Reconcile, SyncSession, Resync, SyncObject, children
<1> QED
  BY <1>1, <1>2, <1>3 DEF ControllerNext

\* Only a disturbance touches them besides, when the pod does not just get ready.
LEMMA ChildMoves ==
  ASSUME IInv, Next
  PROVE  \/ UNCHANGED <<objs, pod>>
         \/ /\ \E k \in Kind : Created(k) /\ Live(mem.uid)
            /\ UNCHANGED <<api, stored, born, objsSeen, podSeen>>
         \/ PodReady \/ PodUnready \/ PodLoss \/ PodGone
         \/ \E k \in Kind : ForeignCreate(k) \/ CollectGarbage(k)
<1>1. CASE UserCreate \/ UserDelete \/ UserEdit \/ Tick \/ Crash \/ BrokerFails \/ BrokerRecovers
           \/ BrokerTakes
  BY <1>1 DEF UserCreate, UserDelete, UserEdit, Tick, Crash, BrokerFails, BrokerRecovers,
              BrokerTakes, children
<1> QED
  BY <1>1, ControllerChildren DEF Next, EnvironmentNext

\* A session that is untouched after a step was so before.
LEMMA UntouchedBack ==
  ASSUME IInv, Next, NEW ds, Untouched(ds)'
  PROVE  Untouched(ds) /\ born \in Nat
<1>1. born \in Nat
  BY BornFacts DEF IInv
<1>2. scenario.met \cap ds = {}
  BY MetGrows DEF IInv, Untouched
<1>3. CASE UserCreate
  <2>1. born' = born + 1
    BY <1>3 DEF UserCreate
  <2>2. born = 0
    BY <1>1, <2>1 DEF Untouched
  <2> QED
    BY <1>1, <1>2, <2>2 DEF Untouched
<1>4. CASE ~UserCreate
  <2>1. born' = born
    BY <1>4, BornKept
  <2>2. born = 1 => api # None
    BY <1>4, <2>1, NoRevival DEF Untouched
  <2> QED
    BY <1>1, <1>2, <2>1, <2>2 DEF Untouched
<1> QED
  BY <1>3, <1>4

\* Before the first session is deleted, a stored uid is 1.
LEMMA FirstLive ==
  ASSUME IInv, NEW ds, Untouched(ds), NEW u \in Uid, Live(u)
  PROVE  u = 1 /\ born = 1
<1>1. u = born
  BY DEF Live, IInv, StoreInv
<1> QED
  BY <1>1 DEF Untouched, Uid

-----------------------------------------------------------------------------
(***************************************************************************)
(* The objects of an untouched session                                     *)
(***************************************************************************)

LEMMA Spent ==
  ASSUME TypeOK, NEW d \in Disturbance, Spend(d)
  PROVE  d \in scenario'.met
  BY ZenonT(40) DEF Spend, TypeOK, Scenario

\* What may happen to them.
Grows ==
  \/ UNCHANGED <<objs, pod>>
  \/ /\ \E k \in Kind : objs[k] = None /\ objs' = [objs EXCEPT ![k] = 1]
                        /\ pod' = IF k = "Pod" THEN "NotReady" ELSE pod
     /\ UNCHANGED <<stored, objsSeen, podSeen>> /\ born = 1
  \/ objs' = objs /\ pod' = "Ready" /\ UNCHANGED <<stored, objsSeen, podSeen>>
  \/ PodUnready /\ objs' = objs /\ pod' = "NotReady" /\ UNCHANGED <<stored, objsSeen, podSeen>>

LEMMA UntouchedGrows ==
  ASSUME IInv, Next, OwnObjects, Untouched({"podLoss", "foreign"})'
  PROVE  Grows
<1> DEFINE ds == {"podLoss", "foreign"}
<1>1. /\ Untouched(ds) /\ born \in Nat
      /\ "podLoss" \notin scenario'.met /\ "foreign" \notin scenario'.met
  BY UntouchedBack, ZenonT(40) DEF Untouched
<1>2. /\ \A k \in Kind : objs[k] = None \/ (objs[k] = 1 /\ born = 1)
      /\ pod \in {"NotReady", "Ready"}
  BY <1>1 DEF OwnObjects
<1>3. TypeOK /\ None \notin Uid /\ "Pod" \in Kind
  BY NoneFacts, OrderFacts DEF IInv
<1>4. ASSUME NEW k \in Kind PROVE ~ForeignCreate(k) /\ ~CollectGarbage(k)
  <2>1. ~ForeignCreate(k)
    BY <1>1, <1>3, Spent DEF ForeignCreate, Disturbance
  <2>2. ASSUME objs[k] \in Uid PROVE Live(objs[k])
    <3>1. objs[k] = 1 /\ born = 1
      BY <1>2, <1>3, <2>2
    <3>2. api # None /\ api.uid = born
      BY <1>1, <3>1, ZenonT(40) DEF Untouched, IInv, StoreInv
    <3> QED
      BY <3>1, <3>2 DEF Live
  <2> QED
    BY <2>1, <2>2 DEF CollectGarbage, Orphan
<1>5. ~PodLoss /\ ~PodGone
  <2>1. ~PodLoss
    BY <1>1, <1>3, Spent DEF PodLoss, Disturbance
  <2> QED
    BY <1>2, <2>1 DEF PodGone
<1>6. ASSUME NEW k \in Kind, Created(k), Live(mem.uid),
             UNCHANGED <<api, stored, born, objsSeen, podSeen>>
      PROVE  Grows
  <2>1. mem.uid \in Uid
    BY <1>6 DEF Live, IInv, TypeOK, Session
  <2>2. mem.uid = 1 /\ born = 1
    BY <1>1, <1>6, <2>1, FirstLive
  <2> QED
    BY <1>6, <2>2, Zenon DEF Created, Grows
<1>7. CASE PodReady
  BY <1>7 DEF PodReady, PodTurns, Grows, store, informers
<1>8. CASE PodUnready
  BY <1>8 DEF PodUnready, PodTurns, Grows, store, informers
<1>9. CASE UNCHANGED <<objs, pod>>
  BY <1>9 DEF Grows
<1> QED
  BY <1>4, <1>5, <1>6, <1>7, <1>8, <1>9, ChildMoves

\* The first session stays the first.
LEMMA FirstStays ==
  ASSUME IInv, Next, NEW ds, Untouched(ds)', born = 1
  PROVE  born' = 1
<1>1. CASE UserCreate
  <2>1. born' = 1 + 1 /\ born' <= 1
    BY <1>1 DEF UserCreate, Untouched
  <2> QED
    BY <2>1
<1> QED
  BY <1>1, BornKept

LEMMA OwnObjectsKept ==
  ASSUME IInv, Next, OwnObjects
  PROVE  OwnObjects'
<1> DEFINE ds == {"podLoss", "foreign"}
<1> SUFFICES ASSUME Untouched(ds)'
             PROVE  /\ \A k \in Kind : objs'[k] = None \/ (objs'[k] = 1 /\ born' = 1)
                    /\ \A k \in Watched : objsSeen'[k] \in {None, objs'[k]}
                    /\ pod' \in {"NotReady", "Ready"} /\ podSeen' \in {"NotReady", "Ready"}
                    /\ <<1, "Running">> \in stored' => objsSeen'["Pod"] # None
  BY DEF OwnObjects
<1>1. Untouched(ds) /\ Grows
  BY UntouchedBack, UntouchedGrows
<1>2. /\ \A k \in Kind : objs[k] = None \/ (objs[k] = 1 /\ born = 1)
      /\ \A k \in Watched : objsSeen[k] \in {None, objs[k]}
      /\ pod \in {"NotReady", "Ready"} /\ podSeen \in {"NotReady", "Ready"}
      /\ <<1, "Running">> \in stored => objsSeen["Pod"] # None
  BY <1>1, SMTT(40) DEF OwnObjects
<1>3. /\ objs \in [Kind -> Owner \cup {None}] /\ Watched \subseteq Kind
      /\ "Pod" \in Kind /\ "Pod" \in Watched
  BY OrderFacts DEF IInv, TypeOK, Watched
<1>4. /\ \A k \in Watched : objsSeen'[k] \in {objsSeen[k], objs[k]}
      /\ \/ objsSeen'["Pod"] = objsSeen["Pod"] /\ podSeen' = podSeen
         \/ objsSeen'["Pod"] = objs["Pod"] /\ podSeen' = pod
  BY SeenMoves DEF IInv
<1>5. born = 1 => born' = 1
  BY FirstStays
<1>6. \A k \in Kind : objs'[k] = objs[k] \/ (objs[k] = None /\ objs'[k] = 1 /\ born = 1)
  BY <1>1, <1>3 DEF Grows
<1>7. \A k \in Kind : objs'[k] = None \/ (objs'[k] = 1 /\ born' = 1)
  BY <1>2, <1>5, <1>6
<1>8. UNCHANGED objs \/ UNCHANGED objsSeen
  BY <1>1 DEF Grows
<1>9. \A k \in Watched : objsSeen'[k] \in {None, objs'[k]}
  <2>1. CASE UNCHANGED objs
    BY <1>2, <1>4, <2>1
  <2>2. CASE UNCHANGED objsSeen
    BY <1>2, <1>3, <1>6, <2>2
  <2> QED
    BY <1>8, <2>1, <2>2
<1>10. pod' \in {"NotReady", "Ready"} /\ podSeen' \in {"NotReady", "Ready"}
  BY <1>1, <1>2, <1>4 DEF Grows
<1>11. ASSUME <<1, "Running">> \in stored' PROVE objsSeen'["Pod"] # None
  <2>1. objsSeen["Pod"] # None
    <3>1. CASE <<1, "Running">> \in stored
      BY <1>2, <3>1
    <3>2. CASE <<1, "Running">> \notin stored
      <4>1. 1 \in Uid
        BY <1>11, InvNext, SMTT(40) DEF IInv, TypeOK
      <4> QED
        BY <1>11, <3>2, <4>1, NewlyRunning, SMTT(40) DEF PodInCache
    <3> QED
      BY <3>1, <3>2
  <2>2. objs["Pod"] = objsSeen["Pod"]
    BY <1>2, <1>3, <2>1
  <2> QED
    BY <1>4, <2>1, <2>2
<1> QED
  BY <1>7, <1>9, <1>10, <1>11

LEMMA StaysReadyKept ==
  ASSUME IInv, Next, OwnObjects, StaysReady
  PROVE  StaysReady'
<1> DEFINE ds == {"podLoss", "foreign", "unready"}
<1> SUFFICES ASSUME Untouched(ds)'
             PROVE  /\ objsSeen'["Pod"] # None /\ podSeen' = "Ready" => pod' = "Ready"
                    /\ <<1, "Running">> \in stored' => podSeen' = "Ready"
  BY DEF StaysReady
<1>1. /\ Untouched(ds) /\ Untouched({"podLoss", "foreign"}) /\ Untouched({"podLoss", "foreign"})'
      /\ "unready" \notin scenario'.met
  BY UntouchedBack, Zenon DEF Untouched
<1>2. Grows
  BY <1>1, UntouchedGrows
<1>3. /\ objsSeen["Pod"] # None /\ podSeen = "Ready" => pod = "Ready"
      /\ <<1, "Running">> \in stored => podSeen = "Ready"
  BY <1>1 DEF StaysReady
<1>4. /\ objsSeen["Pod"] \in {None, objs["Pod"]}
      /\ <<1, "Running">> \in stored => objsSeen["Pod"] # None
  BY <1>1, OrderFacts DEF OwnObjects, Watched
<1>5. \/ objsSeen'["Pod"] = objsSeen["Pod"] /\ podSeen' = podSeen
      \/ objsSeen'["Pod"] = objs["Pod"] /\ podSeen' = pod
  BY SeenMoves DEF IInv
<1>6. ~PodUnready
  BY <1>1, Spent DEF PodUnready, IInv, Disturbance
<1>7. \/ UNCHANGED pod
      \/ UNCHANGED <<objsSeen, podSeen>> /\ pod' = "Ready"
      \/ UNCHANGED <<objsSeen, podSeen>> /\ objs["Pod"] = None
  BY <1>2, <1>6 DEF Grows
<1>8. objsSeen'["Pod"] # None /\ podSeen' = "Ready" => pod' = "Ready"
  BY <1>3, <1>4, <1>5, <1>7
<1>9. ASSUME <<1, "Running">> \in stored' PROVE podSeen' = "Ready"
  <2>1. objsSeen["Pod"] # None /\ podSeen = "Ready"
    <3>1. CASE <<1, "Running">> \in stored
      BY <1>3, <1>4, <3>1
    <3>2. CASE <<1, "Running">> \notin stored
      <4>1. 1 \in Uid
        BY <1>9, InvNext, SMTT(40) DEF IInv, TypeOK
      <4> QED
        BY <1>9, <3>2, <4>1, NewlyRunning, SMTT(40) DEF PodInCache
    <3> QED
      BY <3>1, <3>2
  <2> QED
    BY <1>3, <1>5, <2>1
<1> QED
  BY <1>8, <1>9

-----------------------------------------------------------------------------
(***************************************************************************)
(* How the worker moves                                                    *)
(***************************************************************************)

\* What a step leaves of the worker's place and of the session it holds.
Returns == pc' = "idle" /\ mem' = None /\ step' = 1

Begins ==
  /\ pc = "idle" /\ pc' \in {"finalizer", "publish", "phase", "delStatus"}
  /\ cache # None /\ mem' = cache
  /\ UNCHANGED <<step, api>>

Annotates ==
  /\ pc = "annotate" /\ pc' = "phase" /\ step' = step
  /\ mem' = [mem EXCEPT !.annot = mem.phase] \/ (mem' = api' /\ api' # None)

GoesOn ==
  /\ \/ pc = "publish" /\ pc' \in {"annotate", "phase"}
     \/ pc = "phase" /\ pc' = "ensure"
     \/ pc \in {"ensure", "checkPod", "phase"} /\ pc' \in {"fail", "failRetry"}
     \/ pc = "delPublish" /\ pc' = "delFinalizer"
  /\ UNCHANGED <<mem, step, api>>

Terminates ==
  /\ pc = "delStatus" /\ pc' \in {"delPublish", "delFinalizer"} /\ step' = step
  /\ mem' = TerminatingStatus(mem) \/ (mem' = api' /\ api' # None)

WorkerMoves ==
  \/ UNCHANGED <<pc, mem, step>>
  \/ Returns \/ Begins \/ Annotates \/ GoesOn \/ Terminates
  \/ pc = "ensure" /\ Ensured /\ UNCHANGED api

LEMMA NextWorkerMoves ==
  ASSUME IInv, Next
  PROVE  WorkerMoves
<1>1. ASSUME NEW again, Finish(again) PROVE WorkerMoves
  BY <1>1 DEF Finish, WorkerMoves, Returns
<1>2. CASE Reconcile
  BY <1>2 DEF Reconcile, WorkerMoves, Begins, worker, store
<1>3. CASE AddFinalizer \/ ReconcilePending \/ ReconcileSettled \/ UpdateStatusFailed
           \/ RemoveFinalizer
  BY <1>1, <1>3, Zenon DEF AddFinalizer, ReconcilePending, ReconcileSettled, UpdateStatusFailed,
                    RemoveFinalizer
<1>4. CASE PublishPhase
  BY <1>4 DEF PublishPhase, WorkerMoves, GoesOn, store
<1>5. CASE RecordPublishedPhase
  <2>1. /\ mem' = [mem EXCEPT !.annot = mem.phase] \/ (mem' = api' /\ api' # None)
    BY <1>5, RecordEffect, NoneFacts DEF IInv
  <2> QED
    BY <1>5, <2>1, Zenon DEF RecordPublishedPhase, WorkerMoves, Annotates
<1>6. CASE StartCreating
  BY <1>6 DEF StartCreating, GoTo, WorkerMoves, GoesOn, store
<1>7. CASE EnsureObject \/ EnsureSecret
  <2>1. pc = "ensure" /\ UNCHANGED api
    BY <1>7, Zenon DEF EnsureObject, EnsureSecret, store
  <2>2. Ensured \/ Finish(TRUE) \/ GoTo("fail") \/ GoTo("failRetry")
    BY <1>7, ZenonT(40) DEF EnsureObject, EnsureSecret, HandleCreateError
  <2>3. CASE GoTo("fail") \/ GoTo("failRetry")
    BY <2>1, <2>3 DEF GoTo, WorkerMoves, GoesOn
  <2> QED
    BY <1>1, <2>1, <2>2, <2>3 DEF WorkerMoves
<1>8. CASE CheckPod \/ ReconcileRunning
  <2>1. pc \in {"checkPod", "phase"}
    BY <1>8, Zenon DEF CheckPod, ReconcileRunning
  <2>2. (GoTo("fail") /\ UNCHANGED store) \/ \E again : Finish(again)
    BY <1>8, ZenonT(40) DEF CheckPod, ReconcileRunning
  <2>3. CASE GoTo("fail") /\ UNCHANGED store
    BY <2>1, <2>3 DEF GoTo, WorkerMoves, GoesOn, store
  <2> QED
    BY <1>1, <2>2, <2>3
<1>9. CASE DeleteStatus
  <2>1. PICK o \in Outcome :
          /\ StatusUpdate(TerminatingStatus(mem), o)
          /\ IF o = "notFound" THEN Finish(FALSE)
             ELSE /\ mem' = IF o = "ok" THEN api' ELSE TerminatingStatus(mem)
                  /\ pc' = IF scenario.events /\ mem.annot # "Terminating"
                           THEN "delPublish" ELSE "delFinalizer"
                  /\ UNCHANGED <<step, pending, queued>>
    BY <1>9, Zenon DEF DeleteStatus
  <2>2. pc = "delStatus" /\ mem \in Session /\ api \in Session \cup {None} /\ scenario \in Scenario
    BY <1>9 DEF DeleteStatus, IInv, TypeOK
  <2>3. TerminatingStatus(mem) \in Session
    BY <2>2, StatusWritten DEF IInv
  <2>4. o = "ok" => api' # None
    <3>1. o = "ok" => Applied(o)
      BY DEF Applied
    <3> QED
      BY <2>1, <2>2, <2>3, <3>1, StatusUpdateEffect, NoneFacts
  <2>5. CASE o = "notFound"
    BY <1>1, <2>1, <2>5, Zenon
  <2>6. CASE o # "notFound"
    BY <2>1, <2>2, <2>4, <2>6 DEF WorkerMoves, Terminates
  <2> QED
    BY <2>5, <2>6
<1>10. CASE DeletePublish
  BY <1>10 DEF DeletePublish, GoTo, WorkerMoves, GoesOn, store
<1>11. CASE SyncSession \/ Resync \/ \E k \in Watched : SyncObject(k)
  BY <1>11 DEF SyncSession, Resync, SyncObject, worker, WorkerMoves
<1>12. CASE Crash
  BY <1>12, SMTT(40) DEF Crash, WorkerMoves, Returns
<1>13. CASE EnvironmentNext /\ ~Crash
  BY <1>13 DEF EnvironmentNext, UserCreate, UserDelete, UserEdit, Tick, PodReady, PodUnready,
               PodLoss, PodTurns, PodGone, BrokerFails, BrokerRecovers, BrokerTakes, ForeignCreate,
               CollectGarbage, worker, WorkerMoves
<1> QED
  BY SMTT(40), <1>2, <1>3, <1>4, <1>5, <1>6, <1>7, <1>8, <1>9, <1>10, <1>11, <1>12, <1>13
     DEF Next, ControllerNext, WorkerStep

\* The informer keeps its copy of the session or takes the stored one.
LEMMA CacheMoves == Next => cache' = cache \/ (cache' = api /\ api' = api)
<1>1. CASE WorkerStep
  BY ZenonT(40),
     <1>1 DEF WorkerStep, AddFinalizer, PublishPhase, RecordPublishedPhase, ReconcilePending,
              StartCreating, EnsureObject, EnsureSecret, CheckPod, ReconcileRunning,
              ReconcileSettled, UpdateStatusFailed, DeleteStatus, DeletePublish, RemoveFinalizer,
              informers
<1>2. CASE Reconcile \/ SyncSession \/ Resync \/ \E k \in Watched : SyncObject(k)
  BY <1>2 DEF Reconcile, SyncSession, Resync, SyncObject, informers, store
<1>3. CASE EnvironmentNext
  BY <1>3 DEF EnvironmentNext, UserCreate, UserDelete, UserEdit, Tick, Crash, PodReady, PodUnready,
              PodLoss, PodTurns, PodGone, BrokerFails, BrokerRecovers, BrokerTakes, ForeignCreate,
              CollectGarbage, informers, store
<1> QED
  BY <1>1, <1>2, <1>3 DEF Next, ControllerNext

-----------------------------------------------------------------------------
(***************************************************************************)
(* How the stored session moves                                            *)
(***************************************************************************)

\* It is updated with a status the worker made of the session it holds.
StatusWrite ==
  \E m \in Session, o \in Outcome :
    /\ StatusUpdate(m, o) /\ m.uid = mem.uid /\ m.rv = mem.rv /\ Named(m)

LEMMA StatusWrites ==
  ASSUME IInv, PodNamed,
         \/ ReconcilePending \/ CheckPod \/ ReconcileRunning \/ UpdateStatusFailed \/ DeleteStatus
  PROVE  UNCHANGED <<api, stored>> \/ StatusWrite
<1>1. mem \in Session /\ now \in Nat /\ Named(mem) /\ (pc = "checkPod" => mem.podName)
  <2>1. pc # "idle"
    BY ZenonT(40) DEF ReconcilePending, CheckPod, ReconcileRunning, UpdateStatusFailed, DeleteStatus
  <2>2. mem \in Session /\ now \in Nat
    BY <2>1, ConstantsAssumption, SMTT(40) DEF IInv, TypeOK
  <2> QED
    BY <2>2 DEF PodNamed
<1>2. CASE ReconcilePending
  <2> DEFINE m == [mem EXCEPT !.phase = "Creating", !.start = now]
  <2>1. m \in Session /\ m.uid = mem.uid /\ m.rv = mem.rv /\ m.phase = "Creating"
    BY <1>1 DEF Session, Phase
  <2>2. \E o \in Outcome : StatusUpdate(m, o)
    BY <1>2, ZenonT(40) DEF ReconcilePending
  <2> HIDE DEF m
  <2> QED
    BY <2>1, <2>2 DEF StatusWrite, Named
<1>3. CASE CheckPod
  <2> DEFINE m == RunningStatus(mem)
  <2>1. m \in Session /\ m.uid = mem.uid /\ m.rv = mem.rv
    BY <1>1, StatusWritten DEF IInv
  <2>2. m.podName = mem.podName
    BY <1>1, Zenon DEF RunningStatus, SetPodReady, Session
  <2>3. mem.podName
    BY <1>1, <1>3 DEF CheckPod
  <2>4. UNCHANGED store \/ \E o \in Outcome : StatusUpdate(m, o)
    BY <1>3, Zenon DEF CheckPod
  <2> HIDE DEF m
  <2> QED
    BY <2>1, <2>2, <2>3, <2>4, ZenonT(40) DEF StatusWrite, Named, store
<1>4. CASE ReconcileRunning
  <2> DEFINE m == SetPodReady(mem, podSeen = "Ready")
  <2>1. m \in Session /\ m.uid = mem.uid /\ m.rv = mem.rv
    BY <1>1, StatusWritten, ZenonT(40) DEF IInv
  <2>2. m.podName = mem.podName /\ mem.phase = "Running"
    BY <1>1, <1>4, Zenon DEF SetPodReady, Session, ReconcileRunning
  <2>3. UNCHANGED store \/ \E o \in Outcome : StatusUpdate(m, o)
    BY <1>4, Zenon DEF ReconcileRunning
  <2>4. mem # None
    BY <1>1, NoneFacts
  <2> HIDE DEF m
  <2> QED
    BY <1>1, <2>1, <2>2, <2>3, <2>4 DEF StatusWrite, Named, store
<1>5. CASE UpdateStatusFailed
  <2> DEFINE m == FailedStatus(mem)
  <2>1. m \in Session /\ m.uid = mem.uid /\ m.rv = mem.rv /\ m.phase = "Failed"
    BY <1>1, StatusWritten DEF IInv
  <2>2. \E o \in Outcome : StatusUpdate(m, o)
    BY <1>5 DEF UpdateStatusFailed
  <2> HIDE DEF m
  <2> QED
    BY <2>1, <2>2 DEF StatusWrite, Named
<1>6. CASE DeleteStatus
  <2> DEFINE m == TerminatingStatus(mem)
  <2>1. m \in Session /\ m.uid = mem.uid /\ m.rv = mem.rv /\ m.phase = "Terminating"
    BY <1>1, StatusWritten DEF IInv
  <2>2. \E o \in Outcome : StatusUpdate(m, o)
    BY <1>6, Zenon DEF DeleteStatus
  <2> HIDE DEF m
  <2> QED
    BY <2>1, <2>2 DEF StatusWrite, Named
<1> QED
  BY <1>2, <1>3, <1>4, <1>5, <1>6

\* A new session, none, or a version of the same one whose number tells it from
\* the one before.
StoreTicks ==
  \/ api' = api \/ api' = None
  \/ api' \in Session /\ api'.uid = born + 1
  \/ /\ api \in Session /\ api' \in Session /\ api'.uid = api.uid
     /\ api.rv <= api'.rv /\ (api'.rv = api.rv => api' = api)

LEMMA NextStore ==
  ASSUME IInv, PodNamed, Next
  PROVE  StoreTicks /\ Named(api)'
<1>1. Named(api) /\ TypeOK
  BY DEF PodNamed, IInv
<1>2. ASSUME api' = api \/ api' = None PROVE StoreTicks /\ Named(api)'
  BY <1>1, <1>2 DEF StoreTicks, Named
<1>3. ASSUME NEW t \in Session, api \in Session, t.uid = api.uid, t.rv = api.rv,
             t.phase = api.phase, t.podName = api.podName, api' = Version(api, t)
      PROVE  StoreTicks /\ Named(api)'
  <2>1. /\ api' \in Session /\ api'.uid = api.uid /\ api'.phase = api.phase
        /\ api.rv <= api'.rv /\ (api'.rv = api.rv => api' = api)
    BY <1>3, VersionFacts
  <2>2. api'.podName = api.podName
    BY <1>3 DEF Version, Session
  <2>3. api # None
    BY <1>3, NoneFacts
  <2>4. Named(api)'
    BY <1>1, <2>1, <2>2, <2>3 DEF Named
  <2> QED
    BY <1>3, <2>1, <2>4 DEF StoreTicks
<1>4. ASSUME StatusWrite PROVE StoreTicks /\ Named(api)'
  <2>1. PICK m \in Session, o \in Outcome : StatusUpdate(m, o) /\ Named(m)
    BY <1>4 DEF StatusWrite
  <2>2. CASE ~Applied(o)
    BY <1>2, <2>1, <2>2 DEF StatusUpdate
  <2>3. CASE Applied(o)
    <3>1. /\ api \in Session /\ api' \in Session /\ api'.uid = api.uid
          /\ api.rv <= api'.rv /\ (api'.rv = api.rv => api' = api) /\ api'.phase = m.phase
      BY <1>1, <2>1, <2>3, StatusUpdateEffect, SMTT(40) DEF TypeOK
    <3>2. api' = Version(api, WithStatus(api, m))
      BY <2>1, <2>3 DEF StatusUpdate
    <3>3. /\ WithStatus(api, m) \in Session
          /\ WithStatus(api, m).podName = m.podName
      BY <3>1, Zenon DEF WithStatus, Session
    <3>4. api'.podName = m.podName
      BY <3>1, <3>2, <3>3 DEF Version, Session
    <3>5. Named(api)'
      BY <2>1, <3>1, <3>4, NoneFacts DEF Named
    <3> QED
      BY <3>1, <3>5, SMTT(40) DEF StoreTicks
  <2> QED
    BY <2>2, <2>3
<1>5. CASE ReconcilePending \/ CheckPod \/ ReconcileRunning \/ UpdateStatusFailed \/ DeleteStatus
  BY <1>2, <1>4, <1>5, StatusWrites
<1>6. CASE AddFinalizer
  <2>1. PICK o \in Outcome :
          /\ Answer(mem, o)
          /\ api' = IF Applied(o) THEN Version(api, [api EXCEPT !.fin = TRUE]) ELSE api
    BY <1>6 DEF AddFinalizer
  <2>2. CASE Applied(o)
    <3>1. api \in Session
      BY <1>1, <2>1, <2>2, AnswerEffect, SMTT(40) DEF Current, TypeOK
    <3>2. /\ [api EXCEPT !.fin = TRUE] \in Session /\ [api EXCEPT !.fin = TRUE].uid = api.uid
          /\ [api EXCEPT !.fin = TRUE].rv = api.rv /\ [api EXCEPT !.fin = TRUE].phase = api.phase
          /\ [api EXCEPT !.fin = TRUE].podName = api.podName
      BY <3>1, Zenon DEF Session
    <3> QED
      BY <1>3, <2>1, <2>2, <3>1, <3>2, Zenon
  <2> QED
    BY <1>2, <2>1, <2>2
<1>7. CASE RecordPublishedPhase
  <2> DEFINE t == [api EXCEPT !.annot = mem.phase]
  <2>1. api' = api \/ (api # None /\ api' = Version(api, t))
    BY <1>7, Zenon DEF RecordPublishedPhase
  <2>2. CASE api # None /\ api' = Version(api, t)
    <3>1. api \in Session /\ mem.phase \in Phase
      BY <1>7, <2>2, RecordEffect, SMTT(40) DEF IInv, TypeOK, Session
    <3>2. t \in Session /\ t.uid = api.uid /\ t.rv = api.rv /\ t.phase = api.phase
          /\ t.podName = api.podName
      BY <3>1 DEF Session
    <3> QED
      BY <1>3, <2>2, <3>1, <3>2, Zenon
  <2> QED
    BY <1>2, <2>1, <2>2
<1>8. CASE RemoveFinalizer
  BY <1>2, <1>8 DEF RemoveFinalizer
<1>9. CASE PublishPhase \/ StartCreating \/ EnsureObject \/ EnsureSecret \/ ReconcileSettled
           \/ DeletePublish
  <2>1. UNCHANGED store
    BY <1>9, Zenon DEF PublishPhase, StartCreating, EnsureObject, EnsureSecret, ReconcileSettled,
                DeletePublish
  <2> QED
    BY <1>2, <2>1 DEF store
<1>10. CASE Reconcile \/ SyncSession \/ Resync \/ \E k \in Watched : SyncObject(k)
  <2>1. UNCHANGED store
    BY <1>10 DEF Reconcile, SyncSession, Resync, SyncObject
  <2> QED
    BY <1>2, <2>1 DEF store
<1>11. CASE UserCreate
  <2>1. api' = NewSession(born + 1) /\ born < MaxUid /\ born \in Nat /\ MaxUid \in Nat
    BY <1>1, <1>11, BornFacts, ConstantsAssumption, ZenonT(40) DEF UserCreate
  <2>2. born + 1 \in Uid
    BY <2>1 DEF Uid
  <2>3. api' \in Session /\ api'.uid = born + 1 /\ api'.phase = ""
    BY <2>1, <2>2, NewSessionFacts
  <2> QED
    BY <2>3, ZenonT(40) DEF StoreTicks, Named
<1>12. CASE UserDelete
  <2> DEFINE t == [api EXCEPT !.deleting = TRUE]
  <2>1. api \in Session /\ (api' = None \/ api' = Version(api, t))
    BY <1>1, <1>12 DEF UserDelete, TypeOK
  <2>2. t \in Session /\ t.uid = api.uid /\ t.rv = api.rv /\ t.phase = api.phase
        /\ t.podName = api.podName
    BY <2>1, Zenon DEF Session
  <2> QED
    BY <1>2, <1>3, <2>1, <2>2, Zenon
<1>13. CASE UserEdit
  <2>1. api \in Session /\ api' = [api EXCEPT !.rv = api.rv + 1]
    BY <1>1, <1>13 DEF UserEdit, TypeOK
  <2>2. /\ api' \in Session /\ api'.uid = api.uid /\ api'.phase = api.phase
        /\ api'.podName = api.podName /\ api'.rv = api.rv + 1 /\ api.rv \in Nat
    BY <2>1 DEF Session
  <2>3. Named(api)'
    BY <1>1, <2>1, <2>2, NoneFacts, SMTT(40) DEF Named
  <2> QED
    BY <2>1, <2>2, <2>3 DEF StoreTicks
<1>14. CASE EnvironmentNext /\ ~UserCreate /\ ~UserDelete /\ ~UserEdit
  <2>1. UNCHANGED store
    BY <1>14 DEF EnvironmentNext, Tick, Crash, PodReady, PodUnready, PodLoss, PodTurns, PodGone,
                 BrokerFails, BrokerRecovers, BrokerTakes, ForeignCreate, CollectGarbage
  <2> QED
    BY <1>2, <2>1 DEF store
<1> QED
  BY SMTT(40), <1>5, <1>6, <1>7, <1>8, <1>9, <1>10, <1>11, <1>12, <1>13, <1>14
     DEF Next, ControllerNext, WorkerStep

-----------------------------------------------------------------------------
(***************************************************************************)
(* The name and the times                                                  *)
(***************************************************************************)

LEMMA PodNamedKept ==
  ASSUME IInv, PodNamed, Next
  PROVE  PodNamed'
<1>1. /\ Named(api) /\ Named(cache) /\ Named(mem)
      /\ pc = "checkPod" => mem.podName
      /\ pc = "ensure" /\ (\E i \in 1 .. step - 1 : Order[i] = "Pod") => mem.podName
      /\ pc \notin {"ensure", "fail", "failRetry"} => step = 1
  BY DEF PodNamed
<1>2. Named(api)' /\ WorkerMoves
  BY NextStore, NextWorkerMoves
<1>3. Named(cache)'
  BY <1>1, CacheMoves DEF Named
<1> DEFINE Rest == /\ Named(mem)'
                   /\ pc' = "checkPod" => mem'.podName
                   /\ pc' = "ensure" /\ (\E i \in 1 .. step' - 1 : Order[i] = "Pod") => mem'.podName
                   /\ pc' \notin {"ensure", "fail", "failRetry"} => step' = 1
<1> SUFFICES Rest
  BY <1>2, <1>3 DEF PodNamed
<1>4. CASE UNCHANGED <<pc, mem, step>>
  BY <1>1, <1>4 DEF Named
<1>5. CASE Returns
  BY <1>5 DEF Returns, Named
<1>6. CASE Begins
  BY <1>1, <1>6 DEF Begins, Named
<1>7. ASSUME pc \in {"annotate", "delStatus"},
             pc' \notin {"checkPod", "ensure", "fail", "failRetry"}, step' = step, Named(mem)'
      PROVE  Rest
  BY <1>1, <1>7
<1>8. CASE Annotates
  <2>1. mem \in Session
    BY <1>8 DEF Annotates, IInv, TypeOK
  <2>2. /\ [mem EXCEPT !.annot = mem.phase].phase = mem.phase
        /\ [mem EXCEPT !.annot = mem.phase].podName = mem.podName
    BY <2>1 DEF Session
  <2>3. mem # None
    BY <2>1, NoneFacts
  <2>4. Named(mem)'
    BY <1>1, <1>2, <1>8, <2>2, <2>3, Zenon DEF Annotates, Named
  <2> QED
    BY <1>7, <1>8, <2>4 DEF Annotates
<1>9. CASE GoesOn
  <2>1. Named(mem)'
    BY <1>1, <1>9 DEF GoesOn, Named
  <2>2. pc' \notin {"ensure", "fail", "failRetry"} => step' = 1
    BY <1>1, <1>9 DEF GoesOn
  <2>3. pc' = "ensure" => step' = 1
    BY <1>1, <1>9 DEF GoesOn
  <2>4. pc' # "checkPod"
    BY <1>9 DEF GoesOn
  <2> QED
    BY <2>1, <2>2, <2>3, <2>4
<1>10. CASE Terminates
  <2>1. mem \in Session
    BY <1>10, SMTT(40) DEF Terminates, IInv, TypeOK
  <2>2. TerminatingStatus(mem).phase = "Terminating"
    BY <2>1, StatusWritten DEF IInv
  <2>3. Named(mem)'
    BY <1>2, <1>10, <2>2 DEF Terminates, Named
  <2> QED
    BY <1>7, <1>10, <2>3, SMTT(40) DEF Terminates
<1>11. CASE pc = "ensure" /\ Ensured
  <2>1. mem \in Session /\ mem.phase = "Creating" /\ step \in 1 .. Len(Order) /\ Len(Order) \in Nat
    BY <1>11, OrderFacts, SMTT(40) DEF IInv, TypeOK, WorkerInv
  <2>2. mem' = IF Order[step] = "Pod" THEN [mem EXCEPT !.podName = TRUE] ELSE mem
    BY <1>11 DEF Ensured
  <2>3. mem'.phase = "Creating" /\ (mem.podName \/ Order[step] = "Pod" => mem'.podName)
    BY <2>1, <2>2 DEF Session
  <2>4. \A i \in 1 .. step : Order[i] = "Pod" => mem'.podName
    <3> SUFFICES ASSUME NEW i \in 1 .. step, Order[i] = "Pod" PROVE mem'.podName
      OBVIOUS
    <3>1. i = step \/ i \in 1 .. step - 1
      BY <2>1
    <3> QED
      BY <1>1, <1>11, <2>3, <3>1
  <2>5. CASE step = Len(Order)
    <3>1. pc' = "checkPod" /\ step' = 1
      BY <1>11, <2>5 DEF Ensured
    <3>2. \E i \in 1 .. step : Order[i] = "Pod"
      BY <2>5, OrderFacts DEF Kind
    <3> QED
      BY <2>3, <2>4, <3>1, <3>2 DEF Named
  <2>6. CASE step # Len(Order)
    <3>1. pc' = "ensure" /\ step' = step + 1
      BY <1>11, <2>6 DEF Ensured
    <3>2. step' - 1 = step
      BY <2>1, <3>1
    <3> QED
      BY <2>3, <2>4, <3>1, <3>2 DEF Named
  <2> QED
    BY <2>5, <2>6, SMTT(40)
<1> HIDE DEF Rest
<1> QED
  BY <1>2, <1>4, <1>5, <1>6, <1>8, <1>9, <1>10, <1>11, SMTT(40) DEF WorkerMoves

\* The times of a copy stay right while the store moves on.
LEMMA TimedKept ==
  ASSUME IInv, StoreTicks, NEW c \in Session, CopyOf(c), Timed(c)
  PROVE  Timed(c)'
<1> SUFFICES ASSUME api' # None, api'.uid = c.uid, c.rv = api'.rv
             PROVE  c.start = api'.start /\ c.since = api'.since /\ c.podReady = api'.podReady
  BY DEF Timed, Live
<1>1. CASE api' = api
  BY <1>1 DEF Timed, Live
<1>2. CASE api' \in Session /\ api'.uid = born + 1
  <2>1. born \in Nat /\ born + 1 <= born
    BY <1>2, BornFacts, ZenonT(40) DEF CopyOf, IInv
  <2> QED
    BY <2>1
<1>3. CASE /\ api \in Session /\ api' \in Session /\ api'.uid = api.uid
           /\ api.rv <= api'.rv /\ (api'.rv = api.rv => api' = api)
  <2>1. Live(c.uid)
    BY <1>3, NoneFacts DEF Live
  <2>2. c.rv <= api.rv
    BY <2>1 DEF CopyOf
  <2>3. api'.rv = api.rv
    BY <1>3, <2>2 DEF Session
  <2> QED
    BY <1>1, <1>3, <2>3
<1> QED
  BY <1>1, <1>2, <1>3 DEF StoreTicks

LEMMA TimesKept ==
  ASSUME IInv, PodNamed, Times, Next
  PROVE  Times'
<1>1. StoreTicks /\ WorkerMoves
  BY NextStore, NextWorkerMoves, SMTT(40)
<1>2. ASSUME cache # None PROVE cache \in Session /\ CopyOf(cache) /\ Timed(cache)
  BY <1>2 DEF IInv, TypeOK, CacheInv, Times
<1>3. cache' # None => Timed(cache)'
  <2>1. CASE cache' = cache
    BY <1>1, <1>2, <2>1, TimedKept DEF Timed, Live
  <2>2. CASE cache' = api /\ api' = api
    BY <2>2, SMTT(40) DEF Timed, Live
  <2> QED
    BY <2>1, <2>2, CacheMoves
<1>4. ASSUME pc \in Forward PROVE mem \in Session /\ CopyOf(mem) /\ Timed(mem)
  BY <1>4, ZenonT(40) DEF IInv, TypeOK, WorkerInv, Times, Forward
<1>5. ASSUME pc \in Forward, mem' = mem PROVE Timed(mem)'
  BY <1>1, <1>4, <1>5, TimedKept DEF Timed, Live
<1>6. pc' \in Forward => Timed(mem)'
  <2>1. CASE UNCHANGED <<pc, mem, step>>
    BY <1>5, <2>1
  <2>2. CASE Returns \/ Terminates
    BY <2>2 DEF Returns, Terminates, Forward
  <2>3. CASE Begins
    BY <1>2, <2>3 DEF Begins, Timed, Live
  <2>4. CASE Annotates
    <3>1. CASE mem' = api'
      BY <3>1 DEF Timed, Live
    <3>2. CASE mem' = [mem EXCEPT !.annot = mem.phase]
      <4>1. pc \in Forward
        BY <2>4 DEF Annotates, Forward
      <4>2. /\ mem'.uid = mem.uid /\ mem'.rv = mem.rv /\ mem'.start = mem.start
            /\ mem'.since = mem.since /\ mem'.podReady = mem.podReady
        BY <1>4, <3>2, <4>1 DEF Session
      <4>3. ASSUME NEW c, c = mem PROVE Timed(c)'
        BY <1>1, <1>4, <4>1, <4>3, TimedKept
      <4>4. PICK c : c = mem
        OBVIOUS
      <4>5. Timed(c)'
        BY <4>3, <4>4
      <4> QED
        BY <4>2, <4>4, <4>5 DEF Timed, Live
    <3> QED
      BY <2>4, <3>1, <3>2 DEF Annotates
  <2>5. CASE GoesOn
    <3>1. pc' \in Forward => pc \in Forward
      BY <2>5 DEF GoesOn, Forward
    <3> QED
      BY <1>5, <2>5, <3>1 DEF GoesOn
  <2>6. CASE pc = "ensure" /\ Ensured /\ UNCHANGED api
    <3>1. pc \in Forward
      BY <2>6 DEF Forward
    <3>2. /\ mem'.uid = mem.uid /\ mem'.rv = mem.rv /\ mem'.start = mem.start
          /\ mem'.since = mem.since /\ mem'.podReady = mem.podReady
      BY <1>4, <2>6, <3>1 DEF Session, Ensured
    <3> QED
      BY <1>4, <2>6, <3>1, <3>2 DEF Timed, Live
  <2> QED
    BY <1>1, <2>1, <2>2, <2>3, <2>4, <2>5, <2>6 DEF WorkerMoves
<1> QED
  BY <1>3, <1>6 DEF Times

-----------------------------------------------------------------------------
(***************************************************************************)
(* Giving up                                                               *)
(***************************************************************************)

\* The steps that send the worker to updateStatusFailed.
LEMMA FailEntered ==
  ASSUME Next, pc' \in {"fail", "failRetry"}, pc' # pc
  PROVE  \/ pc' = "fail" /\ (EnsureObject \/ CheckPod \/ ReconcileRunning)
         \/ pc' = "failRetry" /\ EnsureSecret
<1>1. ASSUME NEW again PROVE ~Finish(again)
  BY DEF Finish
<1>2. ~Ensured \/ pc # "ensure"
  BY DEF Ensured
<1>3. ~Reconcile /\ ~PublishPhase /\ ~RecordPublishedPhase /\ ~StartCreating /\ ~DeletePublish
  BY DEF Reconcile, worker, PublishPhase, RecordPublishedPhase, StartCreating, DeletePublish, GoTo
<1>4. ~AddFinalizer /\ ~ReconcilePending /\ ~ReconcileSettled /\ ~UpdateStatusFailed
      /\ ~RemoveFinalizer
  BY <1>1, Zenon DEF AddFinalizer, ReconcilePending, ReconcileSettled, UpdateStatusFailed,
                     RemoveFinalizer
<1>5. ~DeleteStatus
  <2> SUFFICES ASSUME DeleteStatus PROVE FALSE
    OBVIOUS
  <2>1. pc' \in {"delPublish", "delFinalizer"}
    BY <1>1, Zenon DEF DeleteStatus
  <2> QED
    BY <2>1
<1>6. EnsureObject => pc' = "fail"
  <2> SUFFICES ASSUME EnsureObject PROVE pc' = "fail"
    OBVIOUS
  <2>1. pc = "ensure" /\ (Ensured \/ HandleCreateError(TRUE) \/ HandleCreateError(FALSE))
    BY ZenonT(40) DEF EnsureObject
  <2> QED
    BY <1>1, <1>2, <2>1, Zenon DEF HandleCreateError, GoTo
<1>7. EnsureSecret => pc' = "failRetry"
  BY <1>2, Zenon DEF EnsureSecret, GoTo
<1>8. CheckPod \/ ReconcileRunning => pc' = "fail"
  BY <1>1, ZenonT(40) DEF CheckPod, ReconcileRunning, GoTo
<1>9. ~(SyncSession \/ Resync \/ \E k \in Watched : SyncObject(k))
  BY DEF SyncSession, Resync, SyncObject, worker
<1>10. ~EnvironmentNext
  BY DEF EnvironmentNext, UserCreate, UserDelete, UserEdit, Tick, Crash, PodReady, PodUnready,
         PodLoss, PodTurns, PodGone, BrokerFails, BrokerRecovers, BrokerTakes, ForeignCreate,
         CollectGarbage, worker
<1> QED
  BY <1>3, <1>4, <1>5, <1>6, <1>7, <1>8, <1>9, <1>10, SMTT(40) DEF Next, ControllerNext, WorkerStep

\* A reconcile that goes on works on the first session.
LEMMA FirstHeld ==
  ASSUME IInv, NEW ds, Untouched(ds), pc \in Forward
  PROVE  mem \in Session /\ mem.uid = 1 /\ <<1, mem.phase>> \in stored
<1>1. mem \in Session /\ Live(mem.uid) /\ <<mem.uid, mem.phase>> \in stored
  BY DEF IInv, TypeOK, WorkerInv, PhaseCopied, Forward
<1>2. mem.uid = 1
  BY <1>1, FirstLive DEF Session
<1> QED
  BY <1>1, <1>2, SMTT(40)

\* Why it gives up: a failed create too long after the start, or a pod that is
\* unready for too long.
LateCreate ==
  mem.phase = "Creating" /\ now > mem.start + CreatingTimeout /\ "fault" \in scenario'.met

LateReady ==
  /\ mem.phase = "Running" /\ ~mem.podReady /\ now > mem.since + PodUnreadyTimeout
  /\ podSeen # "Ready" /\ <<1, "Running">> \in stored

LEMMA WhyFail ==
  ASSUME IInv, OwnObjects, PodNamed, Next,
         Untouched({"permanent", "podLoss", "foreign"})', pc' = "fail", pc # "fail"
  PROVE  UNCHANGED <<mem, now>> /\ (LateCreate \/ LateReady)
<1>1. /\ Untouched({"permanent", "podLoss", "foreign"}) /\ Untouched({"podLoss", "foreign"})
      /\ "permanent" \notin scenario'.met
  BY UntouchedBack, ZenonT(40) DEF Untouched
<1>2. /\ \A k \in Kind : objs[k] = None \/ objs[k] = 1
      /\ \A k \in Watched : objsSeen[k] \in {None, objs[k]}
      /\ podSeen \in {"NotReady", "Ready"}
      /\ <<1, "Running">> \in stored => objsSeen["Pod"] # None
  BY <1>1 DEF OwnObjects
<1>3. ASSUME NEW again PROVE ~Finish(again)
  BY DEF Finish
<1>4. CASE EnsureObject
  <2> DEFINE k == Order[step]
  <2>1. pc = "ensure" /\ pc \in Forward /\ k \in Watched /\ Watched \subseteq Kind /\ now' = now
    BY <1>4, OrderFacts, SMTT(40) DEF EnsureObject, Forward, IInv, TypeOK, Watched
  <2>2. mem \in Session /\ mem.uid = 1 /\ mem.phase = "Creating"
    <3>1. mem.phase = "Creating"
      BY <2>1 DEF IInv, WorkerInv
    <3> QED
      BY <1>1, <2>1, <3>1, FirstHeld, SMTT(40)
  <2>3. objsSeen[k] \in {None, mem.uid}
    BY <1>2, <2>1, <2>2
  <2>4. ~Ensured
    BY <2>1 DEF Ensured
  <2>5. PICK r \in CreateResult : Create(k, r) /\ r \notin {"ok", "exists"}
                                  /\ HandleCreateError(r = "refused")
    BY <1>4, <2>3, <2>4, ZenonT(40) DEF EnsureObject
  <2>6. r = "fault" /\ "fault" \in scenario'.met
    <3>1. r # "refused"
      BY <1>1, <2>5, Spent DEF Create, IInv, Disturbance
    <3>2. r = "fault"
      BY <2>5, <3>1 DEF CreateResult
    <3>3. Spend("fault")
      BY <2>5, <3>2 DEF Create
    <3> QED
      BY <3>2, <3>3, Spent, SMTT(40) DEF IInv, Disturbance
  <2>7. now > mem.start + CreatingTimeout /\ mem' = mem
    BY <1>3, <2>5, <2>6, Zenon DEF HandleCreateError, GoTo
  <2> QED
    BY <2>1, <2>2, <2>6, <2>7, SMTT(40) DEF LateCreate
<1>5. CASE CheckPod
  BY <1>2, <1>3, <1>5, Zenon DEF CheckPod, PodTerminal
<1>6. CASE ReconcileRunning
  <2>1. pc = "phase" /\ pc \in Forward /\ mem.phase = "Running" /\ now' = now
    BY <1>6 DEF ReconcileRunning, Forward
  <2>2. mem \in Session /\ <<1, "Running">> \in stored /\ mem.podName
    <3>1. mem \in Session /\ <<1, "Running">> \in stored
      BY <1>1, <2>1, FirstHeld
    <3> QED
      BY <2>1, <3>1, NoneFacts DEF PodNamed, Named
  <2>3. PodInCache /\ ~PodTerminal
    BY <1>2, <2>2 DEF PodInCache, PodTerminal
  <2>4. mem' = mem /\ UnreadyTooLong(mem) /\ mem.podReady = (podSeen = "Ready")
    BY <1>3, <1>6, <2>2, <2>3, ZenonT(40) DEF ReconcileRunning, GoTo
  <2> QED
    BY <2>1, <2>2, <2>4, Zenon DEF UnreadyTooLong, LateReady
<1> QED
  BY <1>4, <1>5, <1>6, FailEntered

LEMMA NowGrows == ASSUME TypeOK, Next PROVE now \in Nat /\ now' \in {now, now + 1}
<1>1. now \in Nat
  BY ConstantsAssumption, SMTT(40) DEF TypeOK
<1>2. WorkerStep => now' = now
  BY DEF WorkerStep, AddFinalizer, PublishPhase, RecordPublishedPhase, ReconcilePending,
         StartCreating, EnsureObject, EnsureSecret, CheckPod, ReconcileRunning,
         ReconcileSettled, UpdateStatusFailed, DeleteStatus, DeletePublish, RemoveFinalizer
<1>3. Reconcile \/ SyncSession \/ Resync \/ (\E k \in Watched : SyncObject(k)) => now' = now
  BY DEF Reconcile, SyncSession, Resync, SyncObject
<1>4. EnvironmentNext /\ ~Tick => now' = now
  BY DEF EnvironmentNext, UserCreate, UserDelete, UserEdit, Crash, PodReady, PodUnready,
         PodLoss, PodTurns, PodGone, BrokerFails, BrokerRecovers, BrokerTakes, ForeignCreate,
         CollectGarbage
<1>5. Tick => now' = now + 1
  BY DEF Tick
<1> QED
  BY <1>1, <1>2, <1>3, <1>4, <1>5, SMTT(40) DEF Next, ControllerNext

LEMMA FailReasonKept ==
  ASSUME IInv, OwnObjects, PodNamed, FailReason, Next
  PROVE  FailReason'
<1> DEFINE ds == {"permanent", "podLoss", "foreign"}
<1> SUFFICES ASSUME pc' = "fail", Untouched(ds)'
             PROVE  \/ mem'.phase = "Creating" /\ now' > mem'.start + CreatingTimeout
                    \/ mem'.phase = "Running" /\ ~mem'.podReady
                       /\ now' > mem'.since + PodUnreadyTimeout
  BY DEF FailReason
<1>1. CASE pc # "fail"
  BY <1>1, WhyFail DEF LateCreate, LateReady
<1>2. CASE pc = "fail"
  <2>1. UNCHANGED mem
    BY SMTT(40), <1>2, NextWorkerMoves
       DEF WorkerMoves, Returns, Begins, Annotates, GoesOn, Terminates
  <2>2. /\ mem \in Session /\ now \in Nat /\ now' \in {now, now + 1}
        /\ CreatingTimeout \in Nat /\ PodUnreadyTimeout \in Nat
    BY <1>2, NowGrows, ConstantsAssumption, SMTT(40) DEF IInv, TypeOK
  <2>3. mem.start \in Nat /\ mem.since \in Nat
    BY <2>2 DEF Session
  <2>4. \/ mem.phase = "Creating" /\ now > mem.start + CreatingTimeout
        \/ mem.phase = "Running" /\ ~mem.podReady /\ now > mem.since + PodUnreadyTimeout
    BY <1>2, UntouchedBack DEF FailReason
  <2>5. /\ now > mem.start + CreatingTimeout => now' > mem.start + CreatingTimeout
        /\ now > mem.since + PodUnreadyTimeout => now' > mem.since + PodUnreadyTimeout
    BY <2>2, <2>3
  <2> QED
    BY <2>1, <2>4, <2>5
<1> QED
  BY <1>1, <1>2, SMTT(40)

\* Only updateStatusFailed stores Failed.
LEMMA NewlyFailed ==
  ASSUME IInv, Next, NEW u \in Uid, <<u, "Failed">> \in stored', <<u, "Failed">> \notin stored
  PROVE  UpdateStatusFailed /\ api # None
<1>1. ASSUME NEW m, NEW o \in Outcome, StatusUpdate(m, o)
      PROVE  m.phase = "Failed" /\ api # None
  <2>1. Applied(o) /\ m.phase = "Failed"
    BY <1>1, SMTT(40) DEF StatusUpdate
  <2> QED
    BY <1>1, <2>1, ZenonT(40) DEF StatusUpdate, Answer, Applied, Current
<1>2. pc # "idle" => mem \in Session
  BY DEF IInv, TypeOK
<1>3. ~ReconcilePending
  <2> SUFFICES ASSUME ReconcilePending PROVE FALSE
    OBVIOUS
  <2>1. [mem EXCEPT !.phase = "Creating", !.start = now].phase = "Creating"
    BY <1>2 DEF Session, ReconcilePending
  <2> QED
    BY <1>1, <2>1 DEF ReconcilePending
<1>4. ~CheckPod
  <2> SUFFICES ASSUME CheckPod PROVE FALSE
    OBVIOUS
  <2>1. RunningStatus(mem).phase = "Running"
    BY <1>2, StatusWritten DEF CheckPod, IInv
  <2>2. \E o \in Outcome : StatusUpdate(RunningStatus(mem), o)
    BY Zenon DEF CheckPod, store
  <2> QED
    BY <1>1, <2>1, <2>2, SMTT(40)
<1>5. ~ReconcileRunning
  <2> SUFFICES ASSUME ReconcileRunning PROVE FALSE
    OBVIOUS
  <2> DEFINE m == SetPodReady(mem, podSeen = "Ready")
  <2>1. m.phase = mem.phase /\ mem.phase = "Running"
    BY <1>2, StatusWritten, Zenon DEF ReconcileRunning, IInv
  <2>2. \E o \in Outcome : StatusUpdate(m, o)
    BY Zenon DEF ReconcileRunning, store
  <2> HIDE DEF m
  <2> QED
    BY <1>1, <2>1, <2>2, SMTT(40)
<1>6. UpdateStatusFailed => api # None
  BY <1>1 DEF UpdateStatusFailed
<1>7. ~DeleteStatus
  <2> SUFFICES ASSUME DeleteStatus PROVE FALSE
    OBVIOUS
  <2>1. TerminatingStatus(mem).phase = "Terminating"
    BY <1>2, StatusWritten DEF DeleteStatus, IInv
  <2>2. \E o \in Outcome : StatusUpdate(TerminatingStatus(mem), o)
    BY Zenon DEF DeleteStatus
  <2> QED
    BY <1>1, <2>1, <2>2, SMTT(40)
<1>8. ~(AddFinalizer \/ RemoveFinalizer \/ RecordPublishedPhase)
  BY Zenon DEF AddFinalizer, RemoveFinalizer, RecordPublishedPhase
<1>9. ~(\/ PublishPhase \/ StartCreating \/ EnsureObject \/ EnsureSecret \/ ReconcileSettled
        \/ DeletePublish)
  BY ZenonT(40) DEF PublishPhase, StartCreating, EnsureObject, EnsureSecret, ReconcileSettled,
                    DeletePublish, store
<1>10. ~(Reconcile \/ SyncSession \/ Resync \/ \E k \in Watched : SyncObject(k))
  BY DEF Reconcile, SyncSession, Resync, SyncObject, store
<1>11. ~UserCreate
  <2>1. <<u, "Failed">> # <<born + 1, "">>
    OBVIOUS
  <2> QED
    BY <2>1 DEF UserCreate
<1>12. ~EnvironmentNext
  BY <1>11 DEF EnvironmentNext, UserDelete, UserEdit, Tick, Crash, PodReady, PodUnready,
               PodLoss, PodTurns, PodGone, BrokerFails, BrokerRecovers, BrokerTakes, ForeignCreate,
               CollectGarbage, store
<1> QED
  BY SMTT(40),
     <1>3, <1>4, <1>5, <1>6, <1>7, <1>8, <1>9, <1>10, <1>12 DEF Next, ControllerNext, WorkerStep

LEMMA NeverFailsKept ==
  ASSUME IInv, OwnObjects, StaysReady, PodNamed, NeverFails, Next
  PROVE  NeverFails'
<1> DEFINE ds == {"fault", "permanent", "unready", "podLoss", "foreign"}
<1>1. ASSUME Untouched(ds)', pc' \in {"fail", "failRetry"} PROVE FALSE
  <2>1. /\ Untouched(ds) /\ Untouched({"podLoss", "foreign", "unready"})
        /\ Untouched({"permanent", "podLoss", "foreign"})'
        /\ "fault" \notin scenario'.met /\ "permanent" \notin scenario'.met
    BY <1>1, UntouchedBack, ZenonT(40) DEF Untouched
  <2>2. pc \notin {"fail", "failRetry"}
    BY <2>1 DEF NeverFails
  <2>3. CASE pc' = "fail"
    <3>1. LateReady
      BY <2>1, <2>2, <2>3, WhyFail DEF LateCreate
    <3> QED
      BY <2>1, <3>1 DEF LateReady, StaysReady
  <2>4. CASE pc' = "failRetry"
    <3>1. EnsureSecret
      BY <1>1, <2>2, <2>4, FailEntered
    <3>2. PICK r \in CreateResult : Create("Secret", r) /\ (r \in {"ok", "exists"} => Ensured)
      BY <3>1, Zenon DEF EnsureSecret
    <3>3. ~Ensured
      BY <2>4, <3>1 DEF Ensured, EnsureSecret
    <3>4. Spend("fault") \/ Spend("permanent")
      BY <3>2, <3>3 DEF Create, CreateResult
    <3> QED
      BY <2>1, <3>4, Spent DEF IInv, Disturbance
  <2> QED
    BY <1>1, <2>3, <2>4, SMTT(40)
<1>2. UndisturbedNeverFails'
  <2> SUFFICES ASSUME born' = 1, scenario'.met \cap ds = {}, <<1, "Failed">> \in stored'
               PROVE  FALSE
    BY SMTT(40) DEF UndisturbedNeverFails, Spared
  <2>1. scenario.met \cap ds = {} /\ 1 \in Uid
    BY MetGrows, InvNext, ZenonT(40) DEF IInv, TypeOK
  <2>2. CASE <<1, "Failed">> \in stored
    <3>1. born = 1
      <4>1. 1 <= born
        BY <2>1, <2>2, ZenonT(40) DEF IInv, StoreInv, Phase
      <4>2. UserCreate => born' = born + 1
        BY DEF UserCreate
      <4>3. born \in Nat
        BY BornFacts DEF IInv
      <4>4. ~UserCreate
        BY <4>1, <4>2, <4>3
      <4> QED
        BY <4>4, BornKept, SMTT(40)
    <3> QED
      BY <2>1, <2>2, <3>1 DEF NeverFails, UndisturbedNeverFails, Spared
  <2>3. CASE <<1, "Failed">> \notin stored
    <3>1. UpdateStatusFailed /\ api # None
      BY <2>1, <2>3, NewlyFailed
    <3>2. born = 1 /\ pc \in {"fail", "failRetry"}
      BY <3>1 DEF UpdateStatusFailed
    <3>3. Untouched(ds)
      BY <2>1, <3>1, <3>2 DEF Untouched
    <3> QED
      BY <3>2, <3>3 DEF NeverFails
  <2> QED
    BY <2>2, <2>3
<1> QED
  BY <1>1, <1>2 DEF NeverFails

-----------------------------------------------------------------------------
(***************************************************************************)
(* Theorems                                                                *)
(***************************************************************************)

LEMMA FailureInit == Init => IInv /\ FInv
<1> SUFFICES ASSUME Init PROVE FInv
  BY InvInit
<1>1. /\ api = None /\ cache = None /\ mem = None /\ pc = "idle" /\ step = 1
      /\ objs = [k \in Kind |-> None] /\ objsSeen = [k \in Watched |-> None]
      /\ pod = "NotReady" /\ podSeen = "NotReady" /\ stored = {}
  BY DEF Init
<1>2. OwnObjects
  BY <1>1 DEF OwnObjects
<1>3. StaysReady /\ FailReason /\ NeverFails
  BY <1>1 DEF StaysReady, FailReason, NeverFails, UndisturbedNeverFails
<1>4. PodNamed
  BY <1>1 DEF PodNamed, Named
<1>5. Times
  BY <1>1 DEF Times, Forward
<1> QED
  BY <1>2, <1>3, <1>4, <1>5 DEF FInv

LEMMA FailureNext == IInv /\ FInv /\ [Next]_vars => IInv' /\ FInv'
<1> SUFFICES ASSUME IInv, FInv, [Next]_vars PROVE FInv'
  BY InvNext
<1>1. CASE Next
  BY SMTT(40),
     <1>1, OwnObjectsKept, StaysReadyKept, PodNamedKept, TimesKept, FailReasonKept, NeverFailsKept
     DEF FInv
<1>2. CASE UNCHANGED vars
  <2>1. OwnObjects' /\ StaysReady'
    BY <1>2, SMTT(40) DEF vars, FInv, OwnObjects, StaysReady, Untouched
  <2>2. PodNamed' /\ Times'
    BY <1>2, SMTT(40) DEF vars, FInv, PodNamed, Named, Times, Timed, Live
  <2>3. FailReason' /\ NeverFails'
    BY <1>2, Zenon DEF vars, FInv, FailReason, NeverFails, UndisturbedNeverFails, Spared, Untouched
  <2> QED
    BY <2>1, <2>2, <2>3, SMTT(40) DEF FInv
<1> QED
  BY <1>1, <1>2

\* Why a session fails, as an invariant.
THEOREM FailureInvariant == Spec => [](IInv /\ FInv)
  BY FailureInit, FailureNext, PTL DEF Spec

\* Stale caches, conflicting edits and restarts alone never fail a session,
\* however many there are: every create that finds its object there is taken
\* as done, and a Running session's pod is in the cache.
THEOREM UndisturbedSessionsNeverFail == Spec => []UndisturbedNeverFails
<1>1. IInv /\ FInv => UndisturbedNeverFails
  BY DEF FInv, NeverFails
<1> QED
  BY <1>1, FailureInvariant, PTL

LEMMA SparedIsUntouched ==
  ASSUME NEW ds, Spared(ds), api # None
  PROVE  Untouched(ds)
<1>1. born = 1 /\ scenario.met \cap ds = {}
  BY DEF Spared
<1>2. born <= 1
  BY <1>1
<1> QED
  BY <1>1, <1>2, Zenon DEF Untouched

\* handleCreateError and reconcileRunning measure the timeouts on a copy of the
\* session that may be stale; updateStatusFailed is applied only when it was
\* not, so they hold of what is stored, for every value of the timeouts.
THEOREM FailuresComeAfterTimeout == Spec => FailsOnlyAfterTimeout
<1> DEFINE Late == \/ api.phase = "Creating" /\ now > api.start + CreatingTimeout
                   \/ api.phase = "Running" /\ ~api.podReady /\ now > api.since + PodUnreadyTimeout
           ds == {"permanent", "podLoss", "foreign"}
           A == Fails /\ pc = "fail" /\ Spared(ds) => Late
<1>1. ASSUME IInv, FInv, [Next]_vars, Fails, pc = "fail", Spared(ds) PROVE Late
  <2>1. /\ api # None /\ api' # None /\ api \in Session /\ mem \in Session /\ pc \in Forward
        /\ api.phase # "Failed" /\ api'.phase = "Failed"
    BY <1>1, SMTT(40) DEF Fails, IInv, TypeOK, Forward
  <2>2. Untouched(ds)
    BY <1>1, <2>1, SparedIsUntouched, Zenon
  <2>3. Next
    BY <1>1, <2>1, SMTT(40) DEF vars
  <2>4. UpdateStatusFailed
    <3>1. ~UserCreate /\ ~UserDelete /\ ~UserEdit
      <4>1. ~UserCreate
        BY <2>1 DEF UserCreate
      <4>2. ~UserDelete
        <5>1. [api EXCEPT !.deleting = TRUE] \in Session
              /\ [api EXCEPT !.deleting = TRUE].phase = api.phase
              /\ [api EXCEPT !.deleting = TRUE].rv = api.rv
          BY <2>1, Zenon DEF Session
        <5>2. Version(api, [api EXCEPT !.deleting = TRUE]).phase = api.phase
          BY <2>1, <5>1, VersionFacts, Zenon
        <5> QED
          BY <2>1, <5>2 DEF UserDelete
      <4>3. ~UserEdit
        BY <2>1 DEF UserEdit, Session
      <4> QED
        BY <4>1, <4>2, <4>3
    <3>2. api' # api
      BY <2>1, SMTT(40)
    <3>3. ~EnvironmentNext
      BY ZenonT(40),
         <3>1, <3>2 DEF EnvironmentNext, Tick, Crash, PodReady, PodUnready, PodLoss, PodTurns,
                        PodGone, BrokerFails, BrokerRecovers, BrokerTakes, ForeignCreate,
               CollectGarbage, store
    <3>4. ~(Reconcile \/ SyncSession \/ Resync \/ \E k \in Watched : SyncObject(k))
      BY <3>2 DEF Reconcile, SyncSession, Resync, SyncObject, store
    <3>5. WorkerStep
      BY <2>3, <3>3, <3>4, SMTT(40) DEF Next, ControllerNext
    <3> QED
      BY <1>1, <3>5 DEF WorkerStep, AddFinalizer, PublishPhase, RecordPublishedPhase,
                        ReconcilePending, StartCreating, EnsureObject, EnsureSecret, CheckPod,
                        ReconcileRunning, ReconcileSettled, DeleteStatus, DeletePublish,
                        RemoveFinalizer
  <2>5. Current(mem)
    <3>1. PICK o \in Outcome : StatusUpdate(FailedStatus(mem), o)
      BY <2>4, SMTT(40) DEF UpdateStatusFailed
    <3>2. /\ FailedStatus(mem) \in Session
          /\ FailedStatus(mem).uid = mem.uid /\ FailedStatus(mem).rv = mem.rv
      BY <1>1, <2>1, StatusWritten, SMTT(40) DEF IInv
    <3>3. Current(FailedStatus(mem))
      BY <1>1, <2>1, <3>1, <3>2, StatusUpdateEffect, SMTT(40) DEF IInv, TypeOK
    <3> QED
      BY <3>2, <3>3 DEF Current
  <2>6. api.phase = mem.phase
    BY <1>1, <2>1, <2>5, CurrentFacts, SMTT(40) DEF IInv
  <2>7. mem.start = api.start /\ mem.since = api.since /\ mem.podReady = api.podReady
    BY <1>1, <2>1, <2>5 DEF FInv, Times, Timed, Live, Current
  <2>8. \/ mem.phase = "Creating" /\ now > mem.start + CreatingTimeout
        \/ mem.phase = "Running" /\ ~mem.podReady /\ now > mem.since + PodUnreadyTimeout
    BY <1>1, <2>2 DEF FInv, FailReason
  <2> QED
    BY <2>6, <2>7, <2>8, SMTT(40)
<1>2. IInv /\ FInv /\ [Next]_vars => A
  BY <1>1
<1>3. Spec => [][A]_vars
  <2> HIDE DEF A
  <2>1. IInv /\ FInv /\ [Next]_vars => [A]_vars
    BY <1>2
  <2> QED
    BY <2>1, FailureInvariant, PTL DEF Spec
<1> QED
  BY <1>3, SMTT(40) DEF FailsOnlyAfterTimeout

===================================================================================
