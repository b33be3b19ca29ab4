------------------------------ MODULE LegacyProofs ------------------------------
(***************************************************************************)
(* Proofs about LegacyReconciler: what the finalizer and the deletion mark *)
(* protect while updateStatus writes to whatever session is stored.        *)
(***************************************************************************)
EXTENDS LegacyReconciler, TLAPS

\* The calls of reconcileLabSession, and those of reconcileDelete.
Forward == {"creating", "vmData", "vscodeData", "pod", "makePod", "service", "status", "failing"}
Backward == {"terminating", "verifyPod", "verifyService", "remove"}

\* The session a reconcile works for is stored, kept by the finalizer, and not
\* reported Terminating, whoever has deleted it meanwhile.
Kept(s) == s # None /\ s.finalizer /\ s.phase # "Terminating"

\* Only a session that is being deleted is reported Terminating.
Marked(s) == s # None /\ s.phase = "Terminating" => s.deleting

\* The inductive invariant.  The finalizer was there when the reconcile read the
\* session and only the same worker takes it away, so creation finds a session;
\* and the deletion mark stays, so reconcileDelete finds none or a marked one.
LegacyInv ==
  /\ TypeOK
  /\ Marked(session)
  /\ current => session # None
  /\ pc \in Forward => Kept(session)
  /\ pc \in Backward => session = None \/ session.deleting

-----------------------------------------------------------------------------
(***************************************************************************)
(* Steps that several handlers share                                       *)
(***************************************************************************)

LEMMA NoneFacts == \A s \in Session : s # None
  BY LegacyAssumption

\* Stored: what becomes of a session that is written back.
LEMMA StoredFacts ==
  ASSUME NEW s \in Session
  PROVE  /\ Stored(s) \in Session \cup {None}
         /\ Stored(s) = s \/ Stored(s) = None
         /\ Stored(s) = None => ~s.finalizer /\ s.deleting
  BY NoneFacts DEF Stored

\* updateStatus, its result ignored: the phase of the stored session changes to
\* the one given, or nothing does.
LEMMA TryStatusEffect ==
  ASSUME TypeOK, current => session # None, NEW phase \in Phase, TryStatus(phase)
  PROVE  /\ \/ session' = session
            \/ session \in Session /\ session' = [session EXCEPT !.phase = phase]
         /\ session' \in Session \cup {None}
         /\ stamped' \in BOOLEAN /\ current' \in BOOLEAN /\ faults' \in 0 .. MaxFaults
         /\ current' => session' # None
         /\ session' = None <=> session = None
<1>1. CASE UpdateStatus(phase) /\ UNCHANGED faults
  BY <1>1, NoneFacts, Zenon DEF UpdateStatus, TypeOK, Session
<1>2. CASE Fault /\ UNCHANGED <<session, stamped, current>>
  BY <1>2, LegacyAssumption DEF Fault, TypeOK
<1> QED
  BY <1>1, <1>2 DEF TryStatus

\* Create: no object goes, and the reconcile goes on or fails.
LEMMA CreateEffect ==
  ASSUME TypeOK, NEW kind \in Kind, NEW next \in Forward, NEW tolerant \in BOOLEAN,
         Create(kind, next, tolerant)
  PROVE  /\ objects' \subseteq Kind /\ pod' \in PodPhase
         /\ UNCHANGED <<cache, cachedPod>>
         /\ pc' \in Forward /\ pc' \in Stage
         /\ faults' \in 0 .. MaxFaults
<1>1. pc' \in Forward
  BY DEF Create, Forward
<1>2. pc' \in Stage
  BY <1>1 DEF Forward, Stage
<1>3. faults' \in 0 .. MaxFaults
  BY LegacyAssumption DEF Create, Fault, TypeOK
<1>4. objects' \subseteq Kind
  BY DEF Create, TypeOK
<1>5. pod' \in PodPhase
  BY DEF Create, TypeOK, PodPhase
<1> QED
  BY <1>1, <1>2, <1>3, <1>4, <1>5 DEF Create

-----------------------------------------------------------------------------
(***************************************************************************)
(* One lemma per group of steps                                            *)
(***************************************************************************)

\* A status update of a reconcile that goes on in the same half, or ends.
LEMMA StatusPreserves ==
  ASSUME LegacyInv, NEW phase \in Phase, TryStatus(phase), UNCHANGED cluster,
         read' \in PodPhase, pc' \in Stage,
         \/ pc \in Forward /\ phase # "Terminating" /\ (pc' \in Forward \/ pc' = "idle")
         \/ pc \in Backward /\ pc' \in Backward
  PROVE  LegacyInv'
<1> USE DEF LegacyInv
<1>1. /\ \/ session' = session
         \/ session \in Session /\ session' = [session EXCEPT !.phase = phase]
      /\ session' \in Session \cup {None}
      /\ stamped' \in BOOLEAN /\ current' \in BOOLEAN /\ faults' \in 0 .. MaxFaults
      /\ current' => session' # None
      /\ session' = None <=> session = None
  BY TryStatusEffect
<1>2. TypeOK'
  BY <1>1 DEF TypeOK, cluster
<1>3. CASE pc \in Forward /\ phase # "Terminating" /\ (pc' \in Forward \/ pc' = "idle")
  <2>1. Kept(session')
    BY <1>1, <1>3, NoneFacts DEF Kept, Session
  <2>2. pc' \notin Backward
    BY <1>3 DEF Forward, Backward
  <2> QED
    BY <1>1, <1>2, <2>1, <2>2 DEF Kept, Marked
<1>4. CASE pc \in Backward /\ pc' \in Backward
  <2>1. pc' \notin Forward
    BY <1>4 DEF Forward, Backward
  <2>2. session' = None \/ session'.deleting
    BY <1>1, <1>4, NoneFacts DEF Session
  <2> QED
    BY <1>1, <1>2, <1>4, <2>1, <2>2 DEF Marked
<1> QED
  BY <1>3, <1>4

LEMMA StatusStepsPreserve ==
  ASSUME LegacyInv, StartCreating \/ UpdateLabSessionStatus \/ ReportFailure \/ Terminate
  PROVE  LegacyInv'
<1> USE DEF Forward, Backward, Stage, Phase, PodPhase
<1>1. CASE StartCreating
  BY <1>1, StatusPreserves DEF StartCreating, Goto, LegacyInv, TypeOK
<1>2. CASE UpdateLabSessionStatus
  <2> DEFINE phase == IF read \in {"Running", "Failed"} THEN read ELSE "Creating"
  <2>1. phase \in Phase /\ phase # "Terminating"
    OBVIOUS
  <2>2. TryStatus(phase) /\ UNCHANGED cluster /\ read' = "Pending" /\ pc = "status" /\ pc' = "idle"
    BY <1>2 DEF UpdateLabSessionStatus, Goto
  <2> HIDE DEF phase
  <2> QED
    BY <2>1, <2>2, StatusPreserves
<1>3. CASE ReportFailure
  BY <1>3, StatusPreserves DEF ReportFailure, Goto
<1>4. CASE Terminate
  BY <1>4, StatusPreserves DEF Terminate, Goto, LegacyInv, TypeOK
<1> QED
  BY <1>1, <1>2, <1>3, <1>4

\* The steps that make an object or find it in the cache.
LEMMA CreateStepsPreserve ==
  ASSUME LegacyInv,
         \/ EnsureObject("vmData", "vscodeData") \/ EnsureObject("vscodeData", "pod")
         \/ EnsureObject("service", "status") \/ ReconcilePod \/ MakePod
  PROVE  LegacyInv' /\ pc \in Forward
<1> USE DEF LegacyInv
<1>1. ASSUME NEW kind \in Kind, NEW next \in Forward, pc \in Forward,
             UNCHANGED <<session, stamped, current>>, read' \in PodPhase,
             \/ Goto(next) /\ UNCHANGED faults
             \/ \E tolerant \in BOOLEAN : Create(kind, next, tolerant)
      PROVE  LegacyInv'
  <2>1. /\ objects' \subseteq Kind /\ pod' \in PodPhase
        /\ UNCHANGED <<cache, cachedPod>>
        /\ pc' \in Forward /\ pc' \in Stage
        /\ faults' \in 0 .. MaxFaults
    <3>1. CASE Goto(next) /\ UNCHANGED faults
      BY <1>1, <3>1 DEF Goto, cluster, TypeOK, Forward, Stage
    <3>2. CASE \E tolerant \in BOOLEAN : Create(kind, next, tolerant)
      BY <1>1, <3>2, CreateEffect
    <3> QED
      BY <1>1, <3>1, <3>2
  <2>2. TypeOK'
    BY <1>1, <2>1 DEF TypeOK
  <2>3. pc' \notin Backward
    BY <2>1 DEF Forward, Backward
  <2> QED
    BY <1>1, <2>1, <2>2, <2>3 DEF Kept, Marked
<1> USE DEF Kind, Forward
<1>2. ASSUME NEW kind \in {"vmData", "vscodeData", "service"}, NEW next \in Forward,
             EnsureObject(kind, next)
      PROVE  LegacyInv' /\ pc \in Forward
  BY <1>1, <1>2, ZenonT(40) DEF EnsureObject, TypeOK
<1>3. CASE ReconcilePod
  BY <1>1, <1>3, Zenon DEF ReconcilePod, TypeOK
<1>4. CASE MakePod
  BY <1>1, <1>4, Zenon DEF MakePod, PodPhase
<1> QED
  BY <1>2, <1>3, <1>4

\* The other steps of the worker: they read the session, or write its
\* finalizer at the version they have read.
LEMMA FinalizerStepsPreserve ==
  ASSUME LegacyInv,
         \/ Reconcile \/ AddFinalizer \/ RemoveFinalizer
         \/ Verify("verifyPod", "pod", "verifyService") \/ Verify("verifyService", "service", "remove")
  PROVE  LegacyInv' /\ UNCHANGED objects
<1> USE DEF LegacyInv, Forward, Backward
<1>1. CASE Reconcile
  <2>1. TypeOK'
    BY <1>1 DEF Reconcile, Goto, TypeOK, Stage, cluster
  <2>2. Kept(session)' \/ pc' \notin Forward
    BY <1>1 DEF Reconcile, Goto, Kept, Marked
  <2>3. pc' \in Backward => session.deleting
    BY <1>1 DEF Reconcile, Goto
  <2> QED
    BY <1>1, <2>1, <2>2, <2>3 DEF Reconcile, Goto, Marked, cluster
<1>2. CASE AddFinalizer
  <2>1. /\ session' \in Session \cup {None}
        /\ \/ session' = session
           \/ /\ session' \in Session
              /\ session'.phase = session.phase /\ session'.deleting = session.deleting
        /\ current' \in BOOLEAN /\ (current' => session' # None)
    <3>1. CASE current /\ session' = [session EXCEPT !.finalizer = TRUE] /\ current' = FALSE
      <4>1. session \in Session
        BY <3>1 DEF TypeOK
      <4> QED
        BY <3>1, <4>1, NoneFacts, Zenon DEF Session
    <3>2. CASE UNCHANGED <<session, current>>
      BY <3>2 DEF TypeOK
    <3> QED
      BY <1>2, <3>1, <3>2, Zenon DEF AddFinalizer
  <2>2. faults' \in 0 .. MaxFaults
    BY <1>2, LegacyAssumption DEF AddFinalizer, Fault, TypeOK
  <2>3. TypeOK'
    BY <1>2, <2>1, <2>2 DEF AddFinalizer, Goto, TypeOK, Stage, cluster
  <2>4. Marked(session')
    BY <2>1, <1>2 DEF Marked, AddFinalizer
  <2> QED
    BY <1>2, <2>1, <2>3, <2>4 DEF AddFinalizer, Goto, Marked, cluster
<1>3. CASE RemoveFinalizer
  <2>1. /\ session' \in Session \cup {None}
        /\ session' = None \/ session'.deleting
        /\ current' \in BOOLEAN /\ (current' => session' # None)
    <3> DEFINE s == [session EXCEPT !.finalizer = FALSE]
    <3>1. CASE current /\ session' = Stored(s) /\ current' = FALSE
      <4>1. session \in Session /\ session.deleting
        BY <1>3, <3>1 DEF RemoveFinalizer, TypeOK
      <4>2. s \in Session /\ s.deleting
        BY <4>1, Zenon DEF Session
      <4> HIDE DEF s
      <4> QED
        BY <3>1, <4>2, StoredFacts, Zenon
    <3>2. CASE UNCHANGED <<session, current>>
      BY <1>3, <3>2 DEF RemoveFinalizer, TypeOK
    <3> QED
      BY <1>3, <3>1, <3>2, Zenon DEF RemoveFinalizer
  <2>2. faults' \in 0 .. MaxFaults /\ stamped' \in BOOLEAN
    <3>1. (faults' = faults \/ Fault) /\ (stamped' = stamped \/ stamped' = FALSE)
      BY <1>3 DEF RemoveFinalizer
    <3>2. faults' \in 0 .. MaxFaults
      BY <3>1, LegacyAssumption DEF Fault, TypeOK
    <3> QED
      BY <3>1, <3>2, Zenon DEF TypeOK
  <2>3. TypeOK'
    BY <1>3, <2>1, <2>2 DEF RemoveFinalizer, Goto, TypeOK, Stage, cluster
  <2> QED
    BY <1>3, <2>1, <2>3 DEF RemoveFinalizer, Goto, Marked, cluster
<1>4. CASE \/ Verify("verifyPod", "pod", "verifyService")
           \/ Verify("verifyService", "service", "remove")
  <2>1. UNCHANGED <<session, stamped, current, read, faults, cluster>>
    BY <1>4 DEF Verify, Goto
  <2>2. pc \in Backward /\ pc' \in {"idle", "verifyService", "remove"}
    BY <1>4 DEF Verify, Goto
  <2> QED
    BY <2>1, <2>2 DEF TypeOK, Stage, cluster, Marked
<1> QED
  BY <1>1, <1>2, <1>3, <1>4

\* The deletion mark and the collector's finalizer: a session that a reconcile
\* works for has the controller's finalizer and stays.
LEMMA SessionStepsPreserve ==
  ASSUME LegacyInv,
         \/ \E foreground \in BOOLEAN : UserDelete(foreground)
         \/ DropForeground
  PROVE  LegacyInv' /\ UNCHANGED objects
<1> USE DEF LegacyInv
<1>1. PICK s \in Session :
        /\ session \in Session /\ session' = Stored(s)
        /\ s.phase = session.phase /\ s.finalizer = session.finalizer
        /\ session.deleting => s.deleting
        /\ s.phase = "Terminating" => s.deleting
        /\ current' = FALSE /\ UNCHANGED <<stamped, cluster, pc, read, faults>>
  <2>1. CASE \E foreground \in BOOLEAN : UserDelete(foreground)
    <3>1. PICK foreground \in BOOLEAN : UserDelete(foreground)
      BY <2>1
    <3>2. session \in Session
      BY <3>1 DEF UserDelete, TypeOK
    <3> DEFINE t == [session EXCEPT !.deleting = TRUE, !.foreground = foreground]
    <3>3. /\ t \in Session /\ t.deleting
          /\ t.phase = session.phase /\ t.finalizer = session.finalizer
      BY <3>2, Zenon DEF Session
    <3>4. session' = Stored(t) /\ current' = FALSE /\ UNCHANGED <<stamped, cluster, pc, read, faults>>
      BY <3>1 DEF UserDelete
    <3> QED
      BY <3>2, <3>3, <3>4, Zenon
  <2>2. CASE DropForeground
    <3>2. session \in Session
      BY <2>2 DEF DropForeground, TypeOK
    <3> DEFINE t == [session EXCEPT !.foreground = FALSE]
    <3>3. /\ t \in Session /\ t.deleting = session.deleting
          /\ t.phase = session.phase /\ t.finalizer = session.finalizer
      BY <3>2, Zenon DEF Session
    <3>4. session' = Stored(t) /\ current' = FALSE /\ UNCHANGED <<stamped, cluster, pc, read, faults>>
      BY <2>2 DEF DropForeground
    <3> QED
      BY <3>2, <3>3, <3>4, NoneFacts, Zenon DEF Marked
  <2> QED
    BY <2>1, <2>2, Zenon
<1>2. /\ session' \in Session \cup {None}
      /\ session' = s \/ session' = None
      /\ session' = None => ~s.finalizer
  BY <1>1, StoredFacts
<1>3. TypeOK'
  BY <1>1, <1>2, Zenon DEF TypeOK, cluster
<1>4. Kept(session) => Kept(session')
  BY <1>1, <1>2, NoneFacts, Zenon DEF Kept
<1>5. Marked(session') /\ (pc' \in Backward => session' = None \/ session'.deleting)
  BY <1>1, <1>2, NoneFacts DEF Marked
<1> QED
  BY <1>1, <1>3, <1>4, <1>5 DEF cluster

\* The informers, the kubelet, the collector, the clock and edits by others.
LEMMA ClusterStepsPreserve ==
  ASSUME LegacyInv,
         \/ \E kind \in Kind \ {"secret"} : Sync(kind)
         \/ UserEdit
         \/ \E phase \in PodPhase : PodMoves(phase)
         \/ PodLost \/ CollectGarbage \/ NextSecond
  PROVE  LegacyInv' /\ UNCHANGED session /\ objects' \subseteq objects
<1>1. UNCHANGED <<session, pc, read>> /\ (current' = current \/ current' = FALSE)
  BY Zenon DEF Sync, UserEdit, PodMoves, PodLost, CollectGarbage, NextSecond, worker
<1>2. objects' \subseteq objects
  BY Zenon DEF Sync, UserEdit, PodMoves, PodLost, CollectGarbage, NextSecond, cluster
<1>3. faults' = faults \/ Fault
  BY Zenon DEF Sync, UserEdit, PodMoves, PodLost, CollectGarbage, NextSecond
<1>4. faults' \in 0 .. MaxFaults
  BY <1>3, LegacyAssumption DEF Fault, LegacyInv, TypeOK
<1>5. cache' \subseteq Kind
  BY Zenon DEF Sync, UserEdit, PodMoves, PodLost, CollectGarbage, NextSecond, LegacyInv, TypeOK, cluster
<1>6. pod' \in PodPhase
  BY DEF Sync, UserEdit, PodMoves, PodLost, CollectGarbage, NextSecond, LegacyInv, TypeOK, cluster, PodPhase
<1>7. cachedPod' \in PodPhase /\ stamped' \in BOOLEAN
  BY Zenon DEF Sync, UserEdit, PodMoves, PodLost, CollectGarbage, NextSecond, LegacyInv, TypeOK, cluster
<1>8. TypeOK'
  BY <1>1, <1>2, <1>4, <1>5, <1>6, <1>7, Zenon DEF LegacyInv, TypeOK
<1> QED
  BY <1>1, <1>2, <1>8 DEF LegacyInv, Marked, Kept

-----------------------------------------------------------------------------
(***************************************************************************)
(* Theorems                                                                *)
(***************************************************************************)

\* LegacyInv holds in every state: a reconcile that creates or reports works
\* for a session that is stored and keeps its finalizer, whatever users and the
\* garbage collector do meanwhile, and one that deletes finds it marked.
THEOREM LegacyInvariant == Spec => []LegacyInv
<1>1. Init => LegacyInv
  <2> SUFFICES ASSUME Init PROVE LegacyInv
    OBVIOUS
  <2>1. session \in Session /\ session.phase = ""
    BY DEF Init, Session, Phase
  <2>2. faults \in 0 .. MaxFaults
    <3>1. faults = MaxFaults /\ MaxFaults \in Nat
      BY LegacyAssumption, Zenon DEF Init
    <3> QED
      BY <3>1
  <2>3. TypeOK
    BY <2>1, <2>2 DEF Init, TypeOK, PodPhase, Stage
  <2> QED
    BY <2>1, <2>3 DEF Init, LegacyInv, Marked, Forward, Backward
<1>2. LegacyInv /\ [Next]_vars => LegacyInv'
  <2> SUFFICES ASSUME LegacyInv, [Next]_vars PROVE LegacyInv'
    OBVIOUS
  <2>1. CASE UNCHANGED vars
    BY <2>1 DEF vars, cluster, worker, LegacyInv, TypeOK, Marked, Kept
  <2>2. CASE WorkerStep
    BY <2>2, StatusStepsPreserve, CreateStepsPreserve, FinalizerStepsPreserve DEF WorkerStep
  <2>3. CASE Next /\ ~WorkerStep
    BY <2>3, SessionStepsPreserve, ClusterStepsPreserve DEF Next
  <2> QED
    BY <2>1, <2>2, <2>3
<1> QED
  BY <1>1, <1>2, PTL DEF Spec

\* The variables keep their types: sessions, objects, pods, the worker's place.
THEOREM LegacyTypeCorrect == Spec => []TypeOK
<1>1. LegacyInv => TypeOK
  BY DEF LegacyInv
<1> QED
  BY <1>1, LegacyInvariant, PTL

\* updateStatus never takes Terminating back, though it writes the status of a
\* session it has not looked at: the reconciles that write another phase began
\* before the deletion, and their session has not reached Terminating yet.
THEOREM TerminatingStays == Spec => TerminatingIsFinal
<1>1. LegacyInv /\ [Next]_vars =>
        [session # None /\ session' # None /\ session.phase = "Terminating"
           => session'.phase = "Terminating"]_vars
  <2> SUFFICES ASSUME LegacyInv, Next, session # None, session' # None,
                      session.phase = "Terminating"
               PROVE  session'.phase = "Terminating"
    OBVIOUS
  <2>1. pc \notin Forward
    BY DEF LegacyInv, Kept
  <2>2. session \in Session
    BY DEF LegacyInv, TypeOK
  <2>3. ASSUME Terminate PROVE session'.phase = "Terminating"
    BY <2>2, <2>3 DEF Terminate, TryStatus, UpdateStatus, Session
  <2>4. ASSUME StartCreating \/ UpdateLabSessionStatus \/ ReportFailure PROVE FALSE
    BY <2>1, <2>4 DEF StartCreating, UpdateLabSessionStatus, ReportFailure, Forward
  <2>5. ASSUME Reconcile \/ AddFinalizer \/ RemoveFinalizer PROVE session'.phase = "Terminating"
    BY <2>2, <2>5 DEF Reconcile, AddFinalizer, RemoveFinalizer, Stored, Session
  <2>6. ASSUME \/ (\E foreground \in BOOLEAN : UserDelete(foreground)) \/ DropForeground
        PROVE  session'.phase = "Terminating"
    BY <2>2, <2>6, Zenon DEF UserDelete, DropForeground, Stored, Session
  <2>7. ASSUME UNCHANGED session PROVE session'.phase = "Terminating"
    BY <2>7
  <2>8. \/ Terminate \/ StartCreating \/ UpdateLabSessionStatus \/ ReportFailure
        \/ Reconcile \/ AddFinalizer \/ RemoveFinalizer
        \/ (\E foreground \in BOOLEAN : UserDelete(foreground)) \/ DropForeground
        \/ UNCHANGED session
    BY Zenon, ClusterStepsPreserve
    DEF Next, WorkerStep, EnsureObject, ReconcilePod, MakePod, Verify
  <2> QED
    BY <2>3, <2>4, <2>5, <2>6, <2>7, <2>8
<1> QED
  BY <1>1, LegacyInvariant, PTL DEF Spec, TerminatingIsFinal

\* No claim, Secret, pod or Service is created once the session is gone: the
\* reconcile that creates it read the finalizer, and takes it away itself only.
THEOREM NothingIsMadeForTheGone == Spec => NothingMadeForTheGone
<1>1. LegacyInv /\ [Next]_vars => [objects' \subseteq objects \/ session # None]_vars
  <2> SUFFICES ASSUME LegacyInv, Next PROVE objects' \subseteq objects \/ session # None
    OBVIOUS
  <2>1. ASSUME \/ EnsureObject("vmData", "vscodeData") \/ EnsureObject("vscodeData", "pod")
               \/ EnsureObject("service", "status") \/ ReconcilePod \/ MakePod
        PROVE  session # None
    BY <2>1, CreateStepsPreserve DEF LegacyInv, Kept
  <2>2. ASSUME StartCreating \/ UpdateLabSessionStatus \/ ReportFailure \/ Terminate
        PROVE  UNCHANGED objects
    BY <2>2 DEF StartCreating, UpdateLabSessionStatus, ReportFailure, Terminate, Goto, cluster
  <2> QED
    BY <2>1, <2>2, FinalizerStepsPreserve, SessionStepsPreserve, ClusterStepsPreserve
    DEF Next, WorkerStep
<1> QED
  BY <1>1, LegacyInvariant, PTL DEF Spec, NothingMadeForTheGone

=============================================================================
