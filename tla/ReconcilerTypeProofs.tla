-------------------------- MODULE ReconcilerTypeProofs --------------------------
(***************************************************************************)
(* Type correctness of LabSessionReconciler, for every order of objects,   *)
(* every number of sessions and every budget of disturbances, and lemmas   *)
(* about what its operators do.                                            *)
(***************************************************************************)
EXTENDS ReconcilerInvariant, TLAPS

\* The objects reconcileCreating ensures, and the position it is at.
LEMMA OrderFacts ==
  /\ Len(Order) \in Nat /\ Len(Order) >= 1
  /\ \A i \in 1 .. Len(Order) : Order[i] \in Kind
  /\ {"Secret", "Pod", "Service"} \subseteq Kind
<1>1. Len(Order) \in Nat
  BY ConstantsAssumption
<1>2. \A i \in 1 .. Len(Order) : Order[i] \in Kind
  BY DEF Kind
<1>3. {"Secret", "Pod", "Service"} \subseteq Kind
  BY ConstantsAssumption
<1>4. Len(Order) >= 1
  BY <1>1, <1>3 DEF Kind
<1> QED
  BY <1>1, <1>2, <1>3, <1>4

\* None is no session, no owner.
LEMMA NoneFacts == None \notin Session /\ None \notin Owner /\ None \notin Uid
  BY ConstantsAssumption DEF Owner, Uid, ForeignOwner

\* A new version differs from the old one in what was written and in its rv.
LEMMA VersionFacts ==
  ASSUME NEW s \in Session, NEW t \in Session, t.rv = s.rv
  PROVE  /\ Version(s, t) \in Session
         /\ Version(s, t).uid = t.uid /\ Version(s, t).annot = t.annot
         /\ Version(s, t).deleting = t.deleting /\ Version(s, t).fin = t.fin
         /\ Version(s, t).phase = t.phase
         /\ s.rv <= Version(s, t).rv
         /\ Version(s, t).rv = s.rv => Version(s, t) = s
  BY DEF Version, Session

\* Disturbances are spent one by one.
LEMMA SpendType ==
  ASSUME scenario \in Scenario, NEW d \in Disturbance, Spend(d)
  PROVE  scenario' \in Scenario
<1> DEFINE rest == [scenario.rest EXCEPT ![d] = scenario.rest[d] - 1]
<1>1. /\ scenario.events \in BOOLEAN /\ scenario.rest \in [Disturbance -> Nat]
      /\ scenario.met \in SUBSET Disturbance
  BY DEF Scenario
<1>2. scenario.rest[d] - 1 \in Nat
  BY <1>1 DEF Spend
<1>3. rest \in [Disturbance -> Nat]
  BY <1>1, <1>2
<1>4. scenario' = [scenario EXCEPT !.rest = rest, !.met = scenario.met \cup {d}]
  BY DEF Spend
<1> HIDE DEF rest
<1>5. scenario.met \cup {d} \in SUBSET Disturbance
  BY <1>1
<1> QED
  BY <1>3, <1>4, <1>5, Zenon DEF Scenario

\* Only an update of the current version is applied.
LEMMA AnswerEffect ==
  ASSUME scenario \in Scenario, NEW m, NEW o \in Outcome, Answer(m, o)
  PROVE  scenario' \in Scenario /\ (Applied(o) => Current(m))
<1>1. UNCHANGED scenario \/ Spend("fault")
  BY DEF Answer
<1>2. Applied(o) => Current(m)
  BY DEF Answer, Applied
<1> QED
  BY <1>1, <1>2, SpendType DEF Disturbance

\* What an update of the status does to the store: nothing, or a version with
\* m's phase whose metadata is as it was.
LEMMA StatusUpdateEffect ==
  ASSUME api \in Session \cup {None}, NEW m \in Session, NEW o \in Outcome,
         scenario \in Scenario, StatusUpdate(m, o)
  PROVE  /\ scenario' \in Scenario
         /\ \/ api' = api /\ stored' = stored /\ ~Applied(o)
            \/ /\ Applied(o) /\ Current(m)
               /\ api \in Session /\ api' \in Session
               /\ api'.uid = api.uid /\ api'.annot = api.annot
               /\ api'.deleting = api.deleting /\ api'.fin = api.fin
               /\ api'.phase = m.phase
               /\ api.rv <= api'.rv /\ (api'.rv = api.rv => api' = api)
               /\ stored' = stored \cup {<<m.uid, m.phase>>}
<1>1. scenario' \in Scenario /\ (Applied(o) => Current(m))
  BY AnswerEffect DEF StatusUpdate
<1>2. CASE ~Applied(o)
  BY <1>1, <1>2 DEF StatusUpdate
<1>3. CASE Applied(o)
  <2>1. Current(m) /\ api \in Session
    BY <1>1, <1>3 DEF Current
  <2>2. /\ WithStatus(api, m) \in Session
        /\ WithStatus(api, m).uid = api.uid /\ WithStatus(api, m).annot = api.annot
        /\ WithStatus(api, m).deleting = api.deleting /\ WithStatus(api, m).fin = api.fin
        /\ WithStatus(api, m).phase = m.phase /\ WithStatus(api, m).rv = api.rv
    BY <2>1, Zenon DEF WithStatus, Session
  <2>3. api' = Version(api, WithStatus(api, m)) /\ stored' = stored \cup {<<m.uid, m.phase>>}
    BY <1>3 DEF StatusUpdate
  <2> QED
    BY <1>1, <1>3, <2>1, <2>2, <2>3, VersionFacts
<1> QED
  BY <1>2, <1>3

-----------------------------------------------------------------------------
(***************************************************************************)
(* Type correctness                                                        *)
(***************************************************************************)

\* Returning from Reconcile and moving within it keep the worker well-typed.
LEMMA FinishType ==
  ASSUME TypeOK, NEW again \in BOOLEAN, Finish(again)
  PROVE  /\ pc' = "idle" /\ mem' = None /\ step' \in 1 .. Len(Order)
         /\ pending' \in BOOLEAN /\ queued' \in BOOLEAN
<1>1. queued' \in BOOLEAN
  BY Zenon DEF Finish
<1>2. pc' = "idle" /\ mem' = None /\ step' = 1 /\ pending' = FALSE
  BY Zenon DEF Finish
<1>3. 1 \in 1 .. Len(Order)
  BY OrderFacts
<1> QED
  BY <1>1, <1>2, <1>3, Zenon

\* Creating an object keeps the objects well-typed.
LEMMA CreatedType ==
  ASSUME TypeOK, mem \in Session, NEW k \in Kind, Created(k)
  PROVE  objs' \in [Kind -> Owner \cup {None}] /\ pod' \in PodStatus
<1>1. mem.uid \in Owner
  BY DEF Session, Owner
<1>2. objs' = [objs EXCEPT ![k] = mem.uid] /\ pod' \in {"NotReady", pod}
  BY DEF Created
<1> QED
  BY <1>1, <1>2 DEF TypeOK, PodStatus

LEMMA CreateType ==
  ASSUME TypeOK, mem \in Session, NEW k \in Kind, NEW r \in CreateResult, Create(k, r)
  PROVE  /\ objs' \in [Kind -> Owner \cup {None}]
         /\ pod' \in PodStatus
         /\ scenario' \in Scenario
<1>1. scenario' \in Scenario
  <2>1. UNCHANGED scenario \/ Spend("fault") \/ Spend("permanent")
    BY DEF Create
  <2> QED
    BY <2>1, SpendType DEF TypeOK, Disturbance
<1>2. Created(k) \/ UNCHANGED children
  BY DEF Create
<1> QED
  BY <1>1, <1>2, CreatedType DEF TypeOK, children

\* What the ensure functions do with the worker keeps it well-typed.
LEMMA EnsureType ==
  ASSUME TypeOK, pc = "ensure", NEW b \in BOOLEAN,
         Ensured \/ HandleCreateError(b) \/ (GoTo("failRetry") /\ UNCHANGED queued)
  PROVE  /\ pc' \in Location
         /\ mem' \in Session \cup {None}
         /\ (mem' = None) <=> (pc' = "idle")
         /\ step' \in 1 .. Len(Order)
         /\ pending' \in BOOLEAN
         /\ queued' \in BOOLEAN
<1>1. mem \in Session
  BY DEF TypeOK
<1>2. CASE Ensured
  <2>1. mem' \in Session
    BY <1>1, <1>2, Zenon DEF Ensured, Session
  <2>2. pc' \in {"checkPod", "ensure"} /\ step' \in 1 .. Len(Order)
    BY <1>2, OrderFacts DEF Ensured, TypeOK
  <2> QED
    BY <1>2, <2>1, <2>2, NoneFacts, Zenon DEF Ensured, TypeOK, Location
<1>3. CASE HandleCreateError(b)
  <2>1. CASE Finish(TRUE)
    BY <2>1, FinishType, Zenon DEF Location
  <2>2. CASE GoTo("fail") /\ UNCHANGED queued
    BY <2>2, <1>1, NoneFacts DEF GoTo, Location, TypeOK
  <2> QED
    BY <1>3, <2>1, <2>2, Zenon DEF HandleCreateError
<1>4. CASE GoTo("failRetry") /\ UNCHANGED queued
  BY <1>1, <1>4, NoneFacts DEF GoTo, Location, TypeOK
<1> QED
  BY <1>2, <1>3, <1>4

\* A step that writes the status and returns keeps the types.
LEMMA StatusStepType ==
  ASSUME TypeOK, pc # "idle", NEW m \in Session, NEW o \in Outcome,
         StatusUpdate(m, o), NEW again \in BOOLEAN, Finish(again),
         UNCHANGED <<now, born, children, informers, broker>>
  PROVE  TypeOK'
<1>1. /\ api \in Session \cup {None} /\ scenario \in Scenario
      /\ stored \subseteq Uid \X Phase
  BY DEF TypeOK
<1>2. <<m.uid, m.phase>> \in Uid \X Phase
  BY DEF Session
<1>3. /\ scenario' \in Scenario
      /\ \/ api' = api /\ stored' = stored
         \/ api' \in Session /\ stored' = stored \cup {<<m.uid, m.phase>>}
  BY <1>1, StatusUpdateEffect
<1>4. api' \in Session \cup {None}
  BY <1>1, <1>3, Zenon
<1>5. stored' \subseteq Uid \X Phase
  BY <1>1, <1>2, <1>3, Zenon
<1>6. UNCHANGED <<now, born, objs, pod, cache, objsSeen, podSeen, brokerUp, sent, taken>>
  BY DEF children, informers, broker
<1> QED
  BY <1>3, <1>4, <1>5, <1>6, FinishType DEF TypeOK, Location

\* Every step of the worker keeps the types.
LEMMA ReconcileType == TypeOK /\ Reconcile => TypeOK'
<1> SUFFICES ASSUME TypeOK, Reconcile PROVE TypeOK'
  OBVIOUS
<1>1. UNCHANGED <<now, born, scenario, api, stored, objs, pod, cache, objsSeen, podSeen,
                  brokerUp, sent, taken>> /\ queued' = FALSE
  BY DEF Reconcile, store, children, informers, broker
<1>2. /\ pc' \in Location /\ mem' \in Session \cup {None} /\ ((mem' = None) <=> (pc' = "idle"))
      /\ step' = step /\ pending' = pending
  <2>1. CASE cache = None
    BY <2>1 DEF Reconcile, worker, TypeOK
  <2>2. CASE cache # None
    <3>1. cache \in Session /\ cache # None
      BY <2>2 DEF TypeOK
    <3>2. mem' = cache /\ step' = step /\ pending' = pending
      BY <2>2 DEF Reconcile
    <3>3. pc' \in {"delStatus", "finalizer", "publish", "phase"}
      BY <2>2 DEF Reconcile
    <3> QED
      BY <3>1, <3>2, <3>3 DEF Location
  <2> QED
    BY <2>1, <2>2
<1> QED
  BY <1>1, <1>2, Zenon DEF TypeOK

LEMMA AddFinalizerType == TypeOK /\ AddFinalizer => TypeOK'
<1> SUFFICES ASSUME TypeOK, AddFinalizer PROVE TypeOK'
  OBVIOUS
<1>1. Finish(TRUE) /\ UNCHANGED <<now, born, stored, objs, pod, cache, objsSeen, podSeen,
                                  brokerUp, sent, taken>>
  BY Zenon DEF AddFinalizer, children, informers, broker
<1>2. PICK o \in Outcome :
        /\ Answer(mem, o)
        /\ api' = IF Applied(o) THEN Version(api, [api EXCEPT !.fin = TRUE]) ELSE api
  BY DEF AddFinalizer
<1>3. scenario' \in Scenario /\ (Applied(o) => Current(mem))
  BY <1>2, AnswerEffect DEF TypeOK
<1>4. api' \in Session \cup {None}
  <2>1. CASE Applied(o)
    <3>1. api \in Session /\ api' = Version(api, [api EXCEPT !.fin = TRUE])
      BY <1>2, <1>3, <2>1 DEF Current, TypeOK
    <3>2. [api EXCEPT !.fin = TRUE] \in Session /\ [api EXCEPT !.fin = TRUE].rv = api.rv
      BY <3>1, Zenon DEF Session
    <3> QED
      BY <3>1, <3>2, VersionFacts, Zenon
  <2>2. CASE ~Applied(o)
    BY <1>2, <2>2 DEF TypeOK
  <2> QED
    BY <2>1, <2>2
<1> QED
  BY <1>1, <1>3, <1>4, FinishType, Zenon DEF TypeOK, Location

\* A publish, answered or not, adds at most the event it is about.
LEMMA PublishEffect ==
  ASSUME TypeOK, mem \in Session, NEW ok \in BOOLEAN, Publish(mem, ok)
  PROVE  /\ scenario' \in Scenario
         /\ sent' \subseteq (Uid \X Phase) /\ taken' \subseteq sent'
         /\ \/ sent' = sent /\ taken' = taken
            \/ /\ sent' = sent \cup {<<mem.uid, mem.phase>>}
               /\ taken' \in {taken, taken \cup {<<mem.uid, mem.phase>>}}
         /\ ok => <<mem.uid, mem.phase>> \in taken'
<1>1. UNCHANGED scenario \/ Spend("lostConfirm")
  BY DEF Publish
<1>2. \/ ok /\ Send(mem.uid, mem.phase) /\ Take(mem.uid, mem.phase)
      \/ ~ok /\ UNCHANGED <<sent, taken>>
      \/ ~ok /\ Send(mem.uid, mem.phase) /\ UNCHANGED taken
  BY DEF Publish
<1>3. <<mem.uid, mem.phase>> \in Uid \X Phase
  BY DEF Session
<1>4. scenario' \in Scenario
  BY <1>1, SpendType DEF TypeOK, Disturbance
<1>5. CASE ok /\ Send(mem.uid, mem.phase) /\ Take(mem.uid, mem.phase)
  BY <1>3, <1>4, <1>5 DEF Send, Take, TypeOK
<1>6. CASE ~ok /\ UNCHANGED <<sent, taken>>
  BY <1>4, <1>6 DEF TypeOK
<1>7. CASE ~ok /\ Send(mem.uid, mem.phase) /\ UNCHANGED taken
  BY <1>3, <1>4, <1>7 DEF Send, TypeOK
<1> QED
  BY <1>2, <1>5, <1>6, <1>7

LEMMA PublishPhaseType == TypeOK /\ PublishPhase => TypeOK'
<1> SUFFICES ASSUME TypeOK, PublishPhase PROVE TypeOK'
  OBVIOUS
<1>1. PICK ok \in BOOLEAN : /\ Publish(mem, ok)
                            /\ pc' = IF ok THEN "annotate" ELSE "phase"
                            /\ pending' = ~ok
  BY Zenon DEF PublishPhase
<1>2. /\ UNCHANGED <<mem, step, queued, now, brokerUp, born, api, stored, objs, pod,
                     cache, objsSeen, podSeen>>
      /\ pc = "publish"
  BY DEF PublishPhase, store, children, informers
<1>3. mem \in Session /\ mem # None
  BY <1>2, NoneFacts DEF TypeOK
<1>4. pc' \in {"annotate", "phase"} /\ pending' \in BOOLEAN
  BY <1>1, Zenon
<1>5. /\ scenario' \in Scenario
      /\ sent' \subseteq (Uid \X Phase) /\ taken' \subseteq sent'
  BY <1>1, <1>3, PublishEffect
<1> QED
  BY <1>2, <1>3, <1>4, <1>5 DEF TypeOK, Location

\* The patch writes the annotation only.
LEMMA RecordEffect ==
  ASSUME TypeOK, RecordPublishedPhase
  PROVE  /\ scenario' \in Scenario /\ pending' \in BOOLEAN
         /\ mem \in Session /\ mem' \in Session
         /\ \/ api' = api /\ mem' = [mem EXCEPT !.annot = mem.phase]
            \/ /\ api \in Session /\ api' \in Session
               /\ api'.uid = api.uid /\ api'.annot = mem.phase
               /\ api'.deleting = api.deleting /\ api'.fin = api.fin
               /\ api'.phase = api.phase
               /\ api.rv <= api'.rv /\ (api'.rv = api.rv => api' = api)
               /\ mem' = api' \/ mem' = [mem EXCEPT !.annot = mem.phase]
<1> DEFINE patched == Version(api, [api EXCEPT !.annot = mem.phase])
<1>1. mem \in Session
  BY DEF RecordPublishedPhase, TypeOK
<1>2. [mem EXCEPT !.annot = mem.phase] \in Session
  BY <1>1 DEF Session
<1>3. UNCHANGED scenario \/ Spend("fault")
  BY DEF RecordPublishedPhase
<1>4. scenario' \in Scenario
  BY <1>3, SpendType DEF TypeOK, Disturbance
<1>5. pending' = pending \/ pending' = TRUE
  BY DEF RecordPublishedPhase
<1>6. pending' \in BOOLEAN
  BY <1>5, Zenon DEF TypeOK
<1>7. CASE api' = api /\ mem' = [mem EXCEPT !.annot = mem.phase]
  BY <1>1, <1>2, <1>4, <1>6, <1>7
<1>8. CASE /\ api # None /\ api' = patched
           /\ mem' = patched \/ mem' = [mem EXCEPT !.annot = mem.phase]
  <2>1. api \in Session
    BY <1>8 DEF TypeOK
  <2>2. /\ [api EXCEPT !.annot = mem.phase] \in Session
        /\ [api EXCEPT !.annot = mem.phase].uid = api.uid
        /\ [api EXCEPT !.annot = mem.phase].annot = mem.phase
        /\ [api EXCEPT !.annot = mem.phase].deleting = api.deleting
        /\ [api EXCEPT !.annot = mem.phase].fin = api.fin
        /\ [api EXCEPT !.annot = mem.phase].phase = api.phase
        /\ [api EXCEPT !.annot = mem.phase].rv = api.rv
    BY <1>1, <2>1 DEF Session
  <2>3. /\ patched \in Session
        /\ patched.uid = api.uid /\ patched.annot = mem.phase
        /\ patched.deleting = api.deleting /\ patched.fin = api.fin
        /\ patched.phase = api.phase
        /\ api.rv <= patched.rv /\ (patched.rv = api.rv => patched = api)
    BY <2>1, <2>2, VersionFacts, ZenonT(40)
  <2> HIDE DEF patched
  <2> QED
    BY <1>1, <1>2, <1>4, <1>6, <1>8, <2>1, <2>3
<1> QED
  BY <1>7, <1>8 DEF RecordPublishedPhase

LEMMA RecordType == TypeOK /\ RecordPublishedPhase => TypeOK'
<1> SUFFICES ASSUME TypeOK, RecordPublishedPhase PROVE TypeOK'
  OBVIOUS
<1>1. /\ UNCHANGED <<step, queued, now, born, stored, objs, pod, cache, objsSeen, podSeen,
                     brokerUp, sent, taken>>
      /\ pc' = "phase"
  BY DEF RecordPublishedPhase, children, informers, broker
<1> QED
  BY <1>1, RecordEffect, NoneFacts DEF TypeOK, Location

LEMMA ReconcilePendingType == TypeOK /\ ReconcilePending => TypeOK'
<1> SUFFICES ASSUME TypeOK, ReconcilePending PROVE TypeOK'
  OBVIOUS
<1>a. pc = "phase"
  BY DEF ReconcilePending
<1>1. mem \in Session /\ now \in Nat
  BY <1>a, ConstantsAssumption DEF TypeOK
<1>2. [mem EXCEPT !.phase = "Creating", !.start = now] \in Session
  BY <1>1 DEF Session, Phase
<1> QED
  BY <1>2, StatusStepType DEF ReconcilePending

LEMMA StartCreatingType == TypeOK /\ StartCreating => TypeOK'
  BY DEF TypeOK, StartCreating, GoTo, Location, store, children, informers, broker

LEMMA EnsureObjectType == TypeOK /\ EnsureObject => TypeOK'
<1> SUFFICES ASSUME TypeOK, EnsureObject PROVE TypeOK'
  OBVIOUS
<1> DEFINE k == Order[step]
<1>1. pc = "ensure" /\ mem \in Session /\ k \in Kind
  BY OrderFacts DEF EnsureObject, TypeOK
<1>2. /\ UNCHANGED <<now, born, api, stored, cache, objsSeen, podSeen, brokerUp, sent, taken>>
  BY DEF EnsureObject, store, informers, broker
<1>3. \/ \E r \in CreateResult : Create(k, r)
      \/ UNCHANGED <<children, scenario>>
  BY Zenon DEF EnsureObject
<1>4. \E b \in BOOLEAN : Ensured \/ HandleCreateError(b)
  BY Zenon DEF EnsureObject
<1> HIDE DEF k
<1>5. /\ objs' \in [Kind -> Owner \cup {None}]
      /\ pod' \in PodStatus
      /\ scenario' \in Scenario
  BY <1>1, <1>3, CreateType DEF TypeOK, children
<1>6. /\ pc' \in Location
      /\ mem' \in Session \cup {None}
      /\ (mem' = None) <=> (pc' = "idle")
      /\ step' \in 1 .. Len(Order)
      /\ pending' \in BOOLEAN
      /\ queued' \in BOOLEAN
  BY <1>1, <1>4, EnsureType
<1> QED
  BY <1>2, <1>5, <1>6 DEF TypeOK

LEMMA EnsureSecretType == TypeOK /\ EnsureSecret => TypeOK'
<1> SUFFICES ASSUME TypeOK, EnsureSecret PROVE TypeOK'
  OBVIOUS
<1>1. pc = "ensure" /\ mem \in Session /\ "Secret" \in Kind
  BY OrderFacts DEF EnsureSecret, TypeOK
<1>2. /\ UNCHANGED <<now, born, api, stored, cache, objsSeen, podSeen, brokerUp, sent, taken>>
  BY DEF EnsureSecret, store, informers, broker
<1>3. \E r \in CreateResult : Create("Secret", r)
  BY DEF EnsureSecret
<1>4. Ensured \/ (GoTo("failRetry") /\ UNCHANGED queued)
  BY DEF EnsureSecret
<1>5. /\ objs' \in [Kind -> Owner \cup {None}]
      /\ pod' \in PodStatus
      /\ scenario' \in Scenario
  BY <1>1, <1>3, CreateType
<1>6. /\ pc' \in Location
      /\ mem' \in Session \cup {None}
      /\ (mem' = None) <=> (pc' = "idle")
      /\ step' \in 1 .. Len(Order)
      /\ pending' \in BOOLEAN
      /\ queued' \in BOOLEAN
  BY <1>1, <1>4, EnsureType, Zenon
<1> QED
  BY <1>2, <1>5, <1>6 DEF TypeOK

\* The status that CheckPod, ReconcileRunning, UpdateStatusFailed and
\* DeleteStatus write is a session's, with the phase they are about.
LEMMA StatusWritten ==
  ASSUME TypeOK, mem \in Session
  PROVE  /\ \A b \in BOOLEAN : /\ SetPodReady(mem, b) \in Session
                               /\ SetPodReady(mem, b).phase = mem.phase
                               /\ SetPodReady(mem, b).uid = mem.uid
                               /\ SetPodReady(mem, b).rv = mem.rv
         /\ RunningStatus(mem) \in Session /\ RunningStatus(mem).phase = "Running"
         /\ RunningStatus(mem).uid = mem.uid /\ RunningStatus(mem).rv = mem.rv
         /\ FailedStatus(mem) \in Session /\ FailedStatus(mem).phase = "Failed"
         /\ FailedStatus(mem).uid = mem.uid /\ FailedStatus(mem).rv = mem.rv
         /\ TerminatingStatus(mem) \in Session /\ TerminatingStatus(mem).phase = "Terminating"
         /\ TerminatingStatus(mem).uid = mem.uid /\ TerminatingStatus(mem).rv = mem.rv
         /\ TerminatingStatus(mem).deleting = mem.deleting
         /\ TerminatingStatus(mem).fin = mem.fin
<1>1. now \in Nat
  BY ConstantsAssumption DEF TypeOK
<1>2. \A b \in BOOLEAN : /\ SetPodReady(mem, b) \in Session
                         /\ SetPodReady(mem, b).phase = mem.phase
                         /\ SetPodReady(mem, b).uid = mem.uid
                         /\ SetPodReady(mem, b).rv = mem.rv
  BY <1>1, Zenon DEF SetPodReady, Session
<1>3. /\ RunningStatus(mem) \in Session /\ RunningStatus(mem).phase = "Running"
      /\ RunningStatus(mem).uid = mem.uid /\ RunningStatus(mem).rv = mem.rv
  <2> DEFINE m == SetPodReady(mem, TRUE)
             u == HoldsResources(podSeen)
             e == UpdateEndpoints(mem)
  <2>1. m \in Session /\ m.uid = mem.uid /\ m.rv = mem.rv
    BY <1>2, Zenon
  <2>2. u \in BOOLEAN /\ e \in BOOLEAN
    BY DEF HoldsResources, UpdateEndpoints
  <2>3. RunningStatus(mem) = [m EXCEPT !.phase = "Running", !.usage = u, !.endpoints = e]
    BY DEF RunningStatus
  <2> HIDE DEF m, u, e
  <2> QED
    BY <2>1, <2>2, <2>3, ZenonT(40) DEF Session, Phase
<1>4. /\ FailedStatus(mem) \in Session /\ FailedStatus(mem).phase = "Failed"
      /\ FailedStatus(mem).uid = mem.uid /\ FailedStatus(mem).rv = mem.rv
  <2> DEFINE u == SessionPodUsage(mem)
  <2>1. u \in BOOLEAN
    BY DEF SessionPodUsage
  <2>2. FailedStatus(mem) = [mem EXCEPT !.phase = "Failed", !.usage = u]
    BY DEF FailedStatus
  <2> HIDE DEF u
  <2> QED
    BY <2>1, <2>2, ZenonT(40) DEF Session, Phase
<1>5. /\ TerminatingStatus(mem) \in Session /\ TerminatingStatus(mem).phase = "Terminating"
      /\ TerminatingStatus(mem).uid = mem.uid /\ TerminatingStatus(mem).rv = mem.rv
      /\ TerminatingStatus(mem).deleting = mem.deleting
      /\ TerminatingStatus(mem).fin = mem.fin
  BY DEF TerminatingStatus, Session, Phase
<1> QED
  BY <1>2, <1>3, <1>4, <1>5

\* A reconcile that returns, or moves on, without a call keeps the types.
LEMMA QuietStepType ==
  ASSUME TypeOK, pc # "idle",
         \/ \E again \in BOOLEAN : Finish(again)
         \/ GoTo("fail") /\ UNCHANGED queued,
         UNCHANGED <<store, scenario, now, born, children, informers, broker>>
  PROVE  TypeOK'
<1>1. UNCHANGED <<api, stored, scenario, now, born, objs, pod, cache, objsSeen, podSeen,
                  brokerUp, sent, taken>>
  BY DEF store, children, informers, broker
<1>2. ASSUME NEW again \in BOOLEAN, Finish(again) PROVE TypeOK'
  BY <1>1, <1>2, FinishType DEF TypeOK, Location
<1>3. CASE GoTo("fail") /\ UNCHANGED queued
  BY <1>1, <1>3 DEF GoTo, TypeOK, Location
<1> QED
  BY <1>2, <1>3

LEMMA CheckPodType == TypeOK /\ CheckPod => TypeOK'
<1> SUFFICES ASSUME TypeOK, CheckPod PROVE TypeOK'
  OBVIOUS
<1>1. pc = "checkPod" /\ UNCHANGED <<now, born, children, informers, broker>>
  BY DEF CheckPod
<1>2. mem \in Session
  BY <1>1 DEF TypeOK
<1>3. \/ Finish(TRUE) /\ UNCHANGED <<store, scenario>>
      \/ GoTo("fail") /\ UNCHANGED <<queued, store, scenario>>
      \/ \E o \in Outcome : StatusUpdate(RunningStatus(mem), o) /\ Finish(o # "ok")
  BY Zenon DEF CheckPod
<1>4. ASSUME NEW o \in Outcome, StatusUpdate(RunningStatus(mem), o), Finish(o # "ok")
      PROVE  TypeOK'
  BY <1>1, <1>2, <1>4, StatusWritten, StatusStepType, Zenon
<1> QED
  BY <1>1, <1>3, <1>4, QuietStepType, Zenon

LEMMA ReconcileRunningType == TypeOK /\ ReconcileRunning => TypeOK'
<1> SUFFICES ASSUME TypeOK, ReconcileRunning PROVE TypeOK'
  OBVIOUS
<1>1. pc = "phase" /\ UNCHANGED <<now, born, children, informers, broker>>
  BY DEF ReconcileRunning
<1>2. mem \in Session
  BY <1>1 DEF TypeOK
<1>3. \/ Finish(TRUE) /\ UNCHANGED <<store, scenario>>
      \/ GoTo("fail") /\ UNCHANGED <<queued, store, scenario>>
      \/ \E b \in BOOLEAN, o \in Outcome : StatusUpdate(SetPodReady(mem, b), o) /\ Finish(TRUE)
  BY Zenon DEF ReconcileRunning
<1>4. ASSUME NEW b \in BOOLEAN, NEW o \in Outcome, StatusUpdate(SetPodReady(mem, b), o), Finish(TRUE)
      PROVE  TypeOK'
  BY <1>1, <1>2, <1>4, StatusWritten, StatusStepType, Zenon
<1> QED
  BY <1>1, <1>3, <1>4, QuietStepType, Zenon

LEMMA ReconcileSettledType == TypeOK /\ ReconcileSettled => TypeOK'
  BY QuietStepType, Zenon DEF ReconcileSettled

LEMMA UpdateStatusFailedType == TypeOK /\ UpdateStatusFailed => TypeOK'
<1> SUFFICES ASSUME TypeOK, UpdateStatusFailed PROVE TypeOK'
  OBVIOUS
<1>1. pc # "idle" /\ UNCHANGED <<now, born, children, informers, broker>>
      /\ Finish(pc = "failRetry")
  BY DEF UpdateStatusFailed
<1>2. mem \in Session
  BY <1>1 DEF TypeOK
<1>3. PICK o \in Outcome : StatusUpdate(FailedStatus(mem), o)
  BY DEF UpdateStatusFailed
<1> QED
  BY <1>1, <1>2, <1>3, StatusWritten, StatusStepType, Zenon

LEMMA DeleteStatusType == TypeOK /\ DeleteStatus => TypeOK'
<1> SUFFICES ASSUME TypeOK, DeleteStatus PROVE TypeOK'
  OBVIOUS
<1>1. pc = "delStatus" /\ UNCHANGED <<now, born, children, informers, broker>>
  BY DEF DeleteStatus
<1>2. mem \in Session
  BY <1>1 DEF TypeOK
<1>3. PICK o \in Outcome :
       /\ StatusUpdate(TerminatingStatus(mem), o)
       /\ \/ o = "notFound" /\ Finish(FALSE)
          \/ /\ mem' = IF o = "ok" THEN api' ELSE TerminatingStatus(mem)
             /\ pc' \in {"delPublish", "delFinalizer"}
             /\ UNCHANGED <<step, pending, queued>>
  BY Zenon DEF DeleteStatus
<1>4. CASE Finish(FALSE)
  BY <1>1, <1>2, <1>3, <1>4, StatusWritten, StatusStepType, Zenon
<1>5. CASE /\ mem' = IF o = "ok" THEN api' ELSE TerminatingStatus(mem)
           /\ pc' \in {"delPublish", "delFinalizer"}
           /\ UNCHANGED <<step, pending, queued>>
  <2>1. UNCHANGED <<now, born, objs, pod, cache, objsSeen, podSeen, brokerUp, sent, taken>>
    BY <1>1 DEF children, informers, broker
  <2>2. TerminatingStatus(mem) \in Session /\ TerminatingStatus(mem).uid = mem.uid
        /\ TerminatingStatus(mem).phase = "Terminating"
    BY <1>2, StatusWritten, SMTT(40)
  <2>3. /\ api' \in Session \cup {None} /\ scenario' \in Scenario
        /\ stored' \subseteq Uid \X Phase
        /\ o = "ok" => api' \in Session
    <3>1. <<TerminatingStatus(mem).uid, TerminatingStatus(mem).phase>> \in Uid \X Phase
      BY <2>2 DEF Session
    <3>2. o = "ok" => Applied(o)
      BY SMTT(40) DEF Applied
    <3> QED
      BY <1>3, <2>2, <3>1, <3>2, StatusUpdateEffect, SMTT(40) DEF TypeOK
  <2>4. mem' \in Session
    BY <1>5, <2>2, <2>3
  <2> QED
    BY <1>5, <2>1, <2>3, <2>4, NoneFacts DEF TypeOK, Location
<1> QED
  BY <1>3, <1>4, <1>5, Zenon

LEMMA DeletePublishType == TypeOK /\ DeletePublish => TypeOK'
<1> SUFFICES ASSUME TypeOK, DeletePublish PROVE TypeOK'
  OBVIOUS
<1>1. PICK ok \in BOOLEAN : Publish(mem, ok)
  BY DEF DeletePublish
<1>2. /\ UNCHANGED <<mem, step, pending, queued, now, brokerUp, born, api, stored, objs, pod,
                     cache, objsSeen, podSeen>>
      /\ pc = "delPublish" /\ pc' = "delFinalizer"
  BY DEF DeletePublish, GoTo, store, children, informers
<1>3. mem \in Session /\ mem # None
  BY <1>2, NoneFacts DEF TypeOK
<1>4. /\ scenario' \in Scenario
      /\ sent' \subseteq (Uid \X Phase) /\ taken' \subseteq sent'
  BY <1>1, <1>3, PublishEffect, SMTT(40)
<1> QED
  BY <1>2, <1>3, <1>4 DEF TypeOK, Location

LEMMA RemoveFinalizerType == TypeOK /\ RemoveFinalizer => TypeOK'
<1> SUFFICES ASSUME TypeOK, RemoveFinalizer PROVE TypeOK'
  OBVIOUS
<1>1. UNCHANGED <<now, born, stored, objs, pod, cache, objsSeen, podSeen, brokerUp, sent, taken>>
  BY DEF RemoveFinalizer, children, informers, broker
<1>2. PICK o \in Outcome : /\ Answer(mem, o)
                           /\ api' = IF Applied(o) THEN None ELSE api
                           /\ Finish(o \notin {"ok", "notFound"})
  BY DEF RemoveFinalizer
<1>3. api' \in Session \cup {None} /\ scenario' \in Scenario
  BY <1>2, AnswerEffect DEF TypeOK
<1> QED
  BY <1>1, <1>2, <1>3, FinishType, Zenon DEF TypeOK, Location

LEMMA WorkerStepType == TypeOK /\ WorkerStep => TypeOK'
  BY AddFinalizerType, PublishPhaseType, RecordType, ReconcilePendingType, StartCreatingType,
     EnsureObjectType, EnsureSecretType, CheckPodType, ReconcileRunningType,
     ReconcileSettledType, UpdateStatusFailedType, DeleteStatusType, DeletePublishType,
     RemoveFinalizerType
     DEF WorkerStep

\* The work queue, the informers and the process keep the types.
LEMMA RuntimeType ==
  TypeOK /\ (SyncSession \/ Resync \/ Crash \/ \E k \in Watched : SyncObject(k)) => TypeOK'
<1>1. ASSUME TypeOK, SyncSession PROVE TypeOK'
  BY <1>1 DEF SyncSession, TypeOK, store, children, worker, broker
<1>2. ASSUME TypeOK, Resync PROVE TypeOK'
  BY <1>2, SMTT(40) DEF Resync, TypeOK, store, children, informers, worker, broker
<1>3. ASSUME TypeOK, Crash PROVE TypeOK'
  <2>1. /\ UNCHANGED <<now, born, api, stored, objs, pod, brokerUp, sent, taken>>
        /\ pc' = "idle" /\ mem' = None /\ step' = 1 /\ pending' = FALSE
        /\ cache' = api /\ podSeen' = pod
    BY <1>3 DEF Crash, store, children, broker
  <2>2. queued' \in BOOLEAN /\ pending' \in BOOLEAN
    BY <1>3, Zenon DEF Crash
  <2>3. objsSeen' \in [Watched -> Owner \cup {None}]
    BY <1>3, SMTT(40) DEF Crash, TypeOK, Watched
  <2>4. scenario' \in Scenario
    BY <1>3, SpendType DEF Crash, TypeOK, Disturbance
  <2>5. step' \in 1 .. Len(Order)
    BY <2>1, OrderFacts, SMTT(40)
  <2> QED
    BY <1>3, <2>1, <2>2, <2>3, <2>4, <2>5, SMTT(40) DEF TypeOK, Location
<1>4. ASSUME TypeOK, NEW k \in Watched, SyncObject(k) PROVE TypeOK'
  <2>1. UNCHANGED <<cache, now, born, scenario, api, stored, objs, pod, pc, mem, step, pending,
                    brokerUp, sent, taken>>
    BY <1>4 DEF SyncObject, store, children, worker, broker
  <2>2. queued' \in BOOLEAN
    BY <1>4, Zenon DEF SyncObject
  <2>3. objsSeen' \in [Watched -> Owner \cup {None}] /\ podSeen' \in PodStatus
    BY <1>4 DEF SyncObject, TypeOK, Watched
  <2> QED
    BY <1>4, <2>1, <2>2, <2>3, SMTT(40) DEF TypeOK
<1> QED
  BY <1>1, <1>2, <1>3, <1>4

\* So do the user, the pods, the garbage collector, the clock and the broker.
LEMMA UserType == TypeOK /\ (UserCreate \/ UserDelete \/ UserEdit) => TypeOK'
<1>1. ASSUME TypeOK, UserCreate PROVE TypeOK'
  <2>1. /\ UNCHANGED <<now, queued, objs, pod, cache, objsSeen, podSeen, pc, mem, step,
                       pending, brokerUp, sent, taken>>
        /\ api' = NewSession(born + 1) /\ born' = born + 1 /\ born < MaxUid
        /\ stored' = stored \cup {<<born + 1, "">>}
    BY <1>1 DEF UserCreate, children, informers, worker, broker
  <2>2. born' \in 0 .. MaxUid /\ born + 1 \in Uid
    <3>1. born \in 0 .. MaxUid /\ MaxUid \in Nat
      BY <1>1, ConstantsAssumption DEF TypeOK
    <3>2. born < MaxUid /\ born' = born + 1
      BY <2>1
    <3> QED
      BY <3>1, <3>2, SMTT(40) DEF Uid
  <2>3. api' \in Session /\ <<born + 1, "">> \in Uid \X Phase
    <3>1. \A u \in Uid : NewSession(u) \in Session /\ <<u, "">> \in Uid \X Phase
      BY DEF NewSession, Session, Phase
    <3> QED
      BY <2>1, <2>2, <3>1, ZenonT(40)
  <2>4. scenario' \in Scenario
    BY <1>1, SpendType DEF UserCreate, TypeOK, Disturbance
  <2> QED
    BY <1>1, <2>1, <2>2, <2>3, <2>4, ZenonT(40) DEF TypeOK
<1>2. ASSUME TypeOK, UserDelete PROVE TypeOK'
  <2>1. /\ UNCHANGED <<stored, now, born, scenario, queued, objs, pod, cache, objsSeen, podSeen, pc,
                       mem, step, pending, brokerUp, sent, taken>>
        /\ api # None
        /\ api' = IF api.fin THEN Version(api, [api EXCEPT !.deleting = TRUE]) ELSE None
    BY <1>2 DEF UserDelete, children, informers, worker, broker
  <2>2. api \in Session
    BY <1>2, <2>1 DEF TypeOK
  <2>3. [api EXCEPT !.deleting = TRUE] \in Session /\ [api EXCEPT !.deleting = TRUE].rv = api.rv
    BY <2>2, Zenon DEF Session
  <2>4. api' \in Session \cup {None}
    BY <2>1, <2>2, <2>3, VersionFacts, Zenon
  <2> QED
    BY <1>2, <2>1, <2>4 DEF TypeOK
<1>3. ASSUME TypeOK, UserEdit PROVE TypeOK'
  <2>1. /\ UNCHANGED <<stored, now, born, queued, objs, pod, cache, objsSeen, podSeen, pc,
                       mem, step, pending, brokerUp, sent, taken>>
        /\ api # None /\ api' = [api EXCEPT !.rv = @ + 1]
    BY <1>3 DEF UserEdit, children, informers, worker, broker
  <2>2. api \in Session
    BY <1>3, <2>1 DEF TypeOK
  <2>3. api' \in Session
    BY <2>1, <2>2 DEF Session
  <2>4. scenario' \in Scenario
    BY <1>3, SpendType DEF UserEdit, TypeOK, Disturbance
  <2> QED
    BY <1>3, <2>1, <2>3, <2>4, SMTT(40) DEF TypeOK
<1> QED
  BY <1>1, <1>2, <1>3, SMTT(40)

LEMMA ClusterType ==
  TypeOK /\ (\/ Tick \/ PodReady \/ PodUnready \/ PodLoss \/ PodGone
             \/ BrokerFails \/ BrokerRecovers \/ BrokerTakes
             \/ \E k \in Kind : ForeignCreate(k) \/ CollectGarbage(k)) => TypeOK'
<1>1. ASSUME TypeOK, Tick PROVE TypeOK'
  <2>1. scenario' \in Scenario
    BY <1>1, SpendType, SMTT(40) DEF Tick, TypeOK, Disturbance
  <2> QED
    BY SMTT(40), <1>1, <2>1, ConstantsAssumption
       DEF Tick, TypeOK, store, children, informers, worker, broker
<1>2. ASSUME TypeOK, NEW from, NEW to \in PodStatus, PodTurns(from, to),
             scenario' \in Scenario
      PROVE  TypeOK'
  BY <1>2 DEF PodTurns, TypeOK, store, informers, worker, broker
<1>3. ASSUME TypeOK, PodReady \/ PodUnready \/ PodLoss PROVE TypeOK'
  <2>1. scenario' \in Scenario
    BY <1>3, SpendType DEF PodReady, PodUnready, PodLoss, TypeOK, Disturbance
  <2>2. \E to \in PodStatus : \E from : PodTurns(from, to)
    BY <1>3, SMTT(40) DEF PodReady, PodUnready, PodLoss, PodStatus
  <2> QED
    BY <1>2, <1>3, <2>1, <2>2
<1>4. ASSUME TypeOK, PodGone PROVE TypeOK'
  BY <1>4, OrderFacts, SMTT(40) DEF PodGone, TypeOK, PodStatus, store, informers, worker, broker
<1>5. ASSUME TypeOK, BrokerFails PROVE TypeOK'
  <2>1. scenario' \in Scenario
    BY <1>5, SpendType DEF BrokerFails, TypeOK, Disturbance
  <2> QED
    BY <1>5, <2>1, ZenonT(40) DEF BrokerFails, TypeOK, store, children, informers, worker
<1>6. ASSUME TypeOK, BrokerRecovers PROVE TypeOK'
  BY <1>6 DEF BrokerRecovers, TypeOK, store, children, informers, worker
<1>7. ASSUME TypeOK, NEW k \in Kind, ForeignCreate(k) PROVE TypeOK'
  <2>1. scenario' \in Scenario
    BY <1>7, SpendType, SMTT(40) DEF ForeignCreate, TypeOK, Disturbance
  <2>2. objs' \in [Kind -> Owner \cup {None}] /\ pod' \in PodStatus
    BY <1>7, SMTT(40) DEF ForeignCreate, TypeOK, Owner, PodStatus
  <2> QED
    BY <1>7, <2>1, <2>2 DEF ForeignCreate, TypeOK, store, informers, worker, broker
<1>8. ASSUME TypeOK, NEW k \in Kind, CollectGarbage(k) PROVE TypeOK'
  <2>1. objs' \in [Kind -> Owner \cup {None}] /\ pod' \in PodStatus
    BY <1>8, SMTT(40) DEF CollectGarbage, TypeOK, PodStatus
  <2> QED
    BY <1>8, <2>1, SMTT(40) DEF CollectGarbage, TypeOK, store, informers, worker, broker
<1>9. ASSUME TypeOK, BrokerTakes PROVE TypeOK'
  BY <1>9, SMTT(40) DEF BrokerTakes, TypeOK, store, children, informers, worker
<1> QED
  BY <1>1, <1>3, <1>4, <1>5, <1>6, <1>7, <1>8, <1>9, SMTT(40)

LEMMA InitType == Init => TypeOK
<1> SUFFICES ASSUME Init PROVE TypeOK
  OBVIOUS
<1>1. pending \in BOOLEAN /\ queued \in BOOLEAN /\ brokerUp \in BOOLEAN
  BY Zenon DEF Init
<1>2. step \in 1 .. Len(Order) /\ now \in 0 .. MaxTime /\ born \in 0 .. MaxUid
  BY OrderFacts, ConstantsAssumption DEF Init
<1>3. /\ api = None /\ cache = None /\ mem = None /\ pc = "idle"
      /\ pod = "NotReady" /\ podSeen = "NotReady"
      /\ sent = {} /\ taken = {} /\ stored = {}
      /\ \E s \in Scenarios : scenario = [events |-> s.events, rest |-> s.rest, met |-> {}]
      /\ objs = [k \in Kind |-> None] /\ objsSeen = [k \in Watched |-> None]
  BY Zenon DEF Init
<1>4. scenario \in Scenario
  BY <1>3, ConstantsAssumption DEF Scenario
<1> QED
  BY <1>1, <1>2, <1>3, <1>4, ConstantsAssumption DEF TypeOK, PodStatus, Location

\* The type invariant: in every reachable state the worker is at a location of
\* Reconcile with the session variable that location has, and reconcileCreating
\* is within its list of objects.
THEOREM TypeCorrect == Spec => []TypeOK
<1>1. TypeOK /\ [Next]_vars => TypeOK'
  <2>1. TypeOK /\ UNCHANGED vars => TypeOK'
    BY DEF TypeOK, vars
  <2> QED
    BY <2>1, ReconcileType, WorkerStepType, RuntimeType, UserType, ClusterType
       DEF Next, ControllerNext, EnvironmentNext
<1> QED
  BY <1>1, InitType, PTL DEF Spec

=============================================================================
