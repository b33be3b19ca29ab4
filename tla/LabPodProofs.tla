------------------------------ MODULE LabPodProofs ------------------------------
(***************************************************************************)
(* The pod BuildPod describes implements the pod LabSessionReconciler      *)
(* assumes, and the session's key and its Running phase are what they      *)
(* claim to be, for every value of the constants.                          *)
(***************************************************************************)
EXTENDS FailureProofs, LabPod

\* A step the reconciler's specification allows the pod.
PodChange == PodReady \/ PodUnready \/ PodLoss \/ UNCHANGED vars

-----------------------------------------------------------------------------
(***************************************************************************)
(* The kubelet's steps are steps of the pod                                *)
(***************************************************************************)

\* How the status follows from the containers.
LEMMA StatusFacts ==
  ASSUME NEW cs \in [Container -> ContainerState]
  PROVE  /\ StatusOf(cs) \in {"NotReady", "Ready", "Exited", "Finished"}
         /\ StatusOf(cs) = "Exited" => \E c \in Container : cs[c] = "stopped"
         /\ StatusOf(cs) = "Ready" => \A c \in Container : cs[c] = "serving"
         /\ \A c \in Container : cs[c] = "stopped" => StatusOf(cs) \in {"Exited", "Finished"}
<1>1. Container # {}
  BY ContainerAssumption
<1> QED
  BY <1>1 DEF StatusOf

LEMMA FreshStatus == StatusOf([c \in Container |-> "waiting"]) = "NotReady"
<1> DEFINE cs == [c \in Container |-> "waiting"]
<1>1. \E c \in Container : TRUE
  BY ContainerAssumption
<1>2. \A c \in Container : cs[c] = "waiting"
  OBVIOUS
<1> HIDE DEF cs
<1>3. StatusOf(cs) = "NotReady"
  BY <1>1, <1>2 DEF StatusOf
<1> QED
  BY <1>3 DEF cs

\* A report of a status that the pod may have next.
LEMMA ReportStep ==
  ASSUME TypeOK, Alive, NEW status \in {"NotReady", "Ready", "Exited", "Finished"},
         Report(status), pod = "Exited" => status \in {"Exited", "Finished"}
  PROVE  PodChange
<1>1. /\ objs["Pod"] # None /\ pod \in {"NotReady", "Ready", "Exited"}
      /\ pod' = status
      /\ UNCHANGED <<objs, now, born, store, queued, informers, worker, broker>>
  BY DEF Alive, TypeOK, PodStatus, Report
<1>2. CASE status = pod
  <2>1. UNCHANGED scenario
    BY <1>2 DEF Report
  <2> QED
    BY <1>1, <1>2, <2>1 DEF PodChange, vars, store, informers, worker, broker
<1>3. CASE status # pod /\ status = "Ready"
  <2>1. UNCHANGED scenario /\ pod = "NotReady"
    BY <1>1, <1>3 DEF Report
  <2> QED
    BY <1>1, <1>3, <2>1 DEF PodChange, PodReady, PodTurns
<1>4. CASE status # pod /\ status = "NotReady"
  <2>1. Spend("unready") /\ pod = "Ready"
    BY <1>1, <1>4 DEF Report
  <2> QED
    BY <1>1, <1>4, <2>1 DEF PodChange, PodUnready, PodTurns
<1>5. CASE status # pod /\ status \in {"Exited", "Finished"}
  <2>1. Spend("podLoss")
    BY <1>5 DEF Report
  <2>2. PodTurns({"NotReady", "Ready", "Exited"} \ {status}, status)
    BY <1>1, <1>5 DEF PodTurns
  <2> QED
    BY <1>5, <2>1, <2>2 DEF PodChange, PodLoss
<1> QED
  BY <1>2, <1>3, <1>4, <1>5

\* A container that has not stopped changes its state.
LEMMA TurnStep ==
  ASSUME TypeOK, PodTypeOK, StatusAgrees, Alive, NEW c \in Container, NEW state \in ContainerState,
         containers[c] # "stopped", Turn(c, state)
  PROVE  /\ PodChange
         /\ containers' \in [Container -> ContainerState]
         /\ pod' = StatusOf(containers')
         /\ pod' = "Ready" => served' = served \cup {objs["Pod"]}
         /\ served' \in {served, served \cup {objs["Pod"]}}
         /\ UNCHANGED <<objs, now, born, store, queued, informers, worker, broker, pairs>>
<1> DEFINE cs == [containers EXCEPT ![c] = state]
<1>1. containers \in [Container -> ContainerState] /\ pod = StatusOf(containers)
  BY DEF PodTypeOK, StatusAgrees
<1>2. /\ cs \in [Container -> ContainerState]
      /\ \A d \in Container : containers[d] = "stopped" => cs[d] = "stopped"
  BY <1>1
<1>3. /\ containers' = cs /\ Report(StatusOf(cs))
      /\ served' = IF \A d \in Container : cs[d] = "serving" THEN served \cup {objs["Pod"]}
                                                             ELSE served
  BY DEF Turn
<1> HIDE DEF cs
<1>4. pod = "Exited" => StatusOf(cs) \in {"Exited", "Finished"}
  BY <1>1, <1>2, StatusFacts, Zenon
<1>5. StatusOf(cs) \in {"NotReady", "Ready", "Exited", "Finished"}
  BY <1>2, StatusFacts
<1>6. PodChange
  BY <1>3, <1>4, <1>5, ReportStep
<1>7. pod' = StatusOf(cs)
      /\ UNCHANGED <<objs, now, born, store, queued, informers, worker, broker, pairs>>
  BY <1>3 DEF Report
<1>8. StatusOf(cs) = "Ready" => \A d \in Container : cs[d] = "serving"
  BY <1>2, StatusFacts
<1> QED
  BY <1>2, <1>3, <1>6, <1>7, <1>8

\* What a step of the kubelet does.
LEMMA KubeletStep ==
  ASSUME TypeOK, PodTypeOK, StatusAgrees, KubeletNext
  PROVE  /\ PodChange
         /\ PodTypeOK' /\ StatusAgrees'
         /\ pod' = "Ready" => objs["Pod"] \in served' \/ pod = "Ready"
         /\ served \subseteq served'
         /\ UNCHANGED <<objs, api, stored, born, objsSeen, podSeen, pairs>>
<1>1. ASSUME StartInit \/ EndInit
      PROVE  /\ PodChange /\ PodTypeOK' /\ StatusAgrees' /\ pod' = pod /\ served' = served
             /\ UNCHANGED <<objs, api, stored, born, objsSeen, podSeen, pairs>>
  <2>1. Alive /\ Report(pod) /\ UNCHANGED <<containers, terminalKey, served>>
    BY <1>1 DEF StartInit, EndInit
  <2>2. pod \in {"NotReady", "Ready", "Exited", "Finished"} /\ PodChange
    <3>1. pod \in {"NotReady", "Ready", "Exited", "Finished"}
      BY <2>1 DEF Alive, TypeOK, PodStatus
    <3> QED
      BY <2>1, <3>1, ReportStep
  <2>3. pod' = pod /\ UNCHANGED <<objs, api, stored, born, objsSeen, podSeen, pairs>>
    BY <2>1 DEF Report, store, informers
  <2>4. PodTypeOK'
    BY <1>1, <2>1, <2>3 DEF PodTypeOK, StartInit, EndInit
  <2>5. StatusAgrees'
    BY <2>1, <2>3 DEF StatusAgrees, Alive, StatusOf
  <2> QED
    BY <2>1, <2>2, <2>3, <2>4, <2>5
<1>2. ASSUME FailInit
      PROVE  /\ PodChange /\ PodTypeOK' /\ StatusAgrees' /\ pod' = "Finished" /\ served' = served
             /\ UNCHANGED <<objs, api, stored, born, objsSeen, podSeen, pairs>>
  <2>1. /\ Alive /\ Report("Finished")
        /\ UNCHANGED <<init, containers, vmKey, terminalKey, served>>
    BY <1>2 DEF FailInit
  <2>2. pod' = "Finished" /\ UNCHANGED <<objs, api, stored, born, objsSeen, podSeen, pairs>>
    BY <2>1 DEF Report, store, informers
  <2> QED
    BY <2>1, <2>2, ReportStep DEF PodTypeOK, StatusAgrees, Alive
<1>3. ASSUME NEW c \in Container, Start(c) \/ ProbeAnswered(c) \/ ProbeFails(c) \/ Stop(c)
      PROVE  /\ PodChange /\ PodTypeOK' /\ StatusAgrees'
             /\ pod' = "Ready" => objs["Pod"] \in served'
             /\ served \subseteq served'
             /\ UNCHANGED <<objs, api, stored, born, objsSeen, podSeen, pairs>>
  <2>1. PICK state \in ContainerState : Turn(c, state)
    BY <1>3 DEF Start, ProbeAnswered, ProbeFails, Stop, ContainerState
  <2>2. Alive /\ containers[c] # "stopped"
    BY <1>3 DEF Start, ProbeAnswered, ProbeFails, Stop, Startable
  <2>3. /\ PodChange
        /\ containers' \in [Container -> ContainerState]
        /\ pod' = StatusOf(containers')
        /\ pod' = "Ready" => served' = served \cup {objs["Pod"]}
        /\ served' \in {served, served \cup {objs["Pod"]}}
        /\ UNCHANGED <<objs, now, born, store, queued, informers, worker, broker, pairs>>
    BY <2>1, <2>2, TurnStep
  <2>4. UNCHANGED <<init, vmKey>> /\ terminalKey' \in {terminalKey, pairs}
    BY <1>3 DEF Start, ProbeAnswered, ProbeFails, Stop, Turn
  <2>5. objs["Pod"] \in Owner
    BY <2>2, OrderFacts, SMTT(40) DEF Alive, TypeOK
  <2>6. pairs' = pairs /\ pairs \in Nat /\ pairs \in 0 .. pairs
    BY <2>3 DEF PodTypeOK
  <2>7. PodTypeOK'
    BY <2>3, <2>4, <2>5, <2>6 DEF PodTypeOK
  <2>8. StatusAgrees'
    BY <2>3 DEF StatusAgrees
  <2> QED
    BY <2>3, <2>7, <2>8 DEF store, informers
<1> QED
  BY <1>1, <1>2, <1>3 DEF KubeletNext

-----------------------------------------------------------------------------
(***************************************************************************)
(* What the other steps do to the pod and the Secret                       *)
(***************************************************************************)

Around == ControllerNext \/ ClusterNext

LEMMA AroundIsNext == Around => Next
<1>1. DeletePod => PodLoss
  <2>1. {"NotReady", "Ready", "Exited"} \ {"Deleting"} = {"NotReady", "Ready", "Exited"}
    OBVIOUS
  <2> QED
    BY <2>1 DEF DeletePod, PodLoss
<1> QED
  BY <1>1 DEF Around, ClusterNext, Next, EnvironmentNext

\* The steps that touch the session's objects.
LEMMA ChildSteps ==
  ASSUME IInv, Around
  PROVE  \/ UNCHANGED <<objs, pod>>
         \/ /\ \E k \in Kind : Created(k) /\ Live(mem.uid)
            /\ UNCHANGED <<api, stored, born, objsSeen, podSeen>>
         \/ \E k \in Kind : ForeignCreate(k) \/ CollectGarbage(k)
         \/ DeletePod \/ PodGone
<1>1. CASE UserCreate \/ UserDelete \/ UserEdit \/ Tick \/ Crash \/ BrokerFails \/ BrokerRecovers
           \/ BrokerTakes
  BY <1>1 DEF UserCreate, UserDelete, UserEdit, Tick, Crash, BrokerFails, BrokerRecovers,
              BrokerTakes, children
<1> QED
  BY <1>1, ControllerChildren DEF Around, ClusterNext

\* What that leaves of the pod: its status and its owner; and of the Secret.
PodMoves ==
  \/ objs'["Pod"] = objs["Pod"] /\ pod' \in {pod, "Deleting"}
  \/ objs'["Pod"] # objs["Pod"] /\ pod' = "NotReady"

PodOwned ==
  \/ objs'["Pod"] \in {objs["Pod"], None}
  \/ objs'["Pod"] \in Uid /\ Live(objs'["Pod"]) /\ UNCHANGED <<api, born, stored>>
  \/ "foreign" \in scenario'.met

SecretMoves ==
  \/ objs'["Secret"] = objs["Secret"]
  \/ /\ UNCHANGED <<api, born>>
     /\ objs["Secret"] = None /\ objs'["Secret"] # None
     /\ \/ objs'["Secret"] = ForeignOwner
        \/ objs'["Secret"] \in Uid /\ Live(objs'["Secret"])
  \/ UNCHANGED <<api, born>> /\ objs["Secret"] \in Uid /\ ~Live(objs["Secret"])

LEMMA ChildFacts ==
  ASSUME IInv, Around
  PROVE  PodMoves /\ PodOwned /\ SecretMoves
<1>1. objs \in [Kind -> Owner \cup {None}] /\ "Pod" \in Kind /\ "Secret" \in Kind /\ "Pod" # "Secret"
  BY OrderFacts DEF IInv, TypeOK
<1>2. None \notin Uid /\ ForeignOwner # None
  BY NoneFacts DEF Owner
<1>3. CASE UNCHANGED <<objs, pod>>
  BY <1>3 DEF PodMoves, PodOwned, SecretMoves
<1>4. ASSUME NEW k \in Kind, Created(k), Live(mem.uid),
             UNCHANGED <<api, stored, born, objsSeen, podSeen>>
      PROVE  PodMoves /\ PodOwned /\ SecretMoves
  <2>1. mem.uid \in Uid
    BY <1>4 DEF Live, IInv, TypeOK, Session
  <2>2. /\ objs[k] = None /\ objs' = [objs EXCEPT ![k] = mem.uid]
        /\ pod' = IF k = "Pod" THEN "NotReady" ELSE pod
    BY <1>4 DEF Created
  <2>3. PodMoves /\ PodOwned
    BY <1>1, <1>2, <1>4, <2>1, <2>2, SMTT(40) DEF PodMoves, PodOwned
  <2>4. SecretMoves
    BY <1>1, <1>2, <1>4, <2>1, <2>2, SMTT(40) DEF SecretMoves
  <2> QED
    BY <2>3, <2>4, SMTT(40)
<1>5. ASSUME NEW k \in Kind, ForeignCreate(k)
      PROVE  PodMoves /\ PodOwned /\ SecretMoves
  <2>1. "foreign" \in scenario'.met
    BY <1>5, SMTT(40) DEF ForeignCreate, Spend, IInv, TypeOK, Scenario
  <2>2. /\ objs[k] = None /\ objs' = [objs EXCEPT ![k] = ForeignOwner]
        /\ pod' = IF k = "Pod" THEN "NotReady" ELSE pod
        /\ UNCHANGED <<api, born>>
    BY <1>5 DEF ForeignCreate, store
  <2>3. PodMoves /\ PodOwned
    BY <1>1, <1>2, <2>1, <2>2 DEF PodMoves, PodOwned
  <2>4. SecretMoves
    BY <1>1, <1>2, <2>2, SMTT(40) DEF SecretMoves
  <2> QED
    BY <2>3, <2>4
<1>6. ASSUME NEW k \in Kind, CollectGarbage(k)
      PROVE  PodMoves /\ PodOwned /\ SecretMoves
  BY <1>1, <1>6 DEF CollectGarbage, Orphan, store, PodMoves, PodOwned, SecretMoves
<1>7. CASE DeletePod
  BY <1>7 DEF DeletePod, PodTurns, PodMoves, PodOwned, SecretMoves
<1>8. CASE PodGone
  BY <1>1, <1>2, <1>8 DEF PodGone, PodMoves, PodOwned, SecretMoves
<1> QED
  BY <1>3, <1>4, <1>5, <1>6, <1>7, <1>8, ChildSteps, SMTT(40)

-----------------------------------------------------------------------------
(***************************************************************************)
(* The invariant                                                           *)
(***************************************************************************)

\* The pod keeps its type and its status when the others move.
LEMMA FollowsShape ==
  ASSUME IInv, PodTypeOK, StatusAgrees, Around, Follows
  PROVE  PodTypeOK' /\ StatusAgrees'
<1>1. PodMoves
  BY ChildFacts
<1>2. pairs \in Nat /\ pairs' \in Nat /\ pairs <= pairs'
  BY DEF PodTypeOK, Follows
<1>3. CASE objs'["Pod"] = objs["Pod"]
  <2>1. UNCHANGED <<init, containers, vmKey, terminalKey, served>> /\ pod' \in {pod, "Deleting"}
    BY <1>1, <1>3 DEF Follows, PodMoves
  <2>2. PodTypeOK'
    BY <1>2, <2>1 DEF PodTypeOK
  <2>3. StatusAgrees'
    BY <1>3, <2>1 DEF StatusAgrees, Alive, StatusOf
  <2> QED
    BY <2>2, <2>3
<1>4. CASE objs'["Pod"] # objs["Pod"]
  <2>1. FreshPod /\ UNCHANGED served /\ pod' = "NotReady"
    BY <1>1, <1>4 DEF Follows, PodMoves
  <2>2. PodTypeOK'
    BY <1>2, <2>1 DEF PodTypeOK, FreshPod, ContainerState
  <2>3. containers' = [c \in Container |-> "waiting"]
    BY <2>1 DEF FreshPod
  <2>4. StatusOf(containers') = "NotReady"
    BY <2>3, FreshStatus
  <2>5. StatusAgrees'
    BY <2>1, <2>4 DEF StatusAgrees
  <2> QED
    BY <2>2, <2>5
<1> QED
  BY <1>3, <1>4

\* The Secret of the first session is stored once, and nobody collects it.
LEMMA FollowsKey ==
  ASSUME IInv, PodTypeOK, OneKey, Around, Follows
  PROVE  OneKey'
<1> SUFFICES ASSUME born' <= 1, born' = 1 => api' # None
             PROVE  \/ pairs' = 0 /\ objs'["Secret"] = None
                    \/ pairs' = 1 /\ objs'["Secret"] \in {ForeignOwner, born'}
  BY DEF OneKey
<1>1. pairs' = IF objs["Secret"] = None /\ objs'["Secret"] # None THEN pairs + 1 ELSE pairs
  BY DEF Follows, KeyStored
<1>2. born \in Nat
  BY BornFacts DEF IInv
<1>3. CASE UserCreate
  <2>1. objs' = objs /\ born' = born + 1
    BY <1>3 DEF UserCreate, children
  <2>2. born = 0
    BY <1>2, <2>1, SMTT(40)
  <2> QED
    BY <1>1, <2>1, <2>2 DEF OneKey, ForeignOwner
<1>4. CASE ~UserCreate
  <2>1. born' = born /\ (born = 1 => api # None)
    BY <1>4, AroundIsNext, BornKept, NoRevival, SMTT(40)
  <2>2. \/ pairs = 0 /\ objs["Secret"] = None
        \/ pairs = 1 /\ objs["Secret"] \in {ForeignOwner, born}
    BY <2>1 DEF OneKey
  <2>3. CASE objs'["Secret"] = objs["Secret"]
    BY <1>1, <2>1, <2>2, <2>3, SMTT(40)
  <2>4. CASE /\ UNCHANGED <<api, born>>
             /\ objs["Secret"] = None /\ objs'["Secret"] # None
             /\ \/ objs'["Secret"] = ForeignOwner
                \/ objs'["Secret"] \in Uid /\ Live(objs'["Secret"])
    <3>1. pairs = 0
      <4>1. None # ForeignOwner /\ None # born
        BY <1>2, ConstantsAssumption, SMTT(40) DEF ForeignOwner
      <4> QED
        BY <2>2, <2>4, <4>1
    <3>2. objs'["Secret"] \in {ForeignOwner, born}
      BY <2>4, ZenonT(40) DEF Live, IInv, StoreInv
    <3> QED
      BY <1>1, <2>1, <2>4, <3>1, <3>2, SMTT(40)
  <2>5. CASE UNCHANGED <<api, born>> /\ objs["Secret"] \in Uid /\ ~Live(objs["Secret"])
    <3>1. objs["Secret"] # None /\ objs["Secret"] # ForeignOwner
      BY <2>5, NoneFacts, SMTT(40) DEF Uid, ForeignOwner
    <3>2. objs["Secret"] = born /\ born \in Uid
      BY <2>2, <2>5, <3>1
    <3>3. born = 1
      BY <1>2, <2>1, <3>2, SMTT(40) DEF Uid
    <3>4. Live(born)
      BY <2>1, <3>3, ZenonT(40) DEF Live, IInv, StoreInv
    <3> QED
      BY <2>5, <3>2, <3>4, SMTT(40)
  <2> QED
    BY <2>3, <2>4, <2>5, ChildFacts, SMTT(40) DEF SecretMoves
<1> QED
  BY <1>3, <1>4

\* What is ready was served, when the others move.
LEMMA FollowsReady ==
  ASSUME IInv, ReadyWasServed, Around, Follows
  PROVE  ReadyWasServed'
<1>1. served' = served /\ PodMoves /\ PodOwned
  BY ChildFacts, SMTT(40) DEF Follows
<1>2. objs'["Pod"] # None /\ pod' = "Ready" => objs'["Pod"] \in served'
  BY <1>1 DEF PodMoves, ReadyWasServed
<1>3. \/ objsSeen'["Pod"] = objsSeen["Pod"] /\ podSeen' = podSeen
      \/ objsSeen'["Pod"] = objs["Pod"] /\ podSeen' = pod
  BY AroundIsNext, SeenMoves DEF IInv
<1>4. objsSeen'["Pod"] # None /\ podSeen' = "Ready" => objsSeen'["Pod"] \in served'
  BY <1>1, <1>3 DEF ReadyWasServed
<1>5. ASSUME born' <= 1, "foreign" \notin scenario'.met
      PROVE  /\ objs'["Pod"] \in {None, 1} /\ objsSeen'["Pod"] \in {None, 1}
             /\ <<1, "Running">> \in stored' => 1 \in served'
  <2>1. born \in Nat /\ born <= 1
    <3>1. born \in Nat
      BY BornFacts DEF IInv
    <3>2. CASE UserCreate
      <4>1. born' = born + 1
        BY <3>2 DEF UserCreate
      <4> QED
        BY <1>5, <3>1, <4>1
    <3>3. CASE ~UserCreate
      BY <1>5, <3>1, <3>3, AroundIsNext, BornKept, SMTT(40)
    <3> QED
      BY <3>1, <3>2, <3>3
  <2>2. "foreign" \notin scenario.met
    BY <1>5, AroundIsNext, MetGrows, SMTT(40) DEF IInv
  <2>3. /\ objs["Pod"] \in {None, 1} /\ objsSeen["Pod"] \in {None, 1}
        /\ <<1, "Running">> \in stored => 1 \in served
    BY <2>1, <2>2 DEF ReadyWasServed
  <2>4. ASSUME objs'["Pod"] \in Uid, Live(objs'["Pod"]) PROVE objs'["Pod"] = 1
    <3>1. objs'["Pod"] = born
      BY <2>4, ZenonT(40) DEF Live, IInv, StoreInv
    <3> QED
      BY <2>1, <2>4, <3>1, SMTT(40) DEF Uid
  <2>5. objs'["Pod"] \in {None, 1}
    BY <1>1, <1>5, <2>3, <2>4, SMTT(40) DEF PodOwned
  <2>6. objsSeen'["Pod"] \in {None, 1}
    BY <1>3, <2>3, SMTT(40)
  <2>7. ASSUME <<1, "Running">> \in stored', <<1, "Running">> \notin stored PROVE 1 \in served
    <3>1. 1 \in Uid
      BY <2>7, InvNext, AroundIsNext, SMTT(40) DEF IInv, TypeOK
    <3>2. PodInCache /\ podSeen = "Ready"
      BY <2>7, <3>1, AroundIsNext, NewlyRunning
    <3> QED
      BY <2>3, <3>2, SMTT(40) DEF PodInCache, ReadyWasServed
  <2> QED
    BY <1>1, <2>3, <2>5, <2>6, <2>7, SMTT(40)
<1> QED
  BY <1>2, <1>4, <1>5, SMTT(40) DEF ReadyWasServed

PInv == IInv /\ PodInv

LEMMA PodInvInit == PodInit => PInv
<1> SUFFICES ASSUME PodInit PROVE PInv
  OBVIOUS
<1>1. IInv
  BY InvInit, SMTT(40) DEF PodInit
<1>2. /\ objs = [k \in Kind |-> None] /\ objsSeen = [k \in Watched |-> None]
      /\ pod = "NotReady" /\ podSeen = "NotReady" /\ stored = {} /\ born = 0
  BY DEF PodInit, Init
<1>3. objs["Pod"] = None /\ objs["Secret"] = None /\ objsSeen["Pod"] = None
  BY <1>2, OrderFacts DEF Watched
<1>4. PodTypeOK
  BY SMTT(40) DEF PodInit, PodTypeOK, ContainerState
<1>5. StatusAgrees /\ OneKey /\ ReadyWasServed
  BY <1>2, <1>3 DEF PodInit, StatusAgrees, Alive, OneKey, ReadyWasServed
<1> QED
  BY <1>1, <1>4, <1>5 DEF PInv, PodInv

\* A step of the pod, of the reconciler or of the cluster is one the
\* reconciler's specification allows.
LEMMA PodStep == PInv /\ [PodNext]_podVars => [Next]_vars
<1>1. ASSUME PInv, KubeletNext PROVE [Next]_vars
  <2>1. PodChange
    BY <1>1, KubeletStep DEF PInv, IInv, PodInv
  <2> QED
    BY <2>1 DEF PodChange, Next, EnvironmentNext
<1>2. Around => [Next]_vars
  BY AroundIsNext
<1>3. UNCHANGED podVars => UNCHANGED vars
  BY DEF podVars
<1> QED
  BY <1>1, <1>2, <1>3 DEF PodNext, Around

LEMMA PodInvNext == PInv /\ [PodNext]_podVars => PInv'
<1> SUFFICES ASSUME PInv, [PodNext]_podVars PROVE PInv'
  OBVIOUS
<1>1. IInv /\ IInv' /\ PodTypeOK /\ StatusAgrees /\ OneKey /\ ReadyWasServed
  BY PodStep, InvNext, SMTT(40) DEF PInv, PodInv
<1>2. CASE Around /\ Follows
  <2>1. PodTypeOK' /\ StatusAgrees' /\ OneKey' /\ ReadyWasServed'
    BY <1>1, <1>2, FollowsShape, FollowsKey, FollowsReady, SMTT(40)
  <2> QED
    BY <1>1, <2>1 DEF PInv, PodInv
<1>3. CASE KubeletNext
  <2>1. /\ PodChange /\ PodTypeOK' /\ StatusAgrees'
        /\ pod' = "Ready" => objs["Pod"] \in served' \/ pod = "Ready"
        /\ served \subseteq served'
        /\ UNCHANGED <<objs, api, stored, born, objsSeen, podSeen, pairs>>
    BY <1>1, <1>3, KubeletStep, SMTT(40) DEF IInv
  <2>2. scenario.met \subseteq scenario'.met
    <3>1. UNCHANGED vars \/ Next
      BY <2>1 DEF PodChange, Next, EnvironmentNext
    <3>2. UNCHANGED vars => UNCHANGED scenario
      BY DEF vars
    <3> QED
      BY <1>1, <3>1, <3>2, MetGrows, SMTT(40) DEF IInv
  <2>3. OneKey'
    BY <1>1, <2>1, SMTT(40) DEF OneKey
  <2>4. ReadyWasServed'
    BY <1>1, <2>1, <2>2 DEF ReadyWasServed
  <2> QED
    BY <1>1, <2>1, <2>3, <2>4, SMTT(40) DEF PInv, PodInv
<1>4. CASE UNCHANGED podVars
  <2>1. UNCHANGED vars /\ UNCHANGED kubelet
    BY <1>4, SMTT(40) DEF podVars
  <2>2. PodTypeOK' /\ StatusAgrees'
    BY <1>1, <2>1, SMTT(40) DEF vars, kubelet, PodTypeOK, StatusAgrees, Alive, StatusOf
  <2>3. OneKey' /\ ReadyWasServed'
    BY <1>1, <2>1 DEF vars, kubelet, OneKey, ReadyWasServed
  <2> QED
    BY <1>1, <2>2, <2>3 DEF PInv, PodInv
<1> QED
  BY <1>2, <1>3, <1>4 DEF PodNext, Around

-----------------------------------------------------------------------------
(***************************************************************************)
(* Theorems                                                                *)
(***************************************************************************)

\* The invariant of the reconciler holds with the pod in it, and the pod's own.
THEOREM PodInductiveInvariant == PodSpec => []PInv
  BY PodInvInit, PodInvNext, PTL DEF PodSpec

\* The pod's containers are in states a kubelet reports, and the keys in the VM
\* and the terminal are keys that EnsureSSHKeySecret generated.
THEOREM PodTypeCorrect == PodSpec => []PodTypeOK
<1>1. PInv => PodTypeOK
  BY DEF PInv, PodInv
<1> QED
  BY <1>1, PodInductiveInvariant, PTL

\* The pod BuildPod describes is the pod the reconciler was checked with: every
\* behaviour of the two together is one of LabSessionReconciler.
THEOREM PodImplementsReconciler == PodSpec => ImplementsReconciler
<1>1. PodInit => Init
  BY DEF PodInit
<1> QED
  BY <1>1, PodStep, PodInductiveInvariant, PTL DEF PodSpec, ImplementsReconciler, Spec

\* In the first session under a name the terminal has the key the VM trusts:
\* EnsureSSHKeySecret keeps the Secret it finds, and nobody else deletes it.
THEOREM FirstSessionOpensVM == PodSpec => []FirstTerminalOpensVM
<1>1. PInv => FirstTerminalOpensVM
  <2> SUFFICES ASSUME PInv, born = 1, Live(objs["Pod"]), vmKey # 0, terminalKey # 0
               PROVE  vmKey = terminalKey
    BY DEF FirstTerminalOpensVM, TerminalOpensVM
  <2>1. pairs \in {0, 1}
    BY DEF PInv, PodInv, OneKey, Live
  <2>2. vmKey \in 0 .. pairs /\ terminalKey \in 0 .. pairs
    BY SMTT(40) DEF PInv, PodInv, PodTypeOK
  <2> QED
    BY <2>1, <2>2
<1> QED
  BY <1>1, PodInductiveInvariant, PTL

\* A session is Running only after its pod served the lab, though
\* reconcileCreating read that pod from the cache.
THEOREM RunningSessionsWereServed == PodSpec => []RunningWasServed
<1>1. PInv => RunningWasServed
  <2> SUFFICES ASSUME PInv, born = 1, "foreign" \notin scenario.met, <<1, "Running">> \in stored
               PROVE  1 \in served
    BY DEF RunningWasServed, Spared
  <2> QED
    BY DEF PInv, PodInv, ReadyWasServed
<1> QED
  BY <1>1, PodInductiveInvariant, PTL

=================================================================================
