-------------------------------- MODULE LabPod --------------------------------
(***************************************************************************)
(* The pod BuildPod describes, run by a kubelet beside the reconciler.     *)
(*                                                                         *)
(* LabSessionReconciler lets the pod's status change as it likes.  Here it *)
(* follows from the pod: two init containers, of which init-rootfs writes  *)
(* the public half of the session's SSH key into the VM's disk; then the   *)
(* VM and its sidecars, which are never restarted, and of which the        *)
(* terminal needs the private half.  Both halves are read from the Secret  *)
(* when the container starts, and the Secret may change in between.        *)
(***************************************************************************)
EXTENDS LabSessionReconciler

CONSTANT Container  \* the containers of the pod; sidecars like another may be left out

VARIABLES
  init,         \* the init container that runs, or "waiting" or "done"
  containers,   \* state of each container of the stored pod
  pairs,        \* how many key pairs were ever stored in the session's Secret
  vmKey,        \* the pair whose public half the VM trusts, or 0
  terminalKey,  \* the pair whose private half the terminal has, or 0
  served        \* owners of pods all of whose containers once answered together

kubelet == <<init, containers, pairs, vmKey, terminalKey, served>>
podVars == <<vars, kubelet>>

BuiltContainers == {"firecracker-vm", "terminal-sidecar", "code-server"}

ContainerState == {"waiting", "starting", "serving", "failing", "stopped"}

ASSUME ContainerAssumption ==
  {"firecracker-vm", "terminal-sidecar"} \subseteq Container /\ Container \subseteq BuiltContainers

PodTypeOK ==
  /\ init \in {"waiting", "init-rootfs", "network-setup", "done"}
  /\ containers \in [Container -> ContainerState]
  /\ pairs \in Nat
  /\ vmKey \in 0 .. pairs
  /\ terminalKey \in 0 .. pairs
  /\ served \subseteq Owner

-----------------------------------------------------------------------------
(***************************************************************************)
(* What the API server stores                                              *)
(***************************************************************************)

\* BuildPod, with nothing started yet.
FreshPod ==
  /\ init' = "waiting"
  /\ containers' = [c \in Container |-> "waiting"]
  /\ vmKey' = 0 /\ terminalKey' = 0

\* Mutant of KeyStored: EnsureSSHKeySecret updates a Secret that exists.
KeyOverwritten ==
  \/ objs["Secret"] = None /\ objs'["Secret"] # None
  \/ pc = "ensure" /\ Order[step] = "Secret" /\ pc' = pc /\ step' # step

\* A Secret is stored, with the pair BuildSSHKeySecret has just generated: one
\* that exists is never touched.
KeyStored == objs["Secret"] = None /\ objs'["Secret"] # None

\* What a step of the reconciler, the user or the cluster means for the pod.
\* (A foreign object with the pod's or the Secret's name is taken to be like
\* the session's own.)
Follows ==
  /\ pairs' = IF KeyStored THEN pairs + 1 ELSE pairs
  /\ IF objs'["Pod"] = objs["Pod"] THEN UNCHANGED <<init, containers, vmKey, terminalKey>>
                                   ELSE FreshPod
  /\ UNCHANGED served

\* Somebody deletes the pod.
DeletePod ==
  /\ PodTurns({"NotReady", "Ready", "Exited"}, "Deleting")
  /\ Spend("podLoss")

ClusterNext ==
  \/ UserCreate \/ UserDelete \/ UserEdit \/ Tick \/ Crash
  \/ DeletePod \/ PodGone \/ BrokerFails \/ BrokerRecovers \/ BrokerTakes
  \/ \E k \in Kind : ForeignCreate(k) \/ CollectGarbage(k)

-----------------------------------------------------------------------------
(***************************************************************************)
(* The kubelet                                                             *)
(***************************************************************************)

\* The kubelet works on the stored pod until it ends or is deleted.
Alive == objs["Pod"] # None /\ pod \notin {"Finished", "Deleting"}

\* Mutant of StatusOf: isPodReady only looks at the phase.
StatusOfPhase(cs) ==
  IF \A c \in Container : cs[c] = "stopped" THEN "Finished"
  ELSE IF \E c \in Container : cs[c] = "stopped" THEN "Exited"
  ELSE IF \A c \in Container : cs[c] # "waiting" THEN "Ready"
  ELSE "NotReady"

\* What podTerminalReason and isPodReady tell apart: the pod's phase, its
\* container states and its Ready condition.
StatusOf(cs) ==
  IF \A c \in Container : cs[c] = "stopped" THEN "Finished"
  ELSE IF \E c \in Container : cs[c] = "stopped" THEN "Exited"
  ELSE IF \A c \in Container : cs[c] = "serving" THEN "Ready"
  ELSE "NotReady"

\* The kubelet reports the pod's status.  That the pod gets unready, loses a
\* container or ends is a disturbance.
Report(status) ==
  /\ pod' = status
  /\ IF status \in {pod, "Ready"} THEN UNCHANGED scenario
     ELSE Spend(IF status = "NotReady" THEN "unready" ELSE "podLoss")
  /\ UNCHANGED <<objs, now, born, store, queued, informers, worker, broker, pairs>>

\* A container whose environment names the Secret waits until there is one.
HasSecret == objs["Secret"] # None

\* Mutant of StartInit: the VM gets a key pair of its own.
StartInitOwnKey ==
  /\ Alive /\ init = "waiting"
  /\ init' = "init-rootfs" /\ vmKey' = pairs + 1
  /\ Report(pod)
  /\ UNCHANGED <<containers, terminalKey, served>>

\* init-rootfs starts, with the public key.
StartInit ==
  /\ Alive /\ init = "waiting" /\ HasSecret
  /\ init' = "init-rootfs" /\ vmKey' = pairs
  /\ Report(pod)
  /\ UNCHANGED <<containers, terminalKey, served>>

\* network-setup runs after init-rootfs, and the containers after both.
EndInit ==
  /\ Alive
  /\ \/ init = "init-rootfs" /\ init' = "network-setup"
     \/ init = "network-setup" /\ init' = "done"
  /\ Report(pod)
  /\ UNCHANGED <<containers, vmKey, terminalKey, served>>

\* An init container that fails is not run again: the pod's phase is Failed.
FailInit ==
  /\ Alive /\ init \in {"init-rootfs", "network-setup"}
  /\ Report("Finished")
  /\ UNCHANGED <<init, containers, vmKey, terminalKey, served>>

\* Mutant of Startable: RestartPolicyAlways.
StartableAlways == {"waiting", "stopped"}

\* RestartPolicyNever: a container that stopped is not started again.
Startable == {"waiting"}

Turn(c, state) ==
  LET cs == [containers EXCEPT ![c] = state]
  IN /\ containers' = cs
     /\ Report(StatusOf(cs))
     /\ served' = IF \A d \in Container : cs[d] = "serving" THEN served \cup {objs["Pod"]}
                                                           ELSE served
     /\ UNCHANGED <<init, vmKey>>

Start(c) ==
  /\ Alive /\ init = "done" /\ containers[c] \in Startable
  /\ c = "terminal-sidecar" => HasSecret
  /\ Turn(c, "starting")
  /\ terminalKey' = IF c = "terminal-sidecar" THEN pairs ELSE terminalKey

\* The startup probe is answered for the first time, and with it the readiness
\* probe; or the readiness probe is answered again.
ProbeAnswered(c) ==
  /\ Alive /\ containers[c] \in {"starting", "failing"}
  /\ Turn(c, "serving")
  /\ UNCHANGED terminalKey

\* The readiness probe fails.
ProbeFails(c) ==
  /\ Alive /\ containers[c] = "serving"
  /\ Turn(c, "failing")
  /\ UNCHANGED terminalKey

\* The container exits, or the kubelet kills it: the startup probe was not
\* answered within startupProbeBudgetSeconds, or the liveness probe fails.
Stop(c) ==
  /\ Alive /\ containers[c] \in {"starting", "serving", "failing"}
  /\ Turn(c, "stopped")
  /\ UNCHANGED terminalKey

KubeletNext ==
  \/ StartInit \/ EndInit \/ FailInit
  \/ \E c \in Container : Start(c) \/ ProbeAnswered(c) \/ ProbeFails(c) \/ Stop(c)

PodInit ==
  /\ Init
  /\ init = "waiting" /\ containers = [c \in Container |-> "waiting"]
  /\ pairs = 0 /\ vmKey = 0 /\ terminalKey = 0
  /\ served = {}

PodNext == (ControllerNext /\ Follows) \/ (ClusterNext /\ Follows) \/ KubeletNext

PodSpec == PodInit /\ [][PodNext]_podVars

-----------------------------------------------------------------------------
(***************************************************************************)
(* Properties                                                              *)
(***************************************************************************)

\* The pod does only what the reconciler was checked with: RestartPolicyNever
\* and the statuses podTerminalReason and isPodReady read off the containers
\* make a stopped pod stay stopped ("a terminated pod or container is final"),
\* whatever the init containers, the probes and the Secret do.
ImplementsReconciler == Spec

\* ssh_keys.go: the public half of the session's pair goes to init-rootfs and
\* the private half to the terminal, so the terminal can log into the VM.
TerminalOpensVM ==
  objs["Pod"] # None /\ Live(objs["Pod"]) /\ vmKey # 0 /\ terminalKey # 0
    => vmKey = terminalKey

\* It can in the first session under the name: though each half is read at
\* another time, and reconcileCreating calls EnsureSSHKeySecret again and
\* again, the Secret is the same one.
FirstTerminalOpensVM == born = 1 => TerminalOpensVM

\* A session becomes Running only after all containers of a pod of its own
\* answered their probes at once, though reconcileCreating reads the pod from
\* the cache and takes a pod that it could not create as its own.
RunningWasServed ==
  Spared({"foreign"}) /\ <<1, "Running">> \in stored => 1 \in served

-----------------------------------------------------------------------------
(***************************************************************************)
(* Why they hold: with LabSessionReconciler's invariant, these make an     *)
(* inductive invariant.                                                    *)
(***************************************************************************)

\* The stored status is that of the containers until the pod ends.
StatusAgrees == Alive => pod = StatusOf(containers)

\* While the first session is there, or none was made yet, at most one Secret
\* was stored, and it is still there.
OneKey ==
  born <= 1 /\ (born = 1 => api # None) =>
    \/ pairs = 0 /\ objs["Secret"] = None
    \/ pairs = 1 /\ objs["Secret"] \in {ForeignOwner, born}

\* A pod that is ready, or is so in the cache, was served; and it is the first
\* session's if there is no other.
ReadyWasServed ==
  /\ objs["Pod"] # None /\ pod = "Ready" => objs["Pod"] \in served
  /\ objsSeen["Pod"] # None /\ podSeen = "Ready" => objsSeen["Pod"] \in served
  /\ born <= 1 /\ "foreign" \notin scenario.met =>
       /\ objs["Pod"] \in {None, 1} /\ objsSeen["Pod"] \in {None, 1}
       /\ <<1, "Running">> \in stored => 1 \in served

PodInv == PodTypeOK /\ StatusAgrees /\ OneKey /\ ReadyWasServed

===============================================================================
