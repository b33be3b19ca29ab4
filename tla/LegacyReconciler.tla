---------------------------- MODULE LegacyReconciler ----------------------------
(***************************************************************************)
(* controllers/: the older LabSessionReconciler, which main.go at the root *)
(* of the repository runs.  One LabSession, the worker that reconciles it, *)
(* the objects it owns and the controller's cache of them.                 *)
(*                                                                         *)
(* The session is unstructured, so the client reads it from the API        *)
(* server; pods, services and claims are typed and come from the cache,    *)
(* which lags.  Every API call is a step.  updateStatus reads the session  *)
(* again and retries, refreshed, on a conflict, so it writes the status of *)
(* whatever is stored then, or gives up; its callers ignore which.         *)
(***************************************************************************)
EXTENDS Integers

CONSTANTS
  None,
  MaxFaults    \* bound: API calls that fail for good and edits by others

VARIABLES
  session,   \* the LabSession in the API server, or None
  objects,   \* kinds of objects that exist
  pod,       \* status.phase of the pod, Pending while there is none
  cache,     \* kinds of objects in the cache
  cachedPod, \* the same in the cache
  pc,        \* the worker's next API call
  current,   \* the session the worker has read is still the stored version
  read,      \* status.phase of the pod it has read or made
  stamped,   \* status.lastUpdateTime is of the present second
  faults     \* what remains of MaxFaults

worker == <<pc, current, read>>
cluster == <<objects, pod, cache, cachedPod>>
vars == <<session, stamped, cluster, worker, faults>>

\* The objects in the order in which they are made; the Secret is made with
\* the pod.
Kind == {"vmData", "vscodeData", "secret", "pod", "service"}

Phase == {"", "Creating", "Running", "Failed", "Terminating"}
PodPhase == {"Pending", "Running", "Succeeded", "Failed"}

\* finalizer: LabSessionFinalizer; foreground: the garbage collector's own
\* finalizer, for a deletion that takes the owned objects first.
Session == [phase : Phase, finalizer : BOOLEAN, deleting : BOOLEAN, foreground : BOOLEAN]

Stage == {"idle", "finalizer", "creating", "vmData", "vscodeData", "pod", "makePod",
          "service", "status", "failing", "terminating", "verifyPod", "verifyService",
          "remove"}

ASSUME LegacyAssumption == MaxFaults \in Nat /\ None \notin Session

TypeOK ==
  /\ session \in Session \cup {None}
  /\ objects \subseteq Kind /\ cache \subseteq Kind
  /\ pod \in PodPhase /\ cachedPod \in PodPhase /\ read \in PodPhase
  /\ pc \in Stage
  /\ current \in BOOLEAN /\ stamped \in BOOLEAN
  /\ faults \in 0 .. MaxFaults

Init ==
  /\ session = [phase |-> "", finalizer |-> FALSE, deleting |-> FALSE, foreground |-> FALSE]
  /\ objects = {} /\ cache = {}
  /\ pod = "Pending" /\ cachedPod = "Pending" /\ read = "Pending"
  /\ pc = "idle"
  /\ current = FALSE /\ stamped = FALSE
  /\ faults = MaxFaults

-----------------------------------------------------------------------------
(***************************************************************************)
(* The worker                                                              *)
(***************************************************************************)

Goto(stage) == pc' = stage /\ UNCHANGED cluster

\* An API call fails for good, retries included.
Fault == faults > 0 /\ faults' = faults - 1

\* A session without a finalizer left is gone when it is being deleted.
Stored(s) == IF s.deleting /\ ~s.finalizer /\ ~s.foreground THEN None ELSE s

\* updateStatus(phase): the status is replaced, whoever has changed the session
\* since it was read.  The same status in the same second is no change: this
\* matters to reconcileDelete only, whose status has no other field.
UpdateStatus(phase) ==
  IF session # None /\ ~(session.phase = phase /\ stamped)
  THEN /\ session' = [session EXCEPT !.phase = phase]
       /\ stamped' = TRUE
       /\ current' = FALSE
  ELSE UNCHANGED <<session, stamped, current>>

\* updateStatus with its result ignored: done or given up.
TryStatus(phase) ==
  \/ UpdateStatus(phase) /\ UNCHANGED faults
  \/ Fault /\ UNCHANGED <<session, stamped, current>>

\* Mutant of Reconcile: the finalizer is not added.
ReconcileWithoutFinalizer ==
  /\ pc = "idle" /\ session # None
  /\ current' = TRUE
  /\ Goto(IF session.deleting THEN "terminating"
          ELSE IF session.phase = "" THEN "creating"
          ELSE "vmData")
  /\ UNCHANGED <<session, stamped, read, faults>>

\* Mutant of Reconcile: a session that has failed is left alone.
ReconcileFailedOnce ==
  /\ pc = "idle" /\ session # None
  /\ session.phase # "Failed"
  /\ current' = TRUE
  /\ Goto(IF session.deleting THEN "terminating"
          ELSE IF ~session.finalizer THEN "finalizer"
          ELSE IF session.phase = "" THEN "creating"
          ELSE "vmData")
  /\ UNCHANGED <<session, stamped, read, faults>>

\* Reconcile: the session is read, and its state decides.  A read that fails
\* for good is one more reconcile.
Reconcile ==
  /\ pc = "idle" /\ session # None
  /\ current' = TRUE
  /\ Goto(IF session.deleting THEN "terminating"
          ELSE IF ~session.finalizer THEN "finalizer"
          ELSE IF session.phase = "" THEN "creating"
          ELSE "vmData")
  /\ UNCHANGED <<session, stamped, read, faults>>

AddFinalizer ==
  /\ pc = "finalizer"
  /\ \/ /\ current
        /\ session' = [session EXCEPT !.finalizer = TRUE]
        /\ current' = FALSE
        /\ UNCHANGED faults
     \/ ~current /\ UNCHANGED <<session, current, faults>>
     \/ Fault /\ UNCHANGED <<session, current>>
  /\ Goto("idle")
  /\ UNCHANGED <<stamped, read>>

\* reconcileLabSession, first step.
StartCreating ==
  /\ pc = "creating"
  /\ TryStatus("Creating")
  /\ Goto("vmData")
  /\ UNCHANGED read

\* Create of an object: made; refused because it exists, which is an error to
\* the caller unless it puts up with it; or failed, perhaps after it was made.
Create(kind, next, tolerant) ==
  /\ \/ /\ kind \notin objects
        /\ objects' = objects \cup {kind}
        /\ pod' = IF kind = "pod" THEN "Pending" ELSE pod
        /\ pc' = next
        /\ UNCHANGED faults
     \/ /\ kind \in objects
        /\ pc' = IF tolerant THEN next ELSE "failing"
        /\ UNCHANGED <<objects, pod, faults>>
     \/ /\ Fault /\ pc' = "failing"
        /\ objects' \in {objects, objects \cup {kind}}
        /\ pod' = IF kind = "pod" /\ kind \notin objects THEN "Pending" ELSE pod
  /\ UNCHANGED <<cache, cachedPod>>

\* reconcilePVCs, one claim, and reconcileService.
EnsureObject(kind, next) ==
  /\ pc = kind
  /\ \/ kind \in cache /\ Goto(next) /\ UNCHANGED faults
     \/ kind \notin cache /\ Create(kind, next, FALSE)
  /\ UNCHANGED <<session, stamped, current, read>>

\* reconcilePod: the pod of the cache, or else first the Secret ...
ReconcilePod ==
  /\ pc = "pod"
  /\ \/ "pod" \in cache /\ read' = cachedPod /\ Goto("service") /\ UNCHANGED faults
     \/ "pod" \notin cache /\ Create("secret", "makePod", TRUE) /\ UNCHANGED read
  /\ UNCHANGED <<session, stamped, current>>

\* ... and then the pod.
MakePod ==
  /\ pc = "makePod"
  /\ Create("pod", "service", FALSE)
  /\ read' = "Pending"
  /\ UNCHANGED <<session, stamped, current>>

\* Mutant of UpdateLabSessionStatus: the session gets the phase of the pod.
CopyPodPhase ==
  /\ pc = "status"
  /\ TryStatus(read)
  /\ Goto("idle")
  /\ read' = "Pending"

\* updateLabSessionStatus: a pod that is neither Running nor Failed, one that
\* has Succeeded included, leaves the session Creating.
UpdateLabSessionStatus ==
  /\ pc = "status"
  /\ TryStatus(IF read \in {"Running", "Failed"} THEN read ELSE "Creating")
  /\ Goto("idle")
  /\ read' = "Pending"

\* An error of a step of reconcileLabSession: the session is Failed until the
\* next reconcile.
ReportFailure ==
  /\ pc = "failing"
  /\ TryStatus("Failed")
  /\ Goto("idle")
  /\ read' = "Pending"
-----------------------------------------------------------------------------
(***************************************************************************)
(* reconcileDelete                                                         *)
(***************************************************************************)

Terminate ==
  /\ pc = "terminating"
  /\ TryStatus("Terminating")
  /\ Goto("verifyPod")
  /\ UNCHANGED read

\* Mutant of Verify: a session whose objects are left is reconciled on.
VerifyFallsThrough(stage, kind, next) ==
  /\ pc = stage
  /\ Goto(IF kind \in cache THEN "vmData" ELSE next)
  /\ UNCHANGED <<session, stamped, current, read, faults>>

\* verifyResourcesDeleted, one object; an object that is left ends the
\* reconcile, to be repeated.
Verify(stage, kind, next) ==
  /\ pc = stage
  /\ Goto(IF kind \in cache THEN "idle" ELSE next)
  /\ UNCHANGED <<session, stamped, current, read, faults>>

\* updateWithRetry sends the session that was read, again and again: a
\* conflict stays one, and the pauses between the attempts outlast the second.
RemoveFinalizer ==
  /\ pc = "remove"
  /\ \/ /\ current
        /\ session' = Stored([session EXCEPT !.finalizer = FALSE])
        /\ current' = FALSE
        /\ UNCHANGED <<stamped, faults>>
     \/ ~current /\ stamped' = FALSE /\ UNCHANGED <<session, current, faults>>
     \/ Fault /\ stamped' = FALSE /\ UNCHANGED <<session, current>>
  /\ Goto("idle")
  /\ UNCHANGED read

WorkerStep ==
  \/ Reconcile \/ AddFinalizer \/ StartCreating
  \/ EnsureObject("vmData", "vscodeData") \/ EnsureObject("vscodeData", "pod")
  \/ ReconcilePod \/ MakePod
  \/ EnsureObject("service", "status")
  \/ UpdateLabSessionStatus \/ ReportFailure
  \/ Terminate
  \/ Verify("verifyPod", "pod", "verifyService") \/ Verify("verifyService", "service", "remove")
  \/ RemoveFinalizer

-----------------------------------------------------------------------------
(***************************************************************************)
(* The cluster                                                             *)
(***************************************************************************)

Sync(kind) ==
  /\ cache' = IF kind \in objects THEN cache \cup {kind} ELSE cache \ {kind}
  /\ cachedPod' = IF kind = "pod" THEN pod ELSE cachedPod
  /\ UNCHANGED <<session, stamped, objects, pod, worker, faults>>

UserDelete(foreground) ==
  /\ session # None /\ ~session.deleting
  /\ session' = Stored([session EXCEPT !.deleting = TRUE, !.foreground = foreground])
  /\ current' = FALSE
  /\ UNCHANGED <<stamped, cluster, pc, read, faults>>

UserEdit ==
  /\ session # None /\ Fault
  /\ current' = FALSE
  /\ UNCHANGED <<session, stamped, cluster, pc, read>>

PodMoves(phase) ==
  /\ "pod" \in objects
  /\ <<pod, phase>> \in ({"Pending"} \X {"Running", "Failed"})
                         \cup ({"Running"} \X {"Succeeded", "Failed"})
  /\ pod' = phase
  /\ UNCHANGED <<session, stamped, objects, cache, cachedPod, worker, faults>>

\* The pod is evicted, or deleted by someone else.
PodLost ==
  /\ "pod" \in objects
  /\ objects' = objects \ {"pod"}
  /\ pod' = "Pending"
  /\ UNCHANGED <<session, stamped, cache, cachedPod, worker, faults>>

\* The garbage collector deletes what a session that is gone, or is deleted in
\* the foreground, owns; then it drops its own finalizer.
CollectGarbage ==
  /\ objects # {}
  /\ IF session = None THEN TRUE ELSE session.foreground
  /\ \E kind \in objects :
       /\ objects' = objects \ {kind}
       /\ pod' = IF kind = "pod" THEN "Pending" ELSE pod
  /\ UNCHANGED <<session, stamped, cache, cachedPod, worker, faults>>

DropForeground ==
  /\ session # None /\ session.foreground /\ objects = {}
  /\ session' = Stored([session EXCEPT !.foreground = FALSE])
  /\ current' = FALSE
  /\ UNCHANGED <<stamped, cluster, pc, read, faults>>

NextSecond ==
  /\ stamped /\ stamped' = FALSE
  /\ UNCHANGED <<session, cluster, worker, faults>>

Next ==
  \/ WorkerStep
  \/ \E kind \in Kind \ {"secret"} : Sync(kind)
  \/ \E foreground \in BOOLEAN : UserDelete(foreground)
  \/ UserEdit
  \/ \E phase \in PodPhase : PodMoves(phase)
  \/ PodLost
  \/ CollectGarbage \/ DropForeground \/ NextSecond

Spec == Init /\ [][Next]_vars

\* Every reconcile ends in a requeue while the session exists, the cache
\* catches up, the collector runs and seconds pass.
FairSpec ==
  /\ Spec
  /\ WF_vars(WorkerStep)
  /\ \A kind \in Kind \ {"secret"} : WF_vars(Sync(kind))
  /\ WF_vars(CollectGarbage) /\ WF_vars(DropForeground) /\ WF_vars(NextSecond)

-----------------------------------------------------------------------------
(***************************************************************************)
(* Properties                                                              *)
(***************************************************************************)

\* A session that is reported Terminating is not reported otherwise again,
\* although updateStatus writes the status of a session it has not looked at.
TerminatingIsFinal ==
  [][session # None /\ session' # None /\ session.phase = "Terminating"
       => session'.phase = "Terminating"]_vars

\* No object is made for a session that is gone: the finalizer keeps it while
\* a reconcile that read it may still be creating.
NothingMadeForTheGone ==
  [][objects' \subseteq objects \/ session # None]_vars

\* The pod runs, and the session is to be kept.
PodUp == session # None /\ ~session.deleting /\ "pod" \in objects /\ pod = "Running"

\* While its pod runs the session is in the end Running for good: the Failed
\* that a stale cache or a failed call leaves behind is put right.
RunningReported ==
  <>[]PodUp => <>[](session # None /\ session.phase = "Running")

\* reconcileDelete: "Safe finalizer removal with timeout", "to prevent
\* deadlocks".  A deleted session goes away.
DeletionFinishes ==
  (session # None /\ session.deleting) ~> session = None

=============================================================================
