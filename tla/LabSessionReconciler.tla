---------------------------- MODULE LabSessionReconciler ----------------------------
(***************************************************************************)
(* The deployed controller (internal/controller): one LabSession name, the *)
(* worker that reconciles it, the API server that stores it, the informer  *)
(* cache the worker reads, the objects it owns, and the event bus.         *)
(*                                                                         *)
(* controller-runtime never runs two reconciles of one name at once, so    *)
(* one worker is enough.  Everything else interleaves with its API calls:  *)
(* the user deletes and recreates the session, caches lag, pods change,    *)
(* calls fail, the process dies.  A step of the worker is one API call or  *)
(* one broker call; cache reads are part of the step that uses them.       *)
(***************************************************************************)
EXTENDS Naturals, Sequences

CONSTANTS
  None,               \* no object
  Order,              \* the kinds reconcileCreating ensures, in order
  CreatingTimeout,    \* creatingTimeout
  PodUnreadyTimeout,  \* podUnreadyTimeout
  MaxUid,             \* bound: how often the session is created
  MaxTime,            \* bound: ticks of the clock
  Scenarios           \* with events or without, and how often each disturbance may happen

VARIABLES
  api,        \* the stored session, or None
  cache,      \* the informer's copy of it
  objs,       \* owner of each stored child object, or None
  objsSeen,   \* the informers' copy of objs
  pod,        \* status of the stored pod
  podSeen,    \* the informer's copy of pod
  pc,         \* where the worker is in Reconcile
  mem,        \* the worker's session variable
  step,       \* which object reconcileCreating ensures next
  pending,    \* publishPending
  queued,     \* the name is in the work queue, perhaps after a delay
  now,
  brokerUp,
  sent,       \* <<uid, phase>> events sent to the broker
  taken,      \* those of them that the broker has taken
  stored,     \* <<uid, phase>> pairs that were ever stored
  born,       \* uid of the latest session created
  scenario    \* the disturbances that may still happen, and those that did

store == <<api, stored>>
children == <<objs, pod>>
informers == <<cache, objsSeen, podSeen>>
worker == <<pc, mem, step, pending>>
broker == <<brokerUp, sent, taken>>
vars == <<api, cache, objs, objsSeen, pod, podSeen, pc, mem, step, pending,
          queued, now, brokerUp, sent, taken, stored, born, scenario>>

Disturbance == {"fault", "permanent", "lostConfirm", "crash", "edit",
                "unready", "podLoss", "foreign", "outage", "again", "tick"}

\* events: LabSessionReconciler.Events is not nil.
Scenario == [events : BOOLEAN, rest : [Disturbance -> Nat], met : SUBSET Disturbance]

Phase == {"", "Creating", "Running", "Failed", "Terminating"}

PodStatus == {"NotReady", "Ready", "Exited", "Finished", "Deleting"}

\* The order in which reconcileCreating ensures the session's objects.  Order
\* may leave out kinds that are handled like another one of it.
FullOrder == <<"vm-data", "vscode-data", "Secret", "Pod", "Service", "Ingress">>

Kind == {Order[i] : i \in 1 .. Len(Order)}

\* The kinds the controller reads and watches: it may only create Secrets.
Watched == Kind \ {"Secret"}

ForeignOwner == 0
Uid == 1 .. MaxUid
Owner == Uid \cup {ForeignOwner}

Session == [uid : Uid, rv : Nat, deleting : BOOLEAN, fin : BOOLEAN,
            phase : Phase, annot : Phase, podName : BOOLEAN, start : Nat,
            podReady : BOOLEAN, since : Nat, endpoints : BOOLEAN,
            usage : BOOLEAN]

NewSession(u) ==
  [uid |-> u, rv |-> 1, deleting |-> FALSE, fin |-> FALSE, phase |-> "",
   annot |-> "", podName |-> FALSE, start |-> 0, podReady |-> FALSE,
   since |-> 0, endpoints |-> FALSE, usage |-> FALSE]

Location == {"idle", "finalizer", "publish", "annotate", "phase", "ensure",
             "checkPod", "fail", "failRetry", "delStatus", "delPublish",
             "delFinalizer"}

ASSUME ConstantsAssumption ==
  /\ None \notin Nat
  /\ None \notin Session
  /\ None \notin [uid : Uid, phase : Phase, deleting : BOOLEAN]
  /\ Order \in Seq({"vm-data", "vscode-data", "Secret", "Pod", "Service", "Ingress"})
  /\ {"Secret", "Pod", "Service"} \subseteq Kind
  /\ CreatingTimeout \in Nat
  /\ PodUnreadyTimeout \in Nat
  /\ MaxUid \in Nat
  /\ MaxTime \in Nat
  /\ Scenarios \subseteq [events : BOOLEAN, rest : [Disturbance -> Nat]]

TypeOK ==
  /\ api \in Session \cup {None}
  /\ cache \in Session \cup {None}
  /\ objs \in [Kind -> Owner \cup {None}]
  /\ objsSeen \in [Watched -> Owner \cup {None}]
  /\ pod \in PodStatus
  /\ podSeen \in PodStatus
  /\ pc \in Location
  /\ mem \in Session \cup {None}
  /\ (mem = None) <=> (pc = "idle")
  /\ step \in 1 .. Len(Order)
  /\ pending \in BOOLEAN
  /\ queued \in BOOLEAN
  /\ now \in 0 .. MaxTime
  /\ brokerUp \in BOOLEAN
  /\ sent \subseteq (Uid \X Phase) /\ taken \subseteq sent
  /\ stored \subseteq (Uid \X Phase)
  /\ born \in 0 .. MaxUid
  /\ scenario \in Scenario

-----------------------------------------------------------------------------
(***************************************************************************)
(* The API server                                                          *)
(***************************************************************************)

Spend(d) ==
  /\ scenario.rest[d] > 0
  /\ scenario' = [scenario EXCEPT !.rest[d] = @ - 1, !.met = @ \cup {d}]

\* An update carries the resourceVersion it was read with.  It is applied
\* only to that version; "fault" is a call that failed, "lost" one that was
\* applied and whose answer never arrived.
Outcome == {"ok", "lost", "fault", "conflict", "notFound"}

Applied(o) == o \in {"ok", "lost"}

Current(m) == api # None /\ api.uid = m.uid /\ api.rv = m.rv

Answer(m, o) ==
  \/ o = "ok" /\ Current(m) /\ UNCHANGED scenario
  \/ o = "lost" /\ Current(m) /\ Spend("fault")
  \/ o = "fault" /\ Spend("fault")
  \/ o = "conflict" /\ api # None /\ ~Current(m) /\ UNCHANGED scenario
  \/ o = "notFound" /\ api = None /\ UNCHANGED scenario

\* A write that changes nothing does not make a new version.
Version(old, new) == IF new = old THEN old ELSE [new EXCEPT !.rv = old.rv + 1]

\* Status().Update writes the status and leaves the metadata alone.
WithStatus(s, m) ==
  [s EXCEPT !.phase = m.phase, !.podName = m.podName, !.start = m.start,
            !.podReady = m.podReady, !.since = m.since,
            !.endpoints = m.endpoints, !.usage = m.usage]

StatusUpdate(m, o) ==
  /\ Answer(m, o)
  /\ api' = IF Applied(o) THEN Version(api, WithStatus(api, m)) ELSE api
  /\ stored' = IF Applied(o) THEN stored \cup {<<m.uid, m.phase>>} ELSE stored

-----------------------------------------------------------------------------
(***************************************************************************)
(* Reconcile                                                               *)
(***************************************************************************)

GoTo(l) == pc' = l /\ UNCHANGED <<mem, step, pending>>

\* Reconcile returns.  An error, Requeue and RequeueAfter all put the name
\* back later; publishPending makes it RequeueAfter publishRetryDelay.
Finish(again) ==
  /\ pc' = "idle"
  /\ mem' = None
  /\ step' = 1
  /\ pending' = FALSE
  /\ queued' = (queued \/ again \/ pending)

\* Mutant of Unpublished: any annotation counts as published.
NeverPublished(m) == scenario.events /\ m.phase # "" /\ m.annot = ""

\* publishPhase has something to publish.
Unpublished(m) == scenario.events /\ m.phase # "" /\ m.annot # m.phase

\* Mutant of Reconcile: the finalizer is never added.
ReconcileWithoutFinalizer ==
  /\ pc = "idle" /\ queued
  /\ queued' = FALSE
  /\ cache # None
  /\ mem' = cache
  /\ pc' = IF cache.deleting THEN "delStatus" ELSE "phase"
  /\ UNCHANGED <<step, pending, now, born, scenario, store, children, informers, broker>>

\* Reconcile reads the session from the cache and picks a branch.
Reconcile ==
  /\ pc = "idle" /\ queued
  /\ queued' = FALSE
  /\ \/ cache = None /\ UNCHANGED worker
     \/ /\ cache # None
        /\ mem' = cache
        /\ pc' = CASE cache.deleting -> "delStatus"
                   [] ~cache.deleting /\ ~cache.fin -> "finalizer"
                   [] ~cache.deleting /\ cache.fin /\ Unpublished(cache) -> "publish"
                   [] OTHER -> "phase"
        /\ UNCHANGED <<step, pending>>
  /\ UNCHANGED <<now, born, scenario, store, children, informers, broker>>

\* r.Update with the finalizer added: the metadata is written, the status not.
AddFinalizer ==
  /\ pc = "finalizer"
  /\ \E o \in Outcome :
       /\ Answer(mem, o)
       /\ api' = IF Applied(o) THEN Version(api, [api EXCEPT !.fin = TRUE]) ELSE api
  /\ Finish(TRUE)
  /\ UNCHANGED <<now, born, stored, children, informers, broker>>

Send(u, p) == sent' = sent \cup {<<u, p>>}
Take(u, p) == taken' = taken \cup {<<u, p>>}

\* PublishPhaseChange, as PhasePublishing has it: the event is sent and taken;
\* nothing is sent; or it is sent, no confirm comes, and the broker takes it
\* later (BrokerTakes) or never.
Publish(m, ok) ==
  \/ ok /\ brokerUp /\ Send(m.uid, m.phase) /\ Take(m.uid, m.phase) /\ UNCHANGED scenario
  \/ ~ok /\ ~brokerUp /\ UNCHANGED <<sent, taken, scenario>>
  \/ ~ok /\ brokerUp /\ Send(m.uid, m.phase) /\ UNCHANGED taken /\ Spend("lostConfirm")

\* Mutant of PublishPhase: the phase is recorded though the publish failed.
PublishPhaseUnchecked ==
  /\ pc = "publish"
  /\ \E ok \in BOOLEAN : Publish(mem, ok)
  /\ GoTo("annotate")
  /\ UNCHANGED <<queued, now, brokerUp, born, store, children, informers>>

\* publishPhase, up to the annotation: a failure is remembered for the retry.
PublishPhase ==
  /\ pc = "publish"
  /\ \E ok \in BOOLEAN :
       /\ Publish(mem, ok)
       /\ pc' = IF ok THEN "annotate" ELSE "phase"
       /\ pending' = ~ok
  /\ UNCHANGED <<mem, step, queued, now, brokerUp, born, store, children, informers>>

\* publishPhase's merge patch: it names no resourceVersion, so it applies to
\* whatever is stored, and its answer replaces the worker's copy.
RecordPublishedPhase ==
  /\ pc = "annotate"
  /\ pc' = "phase"
  /\ LET patched == Version(api, [api EXCEPT !.annot = mem.phase])
         failed == mem' = [mem EXCEPT !.annot = mem.phase] /\ pending' = TRUE
     IN \/ api # None /\ api' = patched /\ mem' = patched
           /\ UNCHANGED <<pending, scenario>>
        \/ api # None /\ api' = patched /\ failed /\ Spend("fault")
        \/ api' = api /\ failed /\ IF api = None THEN UNCHANGED scenario ELSE Spend("fault")
  /\ UNCHANGED <<step, queued, now, born, stored, children, informers, broker>>

-----------------------------------------------------------------------------
(***************************************************************************)
(* reconcilePhase                                                          *)
(***************************************************************************)

\* Every outcome is followed by another reconcile: an error or Requeue.
ReconcilePending ==
  /\ pc = "phase" /\ mem.phase = ""
  /\ \E o \in Outcome :
       StatusUpdate([mem EXCEPT !.phase = "Creating", !.start = now], o)
  /\ Finish(TRUE)
  /\ UNCHANGED <<now, born, children, informers, broker>>

StartCreating ==
  /\ pc = "phase" /\ mem.phase = "Creating"
  /\ GoTo("ensure")
  /\ UNCHANGED <<queued, now, born, scenario, store, children, informers, broker>>

\* Mutant of Ensured: the list of objects is run off its end.
EnsuredOffEnd ==
  /\ pc' = IF step = Len(Order) THEN "checkPod" ELSE pc
  /\ step' = step + 1
  /\ mem' = IF Order[step] = "Pod" THEN [mem EXCEPT !.podName = TRUE] ELSE mem
  /\ UNCHANGED <<pending, queued>>

\* The object at Order[step] is in place: on to the next, or to the pod check.
Ensured ==
  /\ IF step = Len(Order) THEN pc' = "checkPod" /\ step' = 1
                          ELSE pc' = pc /\ step' = step + 1
  /\ mem' = IF Order[step] = "Pod" THEN [mem EXCEPT !.podName = TRUE] ELSE mem
  /\ UNCHANGED <<pending, queued>>

\* handleCreateError: fail the session, or return the error to be retried.
HandleCreateError(permanent) ==
  IF permanent \/ now > mem.start + CreatingTimeout
  THEN GoTo("fail") /\ UNCHANGED queued
  ELSE Finish(TRUE)

Created(k) ==
  /\ objs[k] = None
  /\ objs' = [objs EXCEPT ![k] = mem.uid]
  /\ pod' = IF k = "Pod" THEN "NotReady" ELSE pod

\* The create of an object: done, already there, failed for now (perhaps
\* only its answer), or refused for good (Invalid, BadRequest).
Create(k, result) ==
  \/ result = "ok" /\ Created(k) /\ UNCHANGED scenario
  \/ result = "exists" /\ objs[k] # None /\ UNCHANGED <<children, scenario>>
  \/ result = "fault" /\ (Created(k) \/ UNCHANGED children) /\ Spend("fault")
  \/ result = "refused" /\ UNCHANGED children /\ Spend("permanent")

CreateResult == {"ok", "exists", "fault", "refused"}

\* Mutant of EnsureObject: AlreadyExists is an error that fails the session.
EnsureObjectStrictly ==
  /\ pc = "ensure" /\ Order[step] # "Secret"
  /\ LET k == Order[step]
     IN \/ /\ objsSeen[k] = None
           /\ \E r \in CreateResult :
                Create(k, r) /\ IF r = "ok" THEN Ensured ELSE HandleCreateError(r # "fault")
        \/ objsSeen[k] = mem.uid /\ Ensured /\ UNCHANGED <<children, scenario>>
  /\ UNCHANGED <<now, born, store, informers, broker>>

\* ensurePVCs, ensurePod, ensureService, ensureIngress.  An object the cache
\* misses is created, and one that turns out to exist is taken as ours; one
\* the cache has must be controlled by this session.
EnsureObject ==
  /\ pc = "ensure" /\ Order[step] # "Secret"
  /\ LET k == Order[step]
     IN \/ /\ objsSeen[k] = None
           /\ \E r \in CreateResult :
                /\ Create(k, r)
                /\ IF r \in {"ok", "exists"} THEN Ensured
                                             ELSE HandleCreateError(r = "refused")
        \/ objsSeen[k] = mem.uid /\ Ensured /\ UNCHANGED <<children, scenario>>
        \/ /\ objsSeen[k] \notin {None, mem.uid}
           /\ HandleCreateError(TRUE)
           /\ UNCHANGED <<children, scenario>>
  /\ UNCHANGED <<now, born, store, informers, broker>>

\* EnsureSSHKeySecret never reads: an existing Secret is kept whoever owns it,
\* and any error fails the session and is returned as well.
EnsureSecret ==
  /\ pc = "ensure" /\ Order[step] = "Secret"
  /\ \E r \in CreateResult :
       /\ Create("Secret", r)
       /\ IF r \in {"ok", "exists"} THEN Ensured ELSE GoTo("failRetry") /\ UNCHANGED queued
  /\ UNCHANGED <<now, born, store, informers, broker>>

\* Mutant of PodTerminal: exited containers are not looked at.
PodPhaseTerminal == podSeen \in {"Finished", "Deleting"}

\* podTerminalReason and isPodReady, on the informer's copy of the pod.
PodInCache == objsSeen["Pod"] # None
PodTerminal == podSeen \in {"Exited", "Finished", "Deleting"}

\* podHoldsResources: a pod with an exited container still holds its requests.
HoldsResources(status) == status \notin {"Finished", "Deleting"}

\* setCondition(PodReady): the transition time moves only with the status.
SetPodReady(m, ready) ==
  IF m.podReady = ready THEN m
  ELSE [m EXCEPT !.podReady = ready, !.since = now]

\* updateEndpoints needs the Service in the cache; the endpoints are left as
\* they are, and the error is only logged, when it is not there.
UpdateEndpoints(m) == m.endpoints \/ objsSeen["Service"] # None

\* The status when reconcileCreating sees the pod ready.
RunningStatus(m) ==
  [SetPodReady(m, TRUE) EXCEPT
     !.phase = "Running", !.usage = HoldsResources(podSeen),
     !.endpoints = UpdateEndpoints(m)]

\* Mutant of CheckPod: Running is written as a patch, to whatever is stored.
PatchRunning ==
  /\ pc = "checkPod" /\ PodInCache /\ podSeen = "Ready" /\ api # None
  /\ api' = Version(api, WithStatus(api, RunningStatus(mem)))
  /\ stored' = stored \cup {<<api.uid, "Running">>}
  /\ Finish(FALSE)
  /\ UNCHANGED <<scenario, now, born, children, informers, broker>>

\* Mutant of CheckPod: a failed update to Running is logged and dropped.
DropRunningError ==
  /\ pc = "checkPod"
  /\ \/ ~PodInCache /\ Finish(TRUE) /\ UNCHANGED <<store, scenario>>
     \/ /\ PodInCache /\ podSeen = "Ready"
        /\ \E o \in Outcome : StatusUpdate(RunningStatus(mem), o) /\ Finish(FALSE)
     \/ PodInCache /\ podSeen = "NotReady" /\ Finish(TRUE) /\ UNCHANGED <<store, scenario>>
  /\ UNCHANGED <<now, born, children, informers, broker>>

CheckPod ==
  /\ pc = "checkPod"
  /\ \/ ~PodInCache /\ Finish(TRUE) /\ UNCHANGED <<store, scenario>>
     \/ PodInCache /\ PodTerminal /\ GoTo("fail") /\ UNCHANGED <<queued, store, scenario>>
     \/ /\ PodInCache /\ podSeen = "Ready"
        /\ \E o \in Outcome : StatusUpdate(RunningStatus(mem), o) /\ Finish(o # "ok")
     \/ PodInCache /\ podSeen = "NotReady" /\ Finish(TRUE) /\ UNCHANGED <<store, scenario>>
  /\ UNCHANGED <<now, born, children, informers, broker>>

\* Mutant of UnreadyTooLong: the timeout itself is too long already.
UnreadyAtTimeout(m) == ~m.podReady /\ now >= m.since + PodUnreadyTimeout

\* PodReady has been False for longer than podUnreadyTimeout.
UnreadyTooLong(m) == ~m.podReady /\ now > m.since + PodUnreadyTimeout

ReconcileRunning ==
  /\ pc = "phase" /\ mem.phase = "Running"
  /\ LET ready == podSeen = "Ready"
     IN \/ /\ ~mem.podName \/ ~PodInCache \/ PodTerminal
           /\ GoTo("fail")
           /\ UNCHANGED <<queued, store, scenario>>
        \/ /\ mem.podName /\ PodInCache /\ ~PodTerminal
           /\ \/ /\ mem.podReady # ready
                 /\ \E o \in Outcome : StatusUpdate(SetPodReady(mem, ready), o)
                 /\ Finish(TRUE)
              \/ /\ mem.podReady = ready /\ ~UnreadyTooLong(mem)
                 /\ Finish(TRUE)
                 /\ UNCHANGED <<store, scenario>>
              \/ /\ mem.podReady = ready /\ UnreadyTooLong(mem)
                 /\ GoTo("fail")
                 /\ UNCHANGED <<queued, store, scenario>>
  /\ UNCHANGED <<now, born, children, informers, broker>>

\* reconcileFailed and the default case do nothing.
ReconcileSettled ==
  /\ pc = "phase" /\ mem.phase \in {"Failed", "Terminating"}
  /\ Finish(FALSE)
  /\ UNCHANGED <<now, born, scenario, store, children, informers, broker>>

\* The pod's part of usageOf(sessionPod(m)): sessionPod finds a pod only by the
\* name in the status.
SessionPodUsage(m) == m.podName /\ PodInCache /\ HoldsResources(podSeen)

\* The status updateStatusFailed writes.
FailedStatus(m) == [m EXCEPT !.phase = "Failed", !.usage = SessionPodUsage(m)]

\* updateStatusFailed only logs a failed update.  Its callers return nil, but
\* for the one that handles EnsureSSHKeySecret, which returns the error.
UpdateStatusFailed ==
  /\ pc \in {"fail", "failRetry"}
  /\ \E o \in Outcome : StatusUpdate(FailedStatus(mem), o)
  /\ Finish(pc = "failRetry")
  /\ UNCHANGED <<now, born, children, informers, broker>>

-----------------------------------------------------------------------------
(***************************************************************************)
(* reconcileDelete                                                         *)
(***************************************************************************)

TerminatingStatus(m) == [m EXCEPT !.phase = "Terminating", !.usage = FALSE]

\* Only NotFound ends the deletion here; any other error is logged.
DeleteStatus ==
  /\ pc = "delStatus"
  /\ \E o \in Outcome :
       /\ StatusUpdate(TerminatingStatus(mem), o)
       /\ IF o = "notFound" THEN Finish(FALSE)
          ELSE /\ mem' = IF o = "ok" THEN api' ELSE TerminatingStatus(mem)
               /\ pc' = IF scenario.events /\ mem.annot # "Terminating"
                        THEN "delPublish" ELSE "delFinalizer"
               /\ UNCHANGED <<step, pending, queued>>
  /\ UNCHANGED <<now, born, children, informers, broker>>

\* Mutant of DeletePublish: a failed publish is returned as an error.
DeletePublishFirst ==
  /\ pc = "delPublish"
  /\ \E ok \in BOOLEAN :
       Publish(mem, ok) /\ IF ok THEN GoTo("delFinalizer") /\ UNCHANGED queued ELSE Finish(TRUE)
  /\ UNCHANGED <<now, brokerUp, born, store, children, informers>>

\* Best effort: the deletion goes on whatever the broker says.
DeletePublish ==
  /\ pc = "delPublish"
  /\ \E ok \in BOOLEAN : Publish(mem, ok)
  /\ GoTo("delFinalizer")
  /\ UNCHANGED <<queued, now, brokerUp, born, store, children, informers>>

\* Removing the last finalizer of a deleted session removes the session.
RemoveFinalizer ==
  /\ pc = "delFinalizer"
  /\ \E o \in Outcome :
       /\ Answer(mem, o)
       /\ api' = IF Applied(o) THEN None ELSE api
       /\ Finish(o \notin {"ok", "notFound"})
  /\ UNCHANGED <<now, born, stored, children, informers, broker>>

\* One step of the worker within a reconcile.
WorkerStep ==
  \/ AddFinalizer \/ PublishPhase \/ RecordPublishedPhase
  \/ ReconcilePending \/ StartCreating \/ EnsureObject \/ EnsureSecret
  \/ CheckPod \/ ReconcileRunning \/ ReconcileSettled \/ UpdateStatusFailed
  \/ DeleteStatus \/ DeletePublish \/ RemoveFinalizer

-----------------------------------------------------------------------------
(***************************************************************************)
(* controller-runtime: the work queue, the informers, the process          *)
(***************************************************************************)

\* The informer catches up with the stored session and queues its name.
SyncSession ==
  /\ cache # api
  /\ cache' = api
  /\ queued' = TRUE
  /\ UNCHANGED <<objsSeen, podSeen, now, born, scenario, store, children, worker, broker>>

\* The same for a child; its name is queued when a session owns the child.
SyncObject(k) ==
  /\ objsSeen[k] # objs[k] \/ (k = "Pod" /\ podSeen # pod)
  /\ objsSeen' = [objsSeen EXCEPT ![k] = objs[k]]
  /\ podSeen' = IF k = "Pod" THEN pod ELSE podSeen
  /\ queued' = (queued \/ objs[k] \in Uid \/ objsSeen[k] \in Uid)
  /\ UNCHANGED <<cache, now, born, scenario, store, children, worker, broker>>

\* SyncPeriod: the informer replays every session it holds.
Resync ==
  /\ cache # None /\ ~queued
  /\ queued' = TRUE
  /\ UNCHANGED <<now, born, scenario, store, children, informers, worker, broker>>

\* The process dies; the next leader lists everything and queues the session.
Crash ==
  /\ Spend("crash")
  /\ pc' = "idle" /\ mem' = None /\ step' = 1 /\ pending' = FALSE
  /\ queued' = (api # None)
  /\ cache' = api
  /\ objsSeen' = [k \in Watched |-> objs[k]]
  /\ podSeen' = pod
  /\ UNCHANGED <<now, born, store, children, broker>>

-----------------------------------------------------------------------------
(***************************************************************************)
(* The cluster around the controller                                       *)
(***************************************************************************)

UserCreate ==
  /\ api = None /\ born < MaxUid
  /\ born' = born + 1
  /\ api' = NewSession(born + 1)
  /\ stored' = stored \cup {<<born + 1, "">>}
  /\ IF born = 0 THEN UNCHANGED scenario ELSE Spend("again")
  /\ UNCHANGED <<now, queued, children, informers, worker, broker>>

\* A delete waits for the finalizer, if there is one.
UserDelete ==
  /\ api # None /\ ~api.deleting
  /\ api' = IF api.fin THEN Version(api, [api EXCEPT !.deleting = TRUE]) ELSE None
  /\ UNCHANGED <<stored, now, born, scenario, queued, children, informers, worker, broker>>

\* Someone changes the spec or the labels: a new version.
UserEdit ==
  /\ api # None
  /\ Spend("edit")
  /\ api' = [api EXCEPT !.rv = @ + 1]
  /\ UNCHANGED <<stored, now, born, queued, children, informers, worker, broker>>

\* An object with one of the session's names that no session owns.
ForeignCreate(k) ==
  /\ objs[k] = None
  /\ Spend("foreign")
  /\ objs' = [objs EXCEPT ![k] = ForeignOwner]
  /\ pod' = IF k = "Pod" THEN "NotReady" ELSE pod
  /\ UNCHANGED <<now, born, store, queued, informers, worker, broker>>

PodTurns(from, to) ==
  /\ objs["Pod"] # None /\ pod \in from
  /\ pod' = to
  /\ UNCHANGED <<objs, now, born, store, queued, informers, worker, broker>>

PodReady == PodTurns({"NotReady"}, "Ready") /\ UNCHANGED scenario

PodUnready == PodTurns({"Ready"}, "NotReady") /\ Spend("unready")

\* A container exits, the pod finishes, or it is deleted.
PodLoss ==
  /\ \E to \in {"Exited", "Finished", "Deleting"} :
       PodTurns({"NotReady", "Ready", "Exited"} \ {to}, to)
  /\ Spend("podLoss")

PodGone ==
  /\ objs["Pod"] # None /\ pod = "Deleting"
  /\ objs' = [objs EXCEPT !["Pod"] = None] /\ pod' = "NotReady"
  /\ UNCHANGED <<scenario, now, born, store, queued, informers, worker, broker>>

\* The garbage collector deletes what a session that is gone owned.
Live(u) == api # None /\ api.uid = u

Orphan(k) == objs[k] \in Uid /\ ~Live(objs[k])

CollectGarbage(k) ==
  /\ Orphan(k)
  /\ IF k = "Pod" THEN pod # "Deleting" /\ pod' = "Deleting" /\ UNCHANGED objs
                  ELSE objs' = [objs EXCEPT ![k] = None] /\ UNCHANGED pod
  /\ UNCHANGED <<now, born, scenario, store, queued, informers, worker, broker>>

Tick ==
  /\ now < MaxTime /\ Spend("tick")
  /\ now' = now + 1
  /\ UNCHANGED <<born, store, queued, children, informers, worker, broker>>

BrokerFails ==
  /\ brokerUp /\ Spend("outage")
  /\ brokerUp' = FALSE
  /\ UNCHANGED <<sent, taken, now, born, store, queued, children, informers, worker>>

BrokerRecovers ==
  /\ ~brokerUp
  /\ brokerUp' = TRUE
  /\ UNCHANGED <<sent, taken, now, born, scenario, store, queued, children, informers, worker>>

\* An event that was on its way when its publish gave up arrives.
BrokerTakes ==
  /\ \E e \in sent \ taken : taken' = taken \cup {e}
  /\ UNCHANGED <<brokerUp, sent, now, born, scenario, store, queued, children, informers, worker>>

Init ==
  /\ api = None /\ cache = None
  /\ objs = [k \in Kind |-> None] /\ objsSeen = [k \in Watched |-> None]
  /\ pod = "NotReady" /\ podSeen = "NotReady"
  /\ pc = "idle" /\ mem = None /\ step = 1 /\ pending = FALSE
  /\ queued = FALSE
  /\ now = 0
  /\ brokerUp = TRUE /\ sent = {} /\ taken = {}
  /\ stored = {} /\ born = 0
  /\ \E s \in Scenarios : scenario = [events |-> s.events, rest |-> s.rest, met |-> {}]

ControllerNext ==
  \/ Reconcile \/ WorkerStep \/ SyncSession \/ Resync
  \/ \E k \in Watched : SyncObject(k)

EnvironmentNext ==
  \/ UserCreate \/ UserDelete \/ UserEdit \/ Tick \/ Crash
  \/ PodReady \/ PodUnready \/ PodLoss \/ PodGone
  \/ BrokerFails \/ BrokerRecovers \/ BrokerTakes
  \/ \E k \in Kind : ForeignCreate(k) \/ CollectGarbage(k)

Next == ControllerNext \/ EnvironmentNext

Spec == Init /\ [][Next]_vars

\* controller-runtime keeps working on what is queued, the informers keep
\* watching, and the pod gets ready.  Nothing is assumed of the user, the
\* garbage collector, the clock, the broker or the failures.
Fairness ==
  /\ WF_vars(Reconcile \/ WorkerStep)
  /\ WF_vars(SyncSession) /\ WF_vars(\E k \in Watched : SyncObject(k))
  /\ WF_vars(PodReady)

FairSpec == Spec /\ Fairness

-----------------------------------------------------------------------------
(***************************************************************************)
(* Safety                                                                  *)
(***************************************************************************)

Lifecycle == INSTANCE SessionLifecycle WITH
  session <- IF api = None THEN None
             ELSE [uid |-> api.uid, phase |-> api.phase, deleting |-> api.deleting],
  announced <- sent,
  received <- taken

\* The reconciler implements SessionLifecycle: whatever the caches, the
\* conflicts, the failed calls and the crashes, the stored phase only moves
\* along the edges of reconcilePhase and never back, a session with the
\* finalizer goes only after its deletion was requested, only stored phases
\* are published, and a phase that was not sent before is sent only if no later
\* one was.  Only an event whose confirm was not received may come late.
ImplementsLifecycle == Lifecycle!Spec

\* The published-phase annotation never claims more than the broker has:
\* publishPhase records a phase only after the broker took the event.
AnnotationHonest ==
  api # None /\ api.annot # "" => <<api.uid, api.annot>> \in taken

\* Whenever the ensure functions create an object, the session they put in its
\* owner reference is still stored with the finalizer: a reconcile that read
\* a stale session never creates objects for one that is gone.
OwnersAreLive ==
  [][\A k \in Kind : objs[k] = None /\ objs'[k] \in Uid
                       => Live(objs'[k]) /\ api.fin]_vars

\* The session of a single incarnation that met none of the disturbances ds.
Spared(ds) == born = 1 /\ scenario.met \cap ds = {}

\* Stale caches, conflicting edits and restarts alone never fail a session:
\* without a failed call, a lost or unready pod or a foreign object, the first
\* session under the name does not reach updateStatusFailed.
UndisturbedNeverFails ==
  Spared({"fault", "permanent", "unready", "podLoss", "foreign"})
    => <<1, "Failed">> \notin stored

\* The stored session fails in this step.
Fails == api # None /\ api' # None /\ api.phase # "Failed" /\ api'.phase = "Failed"

\* The patience handleCreateError and reconcileRunning have, measured by what
\* is stored: with no lost pod, refused create or foreign object, a session
\* that goes to Failed had its start, or its pod's last readiness, longer ago
\* than the timeout.  (EnsureSSHKeySecret's errors have a path of their own.)
FailsOnlyAfterTimeout ==
  [][Fails /\ pc = "fail" /\ Spared({"permanent", "podLoss", "foreign"}) =>
       \/ api.phase = "Creating" /\ now > api.start + CreatingTimeout
       \/ api.phase = "Running" /\ ~api.podReady /\ now > api.since + PodUnreadyTimeout]_vars

-----------------------------------------------------------------------------
(***************************************************************************)
(* What the documentation says and the code does not do                    *)
(***************************************************************************)

\* README: a Running session has its terminal and vscode URLs recorded.
RunningHasEndpoints ==
  api # None /\ api.phase = "Running" => api.endpoints

\* creatingTimeout's comment: transient errors while creating the session's
\* resources are retried until creatingTimeout.
TransientErrorsRetried ==
  [][Fails /\ api.phase = "Creating" /\ Spared({"permanent", "podLoss", "foreign"})
       => now > api.start + CreatingTimeout]_vars

-----------------------------------------------------------------------------
(***************************************************************************)
(* Liveness                                                                *)
(***************************************************************************)

\* A session whose deletion was requested goes away, though its Terminating
\* update may fail and the broker may never answer: reconcileDelete waits for
\* neither.
DeletionCompletes ==
  \A u \in Uid : (Live(u) /\ api.deleting) ~> ~Live(u)

\* The stored phase is not the one recorded as published.
PhaseBehind(u) ==
  scenario.events /\ Live(u) /\ ~api.deleting /\ api.phase # "" /\ api.annot # api.phase

\* Once the broker stays up, the stored phase is published and recorded, unless
\* the session is deleted: publishPhase is retried after a failed publish and
\* after a failed patch, and a regressed annotation is put right.
PhaseRecorded ==
  <>[]brokerUp => \A u \in Uid : PhaseBehind(u) ~> ~PhaseBehind(u)

\* The session is being created, or Running, and its pod has stopped or is gone.
WithoutPod(u) ==
  /\ Live(u) /\ api.phase \in {"Creating", "Running"}
  /\ objs["Pod"] = None \/ pod \in {"Exited", "Finished", "Deleting"}

\* As long as SyncPeriod replays the sessions, none stays Creating or Running
\* without a working pod, though updateStatusFailed drops a failed update and
\* its callers ask for no requeue.  (The session need not fail: a reconcile
\* that sees Creating may put a new pod in place.)
LostPodNoticed ==
  WF_vars(Resync) => \A u \in Uid : WithoutPod(u) ~> ~WithoutPod(u)

\* A session whose pod is not lost does not stay in Creating, with no resync
\* needed: every create error, missing cache entry and conflict is retried.
CreatingSettles ==
  \A u \in Uid : (Live(u) /\ api.phase = "Creating")
                  ~> (~Live(u) \/ api.phase # "Creating" \/ "podLoss" \in scenario.met)

=============================================================================
