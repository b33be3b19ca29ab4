-------------------------- MODULE ReconcilerInvariant --------------------------
(***************************************************************************)
(* Why the reconciler works in spite of its stale reads: an inductive      *)
(* invariant of LabSessionReconciler.  Its parts say what the copies of    *)
(* the session, in the cache and in the worker, still tell about the       *)
(* stored one.                                                             *)
(***************************************************************************)
EXTENDS LabSessionReconciler

Rank(p) == Lifecycle!Rank(p)

\* The steps of a reconcile that works towards Running, and of one that deletes.
Forward == {"publish", "annotate", "phase", "ensure", "checkPod", "fail", "failRetry"}
Deletion == {"delStatus", "delPublish", "delFinalizer"}

\* What is stored: the latest session, with all its past, started only once it
\* had the finalizer.
StoreInv ==
  /\ \A u \in Uid, p \in Phase : <<u, p>> \in stored \cup sent => u <= born
  /\ api # None =>
       /\ api.uid = born
       /\ <<api.uid, "">> \in stored
       /\ <<api.uid, api.phase>> \in stored
       /\ api.phase # "" => api.fin
       /\ api.deleting => api.fin

\* c is a copy of session c.uid as it was at version c.rv.
CopyOf(c) ==
  /\ c.uid <= born
  /\ <<c.uid, "">> \in stored
  /\ Live(c.uid) =>
       /\ c.rv <= api.rv
       /\ c.deleting => api.deleting
       /\ c.fin => api.fin

\* The phase of copy c is one session c.uid has had, and has now if the copy
\* is current.
PhaseCopied(c) ==
  /\ <<c.uid, c.phase>> \in stored
  /\ Live(c.uid) => /\ Rank(c.phase) <= Rank(api.phase)
                    /\ c.rv = api.rv => c.phase = api.phase

\* A session that is not being deleted in the cache and has the finalizer is
\* still stored: only a reconcile that read its deletion removes it.
CacheInv ==
  cache # None =>
    /\ CopyOf(cache)
    /\ PhaseCopied(cache)
    /\ cache.fin /\ ~cache.deleting => Live(cache.uid)

\* The same for the worker, which holds the finalizer while it goes forward;
\* when it deletes, the cache cannot be ahead of it with a live session.
WorkerInv ==
  /\ pc # "idle" => CopyOf(mem)
  /\ pc \in Forward => Live(mem.uid) /\ mem.fin /\ PhaseCopied(mem)
  /\ pc \in {"publish", "annotate"} => mem.phase # ""
  /\ pc \in {"ensure", "checkPod"} => mem.phase = "Creating"
  /\ pc \in {"fail", "failRetry"} => mem.phase \in {"Creating", "Running"}
  /\ pc \in {"delPublish", "delFinalizer"} => mem.phase = "Terminating"
  /\ pc \in Deletion =>
       /\ mem.deleting
       /\ Live(mem.uid) => cache # None /\ cache.uid = mem.uid /\ cache.deleting

\* What was published of the stored session is not ahead of the cache.
EventInv ==
  /\ \A u \in Uid, p \in Phase :
       <<u, p>> \in sent /\ Live(u) =>
         /\ cache # None /\ cache.uid = u
         /\ ~cache.deleting => Rank(p) <= Rank(cache.phase)
  /\ pc = "publish" =>
       /\ cache # None /\ cache.uid = mem.uid /\ Rank(mem.phase) <= Rank(cache.phase)
       /\ \A p \in Phase : <<mem.uid, p>> \in sent => Rank(p) <= Rank(mem.phase)
  /\ pc = "annotate" => <<mem.uid, mem.phase>> \in taken
  /\ AnnotationHonest

\* The inductive invariant: it implies AnnotationHonest, and with it every step
\* is a step of SessionLifecycle and keeps OwnersAreLive.
IInv == TypeOK /\ StoreInv /\ CacheInv /\ WorkerInv /\ EventInv

-----------------------------------------------------------------------------
(***************************************************************************)
(* Why a session fails only for a reason: what else is inductive with IInv *)
(***************************************************************************)

\* The first session is stored, or not made yet, and has met none of ds.
Untouched(ds) ==
  born <= 1 /\ (born = 1 => api # None) /\ scenario.met \cap ds = {}

\* Its objects are its own and stay, and the cache only lags behind them.
OwnObjects ==
  Untouched({"podLoss", "foreign"}) =>
    /\ \A k \in Kind : objs[k] = None \/ (objs[k] = 1 /\ born = 1)
    /\ \A k \in Watched : objsSeen[k] \in {None, objs[k]}
    /\ pod \in {"NotReady", "Ready"} /\ podSeen \in {"NotReady", "Ready"}
    /\ <<1, "Running">> \in stored => objsSeen["Pod"] # None

\* And its pod stays ready.
StaysReady ==
  Untouched({"podLoss", "foreign", "unready"}) =>
    /\ objsSeen["Pod"] # None /\ podSeen = "Ready" => pod = "Ready"
    /\ <<1, "Running">> \in stored => podSeen = "Ready"

\* A Running session has the name of its pod.
Named(s) == s # None /\ s.phase = "Running" => s.podName

PodNamed ==
  /\ Named(api) /\ Named(cache) /\ Named(mem)
  /\ pc = "checkPod" => mem.podName
  /\ pc = "ensure" /\ (\E i \in 1 .. step - 1 : Order[i] = "Pod") => mem.podName
  /\ pc \notin {"ensure", "fail", "failRetry"} => step = 1

\* A copy that is current has the stored times.
Timed(c) ==
  Live(c.uid) /\ c.rv = api.rv =>
    c.start = api.start /\ c.since = api.since /\ c.podReady = api.podReady

Times ==
  /\ cache # None => Timed(cache)
  /\ pc \in Forward => Timed(mem)

\* The worker gives a session up only when its time is over.
FailReason ==
  pc = "fail" /\ Untouched({"permanent", "podLoss", "foreign"}) =>
    \/ mem.phase = "Creating" /\ now > mem.start + CreatingTimeout
    \/ mem.phase = "Running" /\ ~mem.podReady /\ now > mem.since + PodUnreadyTimeout

\* And without a failed call or an unready pod it does not even begin to.
NeverFails ==
  /\ Untouched({"fault", "permanent", "unready", "podLoss", "foreign"}) =>
       pc \notin {"fail", "failRetry"}
  /\ UndisturbedNeverFails

FInv == OwnObjects /\ StaysReady /\ PodNamed /\ Times /\ FailReason /\ NeverFails
=================================================================================
