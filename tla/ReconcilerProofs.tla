---------------------------- MODULE ReconcilerProofs ----------------------------
(***************************************************************************)
(* IInv is an inductive invariant of LabSessionReconciler, and what        *)
(* follows from it, for every value of the constants.                      *)
(***************************************************************************)
EXTENDS ReconcilerTypeProofs

\* The stored session as every step leaves it that neither creates nor removes
\* one: a later version of the same session.
StoreMoves ==
  /\ born' = born
  /\ stored \subseteq stored'
  /\ \/ api' = api
     \/ /\ api \in Session /\ api' \in Session
        /\ api'.uid = api.uid
        /\ api.rv <= api'.rv
        /\ api'.rv = api.rv => api' = api
        /\ api.deleting => api'.deleting
        /\ api.fin => api'.fin
        /\ Rank(api.phase) <= Rank(api'.phase)

LEMMA LeqTransitive == \A a, b, c \in Nat : a <= b /\ b <= c => a <= c
  OBVIOUS

LEMMA RankFacts ==
  /\ Rank("") = 0 /\ Rank("Creating") = 1 /\ Rank("Running") = 2
  /\ Rank("Failed") = 3 /\ Rank("Terminating") = 4
  /\ \A p \in Phase : Rank(p) \in Nat /\ Rank(p) <= 4
<1>1. /\ Rank("") = 0 /\ Rank("Creating") = 1 /\ Rank("Running") = 2
      /\ Rank("Failed") = 3 /\ Rank("Terminating") = 4
  BY DEF Rank, Lifecycle!Rank
<1>2. ASSUME NEW p \in Phase PROVE Rank(p) \in Nat /\ Rank(p) <= 4
  <2>1. p = "" \/ p = "Creating" \/ p = "Running" \/ p = "Failed" \/ p = "Terminating"
    BY DEF Phase
  <2>2. Rank(p) = 0 \/ Rank(p) = 1 \/ Rank(p) = 2 \/ Rank(p) = 3 \/ Rank(p) = 4
    BY <1>1, <2>1
  <2> QED
    BY <2>2
<1> QED
  BY <1>1, <1>2

LEMMA RankOrder ==
  /\ Rank("") <= Rank("Creating") /\ Rank("Creating") <= Rank("Running")
  /\ Rank("Creating") <= Rank("Failed") /\ Rank("Running") <= Rank("Failed")
<1>1. 0 <= 1 /\ 1 <= 2 /\ 1 <= 3 /\ 2 <= 3
  OBVIOUS
<1> QED
  BY <1>1, RankFacts, Zenon

LEMMA PhaseRank ==
  ASSUME NEW s \in Session
  PROVE  s.phase \in Phase /\ Rank(s.phase) \in Nat /\ Rank(s.phase) <= Rank(s.phase)
         /\ Rank(s.phase) <= 4 /\ s.rv \in Nat /\ s.rv <= s.rv
<1>1. s.phase \in Phase /\ s.rv \in Nat
  BY DEF Session
<1>2. Rank(s.phase) \in Nat /\ Rank(s.phase) <= 4
  BY <1>1, RankFacts
<1> QED
  BY <1>1, <1>2

\* A copy stays one while the store moves on.
LEMMA CopyKept ==
  ASSUME TypeOK, StoreMoves, NEW c \in Session, CopyOf(c)
  PROVE  CopyOf(c)'
<1>1. c.uid <= born' /\ <<c.uid, "">> \in stored'
  BY DEF StoreMoves, CopyOf
<1>2. ASSUME api' # None, api'.uid = c.uid
      PROVE  c.rv <= api'.rv /\ (c.deleting => api'.deleting) /\ (c.fin => api'.fin)
  <2>1. CASE api' = api
    BY <1>2, <2>1 DEF CopyOf, Live
  <2>2. CASE /\ api \in Session /\ api' \in Session
             /\ api'.uid = api.uid
             /\ api.rv <= api'.rv
             /\ api.deleting => api'.deleting
             /\ api.fin => api'.fin
    <3>1. c.rv <= api.rv /\ (c.deleting => api.deleting) /\ (c.fin => api.fin)
      BY <1>2, <2>2, NoneFacts DEF CopyOf, Live
    <3>2. c.rv \in Nat /\ api.rv \in Nat /\ api'.rv \in Nat
      BY <2>2 DEF Session
    <3>3. c.rv <= api'.rv
      BY <2>2, <3>1, <3>2
    <3> QED
      BY <2>2, <3>1, <3>3, Zenon
  <2> QED
    BY <2>1, <2>2 DEF StoreMoves
<1> QED
  BY <1>1, <1>2 DEF CopyOf, Live

LEMMA PhaseKept ==
  ASSUME TypeOK, StoreMoves, NEW c \in Session, CopyOf(c), PhaseCopied(c)
  PROVE  PhaseCopied(c)'
<1>1. <<c.uid, c.phase>> \in stored'
  BY DEF StoreMoves, PhaseCopied
<1>2. ASSUME api' # None, api'.uid = c.uid
      PROVE  Rank(c.phase) <= Rank(api'.phase) /\ (c.rv = api'.rv => c.phase = api'.phase)
  <2>1. CASE api' = api
    BY <1>2, <2>1 DEF PhaseCopied, Live
  <2>2. CASE /\ api \in Session /\ api' \in Session
             /\ api'.uid = api.uid
             /\ api.rv <= api'.rv
             /\ api'.rv = api.rv => api' = api
             /\ Rank(api.phase) <= Rank(api'.phase)
    <3>1. /\ c.rv <= api.rv /\ Rank(c.phase) <= Rank(api.phase)
          /\ c.rv = api.rv => c.phase = api.phase
      BY <1>2, <2>2, NoneFacts DEF CopyOf, PhaseCopied, Live
    <3>2. /\ Rank(c.phase) \in Nat /\ Rank(api.phase) \in Nat /\ Rank(api'.phase) \in Nat
          /\ c.rv \in Nat /\ api.rv \in Nat /\ api'.rv \in Nat
      BY <2>2, RankFacts DEF Session
    <3> QED
      BY <2>2, <3>1, <3>2
  <2> QED
    BY <2>1, <2>2 DEF StoreMoves
<1> QED
  BY <1>1, <1>2 DEF PhaseCopied, Live, Rank

LEMMA CacheKept ==
  ASSUME TypeOK, CacheInv, StoreMoves, cache' = cache
  PROVE  CacheInv'
<1> SUFFICES ASSUME cache # None PROVE CacheInv'
  BY DEF CacheInv
<1>1. cache \in Session /\ CopyOf(cache) /\ PhaseCopied(cache)
  BY DEF TypeOK, CacheInv
<1>2. CopyOf(cache)'
  BY <1>1, CopyKept DEF CopyOf, Live
<1>3. PhaseCopied(cache)'
  BY <1>1, PhaseKept DEF PhaseCopied, Live
<1>4. (cache.fin /\ ~cache.deleting => Live(cache.uid))'
  BY NoneFacts DEF CacheInv, StoreMoves, Live
<1> QED
  BY <1>2, <1>3, <1>4 DEF CacheInv

\* An idle worker holds no copy.
LEMMA IdleWorker ==
  ASSUME pc' = "idle" PROVE WorkerInv'
  BY DEF WorkerInv, Forward, Deletion

\* A worker that waits while the store moves on.
LEMMA WorkerKept ==
  ASSUME TypeOK, WorkerInv, StoreMoves, pc' = pc, mem' = mem,
         cache' = cache \/ cache' = api, api' = api \/ cache' = cache
  PROVE  WorkerInv'
<1> SUFFICES ASSUME pc # "idle" PROVE WorkerInv'
  BY IdleWorker, SMTT(40)
<1>1. mem \in Session /\ CopyOf(mem)
  BY DEF TypeOK, WorkerInv
<1>2. CopyOf(mem)'
  BY <1>1, CopyKept DEF CopyOf, Live
<1>3. pc \in Forward => (Live(mem.uid) /\ mem.fin /\ PhaseCopied(mem))'
  <2> SUFFICES ASSUME pc \in Forward PROVE (Live(mem.uid) /\ mem.fin /\ PhaseCopied(mem))'
    OBVIOUS
  <2>1. Live(mem.uid) /\ mem.fin /\ PhaseCopied(mem)
    BY DEF WorkerInv
  <2>2. PhaseCopied(mem)'
    BY <1>1, <2>1, PhaseKept DEF PhaseCopied, Live
  <2>3. Live(mem.uid)'
    BY <2>1, NoneFacts DEF StoreMoves, Live
  <2> QED
    BY <2>1, <2>2, <2>3
<1>4. pc \in Deletion => /\ mem.deleting
                         /\ Live(mem.uid)' => cache' # None /\ cache'.uid = mem.uid /\ cache'.deleting
  <2> SUFFICES ASSUME pc \in Deletion, Live(mem.uid)'
               PROVE  mem.deleting /\ cache' # None /\ cache'.uid = mem.uid /\ cache'.deleting
    BY DEF WorkerInv
  <2>1. Live(mem.uid)
    BY NoneFacts DEF StoreMoves, Live
  <2>2. mem.deleting /\ cache # None /\ cache.uid = mem.uid /\ cache.deleting
    BY <2>1 DEF WorkerInv
  <2>3. api # None /\ api.uid = mem.uid /\ api.deleting
    BY <1>1, <2>1, <2>2 DEF CopyOf, Live
  <2> QED
    BY <2>2, <2>3
<1>5. /\ pc \in {"publish", "annotate"} => mem.phase # ""
      /\ pc \in {"ensure", "checkPod"} => mem.phase = "Creating"
      /\ pc \in {"fail", "failRetry"} => mem.phase \in {"Creating", "Running"}
      /\ pc \in {"delPublish", "delFinalizer"} => mem.phase = "Terminating"
  BY DEF WorkerInv
<1> QED
  BY <1>2, <1>3, <1>4, <1>5 DEF WorkerInv

\* What was published stays behind the cache when nothing is published and the
\* annotation is left alone.
LEMMA EventsKept ==
  ASSUME TypeOK, EventInv, sent' = sent, taken \subseteq taken', cache' = cache,
         \/ api' = None
         \/ api' = api
         \/ api # None /\ api' # None /\ api'.uid = api.uid /\ api'.annot = api.annot,
         pc' \notin {"publish", "annotate"} \/ (pc' = pc /\ mem' = mem)
  PROVE  EventInv'
<1>1. \A u \in Uid : Live(u)' => Live(u)
  BY DEF Live
<1>2. (\A u \in Uid, p \in Phase :
        <<u, p>> \in sent /\ Live(u) =>
         /\ cache # None /\ cache.uid = u
         /\ ~cache.deleting => Rank(p) <= Rank(cache.phase))'
  BY <1>1 DEF EventInv, Rank
<1>3. AnnotationHonest'
  BY DEF EventInv, AnnotationHonest
<1>4. /\ (pc = "publish" =>
            /\ cache # None /\ cache.uid = mem.uid /\ Rank(mem.phase) <= Rank(cache.phase)
            /\ \A p \in Phase : <<mem.uid, p>> \in sent => Rank(p) <= Rank(mem.phase))'
      /\ (pc = "annotate" => <<mem.uid, mem.phase>> \in taken)'
  BY DEF EventInv, Rank
<1> QED
  BY <1>2, <1>3, <1>4 DEF EventInv

-----------------------------------------------------------------------------
(***************************************************************************)
(* The steps of the worker                                                 *)
(***************************************************************************)

\* The stored session when a copy of it is current.
LEMMA CurrentFacts ==
  ASSUME TypeOK, StoreInv, WorkerInv, pc # "idle", Current(mem)
  PROVE  /\ mem \in Session /\ api \in Session /\ Live(mem.uid)
         /\ api.uid = mem.uid
         /\ mem.fin => api.fin
         /\ mem.deleting => api.deleting /\ api.fin
         /\ pc \in Forward => api.phase = mem.phase /\ api.fin
<1>1. mem \in Session /\ api \in Session /\ Live(mem.uid) /\ api.uid = mem.uid
      /\ api.rv = mem.rv /\ CopyOf(mem)
  BY DEF TypeOK, Current, Live, WorkerInv
<1>2. (mem.fin => api.fin) /\ (mem.deleting => api.deleting)
  BY <1>1 DEF CopyOf
<1>3. api.deleting => api.fin
  BY <1>1, NoneFacts DEF StoreInv
<1>4. pc \in Forward => api.phase = mem.phase /\ mem.fin
  BY <1>1 DEF WorkerInv, PhaseCopied
<1> QED
  BY <1>1, <1>2, <1>3, <1>4

\* A status update moves the store forward when its phase is no earlier than
\* the stored one and the stored session has the finalizer.
LEMMA StatusMove ==
  ASSUME TypeOK, StoreInv, WorkerInv, pc # "idle",
         NEW m \in Session, m.uid = mem.uid, m.rv = mem.rv,
         NEW o \in Outcome, StatusUpdate(m, o), born' = born, sent' = sent,
         Current(mem) => api.fin /\ Rank(api.phase) <= Rank(m.phase)
  PROVE  /\ StoreMoves /\ StoreInv'
         /\ \/ api' = api
            \/ api # None /\ api' # None /\ api'.uid = api.uid /\ api'.annot = api.annot
<1>1. \/ api' = api /\ stored' = stored
      \/ /\ Current(m)
         /\ api \in Session /\ api' \in Session
         /\ api'.uid = api.uid /\ api'.annot = api.annot
         /\ api'.deleting = api.deleting /\ api'.fin = api.fin
         /\ api'.phase = m.phase
         /\ api.rv <= api'.rv /\ (api'.rv = api.rv => api' = api)
         /\ stored' = stored \cup {<<m.uid, m.phase>>}
  BY StatusUpdateEffect, SMTT(40) DEF TypeOK
<1>2. CASE api' = api /\ stored' = stored
  BY <1>2 DEF StoreMoves, StoreInv
<1>3. CASE /\ Current(m)
           /\ api \in Session /\ api' \in Session
           /\ api'.uid = api.uid /\ api'.annot = api.annot
           /\ api'.deleting = api.deleting /\ api'.fin = api.fin
           /\ api'.phase = m.phase
           /\ api.rv <= api'.rv /\ (api'.rv = api.rv => api' = api)
           /\ stored' = stored \cup {<<m.uid, m.phase>>}
  <2>1. Current(mem)
    BY <1>3, SMTT(40) DEF Current
  <2>2. api.fin /\ Rank(api.phase) <= Rank(m.phase) /\ api.uid = m.uid /\ m.uid <= born
    BY <2>1, CurrentFacts DEF WorkerInv, CopyOf
  <2>3. StoreMoves
    BY <1>3, <2>2 DEF StoreMoves
  <2>4. api # None /\ api' # None
    BY <1>3, NoneFacts, SMTT(40)
  <2>5. api.uid = born /\ <<api.uid, "">> \in stored
    BY <2>4 DEF StoreInv
  <2>6. (\A u \in Uid, p \in Phase : <<u, p>> \in stored \cup sent => u <= born)'
    BY <1>3, <2>2 DEF StoreInv
  <2>7. StoreInv'
    BY <1>3, <2>2, <2>4, <2>5, <2>6 DEF StoreInv
  <2> QED
    BY <1>3, <2>3, <2>4, <2>7
<1> QED
  BY <1>1, <1>2, <1>3, SMTT(40)

\* A reconcile that returns after the store moved on.
LEMMA ReturnKept ==
  ASSUME IInv, TypeOK', StoreMoves, StoreInv', pc' = "idle",
         UNCHANGED <<sent, taken, cache>>,
         \/ api' = api
         \/ api # None /\ api' # None /\ api'.uid = api.uid /\ api'.annot = api.annot
  PROVE  IInv'
<1>1. CacheInv'
  BY CacheKept DEF IInv
<1>2. WorkerInv'
  BY IdleWorker
<1>3. EventInv'
  BY EventsKept DEF IInv
<1> QED
  BY <1>1, <1>2, <1>3 DEF IInv

\* A step that leaves the store, the cache and the broker alone.
LEMMA StoreSame ==
  ASSUME IInv, UNCHANGED <<api, stored, born, sent>>
  PROVE  StoreMoves /\ StoreInv'
  BY DEF IInv, StoreInv, StoreMoves

\* A reconcile that moves on to another location towards Running, without a
\* write, keeping the session it holds up to the pod's name.
LEMMA MoveKept ==
  ASSUME IInv, TypeOK', UNCHANGED <<api, stored, born, sent, taken, cache>>,
         pc \in Forward, pc' \in Forward \ {"publish", "annotate"},
         mem' \in Session,
         mem'.uid = mem.uid, mem'.rv = mem.rv, mem'.deleting = mem.deleting,
         mem'.fin = mem.fin, mem'.phase = mem.phase,
         pc' \in {"ensure", "checkPod"} => mem.phase = "Creating",
         pc' \in {"fail", "failRetry"} => mem.phase \in {"Creating", "Running"}
  PROVE  IInv'
<1>1. StoreMoves /\ StoreInv' /\ CacheInv'
  BY StoreSame, CacheKept DEF IInv
<1>2. WorkerInv'
  <2>1. CopyOf(mem) /\ Live(mem.uid) /\ mem.fin /\ PhaseCopied(mem)
    BY DEF IInv, WorkerInv, Forward
  <2>2. CopyOf(mem)' /\ Live(mem.uid)' /\ mem'.fin /\ PhaseCopied(mem)'
    BY <2>1 DEF CopyOf, Live, PhaseCopied, Rank
  <2>3. pc' \notin Deletion /\ pc' \notin {"delPublish", "delFinalizer"}
    BY DEF Forward, Deletion
  <2> QED
    BY <2>2, <2>3 DEF WorkerInv
<1>3. EventInv'
  BY EventsKept DEF IInv
<1> QED
  BY <1>1, <1>2, <1>3 DEF IInv

\* A reconcile starts from the cache: with the finalizer and without a deletion
\* mark there, the session is still stored.
LEMMA ReconcileInv == IInv /\ Reconcile => IInv'
<1> SUFFICES ASSUME IInv, Reconcile PROVE IInv'
  OBVIOUS
<1>1. TypeOK'
  BY ReconcileType DEF IInv
<1>2. UNCHANGED <<api, stored, born, sent, taken, cache>> /\ pc = "idle"
  BY DEF Reconcile, store, informers, broker
<1>3. StoreMoves /\ StoreInv' /\ CacheInv'
  BY <1>2, StoreSame, CacheKept DEF IInv
<1>4. CASE cache = None
  <2>1. pc' = "idle"
    BY <1>2, <1>4 DEF Reconcile, worker
  <2> QED
    BY <1>1, <1>2, <1>3, <2>1, ReturnKept
<1>5. CASE cache # None
  <2>1. /\ mem' = cache /\ cache \in Session /\ CopyOf(cache) /\ PhaseCopied(cache)
        /\ cache.fin /\ ~cache.deleting => Live(cache.uid)
    BY <1>5 DEF Reconcile, IInv, TypeOK, CacheInv
  <2>2. \/ pc' = "delStatus" /\ cache.deleting
        \/ pc' = "finalizer"
        \/ pc' = "publish" /\ ~cache.deleting /\ cache.fin /\ cache.phase # ""
        \/ pc' = "phase" /\ ~cache.deleting /\ cache.fin
    BY <1>5, ZenonT(40) DEF Reconcile, Unpublished
  <2>3. CopyOf(mem)' /\ PhaseCopied(mem)'
    BY <1>2, <2>1 DEF CopyOf, PhaseCopied, Live, Rank
  <2>4. WorkerInv'
    <3>1. pc' \in Forward => Live(mem.uid)' /\ mem'.fin
      BY <1>2, <2>1, <2>2 DEF Forward, Live
    <3>2. pc' \in {"publish", "annotate"} => mem'.phase # ""
      BY <2>1, <2>2
    <3>3. pc' \notin {"ensure", "checkPod", "fail", "failRetry", "delPublish", "delFinalizer"}
      BY <2>2
    <3>4. pc' \in Deletion => mem'.deleting /\ cache' # None /\ cache'.uid = mem'.uid /\ cache'.deleting
      BY <1>2, <1>5, <2>1, <2>2 DEF Deletion
    <3> QED
      BY <2>3, <3>1, <3>2, <3>3, <3>4, ZenonT(40) DEF WorkerInv
  <2>5. CASE pc' # "publish"
    <3>1. pc' \notin {"publish", "annotate"}
      BY <2>2, <2>5
    <3>2. EventInv'
      BY <1>2, <3>1, EventsKept, SMTT(40) DEF IInv
    <3> QED
      BY <1>1, <1>3, <2>4, <3>2 DEF IInv
  <2>6. CASE pc' = "publish"
    <3>1. ~cache.deleting /\ Live(cache.uid)
      BY <2>1, <2>2, <2>6, ZenonT(40)
    <3>2. \A p \in Phase : <<cache.uid, p>> \in sent => Rank(p) <= Rank(cache.phase)
      BY <2>1, <3>1 DEF IInv, EventInv, Session
    <3>3. Rank(cache.phase) <= Rank(cache.phase)
      BY <2>1, PhaseRank
    <3>4. (\A u \in Uid, p \in Phase :
            <<u, p>> \in sent /\ Live(u) =>
             /\ cache # None /\ cache.uid = u
             /\ ~cache.deleting => Rank(p) <= Rank(cache.phase))'
      BY <1>2 DEF IInv, EventInv, Live, Rank
    <3>5. AnnotationHonest'
      BY <1>2 DEF IInv, EventInv, AnnotationHonest
    <3>6. EventInv'
      BY <1>2, <1>5, <2>1, <2>6, <3>2, <3>3, <3>4, <3>5, SMTT(40) DEF EventInv, Rank
    <3> QED
      BY <1>1, <1>3, <2>4, <3>6 DEF IInv
  <2> QED
    BY <2>5, <2>6, SMTT(40)
<1> QED
  BY <1>4, <1>5

LEMMA AddFinalizerInv == IInv /\ AddFinalizer => IInv'
<1> SUFFICES ASSUME IInv, AddFinalizer PROVE IInv'
  OBVIOUS
<1>1. TypeOK'
  BY AddFinalizerType DEF IInv
<1>2. UNCHANGED <<stored, born, sent, taken, cache>> /\ pc' = "idle" /\ pc = "finalizer"
  BY DEF AddFinalizer, Finish, informers, broker
<1>3. PICK o \in Outcome :
        /\ Answer(mem, o)
        /\ api' = IF Applied(o) THEN Version(api, [api EXCEPT !.fin = TRUE]) ELSE api
  BY DEF AddFinalizer
<1>4. CASE ~Applied(o)
  BY <1>1, <1>2, <1>3, <1>4, StoreSame, ReturnKept, SMTT(40)
<1>5. CASE Applied(o)
  <2> DEFINE t == [api EXCEPT !.fin = TRUE]
  <2>1. api \in Session /\ api # None
    BY <1>3, <1>5, AnswerEffect, SMTT(40) DEF Current, IInv, TypeOK
  <2>2. /\ t \in Session /\ t.rv = api.rv /\ t.uid = api.uid /\ t.annot = api.annot
        /\ t.deleting = api.deleting /\ t.fin = TRUE /\ t.phase = api.phase
    BY <2>1, Zenon DEF Session
  <2>3. api' = Version(api, t)
    BY <1>3, <1>5
  <2> HIDE DEF t
  <2>4. /\ api' \in Session /\ api'.uid = api.uid /\ api'.annot = api.annot
        /\ api'.deleting = api.deleting /\ api'.fin = TRUE /\ api'.phase = api.phase
        /\ api.rv <= api'.rv /\ (api'.rv = api.rv => api' = api)
    BY <2>1, <2>2, <2>3, VersionFacts
  <2>5. Rank(api.phase) <= Rank(api'.phase)
    BY <2>1, <2>4, PhaseRank
  <2>6. StoreMoves
    BY <1>2, <2>1, <2>4, <2>5 DEF StoreMoves
  <2>7. StoreInv'
    BY <1>2, <2>1, <2>4 DEF IInv, StoreInv
  <2> QED
    BY <1>1, <1>2, <2>1, <2>4, <2>6, <2>7, NoneFacts, ReturnKept, SMTT(40)
<1> QED
  BY <1>4, <1>5

\* The cache is not behind what publishPhase publishes, nor behind anything
\* published before.
LEMMA PublishPhaseInv == IInv /\ PublishPhase => IInv'
<1> SUFFICES ASSUME IInv, PublishPhase PROVE IInv'
  OBVIOUS
<1>1. TypeOK'
  BY PublishPhaseType DEF IInv
<1>2. PICK ok \in BOOLEAN : /\ Publish(mem, ok)
                            /\ pc' = IF ok THEN "annotate" ELSE "phase"
  BY Zenon DEF PublishPhase
<1>3. UNCHANGED <<mem, api, stored, born, cache>> /\ pc = "publish" /\ pc \in Forward
  BY SMTT(40) DEF PublishPhase, store, informers, Forward
<1>4. /\ mem \in Session /\ CopyOf(mem) /\ Live(mem.uid) /\ mem.fin /\ PhaseCopied(mem)
      /\ mem.phase # ""
  BY <1>3, ZenonT(40) DEF IInv, TypeOK, WorkerInv
<1>5. /\ sent' \in {sent, sent \cup {<<mem.uid, mem.phase>>}}
      /\ taken \subseteq taken' /\ (ok => <<mem.uid, mem.phase>> \in taken')
  BY <1>2, <1>4, PublishEffect, ZenonT(40) DEF IInv
<1>6. StoreMoves /\ CacheInv'
  BY <1>3, CacheKept DEF StoreMoves, IInv
<1>7. StoreInv'
  <2>1. (\A u \in Uid, p \in Phase : <<u, p>> \in stored \cup sent => u <= born)'
    <3> SUFFICES ASSUME NEW u \in Uid, NEW p \in Phase, <<u, p>> \in stored \cup sent'
                 PROVE  u <= born
      BY <1>3
    <3>1. <<u, p>> \in stored \cup sent \/ <<u, p>> = <<mem.uid, mem.phase>>
      BY <1>5
    <3>2. mem.uid <= born
      BY <1>4, ZenonT(40) DEF CopyOf
    <3> QED
      BY <3>1, <3>2 DEF IInv, StoreInv
  <2> QED
    BY <1>3, <2>1 DEF IInv, StoreInv
<1>8. WorkerInv'
  <2>1. CopyOf(mem)' /\ Live(mem.uid)' /\ mem'.fin /\ PhaseCopied(mem)'
    BY <1>3, <1>4 DEF CopyOf, Live, PhaseCopied, Rank
  <2>2. pc' = "annotate" \/ pc' = "phase"
    BY <1>2
  <2>3. mem'.phase # ""
    BY <1>3, <1>4, ZenonT(40)
  <2> QED
    BY <2>1, <2>2, <2>3, ZenonT(40) DEF WorkerInv, Forward, Deletion
<1>9. EventInv'
  <2>1. \A u \in Uid, p \in Phase :
          <<u, p>> \in sent' /\ Live(u) =>
           /\ cache # None /\ cache.uid = u
           /\ ~cache.deleting => Rank(p) <= Rank(cache.phase)
    BY <1>3, <1>5, SMTT(40) DEF IInv, EventInv
  <2>2. AnnotationHonest'
    BY <1>3, <1>5 DEF IInv, EventInv, AnnotationHonest
  <2>3. pc' = "annotate" => <<mem.uid, mem.phase>> \in taken'
    BY <1>2, <1>5
  <2>4. pc' # "publish"
    BY <1>2
  <2> QED
    BY <1>3, <2>1, <2>2, <2>3, <2>4, SMTT(40) DEF EventInv, Live, Rank
<1> QED
  BY <1>1, <1>6, <1>7, <1>8, <1>9 DEF IInv

\* The session the patch is applied to is the one whose phase was published,
\* for its finalizer keeps it stored.
LEMMA RecordInv == IInv /\ RecordPublishedPhase => IInv'
<1> SUFFICES ASSUME IInv, RecordPublishedPhase PROVE IInv'
  OBVIOUS
<1>1. TypeOK'
  BY RecordType DEF IInv
<1>2. /\ UNCHANGED <<stored, born, sent, taken, cache>> /\ pc = "annotate" /\ pc' = "phase"
      /\ pc \in Forward
  BY DEF RecordPublishedPhase, informers, broker, Forward
<1>3. /\ mem \in Session /\ mem' \in Session
      /\ \/ api' = api /\ mem' = [mem EXCEPT !.annot = mem.phase]
         \/ /\ api \in Session /\ api' \in Session
            /\ api'.uid = api.uid /\ api'.annot = mem.phase
            /\ api'.deleting = api.deleting /\ api'.fin = api.fin
            /\ api'.phase = api.phase
            /\ api.rv <= api'.rv /\ (api'.rv = api.rv => api' = api)
            /\ mem' = api' \/ mem' = [mem EXCEPT !.annot = mem.phase]
  BY RecordEffect, SMTT(40) DEF IInv
<1>4. /\ CopyOf(mem) /\ Live(mem.uid) /\ mem.fin /\ PhaseCopied(mem) /\ mem.phase # ""
      /\ <<mem.uid, mem.phase>> \in taken /\ api.fin
      /\ api \in Session /\ api.uid = mem.uid
  BY <1>2 DEF IInv, TypeOK, WorkerInv, EventInv, CopyOf, Live
<1>5. /\ api' \in Session /\ api'.uid = api.uid
      /\ api'.deleting = api.deleting /\ api'.fin = api.fin /\ api'.phase = api.phase
      /\ api.rv <= api'.rv /\ (api'.rv = api.rv => api' = api)
  <2>1. api.rv <= api.rv
    BY <1>4, PhaseRank
  <2>2. CASE api' = api
    BY <1>4, <2>1, <2>2, ZenonT(40)
  <2> QED
    BY <1>3, <2>2, SMTT(40)
<1>6. StoreMoves
  BY <1>2, <1>4, <1>5, PhaseRank, ZenonT(40) DEF StoreMoves
<1>7. StoreInv'
  BY <1>2, <1>4, <1>5, NoneFacts DEF IInv, StoreInv
<1>8. CacheInv'
  BY <1>2, <1>6, CacheKept DEF IInv
<1>9. CopyOf(mem)' /\ Live(mem.uid)' /\ mem'.fin /\ PhaseCopied(mem)'
  <2>0. Live(mem.uid)' /\ mem'.uid = mem.uid
    BY <1>3, <1>4, <1>5, NoneFacts, ZenonT(40) DEF Live, Session
  <2>1. CASE mem' = api'
    <3>1. api.uid <= born /\ <<api.uid, "">> \in stored /\ <<api.uid, api.phase>> \in stored
      BY <1>2, <1>4, NoneFacts DEF IInv, StoreInv, CopyOf
    <3>2. api'.rv <= api'.rv /\ Rank(api'.phase) <= Rank(api'.phase)
      BY <1>5, PhaseRank DEF Session
    <3> QED
      BY <1>2, <1>4, <1>5, <2>0, <2>1, <3>1, <3>2 DEF CopyOf, PhaseCopied, Rank
  <2>2. CASE mem' = [mem EXCEPT !.annot = mem.phase]
    <3>1. /\ mem'.uid = mem.uid /\ mem'.rv = mem.rv /\ mem'.phase = mem.phase
          /\ mem'.fin = mem.fin /\ mem'.deleting = mem.deleting
      BY <1>3, <2>2 DEF Session
    <3>2. CopyOf(mem)' <=> /\ mem.uid <= born' /\ <<mem.uid, "">> \in stored'
                           /\ Live(mem.uid)' => /\ mem.rv <= api'.rv
                                                /\ mem.deleting => api'.deleting
                                                /\ mem.fin => api'.fin
      BY <3>1 DEF CopyOf
    <3>3. CopyOf(mem)'
      BY <1>2, <1>3, <1>4, <1>6, <3>1, CopyKept DEF CopyOf, Live, IInv
    <3>4. PhaseCopied(mem)'
      BY <1>2, <1>3, <1>4, <1>6, <3>1, PhaseKept, ZenonT(40) DEF PhaseCopied, Live, IInv
    <3> QED
      BY <1>4, <2>0, <3>1, <3>3, <3>4
  <2> QED
    BY <1>3, <2>1, <2>2
<1>10. WorkerInv'
  BY <1>2, <1>9 DEF WorkerInv, Forward, Deletion
<1>11. EventInv'
  <2>1. AnnotationHonest'
    BY <1>2, <1>3, <1>4, <1>5 DEF IInv, EventInv, AnnotationHonest
  <2>2. \A u \in Uid : Live(u)' => Live(u)
    BY <1>4, <1>5, NoneFacts, ZenonT(40) DEF Live
  <2>3. (\A u \in Uid, p \in Phase :
          <<u, p>> \in sent /\ Live(u) =>
           /\ cache # None /\ cache.uid = u
           /\ ~cache.deleting => Rank(p) <= Rank(cache.phase))'
    BY <1>2, <2>2, SMTT(40) DEF IInv, EventInv, Rank
  <2> QED
    BY <1>2, <2>1, <2>3 DEF EventInv
<1> QED
  BY <1>1, <1>7, <1>8, <1>10, <1>11, SMTT(40) DEF IInv

LEMMA ReconcilePendingInv == IInv /\ ReconcilePending => IInv'
<1> SUFFICES ASSUME IInv, ReconcilePending PROVE IInv'
  OBVIOUS
<1> DEFINE m == [mem EXCEPT !.phase = "Creating", !.start = now]
<1>1. TypeOK'
  BY ReconcilePendingType DEF IInv
<1>2. /\ UNCHANGED <<born, sent, taken, cache>> /\ pc' = "idle" /\ pc = "phase" /\ pc \in Forward
      /\ mem.phase = ""
  BY DEF ReconcilePending, Finish, informers, broker, Forward
<1>3. PICK o \in Outcome : StatusUpdate(m, o)
  BY DEF ReconcilePending
<1>4. mem \in Session /\ now \in Nat
  <2>1. mem \in Session /\ now \in 0 .. MaxTime
    BY <1>2 DEF IInv, TypeOK
  <2> QED
    BY <2>1, ConstantsAssumption, SMTT(40)
<1>5. m \in Session /\ m.uid = mem.uid /\ m.rv = mem.rv /\ m.phase = "Creating"
  BY <1>4, ZenonT(40) DEF Session, Phase
<1> HIDE DEF m
<1>6. Current(mem) => api.fin /\ Rank(api.phase) <= Rank(m.phase)
  <2>1. Current(mem) => api.fin /\ api.phase = ""
    BY <1>2, CurrentFacts DEF IInv
  <2> QED
    BY <1>5, <2>1, RankOrder
<1> QED
  BY <1>1, <1>2, <1>3, <1>5, <1>6, StatusMove, ReturnKept, ZenonT(40) DEF IInv

LEMMA StartCreatingInv == IInv /\ StartCreating => IInv'
<1> SUFFICES ASSUME IInv, StartCreating PROVE IInv'
  OBVIOUS
<1>1. TypeOK'
  BY StartCreatingType DEF IInv
<1>2. UNCHANGED <<api, stored, born, sent, taken, cache, mem>> /\ pc = "phase" /\ pc' = "ensure"
      /\ mem.phase = "Creating"
  BY SMTT(40) DEF StartCreating, GoTo, store, informers, broker
<1>3. mem \in Session
  BY <1>2 DEF IInv, TypeOK
<1> QED
  BY <1>1, <1>2, <1>3, MoveKept DEF Forward

\* The ensure functions write no session: the worker keeps its copy or returns.
LEMMA EnsureInv == IInv /\ (EnsureObject \/ EnsureSecret) => IInv'
<1> SUFFICES ASSUME IInv, EnsureObject \/ EnsureSecret PROVE IInv'
  OBVIOUS
<1>1. TypeOK'
  BY EnsureObjectType, EnsureSecretType, SMTT(40) DEF IInv
<1>2. UNCHANGED <<api, stored, born, sent, taken, cache>> /\ pc = "ensure" /\ pc \in Forward
  BY Zenon DEF EnsureObject, EnsureSecret, store, informers, broker, Forward
<1>3. mem \in Session /\ mem.phase = "Creating"
  BY <1>2 DEF IInv, TypeOK, WorkerInv
<1>4. Ensured \/ Finish(TRUE) \/ GoTo("fail") \/ GoTo("failRetry")
  BY Zenon DEF EnsureObject, EnsureSecret, HandleCreateError
<1>5. CASE Ensured
  <2>1. pc' \in {"ensure", "checkPod"} /\ (mem' = mem \/ mem' = [mem EXCEPT !.podName = TRUE])
    BY <1>2, <1>5 DEF Ensured
  <2>2. /\ mem' \in Session /\ mem'.uid = mem.uid /\ mem'.rv = mem.rv
        /\ mem'.deleting = mem.deleting /\ mem'.fin = mem.fin /\ mem'.phase = mem.phase
    BY <1>3, <2>1, ZenonT(40) DEF Session
  <2> QED
    BY <1>1, <1>2, <1>3, <2>1, <2>2, MoveKept DEF Forward
<1>6. CASE Finish(TRUE)
  <2>1. pc' = "idle"
    BY <1>6 DEF Finish
  <2> QED
    BY <1>1, <1>2, <2>1, StoreSame, ReturnKept
<1>7. CASE GoTo("fail") \/ GoTo("failRetry")
  <2>1. pc' \in {"fail", "failRetry"} /\ mem' = mem
    BY <1>7 DEF GoTo
  <2> QED
    BY <1>1, <1>2, <1>3, <2>1, MoveKept DEF Forward
<1> QED
  BY <1>4, <1>5, <1>6, <1>7

LEMMA CheckPodInv == IInv /\ CheckPod => IInv'
<1> SUFFICES ASSUME IInv, CheckPod PROVE IInv'
  OBVIOUS
<1>1. TypeOK'
  BY CheckPodType DEF IInv
<1>2. UNCHANGED <<born, sent, taken, cache>> /\ pc = "checkPod" /\ pc \in Forward
  BY DEF CheckPod, informers, broker, Forward
<1>3. mem \in Session /\ mem.phase = "Creating"
  BY <1>2 DEF IInv, TypeOK, WorkerInv
<1>4. \/ Finish(TRUE) /\ UNCHANGED store
      \/ GoTo("fail") /\ UNCHANGED store
      \/ \E o \in Outcome : StatusUpdate(RunningStatus(mem), o) /\ Finish(o # "ok")
  BY Zenon DEF CheckPod
<1>5. CASE Finish(TRUE) /\ UNCHANGED store
  <2>1. pc' = "idle" /\ UNCHANGED <<api, stored>>
    BY <1>5 DEF Finish, store
  <2> QED
    BY <1>1, <1>2, <2>1, StoreSame, ReturnKept
<1>6. CASE GoTo("fail") /\ UNCHANGED store
  <2>1. pc' = "fail" /\ UNCHANGED <<api, stored, mem>>
    BY <1>6, SMTT(40) DEF GoTo, store
  <2> QED
    BY <1>1, <1>2, <1>3, <2>1, MoveKept DEF Forward
<1>7. ASSUME NEW o \in Outcome, StatusUpdate(RunningStatus(mem), o), Finish(o # "ok")
      PROVE  IInv'
  <2>1. pc' = "idle"
    BY <1>7 DEF Finish
  <2>2. /\ RunningStatus(mem) \in Session /\ RunningStatus(mem).phase = "Running"
        /\ RunningStatus(mem).uid = mem.uid /\ RunningStatus(mem).rv = mem.rv
    BY <1>3, StatusWritten DEF IInv
  <2>3. Current(mem) => api.fin /\ Rank(api.phase) <= Rank(RunningStatus(mem).phase)
    <3>1. Current(mem) => api.fin /\ api.phase = "Creating"
      BY <1>2, <1>3, CurrentFacts DEF IInv
    <3> QED
      BY <2>2, <3>1, RankOrder, ZenonT(40)
  <2> QED
    BY <1>1, <1>2, <1>7, <2>1, <2>2, <2>3, StatusMove, ReturnKept DEF IInv
<1> QED
  BY <1>4, <1>5, <1>6, <1>7, Zenon

LEMMA ReconcileRunningInv == IInv /\ ReconcileRunning => IInv'
<1> SUFFICES ASSUME IInv, ReconcileRunning PROVE IInv'
  OBVIOUS
<1>1. TypeOK'
  BY ReconcileRunningType DEF IInv
<1>2. UNCHANGED <<born, sent, taken, cache>> /\ pc = "phase" /\ pc \in Forward /\ mem.phase = "Running"
  BY DEF ReconcileRunning, informers, broker, Forward
<1>3. mem \in Session
  BY <1>2 DEF IInv, TypeOK
<1>4. \/ Finish(TRUE) /\ UNCHANGED store
      \/ GoTo("fail") /\ UNCHANGED store
      \/ \E b \in BOOLEAN, o \in Outcome : StatusUpdate(SetPodReady(mem, b), o) /\ Finish(TRUE)
  BY Zenon DEF ReconcileRunning
<1>5. CASE Finish(TRUE) /\ UNCHANGED store
  <2>1. pc' = "idle" /\ UNCHANGED <<api, stored>>
    BY <1>5 DEF Finish, store
  <2> QED
    BY <1>1, <1>2, <2>1, StoreSame, ReturnKept
<1>6. CASE GoTo("fail") /\ UNCHANGED store
  <2>1. pc' = "fail" /\ UNCHANGED <<api, stored, mem>>
    BY <1>6 DEF GoTo, store
  <2>2. /\ pc' \in Forward \ {"publish", "annotate"} /\ mem' \in Session
        /\ pc' \notin {"ensure", "checkPod"}
        /\ UNCHANGED <<api, stored, born, sent, taken, cache>>
    BY <1>2, <1>3, <2>1, SMTT(40) DEF Forward
  <2> QED
    BY <1>1, <1>2, <2>1, <2>2, MoveKept, ZenonT(40)
<1>7. ASSUME NEW b \in BOOLEAN, NEW o \in Outcome,
             StatusUpdate(SetPodReady(mem, b), o), Finish(TRUE)
      PROVE  IInv'
  <2>1. pc' = "idle"
    BY <1>7 DEF Finish
  <2>2. /\ SetPodReady(mem, b) \in Session /\ SetPodReady(mem, b).phase = mem.phase
        /\ SetPodReady(mem, b).uid = mem.uid /\ SetPodReady(mem, b).rv = mem.rv
    BY <1>3, StatusWritten, SMTT(40) DEF IInv
  <2>3. Current(mem) => api.fin /\ Rank(api.phase) <= Rank(SetPodReady(mem, b).phase)
    <3>1. Current(mem) => api.fin /\ api.phase = mem.phase
      BY <1>2, CurrentFacts DEF IInv
    <3> QED
      BY <1>3, <2>2, <3>1, PhaseRank
  <2> QED
    BY <1>1, <1>2, <1>7, <2>1, <2>2, <2>3, StatusMove, ReturnKept DEF IInv
<1> QED
  BY <1>4, <1>5, <1>6, <1>7, Zenon

LEMMA ReconcileSettledInv == IInv /\ ReconcileSettled => IInv'
<1> SUFFICES ASSUME IInv, ReconcileSettled PROVE IInv'
  OBVIOUS
<1>1. TypeOK'
  BY ReconcileSettledType DEF IInv
<1>2. UNCHANGED <<api, stored, born, sent, taken, cache>> /\ pc' = "idle"
  BY SMTT(40) DEF ReconcileSettled, Finish, store, informers, broker
<1> QED
  BY <1>1, <1>2, StoreSame, ReturnKept

LEMMA UpdateStatusFailedInv == IInv /\ UpdateStatusFailed => IInv'
<1> SUFFICES ASSUME IInv, UpdateStatusFailed PROVE IInv'
  OBVIOUS
<1>1. TypeOK'
  BY UpdateStatusFailedType DEF IInv
<1>2. /\ UNCHANGED <<born, sent, taken, cache>> /\ pc' = "idle"
      /\ pc \in {"fail", "failRetry"} /\ pc \in Forward /\ pc # "idle"
  BY SMTT(40) DEF UpdateStatusFailed, Finish, informers, broker, Forward
<1>3. mem \in Session /\ mem.phase \in {"Creating", "Running"}
  BY <1>2, ZenonT(40) DEF IInv, TypeOK, WorkerInv
<1>4. PICK o \in Outcome : StatusUpdate(FailedStatus(mem), o)
  BY DEF UpdateStatusFailed
<1>5. /\ FailedStatus(mem) \in Session /\ FailedStatus(mem).phase = "Failed"
      /\ FailedStatus(mem).uid = mem.uid /\ FailedStatus(mem).rv = mem.rv
  BY <1>3, StatusWritten DEF IInv
<1>6. Current(mem) => api.fin /\ Rank(api.phase) <= Rank(FailedStatus(mem).phase)
  <2>1. Current(mem) => api.fin /\ (api.phase = "Creating" \/ api.phase = "Running")
    BY <1>2, <1>3, CurrentFacts DEF IInv
  <2> QED
    BY <1>5, <2>1, RankOrder
<1> QED
  BY <1>1, <1>2, <1>4, <1>5, <1>6, StatusMove, ReturnKept DEF IInv

\* A deletion goes on with its own copy, current or not; the session it is
\* about is deleted in the cache as well while it is stored.
LEMMA DeleteStatusInv == IInv /\ DeleteStatus => IInv'
<1> SUFFICES ASSUME IInv, DeleteStatus PROVE IInv'
  OBVIOUS
<1>1. TypeOK'
  BY DeleteStatusType DEF IInv
<1>2. UNCHANGED <<born, sent, taken, cache>> /\ pc = "delStatus" /\ pc \in Deletion
  BY SMTT(40) DEF DeleteStatus, informers, broker, Deletion
<1>3. /\ mem \in Session /\ CopyOf(mem) /\ mem.deleting
      /\ Live(mem.uid) => cache # None /\ cache.uid = mem.uid /\ cache.deleting
  BY <1>2 DEF IInv, TypeOK, WorkerInv
<1>4. PICK m \in Session : /\ m = TerminatingStatus(mem)
                           /\ m.phase = "Terminating" /\ m.uid = mem.uid /\ m.rv = mem.rv
                           /\ m.deleting = mem.deleting /\ m.fin = mem.fin
  BY <1>3, StatusWritten, Zenon DEF IInv
<1>5. PICK o \in Outcome :
       /\ StatusUpdate(m, o)
       /\ \/ Finish(FALSE)
          \/ mem' = (IF o = "ok" THEN api' ELSE m) /\ pc' \in {"delPublish", "delFinalizer"}
  BY <1>4, Zenon DEF DeleteStatus
<1>6. Current(mem) => api.fin /\ Rank(api.phase) <= Rank(m.phase)
  <2>1. Current(mem) => api.fin /\ api \in Session
    BY <1>2, <1>3, CurrentFacts, SMTT(40) DEF IInv
  <2> QED
    BY <1>4, <2>1, PhaseRank, RankFacts, ZenonT(40)
<1>7. /\ StoreMoves /\ StoreInv'
      /\ \/ api' = api
         \/ api # None /\ api' # None /\ api'.uid = api.uid /\ api'.annot = api.annot
  BY <1>2, <1>4, <1>5, <1>6, StatusMove DEF IInv
<1>8. CASE Finish(FALSE)
  <2>1. pc' = "idle"
    BY <1>8 DEF Finish
  <2> QED
    BY <1>1, <1>2, <1>7, <2>1, ReturnKept
<1>9. CASE mem' = (IF o = "ok" THEN api' ELSE m) /\ pc' \in {"delPublish", "delFinalizer"}
  <2>1. CopyOf(m)
    BY <1>3, <1>4 DEF CopyOf
  <2>2. CopyOf(m)'
    BY <1>7, <2>1, CopyKept DEF IInv
  <2>3. /\ mem' \in Session /\ CopyOf(mem)' /\ mem'.phase = "Terminating" /\ mem'.deleting
        /\ mem'.uid = mem.uid
    <3>1. CASE o = "ok"
      <4>1. /\ Current(m) /\ api' \in Session /\ api'.uid = api.uid
            /\ api'.deleting = api.deleting /\ api'.phase = m.phase
        BY <1>4, <1>5, <3>1, StatusUpdateEffect, SMTT(40) DEF Applied, IInv, TypeOK
      <4>2. api.uid = mem.uid /\ api.deleting
        BY <1>2, <1>3, <1>4, <4>1, CurrentFacts, SMTT(40) DEF Current, IInv
      <4>3. api'.uid <= born' /\ <<api'.uid, "">> \in stored' /\ api'.rv <= api'.rv
        BY <1>2, <1>3, <1>7, <4>1, <4>2, PhaseRank, ZenonT(40) DEF CopyOf, StoreMoves
      <4> QED
        BY <1>4, <1>9, <3>1, <4>1, <4>2, <4>3, ZenonT(40) DEF CopyOf
    <3>2. CASE o # "ok"
      BY <1>3, <1>4, <1>9, <2>2, <3>2, ZenonT(40) DEF CopyOf
    <3> QED
      BY <3>1, <3>2, SMTT(40)
  <2>4. Live(mem.uid)' => cache' # None /\ cache'.uid = mem'.uid /\ cache'.deleting
    BY <1>2, <1>3, <1>7, <2>3, NoneFacts, SMTT(40) DEF Live, StoreMoves
  <2>5. WorkerInv'
    <3>1. pc' \notin Forward /\ pc' \notin {"publish", "annotate"} /\ pc' \notin {"ensure", "checkPod"}
          /\ pc' \notin {"fail", "failRetry"} /\ pc' # "idle"
      BY <1>9 DEF Forward
    <3> QED
      BY <2>3, <2>4, <3>1 DEF WorkerInv
  <2>6. CacheInv'
    BY <1>2, <1>7, CacheKept, SMTT(40) DEF IInv
  <2>7. EventInv'
    BY <1>2, <1>7, <1>9, EventsKept, SMTT(40) DEF IInv
  <2> QED
    BY <1>1, <1>7, <2>5, <2>6, <2>7, SMTT(40) DEF IInv
<1> QED
  BY <1>5, <1>8, <1>9, Zenon

\* Terminating is published of a session that the cache has as deleted, or
\* that is gone.
LEMMA DeletePublishInv == IInv /\ DeletePublish => IInv'
<1> SUFFICES ASSUME IInv, DeletePublish PROVE IInv'
  OBVIOUS
<1>1. TypeOK'
  BY DeletePublishType DEF IInv
<1>2. PICK ok \in BOOLEAN : Publish(mem, ok)
  BY DEF DeletePublish
<1>3. /\ UNCHANGED <<mem, api, stored, born, cache>>
      /\ pc = "delPublish" /\ pc' = "delFinalizer" /\ pc \in Deletion /\ pc' \in Deletion
  BY SMTT(40) DEF DeletePublish, GoTo, store, informers, Deletion
<1>4. /\ mem \in Session /\ CopyOf(mem) /\ mem.deleting /\ mem.phase = "Terminating"
      /\ Live(mem.uid) => cache # None /\ cache.uid = mem.uid /\ cache.deleting
  BY <1>3, SMTT(40) DEF IInv, TypeOK, WorkerInv
<1>5. sent' \in {sent, sent \cup {<<mem.uid, mem.phase>>}} /\ taken \subseteq taken'
  BY <1>2, <1>4, PublishEffect DEF IInv
<1>6. StoreMoves /\ CacheInv'
  BY <1>3, CacheKept DEF StoreMoves, IInv
<1>7. StoreInv'
  <2>1. (\A u \in Uid, p \in Phase : <<u, p>> \in stored \cup sent => u <= born)'
    <3> SUFFICES ASSUME NEW u \in Uid, NEW p \in Phase, <<u, p>> \in stored \cup sent'
                 PROVE  u <= born
      BY <1>3
    <3>1. <<u, p>> \in stored \cup sent \/ <<u, p>> = <<mem.uid, mem.phase>>
      BY <1>5
    <3>2. mem.uid <= born
      BY <1>4, ZenonT(40) DEF CopyOf
    <3> QED
      BY <3>1, <3>2 DEF IInv, StoreInv
  <2> QED
    BY <1>3, <2>1, ZenonT(40) DEF IInv, StoreInv
<1>8. WorkerInv'
  <2>1. CopyOf(mem)'
    BY <1>3, <1>4, ZenonT(40) DEF CopyOf, Live
  <2>2. Live(mem.uid)' => cache' # None /\ cache'.uid = mem'.uid /\ cache'.deleting
    BY <1>3, <1>4 DEF Live
  <2> QED
    BY <1>3, <1>4, <2>1, <2>2 DEF WorkerInv, Forward
<1>9. EventInv'
  <2>1. \A u \in Uid, p \in Phase :
          <<u, p>> \in sent' /\ Live(u) =>
           /\ cache # None /\ cache.uid = u
           /\ ~cache.deleting => Rank(p) <= Rank(cache.phase)
    <3> SUFFICES ASSUME NEW u \in Uid, NEW p \in Phase, <<u, p>> \in sent', Live(u)
                 PROVE  /\ cache # None /\ cache.uid = u
                        /\ ~cache.deleting => Rank(p) <= Rank(cache.phase)
      OBVIOUS
    <3>1. <<u, p>> \in sent \/ u = mem.uid
      BY <1>5, SMTT(40)
    <3> QED
      BY <1>4, <3>1 DEF IInv, EventInv
  <2>2. AnnotationHonest'
    BY <1>3, <1>5, ZenonT(40) DEF IInv, EventInv, AnnotationHonest
  <2> QED
    BY <1>3, <2>1, <2>2, SMTT(40) DEF EventInv, Live, Rank
<1> QED
  BY <1>1, <1>6, <1>7, <1>8, <1>9 DEF IInv

\* A session leaves the store: no copy of it claims that it is still there.
LEMMA Removed ==
  ASSUME IInv, TypeOK', api # None, api' = None, UNCHANGED <<stored, born, sent, taken, cache>>,
         cache # None => (cache.fin /\ ~cache.deleting => ~Live(cache.uid)),
         pc' = "idle" \/ (pc' = pc /\ mem' = mem /\ pc \notin Forward)
  PROVE  IInv'
<1>1. StoreInv'
  BY DEF IInv, StoreInv
<1>2. \A u : ~Live(u)'
  BY SMTT(40) DEF Live
<1>3. CacheInv'
  BY <1>2 DEF IInv, CacheInv, CopyOf, PhaseCopied
<1>4. WorkerInv'
  <2>1. CASE pc' = "idle"
    BY <2>1, IdleWorker, SMTT(40)
  <2>2. CASE pc' = pc /\ mem' = mem /\ pc \notin Forward
    <3>1. pc # "idle" => CopyOf(mem)'
      BY <1>2, <2>2, ZenonT(40) DEF IInv, WorkerInv, CopyOf
    <3> QED
      BY <1>2, <2>2, <3>1, ZenonT(40) DEF IInv, WorkerInv, Forward
  <2> QED
    BY <2>1, <2>2
<1>5. pc' \notin {"publish", "annotate"} \/ (pc' = pc /\ mem' = mem)
  BY DEF Forward
<1>6. EventInv'
  BY <1>5, EventsKept DEF IInv
<1> QED
  BY <1>1, <1>3, <1>4, <1>6, SMTT(40) DEF IInv

LEMMA RemoveFinalizerInv == IInv /\ RemoveFinalizer => IInv'
<1> SUFFICES ASSUME IInv, RemoveFinalizer PROVE IInv'
  OBVIOUS
<1>1. TypeOK'
  BY RemoveFinalizerType DEF IInv
<1>2. /\ UNCHANGED <<stored, born, sent, taken, cache>> /\ pc' = "idle" /\ pc = "delFinalizer"
      /\ pc \in Deletion
  BY DEF RemoveFinalizer, Finish, informers, broker, Deletion
<1>3. PICK o \in Outcome : Answer(mem, o) /\ api' = IF Applied(o) THEN None ELSE api
  BY DEF RemoveFinalizer
<1>4. CASE ~Applied(o)
  BY <1>1, <1>2, <1>3, <1>4, StoreSame, ReturnKept, SMTT(40)
<1>5. CASE Applied(o)
  <2>1. Current(mem)
    BY <1>3, <1>5, AnswerEffect, SMTT(40) DEF IInv, TypeOK
  <2>2. Live(mem.uid) /\ api # None
    BY <2>1, SMTT(40) DEF Current, Live
  <2>3. cache # None /\ cache.deleting
    BY <1>2, <2>2 DEF IInv, WorkerInv
  <2> QED
    BY <1>1, <1>2, <1>3, <1>5, <2>2, <2>3, Removed, SMTT(40)
<1> QED
  BY <1>4, <1>5

LEMMA WorkerStepInv == IInv /\ WorkerStep => IInv'
  BY AddFinalizerInv, PublishPhaseInv, RecordInv, ReconcilePendingInv, StartCreatingInv,
     EnsureInv, CheckPodInv, ReconcileRunningInv, ReconcileSettledInv, UpdateStatusFailedInv,
     DeleteStatusInv, DeletePublishInv, RemoveFinalizerInv
     DEF WorkerStep

-----------------------------------------------------------------------------
(***************************************************************************)
(* The steps of everything else                                            *)
(***************************************************************************)

LEMMA BornFacts ==
  ASSUME TypeOK PROVE born \in Nat /\ born <= born
<1>1. born \in 0 .. MaxUid /\ MaxUid \in Nat
  BY ConstantsAssumption, SMTT(40) DEF TypeOK
<1> QED
  BY <1>1

LEMMA NewSessionFacts ==
  ASSUME NEW u \in Uid
  PROVE  /\ NewSession(u) \in Session /\ NewSession(u).uid = u /\ NewSession(u).phase = ""
         /\ NewSession(u).annot = "" /\ NewSession(u).deleting = FALSE
  BY SMTT(40) DEF NewSession, Session, Phase

\* The informer's new copy is the stored session, which is no earlier than the
\* old copy, and so no earlier than what was published.
LEMMA FreshCache ==
  ASSUME IInv, cache' = api, UNCHANGED <<api, stored, born, sent, taken>>,
         pc' = "idle" \/ (pc' = pc /\ mem' = mem)
  PROVE  CacheInv' /\ EventInv'
<1>1. CacheInv'
  <2> SUFFICES ASSUME api # None PROVE CacheInv'
    BY SMTT(40) DEF CacheInv
  <2>1. api \in Session /\ api.uid = born /\ <<api.uid, "">> \in stored
        /\ <<api.uid, api.phase>> \in stored
    BY DEF IInv, TypeOK, StoreInv
  <2>2. api.rv <= api.rv /\ Rank(api.phase) <= Rank(api.phase)
    BY <2>1, PhaseRank
  <2>3. api.uid <= born
    BY <2>1, BornFacts, ZenonT(40) DEF IInv
  <2> QED
    BY <2>1, <2>2, <2>3 DEF CacheInv, CopyOf, PhaseCopied, Live, Rank
<1>2. AnnotationHonest'
  BY ZenonT(40) DEF IInv, EventInv, AnnotationHonest
<1>3. ASSUME NEW u \in Uid, NEW p \in Phase, <<u, p>> \in sent, Live(u)
      PROVE  api # None /\ api.uid = u /\ (~api.deleting => Rank(p) <= Rank(api.phase))
  <2>1. cache # None /\ cache.uid = u /\ (~cache.deleting => Rank(p) <= Rank(cache.phase))
    BY <1>3, SMTT(40) DEF IInv, EventInv
  <2>2. /\ cache.deleting => api.deleting
        /\ Rank(cache.phase) <= Rank(api.phase)
    BY <1>3, <2>1, ZenonT(40) DEF IInv, CacheInv, CopyOf, PhaseCopied
  <2>3. Rank(p) \in Nat /\ Rank(cache.phase) \in Nat /\ Rank(api.phase) \in Nat
    BY <1>3, <2>1, PhaseRank, RankFacts, ZenonT(40) DEF Live, IInv, TypeOK
  <2>4. Rank(p) <= Rank(cache.phase) => Rank(p) <= Rank(api.phase)
    BY <2>2, <2>3, LeqTransitive, Zenon
  <2> QED
    BY <1>3, <2>1, <2>2, <2>4, SMTT(40) DEF Live
<1>4. ASSUME pc = "publish"
      PROVE  /\ api # None /\ api.uid = mem.uid /\ Rank(mem.phase) <= Rank(api.phase)
             /\ \A p \in Phase : <<mem.uid, p>> \in sent => Rank(p) <= Rank(mem.phase)
  BY <1>4, ZenonT(40) DEF IInv, WorkerInv, EventInv, PhaseCopied, Live, Forward
<1>5. pc = "annotate" => <<mem.uid, mem.phase>> \in taken
  BY DEF IInv, EventInv
<1> QED
  BY <1>1, <1>2, <1>3, <1>4, <1>5, SMTT(40) DEF EventInv, Live, Rank

LEMMA RuntimeInv ==
  IInv /\ (SyncSession \/ Resync \/ Crash \/ \E k \in Watched : SyncObject(k)) => IInv'
<1> SUFFICES ASSUME IInv, SyncSession \/ Resync \/ Crash \/ \E k \in Watched : SyncObject(k)
             PROVE  IInv'
  BY SMTT(40)
<1>1. TypeOK' /\ UNCHANGED <<api, stored, born, sent, taken>>
  BY RuntimeType, SMTT(40) DEF IInv, SyncSession, Resync, Crash, SyncObject, store, broker
<1>2. StoreMoves /\ StoreInv'
  BY <1>1, StoreSame, SMTT(40)
<1>3. CASE SyncSession
  <2>1. cache' = api /\ pc' = pc /\ mem' = mem
    BY <1>3 DEF SyncSession, worker
  <2>2. WorkerInv'
    BY <1>1, <1>2, <2>1, WorkerKept, SMTT(40) DEF IInv
  <2> QED
    BY <1>1, <1>2, <2>1, <2>2, FreshCache, SMTT(40) DEF IInv
<1>4. CASE Crash
  <2>1. cache' = api /\ pc' = "idle"
    BY <1>4, SMTT(40) DEF Crash
  <2> QED
    BY <1>1, <1>2, <2>1, IdleWorker, FreshCache, SMTT(40) DEF IInv
<1>5. CASE Resync \/ \E k \in Watched : SyncObject(k)
  <2>1. cache' = cache /\ pc' = pc /\ mem' = mem
    BY <1>5, SMTT(40) DEF Resync, SyncObject, informers, worker
  <2> QED
    BY <1>1, <1>2, <2>1, CacheKept, WorkerKept, EventsKept, SMTT(40) DEF IInv
<1> QED
  BY <1>3, <1>4, <1>5

\* A step of the cluster that does not touch the session.
LEMMA ClusterInv ==
  IInv /\ (\/ Tick \/ PodReady \/ PodUnready \/ PodLoss \/ PodGone
           \/ BrokerFails \/ BrokerRecovers \/ BrokerTakes
           \/ \E k \in Kind : ForeignCreate(k) \/ CollectGarbage(k)) => IInv'
<1> SUFFICES ASSUME IInv,
                    \/ Tick \/ PodReady \/ PodUnready \/ PodLoss \/ PodGone
                    \/ BrokerFails \/ BrokerRecovers \/ BrokerTakes
                    \/ \E k \in Kind : ForeignCreate(k) \/ CollectGarbage(k)
             PROVE  IInv'
  OBVIOUS
<1>1. TypeOK'
  BY ClusterType, SMTT(40) DEF IInv
<1>2. UNCHANGED <<api, stored, born, sent, cache, pc, mem>> /\ taken \subseteq taken'
  BY DEF Tick, PodReady, PodUnready, PodLoss, PodTurns, PodGone, BrokerFails, BrokerRecovers,
         BrokerTakes, ForeignCreate, CollectGarbage, store, informers, worker, broker
<1>3. StoreMoves /\ StoreInv'
  BY <1>2, StoreSame, SMTT(40)
<1> QED
  BY <1>1, <1>2, <1>3, CacheKept, WorkerKept, EventsKept, SMTT(40) DEF IInv

\* A new session has a uid no copy and no event has.
LEMMA UserCreateInv == IInv /\ UserCreate => IInv'
<1> SUFFICES ASSUME IInv, UserCreate PROVE IInv'
  OBVIOUS
<1>1. TypeOK'
  BY UserType, SMTT(40) DEF IInv
<1>2. /\ UNCHANGED <<sent, taken, cache, pc, mem>> /\ api = None /\ api' = NewSession(born + 1)
      /\ born' = born + 1 /\ stored' = stored \cup {<<born + 1, "">>}
  BY DEF UserCreate, informers, worker, broker
<1>3. /\ api' # None /\ api'.uid = born' /\ api'.phase = "" /\ ~api'.deleting /\ api'.annot = ""
  <2>1. born + 1 \in Uid
    <3>1. born \in Nat /\ MaxUid \in Nat /\ born < MaxUid
      BY BornFacts, ConstantsAssumption, Zenon DEF IInv, UserCreate
    <3> QED
      BY <3>1, SMTT(40) DEF Uid
  <2>2. \E u \in Uid : u = born' /\ api' = NewSession(u)
    BY <1>2, <2>1
  <2> QED
    BY <2>2, NewSessionFacts, NoneFacts, ZenonT(40)
<1>4. born \in Nat /\ born' = born + 1
  BY <1>2, BornFacts DEF IInv
<1>5. \A u \in Uid : u <= born => u <= born' /\ ~Live(u)'
  <2> SUFFICES ASSUME NEW u \in Uid, u <= born PROVE u <= born' /\ u # born'
    BY <1>3, ZenonT(40) DEF Live
  <2>1. u \in Nat
    BY ConstantsAssumption, SMTT(40) DEF Uid
  <2> QED
    BY <1>4, <2>1, SMTT(40)
<1>6. StoreInv'
  <2>1. (\A u \in Uid, p \in Phase : <<u, p>> \in stored \cup sent => u <= born)'
    <3> SUFFICES ASSUME NEW u \in Uid, NEW p \in Phase, <<u, p>> \in stored' \cup sent'
                 PROVE  u <= born'
      BY SMTT(40)
    <3>1. <<u, p>> \in stored \cup sent \/ u = born'
      BY <1>2
    <3>2. born' <= born'
      BY <1>4, SMTT(40)
    <3> QED
      BY <1>5, <3>1, <3>2, ZenonT(40) DEF IInv, StoreInv
  <2> QED
    BY <1>2, <1>3, <2>1, ZenonT(40) DEF StoreInv
<1>7. \A c \in Session : CopyOf(c) => CopyOf(c)'
  <2> SUFFICES ASSUME NEW c \in Session, CopyOf(c) PROVE CopyOf(c)'
    OBVIOUS
  <2>1. c.uid \in Uid /\ c.uid <= born
    BY ZenonT(40) DEF Session, CopyOf
  <2> QED
    BY <1>2, <1>5, <2>1 DEF CopyOf
<1>8. CacheInv'
  <2> SUFFICES ASSUME cache # None PROVE CacheInv'
    BY <1>2, ZenonT(40) DEF CacheInv
  <2>1. /\ cache \in Session /\ CopyOf(cache) /\ <<cache.uid, cache.phase>> \in stored
        /\ ~(cache.fin /\ ~cache.deleting)
    BY <1>2, ZenonT(40) DEF IInv, TypeOK, CacheInv, PhaseCopied, Live
  <2>2. ~Live(cache.uid)'
    BY <1>2, <1>5, <2>1, ZenonT(40) DEF CopyOf, Session
  <2>3. CopyOf(cache)'
    BY <1>2, <1>7, <2>1, ZenonT(40) DEF CopyOf, Live
  <2> QED
    BY <1>2, <2>1, <2>2, <2>3, ZenonT(40) DEF CacheInv, PhaseCopied
<1>9. WorkerInv'
  <2> SUFFICES ASSUME pc # "idle" PROVE WorkerInv'
    BY <1>2, IdleWorker, ZenonT(40)
  <2>1. mem \in Session /\ CopyOf(mem) /\ pc \notin Forward
    BY <1>2, ZenonT(40) DEF IInv, TypeOK, WorkerInv, Live
  <2>2. ~Live(mem.uid)'
    BY <1>2, <1>5, <2>1, ZenonT(40) DEF CopyOf, Session
  <2>3. CopyOf(mem)'
    BY <1>2, <1>7, <2>1, ZenonT(40) DEF CopyOf, Live
  <2> QED
    BY <1>2, <2>1, <2>2, <2>3, ZenonT(40) DEF IInv, WorkerInv, Forward
<1>10. EventInv'
  <2>1. pc \notin {"publish", "annotate"}
    BY <1>2, ZenonT(40) DEF IInv, WorkerInv, Live, Forward
  <2>2. \A u \in Uid, p \in Phase : <<u, p>> \in sent => ~Live(u)'
    BY <1>5 DEF IInv, StoreInv
  <2>3. \A u \in Uid, p \in Phase : <<u, p>> \in sent' => ~Live(u)'
    BY <1>2, <2>2
  <2>4. pc' # "publish" /\ pc' # "annotate"
    BY <1>2, <2>1
  <2>5. AnnotationHonest'
    BY <1>2, <1>3 DEF AnnotationHonest
  <2> QED
    BY <2>3, <2>4, <2>5, ZenonT(40) DEF EventInv
<1> QED
  BY <1>1, <1>6, <1>8, <1>9, <1>10 DEF IInv

\* A delete marks a session that has the finalizer; one that has not goes, and
\* no copy has the finalizer either.
LEMMA UserDeleteInv == IInv /\ UserDelete => IInv'
<1> SUFFICES ASSUME IInv, UserDelete PROVE IInv'
  OBVIOUS
<1>1. TypeOK'
  BY UserType DEF IInv
<1>2. /\ UNCHANGED <<stored, born, sent, taken, cache, pc, mem>> /\ api # None /\ api \in Session
      /\ api' = IF api.fin THEN Version(api, [api EXCEPT !.deleting = TRUE]) ELSE None
  BY DEF UserDelete, informers, worker, broker, IInv, TypeOK
<1>3. CASE ~api.fin
  <2>1. cache # None => (cache.fin /\ ~cache.deleting => ~Live(cache.uid))
    BY <1>3, ZenonT(40) DEF IInv, CacheInv, CopyOf
  <2>2. pc \notin Forward
    <3> SUFFICES ASSUME pc \in Forward PROVE FALSE
      OBVIOUS
    <3>1. pc # "idle"
      BY DEF Forward
    <3> QED
      BY <1>3, <3>1, ZenonT(40) DEF IInv, WorkerInv, CopyOf
  <2> QED
    BY <1>1, <1>2, <1>3, <2>1, <2>2, Removed, SMTT(40)
<1>4. CASE api.fin
  <2> DEFINE t == [api EXCEPT !.deleting = TRUE]
  <2>1. /\ t \in Session /\ t.rv = api.rv /\ t.uid = api.uid /\ t.annot = api.annot
        /\ t.deleting = TRUE /\ t.fin = api.fin /\ t.phase = api.phase
    BY <1>2, Zenon DEF Session
  <2>2. api' = Version(api, t)
    BY <1>2, <1>4
  <2> HIDE DEF t
  <2>3. /\ api' \in Session /\ api'.uid = api.uid /\ api'.annot = api.annot
        /\ api'.deleting = TRUE /\ api'.fin = api.fin /\ api'.phase = api.phase
        /\ api.rv <= api'.rv /\ (api'.rv = api.rv => api' = api)
    BY <1>2, <2>1, <2>2, VersionFacts
  <2>4. StoreMoves
    BY <1>2, <2>3, PhaseRank DEF StoreMoves
  <2>5. StoreInv'
    BY <1>2, <1>4, <2>3, ZenonT(40) DEF IInv, StoreInv
  <2>6. api' # None
    BY <2>3, NoneFacts
  <2> QED
    BY <1>1, <1>2, <2>3, <2>4, <2>5, <2>6, CacheKept, WorkerKept, EventsKept, SMTT(40) DEF IInv
<1> QED
  BY <1>3, <1>4

LEMMA UserEditInv == IInv /\ UserEdit => IInv'
<1> SUFFICES ASSUME IInv, UserEdit PROVE IInv'
  OBVIOUS
<1>1. TypeOK'
  BY UserType DEF IInv
<1>2. /\ UNCHANGED <<stored, born, sent, taken, cache, pc, mem>> /\ api # None /\ api \in Session
  BY DEF UserEdit, informers, worker, broker, IInv, TypeOK
<1>3. /\ api' \in Session /\ api'.uid = api.uid /\ api'.annot = api.annot
      /\ api'.deleting = api.deleting /\ api'.fin = api.fin /\ api'.phase = api.phase
  BY <1>2 DEF UserEdit, Session
<1>4. api.rv <= api'.rv /\ api'.rv # api.rv
  BY <1>2, SMTT(40) DEF UserEdit, Session
<1>5. StoreMoves
  BY <1>2, <1>3, <1>4, PhaseRank, SMTT(40) DEF StoreMoves
<1>6. StoreInv'
  BY <1>2, <1>3, ZenonT(40) DEF IInv, StoreInv
<1>7. api' # None
  BY <1>3, NoneFacts, SMTT(40)
<1> QED
  BY <1>1, <1>2, <1>3, <1>5, <1>6, <1>7, CacheKept, WorkerKept, EventsKept DEF IInv

\* IInv is inductive.
LEMMA InvInit == Init => IInv
<1> SUFFICES ASSUME Init PROVE IInv
  OBVIOUS
<1>1. TypeOK
  BY InitType
<1>2. api = None /\ cache = None /\ pc = "idle" /\ sent = {} /\ stored = {}
  BY DEF Init
<1> QED
  BY <1>1, <1>2, SMTT(40) DEF IInv, StoreInv, CacheInv, WorkerInv, EventInv, AnnotationHonest, Live,
                    Forward, Deletion

LEMMA InvNext == IInv /\ [Next]_vars => IInv'
<1>1. ASSUME IInv, UNCHANGED vars PROVE IInv'
  <2>1. UNCHANGED <<api, stored, born, sent, taken, cache, pc, mem>> /\ TypeOK'
    BY <1>1 DEF vars, IInv, TypeOK
  <2> QED
    BY <1>1, <2>1, StoreSame, CacheKept, WorkerKept, EventsKept, SMTT(40) DEF IInv
<1> QED
  BY SMTT(40),
     <1>1, ReconcileInv, WorkerStepInv, RuntimeInv, ClusterInv, UserCreateInv, UserDeleteInv,
     UserEditInv
     DEF Next, ControllerNext, EnvironmentNext

\* What the caches and the worker's copy still tell about the stored session,
\* in every reachable state and for every value of the constants.
THEOREM InductiveInvariant == Spec => []IInv
  BY InvInit, InvNext, PTL DEF Spec

\* The published-phase annotation never claims a phase the broker does not
\* have: publishPhase's patch, though it names no version, always meets the
\* session whose phase was published.
THEOREM AnnotationIsHonest == Spec => []AnnotationHonest
<1>1. IInv => AnnotationHonest
  BY SMTT(40) DEF IInv, EventInv
<1> QED
  BY <1>1, InductiveInvariant, PTL

\* Only the ensure functions give an object a session as its owner, and the
\* session their worker holds is stored with the finalizer.
LEMMA CreatedFor ==
  ASSUME IInv, NEW k \in Kind, NEW j \in Kind, NEW r \in CreateResult, Create(k, r),
         pc = "ensure", objs[j] = None, objs'[j] \in Uid
  PROVE  Live(objs'[j]) /\ api.fin
<1>1. objs \in [Kind -> Owner \cup {None}] /\ None \notin Uid
  BY NoneFacts, ZenonT(40) DEF IInv, TypeOK
<1>2. Created(k)
  BY <1>1 DEF Create, children
<1>3. objs'[j] = mem.uid
  BY <1>1, <1>2, SMTT(40) DEF Created
<1>4. CopyOf(mem) /\ Live(mem.uid) /\ mem.fin
  BY Zenon DEF IInv, WorkerInv, Forward
<1> QED
  BY <1>3, <1>4, ZenonT(40) DEF CopyOf

\* The worker's stale copy never makes it create objects for a session that is
\* gone: whoever owns a new object is stored, with the finalizer.
THEOREM NewOwnersAreLive == Spec => OwnersAreLive
<1> DEFINE Owned == \A k \in Kind : objs[k] = None /\ objs'[k] \in Uid => Live(objs'[k]) /\ api.fin
<1>1. ASSUME IInv, [Next]_vars PROVE Owned
  <2> SUFFICES ASSUME NEW j \in Kind, objs[j] = None, objs'[j] \in Uid
               PROVE  Live(objs'[j]) /\ api.fin
    BY SMTT(40)
  <2>1. objs \in [Kind -> Owner \cup {None}] /\ None \notin Uid /\ ForeignOwner \notin Uid
    BY <1>1, NoneFacts, SMTT(40) DEF IInv, TypeOK, ForeignOwner, Uid
  <2>2. objs' # objs
    BY <2>1, SMTT(40)
  <2>3. \/ EnsureObject \/ EnsureSecret \/ PodGone
        \/ \E k \in Kind : ForeignCreate(k) \/ CollectGarbage(k)
    BY ZenonT(40), <1>1, <2>2
       DEF Next, ControllerNext, EnvironmentNext, vars, Reconcile, WorkerStep, AddFinalizer,
           PublishPhase, RecordPublishedPhase, ReconcilePending, StartCreating, CheckPod,
           ReconcileRunning, ReconcileSettled, UpdateStatusFailed, DeleteStatus, DeletePublish,
           RemoveFinalizer, SyncSession, SyncObject, Resync, Crash, UserCreate, UserDelete,
           UserEdit, PodReady, PodUnready, PodLoss, PodTurns, Tick, BrokerFails,
           BrokerRecovers, BrokerTakes, children
  <2>4. CASE EnsureObject
    <3>1. Order[step] \in Kind
      BY <1>1, OrderFacts, SMTT(40) DEF IInv, TypeOK
    <3>2. \E r \in CreateResult : Create(Order[step], r)
      BY <2>2, <2>4, ZenonT(40) DEF EnsureObject, children
    <3>3. pc = "ensure"
      BY <2>4 DEF EnsureObject
    <3> QED
      BY <1>1, <3>1, <3>2, <3>3, CreatedFor, SMTT(40)
  <2>5. CASE EnsureSecret
    BY <1>1, <2>5, CreatedFor, OrderFacts DEF EnsureSecret
  <2>6. CASE PodGone
    BY <2>1, <2>6 DEF PodGone
  <2>7. ASSUME NEW k \in Kind, ForeignCreate(k) PROVE FALSE
    BY <2>1, <2>7 DEF ForeignCreate
  <2>8. ASSUME NEW k \in Kind, CollectGarbage(k) PROVE FALSE
    BY <2>1, <2>8, SMTT(40) DEF CollectGarbage
  <2> QED
    BY <2>3, <2>4, <2>5, <2>6, <2>7, <2>8, SMTT(40)
<1>2. IInv /\ [Next]_vars => [Owned]_vars
  BY <1>1
<1>3. Spec => [][Owned]_vars
  BY <1>2, InductiveInvariant, PTL DEF Spec
<1> QED
  BY <1>3, SMTT(40) DEF OwnersAreLive

-----------------------------------------------------------------------------
(***************************************************************************)
(* The reconciler implements SessionLifecycle: every step of the           *)
(* controller and of the cluster is a step of the abstract lifecycle or    *)
(* leaves it alone.                                                        *)
(***************************************************************************)

\* The stored session as SessionLifecycle sees it.
Abstract(s) ==
  IF s = None THEN None ELSE [uid |-> s.uid, phase |-> s.phase, deleting |-> s.deleting]

LEMMA AbstractFacts ==
  /\ Abstract(None) = None
  /\ \A s \in Session : /\ Abstract(s) = [uid |-> s.uid, phase |-> s.phase, deleting |-> s.deleting]
                        /\ Abstract(s) # None
<1>1. ASSUME NEW s \in Session
      PROVE  /\ Abstract(s) = [uid |-> s.uid, phase |-> s.phase, deleting |-> s.deleting]
             /\ Abstract(s) # None
  <2>1. [uid |-> s.uid, phase |-> s.phase, deleting |-> s.deleting]
          \in [uid : Uid, phase : Phase, deleting : BOOLEAN]
    BY DEF Session
  <2>2. Abstract(s) = [uid |-> s.uid, phase |-> s.phase, deleting |-> s.deleting]
    BY NoneFacts DEF Abstract
  <2> QED
    BY <2>1, <2>2, ConstantsAssumption
<1> QED
  BY <1>1 DEF Abstract

LEMMA Marked ==
  ASSUME NEW s \in Session, NEW t \in Session, NEW d,
         t.uid = s.uid, t.phase = s.phase, t.deleting = d
  PROVE  Abstract(t) = [Abstract(s) EXCEPT !.deleting = d]
  BY NoneFacts DEF Abstract

LEMMA Above == \A i, j \in Nat : i > j => ~(i <= j)
  OBVIOUS

\* Steps that keep the session's uid, phase and deletion mark, and the history.
LEMMA Stutters ==
  ASSUME TypeOK, UNCHANGED <<stored, sent, taken>>,
         \/ api' = api
         \/ /\ api \in Session /\ api' \in Session
            /\ api'.uid = api.uid /\ api'.phase = api.phase /\ api'.deleting = api.deleting
  PROVE  UNCHANGED Lifecycle!vars
<1>1. Abstract(api') = Abstract(api)
  BY NoneFacts DEF Abstract
<1> QED
  BY <1>1 DEF Lifecycle!vars, Abstract

\* A status update is a step along an edge of the lifecycle, or rewrites the
\* phase the session has.
LEMMA StatusAdvances ==
  ASSUME IInv, NEW m \in Session, m.uid = mem.uid, m.rv = mem.rv, pc # "idle",
         NEW o \in Outcome, StatusUpdate(m, o), UNCHANGED <<sent, taken>>,
         Current(mem) => \/ m.phase = api.phase
                         \/ m.phase \in Lifecycle!Successor(api.phase, api.deleting)
  PROVE  [Lifecycle!Next]_(Lifecycle!vars)
<1>1. \/ api' = api /\ stored' = stored
      \/ /\ Current(m)
         /\ api \in Session /\ api' \in Session
         /\ api'.uid = api.uid
         /\ api'.deleting = api.deleting
         /\ api'.phase = m.phase
         /\ stored' = stored \cup {<<m.uid, m.phase>>}
  BY StatusUpdateEffect, SMTT(40) DEF IInv, TypeOK
<1>2. CASE api' = api /\ stored' = stored
  BY <1>2, Stutters, ZenonT(40) DEF IInv
<1>3. CASE /\ Current(m)
           /\ api \in Session /\ api' \in Session
           /\ api'.uid = api.uid
           /\ api'.deleting = api.deleting
           /\ api'.phase = m.phase
           /\ stored' = stored \cup {<<m.uid, m.phase>>}
  <2>1. Current(mem) /\ api.uid = m.uid /\ api # None
    BY <1>3 DEF Current
  <2>2. CASE m.phase = api.phase
    <3>1. <<m.uid, m.phase>> \in stored
      BY <2>1, <2>2, ZenonT(40) DEF IInv, StoreInv
    <3> QED
      BY <1>3, <2>2, <3>1, Stutters, SMTT(40) DEF IInv
  <2>3. CASE m.phase \in Lifecycle!Successor(api.phase, api.deleting)
    <3>1. Abstract(api) = [uid |-> api.uid, phase |-> api.phase, deleting |-> api.deleting]
          /\ Abstract(api) # None
      BY <1>3, AbstractFacts
    <3>2. Abstract(api') = [Abstract(api) EXCEPT !.phase = m.phase]
      BY <1>3, <3>1, NoneFacts, SMTT(40) DEF Abstract
    <3>3. m.phase \in Lifecycle!Phase
      BY PhaseRank, Zenon DEF Phase, Lifecycle!Phase
    <3>4. Lifecycle!Advance(m.phase)
      BY <1>3, <2>1, <2>3, <3>1, <3>2 DEF Lifecycle!Advance, Abstract
    <3> QED
      BY <3>3, <3>4, ZenonT(40) DEF Lifecycle!Next
  <2> QED
    BY <2>1, <2>2, <2>3, ZenonT(40)
<1> QED
  BY <1>1, <1>2, <1>3, SMTT(40)

LEMMA SuccessorFacts ==
  /\ \A d \in BOOLEAN : "Creating" \in Lifecycle!Successor("", d)
  /\ \A d \in BOOLEAN : "Running" \in Lifecycle!Successor("Creating", d)
  /\ \A d \in BOOLEAN : "Failed" \in Lifecycle!Successor("Creating", d)
  /\ \A d \in BOOLEAN : "Failed" \in Lifecycle!Successor("Running", d)
  /\ \A p : "Terminating" \in Lifecycle!Successor(p, TRUE)
  BY DEF Lifecycle!Successor

\* The steps of a reconcile that write the status.
LEMMA StatusStepsRefine ==
  IInv /\ (ReconcilePending \/ CheckPod \/ ReconcileRunning \/ UpdateStatusFailed \/ DeleteStatus)
    => [Lifecycle!Next]_(Lifecycle!vars)
<1>1. ASSUME IInv, pc # "idle", pc \in Forward
      PROVE  mem \in Session /\ (Current(mem) => api.phase = mem.phase /\ api.deleting \in BOOLEAN)
  <2>1. TypeOK /\ StoreInv /\ WorkerInv
    BY <1>1, Zenon DEF IInv
  <2>2. mem \in Session
    BY <1>1, <2>1, Zenon DEF TypeOK
  <2>3. ASSUME Current(mem) PROVE api.phase = mem.phase /\ api \in Session
    BY <1>1, <2>1, <2>3, CurrentFacts, Zenon
  <2>4. \A s \in Session : s.deleting \in BOOLEAN
    BY DEF Session
  <2> QED
    BY <2>2, <2>3, <2>4, Zenon
<1>2. ASSUME IInv, ReconcilePending PROVE [Lifecycle!Next]_(Lifecycle!vars)
  <2>1. pc = "phase" /\ pc \in Forward /\ pc # "idle" /\ mem.phase = ""
        /\ UNCHANGED <<sent, taken>>
    BY <1>2 DEF ReconcilePending, Forward, broker
  <2>2. PICK o \in Outcome :
          StatusUpdate([mem EXCEPT !.phase = "Creating", !.start = now], o)
    BY <1>2, ZenonT(40) DEF ReconcilePending
  <2>3. now \in Nat
    <3>1. TypeOK
      BY <1>2, Zenon DEF IInv
    <3>2. now \in 0 .. MaxTime
      BY <3>1, Zenon DEF TypeOK
    <3> QED
      BY <3>2, ConstantsAssumption
  <2>4. PICK m \in Session : /\ m = [mem EXCEPT !.phase = "Creating", !.start = now]
                             /\ m.uid = mem.uid /\ m.rv = mem.rv /\ m.phase = "Creating"
    <3>1. mem \in Session
      BY <1>1, <1>2, <2>1
    <3>2. [mem EXCEPT !.phase = "Creating", !.start = now] \in Session
      BY <2>3, <3>1 DEF Session, Phase
    <3>3. /\ [mem EXCEPT !.phase = "Creating", !.start = now].uid = mem.uid
          /\ [mem EXCEPT !.phase = "Creating", !.start = now].rv = mem.rv
          /\ [mem EXCEPT !.phase = "Creating", !.start = now].phase = "Creating"
      BY <3>1 DEF Session
    <3> QED
      BY <3>2, <3>3, Zenon
  <2>5. StatusUpdate(m, o)
    BY <2>2, <2>4
  <2>6. Current(mem) => m.phase \in Lifecycle!Successor(api.phase, api.deleting)
    BY <1>1, <1>2, <2>1, <2>4, SuccessorFacts, ZenonT(40)
  <2> QED
    BY <1>2, <2>1, <2>4, <2>5, <2>6, StatusAdvances, ZenonT(40)
<1>3. ASSUME IInv, CheckPod PROVE [Lifecycle!Next]_(Lifecycle!vars)
  <2>1. pc = "checkPod" /\ pc \in Forward /\ pc # "idle" /\ UNCHANGED <<sent, taken>>
    BY <1>3, SMTT(40) DEF CheckPod, Forward, broker
  <2>2. mem \in Session /\ mem.phase = "Creating"
    BY <1>1, <1>3, <2>1 DEF IInv, WorkerInv
  <2>3. UNCHANGED store \/ \E o \in Outcome : StatusUpdate(RunningStatus(mem), o)
    BY <1>3, Zenon DEF CheckPod
  <2>4. /\ RunningStatus(mem) \in Session /\ RunningStatus(mem).phase = "Running"
        /\ RunningStatus(mem).uid = mem.uid /\ RunningStatus(mem).rv = mem.rv
    BY <1>3, <2>2, StatusWritten, SMTT(40) DEF IInv
  <2>5. Current(mem) =>
          RunningStatus(mem).phase \in Lifecycle!Successor(api.phase, api.deleting)
    BY <1>1, <1>3, <2>1, <2>2, <2>4, SuccessorFacts, ZenonT(40)
  <2>6. CASE UNCHANGED store
    BY <1>3, <2>1, <2>6, Stutters DEF store, IInv
  <2> QED
    BY <1>3, <2>1, <2>3, <2>4, <2>5, <2>6, StatusAdvances
<1>4. ASSUME IInv, ReconcileRunning PROVE [Lifecycle!Next]_(Lifecycle!vars)
  <2>1. pc = "phase" /\ pc \in Forward /\ pc # "idle" /\ UNCHANGED <<sent, taken>>
    BY <1>4 DEF ReconcileRunning, Forward, broker
  <2>2. mem \in Session
    BY <1>1, <1>4, <2>1
  <2>3. UNCHANGED store
        \/ \E b \in BOOLEAN, o \in Outcome : StatusUpdate(SetPodReady(mem, b), o)
    BY <1>4, Zenon DEF ReconcileRunning
  <2>4. CASE UNCHANGED store
    BY <1>4, <2>1, <2>4, Stutters, SMTT(40) DEF store, IInv
  <2>5. ASSUME NEW b \in BOOLEAN, NEW o \in Outcome, StatusUpdate(SetPodReady(mem, b), o)
        PROVE  [Lifecycle!Next]_(Lifecycle!vars)
    <3>1. /\ SetPodReady(mem, b) \in Session /\ SetPodReady(mem, b).phase = mem.phase
          /\ SetPodReady(mem, b).uid = mem.uid /\ SetPodReady(mem, b).rv = mem.rv
      BY <1>4, <2>2, StatusWritten, SMTT(40) DEF IInv
    <3>2. Current(mem) => SetPodReady(mem, b).phase = api.phase
      BY <1>1, <1>4, <2>1, <3>1, SMTT(40)
    <3> QED
      BY <1>4, <2>1, <2>5, <3>1, <3>2, StatusAdvances, SMTT(40)
  <2> QED
    BY <2>3, <2>4, <2>5
<1>5. ASSUME IInv, UpdateStatusFailed PROVE [Lifecycle!Next]_(Lifecycle!vars)
  <2>1. pc \in {"fail", "failRetry"} /\ pc \in Forward /\ pc # "idle" /\ UNCHANGED <<sent, taken>>
    BY <1>5, SMTT(40) DEF UpdateStatusFailed, Forward, broker
  <2>2. mem \in Session /\ (mem.phase = "Creating" \/ mem.phase = "Running")
    BY <1>1, <1>5, <2>1, ZenonT(40) DEF IInv, WorkerInv
  <2>3. PICK o \in Outcome : StatusUpdate(FailedStatus(mem), o)
    BY <1>5 DEF UpdateStatusFailed
  <2>4. /\ FailedStatus(mem) \in Session /\ FailedStatus(mem).phase = "Failed"
        /\ FailedStatus(mem).uid = mem.uid /\ FailedStatus(mem).rv = mem.rv
    BY <1>5, <2>2, StatusWritten DEF IInv
  <2>5. Current(mem) =>
          FailedStatus(mem).phase \in Lifecycle!Successor(api.phase, api.deleting)
    BY <1>1, <1>5, <2>1, <2>2, <2>4, SuccessorFacts, ZenonT(40)
  <2> QED
    BY <1>5, <2>1, <2>3, <2>4, <2>5, StatusAdvances
<1>6. ASSUME IInv, DeleteStatus PROVE [Lifecycle!Next]_(Lifecycle!vars)
  <2>1. pc = "delStatus" /\ pc \in Deletion /\ pc # "idle" /\ UNCHANGED <<sent, taken>>
    BY <1>6, SMTT(40) DEF DeleteStatus, Deletion, broker
  <2>2. mem \in Session /\ mem.deleting
    BY <1>6, <2>1, SMTT(40) DEF IInv, TypeOK, WorkerInv
  <2>3. PICK o \in Outcome : StatusUpdate(TerminatingStatus(mem), o)
    BY <1>6 DEF DeleteStatus
  <2>4. /\ TerminatingStatus(mem) \in Session /\ TerminatingStatus(mem).phase = "Terminating"
        /\ TerminatingStatus(mem).uid = mem.uid /\ TerminatingStatus(mem).rv = mem.rv
    BY <1>6, <2>2, StatusWritten, SMTT(40) DEF IInv
  <2>5. Current(mem) => api.deleting = TRUE
    BY <1>6, <2>1, <2>2, CurrentFacts, SMTT(40) DEF IInv, Session
  <2>6. Current(mem) =>
          TerminatingStatus(mem).phase \in Lifecycle!Successor(api.phase, api.deleting)
    BY <2>4, <2>5, SuccessorFacts
  <2> QED
    BY <1>6, <2>1, <2>3, <2>4, <2>6, StatusAdvances, ZenonT(40)
<1> QED
  BY <1>2, <1>3, <1>4, <1>5, <1>6, SMTT(40)

\* A publish announces a stored phase, or Terminating of a doomed session, and
\* never a phase earlier than one announced before.
LEMMA PublishRefines ==
  ASSUME IInv, pc # "idle", NEW ok \in BOOLEAN, Publish(mem, ok), UNCHANGED <<api, stored>>,
         mem.phase # "",
         \/ <<mem.uid, mem.phase>> \in stored
         \/ mem.phase = "Terminating" /\ Lifecycle!Doomed(mem.uid),
         \A q \in Phase : <<mem.uid, q>> \in sent => Rank(q) <= Rank(mem.phase)
  PROVE  [Lifecycle!Next]_(Lifecycle!vars)
<1>1. mem \in Session
  BY ZenonT(40) DEF IInv, TypeOK
<1>2. \/ UNCHANGED <<sent, taken>>
      \/ /\ sent' = sent \cup {<<mem.uid, mem.phase>>}
         /\ taken' \in {taken, taken \cup {<<mem.uid, mem.phase>>}}
  BY <1>1, PublishEffect DEF IInv
<1>3. CASE UNCHANGED <<sent, taken>>
  BY <1>3, Stutters, ZenonT(40) DEF IInv
<1>4. CASE /\ sent' = sent \cup {<<mem.uid, mem.phase>>}
           /\ taken' \in {taken, taken \cup {<<mem.uid, mem.phase>>}}
  <2>1. mem.uid \in Lifecycle!Uid /\ mem.phase \in Lifecycle!Phase /\ mem.phase \in Phase
    BY <1>1 DEF Session, Uid, Phase, Lifecycle!Uid, Lifecycle!Phase
  <2>2. ASSUME NEW q \in Lifecycle!Phase, Lifecycle!Rank(q) > Lifecycle!Rank(mem.phase)
        PROVE  <<mem.uid, q>> \notin sent
    <3>1. q \in Phase
      BY ZenonT(40) DEF Phase, Lifecycle!Phase
    <3>2. Rank(q) \in Nat /\ Rank(mem.phase) \in Nat
      BY <1>1, <3>1, RankFacts, PhaseRank, ZenonT(40)
    <3>3. Rank(q) > Rank(mem.phase)
      BY <2>2 DEF Rank
    <3>4. ~(Rank(q) <= Rank(mem.phase))
      BY <3>2, <3>3, Above, Zenon
    <3> QED
      BY <3>1, <3>4
  <2>3. Lifecycle!Announce(mem.uid, mem.phase)
    BY <1>4, <2>2 DEF Lifecycle!Announce
  <2> QED
    BY <2>1, <2>3, ZenonT(40) DEF Lifecycle!Next
<1> QED
  BY <1>2, <1>3, <1>4, ZenonT(40)

LEMMA PublishStepsRefine ==
  IInv /\ (PublishPhase \/ DeletePublish) => [Lifecycle!Next]_(Lifecycle!vars)
<1>1. ASSUME IInv, PublishPhase PROVE [Lifecycle!Next]_(Lifecycle!vars)
  <2>1. pc = "publish" /\ pc \in Forward /\ UNCHANGED <<api, stored>>
        /\ \E ok \in BOOLEAN : Publish(mem, ok)
    BY <1>1, SMTT(40) DEF PublishPhase, store, Forward
  <2>2. /\ mem.phase # "" /\ <<mem.uid, mem.phase>> \in stored
        /\ \A q \in Phase : <<mem.uid, q>> \in sent => Rank(q) <= Rank(mem.phase)
    BY <1>1, <2>1, ZenonT(40) DEF IInv, WorkerInv, PhaseCopied, EventInv
  <2> QED
    BY <1>1, <2>1, <2>2, PublishRefines, ZenonT(40)
<1>2. ASSUME IInv, DeletePublish PROVE [Lifecycle!Next]_(Lifecycle!vars)
  <2>1. pc = "delPublish" /\ pc \in Deletion /\ UNCHANGED <<api, stored>>
        /\ \E ok \in BOOLEAN : Publish(mem, ok)
    BY <1>2, SMTT(40) DEF DeletePublish, store, Deletion
  <2>2. mem \in Session /\ mem.phase = "Terminating" /\ mem.deleting /\ CopyOf(mem)
    BY <1>2, <2>1, SMTT(40) DEF IInv, TypeOK, WorkerInv
  <2>3. \A q \in Phase : <<mem.uid, q>> \in sent => Rank(q) <= Rank(mem.phase)
    BY <2>2, RankFacts
  <2>4. Lifecycle!Doomed(mem.uid)
    <3>1. <<mem.uid, "">> \in stored /\ (Live(mem.uid) => api.deleting)
      BY <2>2, ZenonT(40) DEF CopyOf
    <3>2. CASE api = None
      BY <3>1, <3>2 DEF Lifecycle!Doomed
    <3>3. CASE api # None
      <4>1. api \in Session /\ (api.uid = mem.uid => api.deleting)
        BY <1>2, <3>1, <3>3, ZenonT(40) DEF IInv, TypeOK, Live
      <4> QED
        BY <3>1, <3>3, <4>1, ZenonT(40) DEF Lifecycle!Doomed
    <3> QED
      BY <3>2, <3>3
  <2> QED
    BY <1>2, <2>1, <2>2, <2>3, <2>4, PublishRefines
<1> QED
  BY <1>1, <1>2

\* Creating, deleting and removing the session.
LEMMA SessionStepsRefine ==
  IInv /\ (UserCreate \/ UserDelete \/ RemoveFinalizer) => [Lifecycle!Next]_(Lifecycle!vars)
<1>1. ASSUME IInv, UserCreate PROVE [Lifecycle!Next]_(Lifecycle!vars)
  <2>1. /\ UNCHANGED <<sent, taken>> /\ api = None /\ api' = NewSession(born + 1)
        /\ stored' = stored \cup {<<born + 1, "">>}
    BY <1>1 DEF UserCreate, broker
  <2>2. PICK u \in Uid : u = born + 1 /\ ~(u <= born)
    <3>1. born \in Nat /\ MaxUid \in Nat /\ born < MaxUid
      BY <1>1, BornFacts, ConstantsAssumption, ZenonT(40) DEF IInv, UserCreate
    <3> QED
      BY <3>1, SMTT(40) DEF Uid
  <2>3. \A p \in Phase : <<u, p>> \notin stored
    BY <1>1, <2>2 DEF IInv, StoreInv
  <2>4. Abstract(api') = [uid |-> u, phase |-> "", deleting |-> FALSE]
    BY <2>1, <2>2, NewSessionFacts, AbstractFacts, ZenonT(40)
  <2>5. Lifecycle!Create(u)
    BY <2>1, <2>2, <2>3, <2>4 DEF Lifecycle!Create, Lifecycle!Phase, Phase, Abstract
  <2>6. u \in Lifecycle!Uid
    BY DEF Uid, Lifecycle!Uid
  <2> QED
    BY <2>5, <2>6 DEF Lifecycle!Next
<1>2. ASSUME IInv, api # None, api' = None, UNCHANGED <<stored, sent, taken>>,
             api.deleting \/ api.phase = ""
      PROVE  Lifecycle!Next
  <2>1. api \in Session
    BY <1>2, ZenonT(40) DEF IInv, TypeOK
  <2>2. /\ Abstract(api) = [uid |-> api.uid, phase |-> api.phase, deleting |-> api.deleting]
        /\ Abstract(api) # None /\ Abstract(api') = None
    BY <1>2, <2>1, AbstractFacts, ZenonT(40)
  <2>3. Lifecycle!Remove
    BY <1>2, <2>2 DEF Lifecycle!Remove, Abstract
  <2> QED
    BY <2>3 DEF Lifecycle!Next
<1>3. ASSUME IInv, UserDelete PROVE [Lifecycle!Next]_(Lifecycle!vars)
  <2>1. /\ UNCHANGED <<stored, sent, taken>> /\ api # None /\ api \in Session
        /\ api' = IF api.fin THEN Version(api, [api EXCEPT !.deleting = TRUE]) ELSE None
    BY <1>3 DEF UserDelete, broker, IInv, TypeOK
  <2>2. CASE ~api.fin
    <3>1. api.phase = ""
      BY <1>3, <2>1, <2>2, ZenonT(40) DEF IInv, StoreInv
    <3> QED
      BY <1>2, <1>3, <2>1, <2>2, <3>1
  <2>3. CASE api.fin
    <3> DEFINE t == [api EXCEPT !.deleting = TRUE]
    <3>1. /\ t \in Session /\ t.rv = api.rv /\ t.uid = api.uid
          /\ t.deleting = TRUE /\ t.phase = api.phase
      BY <2>1, Zenon DEF Session
    <3>2. api' = Version(api, t)
      BY <2>1, <2>3
    <3> HIDE DEF t
    <3>3. /\ api' \in Session /\ api'.uid = api.uid
          /\ api'.deleting = TRUE /\ api'.phase = api.phase
      BY <2>1, <3>1, <3>2, VersionFacts
    <3>4. /\ Abstract(api) = [uid |-> api.uid, phase |-> api.phase, deleting |-> api.deleting]
          /\ Abstract(api) # None
          /\ Abstract(api') = [uid |-> api.uid, phase |-> api.phase, deleting |-> TRUE]
      BY <2>1, <3>3, AbstractFacts, Zenon
    <3>5. Abstract(api') = [Abstract(api) EXCEPT !.deleting = TRUE]
      BY <2>1, <3>3, Marked, ZenonT(40)
    <3>6. Lifecycle!RequestDelete
      BY <2>1, <3>4, <3>5 DEF Lifecycle!RequestDelete, Abstract
    <3> QED
      BY <3>6 DEF Lifecycle!Next
  <2> QED
    BY <2>2, <2>3
<1>4. ASSUME IInv, RemoveFinalizer PROVE [Lifecycle!Next]_(Lifecycle!vars)
  <2>1. pc = "delFinalizer" /\ pc \in Deletion /\ pc # "idle" /\ UNCHANGED <<stored, sent, taken>>
    BY <1>4 DEF RemoveFinalizer, Deletion, broker
  <2>2. PICK o \in Outcome : Answer(mem, o) /\ api' = IF Applied(o) THEN None ELSE api
    BY <1>4 DEF RemoveFinalizer
  <2>3. CASE ~Applied(o)
    BY <1>4, <2>1, <2>2, <2>3, Stutters DEF IInv
  <2>4. CASE Applied(o)
    <3>1. Current(mem)
      BY <1>4, <2>2, <2>4, AnswerEffect, SMTT(40) DEF IInv, TypeOK
    <3>2. mem.deleting
      <4>1. WorkerInv
        BY <1>4, Zenon DEF IInv
      <4> QED
        BY <2>1, <4>1, Zenon DEF WorkerInv
    <3>3. api # None /\ api.deleting
      BY <1>4, <2>1, <3>1, <3>2, CurrentFacts DEF IInv, Current
    <3> QED
      BY <1>2, <1>4, <2>1, <2>2, <2>4, <3>3, SMTT(40)
  <2> QED
    BY <2>3, <2>4
<1> QED
  BY <1>1, <1>3, <1>4

\* The broker takes an event that was sent before.
LEMMA BrokerTakesRefines ==
  IInv /\ BrokerTakes => [Lifecycle!Next]_(Lifecycle!vars)
<1> SUFFICES ASSUME IInv, BrokerTakes PROVE Lifecycle!Next
  OBVIOUS
<1>1. UNCHANGED <<api, stored, sent>>
  BY DEF BrokerTakes, store
<1>2. PICK e \in sent : taken' = taken \cup {e}
  BY DEF BrokerTakes
<1>3. PICK u \in Uid, p \in Phase : e = <<u, p>>
  BY <1>2, SMTT(40) DEF IInv, TypeOK
<1>4. Lifecycle!Receive(u, p)
  BY <1>1, <1>2, <1>3 DEF Lifecycle!Receive
<1> QED
  BY <1>4 DEF Lifecycle!Next, Lifecycle!Uid, Lifecycle!Phase, Uid, Phase

\* All other steps leave the lifecycle alone.
LEMMA OtherStepsStutter ==
  ASSUME IInv,
         \/ Reconcile \/ AddFinalizer \/ RecordPublishedPhase \/ StartCreating
         \/ EnsureObject \/ EnsureSecret \/ ReconcileSettled
         \/ SyncSession \/ Resync \/ Crash \/ UserEdit \/ Tick
         \/ PodReady \/ PodUnready \/ PodLoss \/ PodGone \/ BrokerFails \/ BrokerRecovers
         \/ \E k \in Watched : SyncObject(k)
         \/ \E k \in Kind : ForeignCreate(k) \/ CollectGarbage(k)
  PROVE  UNCHANGED Lifecycle!vars
<1>1. UNCHANGED <<stored, sent, taken>>
  BY ZenonT(40) DEF Reconcile, AddFinalizer, RecordPublishedPhase, StartCreating, EnsureObject,
         EnsureSecret, ReconcileSettled, SyncSession, Resync, Crash, UserEdit, Tick, PodReady,
         PodUnready, PodLoss, PodTurns, PodGone, BrokerFails, BrokerRecovers, SyncObject,
         ForeignCreate, CollectGarbage, store, broker
<1>2. CASE AddFinalizer
  <2>1. PICK o \in Outcome :
          /\ Answer(mem, o)
          /\ api' = IF Applied(o) THEN Version(api, [api EXCEPT !.fin = TRUE]) ELSE api
    BY <1>2 DEF AddFinalizer
  <2>2. CASE Applied(o)
    <3> DEFINE t == [api EXCEPT !.fin = TRUE]
    <3>1. api \in Session
      BY <2>1, <2>2, AnswerEffect, SMTT(40) DEF Current, IInv, TypeOK
    <3>2. /\ t \in Session /\ t.rv = api.rv /\ t.uid = api.uid
          /\ t.deleting = api.deleting /\ t.phase = api.phase
      BY <3>1, Zenon DEF Session
    <3>3. api' = Version(api, t)
      BY <2>1, <2>2
    <3> HIDE DEF t
    <3>4. /\ api' \in Session /\ api'.uid = api.uid
          /\ api'.deleting = api.deleting /\ api'.phase = api.phase
      BY <3>1, <3>2, <3>3, VersionFacts
    <3> QED
      BY <1>1, <3>1, <3>4, Stutters DEF IInv
  <2>3. CASE ~Applied(o)
    BY <1>1, <2>1, <2>3, Stutters DEF IInv
  <2> QED
    BY <2>2, <2>3
<1>3. CASE RecordPublishedPhase
  <2>1. \/ api' = api
        \/ /\ api \in Session /\ api' \in Session
           /\ api'.uid = api.uid /\ api'.phase = api.phase /\ api'.deleting = api.deleting
    BY <1>3, RecordEffect DEF IInv
  <2> QED
    BY <1>1, <2>1, Stutters DEF IInv
<1>4. CASE UserEdit
  <2>1. api \in Session
    BY <1>4 DEF UserEdit, IInv, TypeOK
  <2>2. /\ api' \in Session
        /\ api'.uid = api.uid /\ api'.phase = api.phase /\ api'.deleting = api.deleting
    BY <1>4, <2>1 DEF UserEdit, Session
  <2> QED
    BY <1>1, <2>1, <2>2, Stutters, SMTT(40) DEF IInv
<1>5. CASE ~(AddFinalizer \/ RecordPublishedPhase \/ UserEdit)
  <2>1. api' = api
    BY Zenon, <1>5
       DEF Reconcile, StartCreating, EnsureObject, EnsureSecret, ReconcileSettled, SyncSession,
           Resync, Crash, Tick, PodReady, PodUnready, PodLoss, PodTurns, PodGone, BrokerFails,
           BrokerRecovers, SyncObject, ForeignCreate, CollectGarbage, store
  <2> QED
    BY <1>1, <2>1, Stutters, SMTT(40) DEF IInv
<1> QED
  BY <1>2, <1>3, <1>4, <1>5, SMTT(40)

\* The reconciler implements the lifecycle: with any number of stale reads,
\* conflicts, lost answers, crashes and recreations, the stored phase moves only
\* along reconcilePhase's edges, a started session goes only when it is
\* deleted, events are sent in order and only of what was stored, and the broker
\* takes, at once or late, only what was sent.
THEOREM ReconcilerImplementsLifecycle == Spec => ImplementsLifecycle
<1>1. Init => Lifecycle!Init
  BY DEF Init, Lifecycle!Init
<1>2. IInv /\ [Next]_vars => [Lifecycle!Next]_(Lifecycle!vars)
  <2> SUFFICES ASSUME IInv, [Next]_vars PROVE [Lifecycle!Next]_(Lifecycle!vars)
    OBVIOUS
  <2>1. CASE UNCHANGED vars
    BY <2>1, Stutters DEF vars, IInv
  <2>2. CASE WorkerStep
    BY <2>2, StatusStepsRefine, PublishStepsRefine, SessionStepsRefine, OtherStepsStutter
       DEF WorkerStep
  <2>3. CASE ControllerNext /\ ~WorkerStep
    BY <2>3, OtherStepsStutter DEF ControllerNext
  <2>4. CASE EnvironmentNext
    BY <2>4, SessionStepsRefine, BrokerTakesRefines, OtherStepsStutter DEF EnvironmentNext
  <2> QED
    BY <2>1, <2>2, <2>3, <2>4 DEF Next
<1> QED
  BY <1>1, <1>2, InductiveInvariant, PTL DEF Spec, ImplementsLifecycle, Lifecycle!Spec

=============================================================================
