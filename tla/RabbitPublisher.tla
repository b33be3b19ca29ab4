----------------------------- MODULE RabbitPublisher -----------------------------
(***************************************************************************)
(* internal/events: the RabbitPublisher that the reconcile workers share,  *)
(* its one connection, and the broker behind it.                           *)
(*                                                                         *)
(* A call of PublishPhaseChange is one step per operation that waits: the  *)
(* mutex, Dial, the three requests that set the channel up, the publish,   *)
(* and the wait for the confirm.  p.conn and p.ch are assigned together    *)
(* and are one variable.  Connections are numbered as they are dialled.    *)
(*                                                                         *)
(* The amqp library and the broker are external: a connection or a channel *)
(* may drop at any time; a message that was sent is stored, refused or     *)
(* never handled, also after the call that sent it has returned.           *)
(***************************************************************************)
EXTENDS Integers

CONSTANTS
  Worker,     \* reconcile workers
  None,
  MaxCalls,   \* bound: calls of PublishPhaseChange
  MaxDials    \* bound: connections made

VARIABLES
  pc,        \* per worker: where its call is
  call,      \* per worker: the number of its (last) call
  late,      \* per worker: the deadline of its context is over
  mu,        \* RabbitPublisher.mu: None or the worker that holds it
  conn,      \* RabbitPublisher.conn and .ch
  fresh,     \* channel(): the connection being set up
  closed,    \* RabbitPublisher.closed
  open,      \* connections that are open
  usable,    \* those of them whose channel is open
  dialled,   \* connections made so far
  called,    \* calls made so far
  message,   \* per call: what became of its message
  outcome    \* per call: what it returned

workers == <<pc, call, late>>
publisher == <<mu, conn, fresh, closed>>
network == <<open, usable, dialled>>
vars == <<workers, publisher, network, called, message, outcome>>

Call == 1 .. MaxCalls
Connection == 1 .. MaxDials

\* The requests that follow Dial, in order.
Setup == {"channel", "exchange", "confirms"}
NextStage == [channel |-> "exchange", exchange |-> "confirms", confirms |-> "publish"]

ASSUME PublisherAssumption ==
  /\ MaxCalls \in Nat /\ MaxDials \in Nat
  /\ None \notin Worker /\ None \notin Int

TypeOK ==
  /\ pc \in [Worker -> {"idle", "lock", "dial", "publish", "await"} \cup Setup]
  /\ call \in [Worker -> Call \cup {None}]
  /\ late \in [Worker -> BOOLEAN]
  /\ mu \in Worker \cup {None}
  /\ conn \in Connection \cup {None}
  /\ fresh \in Connection \cup {None}
  /\ closed \in BOOLEAN
  /\ open \subseteq Connection
  /\ usable \subseteq open
  /\ dialled \in 0 .. MaxDials
  /\ called \in 0 .. MaxCalls
  /\ message \in [Call -> {"none", "sent", "stored", "refused"}]
  /\ outcome \in [Call -> {"none", "ok", "error"}]

-----------------------------------------------------------------------------
(***************************************************************************)
(* PublishPhaseChange                                                      *)
(***************************************************************************)

\* A worker calls PublishPhaseChange with a context that has a deadline (its
\* own, or publishTimeout).
PublishPhaseChange(w) ==
  /\ pc[w] = "idle" /\ called < MaxCalls
  /\ called' = called + 1
  /\ pc' = [pc EXCEPT ![w] = "lock"]
  /\ call' = [call EXCEPT ![w] = called + 1]
  /\ late' = [late EXCEPT ![w] = FALSE]
  /\ UNCHANGED <<publisher, network, message, outcome>>

\* The deadline of the call's context passes.
Expire(w) ==
  /\ pc[w] # "idle" /\ ~late[w]
  /\ late' = [late EXCEPT ![w] = TRUE]
  /\ UNCHANGED <<pc, call, publisher, network, called, message, outcome>>

\* The call goes on, with the mutex.
Goto(w, stage) ==
  /\ mu' = w
  /\ pc' = [pc EXCEPT ![w] = stage]
  /\ UNCHANGED <<call, late, closed, called, outcome>>

\* The call returns, and its deferred Unlock runs.
Return(w, result) ==
  /\ mu' = None
  /\ pc' = [pc EXCEPT ![w] = "idle"]
  /\ outcome' = [outcome EXCEPT ![call[w]] = result]
  /\ UNCHANGED <<call, late, closed, called>>

\* Mutant of CloseConn: the channel of the connection is kept in use.
CloseConnOnly(c) == open' = open \ {c} /\ UNCHANGED <<usable, dialled>>

\* Connection c, None included, is closed if it is open.
CloseConn(c) == open' = open \ {c} /\ usable' = usable \ {c} /\ UNCHANGED dialled

\* reset: the connection is closed and forgotten.
DropConn == CloseConn(conn) /\ conn' = None

\* Mutant of Lock: channel() does not look at p.closed.
LockUnchecked(w) ==
  /\ pc[w] = "lock" /\ mu = None
  /\ \/ conn \in usable /\ Goto(w, "publish") /\ UNCHANGED <<conn, fresh, network, message>>
     \/ conn \notin usable /\ DropConn /\ Goto(w, "dial") /\ UNCHANGED <<fresh, message>>

\* The mutex is taken, and channel() refuses, returns the channel it has, or
\* goes on to make a new one.
Lock(w) ==
  /\ pc[w] = "lock" /\ mu = None
  /\ \/ closed /\ Return(w, "error") /\ UNCHANGED <<conn, fresh, network, message>>
     \/ /\ ~closed /\ conn \in usable
        /\ Goto(w, "publish")
        /\ UNCHANGED <<conn, fresh, network, message>>
     \/ /\ ~closed /\ conn \notin usable
        /\ DropConn
        /\ Goto(w, "dial")
        /\ UNCHANGED <<fresh, message>>

Dial(w) ==
  /\ pc[w] = "dial"
  /\ \/ Return(w, "error") /\ UNCHANGED <<fresh, network>>
     \/ /\ dialled < MaxDials
        /\ dialled' = dialled + 1
        /\ open' = open \cup {dialled'}
        /\ usable' = usable \cup {dialled'}
        /\ fresh' = dialled'
        /\ Goto(w, "channel")
  /\ UNCHANGED <<conn, message>>

\* Mutant of SetUp: the error path does not close the new connection.
SetUpLeaks(w) ==
  /\ pc[w] \in Setup
  /\ \/ Return(w, "error") /\ fresh' = None /\ UNCHANGED <<conn, network>>
     \/ /\ fresh \in usable
        /\ Goto(w, NextStage[pc[w]])
        /\ IF pc[w] = "confirms" THEN conn' = fresh /\ fresh' = None
                                 ELSE UNCHANGED <<conn, fresh>>
        /\ UNCHANGED network
  /\ UNCHANGED message

\* conn.Channel, ExchangeDeclare and Confirm: each may fail, and the new
\* connection is closed; after the last the connection is the publisher's.
SetUp(w) ==
  /\ pc[w] \in Setup
  /\ \/ Return(w, "error") /\ CloseConn(fresh) /\ fresh' = None /\ UNCHANGED conn
     \/ /\ fresh \in usable
        /\ Goto(w, NextStage[pc[w]])
        /\ IF pc[w] = "confirms" THEN conn' = fresh /\ fresh' = None
                                 ELSE UNCHANGED <<conn, fresh>>
        /\ UNCHANGED network
  /\ UNCHANGED message

\* Mutant of Publish: the mutex is not held while the confirm is awaited.
PublishUnlocked(w) ==
  /\ pc[w] = "publish"
  /\ \/ DropConn /\ Return(w, "error") /\ UNCHANGED message
     \/ /\ conn \in usable
        /\ message' = [message EXCEPT ![call[w]] = "sent"]
        /\ mu' = None
        /\ pc' = [pc EXCEPT ![w] = "await"]
        /\ UNCHANGED <<conn, network, call, late, closed, called, outcome>>
  /\ UNCHANGED fresh

\* PublishWithDeferredConfirmWithContext does not look at the deadline.
Publish(w) ==
  /\ pc[w] = "publish"
  /\ \/ DropConn /\ Return(w, "error") /\ UNCHANGED message
     \/ /\ conn \in usable
        /\ message' = [message EXCEPT ![call[w]] = "sent"]
        /\ Goto(w, "await")
        /\ UNCHANGED <<conn, network>>
  /\ UNCHANGED fresh

\* Mutant of AwaitConfirm: WaitContext's first result is not looked at.
AwaitConfirmUnchecked(w) ==
  /\ pc[w] = "await"
  /\ \/ /\ message[call[w]] \in {"stored", "refused"} \/ conn \notin usable
        /\ Return(w, "ok")
        /\ UNCHANGED <<conn, network>>
     \/ late[w] /\ DropConn /\ Return(w, "error")
  /\ UNCHANGED <<fresh, message>>

\* Mutant of AwaitConfirm: the mutex stays locked after a missing confirm.
AwaitConfirmLocked(w) ==
  /\ pc[w] = "await"
  /\ \/ /\ message[call[w]] = "stored"
        /\ Return(w, "ok")
        /\ UNCHANGED <<conn, network>>
     \/ /\ message[call[w]] = "refused" \/ conn \notin usable
        /\ Goto(w, "idle")
        /\ UNCHANGED <<conn, network>>
     \/ late[w] /\ DropConn /\ Return(w, "error")
  /\ UNCHANGED <<fresh, message>>

\* WaitContext returns what came first: the broker's ack; a nack, which the
\* library also reports when the channel closes; or the end of the deadline.
AwaitConfirm(w) ==
  /\ pc[w] = "await"
  /\ \/ /\ message[call[w]] = "stored"
        /\ Return(w, "ok")
        /\ UNCHANGED <<conn, network>>
     \/ /\ message[call[w]] = "refused" \/ conn \notin usable
        /\ Return(w, "error")
        /\ UNCHANGED <<conn, network>>
     \/ late[w] /\ DropConn /\ Return(w, "error")
  /\ UNCHANGED <<fresh, message>>

\* Close waits for the mutex like everyone else.
Close ==
  /\ mu = None /\ ~closed
  /\ closed' = TRUE
  /\ DropConn
  /\ UNCHANGED <<workers, mu, fresh, called, message, outcome>>

-----------------------------------------------------------------------------
(***************************************************************************)
(* The network and the broker                                              *)
(***************************************************************************)

ConnectionDrops(c) ==
  /\ c \in open
  /\ CloseConn(c)
  /\ UNCHANGED <<workers, publisher, called, message, outcome>>

ChannelDrops(c) ==
  /\ c \in usable
  /\ usable' = usable \ {c}
  /\ UNCHANGED <<workers, publisher, open, dialled, called, message, outcome>>

\* The exchange is durable and the message persistent: it is stored before it
\* is acknowledged.
BrokerHandles(n, fate) ==
  /\ message[n] = "sent"
  /\ message' = [message EXCEPT ![n] = fate]
  /\ UNCHANGED <<workers, publisher, network, called, outcome>>

Init ==
  /\ pc = [w \in Worker |-> "idle"]
  /\ call = [w \in Worker |-> None]
  /\ late = [w \in Worker |-> FALSE]
  /\ mu = None /\ conn = None /\ fresh = None /\ closed = FALSE
  /\ open = {} /\ usable = {} /\ dialled = 0
  /\ called = 0
  /\ message = [n \in Call |-> "none"]
  /\ outcome = [n \in Call |-> "none"]

Step(w) == Lock(w) \/ Dial(w) \/ SetUp(w) \/ Publish(w) \/ AwaitConfirm(w)

Next ==
  \/ \E w \in Worker : PublishPhaseChange(w) \/ Expire(w) \/ Step(w)
  \/ Close
  \/ \E c \in Connection : ConnectionDrops(c) \/ ChannelDrops(c)
  \/ \E n \in Call, fate \in {"stored", "refused"} : BrokerHandles(n, fate)

Spec == Init /\ [][Next]_vars

\* A call that can go on does (Dial and the requests after it have the
\* library's own timeouts), every deadline passes, and Go's mutex is fair: a
\* caller it lets in again and again is not one that waits for ever.
FairSpec ==
  Spec /\ \A w \in Worker : WF_vars(Expire(w)) /\ SF_vars(Step(w))

-----------------------------------------------------------------------------
(***************************************************************************)
(* Properties                                                              *)
(***************************************************************************)

\* A call returns nil only if the broker has stored its own message, whatever
\* dropped, timed out or was refused in between: what publishPhase records in
\* the annotation has been published.
ConfirmedIsStored ==
  \A n \in Call : outcome[n] = "ok" => message[n] = "stored"

\* Every connection that was dialled is the publisher's, is being set up by
\* the holder of the mutex, or has been closed: no error path and no reconnect
\* leaves one behind.
NoConnectionLeft ==
  /\ open \subseteq {conn, fresh}
  /\ mu = None => fresh = None

\* Once Close has returned no connection is open and no call gets past the
\* mutex: "later publishes fail".
ClosedIsFinal ==
  closed => open = {} /\ \A w \in Worker : pc[w] \in {"idle", "lock"}

Publishing == INSTANCE PhasePublishing WITH
  made <- 1 .. called,
  sent <- {n \in Call : message[n] # "none"},
  taken <- {n \in Call : message[n] = "stored"},
  returned <- outcome,
  shut <- closed

\* The publisher keeps what its callers rely on, through drops, reconnects,
\* deadlines and Close: a message is sent once per call and before the next one
\* is sent its call has returned, nil only if the broker took it.
ImplementsPublishing == Publishing!Spec

\* Every call returns, whatever the broker does.
CallsReturn ==
  \A w \in Worker : pc[w] # "idle" ~> pc[w] = "idle"

-----------------------------------------------------------------------------
(***************************************************************************)
(* The inductive invariant                                                 *)
(***************************************************************************)

\* Past the mutex is who holds it.
Holds == \A w \in Worker : (mu = w) <=> (pc[w] \notin {"idle", "lock"})

\* A call under way has a number of its own and has not returned.
CallsInv ==
  /\ \A w \in Worker : pc[w] # "idle" =>
       call[w] \in 1 .. called /\ outcome[call[w]] = "none"
  /\ \A v, w \in Worker :
       pc[v] # "idle" /\ pc[w] # "idle" /\ call[v] = call[w] => v = w
  /\ \A n \in Call : n > called => outcome[n] = "none"

\* Where the one connection is.
ConnInv ==
  /\ open \subseteq {conn, fresh}
  /\ mu = None => fresh = None
  /\ \A w \in Worker :
       /\ pc[w] \in {"dial"} \cup Setup => conn = None
       /\ pc[w] \in {"dial", "publish", "await"} => fresh = None
  /\ closed => mu = None /\ conn = None

\* A message whose call has not returned is one that a call awaits the confirm of.
SentInv ==
  \A n \in Call : message[n] # "none" /\ outcome[n] = "none" =>
    \E w \in Worker : pc[w] = "await" /\ call[w] = n

PublisherInv == TypeOK /\ Holds /\ CallsInv /\ ConnInv /\ SentInv /\ ConfirmedIsStored

=============================================================================
