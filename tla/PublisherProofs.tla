----------------------------- MODULE PublisherProofs -----------------------------
(***************************************************************************)
(* RabbitPublisher's safety properties, for any number of workers, calls   *)
(* and connections.                                                        *)
(***************************************************************************)
EXTENDS RabbitPublisher, TLAPS

\* None is not a worker, a call or a connection.
LEMMA NoneIsOther == None \notin Worker /\ None \notin Call /\ None \notin Connection
BY PublisherAssumption DEF Call, Connection

LEMMA InitInv == Init => PublisherInv
<1> SUFFICES ASSUME Init PROVE PublisherInv
  OBVIOUS
<1> USE NoneIsOther, PublisherAssumption DEF Init
<1>1. TypeOK
  <2>1. /\ pc \in [Worker -> {"idle", "lock", "dial", "publish", "await"} \cup Setup]
        /\ call \in [Worker -> Call \cup {None}]
        /\ late \in [Worker -> BOOLEAN]
    BY Zenon
  <2>2. /\ message \in [Call -> {"none", "sent", "stored", "refused"}]
        /\ outcome \in [Call -> {"none", "ok", "error"}]
    BY Zenon
  <2>3. /\ dialled \in 0 .. MaxDials /\ called \in 0 .. MaxCalls
        /\ open \subseteq Connection /\ usable \subseteq open
    OBVIOUS
  <2>4. closed \in BOOLEAN
    BY Zenon
  <2> QED
    BY <2>1, <2>2, <2>3, <2>4, Zenon DEF TypeOK
<1>2. Holds /\ CallsInv /\ ConnInv /\ SentInv /\ ConfirmedIsStored
  BY DEF Holds, CallsInv, ConnInv, SentInv, ConfirmedIsStored, Setup
<1> QED
  BY <1>1, <1>2 DEF PublisherInv

\* A worker begins a call: its number is new.
LEMMA CallInv ==
  ASSUME PublisherInv, NEW w \in Worker, PublishPhaseChange(w)
  PROVE  PublisherInv'
<1> USE NoneIsOther, PublisherAssumption
    DEF PublisherInv, PublishPhaseChange, publisher, network
<1>1. TypeOK'
  BY DEF TypeOK, Call, Connection, Setup
<1>2. Holds'
  BY DEF TypeOK, Holds
<1>3. CallsInv'
  BY DEF TypeOK, CallsInv, Call
<1>4. ConnInv' /\ ConfirmedIsStored'
  BY DEF TypeOK, ConnInv, ConfirmedIsStored, Setup
<1>5. SentInv'
  BY DEF TypeOK, SentInv
<1> QED
  BY <1>1, <1>2, <1>3, <1>4, <1>5

\* A call that goes on past the mutex, which is free or its own.
LEMMA GotoKept ==
  ASSUME PublisherInv, NEW w \in Worker, pc[w] # "idle", mu \in {w, None},
         NEW stage \in {"dial", "publish", "await"} \cup Setup, Goto(w, stage)
  PROVE  /\ pc' \in [Worker -> {"idle", "lock", "dial", "publish", "await"} \cup Setup]
         /\ mu' \in Worker
         /\ Holds' /\ CallsInv'
         /\ pc[w] # "await" /\ message' = message => SentInv'
         /\ \A v \in Worker : v # w => pc'[v] \in {"idle", "lock"}
         /\ pc'[w] = stage
<1> USE NoneIsOther DEF PublisherInv, TypeOK, Goto, Setup
<1>1. \A v \in Worker : v # w => pc[v] \in {"idle", "lock"} /\ pc'[v] = pc[v]
  BY DEF Holds
<1>2. pc'[w] = stage /\ mu' = w
  OBVIOUS
<1>3. Holds'
  BY <1>1, <1>2 DEF Holds
<1>4. CallsInv'
  <2>1. \A v \in Worker : pc'[v] # "idle" <=> pc[v] # "idle"
    BY <1>1, <1>2
  <2> QED
    BY <2>1 DEF CallsInv
<1>5. pc[w] # "await" /\ message' = message => SentInv'
  BY <1>1 DEF SentInv
<1> QED
  BY <1>1, <1>2, <1>3, <1>4, <1>5

\* A call that returns, with the mutex or on finding the publisher closed.
LEMMA ReturnKept ==
  ASSUME PublisherInv, NEW w \in Worker, pc[w] # "idle", mu \in {w, None},
         NEW result \in {"ok", "error"}, Return(w, result)
  PROVE  /\ pc' \in [Worker -> {"idle", "lock", "dial", "publish", "await"} \cup Setup]
         /\ outcome' \in [Call -> {"none", "ok", "error"}]
         /\ mu' = None
         /\ Holds' /\ CallsInv'
         /\ \A v \in Worker : pc'[v] \in {"idle", "lock"}
         /\ call[w] \in Call /\ outcome'[call[w]] = result
         /\ \A n \in Call : n # call[w] => outcome'[n] = outcome[n]
         /\ message' = message => SentInv'
<1> USE NoneIsOther DEF PublisherInv, TypeOK, Return, Setup
<1>1. \A v \in Worker : v # w => pc[v] \in {"idle", "lock"} /\ pc'[v] = pc[v]
  BY DEF Holds
<1>2. pc'[w] = "idle" /\ mu' = None
  OBVIOUS
<1>3. Holds'
  BY <1>1, <1>2 DEF Holds
<1>4. call[w] \in Call /\ call[w] \in 1 .. called
  BY PublisherAssumption DEF CallsInv, Call
<1>5. /\ outcome'[call[w]] = result
      /\ \A n \in Call : n # call[w] => outcome'[n] = outcome[n]
  BY <1>4
<1>6. CallsInv'
  <2>1. \A v \in Worker : pc'[v] # "idle" =>
          pc[v] # "idle" /\ v # w /\ call[v] \in Call /\ call[v] # call[w]
    BY <1>1, <1>2, PublisherAssumption DEF CallsInv, Call
  <2>2. \A n \in Call : n > called => n # call[w]
    BY <1>4, PublisherAssumption DEF Call
  <2> QED
    BY <1>5, <2>1, <2>2 DEF CallsInv
<1>7. outcome' \in [Call -> {"none", "ok", "error"}]
  BY <1>4
<1>8. message' = message => SentInv'
  BY <1>1, <1>5 DEF SentInv
<1> QED
  BY <1>1, <1>2, <1>3, <1>4, <1>5, <1>6, <1>7, <1>8

\* What an error leaves of ConfirmedIsStored.
LEMMA ErrorKept ==
  ASSUME PublisherInv, NEW w \in Worker, pc[w] # "idle", mu \in {w, None},
         Return(w, "error"), message' = message
  PROVE  ConfirmedIsStored'
BY ReturnKept DEF PublisherInv, ConfirmedIsStored

LEMMA ExpireInv ==
  ASSUME PublisherInv, NEW w \in Worker, Expire(w)
  PROVE  PublisherInv'
<1> USE DEF PublisherInv, Expire, publisher, network
<1>1. late' \in [Worker -> BOOLEAN]
  BY Zenon DEF TypeOK
<1>2. TypeOK'
  BY <1>1, Zenon DEF TypeOK
<1>3. SentInv'
  BY Zenon DEF SentInv
<1> QED
  BY <1>2, <1>3, Zenon DEF Holds, CallsInv, ConnInv, ConfirmedIsStored

LEMMA LockInv ==
  ASSUME PublisherInv, NEW w \in Worker, Lock(w)
  PROVE  PublisherInv'
<1> USE NoneIsOther DEF PublisherInv
<1>1. pc[w] # "idle" /\ mu \in {w, None}
  BY DEF Lock
<1>2. CASE closed /\ Return(w, "error") /\ UNCHANGED <<conn, fresh, network, message>>
  <2> USE <1>1, <1>2, ReturnKept DEF network
  <2>1. TypeOK'
    BY Zenon DEF TypeOK, Return
  <2>2. ConnInv'
    BY DEF Lock, TypeOK, Return, ConnInv, Setup
  <2> QED
    BY <2>1, <2>2, ErrorKept
<1>3. CASE /\ ~closed /\ conn \in usable
           /\ Goto(w, "publish")
           /\ UNCHANGED <<conn, fresh, network, message>>
  <2> USE <1>1, <1>3, GotoKept DEF network
  <2>1. TypeOK'
    BY DEF TypeOK, Goto
  <2>2. ConnInv'
    BY DEF Lock, TypeOK, Goto, ConnInv, Setup
  <2>3. ConfirmedIsStored'
    BY Zenon DEF Goto, ConfirmedIsStored
  <2>4. Holds' /\ CallsInv' /\ SentInv'
    BY DEF Lock
  <2> QED
    BY <2>1, <2>2, <2>3, <2>4, Zenon
<1>4. CASE /\ ~closed /\ conn \notin usable
           /\ DropConn
           /\ Goto(w, "dial")
           /\ UNCHANGED <<fresh, message>>
  <2> USE <1>1, <1>4, GotoKept DEF DropConn, CloseConn
  <2>1. TypeOK'
    BY DEF TypeOK, Goto
  <2>2. ConnInv'
    BY DEF Lock, TypeOK, Goto, ConnInv, Setup
  <2>3. ConfirmedIsStored'
    BY Zenon DEF Goto, ConfirmedIsStored
  <2>4. Holds' /\ CallsInv' /\ SentInv'
    BY DEF Lock
  <2> QED
    BY <2>1, <2>2, <2>3, <2>4, Zenon
<1> QED
  BY <1>2, <1>3, <1>4 DEF Lock

LEMMA DialInv ==
  ASSUME PublisherInv, NEW w \in Worker, Dial(w)
  PROVE  PublisherInv'
<1> USE NoneIsOther DEF PublisherInv
<1>1. pc[w] = "dial" /\ mu \in {w, None} /\ conn = None /\ fresh = None /\ ~closed
  BY DEF Dial, Holds, ConnInv
<1>2. CASE Return(w, "error") /\ UNCHANGED <<fresh, network>>
  <2> USE <1>1, <1>2, ReturnKept DEF network, Dial
  <2>1. TypeOK'
    BY Zenon DEF TypeOK, Return
  <2>2. ConnInv'
    BY DEF TypeOK, Return, ConnInv, Setup
  <2> QED
    BY <2>1, <2>2, ErrorKept
<1>3. CASE /\ dialled < MaxDials
           /\ dialled' = dialled + 1
           /\ open' = open \cup {dialled'}
           /\ usable' = usable \cup {dialled'}
           /\ fresh' = dialled'
           /\ Goto(w, "channel")
  <2> USE <1>1, <1>3 DEF Dial
  <2>1. /\ mu' \in Worker /\ Holds' /\ CallsInv' /\ SentInv'
        /\ pc' \in [Worker -> {"idle", "lock", "dial", "publish", "await"} \cup Setup]
        /\ \A v \in Worker : v # w => pc'[v] \in {"idle", "lock"}
        /\ pc'[w] = "channel"
    BY GotoKept DEF Setup
  <2>2. dialled' \in Connection /\ dialled' \in 0 .. MaxDials
    BY PublisherAssumption DEF TypeOK, Connection
  <2>3. TypeOK'
    BY <2>1, <2>2 DEF TypeOK, Goto
  <2>4. ConnInv'
    BY <2>1, <2>2 DEF TypeOK, Goto, ConnInv, Setup
  <2> QED
    BY <2>1, <2>3, <2>4 DEF Goto, ConfirmedIsStored
<1> QED
  BY <1>2, <1>3 DEF Dial

LEMMA SetUpInv ==
  ASSUME PublisherInv, NEW w \in Worker, SetUp(w)
  PROVE  PublisherInv'
<1> USE NoneIsOther DEF PublisherInv
<1>1. pc[w] \in Setup /\ pc[w] # "idle" /\ mu \in {w, None} /\ conn = None /\ ~closed
  BY DEF SetUp, Holds, ConnInv, Setup
<1>2. CASE Return(w, "error") /\ CloseConn(fresh) /\ fresh' = None /\ UNCHANGED conn
  <2> USE <1>1, <1>2, ReturnKept DEF CloseConn, SetUp
  <2>1. TypeOK'
    BY Zenon DEF TypeOK, Return
  <2>2. ConnInv'
    BY DEF TypeOK, Return, ConnInv, Setup
  <2> QED
    BY <2>1, <2>2, ErrorKept
<1>3. CASE /\ fresh \in usable
           /\ Goto(w, NextStage[pc[w]])
           /\ IF pc[w] = "confirms" THEN conn' = fresh /\ fresh' = None
                                    ELSE UNCHANGED <<conn, fresh>>
           /\ UNCHANGED network
  <2> USE <1>1, <1>3 DEF network, SetUp
  <2>1. /\ pc[w] = "confirms" => NextStage[pc[w]] = "publish"
        /\ pc[w] # "confirms" => NextStage[pc[w]] \in Setup
    BY DEF Setup, NextStage
  <2>2. /\ mu' \in Worker /\ Holds' /\ CallsInv' /\ SentInv'
        /\ pc' \in [Worker -> {"idle", "lock", "dial", "publish", "await"} \cup Setup]
        /\ \A v \in Worker : v # w => pc'[v] \in {"idle", "lock"}
        /\ pc'[w] = NextStage[pc[w]]
    BY <2>1, GotoKept DEF Setup
  <2>3. TypeOK'
    BY <2>2 DEF TypeOK, Goto
  <2>4. ConnInv'
    BY <2>1, <2>2 DEF TypeOK, Goto, ConnInv, Setup
  <2> QED
    BY <2>2, <2>3, <2>4 DEF Goto, ConfirmedIsStored
<1> QED
  BY <1>2, <1>3 DEF SetUp

LEMMA PublishInv ==
  ASSUME PublisherInv, NEW w \in Worker, Publish(w)
  PROVE  PublisherInv'
<1> USE NoneIsOther DEF PublisherInv
<1>1. pc[w] = "publish" /\ mu \in {w, None} /\ fresh = None /\ ~closed
  BY SMTT(40) DEF Publish, Holds, ConnInv
<1>2. CASE DropConn /\ Return(w, "error") /\ UNCHANGED message
  <2> USE <1>1, <1>2, ReturnKept DEF DropConn, CloseConn, Publish
  <2>1. TypeOK'
    BY Zenon DEF TypeOK, Return
  <2>2. ConnInv'
    BY DEF TypeOK, Return, ConnInv, Setup
  <2> QED
    BY <2>1, <2>2, ErrorKept
<1>3. CASE /\ conn \in usable
           /\ message' = [message EXCEPT ![call[w]] = "sent"]
           /\ Goto(w, "await")
           /\ UNCHANGED <<conn, network>>
  <2> USE <1>1, <1>3, GotoKept DEF network, Publish
  <2>1. TypeOK'
    BY ZenonT(40) DEF TypeOK, Goto
  <2>2. ConnInv'
    BY DEF TypeOK, Goto, ConnInv, Setup
  <2>3. ConfirmedIsStored'
    BY DEF TypeOK, Goto, CallsInv, ConfirmedIsStored
  <2>4. SentInv'
    <3>1. \A n \in Call : n # call[w] => message'[n] = message[n]
      BY DEF TypeOK
    <3>2. \A v \in Worker : pc[v] = "await" => v # w /\ pc'[v] = "await"
      BY DEF TypeOK, Goto
    <3>3. outcome' = outcome /\ call' = call
      BY DEF Goto
    <3> QED
      BY <3>1, <3>2, <3>3 DEF SentInv
  <2> QED
    BY <2>1, <2>2, <2>3, <2>4
<1> QED
  BY <1>2, <1>3 DEF Publish

LEMMA AwaitConfirmInv ==
  ASSUME PublisherInv, NEW w \in Worker, AwaitConfirm(w)
  PROVE  PublisherInv'
<1> USE NoneIsOther DEF PublisherInv
<1>1. pc[w] = "await" /\ mu \in {w, None} /\ fresh = None /\ ~closed
  BY DEF AwaitConfirm, Holds, ConnInv
<1>2. CASE message[call[w]] = "stored" /\ Return(w, "ok") /\ UNCHANGED <<conn, network>>
  <2> USE <1>1, <1>2, ReturnKept DEF network, AwaitConfirm
  <2>1. TypeOK'
    BY Zenon DEF TypeOK, Return
  <2>2. ConnInv'
    BY DEF TypeOK, Return, ConnInv, Setup
  <2>3. ConfirmedIsStored'
    BY DEF ConfirmedIsStored
  <2> QED
    BY <2>1, <2>2, <2>3, SMTT(40)
<1>3. CASE Return(w, "error") /\ UNCHANGED <<conn, network>>
  <2> USE <1>1, <1>3, ReturnKept DEF network, AwaitConfirm
  <2>1. TypeOK'
    BY Zenon DEF TypeOK, Return
  <2>2. ConnInv'
    BY DEF TypeOK, Return, ConnInv, Setup
  <2> QED
    BY <2>1, <2>2, ErrorKept
<1>4. CASE DropConn /\ Return(w, "error")
  <2> USE <1>1, <1>4, ReturnKept DEF DropConn, CloseConn, AwaitConfirm
  <2>1. TypeOK'
    BY Zenon DEF TypeOK, Return
  <2>2. ConnInv'
    BY DEF TypeOK, Return, ConnInv, Setup
  <2> QED
    BY <2>1, <2>2, ErrorKept
<1> QED
  BY <1>2, <1>3, <1>4 DEF AwaitConfirm

LEMMA CloseInv ==
  ASSUME PublisherInv, Close
  PROVE  PublisherInv'
<1> USE NoneIsOther DEF PublisherInv, Close, DropConn, CloseConn, workers
<1>1. closed' \in BOOLEAN
  BY Zenon
<1>2. TypeOK'
  BY <1>1 DEF TypeOK
<1>3. ConnInv'
  BY DEF TypeOK, ConnInv, Setup, Holds
<1> QED
  BY <1>2, <1>3 DEF Holds, CallsInv, SentInv, ConfirmedIsStored

\* The network takes connections away and the broker settles messages that
\* were sent: none of them is one that was confirmed already.
LEMMA WorldInv ==
  ASSUME PublisherInv,
         \/ \E c \in Connection : ConnectionDrops(c) \/ ChannelDrops(c)
         \/ \E n \in Call, fate \in {"stored", "refused"} : BrokerHandles(n, fate)
  PROVE  PublisherInv'
<1> USE NoneIsOther DEF PublisherInv, workers, publisher, network
<1>1. ASSUME NEW c \in Connection, ConnectionDrops(c) PROVE PublisherInv'
  <2> USE <1>1 DEF ConnectionDrops, CloseConn
  <2>1. TypeOK' /\ ConnInv'
    BY DEF TypeOK, ConnInv
  <2> QED
    BY <2>1 DEF Holds, CallsInv, SentInv, ConfirmedIsStored
<1>2. ASSUME NEW c \in Connection, ChannelDrops(c) PROVE PublisherInv'
  <2> USE <1>2 DEF ChannelDrops
  <2>1. TypeOK' /\ ConnInv'
    BY SMTT(40) DEF TypeOK, ConnInv
  <2> QED
    BY <2>1 DEF Holds, CallsInv, SentInv, ConfirmedIsStored
<1>3. ASSUME NEW n \in Call, NEW fate \in {"stored", "refused"}, BrokerHandles(n, fate)
      PROVE  PublisherInv'
  <2> USE <1>3 DEF BrokerHandles
  <2>1. TypeOK'
    BY DEF TypeOK
  <2>2. ConfirmedIsStored'
    BY DEF TypeOK, ConfirmedIsStored
  <2>3. SentInv'
    BY DEF TypeOK, SentInv
  <2> QED
    BY <2>1, <2>2, <2>3 DEF Holds, CallsInv, ConnInv
<1> QED
  BY <1>1, <1>2, <1>3

LEMMA NextInv == PublisherInv /\ [Next]_vars => PublisherInv'
<1> SUFFICES ASSUME PublisherInv, [Next]_vars PROVE PublisherInv'
  OBVIOUS
<1>1. CASE UNCHANGED vars
  BY <1>1 DEF vars, workers, publisher, network, PublisherInv, TypeOK, Holds, CallsInv,
              ConnInv, SentInv, ConfirmedIsStored
<1>2. CASE \E w \in Worker : PublishPhaseChange(w) \/ Expire(w) \/ Step(w)
  BY <1>2, CallInv, ExpireInv, LockInv, DialInv, SetUpInv, PublishInv, AwaitConfirmInv
     DEF Step
<1> QED
  BY <1>1, <1>2, CloseInv, WorldInv DEF Next

-----------------------------------------------------------------------------
(***************************************************************************)
(* The refinement                                                          *)
(***************************************************************************)

\* The calls whose message was sent.
Sent == {n \in Call : message[n] # "none"}

LEMMA CallUnderWay ==
  ASSUME PublisherInv, NEW w \in Worker, pc[w] # "idle"
  PROVE  call[w] \in Call /\ call[w] \in 1 .. called /\ outcome[call[w]] = "none"
<1>1. call[w] \in 1 .. called /\ outcome[call[w]] = "none"
  BY DEF PublisherInv, CallsInv
<1>2. called \in 0 .. MaxCalls
  BY DEF PublisherInv, TypeOK
<1> QED
  BY <1>1, <1>2, PublisherAssumption DEF Call

\* Without a call that awaits its confirm every message is one of a call that
\* has returned.
LEMMA QuietWhenFree ==
  ASSUME PublisherInv, \A w \in Worker : pc[w] # "await"
  PROVE  \A n \in Sent : outcome[n] # "none"
BY DEF PublisherInv, SentInv, Sent

\* A return is the abstract one, if nil is returned for a stored message only.
LEMMA ReturnRefines ==
  ASSUME PublisherInv, NEW w \in Worker, pc[w] # "idle", NEW result \in {"ok", "error"},
         Return(w, result), message' = message, result = "ok" => message[call[w]] = "stored"
  PROVE  Publishing!Next
<1>1. call[w] \in Call /\ call[w] \in 1 .. called /\ outcome[call[w]] = "none"
  BY CallUnderWay
<1>2. Publishing!Return(call[w], result)
  BY <1>1 DEF Publishing!Return, Publishing!UnderWay, Return
<1> QED
  BY <1>1, <1>2 DEF Publishing!Next

\* The steps that send, settle or refuse nothing.
LEMMA QuietStepRefines ==
  ASSUME UNCHANGED <<called, message, outcome, closed>>
  PROVE  UNCHANGED Publishing!vars
BY DEF Publishing!vars

LEMMA CallRefines ==
  ASSUME PublisherInv, NEW w \in Worker, PublishPhaseChange(w)
  PROVE  Publishing!Next
<1>1. /\ called \in Nat /\ called' = called + 1 /\ called + 1 \in Call
      /\ UNCHANGED <<message, outcome, closed>>
  BY PublisherAssumption DEF PublisherInv, TypeOK, PublishPhaseChange, Call, publisher
<1>2. called + 1 \notin 1 .. called /\ 1 .. called' = (1 .. called) \cup {called + 1}
  BY <1>1
<1>3. Publishing!Make(called + 1)
  BY <1>1, <1>2, Zenon DEF Publishing!Make
<1> QED
  BY <1>1, <1>3 DEF Publishing!Next

LEMMA SendRefines ==
  ASSUME PublisherInv, NEW w \in Worker, pc[w] = "publish", Goto(w, "await"),
         message' = [message EXCEPT ![call[w]] = "sent"]
  PROVE  Publishing!Next
<1>1. PICK n \in Call : n = call[w] /\ n \in 1 .. called /\ outcome[n] = "none"
  BY CallUnderWay
<1>2. ~closed /\ \A v \in Worker : pc[v] # "await"
  BY NoneIsOther DEF PublisherInv, Holds, ConnInv
<1>3. \A m \in Sent : outcome[m] # "none"
  BY <1>2, QuietWhenFree
<1>4. message[n] = "none"
  BY <1>1, <1>3 DEF Sent
<1>5. /\ {m \in Call : message'[m] # "none"} = {m \in Call : message[m] # "none"} \cup {n}
      /\ {m \in Call : message'[m] = "stored"} = {m \in Call : message[m] = "stored"}
  BY <1>1, <1>4 DEF PublisherInv, TypeOK
<1>6. UNCHANGED <<called, outcome, closed>>
  BY DEF Goto
<1>7. Publishing!Send(n)
  BY <1>1, <1>2, <1>3, <1>4, <1>5, <1>6
  DEF Publishing!Send, Publishing!UnderWay, Publishing!Quiet, Sent
<1> QED
  BY <1>1, <1>7 DEF Publishing!Next

\* The broker stores a message, before or after its call has returned; one that
\* it refuses changes nothing that was promised.
LEMMA BrokerRefines ==
  ASSUME PublisherInv, NEW n \in Call, NEW fate \in {"stored", "refused"}, BrokerHandles(n, fate)
  PROVE  [Publishing!Next]_(Publishing!vars)
<1>1. /\ message[n] = "sent" /\ UNCHANGED <<called, outcome, closed>>
      /\ message' = [message EXCEPT ![n] = fate]
  BY DEF BrokerHandles, publisher
<1>2. {m \in Call : message'[m] # "none"} = {m \in Call : message[m] # "none"}
  BY <1>1 DEF PublisherInv, TypeOK
<1>3. CASE fate = "stored"
  <2>1. {m \in Call : message'[m] = "stored"} = {m \in Call : message[m] = "stored"} \cup {n}
    BY <1>1, <1>3 DEF PublisherInv, TypeOK
  <2>2. Publishing!Take(n)
    BY <1>1, <1>2, <2>1 DEF Publishing!Take
  <2> QED
    BY <2>2 DEF Publishing!Next
<1>4. CASE fate = "refused"
  <2>1. {m \in Call : message'[m] = "stored"} = {m \in Call : message[m] = "stored"}
    BY <1>1, <1>4 DEF PublisherInv, TypeOK
  <2> QED
    BY <1>1, <1>2, <2>1 DEF Publishing!vars
<1> QED
  BY <1>3, <1>4

LEMMA CloseRefines ==
  ASSUME PublisherInv, Close
  PROVE  Publishing!Next
<1>1. \A w \in Worker : pc[w] # "await"
  BY NoneIsOther DEF PublisherInv, Holds, Close
<1>2. \A n \in Sent : outcome[n] # "none"
  BY <1>1, QuietWhenFree
<1>3. Publishing!Close
  BY <1>2 DEF Publishing!Close, Publishing!Quiet, Publishing!UnderWay, Sent, Close
<1> QED
  BY <1>3 DEF Publishing!Next

\* A step of a call past PublishPhaseChange's entry.
LEMMA StepRefines ==
  ASSUME PublisherInv, NEW w \in Worker, Step(w)
  PROVE  [Publishing!Next]_(Publishing!vars)
<1>1. pc[w] # "idle"
  BY DEF Step, Lock, Dial, SetUp, Publish, AwaitConfirm, Setup
<1>2. CASE Return(w, "error") /\ message' = message
  BY <1>1, <1>2, ReturnRefines
<1>3. CASE Return(w, "ok") /\ message' = message /\ message[call[w]] = "stored"
  BY <1>1, <1>3, ReturnRefines
<1>4. CASE (\E stage \in {"publish", "dial", "channel", NextStage[pc[w]]} : Goto(w, stage))
           /\ message' = message
  BY <1>4, QuietStepRefines DEF Goto
<1>5. CASE /\ pc[w] = "publish" /\ Goto(w, "await")
           /\ message' = [message EXCEPT ![call[w]] = "sent"]
  BY <1>5, SendRefines, Zenon
<1> QED
  BY <1>2, <1>3, <1>4, <1>5, SMTT(40) DEF Step, Lock, Dial, SetUp, Publish, AwaitConfirm

-----------------------------------------------------------------------------
(***************************************************************************)
(* Theorems                                                                *)
(***************************************************************************)

\* The invariant holds of the publisher, whatever the network and the broker do.
THEOREM PublisherInvariant == Spec => []PublisherInv
BY InitInv, NextInv, PTL DEF Spec

\* Mutex, connection, deadlines, messages and outcomes keep their types.
THEOREM PublisherTypeCorrect == Spec => []TypeOK
<1>1. PublisherInv => TypeOK
  BY DEF PublisherInv
<1> QED
  BY <1>1, PublisherInvariant, PTL

\* RabbitPublisher implements PhasePublishing: PublishPhaseChange sends at most
\* once and one call at a time, returns nil only for a message the broker took,
\* and sends nothing after Close.
THEOREM PublisherImplementsPublishing == Spec => ImplementsPublishing
<1>1. Init => Publishing!Init
  <2> SUFFICES ASSUME Init PROVE Publishing!Init
    OBVIOUS
  <2>1. 1 .. called = {} /\ outcome = [n \in Call |-> "none"] /\ closed = FALSE
    BY DEF Init
  <2>2. \A n \in Call : message[n] = "none"
    BY DEF Init
  <2> QED
    BY <2>1, <2>2 DEF Publishing!Init
<1>2. PublisherInv /\ [Next]_vars => [Publishing!Next]_(Publishing!vars)
  <2> SUFFICES ASSUME PublisherInv, [Next]_vars PROVE [Publishing!Next]_(Publishing!vars)
    OBVIOUS
  <2>1. CASE UNCHANGED vars
    BY <2>1, QuietStepRefines DEF vars, publisher
  <2>2. ASSUME NEW w \in Worker, Expire(w) PROVE UNCHANGED Publishing!vars
    BY <2>2, QuietStepRefines DEF Expire, publisher
  <2>3. ASSUME NEW c \in Connection, ConnectionDrops(c) \/ ChannelDrops(c)
        PROVE  UNCHANGED Publishing!vars
    BY <2>3, QuietStepRefines DEF ConnectionDrops, ChannelDrops, publisher
  <2> QED
    BY <2>1, <2>2, <2>3, CallRefines, StepRefines, CloseRefines, BrokerRefines DEF Next
<1> QED
  BY <1>1, <1>2, PublisherInvariant, PTL DEF Spec, ImplementsPublishing, Publishing!Spec

\* A PublishPhaseChange that returns nil has left its event in the broker.
THEOREM ConfirmMeansStored == Spec => []ConfirmedIsStored
<1>1. PublisherInv => ConfirmedIsStored
  BY DEF PublisherInv
<1> QED
  BY <1>1, PublisherInvariant, PTL

\* channel(), reset and Close leave no connection behind on any path.
THEOREM ConnectionsAreKept == Spec => []NoConnectionLeft
<1>1. PublisherInv => NoConnectionLeft
  BY DEF PublisherInv, ConnInv, NoConnectionLeft
<1> QED
  BY <1>1, PublisherInvariant, PTL

\* After Close nothing is open and no call gets past the mutex.
THEOREM CloseIsFinal == Spec => []ClosedIsFinal
<1>1. PublisherInv => ClosedIsFinal
  BY NoneIsOther DEF PublisherInv, TypeOK, Holds, ConnInv, ClosedIsFinal
<1> QED
  BY <1>1, PublisherInvariant, PTL

=============================================================================
