-------------------------- MODULE CircuitBreakerProofs --------------------------
(***************************************************************************)
(* What CircuitBreaker's runs check, for any callers, limits and times.    *)
(***************************************************************************)
EXTENDS CircuitBreaker, FiniteSetTheorems, TLAPS

\* A record with the fields of a breaker that counts nothing yet.
Empty(b) == b.requests = 0 /\ b.successes = 0 /\ b.failures = 0

LEMMA ExpiryType ==
  ASSUME now \in Nat, NEW s \in State PROVE Expiry(s) \in Nat
BY BreakerAssumption DEF State, Expiry, Never

LEMMA NewGeneration ==
  ASSUME now \in Nat, NEW b \in Breaker
  PROVE  /\ ToNewGeneration(b) \in Breaker
         /\ ToNewGeneration(b).generation = b.generation + 1
         /\ ToNewGeneration(b).state = b.state
         /\ Empty(ToNewGeneration(b))
<1> DEFINE m == ToNewGeneration(b)
<1>1. b.generation \in Nat /\ b.state \in State /\ Expiry(b.state) \in Nat
  BY ExpiryType DEF Breaker
<1>a. PICK g \in Nat, e \in Nat : g = b.generation + 1 /\ e = Expiry(b.state)
  BY <1>1
<1>2. m = [b EXCEPT !.generation = g, !.expiry = e,
                    !.requests = 0, !.successes = 0, !.failures = 0, !.streak = 0]
  BY <1>a DEF ToNewGeneration
<1> HIDE DEF m
<1>3. m \in Breaker
  BY <1>2, Zenon DEF Breaker
<1>4. m.generation = b.generation + 1 /\ m.state = b.state /\ Empty(m)
  BY <1>a, <1>2 DEF Breaker, Empty
<1> QED
  BY <1>3, <1>4 DEF m

LEMMA StateSet ==
  ASSUME now \in Nat, NEW b \in Breaker, NEW s \in State
  PROVE  /\ SetState(b, s) \in Breaker
         /\ SetState(b, s).state = s
         /\ IF b.state = s THEN SetState(b, s) = b
            ELSE SetState(b, s).generation = b.generation + 1 /\ Empty(SetState(b, s))
<1> DEFINE m == [b EXCEPT !.state = s]
<1>1. m \in Breaker /\ m.generation = b.generation /\ m.state = s
  BY DEF Breaker
<1> HIDE DEF m
<1>2. /\ ToNewGeneration(m) \in Breaker
      /\ ToNewGeneration(m).generation = b.generation + 1
      /\ ToNewGeneration(m).state = s
      /\ Empty(ToNewGeneration(m))
  BY <1>1, NewGeneration
<1>3. SetState(b, s) = IF b.state = s THEN b ELSE ToNewGeneration(m)
  BY DEF SetState, m
<1> QED
  BY <1>2, <1>3

\* The clock leaves the breaker alone or starts a generation.
LEMMA Clock ==
  ASSUME TypeOK
  PROVE  /\ CurrentState(breaker) \in Breaker
         /\ \/ CurrentState(breaker) = breaker
            \/ /\ CurrentState(breaker).generation = breaker.generation + 1
               /\ Empty(CurrentState(breaker))
         /\ breaker.state = "HALF_OPEN" => CurrentState(breaker) = breaker
         /\ breaker.state = "OPEN" /\ ~(breaker.expiry < now) => CurrentState(breaker) = breaker
<1>1. breaker \in Breaker /\ "HALF_OPEN" \in State /\ now \in Nat
  BY DEF TypeOK, State
<1> QED
  BY <1>1, NewGeneration, StateSet DEF CurrentState

\* Results move a breaker on by a generation or count one result.
LEMMA Success ==
  ASSUME now \in Nat, NEW b \in Breaker
  PROVE  /\ OnSuccess(b) \in Breaker
         /\ b.state = "OPEN" => OnSuccess(b).state = "OPEN"
         /\ \/ OnSuccess(b).generation = b.generation + 1 /\ Empty(OnSuccess(b))
            \/ /\ OnSuccess(b).generation = b.generation
               /\ OnSuccess(b).state = b.state /\ b.state # "HALF_OPEN"
               /\ OnSuccess(b).requests = b.requests
               /\ OnSuccess(b).successes = b.successes + 1
               /\ OnSuccess(b).failures = b.failures
<1> DEFINE m == [b EXCEPT !.successes = @ + 1, !.streak = 0]
<1>1. /\ m \in Breaker /\ m.generation = b.generation /\ m.state = b.state
      /\ m.requests = b.requests /\ m.successes = b.successes + 1 /\ m.failures = b.failures
  <2>1. m = [b EXCEPT !.successes = b.successes + 1, !.streak = 0]
    OBVIOUS
  <2>2. b.successes + 1 \in Nat
    BY DEF Breaker
  <2> HIDE DEF m
  <2>3. m \in Breaker
    BY <2>1, <2>2, Zenon DEF Breaker
  <2> QED
    BY <2>1, <2>3 DEF Breaker
<1>2. OnSuccess(b) = IF b.state = "HALF_OPEN" THEN SetState(m, "CLOSED") ELSE m
  BY DEF OnSuccess, m
<1> HIDE DEF m
<1>3. /\ SetState(m, "CLOSED") \in Breaker
      /\ b.state = "HALF_OPEN" =>
           SetState(m, "CLOSED").generation = b.generation + 1 /\ Empty(SetState(m, "CLOSED"))
  BY <1>1, StateSet DEF State
<1> QED
  BY <1>1, <1>2, <1>3

LEMMA Failure ==
  ASSUME now \in Nat, NEW b \in Breaker
  PROVE  /\ OnFailure(b) \in Breaker
         /\ b.state = "OPEN" => OnFailure(b).state = "OPEN"
         /\ \/ OnFailure(b).generation = b.generation + 1 /\ Empty(OnFailure(b))
            \/ /\ OnFailure(b).generation = b.generation
               /\ OnFailure(b).state = b.state
               /\ OnFailure(b).requests = b.requests
               /\ OnFailure(b).successes = b.successes
               /\ OnFailure(b).failures = b.failures + 1
<1> DEFINE m == [b EXCEPT !.failures = @ + 1, !.streak = @ + 1]
<1>1. /\ m \in Breaker /\ m.generation = b.generation /\ m.state = b.state
      /\ m.requests = b.requests /\ m.successes = b.successes /\ m.failures = b.failures + 1
  <2>1. m = [b EXCEPT !.failures = b.failures + 1, !.streak = b.streak + 1]
    OBVIOUS
  <2>2. b.failures + 1 \in Nat /\ b.streak + 1 \in Nat
    BY DEF Breaker
  <2> HIDE DEF m
  <2>3. m \in Breaker
    BY <2>1, <2>2, Zenon DEF Breaker
  <2> QED
    BY <2>1, <2>3 DEF Breaker
<1>2. OnFailure(b) = IF m.streak > FailureLimit THEN SetState(m, "OPEN") ELSE m
  BY DEF OnFailure, m
<1> HIDE DEF m
<1>3. /\ SetState(m, "OPEN") \in Breaker /\ SetState(m, "OPEN").state = "OPEN"
      /\ IF b.state = "OPEN" THEN SetState(m, "OPEN") = m
         ELSE SetState(m, "OPEN").generation = b.generation + 1 /\ Empty(SetState(m, "OPEN"))
  BY <1>1, StateSet DEF State
<1> QED
  BY <1>1, <1>2, <1>3
-----------------------------------------------------------------------------
(***************************************************************************)
(* The counts                                                              *)
(***************************************************************************)

LEMMA FiniteOf == \A g : IsFiniteSet(Of(g)) /\ Cardinality(Of(g)) \in Nat
<1>1. \A g : Of(g) \in SUBSET Caller
  BY DEF Of
<1> QED
  BY <1>1, BreakerAssumption, FS_Subset, FS_CardinalityType

\* A generation that is yet to come has let no call through.
LEMMA NoneOfLater ==
  ASSUME BreakerInv, NEW g \in Nat, g > breaker.generation
  PROVE  Of(g) = {}
<1> SUFFICES ASSUME NEW c \in Caller, calls[c] = <<instance, g>> PROVE FALSE
  BY DEF Of
<1>1. instance \in Nat /\ breaker.generation \in Nat
  BY DEF BreakerInv, TypeOK, Breaker
<1>2. calls[c] # None /\ calls[c][1] = instance /\ calls[c][2] = g
  BY <1>1, BreakerAssumption
<1>3. g <= breaker.generation
  BY <1>2 DEF BreakerInv, Tickets
<1> QED
  BY <1>1, <1>3

LEMMA EmptyCounted ==
  ASSUME NEW b \in Breaker, Empty(b) PROVE Counted(b, {})
BY FS_EmptySet, BreakerAssumption DEF Empty, Counted

\* A breaker one generation on starts from nothing.
LEMMA NextGeneration ==
  ASSUME BreakerInv, NEW b \in Breaker, Empty(b), b.generation > breaker.generation
  PROVE  Counted(b, Of(b.generation))
<1>1. b.generation \in Nat
  BY DEF Breaker
<1> QED
  BY <1>1, NoneOfLater, EmptyCounted

\* What the clock makes of the breaker counts right.
LEMMA ClockKept ==
  ASSUME BreakerInv
  PROVE  /\ CurrentState(breaker) \in Breaker
         /\ CurrentState(breaker).generation >= breaker.generation
         /\ Counted(CurrentState(breaker), Of(CurrentState(breaker).generation))
<1> DEFINE b == CurrentState(breaker)
<1>1. TypeOK /\ Counted(breaker, Of(breaker.generation)) /\ breaker.generation \in Nat
  BY DEF BreakerInv, TypeOK, Breaker
<1>2. /\ b \in Breaker
      /\ b = breaker \/ (b.generation = breaker.generation + 1 /\ Empty(b))
  BY <1>1, Clock
<1> HIDE DEF b
<1>3. b.generation = breaker.generation + 1 /\ Empty(b) => Counted(b, Of(b.generation))
  BY <1>1, <1>2, NextGeneration
<1>4. b.generation >= breaker.generation /\ Counted(b, Of(b.generation))
  BY <1>1, <1>2, <1>3
<1> QED
  BY <1>2, <1>4 DEF b

\* The calls stay and the breaker does not go back: GetState, a rejection,
\* Reset.
LEMMA SameCalls ==
  ASSUME BreakerInv, NEW b \in Breaker, b.generation >= breaker.generation,
         Counted(b, Of(b.generation)), breaker' = b, UNCHANGED <<instance, calls>>
  PROVE  Tickets' /\ Counted(breaker, Of(breaker.generation))'
<1>1. b.generation \in Nat /\ breaker.generation \in Nat
  BY DEF BreakerInv, TypeOK, Breaker
<1>2. Tickets'
  <2> SUFFICES ASSUME NEW c \in Caller, calls[c] # None
               PROVE  /\ calls[c][1] <= instance
                      /\ calls[c][1] = instance => calls[c][2] <= b.generation
    BY DEF Tickets
  <2>1. calls[c][2] \in Nat
    BY DEF BreakerInv, TypeOK
  <2> QED
    BY <1>1, <2>1 DEF BreakerInv, Tickets
<1>3. Counted(breaker, Of(breaker.generation))'
  <2>1. Of(b.generation)' = Of(b.generation)
    BY DEF Of
  <2> QED
    BY <2>1 DEF Counted, Of
<1> QED
  BY <1>2, <1>3
-----------------------------------------------------------------------------
(***************************************************************************)
(* The steps                                                               *)
(***************************************************************************)

\* A call is let through: one more request, and one more in flight.
LEMMA Admitted ==
  ASSUME BreakerInv, NEW c \in Caller, calls[c] = None,
         NEW b \in Breaker, b.generation >= breaker.generation,
         Counted(b, Of(b.generation)), ~Rejects(b),
         breaker' = [b EXCEPT !.requests = b.requests + 1],
         calls' = [calls EXCEPT ![c] = <<instance, b.generation>>],
         UNCHANGED instance
  PROVE  /\ breaker' \in Breaker /\ calls' \in [Caller -> (Nat \X Nat) \cup {None}]
         /\ Tickets' /\ Counted(breaker, Of(breaker.generation))'
<1>1. /\ b.generation \in Nat /\ breaker.generation \in Nat /\ b.requests \in Nat
      /\ b.successes \in Nat /\ b.failures \in Nat
      /\ instance \in Nat /\ calls \in [Caller -> (Nat \X Nat) \cup {None}]
  BY DEF BreakerInv, TypeOK, Breaker
<1>2. b.requests + 1 \in Nat
  BY <1>1
<1>3. /\ breaker' \in Breaker /\ breaker'.generation = b.generation
      /\ breaker'.state = b.state /\ breaker'.requests = b.requests + 1
      /\ breaker'.successes = b.successes /\ breaker'.failures = b.failures
  BY <1>2 DEF Breaker
<1>4. <<instance, b.generation>> \in Nat \X Nat
  BY <1>1
<1>5. calls' \in [Caller -> (Nat \X Nat) \cup {None}]
  BY <1>1, <1>4
<1>6. Tickets'
  <2> SUFFICES ASSUME NEW d \in Caller, calls'[d] # None
               PROVE  /\ calls'[d][1] <= instance
                      /\ calls'[d][1] = instance => calls'[d][2] <= b.generation
    BY <1>3 DEF Tickets
  <2>1. CASE d = c
    BY <1>1, <2>1
  <2>2. CASE d # c
    <3>1. calls'[d] = calls[d] /\ calls[d] # None /\ calls[d][2] \in Nat
      BY <1>1, <2>2
    <3> QED
      BY <1>1, <3>1 DEF BreakerInv, Tickets
  <2> QED
    BY <2>1, <2>2
<1>7. Counted(breaker, Of(breaker.generation))'
  <2>1. Of(breaker.generation)' = Of(b.generation) \cup {c}
    BY <1>1, <1>3 DEF Of
  <2>2. c \notin Of(b.generation)
    BY <1>4, BreakerAssumption DEF Of
  <2>3. Cardinality(Of(b.generation) \cup {c}) = Cardinality(Of(b.generation)) + 1
    BY <2>2, FiniteOf, FS_AddElement, Zenon
  <2>4. Cardinality(Of(b.generation)) \in Nat
    BY FiniteOf
  <2>5. b.state = "HALF_OPEN" => b.requests + 1 <= MaxRequests
    BY <1>1, BreakerAssumption DEF Rejects
  <2>6. b.requests + 1 = b.successes + b.failures + (Cardinality(Of(b.generation)) + 1)
    BY <1>1, <2>4 DEF Counted
  <2> QED
    BY <1>3, <2>1, <2>3, <2>5, <2>6 DEF Counted
<1> QED
  BY <1>3, <1>5, <1>6, <1>7

LEMMA BeforeRequestInv ==
  ASSUME BreakerInv, NEW c \in Caller, BeforeRequest(c)
  PROVE  BreakerInv'
<1>1. PICK b \in Breaker :
        /\ b = CurrentState(breaker)
        /\ b.generation >= breaker.generation
        /\ Counted(b, Of(b.generation))
  BY ClockKept
<1>2. CASE Rejects(b) /\ breaker' = b /\ UNCHANGED <<calls, admitted>>
  <2>1. Tickets' /\ Counted(breaker, Of(breaker.generation))'
    BY <1>1, <1>2, SameCalls DEF BeforeRequest
  <2>2. TypeOK'
    BY <1>1, <1>2 DEF BreakerInv, TypeOK, BeforeRequest
  <2> QED
    BY <2>1, <2>2 DEF BreakerInv
<1>3. CASE /\ ~Rejects(b) /\ admitted < MaxCalls
           /\ breaker' = [b EXCEPT !.requests = @ + 1]
           /\ calls' = [calls EXCEPT ![c] = <<instance, b.generation>>]
           /\ admitted' = admitted + 1
  <2>1. /\ breaker' \in Breaker /\ calls' \in [Caller -> (Nat \X Nat) \cup {None}]
        /\ Tickets' /\ Counted(breaker, Of(breaker.generation))'
    BY <1>1, <1>3, Admitted, Zenon DEF BeforeRequest
  <2>2. TypeOK'
    BY <1>3, <2>1 DEF BreakerInv, TypeOK, BeforeRequest
  <2> QED
    BY <2>1, <2>2 DEF BreakerInv
<1> QED
  BY <1>1, <1>2, <1>3 DEF BeforeRequest

\* A call ends, and the breaker stays or goes on by a generation: the call was
\* not one of those it still counts.
LEMMA Uncounted ==
  ASSUME BreakerInv, NEW c \in Caller, calls[c] # None,
         NEW b \in Breaker, b.generation >= breaker.generation,
         Counted(b, Of(b.generation)), c \notin Of(b.generation),
         breaker' = b, calls' = [calls EXCEPT ![c] = None], UNCHANGED instance
  PROVE  Tickets' /\ Counted(breaker, Of(breaker.generation))'
<1>1. /\ b.generation \in Nat /\ breaker.generation \in Nat /\ instance \in Nat
      /\ calls \in [Caller -> (Nat \X Nat) \cup {None}]
      /\ <<instance, b.generation>> # None
  BY BreakerAssumption DEF BreakerInv, TypeOK, Breaker
<1>2. Tickets'
  <2> SUFFICES ASSUME NEW d \in Caller, calls'[d] # None
               PROVE  /\ calls'[d][1] <= instance
                      /\ calls'[d][1] = instance => calls'[d][2] <= b.generation
    BY DEF Tickets
  <2>1. d # c /\ calls'[d] = calls[d] /\ calls[d] # None /\ calls[d][2] \in Nat
    BY <1>1
  <2> QED
    BY <1>1, <2>1 DEF BreakerInv, Tickets
<1>3. Of(breaker.generation)' = Of(b.generation)
  BY <1>1 DEF Of
<1> QED
  BY <1>2, <1>3 DEF Counted
\* A call ends and its result is counted: one less in flight, one more result.
LEMMA Finished ==
  ASSUME BreakerInv, NEW c \in Caller, calls[c] # None,
         NEW b \in Breaker, b.generation >= breaker.generation,
         Counted(b, Of(b.generation)), c \in Of(b.generation),
         NEW r \in Breaker, r.generation = b.generation, r.state = b.state,
         r.requests = b.requests,
         r.successes + r.failures = b.successes + b.failures + 1,
         r.state = "HALF_OPEN" => r.successes = b.successes,
         breaker' = r, calls' = [calls EXCEPT ![c] = None], UNCHANGED instance
  PROVE  Tickets' /\ Counted(breaker, Of(breaker.generation))'
<1>1. /\ b.generation \in Nat /\ breaker.generation \in Nat /\ instance \in Nat
      /\ b.requests \in Nat /\ b.successes \in Nat /\ b.failures \in Nat
      /\ r.successes \in Nat /\ r.failures \in Nat
      /\ calls \in [Caller -> (Nat \X Nat) \cup {None}]
      /\ <<instance, b.generation>> # None
  BY BreakerAssumption DEF BreakerInv, TypeOK, Breaker
<1>2. Tickets'
  <2> SUFFICES ASSUME NEW d \in Caller, calls'[d] # None
               PROVE  /\ calls'[d][1] <= instance
                      /\ calls'[d][1] = instance => calls'[d][2] <= b.generation
    BY DEF Tickets
  <2>1. d # c /\ calls'[d] = calls[d] /\ calls[d] # None /\ calls[d][2] \in Nat
    BY <1>1
  <2> QED
    BY <1>1, <2>1 DEF BreakerInv, Tickets
<1>3. Of(breaker.generation)' = Of(b.generation) \ {c}
  BY <1>1 DEF Of
<1>4. /\ Cardinality(Of(b.generation)) \in Nat
      /\ Cardinality(Of(b.generation) \ {c}) = Cardinality(Of(b.generation)) - 1
  BY FiniteOf, FS_RemoveElement, Zenon
<1>5. r.requests = r.successes + r.failures + Cardinality(Of(b.generation) \ {c})
  BY <1>1, <1>4 DEF Counted
<1>6. r.state = "HALF_OPEN" => r.successes = 0 /\ r.requests <= MaxRequests
  BY DEF Counted
<1> QED
  BY <1>2, <1>3, <1>5, <1>6 DEF Counted

LEMMA AfterRequestInv ==
  ASSUME BreakerInv, NEW c \in Caller, NEW success \in BOOLEAN, AfterRequest(c, success)
  PROVE  BreakerInv'
<1>1. /\ TypeOK /\ now \in Nat /\ breaker \in Breaker /\ breaker.generation \in Nat /\ instance \in Nat
      /\ Counted(breaker, Of(breaker.generation))
      /\ calls[c] # None /\ calls[c] \in Nat \X Nat
      /\ calls' = [calls EXCEPT ![c] = None]
      /\ instance' = instance
  BY DEF BreakerInv, TypeOK, Breaker, AfterRequest
<1>2. PICK b \in Breaker :
        /\ b = CurrentState(breaker)
        /\ b.generation >= breaker.generation
        /\ Counted(b, Of(b.generation))
  BY ClockKept
<1>3. b.generation \in Nat /\ b.requests \in Nat /\ b.successes \in Nat /\ b.failures \in Nat
  BY DEF Breaker
<1>4. breaker' \in Breaker /\ Tickets' /\ Counted(breaker, Of(breaker.generation))'
  <2>1. CASE calls[c][1] # instance
    <3>1. breaker' = breaker
      BY <2>1 DEF AfterRequest
    <3>2. c \notin Of(breaker.generation)
      BY <1>1, <2>1 DEF Of
    <3>3. breaker.generation >= breaker.generation
      BY <1>1
    <3> QED
      BY <1>1, <3>1, <3>2, <3>3, Uncounted, Zenon
  <2>2. CASE calls[c][1] = instance /\ calls[c][2] # b.generation
    <3>1. breaker' = b
      BY <1>2, <2>2 DEF AfterRequest
    <3>2. c \notin Of(b.generation)
      BY <1>1, <2>2 DEF Of
    <3> QED
      BY <1>1, <1>2, <3>1, <3>2, Uncounted, Zenon
  <2>3. CASE calls[c][1] = instance /\ calls[c][2] = b.generation
    <3>1. PICK r \in Breaker :
            /\ breaker' = r
            /\ \/ r.generation = b.generation + 1 /\ Empty(r)
               \/ /\ r.generation = b.generation /\ r.state = b.state
                  /\ r.requests = b.requests
                  /\ r.successes + r.failures = b.successes + b.failures + 1
                  /\ r.state = "HALF_OPEN" => r.successes = b.successes
      <4>1. CASE success
        <5>1. breaker' = OnSuccess(b)
          BY <1>2, <2>3, <4>1 DEF AfterRequest
        <5> QED
          BY <1>1, <1>3, <5>1, Success
      <4>2. CASE ~success
        <5>1. breaker' = OnFailure(b)
          BY <1>2, <2>3, <4>2 DEF AfterRequest
        <5> QED
          BY <1>1, <1>3, <5>1, Failure
      <4> QED
        BY <4>1, <4>2
    <3>2. c \in Of(b.generation)
      BY <1>1, <2>3 DEF Of
    <3>3. CASE r.generation = b.generation + 1 /\ Empty(r)
      <4>1. r.generation > breaker.generation /\ r.generation >= breaker.generation
            /\ r.generation \in Nat
        BY <1>1, <1>2, <1>3, <3>3
      <4>2. Counted(r, Of(r.generation)) /\ c \notin Of(r.generation)
        BY <3>3, <4>1, NextGeneration, NoneOfLater
      <4> QED
        BY <1>1, <3>1, <4>1, <4>2, Uncounted, Zenon
    <3>4. CASE /\ r.generation = b.generation /\ r.state = b.state
               /\ r.requests = b.requests
               /\ r.successes + r.failures = b.successes + b.failures + 1
               /\ r.state = "HALF_OPEN" => r.successes = b.successes
      BY <1>1, <1>2, <3>1, <3>2, <3>4, Finished, Zenon
    <3> QED
      BY <3>1, <3>3, <3>4
  <2> QED
    BY <2>1, <2>2, <2>3
<1>5. TypeOK'
  BY <1>1, <1>4 DEF TypeOK, AfterRequest
<1> QED
  BY <1>4, <1>5 DEF BreakerInv

\* A breaker that has just been made.
LEMMA Fresh ==
  ASSUME now \in Nat
  PROVE  NewCircuitBreaker \in Breaker /\ Empty(NewCircuitBreaker)
<1> DEFINE z == [state |-> "CLOSED", generation |-> 0, expiry |-> Never, requests |-> 0,
                 successes |-> 0, failures |-> 0, streak |-> 0]
<1>1. z \in Breaker
  BY DEF Breaker, State, Never
<1>2. NewCircuitBreaker = ToNewGeneration(z)
  BY DEF NewCircuitBreaker
<1> HIDE DEF z
<1> QED
  BY <1>1, <1>2, NewGeneration
LEMMA RegisterInv ==
  ASSUME BreakerInv, Register
  PROVE  BreakerInv'
<1>1. /\ instance \in Nat /\ now \in Nat /\ instance' = instance + 1 /\ calls' = calls
      /\ breaker' = NewCircuitBreaker
  BY DEF BreakerInv, TypeOK, Register
<1>2. breaker' \in Breaker /\ Empty(breaker')
  BY <1>1, Fresh
<1>3. TypeOK'
  BY <1>1, <1>2 DEF BreakerInv, TypeOK, Register
<1>4. \A c \in Caller : calls[c] # None =>
        calls[c][1] \in Nat /\ calls[c][1] <= instance
  BY DEF BreakerInv, TypeOK, Tickets
<1>5. Tickets'
  BY <1>1, <1>4 DEF Tickets
<1>6. Of(breaker.generation)' = {}
  <2> SUFFICES ASSUME NEW c \in Caller, calls[c] = <<instance + 1, breaker'.generation>>
               PROVE  FALSE
    BY <1>1 DEF Of
  <2>1. <<instance + 1, breaker'.generation>> \in Nat \X Nat
    BY <1>1, <1>2 DEF Breaker
  <2>2. calls[c] # None /\ calls[c][1] = instance + 1
    BY <2>1, BreakerAssumption
  <2> QED
    BY <1>1, <1>4, <2>2
<1>7. Counted(breaker', {})
  BY <1>2, EmptyCounted
<1> QED
  BY <1>3, <1>5, <1>6, <1>7 DEF BreakerInv, Counted

LEMMA OtherInv ==
  ASSUME BreakerInv, GetState \/ Reset \/ Tick
  PROVE  BreakerInv'
<1>1. TypeOK /\ now \in Nat /\ breaker \in Breaker /\ breaker.generation \in Nat
  BY DEF BreakerInv, TypeOK, Breaker
<1>2. CASE GetState
  <2>1. TypeOK'
    BY <1>1, <1>2, Clock DEF TypeOK, GetState
  <2> QED
    BY <1>2, <2>1, ClockKept, SameCalls DEF GetState, BreakerInv
<1>3. CASE Reset
  <2>1. PICK b \in Breaker : /\ b = ToNewGeneration(breaker)
                             /\ b.generation = breaker.generation + 1
                             /\ Empty(b)
    BY <1>1, NewGeneration
  <2>2. b.generation > breaker.generation /\ b.generation >= breaker.generation
    BY <1>1, <2>1
  <2>3. Counted(b, Of(b.generation))
    BY <2>1, <2>2, NextGeneration
  <2>4. Tickets' /\ Counted(breaker, Of(breaker.generation))'
    BY <1>3, <2>1, <2>2, <2>3, SameCalls DEF Reset
  <2>5. TypeOK'
    BY <1>1, <1>3, <2>1 DEF TypeOK, Reset
  <2> QED
    BY <2>4, <2>5 DEF BreakerInv
<1>4. CASE Tick
  <2>1. TypeOK'
    BY <1>4 DEF BreakerInv, TypeOK, Tick
  <2> QED
    BY <1>4, <2>1 DEF BreakerInv, Tick, Tickets, Counted, Of
<1> QED
  BY <1>2, <1>3, <1>4

LEMMA InitInv == Init => BreakerInv
<1> SUFFICES ASSUME Init PROVE BreakerInv
  OBVIOUS
<1>1. now \in Nat \ {0} /\ breaker \in Breaker /\ Empty(breaker)
  BY Fresh DEF Init
<1>2. TypeOK
  BY <1>1 DEF Init, TypeOK
<1>3. \A c \in Caller : calls[c] = None
  BY DEF Init
<1>4. Of(breaker.generation) = {}
  <2>1. <<instance, breaker.generation>> \in Nat \X Nat
    BY <1>1 DEF Init, Breaker
  <2> QED
    BY <1>3, <2>1, BreakerAssumption DEF Of
<1> QED
  BY <1>1, <1>2, <1>3, <1>4, EmptyCounted DEF BreakerInv, Tickets

LEMMA NextInv == BreakerInv /\ [Next]_vars => BreakerInv'
<1> SUFFICES ASSUME BreakerInv, [Next]_vars PROVE BreakerInv'
  OBVIOUS
<1>1. CASE UNCHANGED vars
  BY <1>1 DEF vars, BreakerInv, TypeOK, Tickets, Counted, Of
<1> QED
  BY <1>1, BeforeRequestInv, AfterRequestInv, RegisterInv, OtherInv DEF Next

\* The counts of the present generation and its calls in flight agree.
THEOREM BreakerInvariant == Spec => []BreakerInv
BY InitInv, NextInv, PTL DEF Spec
-----------------------------------------------------------------------------
(***************************************************************************)
(* The properties                                                          *)
(***************************************************************************)

LEMMA FlightOf == InFlight = Of(breaker.generation)
BY DEF InFlight, Ticket, Of

\* The breaker's fields, the clock and the calls in flight keep their types: no
\* sequence of requests, late results, resets and replacements takes the state,
\* the counts or the expiry out of range.
THEOREM BreakerTypeCorrect == Spec => []TypeOK
<1>1. BreakerInv => TypeOK
  BY DEF BreakerInv
<1> QED
  BY <1>1, BreakerInvariant, PTL

\* beforeRequest, onSuccess and onFailure count every call of a generation
\* once, and nothing else, for any number of concurrent callers.
THEOREM CountsAreRight == Spec => []Accounting
<1>1. BreakerInv => Accounting
  BY FlightOf DEF BreakerInv, Counted, Accounting
<1> QED
  BY <1>1, BreakerInvariant, PTL

\* A half-open breaker lets through no more than maxRequests.
THEOREM ProbesAreBounded == Spec => []ProbesBounded
<1>1. BreakerInv => ProbesBounded
  <2> SUFFICES ASSUME BreakerInv, breaker.state = "HALF_OPEN"
               PROVE  Cardinality(InFlight) + breaker.failures <= MaxRequests
    BY DEF ProbesBounded
  <2>1. /\ breaker.failures \in Nat /\ Cardinality(InFlight) \in Nat
        /\ breaker.requests = 0 + breaker.failures + Cardinality(InFlight)
        /\ breaker.requests <= MaxRequests
    BY FlightOf, FiniteOf DEF BreakerInv, TypeOK, Breaker, Counted
  <2> QED
    BY <2>1, BreakerAssumption
<1> QED
  BY <1>1, BreakerInvariant, PTL

\* No result and no reader ends the open state before its timeout.
THEOREM OpenStateHolds == Spec => OpenHolds
<1>1. BreakerInv /\ [Next]_vars =>
        [breaker.state = "OPEN" /\ breaker'.state # "OPEN"
           => breaker.expiry < now \/ instance' # instance]_vars
  <2> SUFFICES ASSUME BreakerInv, Next, breaker.state = "OPEN", ~(breaker.expiry < now),
                      instance' = instance
               PROVE  breaker'.state = "OPEN"
    BY DEF vars
  <2>1. /\ TypeOK /\ now \in Nat /\ breaker \in Breaker /\ instance \in Nat
        /\ CurrentState(breaker) = breaker
    BY Clock DEF BreakerInv, TypeOK
  <2>2. ASSUME NEW c \in Caller, BeforeRequest(c) PROVE breaker'.state = "OPEN"
    BY <2>1, <2>2 DEF BeforeRequest, Rejects
  <2>3. ASSUME NEW c \in Caller, NEW success \in BOOLEAN, AfterRequest(c, success)
        PROVE  breaker'.state = "OPEN"
    <3>1. breaker' \in {breaker, OnSuccess(breaker), OnFailure(breaker)}
      BY <2>1, <2>3 DEF AfterRequest
    <3> QED
      BY <2>1, <3>1, Success, Failure
  <2>4. Reset => breaker'.state = "OPEN"
    BY <2>1, NewGeneration DEF Reset
  <2>5. ~Register
    BY <2>1 DEF Register
  <2>6. GetState \/ Tick => breaker' = breaker
    BY <2>1 DEF GetState, Tick
  <2> QED
    BY <2>2, <2>3, <2>4, <2>5, <2>6 DEF Next
<1> QED
  BY <1>1, BreakerInvariant, PTL DEF Spec, OpenHolds

\* A result of an earlier generation, or of a breaker that was replaced,
\* changes nothing.
THEOREM LateResultsAreIgnored == Spec => LateResultsIgnored
<1>1. BreakerInv /\ [Next]_vars =>
        [\A c \in Caller :
           calls[c] # None /\ calls'[c] = None /\ calls[c] # Ticket
             => breaker' \in {breaker, CurrentState(breaker)}]_vars
  <2> SUFFICES ASSUME BreakerInv, Next, NEW c \in Caller,
                      calls[c] # None, calls'[c] = None, calls[c] # Ticket
               PROVE  breaker' \in {breaker, CurrentState(breaker)}
    OBVIOUS
  <2>1. /\ TypeOK /\ calls \in [Caller -> (Nat \X Nat) \cup {None}]
        /\ calls[c] \in Nat \X Nat
        /\ breaker.generation \in Nat /\ instance \in Nat
    BY DEF BreakerInv, TypeOK, Breaker
  <2>2. CASE \E d \in Caller : BeforeRequest(d)
    <3>1. PICK d \in Caller : BeforeRequest(d)
      BY <2>2
    <3>2. CASE calls' = calls
      BY <3>2
    <3>3. CASE calls' = [calls EXCEPT ![d] = <<instance, CurrentState(breaker).generation>>]
      <4>1. CurrentState(breaker).generation \in Nat
        BY <2>1, Clock DEF Breaker
      <4>2. <<instance, CurrentState(breaker).generation>> # None
        BY <2>1, <4>1, BreakerAssumption
      <4> QED
        BY <2>1, <3>3, <4>2
    <3> QED
      BY <3>1, <3>2, <3>3 DEF BeforeRequest
  <2>3. CASE \E d \in Caller, success \in BOOLEAN : AfterRequest(d, success)
    <3>1. PICK d \in Caller, success \in BOOLEAN : AfterRequest(d, success)
      BY <2>3
    <3>2. d = c
      BY <2>1, <3>1 DEF AfterRequest
    <3>3. CASE calls[c][1] # instance
      BY <3>1, <3>2, <3>3 DEF AfterRequest
    <3>4. CASE calls[c][1] = instance
      <4>1. calls[c][2] # breaker.generation
        BY <2>1, <3>4 DEF Ticket
      <4>2. calls[c][2] <= breaker.generation
        BY <3>4 DEF BreakerInv, Tickets
      <4>3. CurrentState(breaker).generation \in {breaker.generation, breaker.generation + 1}
        BY <2>1, Clock
      <4>4. calls[c][2] # CurrentState(breaker).generation
        BY <2>1, <4>1, <4>2, <4>3
      <4> QED
        BY <3>1, <3>2, <3>4, <4>4 DEF AfterRequest
    <3> QED
      BY <3>3, <3>4
  <2>4. CASE GetState \/ Reset \/ Register \/ Tick
    BY <2>4 DEF GetState, Reset, Register, Tick
  <2> QED
    BY <2>2, <2>3, <2>4 DEF Next
<1> QED
  BY <1>1, BreakerInvariant, PTL DEF Spec, LateResultsIgnored

\* A half-open breaker whose probes have all failed without tripping it lets
\* nothing through again by itself.
THEOREM WedgedStays == Spec => WedgedForGood
<1>1. BreakerInv /\ [Next]_vars => [Wedged => Wedged' \/ resets' # resets]_vars
  <2> SUFFICES ASSUME BreakerInv, Next, Wedged, resets' = resets
               PROVE  Wedged'
    OBVIOUS
  <2>1. /\ TypeOK /\ resets \in Nat /\ instance \in Nat
        /\ calls \in [Caller -> (Nat \X Nat) \cup {None}]
        /\ breaker.generation \in Nat
        /\ breaker.state = "HALF_OPEN" /\ breaker.requests >= MaxRequests
        /\ CurrentState(breaker) = breaker
    BY Clock DEF BreakerInv, TypeOK, Breaker, Wedged
  <2>2. \A c \in Caller : calls[c] # Ticket
    BY DEF Wedged, InFlight
  <2>3. CASE /\ breaker' = breaker /\ instance' = instance
             /\ \A c \in Caller : calls'[c] \in {calls[c], None}
    <3>1. Ticket' = Ticket /\ Ticket # None
      BY <2>1, <2>3, BreakerAssumption DEF Ticket
    <3> QED
      BY <2>1, <2>2, <2>3, <3>1 DEF Wedged, InFlight
  <2>4. ASSUME NEW c \in Caller, BeforeRequest(c) PROVE Wedged'
    BY <2>1, <2>3, <2>4 DEF BeforeRequest, Rejects
  <2>5. ASSUME NEW c \in Caller, NEW success \in BOOLEAN, AfterRequest(c, success)
        PROVE  Wedged'
    <3>1. calls[c] \in Nat \X Nat
      BY <2>1, <2>5 DEF AfterRequest
    <3>2. ~(calls[c][1] = instance /\ calls[c][2] = breaker.generation)
      BY <2>2, <3>1 DEF Ticket
    <3> QED
      BY <2>1, <2>3, <2>5, <3>2 DEF AfterRequest
  <2>6. ~Reset /\ ~Register
    BY <2>1 DEF Reset, Register
  <2>7. GetState \/ Tick => Wedged'
    BY <2>1, <2>3 DEF GetState, Tick
  <2> QED
    BY <2>4, <2>5, <2>6, <2>7 DEF Next
<1> QED
  BY <1>1, BreakerInvariant, PTL DEF Spec, WedgedForGood

=============================================================================
