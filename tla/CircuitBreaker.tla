----------------------------- MODULE CircuitBreaker -----------------------------
(***************************************************************************)
(* pkg/circuitbreaker: one name of a Manager, the breaker registered under *)
(* it, and the callers that execute functions through it.                  *)
(*                                                                         *)
(* Every method runs under the breaker's mutex and is one step; the        *)
(* function itself runs outside, so the calls interleave, and a result may *)
(* arrive after the breaker has moved on or has been replaced.             *)
(***************************************************************************)
EXTENDS Integers, FiniteSets

CONSTANTS
  Caller,        \* who calls Execute
  None,          \* no call
  MaxRequests,   \* CircuitBreaker.maxRequests
  Interval,      \* CircuitBreaker.interval
  Timeout,       \* CircuitBreaker.timeout
  FailureLimit,  \* readyToTrip: consecutive failures the breaker puts up with
  MaxTime,       \* bound: ticks of the clock
  MaxCalls,      \* bound: calls let through
  MaxResets      \* bound: calls of Reset and of Register

VARIABLES
  breaker,   \* CircuitBreaker: state, generation, counts, expiry
  instance,  \* which of the breakers registered under the name it is
  calls,     \* per caller: None, or the breaker and generation of its call
  now,
  admitted,  \* calls let through so far
  resets     \* Reset and Register calls so far

vars == <<breaker, instance, calls, now, admitted, resets>>

State == {"CLOSED", "HALF_OPEN", "OPEN"}

Never == 0   \* the zero time

Breaker == [state : State, generation : Nat, expiry : Nat, requests : Nat,
            successes : Nat, failures : Nat, streak : Nat]

ASSUME BreakerAssumption ==
  /\ IsFiniteSet(Caller)
  /\ None \notin Nat \X Nat
  /\ MaxRequests \in Nat \ {0}
  /\ Interval \in Nat
  /\ Timeout \in Nat \ {0}
  /\ FailureLimit \in Nat
  /\ MaxTime \in Nat /\ MaxCalls \in Nat /\ MaxResets \in Nat

TypeOK ==
  /\ breaker \in Breaker
  /\ instance \in Nat
  /\ calls \in [Caller -> (Nat \X Nat) \cup {None}]
  /\ now \in Nat \ {0}
  /\ admitted \in Nat
  /\ resets \in Nat

-----------------------------------------------------------------------------
(***************************************************************************)
(* The breaker                                                             *)
(***************************************************************************)

\* When the state a breaker has just entered ends by itself.
Expiry(state) ==
  CASE state = "CLOSED" -> IF Interval = 0 THEN Never ELSE now + Interval
    [] state = "OPEN" -> now + Timeout
    [] OTHER -> Never

\* Mutant of ToNewGeneration: the counts are cleared, the generation is kept.
SameGeneration(b) ==
  [b EXCEPT !.expiry = Expiry(b.state), !.requests = 0, !.successes = 0,
            !.failures = 0, !.streak = 0]

ToNewGeneration(b) ==
  [b EXCEPT !.generation = @ + 1, !.expiry = Expiry(b.state), !.requests = 0,
            !.successes = 0, !.failures = 0, !.streak = 0]

SetState(b, state) ==
  IF b.state = state THEN b ELSE ToNewGeneration([b EXCEPT !.state = state])

\* Mutant of CurrentState: the timeout is over when it is reached.
CurrentStateEarly(b) ==
  IF b.state = "CLOSED" /\ b.expiry # Never /\ b.expiry < now THEN ToNewGeneration(b)
  ELSE IF b.state = "OPEN" /\ b.expiry <= now THEN SetState(b, "HALF_OPEN")
  ELSE b

\* Mutant of CurrentState: a breaker whose probes have all failed opens again.
CurrentStateReopens(b) ==
  IF b.state = "CLOSED" /\ b.expiry # Never /\ b.expiry < now THEN ToNewGeneration(b)
  ELSE IF b.state = "OPEN" /\ b.expiry < now THEN SetState(b, "HALF_OPEN")
  ELSE IF b.state = "HALF_OPEN" /\ b.failures >= MaxRequests THEN SetState(b, "OPEN")
  ELSE b

\* currentState: the breaker as the clock has changed it.
CurrentState(b) ==
  IF b.state = "CLOSED" /\ b.expiry # Never /\ b.expiry < now THEN ToNewGeneration(b)
  ELSE IF b.state = "OPEN" /\ b.expiry < now THEN SetState(b, "HALF_OPEN")
  ELSE b

\* Mutant of OnSuccess: a success takes one failure off the streak.
OnSuccessForgives(b) ==
  LET counted == [b EXCEPT !.successes = @ + 1, !.streak = @ - 1]
  IN IF b.state = "HALF_OPEN" THEN SetState(counted, "CLOSED") ELSE counted

OnSuccess(b) ==
  LET counted == [b EXCEPT !.successes = @ + 1, !.streak = 0]
  IN IF b.state = "HALF_OPEN" THEN SetState(counted, "CLOSED") ELSE counted

OnFailure(b) ==
  LET counted == [b EXCEPT !.failures = @ + 1, !.streak = @ + 1]
  IN IF counted.streak > FailureLimit THEN SetState(counted, "OPEN") ELSE counted

NewCircuitBreaker ==
  ToNewGeneration([state |-> "CLOSED", generation |-> 0, expiry |-> Never,
                   requests |-> 0, successes |-> 0, failures |-> 0, streak |-> 0])
-----------------------------------------------------------------------------
(***************************************************************************)
(* Its callers                                                             *)
(***************************************************************************)

\* Mutant of Rejects: one probe more than allowed.
RejectsLate(b) == b.state = "OPEN" \/ (b.state = "HALF_OPEN" /\ b.requests > MaxRequests)

Rejects(b) == b.state = "OPEN" \/ (b.state = "HALF_OPEN" /\ b.requests >= MaxRequests)

\* beforeRequest: the call is turned away, or counted and let through.
BeforeRequest(c) ==
  /\ calls[c] = None
  /\ LET b == CurrentState(breaker)
     IN \/ Rejects(b) /\ breaker' = b /\ UNCHANGED <<calls, admitted>>
        \/ /\ ~Rejects(b) /\ admitted < MaxCalls
           /\ breaker' = [b EXCEPT !.requests = @ + 1]
           /\ calls' = [calls EXCEPT ![c] = <<instance, b.generation>>]
           /\ admitted' = admitted + 1
  /\ UNCHANGED <<instance, now, resets>>

\* Mutant of AfterRequest: the generation of the call is not compared.
AfterRequestAnyGeneration(c, success) ==
  /\ calls[c] # None
  /\ calls' = [calls EXCEPT ![c] = None]
  /\ breaker' = LET b == CurrentState(breaker)
                IN IF calls[c][1] # instance THEN breaker
                   ELSE IF success THEN OnSuccess(b) ELSE OnFailure(b)
  /\ UNCHANGED <<instance, now, admitted, resets>>

\* The function returned, or panicked, which is a failure.  afterRequest runs
\* on the breaker that let the call through; what becomes of a breaker that
\* was replaced is of no interest.
AfterRequest(c, success) ==
  /\ calls[c] # None
  /\ calls' = [calls EXCEPT ![c] = None]
  /\ breaker' = LET b == CurrentState(breaker)
                IN IF calls[c][1] # instance THEN breaker
                   ELSE IF calls[c][2] # b.generation THEN b
                   ELSE IF success THEN OnSuccess(b) ELSE OnFailure(b)
  /\ UNCHANGED <<instance, now, admitted, resets>>

GetState ==
  /\ breaker' = CurrentState(breaker)
  /\ UNCHANGED <<instance, calls, now, admitted, resets>>

Reset ==
  /\ resets < MaxResets
  /\ breaker' = ToNewGeneration(breaker)
  /\ resets' = resets + 1
  /\ UNCHANGED <<instance, calls, now, admitted>>

\* Manager.Register: a new breaker takes the name over.
Register ==
  /\ resets < MaxResets
  /\ breaker' = NewCircuitBreaker
  /\ instance' = instance + 1
  /\ resets' = resets + 1
  /\ UNCHANGED <<calls, now, admitted>>

Tick ==
  /\ now < MaxTime
  /\ now' = now + 1
  /\ UNCHANGED <<breaker, instance, calls, admitted, resets>>

Init ==
  /\ now = 1
  /\ breaker = NewCircuitBreaker
  /\ instance = 1
  /\ calls = [c \in Caller |-> None]
  /\ admitted = 0
  /\ resets = 0

Next ==
  \/ \E c \in Caller : BeforeRequest(c) \/ \E success \in BOOLEAN : AfterRequest(c, success)
  \/ GetState \/ Reset \/ Register \/ Tick

Spec == Init /\ [][Next]_vars

-----------------------------------------------------------------------------
(***************************************************************************)
(* Properties                                                              *)
(***************************************************************************)

\* The calls the breaker's present generation has let through and not yet
\* heard of.
Ticket == <<instance, breaker.generation>>
InFlight == {c \in Caller : calls[c] = Ticket}

\* The counts account for every call of the generation, once: each was counted
\* by beforeRequest and either is in flight or has been counted by onSuccess or
\* onFailure.  Nothing of an earlier generation, or of a breaker that was
\* replaced, is in them.
Accounting ==
  breaker.requests = breaker.successes + breaker.failures + Cardinality(InFlight)

\* A half-open breaker lets at most maxRequests of its calls run at a time,
\* and has let no more than that through, however they interleave.
ProbesBounded ==
  breaker.state = "HALF_OPEN" =>
    Cardinality(InFlight) + breaker.failures <= MaxRequests

\* An open breaker stays open until its timeout is over, whatever results come
\* in and whoever asks, unless another one is registered.
OpenHolds ==
  [][breaker.state = "OPEN" /\ breaker'.state # "OPEN"
       => breaker.expiry < now \/ instance' # instance]_vars

\* A result moves the breaker only if it is of a call of the present
\* generation: a late one leaves it as the clock has made it.
LateResultsIgnored ==
  [][\A c \in Caller :
       calls[c] # None /\ calls'[c] = None /\ calls[c] # Ticket
         => breaker' \in {breaker, CurrentState(breaker)}]_vars

\* All probes have failed, too few to trip the breaker.
Wedged == breaker.state = "HALF_OPEN" /\ breaker.requests >= MaxRequests /\ InFlight = {}

\* From there no call is let through any more and no time passing helps: a
\* half-open breaker does not expire, so only Reset or Register frees it.
WedgedForGood ==
  [][Wedged => Wedged' \/ resets' # resets]_vars

-----------------------------------------------------------------------------
(***************************************************************************)
(* The inductive invariant                                                 *)
(***************************************************************************)

\* The calls let through by generation g of the present breaker.
Of(g) == {c \in Caller : calls[c] = <<instance, g>>}

\* No call is of a breaker or a generation to come.
Tickets ==
  \A c \in Caller : calls[c] # None =>
    calls[c][1] <= instance /\ (calls[c][1] = instance => calls[c][2] <= breaker.generation)

\* What a breaker has counted, given the calls it waits for.  A half-open one
\* has no success, which would have closed it, and no more than its probes.
Counted(b, inFlight) ==
  /\ b.requests = b.successes + b.failures + Cardinality(inFlight)
  /\ b.state = "HALF_OPEN" => b.successes = 0 /\ b.requests <= MaxRequests

BreakerInv == TypeOK /\ Tickets /\ Counted(breaker, Of(breaker.generation))

=============================================================================
