---------------------------- MODULE SessionLifecycle ----------------------------
(***************************************************************************)
(* What the controller promises to those who read a LabSession and to      *)
(* those who consume its phase events: one session name, the phase stored  *)
(* for it, and the events announced about it.  There are no caches, no     *)
(* resource versions, no retries and no crashes here; the reconciler is    *)
(* shown to implement this in spite of them.                               *)
(***************************************************************************)
EXTENDS Naturals

CONSTANTS
  None,    \* no session
  MaxUid   \* bound: how often the session is created

VARIABLES
  session,    \* None, or the stored session: its uid, phase and deletion mark
  stored,     \* <<uid, phase>> pairs that were ever stored
  announced,  \* <<uid, phase>> pairs that were ever announced
  received    \* those of them that reached the consumers

vars == <<session, stored, announced, received>>

Uid == 1 .. MaxUid
Phase == {"", "Creating", "Running", "Failed", "Terminating"}

\* The phases in the order a session goes through them.
Rank(p) == CASE p = "" -> 0 [] p = "Creating" -> 1 [] p = "Running" -> 2
             [] p = "Failed" -> 3 [] p = "Terminating" -> 4

\* Which phase may follow which.  A failed session stays failed.
Successor(p, deleting) ==
  (IF deleting THEN {"Terminating"} ELSE {}) \cup
  (CASE p = "" -> {"Creating"}
     [] p = "Creating" -> {"Running", "Failed"}
     [] p = "Running" -> {"Failed"}
     [] OTHER -> {})

Init == session = None /\ stored = {} /\ announced = {} /\ received = {}

Create(u) ==
  /\ session = None
  /\ \A p \in Phase : <<u, p>> \notin stored
  /\ session' = [uid |-> u, phase |-> "", deleting |-> FALSE]
  /\ stored' = stored \cup {<<u, "">>}
  /\ UNCHANGED <<announced, received>>

Advance(p) ==
  /\ session # None
  /\ p \in Successor(session.phase, session.deleting)
  /\ session' = [session EXCEPT !.phase = p]
  /\ stored' = stored \cup {<<session.uid, p>>}
  /\ UNCHANGED <<announced, received>>

RequestDelete ==
  /\ session # None
  /\ session' = [session EXCEPT !.deleting = TRUE]
  /\ UNCHANGED <<stored, announced, received>>

\* A session goes once its deletion was requested, or before it was started.
Remove ==
  /\ session # None
  /\ session.deleting \/ session.phase = ""
  /\ session' = None
  /\ UNCHANGED <<stored, announced, received>>

\* The deletion of session u was requested, or u is gone already.
Doomed(u) ==
  /\ <<u, "">> \in stored
  /\ ~(session # None /\ session.uid = u /\ ~session.deleting)

\* A phase is announced for the first time only if it was stored (Terminating:
\* only if the session is on its way out) and no later phase was announced.
Announce(u, p) ==
  /\ p # ""
  /\ <<u, p>> \in stored \/ (p = "Terminating" /\ Doomed(u))
  /\ \A q \in Phase : Rank(q) > Rank(p) => <<u, q>> \notin announced
  /\ announced' = announced \cup {<<u, p>>}
  /\ received' \in {received, received \cup {<<u, p>>}}
  /\ UNCHANGED <<session, stored>>

\* An announcement comes late: it may have been overtaken.
Receive(u, p) ==
  /\ <<u, p>> \in announced
  /\ received' = received \cup {<<u, p>>}
  /\ UNCHANGED <<session, stored, announced>>

Next ==
  \/ \E u \in Uid : Create(u)
  \/ \E p \in Phase : Advance(p)
  \/ RequestDelete
  \/ Remove
  \/ \E u \in Uid, p \in Phase : Announce(u, p) \/ Receive(u, p)

Spec == Init /\ [][Next]_vars
=================================================================================
