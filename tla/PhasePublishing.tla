----------------------------- MODULE PhasePublishing -----------------------------
(***************************************************************************)
(* What events.Publisher promises the reconcilers that share it.  A call   *)
(* of PublishPhaseChange sends its message to the broker at most once, and *)
(* while it waits for the confirm no other call sends; it returns nil only *)
(* when the broker has taken the message; after Close nothing is sent.  A  *)
(* call that fails promises nothing: its message may have been sent, and   *)
(* the broker may take it at any later time.                               *)
(***************************************************************************)
CONSTANT Call   \* the calls that are ever made

VARIABLES
  made,      \* calls made
  sent,      \* calls whose message was sent
  taken,     \* calls whose message the broker has taken
  returned,  \* per call: none, ok or error
  shut       \* the publisher was closed

vars == <<made, sent, taken, returned, shut>>

Init ==
  /\ made = {} /\ sent = {} /\ taken = {}
  /\ returned = [n \in Call |-> "none"]
  /\ shut = FALSE

UnderWay(n) == n \in made /\ returned[n] = "none"

\* No call waits for a confirm.
Quiet == \A n \in sent : ~UnderWay(n)

Make(n) ==
  /\ n \notin made
  /\ made' = made \cup {n}
  /\ UNCHANGED <<sent, taken, returned, shut>>

Send(n) ==
  /\ UnderWay(n) /\ n \notin sent
  /\ Quiet /\ ~shut
  /\ sent' = sent \cup {n}
  /\ UNCHANGED <<made, taken, returned, shut>>

Take(n) ==
  /\ n \in sent
  /\ taken' = taken \cup {n}
  /\ UNCHANGED <<made, sent, returned, shut>>

Return(n, result) ==
  /\ UnderWay(n)
  /\ result = "ok" => n \in taken
  /\ returned' = [returned EXCEPT ![n] = result]
  /\ UNCHANGED <<made, sent, taken, shut>>

Close ==
  /\ Quiet
  /\ shut' = TRUE
  /\ UNCHANGED <<made, sent, taken, returned>>

Next ==
  \/ \E n \in Call :
       \/ Make(n) \/ Send(n) \/ Take(n)
       \/ \E result \in {"ok", "error"} : Return(n, result)
  \/ Close

Spec == Init /\ [][Next]_vars
=============================================================================
