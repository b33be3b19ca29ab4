------------------------------ MODULE MCReconciler ------------------------------
(***************************************************************************)
(* Small instances of LabSessionReconciler for TLC.                        *)
(***************************************************************************)
EXTENDS ReconcilerInvariant

\* The kinds that are handled differently: the Secret is never read, the pod
\* is watched for its status, the Service is needed for the endpoints.
ShortOrder == <<"Secret", "Pod", "Service">>

\* With the event bus or without, each disturbance of ds may happen once.
Once(events, ds) == [events |-> events, rest |-> [d \in Disturbance |-> IF d \in ds THEN 1 ELSE 0]]

Quiet == {Once(FALSE, {})}
CallFault == {Once(FALSE, {"fault"})}
\* Everything that can fail around one session, or the name used a second time.
Failures == {Once(FALSE, {"fault", "permanent", "unready", "podLoss", "tick"}),
             Once(FALSE, {"again", "crash", "foreign"})}
EventFailures == {Once(TRUE, {"fault", "crash", "outage", "lostConfirm"}),
                  Once(TRUE, {"crash", "outage", "lostConfirm", "edit"}),
                  Once(TRUE, {"fault", "edit"})}
Outages == {Once(TRUE, {"fault", "outage"}), Once(FALSE, {"fault", "podLoss"})}
=================================================================================
