-------------------------------- MODULE MCLabPod --------------------------------
(***************************************************************************)
(* Small instances of LabPod for TLC.                                      *)
(***************************************************************************)
EXTENDS LabPod

\* The objects whose handling differs.
ShortOrder == <<"Secret", "Pod", "Service">>

\* code-server is like the terminal, but for the key.
TwoContainers == {"firecracker-vm", "terminal-sidecar"}

Once(ds) == [events |-> FALSE, rest |-> [d \in Disturbance |-> IF d \in ds THEN 1 ELSE 0]]

PodFailures == {Once({"fault", "podLoss", "unready"}), Once({"crash", "foreign"}),
                Once({"edit", "outage"}), Once({"tick"})}
Recreation == {Once({"again"})}
=================================================================================
