------------------------------ MODULE SessionSizing ------------------------------
(***************************************************************************)
(* How big a session is and how big it is reported to be: the sizes that   *)
(* ResourceBuilder computes from spec.resources, the claims and the pod    *)
(* that are made with them, and the usage that is written to the status.   *)
(*                                                                         *)
(* The spec may be edited at any time; a reconcile works on the copy it    *)
(* read, the claims and the pod keep the sizes they were made with.  CPU   *)
(* is in thousandths, memory and storage are in bytes of a scaled-down     *)
(* MiB, and int64 ends at Half.                                            *)
(***************************************************************************)
EXTENDS Integers

CONSTANTS
  None,             \* no object
  Unset,            \* the field is empty
  Malformed,        \* the field does not parse as a quantity
  CPU, Memory, Storage,            \* what a spec may say
  MiB,
  DefaultVMCPUs, MaxVMCPUs,
  DefaultVMMemory, MinVMMemory, MaxVMMemory,   \* in MiB
  Overhead,         \* firecrackerOverheadMiB
  SidecarMemory,    \* requests of the terminal and code-server containers, in MiB
  VMDiskSize,       \* PodSettings.VMDiskSize
  DefaultStorage,   \* vm-data without spec.resources.storage
  VSCodeStorage,    \* vscode-data
  Half,             \* 2^63
  MaxEdits          \* bound: edits of the spec

VARIABLES
  spec,      \* spec.resources as stored
  phase,     \* status.phase
  usage,     \* status.usage, or None before it is reported
  claims,    \* size of the stored vm-data claim, or None
  pod,       \* the stored pod, or None
  at,        \* where the worker is
  seen,      \* spec.resources as the worker has read it
  current,   \* the session has not been edited since
  edits

worker == <<at, seen, current>>
vars == <<spec, phase, usage, claims, pod, worker, edits>>

ResourceConfig == [cpu : CPU, memory : Memory, storage : Storage]

ASSUME SizingAssumption ==
  /\ CPU \cup Memory \cup Storage \subseteq Nat \cup {Unset, Malformed}
  /\ {Unset, Malformed} \cap Int = {}
  /\ MiB \in Nat \ {0} /\ Half \in Nat
  /\ MaxVMCPUs \in Nat /\ MaxVMMemory \in Nat
  /\ DefaultVMCPUs \in 1 .. MaxVMCPUs
  /\ DefaultVMMemory \in MinVMMemory .. MaxVMMemory /\ MinVMMemory \in Nat
  /\ Overhead \in Nat \ {0} /\ SidecarMemory \in Nat
  /\ (MaxVMMemory + Overhead + SidecarMemory) * MiB < Half
  /\ VMDiskSize \in MiB .. Half \div 2   \* PodSettings.Validate: at least 1Mi
  /\ DefaultStorage \in Nat /\ VSCodeStorage \in Nat
  /\ MaxEdits \in Nat

-----------------------------------------------------------------------------
(***************************************************************************)
(* ResourceBuilder                                                         *)
(***************************************************************************)

\* int64 arithmetic.
Wrap(n) == ((n + Half) % (2 * Half)) - Half

Clamp(n, low, high) == IF n < low THEN low ELSE IF n > high THEN high ELSE n

\* ParseQuantity succeeds, and the quantity is positive.
Given(q) == q \notin {Unset, Malformed} /\ q > 0

\* Mutant of VMSize: the CPU is rounded down.
VMSizeRoundedDown(r) ==
  [cpus |-> Clamp(IF Given(r.cpu) THEN r.cpu \div 1000 ELSE DefaultVMCPUs, 1, MaxVMCPUs),
   memory |-> Clamp(IF Given(r.memory) THEN r.memory \div MiB ELSE DefaultVMMemory,
                    MinVMMemory, MaxVMMemory),
   disk |-> IF Given(r.storage) THEN r.storage ELSE VMDiskSize]

\* Mutant of VMSize: the memory is not limited.
VMSizeUnlimited(r) ==
  [VMSizeRoundedDown(r) EXCEPT
     !.memory = IF Given(r.memory) THEN r.memory \div MiB ELSE DefaultVMMemory]

\* vmSize.  (A negative sum rounds the other way in Go; it is clamped to 1.)
VMSize(r) ==
  [cpus |-> Clamp(IF Given(r.cpu) THEN Wrap(r.cpu + 999) \div 1000 ELSE DefaultVMCPUs,
                  1, MaxVMCPUs),
   memory |-> Clamp(IF Given(r.memory) THEN r.memory \div MiB ELSE DefaultVMMemory,
                    MinVMMemory, MaxVMMemory),
   disk |-> IF Given(r.storage) THEN r.storage ELSE VMDiskSize]

\* containerMemory.
ContainerMemory(size) == Wrap((size.memory + Overhead) * MiB)

\* Mutant of VMKernelsSizeLimit: no room for the copy.
VMKernelsExact(disk) == disk

VMKernelsSizeLimit(disk) == Wrap(disk * 2)

\* resize2fsSize, in bytes.
Resize2fsSize(disk) == (disk \div MiB) * MiB

\* What the requests of the three containers add up to: 100m, 250m and 500m.
PodCPURequest == 100 + 250 + 500

\* BuildPod: the parts of the pod that depend on its size.
BuildPod(r) ==
  LET size == VMSize(r)
  IN [asked |-> r, size |-> size, running |-> TRUE,
      memory |-> ContainerMemory(size) + SidecarMemory * MiB,
      kernels |-> VMKernelsSizeLimit(size.disk),
      grown |-> Resize2fsSize(size.disk)]

\* BuildPVCs: resource.MustParse panics on a malformed size.
BuildPVCsPanics(r) == r.storage = Malformed
VMDataSize(r) == IF r.storage = Unset THEN DefaultStorage ELSE r.storage

\* Mutant of UsageOf: the pod's share is computed from the spec as well.
UsageOfSpec(p, r) ==
  [running |-> p # None, storage |-> VMDataSize(r) + VSCodeStorage,
   cpu |-> IF p # None THEN PodCPURequest ELSE 0,
   memory |-> IF p # None THEN BuildPod(r).memory ELSE 0]

\* usageOf(pod, BuildPVCs(session)): the pod is the real one, the claims are
\* those the spec would have now.
UsageOf(p, r) ==
  LET holds == IF p = None THEN FALSE ELSE p.running
  IN [running |-> holds, storage |-> VMDataSize(r) + VSCodeStorage,
      cpu |-> IF holds THEN PodCPURequest ELSE 0,
      memory |-> IF holds THEN p.memory ELSE 0]

-----------------------------------------------------------------------------
(***************************************************************************)
(* The reconciler, as far as sizes matter                                  *)
(***************************************************************************)

Usage == [running : BOOLEAN, storage : Nat, cpu : Nat, memory : Nat]

TypeOK ==
  /\ spec \in ResourceConfig /\ seen \in ResourceConfig
  /\ phase \in {"Creating", "Running", "Failed"}
  /\ usage \in Usage \cup {None}
  /\ claims \in Nat \cup {None}
  /\ pod # None => /\ pod.asked \in ResourceConfig
                   /\ pod.size.cpus \in 1 .. MaxVMCPUs
                   /\ pod.size.memory \in MinVMMemory .. MaxVMMemory
  /\ at \in {"idle", "claims", "pod", "running", "failing"}
  /\ current \in BOOLEAN
  /\ edits \in 0 .. MaxEdits

Goto(place) == at' = place /\ UNCHANGED <<seen, current>>

\* controller-runtime recovers a panic: it is one more error, to be retried.
Panic == Goto("idle")

\* A reconcile of a Running session matters when it finds the pod lost or
\* unready for too long.
Reconcile ==
  /\ at = "idle" /\ phase # "Failed"
  /\ seen' = spec
  /\ current' = TRUE
  /\ at' = IF phase = "Creating" THEN "claims" ELSE "failing"
  /\ UNCHANGED <<spec, phase, usage, claims, pod, edits>>

\* ensurePVCs: the claims are made, are there, or are refused for now or for
\* good (as a claim for nothing always is).
EnsurePVCs ==
  /\ at = "claims"
  /\ \/ BuildPVCsPanics(seen) /\ Panic /\ UNCHANGED claims
     \/ /\ ~BuildPVCsPanics(seen)
        /\ \/ /\ claims = None /\ VMDataSize(seen) > 0
              /\ claims' = VMDataSize(seen) /\ Goto("pod")
           \/ claims # None /\ Goto("pod") /\ UNCHANGED claims
           \/ claims = None /\ (Goto("idle") \/ Goto("failing")) /\ UNCHANGED claims
  /\ UNCHANGED <<spec, phase, usage, pod, edits>>

\* ensurePod, and the pod's state afterwards: not ready yet, ready or stopped.
EnsurePod ==
  /\ at = "pod"
  /\ pod' = IF pod = None THEN BuildPod(seen) ELSE pod
  /\ IF pod'.running THEN Goto("idle") \/ Goto("running") ELSE Goto("failing")
  /\ UNCHANGED <<spec, phase, usage, claims, edits>>

\* The status is stored unless the session was edited since it was read.
Report(p) ==
  IF BuildPVCsPanics(seen) THEN Panic /\ UNCHANGED <<phase, usage>>
  ELSE /\ IF current THEN phase' = p /\ usage' = UsageOf(pod, seen)
                     ELSE UNCHANGED <<phase, usage>>
       /\ Goto("idle")

BecomeRunning ==
  /\ at = "running"
  /\ Report("Running")
  /\ UNCHANGED <<spec, claims, pod, edits>>

UpdateStatusFailed ==
  /\ at = "failing"
  /\ Report("Failed")
  /\ UNCHANGED <<spec, claims, pod, edits>>

UserEdit ==
  /\ edits < MaxEdits
  /\ spec' \in ResourceConfig \ {spec}
  /\ edits' = edits + 1
  /\ current' = FALSE
  /\ UNCHANGED <<phase, usage, claims, pod, at, seen>>

PodStops ==
  /\ IF pod = None THEN FALSE ELSE pod.running
  /\ pod' = [pod EXCEPT !.running = FALSE]
  /\ UNCHANGED <<spec, phase, usage, claims, worker, edits>>

PodGone ==
  /\ pod # None /\ pod' = None
  /\ UNCHANGED <<spec, phase, usage, claims, worker, edits>>

Init ==
  /\ spec \in ResourceConfig /\ seen = spec
  /\ phase = "Creating" /\ usage = None
  /\ claims = None /\ pod = None
  /\ at = "idle" /\ current = TRUE
  /\ edits = 0

Next ==
  \/ Reconcile \/ EnsurePVCs \/ EnsurePod \/ BecomeRunning \/ UpdateStatusFailed
  \/ UserEdit \/ PodStops \/ PodGone

Spec == Init /\ [][Next]_vars

-----------------------------------------------------------------------------
(***************************************************************************)
(* Properties                                                              *)
(***************************************************************************)

\* n is k, or the end of low .. high that is nearest to it.
Nearest(n, k, low, high) ==
  /\ n \in low .. high
  /\ n < k => n = high
  /\ n > k => n = low

\* The pod's VM is the one its spec asked for, within the limits: the fewest
\* CPUs that are enough, unless adding 999 overflows, and the whole MiB of the
\* memory; the container has room for the VM and for Firecracker.
VMAsAsked ==
  pod # None =>
    LET r == pod.asked
    IN /\ Given(r.cpu) /\ r.cpu < Half - 999 =>
            \E k \in 1 .. r.cpu :
              /\ k * 1000 >= r.cpu /\ (k - 1) * 1000 < r.cpu
              /\ Nearest(pod.size.cpus, k, 1, MaxVMCPUs)
       /\ Given(r.memory) =>
            \E k \in 0 .. r.memory :
              /\ k * MiB <= r.memory /\ r.memory < (k + 1) * MiB
              /\ Nearest(pod.size.memory, k, MinVMMemory, MaxVMMemory)
       /\ pod.memory > (pod.size.memory + SidecarMemory) * MiB

\* The vm-kernels volume "must be larger than the disk it is grown to", with
\* room for a second copy, for disks of less than half of what int64 holds.
DiskFits ==
  pod # None /\ pod.size.disk < Half \div 2 => 2 * pod.grown <= pod.kernels /\ pod.grown < pod.kernels

\* What a session reports of its pod is what the pod that is there reserves,
\* though the spec may have been edited since the pod was made.  (What it
\* reports of its claims is what the spec it read would have: they are the
\* claims that exist as long as the spec is as it was.)
UsageIsReal ==
  [][usage' # usage =>
       LET holds == IF pod = None THEN FALSE ELSE pod.running
       IN /\ usage'.running = holds
          /\ usage'.memory = (IF holds THEN pod.memory ELSE 0)
          /\ edits = 0 /\ claims # None => usage'.storage = claims + VSCodeStorage]_vars

=============================================================================
