------------------------------ MODULE SizingProofs ------------------------------
(***************************************************************************)
(* Proofs about SessionSizing: what the sizes of a session are for every   *)
(* request, every MiB, every limit and every width of the integers.        *)
(***************************************************************************)
EXTENDS SessionSizing, TLAPS

-----------------------------------------------------------------------------
(***************************************************************************)
(* The arithmetic of ResourceBuilder                                       *)
(***************************************************************************)

\* Division rounds down.
LEMMA DivBounds ==
  ASSUME NEW a \in Nat, NEW b \in Nat \ {0}
  PROVE  /\ a \div b \in Nat
         /\ (a \div b) * b <= a
         /\ a < ((a \div b) + 1) * b
<1>1. a \div b \in Nat
  OBVIOUS
<1>2. (a \div b) * b <= a
  OBVIOUS
<1>3. a < ((a \div b) + 1) * b
  OBVIOUS
<1> QED
  BY <1>1, <1>2, <1>3

\* Dividing by at least one makes nothing larger.
LEMMA DivShrinks ==
  ASSUME NEW a \in Nat, NEW b \in Nat \ {0}
  PROVE  a \div b <= a
<1> DEFINE k == a \div b
<1>1. k \in Nat /\ k * b <= a
  BY DivBounds
<1> HIDE DEF k
<1>2. k <= k * b
  BY <1>1
<1>3. k * b \in Nat
  BY <1>1
<1>4. k <= a
  BY <1>1, <1>2, <1>3
<1> QED
  BY <1>4 DEF k

\* Adding 999 first makes the division by 1000 round up.
LEMMA RoundsUp ==
  ASSUME NEW a \in Nat, a > 0
  PROVE  LET k == (a + 999) \div 1000
         IN k \in 1 .. a /\ k * 1000 >= a /\ (k - 1) * 1000 < a
OBVIOUS

\* int64 arithmetic is exact below its end.
LEMMA WrapSmall ==
  ASSUME NEW n \in Nat, Half \in Nat, n < Half
  PROVE  Wrap(n) = n
BY DEF Wrap

\* A wrapped number is an integer.
LEMMA WrapInt ==
  ASSUME NEW n \in Int, Half \in Nat \ {0}
  PROVE  Wrap(n) \in Int
BY DEF Wrap

\* A clamped number is the one that was asked for or the nearest limit.
LEMMA ClampNearest ==
  ASSUME NEW k \in Int, NEW low \in Int, NEW high \in Int, low <= high
  PROVE  Nearest(Clamp(k, low, high), k, low, high)
BY DEF Clamp, Nearest

\* A limit is not exceeded.
LEMMA ClampBounds ==
  ASSUME NEW k \in Int, NEW low \in Int, NEW high \in Int, low <= high
  PROVE  Clamp(k, low, high) \in low .. high
BY DEF Clamp

\* Products keep the order.
LEMMA TimesKeepsOrder ==
  ASSUME NEW a \in Nat, NEW b \in Nat, NEW c \in Nat, a <= b
  PROVE  a * c <= b * c /\ a * c \in Nat /\ b * c \in Nat
OBVIOUS

\* What the constants are, one fact at a time.
LEMMA Constants ==
  /\ MiB \in Nat \ {0} /\ Half \in Nat \ {0}
  /\ MaxVMCPUs \in Nat /\ MaxVMCPUs >= 1 /\ DefaultVMCPUs \in Nat
  /\ MinVMMemory \in Nat /\ MaxVMMemory \in Nat /\ MinVMMemory <= MaxVMMemory
  /\ DefaultVMMemory \in Nat
  /\ Overhead \in Nat \ {0} /\ SidecarMemory \in Nat
  /\ VMDiskSize \in Nat \ {0}
  /\ DefaultStorage \in Nat /\ VSCodeStorage \in Nat /\ MaxEdits \in Nat
<1>1. (MaxVMMemory + Overhead + SidecarMemory) * MiB \in Nat
  BY SizingAssumption
<1>2. Half # 0
  BY <1>1, SizingAssumption
<1>3. VMDiskSize \in Nat \ {0}
  BY SizingAssumption
<1> QED
  BY <1>2, <1>3, SizingAssumption

\* A quantity that is given is a positive number.
LEMMA GivenNumber ==
  ASSUME NEW r \in ResourceConfig
  PROVE  /\ Given(r.cpu) => r.cpu \in Nat \ {0}
         /\ Given(r.memory) => r.memory \in Nat \ {0}
         /\ Given(r.storage) => r.storage \in Nat \ {0}
         /\ ~BuildPVCsPanics(r) => VMDataSize(r) \in Nat
<1>1. r.cpu \in CPU /\ r.memory \in Memory /\ r.storage \in Storage
  BY DEF ResourceConfig
<1>2. \A q \in CPU \cup Memory \cup Storage : q \notin {Unset, Malformed} => q \in Nat
  BY SizingAssumption
<1>3. ~BuildPVCsPanics(r) => VMDataSize(r) \in Nat
  BY <1>1, <1>2, Constants DEF BuildPVCsPanics, VMDataSize
<1> QED
  BY <1>1, <1>2, <1>3 DEF Given

-----------------------------------------------------------------------------
(***************************************************************************)
(* BuildPod                                                                *)
(***************************************************************************)

\* The size of the VM is within the limits, and its disk is not empty.
LEMMA SizeBounds ==
  ASSUME NEW r \in ResourceConfig
  PROVE  /\ VMSize(r).cpus \in 1 .. MaxVMCPUs
         /\ VMSize(r).memory \in MinVMMemory .. MaxVMMemory
         /\ VMSize(r).disk \in Nat \ {0}
<1> DEFINE c == IF Given(r.cpu) THEN Wrap(r.cpu + 999) \div 1000 ELSE DefaultVMCPUs
           m == IF Given(r.memory) THEN r.memory \div MiB ELSE DefaultVMMemory
<1>1. c \in Int
  <2>1. Given(r.cpu) => Wrap(r.cpu + 999) \in Int
    BY GivenNumber, WrapInt, Constants
  <2>2. \A w \in Int : w \div 1000 \in Int
    OBVIOUS
  <2> QED
    BY <2>1, <2>2, Constants
<1>2. m \in Int
  BY GivenNumber, DivBounds, Constants
<1>3. VMSize(r).cpus = Clamp(c, 1, MaxVMCPUs)
  BY DEF VMSize
<1>4. VMSize(r).memory = Clamp(m, MinVMMemory, MaxVMMemory)
  BY DEF VMSize
<1>5. VMSize(r).disk \in Nat \ {0}
  BY GivenNumber, Constants DEF VMSize
<1> HIDE DEF c, m
<1>6. VMSize(r).cpus \in 1 .. MaxVMCPUs
  BY <1>1, <1>3, ClampBounds, Constants
<1>7. VMSize(r).memory \in MinVMMemory .. MaxVMMemory
  BY <1>2, <1>4, ClampBounds, Constants
<1> QED
  BY <1>5, <1>6, <1>7

\* vmSize rounds the CPU up to whole CPUs, within the limits.
LEMMA CPUsAsAsked ==
  ASSUME NEW r \in ResourceConfig, Given(r.cpu), r.cpu < Half - 999
  PROVE  \E k \in 1 .. r.cpu :
           /\ k * 1000 >= r.cpu /\ (k - 1) * 1000 < r.cpu
           /\ Nearest(VMSize(r).cpus, k, 1, MaxVMCPUs)
<1> DEFINE k == (r.cpu + 999) \div 1000
<1>1. r.cpu \in Nat \ {0}
  BY GivenNumber
<1>2. Wrap(r.cpu + 999) = r.cpu + 999
  <2>1. r.cpu + 999 \in Nat /\ r.cpu + 999 < Half
    BY <1>1, Constants
  <2> QED
    BY <2>1, WrapSmall, Constants
<1>3. k \in 1 .. r.cpu /\ k * 1000 >= r.cpu /\ (k - 1) * 1000 < r.cpu
  BY <1>1, RoundsUp
<1>4. VMSize(r).cpus = Clamp(k, 1, MaxVMCPUs)
  BY <1>2 DEF VMSize
<1> HIDE DEF k
<1>5. Nearest(VMSize(r).cpus, k, 1, MaxVMCPUs)
  BY <1>1, <1>3, <1>4, ClampNearest, Constants
<1> QED
  BY <1>3, <1>5

\* vmSize rounds the memory down to whole MiB, within the limits.
LEMMA MemoryAsAsked ==
  ASSUME NEW r \in ResourceConfig, Given(r.memory)
  PROVE  \E k \in 0 .. r.memory :
           /\ k * MiB <= r.memory /\ r.memory < (k + 1) * MiB
           /\ Nearest(VMSize(r).memory, k, MinVMMemory, MaxVMMemory)
<1> DEFINE k == r.memory \div MiB
<1>1. r.memory \in Nat \ {0}
  BY GivenNumber
<1>2. k \in Nat /\ k * MiB <= r.memory /\ r.memory < (k + 1) * MiB
  BY <1>1, DivBounds, Constants, Zenon
<1>3. k <= r.memory
  BY <1>1, DivShrinks, Constants
<1>4. VMSize(r).memory = Clamp(k, MinVMMemory, MaxVMMemory)
  BY DEF VMSize
<1> HIDE DEF k
<1>5. Nearest(VMSize(r).memory, k, MinVMMemory, MaxVMMemory)
  BY <1>2, <1>4, ClampNearest, Constants
<1>6. k \in 0 .. r.memory
  BY <1>1, <1>2, <1>3
<1> QED
  BY <1>2, <1>5, <1>6

\* The container has room for the VM and for Firecracker: containerMemory does
\* not overflow.
LEMMA ContainerHasRoom ==
  ASSUME NEW r \in ResourceConfig
  PROVE  /\ BuildPod(r).memory \in Nat
         /\ BuildPod(r).memory > (VMSize(r).memory + SidecarMemory) * MiB
<1> DEFINE m == VMSize(r).memory
           c == (m + Overhead) * MiB
           s == SidecarMemory * MiB
           v == m * MiB
<1>1. m \in Nat /\ m <= MaxVMMemory
  BY SizeBounds, Constants
<1>2. BuildPod(r).memory = Wrap(c) + s
  BY DEF BuildPod, ContainerMemory
<1> HIDE DEF m
<1>3. c \in Nat /\ s \in Nat /\ v \in Nat
  BY <1>1, Constants
<1>4. c < Half
  <2> DEFINE all == MaxVMMemory + Overhead + SidecarMemory
  <2>1. all \in Nat /\ m + Overhead \in Nat /\ m + Overhead <= all
    BY <1>1, Constants
  <2>2. all * MiB < Half
    BY SizingAssumption
  <2> HIDE DEF all
  <2>3. c <= all * MiB /\ all * MiB \in Nat
    BY <2>1, TimesKeepsOrder, Constants
  <2>4. QED
    BY <1>3, <2>2, <2>3, Constants
<1>5. c = v + Overhead * MiB
  BY <1>1, Constants
<1>6. Overhead * MiB \in Nat \ {0}
  BY Constants
<1>7. (m + SidecarMemory) * MiB = v + s
  BY <1>1, Constants
<1>8. Wrap(c) = c
  BY <1>3, <1>4, WrapSmall, Constants
<1> HIDE DEF c, s, v
<1>9. BuildPod(r).memory = v + Overhead * MiB + s
  BY <1>2, <1>5, <1>8
<1> DEFINE o == Overhead * MiB
<1>10. o \in Nat \ {0} /\ BuildPod(r).memory = v + o + s
  BY <1>6, <1>9
<1> HIDE DEF o
<1>11. BuildPod(r).memory \in Nat /\ BuildPod(r).memory > v + s
  BY <1>3, <1>10
<1> QED
  BY <1>7, <1>11 DEF m

\* The disk that is grown and its copy fit the volume: neither doubling the
\* size nor resize2fsSize breaks that.
LEMMA DiskHasRoom ==
  ASSUME NEW r \in ResourceConfig, VMSize(r).disk < Half \div 2
  PROVE  /\ 2 * BuildPod(r).grown <= BuildPod(r).kernels
         /\ BuildPod(r).grown < BuildPod(r).kernels
<1> DEFINE d == VMSize(r).disk
           g == (d \div MiB) * MiB
<1>1. d \in Nat \ {0}
  BY SizeBounds
<1>2. BuildPod(r).grown = g /\ BuildPod(r).kernels = Wrap(d * 2)
  BY DEF BuildPod, Resize2fsSize, VMKernelsSizeLimit
<1>3. d < Half \div 2
  OBVIOUS
<1> HIDE DEF d
<1>4. d * 2 \in Nat /\ d * 2 < Half
  BY <1>1, <1>3, Constants
<1>5. Wrap(d * 2) = d * 2
  BY <1>4, WrapSmall, Constants
<1>6. g <= d
  BY <1>1, DivBounds, Constants
<1>7. g \in Nat
  <2>1. d \div MiB \in Nat
    BY <1>1, DivBounds, Constants
  <2> QED
    BY <2>1, Constants
<1> HIDE DEF g
<1>8. 2 * g <= d * 2 /\ g < d * 2
  BY <1>1, <1>6, <1>7
<1> QED
  BY <1>2, <1>5, <1>8

-----------------------------------------------------------------------------
(***************************************************************************)
(* The invariant                                                           *)
(***************************************************************************)

\* The pod that BuildPod makes for a request, once the kubelet has stopped it.
Stopped(r) == [BuildPod(r) EXCEPT !.running = FALSE]

\* BuildPod made p for some request.
Built(p) == \E r \in ResourceConfig : p = BuildPod(r) \/ p = Stopped(r)

\* The request a pod was made for says what the pod is, the worker's copy and
\* the claims are those of the spec until the spec is edited.
SizingInv ==
  /\ TypeOK
  /\ pod # None => Built(pod)
  /\ edits = 0 => seen = spec
  /\ edits = 0 /\ claims # None => claims = VMDataSize(spec)

\* What a built pod is, field by field.
LEMMA BuiltFields ==
  ASSUME NEW p, Built(p)
  PROVE  /\ p.asked \in ResourceConfig
         /\ p.size = VMSize(p.asked)
         /\ p.memory = BuildPod(p.asked).memory
         /\ p.kernels = BuildPod(p.asked).kernels
         /\ p.grown = BuildPod(p.asked).grown
         /\ p.running \in BOOLEAN
<1>1. PICK r \in ResourceConfig : p = BuildPod(r) \/ p = Stopped(r)
  BY DEF Built
<1> DEFINE Same(q) ==
             /\ q.asked = r /\ q.size = VMSize(r)
             /\ q.memory = BuildPod(r).memory
             /\ q.kernels = BuildPod(r).kernels
             /\ q.grown = BuildPod(r).grown
             /\ q.running \in BOOLEAN
<1>2. Same(BuildPod(r))
  BY DEF BuildPod
<1>3. Same(Stopped(r))
  BY DEF BuildPod, Stopped
<1>4. Same(p)
  <2> HIDE DEF Same
  <2> QED
    BY <1>1, <1>2, <1>3, Zenon
<1> QED
  BY <1>4

\* A new pod is built, and a stopped one still is.
LEMMA BuiltKept ==
  /\ \A r \in ResourceConfig : Built(BuildPod(r))
  /\ \A p : Built(p) => Built([p EXCEPT !.running = FALSE])
<1>1. ASSUME NEW r \in ResourceConfig
      PROVE  Built(BuildPod(r))
  BY DEF Built
<1>2. ASSUME NEW p, Built(p)
      PROVE  Built([p EXCEPT !.running = FALSE])
  <2>1. PICK r \in ResourceConfig : p = BuildPod(r) \/ p = Stopped(r)
    BY <1>2 DEF Built
  <2>2. [Stopped(r) EXCEPT !.running = FALSE] = Stopped(r)
    BY Zenon DEF Stopped, BuildPod
  <2>3. [p EXCEPT !.running = FALSE] = Stopped(r)
    BY <2>1, <2>2, Zenon DEF Stopped
  <2> QED
    BY <2>3 DEF Built
<1> QED
  BY <1>1, <1>2

\* A pod that was built is as TypeOK says.
LEMMA BuiltTyped ==
  ASSUME NEW p, Built(p)
  PROVE  /\ p.asked \in ResourceConfig
         /\ p.size.cpus \in 1 .. MaxVMCPUs
         /\ p.size.memory \in MinVMMemory .. MaxVMMemory
         /\ p.memory \in Nat
BY BuiltFields, SizeBounds, ContainerHasRoom

\* The usage that a reconcile computes has the type of a usage.
LEMMA UsageTyped ==
  ASSUME NEW p, p # None => Built(p), NEW r \in ResourceConfig, ~BuildPVCsPanics(r)
  PROVE  UsageOf(p, r) \in Usage
<1> DEFINE holds == IF p = None THEN FALSE ELSE p.running
<1>1. holds \in BOOLEAN
  BY BuiltFields, Zenon
<1>2. p # None => p.memory \in Nat
  BY BuiltTyped
<1>3. VMDataSize(r) + VSCodeStorage \in Nat
  BY GivenNumber, Constants
<1>4. (IF holds THEN p.memory ELSE 0) \in Nat
  BY <1>2
<1>5. (IF holds THEN PodCPURequest ELSE 0) \in Nat
  BY DEF PodCPURequest
<1>6. UsageOf(p, r) = [running |-> holds, storage |-> VMDataSize(r) + VSCodeStorage,
                       cpu |-> IF holds THEN PodCPURequest ELSE 0,
                       memory |-> IF holds THEN p.memory ELSE 0]
  BY DEF UsageOf
<1> HIDE DEF holds
<1> QED
  BY <1>1, <1>3, <1>4, <1>5, <1>6 DEF Usage

LEMMA SizingInit == Init => SizingInv
BY Constants DEF Init, SizingInv, TypeOK, worker

\* The step of a worker that reports: what it writes.
LEMMA ReportSteps ==
  ASSUME SizingInv, NEW q \in {"Running", "Failed"}, Report(q),
         UNCHANGED <<spec, claims, pod, edits>>
  PROVE  SizingInv'
<1>1. BuildPVCsPanics(seen) => UNCHANGED <<phase, usage>>
  BY DEF Report
<1>2. ~BuildPVCsPanics(seen) => UsageOf(pod, seen) \in Usage
  BY UsageTyped DEF SizingInv, TypeOK
<1>3. at' = "idle" /\ UNCHANGED <<seen, current>>
  BY DEF Report, Panic, Goto
<1>4. usage' \in Usage \cup {None} /\ phase' \in {"Creating", "Running", "Failed"}
  BY <1>1, <1>2 DEF Report, SizingInv, TypeOK
<1>5. TypeOK'
  BY <1>3, <1>4 DEF SizingInv, TypeOK
<1> QED
  BY <1>3, <1>5 DEF SizingInv, VMDataSize, Built

LEMMA SizingNext == SizingInv /\ [Next]_vars => SizingInv'
<1> SUFFICES ASSUME SizingInv, [Next]_vars
             PROVE  SizingInv'
  OBVIOUS
<1> USE DEF SizingInv
<1>1. CASE Reconcile
  <2>1. seen' = spec /\ UNCHANGED <<spec, phase, usage, claims, pod, edits>>
    BY <1>1 DEF Reconcile
  <2>2. at' \in {"claims", "failing"} /\ current' = TRUE
    BY <1>1 DEF Reconcile
  <2>3. TypeOK'
    BY <2>1, <2>2 DEF TypeOK
  <2> QED
    BY <2>1, <2>3 DEF VMDataSize, Built
<1>2. CASE EnsurePVCs
  <2>1. UNCHANGED <<spec, phase, usage, pod, edits, seen, current>>
    BY <1>2 DEF EnsurePVCs, Panic, Goto
  <2>2. at' \in {"idle", "pod", "failing"}
    BY <1>2 DEF EnsurePVCs, Panic, Goto
  <2>3. \/ UNCHANGED claims
        \/ ~BuildPVCsPanics(seen) /\ claims' = VMDataSize(seen)
    BY <1>2 DEF EnsurePVCs
  <2>4. claims' \in Nat \cup {None}
    BY <2>3, GivenNumber DEF TypeOK
  <2>5. TypeOK'
    BY <2>1, <2>2, <2>4 DEF TypeOK
  <2>6. VMDataSize(spec)' = VMDataSize(spec)
    BY <2>1 DEF VMDataSize
  <2> QED
    BY <2>1, <2>3, <2>5, <2>6 DEF Built
<1>3. CASE EnsurePod
  <2>1. UNCHANGED <<spec, phase, usage, claims, edits, seen, current>>
    BY <1>3 DEF EnsurePod, Goto
  <2>2. at' \in {"idle", "running", "failing"}
    BY <1>3 DEF EnsurePod, Goto
  <2>3. Built(pod')
    BY <1>3, BuiltKept DEF EnsurePod, TypeOK
  <2>4. TypeOK'
    BY <2>1, <2>2, <2>3, BuiltTyped DEF TypeOK
  <2>5. VMDataSize(spec)' = VMDataSize(spec)
    BY <2>1 DEF VMDataSize
  <2> QED
    BY <2>1, <2>3, <2>4, <2>5 DEF Built
<1>4. CASE BecomeRunning
  BY <1>4, ReportSteps DEF BecomeRunning
<1>5. CASE UpdateStatusFailed
  BY <1>5, ReportSteps DEF UpdateStatusFailed
<1>6. CASE UserEdit
  <2>1. edits' # 0 /\ edits' \in 0 .. MaxEdits
    BY <1>6, Constants DEF UserEdit, TypeOK
  <2>2. spec' \in ResourceConfig /\ current' = FALSE
    BY <1>6 DEF UserEdit
  <2>3. UNCHANGED <<phase, usage, claims, pod, at, seen>>
    BY <1>6 DEF UserEdit
  <2>4. TypeOK'
    BY <2>1, <2>2, <2>3, Zenon DEF TypeOK
  <2> QED
    BY <2>1, <2>3, <2>4 DEF Built
<1>7. CASE PodStops
  <2>1. UNCHANGED <<spec, phase, usage, claims, worker, edits>>
    BY <1>7 DEF PodStops
  <2>2. Built(pod')
    BY <1>7, BuiltKept DEF PodStops
  <2>3. TypeOK'
    BY <2>1, <2>2, BuiltTyped DEF TypeOK, worker
  <2> QED
    BY <2>1, <2>2, <2>3 DEF Built, VMDataSize, worker
<1>8. CASE PodGone
  <2>1. UNCHANGED <<spec, phase, usage, claims, worker, edits>> /\ pod' = None
    BY <1>8 DEF PodGone
  <2>2. TypeOK'
    BY <2>1 DEF TypeOK, worker
  <2> QED
    BY <2>1, <2>2 DEF VMDataSize, worker
<1>9. CASE UNCHANGED vars
  BY <1>9 DEF vars, worker, TypeOK, Built, VMDataSize
<1> QED
  BY <1>1, <1>2, <1>3, <1>4, <1>5, <1>6, <1>7, <1>8, <1>9 DEF Next

-----------------------------------------------------------------------------
(***************************************************************************)
(* The theorems                                                            *)
(***************************************************************************)

\* Sizes and usage keep their types, and every pod is one that BuildPod makes.
THEOREM SizingInvariant == Spec => []SizingInv
BY SizingInit, SizingNext, PTL DEF Spec

\* Every size that vmSize and BuildPod compute, and the usage that is written,
\* is a size of the right kind, whatever the requests, limits and edits are.
THEOREM SizingTypeCorrect == Spec => []TypeOK
<1>1. SizingInv => TypeOK
  BY DEF SizingInv
<1> QED
  BY <1>1, SizingInvariant, PTL

\* vmSize and containerMemory: a pod's VM is the one its spec asked for within
\* the limits, whatever the request, the limits and the MiB are.
THEOREM VMIsAsAsked == Spec => []VMAsAsked
<1>1. SizingInv => VMAsAsked
  <2> SUFFICES ASSUME SizingInv, pod # None
               PROVE  VMAsAsked
    BY DEF VMAsAsked
  <2> DEFINE r == pod.asked
  <2>1. Built(pod)
    BY DEF SizingInv
  <2>2. r \in ResourceConfig /\ pod.size = VMSize(r) /\ pod.memory = BuildPod(r).memory
    BY <2>1, BuiltFields
  <2> HIDE DEF r
  <2>3. Given(r.cpu) /\ r.cpu < Half - 999 =>
          \E k \in 1 .. r.cpu :
            /\ k * 1000 >= r.cpu /\ (k - 1) * 1000 < r.cpu
            /\ Nearest(pod.size.cpus, k, 1, MaxVMCPUs)
    BY <2>2, CPUsAsAsked
  <2>4. Given(r.memory) =>
          \E k \in 0 .. r.memory :
            /\ k * MiB <= r.memory /\ r.memory < (k + 1) * MiB
            /\ Nearest(pod.size.memory, k, MinVMMemory, MaxVMMemory)
    BY <2>2, MemoryAsAsked
  <2>5. pod.memory > (pod.size.memory + SidecarMemory) * MiB
    BY <2>2, ContainerHasRoom
  <2> QED
    BY <2>3, <2>4, <2>5 DEF VMAsAsked, r
<1> QED
  BY <1>1, SizingInvariant, PTL

\* vmKernelsSizeLimit and resize2fsSize: the volume holds the grown disk and a
\* second copy of it, for every disk below half of what int64 holds.
THEOREM DiskAlwaysFits == Spec => []DiskFits
<1>1. SizingInv => DiskFits
  <2> SUFFICES ASSUME SizingInv, pod # None, pod.size.disk < Half \div 2
               PROVE  2 * pod.grown <= pod.kernels /\ pod.grown < pod.kernels
    BY DEF DiskFits
  <2>1. Built(pod)
    BY DEF SizingInv
  <2>2. /\ pod.asked \in ResourceConfig /\ pod.size = VMSize(pod.asked)
        /\ pod.kernels = BuildPod(pod.asked).kernels
        /\ pod.grown = BuildPod(pod.asked).grown
    BY <2>1, BuiltFields
  <2> QED
    BY <2>2, DiskHasRoom
<1> QED
  BY <1>1, SizingInvariant, PTL

\* usageOf: what is written to status.usage is what the pod that is there
\* reserves, however the spec was edited since the pod was made.
THEOREM UsageAlwaysReal == Spec => UsageIsReal
<1> DEFINE holds == IF pod = None THEN FALSE ELSE pod.running
           Real == usage' # usage =>
                     /\ usage'.running = holds
                     /\ usage'.memory = (IF holds THEN pod.memory ELSE 0)
                     /\ edits = 0 /\ claims # None => usage'.storage = claims + VSCodeStorage
<1>1. SizingInv /\ [Next]_vars => [Real]_vars
  <2> SUFFICES ASSUME SizingInv, [Next]_vars, usage' # usage
               PROVE  Real
    BY Zenon
  <2>1. usage' = UsageOf(pod, seen)
    BY DEF Next, Reconcile, EnsurePVCs, EnsurePod, BecomeRunning, UpdateStatusFailed,
           Report, UserEdit, PodStops, PodGone, vars
  <2>2. /\ usage'.running = holds
        /\ usage'.memory = (IF holds THEN pod.memory ELSE 0)
        /\ usage'.storage = VMDataSize(seen) + VSCodeStorage
    BY <2>1 DEF UsageOf
  <2>3. edits = 0 /\ claims # None => claims = VMDataSize(seen)
    BY DEF SizingInv
  <2> QED
    BY <2>2, <2>3
<1> QED
  BY <1>1, SizingInvariant, PTL DEF Spec, UsageIsReal
=================================================================================
