\* Every request, one edit of the spec at any time.
CONSTANTS
  None = None
  Unset = Unset
  Malformed = Malformed
  CPU <- CPURequests
  Memory <- MemoryRequests
  Storage <- StorageRequests
  MiB = 4
  DefaultVMCPUs = 1
  MaxVMCPUs = 2
  DefaultVMMemory = 3
  MinVMMemory = 2
  MaxVMMemory = 5
  Overhead = 1
  SidecarMemory = 3
  VMDiskSize = 8
  DefaultStorage = 20
  VSCodeStorage = 10
  Half = 20000
  MaxEdits = 1
SPECIFICATION Spec
CHECK_DEADLOCK FALSE
INVARIANTS TypeOK VMAsAsked DiskFits
 
