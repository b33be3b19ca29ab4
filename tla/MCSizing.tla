-------------------------------- MODULE MCSizing --------------------------------
(***************************************************************************)
(* SessionSizing with a MiB of four bytes and an int64 that ends at 20000: *)
(* requests below, at and above each rounding step and each limit.         *)
(***************************************************************************)
EXTENDS SessionSizing

CPURequests == {Unset, 0, 1, 1000, 1001, 2001, Half - 1000, Half - 999}
MemoryRequests == {Malformed, 3, 8, 11, 21, 99}
StorageRequests == {Unset, Malformed, 0, 3, 9, Half \div 2 - 1}
=================================================================================
