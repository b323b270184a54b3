------------------------------- MODULE MCPools -------------------------------
(***************************************************************************)
(* Regions and requests for Pools: regions that end at the last address,   *)
(* that are not aligned and that are too small for a pool; allocations of  *)
(* one byte, with padding, of a size that would wrap around, and refused   *)
(* ones.                                                                   *)
(***************************************************************************)
EXTENDS Pools

MCRegions == {[base |-> 3, bytes |-> 27], [base |-> 9, bytes |-> 23], [base |-> 16, bytes |-> 16]}

MCRequests ==
    {[count |-> 1, size |-> 1, alignment |-> 1], [count |-> 3, size |-> 1, alignment |-> 8],
     [count |-> 1, size |-> 31, alignment |-> 1], [count |-> 2, size |-> 17, alignment |-> 2],
     [count |-> 1, size |-> 0, alignment |-> 4], [count |-> 1, size |-> 2, alignment |-> 3]}
=============================================================================
