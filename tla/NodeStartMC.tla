---------------------------- MODULE NodeStartMC ----------------------------
(* Small instances of NodeStart: two processes of one node path.  In the   *)
(* prepared instance the uuid file is there from the start, in the fresh   *)
(* one the first start has to make it.                                     *)
EXTENDS NodeStart, TLC

CONSTANTS p1, p2, h1, a, b, c, d

MCCwd      == [p \in Procs |-> h1]
MCPrepared == [h \in Homes |-> a]
MCFresh    == [h \in Homes |-> None]

(* Processes are alike, and so are identifiers, when none is in the file.  *)
MCSymmetry == Permutations(Procs) \cup Permutations(UUIDs)
=============================================================================
