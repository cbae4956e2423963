------------------------------ MODULE DbConnMC ------------------------------
(* Small instance of DbConn: on one database a careful script that writes  *)
(* once and queries once, and a careless one that may fill a queue of one. *)
EXTENDS DbConn

CONSTANTS s1, s2, p1

MCPathOf     == [s \in Scripts |-> p1]
MCMaxExecs   == [s \in Scripts |-> IF s \in Careful THEN 1 ELSE 2]
MCMaxQueries == [s \in Scripts |-> IF s \in Careful THEN 1 ELSE 0]
=============================================================================
