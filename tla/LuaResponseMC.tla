--------------------------- MODULE LuaResponseMC ---------------------------
(* Scripts that call session.response a few times, with two keys and two   *)
(* values, and errors whose arguments come in any order or not at all.     *)
EXTENDS LuaResponse, Sequences, TLC

CONSTANTS c1, m1, m2, d1, sc, k1, k2, v1, v2

MCErrorArgs == {<<Nil, Nil, Nil>>, <<c1, m1, d1>>, <<m1, Nil, Nil>>, <<m1, c1, m2>>}
=============================================================================
