----------------------------- MODULE GatewayMC -----------------------------
(* Small instances of Gateway: requests that share one session, and the    *)
(* bodies that make Handle and Route take each of their branches.          *)
EXTENDS Gateway, TLC

CONSTANTS r1, r2, k1

MCKeyOf == [r \in Requests |-> k1]

Call(p, v, i) == [proto |-> p, version |-> v, id |-> i]
V1         == Call(TRUE, "v1", TRUE)
V2         == Call(TRUE, "v2", TRUE)
Note       == Call(TRUE, "v1", FALSE)
OldProto   == Call(FALSE, "v1", FALSE)

Batch(cs)  == [kind |-> "batch", calls |-> cs]
Single(c)  == [kind |-> "single", calls |-> <<c>>]
NoBody(k)  == [kind |-> k, calls |-> <<>>]

MCBodies ==
    {NoBody("unreadable"), NoBody("invalid"), Batch(<<>>), Single(V2),
     Batch(<<V1, V1>>), Batch(<<OldProto, Note>>)}

MCNoteBodies == {Single(V1), Batch(<<V1, Note>>)}
=============================================================================
