----------------------------- MODULE LuaTypesMC -----------------------------
(* All params of two levels over a few keys: a name, two numbers as JSON   *)
(* and Lua write them, and a number written otherwise.  Three elements are *)
(* the most an array made of such keys can have.                           *)
EXTENDS LuaTypes, TLC

Names == {"a", "1", "2", "01"}
MCStrings == Names \cup {"3"}
MCItoa == <<"1", "2", "3">>
MCAtoi == "a" :> 0 @@ "1" :> 1 @@ "2" :> 2 @@ "3" :> 3 @@ "01" :> 1

Objects(Ks, Vs) == {Obj(f) : f \in UNION {[D -> Vs] : D \in SUBSET Ks}}
Arrays(n, Vs) == {Arr(s) : s \in UNION {[1..m -> Vs] : m \in 0..n}}

Leaves == {Null, Atom("x")}
Inner == Leaves \cup Arrays(2, Leaves) \cup Objects(Names, Leaves)

MCParams == Arrays(2, Inner) \cup Objects({"a", "1"}, Inner)
              \cup Objects({"2", "01"}, Leaves \cup Arrays(1, Leaves))

MCValues == MCParams \cup Inner

RECURSIVE Nesting(_)
Nesting(v) == 1 + Max({0} \cup {Nesting(w) : w \in Parts(v)})
MCDepth == [v \in MCValues |-> Nesting(v)]
=============================================================================
