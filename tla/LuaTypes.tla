------------------------------ MODULE LuaTypes ------------------------------
(***************************************************************************)
(* sv1/lua_types.go, and the way of a request's params through a method    *)
(* that sends them back (the README's echo): JSON to Lua when the script   *)
(* imports internal.session, response.send into the result table, Lua to   *)
(* JSON when the answer is made.                                           *)
(*                                                                         *)
(* A JSON value is Null, an atom (string, number or boolean), an array or  *)
(* an object; a Lua value is Nil, an atom or a table.  A table's key is a  *)
(* number, [n |-> 1], or a string, [s |-> "1"].  Each conversion is given  *)
(* as what it does at one level of a value, with the function that         *)
(* converts the parts, and then as the function that uses itself for them. *)
(***************************************************************************)
EXTENDS Integers, Sequences, FiniteSetsExt

CONSTANTS
    Values,     \* the JSON values of requests: params and all their parts
    Params,     \* bound: the params of the request, arrays or objects
    Depth,      \* [Values -> Nat]: the parts of a value are less deep
    Strings,    \* the strings that are keys
    Atoi,       \* string -> the number it spells, 0 if none or below 1
    Itoa        \* sequence: number -> its spelling in Strings

Null == [t |-> "null"]
Atom(a) == [t |-> "atom", a |-> a]
Arr(s) == [t |-> "arr", s |-> s]
Obj(f) == [t |-> "obj", f |-> f]

Parts(v) == CASE v.t = "arr" -> {v.s[i] : i \in DOMAIN v.s}
              [] v.t = "obj" -> {v.f[x] : x \in DOMAIN v.f}
              [] OTHER -> {}

(* encoding/json makes trees, whose elements and fields are values again.  *)
ASSUME ValuesAssumption ==
    \A v \in Values :
        /\ v.t \in {"null", "atom", "arr", "obj"}
        /\ v.t = "null" => v = Null
        /\ v.t = "atom" => v = Atom(v.a)
        /\ v.t = "arr" => /\ v = Arr(v.s) /\ v.s \in Seq(Values)
                          /\ Len(v.s) <= Len(Itoa)
        /\ v.t = "obj" => /\ v = Obj(v.f) /\ DOMAIN v.f \subseteq Strings
                          /\ v.f \in [DOMAIN v.f -> Values]
        /\ Depth[v] \in Nat
        /\ \A w \in Parts(v) : Depth[w] < Depth[v]

ASSUME TypesAssumption ==
    /\ Params \subseteq {v \in Values : v.t \in {"arr", "obj"}}
    /\ Atoi \in [Strings -> Nat]
    /\ Itoa \in Seq(Strings)
    /\ \A i \in DOMAIN Itoa : Atoi[Itoa[i]] = i

VARIABLES params,   \* what the client sent
          fetched,  \* request.params.__fetched
          reply     \* the result the client gets

vars == <<params, fetched, reply>>

Nil == [t |-> "nil"]
Table(f) == [t |-> "table", f |-> f]
Num(i) == [n |-> i]
Str(x) == [s |-> x]
IsNumber(k) == k \in {Num(i) : i \in DOMAIN Itoa}
KeyString(k) == IF IsNumber(k) THEN Itoa[k.n] ELSE k.s
KeyNumber(k) == IF IsNumber(k) THEN k.n ELSE Atoi[k.s]

(* Storing nil under a key of a table stores nothing.                      *)
LuaOf(v, conv) ==
    CASE v.t = "null" -> Nil
      [] v.t = "atom" -> v
      [] v.t = "arr" ->
           LET some == {i \in DOMAIN v.s : v.s[i] # Null}
           IN  Table([k \in {Num(i) : i \in some} |-> conv[v.s[k.n]]])
      [] v.t = "obj" ->
           LET some == {x \in DOMAIN v.f : v.f[x] # Null}
           IN  Table([k \in {Str(x) : x \in some} |-> conv[v.f[k.s]]])

ToLua[v \in Values] == LuaOf(v, ToLua)

(* Mutant: an empty table is no array.                                     *)
IsArray_nonempty(f) ==
    DOMAIN f # {} /\ \A k \in DOMAIN f : KeyNumber(k) >= 1

(* A table is an array if each key, even a string, is a positive number.   *)
IsArray(f) == \A k \in DOMAIN f : KeyNumber(k) >= 1

(* Mutant: the length of an array is the number of its keys.               *)
MaxIdx_count(f) == Cardinality(DOMAIN f)

MaxIdx(f) == Max({0} \cup {KeyNumber(k) : k \in DOMAIN f})

(* The key of the i-th element: a number as soon as one key is a number.   *)
Index(f, i) == IF \E k \in DOMAIN f : IsNumber(k) THEN Num(i) ELSE Str(Itoa[i])

GolangOf(l, conv) ==
    CASE l.t = "nil" -> Null
      [] l.t = "atom" -> l
      [] l.t = "table" ->
           IF IsArray(l.f)
           THEN Arr([i \in 1..MaxIdx(l.f) |->
                       IF Index(l.f, i) \in DOMAIN l.f
                       THEN conv[l.f[Index(l.f, i)]] ELSE Null])
           ELSE Obj([x \in {KeyString(k) : k \in DOMAIN l.f} |->
                       conv[l.f[CHOOSE k \in DOMAIN l.f : KeyString(k) = x]]])

(* The Lua values that come of a request.                                  *)
LuaValues == {ToLua[v] : v \in Values}

FromLua[l \in LuaValues] == GolangOf(l, FromLua)

(* send(l): each value goes to the result under its key made a string.     *)
Merged(r, l) ==
    LET names == {KeyString(k) : k \in DOMAIN l.f}
    IN  Table([k \in DOMAIN r.f \cup {Str(x) : x \in names} |->
                 IF k.s \in names
                 THEN l.f[CHOOSE j \in DOMAIN l.f : KeyString(j) = k.s]
                 ELSE r.f[k]])

Pending == [t |-> "pending"]

Init ==
    /\ params \in Params
    /\ fetched = Nil
    /\ reply = Pending

(* require("internal.session")                                             *)
Fetch ==
    /\ fetched = Nil
    /\ fetched' = ToLua[params]
    /\ UNCHANGED <<params, reply>>

(* send(get()) on an empty result: the call of README.md:43, and that of   *)
(* com/Echo.lua:11 for the params it does not refuse.                      *)
SendBack ==
    /\ fetched # Nil /\ reply = Pending
    /\ reply' = GolangOf(Merged(Table(<<>>), fetched), FromLua)
    /\ UNCHANGED <<params, fetched>>

Next == Fetch \/ SendBack

Spec == Init /\ [][Next]_vars

----------------------------------------------------------------------------
(* What survives the way through Lua: no null but inside an array and      *)
(* before its last element, no empty object, and no object all of whose    *)
(* keys spell positive numbers.                                            *)
SurvivesIf(v, survives) ==
    CASE v.t \in {"null", "atom"} -> TRUE
      [] v.t = "arr" -> /\ \A i \in DOMAIN v.s : survives[v.s[i]]
                        /\ v.s # <<>> => v.s[Len(v.s)] # Null
      [] v.t = "obj" -> /\ \A x \in DOMAIN v.f : v.f[x] # Null /\ survives[v.f[x]]
                        /\ \E x \in DOMAIN v.f : Atoi[x] < 1

Survives[v \in Values] == SurvivesIf(v, Survives)

(* The echo of the README gives back exactly the params that survive: it   *)
(* loses or reshapes all others, and those only.                           *)
EchoesWhatSurvives == reply # Pending => (reply = params <=> Survives[params])

(* Lua keeps the order of what it keeps: an array sent back has the        *)
(* elements the client sent, each at its place, but for nulls at the end.  *)
ArraysKeepPlaces ==
    (reply # Pending /\ params.t = "arr") =>
        /\ reply.t = "arr" /\ Len(reply.s) <= Len(params.s)
        /\ \A i \in DOMAIN params.s :
             IF i \in DOMAIN reply.s
             THEN Survives[params.s[i]] => reply.s[i] = params.s[i]
             ELSE params.s[i] = Null
=============================================================================
