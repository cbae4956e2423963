--------------------------- MODULE LuaTypesProofs ---------------------------
(***************************************************************************)
(* What becomes of the params of a request on their way through Lua, for   *)
(* JSON values of any size and depth: the induction is over Depth, by the  *)
(* value of least depth for which a statement would fail.                  *)
(***************************************************************************)
EXTENDS LuaTypes, WellFoundedInduction, TLAPS

LEMMA LeastOf ==
  ASSUME NEW T, T \subseteq Nat, T # {}
  PROVE  \E x \in T : \A y \in T : x <= y
<1>1. \E x \in T : \A y \in T : ~ (<<y, x>> \in OpToRel(<, Nat))
  BY NatLessThanWellFounded, WFMin
<1>2. PICK x \in T : \A y \in T : ~ (<<y, x>> \in OpToRel(<, Nat))
  BY <1>1
<1>3. \A y \in T : ~ (y < x)
  BY <1>2 DEF OpToRel
<1>4. QED
  BY <1>3

(* The shapes of values.                                                   *)
LEMMA Shapes ==
  ASSUME NEW v \in Values
  PROVE  \/ v.t = "null" /\ v = Null
         \/ v.t = "atom"
         \/ /\ v.t = "arr" /\ v = Arr(v.s) /\ Len(v.s) \in Nat
            /\ DOMAIN v.s = 1..Len(v.s) /\ Len(v.s) <= Len(Itoa)
            /\ \A i \in DOMAIN v.s : v.s[i] \in Values
            /\ v.s = [i \in DOMAIN v.s |-> v.s[i]]
         \/ /\ v.t = "obj" /\ v = Obj(v.f) /\ DOMAIN v.f \subseteq Strings
            /\ \A x \in DOMAIN v.f : v.f[x] \in Values
            /\ v.f = [x \in DOMAIN v.f |-> v.f[x]]
<1>1. CASE v.t = "arr"
  <2>1. v = Arr(v.s) /\ v.s \in Seq(Values) /\ Len(v.s) <= Len(Itoa)
    BY <1>1, ValuesAssumption
  <2>2. QED
    BY <1>1, <2>1
<1>2. CASE v.t = "obj"
  <2>1. v = Obj(v.f) /\ DOMAIN v.f \subseteq Strings /\ v.f \in [DOMAIN v.f -> Values]
    BY <1>2, ValuesAssumption
  <2>2. QED
    BY <1>2, <2>1
<1>3. QED
  BY <1>1, <1>2, ValuesAssumption

LEMMA PartsAreValues ==
  ASSUME NEW v \in Values, NEW w \in Parts(v)
  PROVE  w \in Values /\ Depth[w] \in Nat /\ Depth[v] \in Nat /\ Depth[w] < Depth[v]
<1>1. w \in Values
  BY ZenonT(60), Shapes DEF Parts
<1>2. QED
  BY <1>1, ValuesAssumption

(* A set of values that has each value whose parts it has, has them all.   *)
LEMMA Induction ==
  ASSUME NEW Good, \A v \in Values : Parts(v) \subseteq Good => v \in Good
  PROVE  Values \subseteq Good
<1> SUFFICES ASSUME NEW u \in Values, u \notin Good PROVE FALSE
  OBVIOUS
<1> DEFINE Bad == {v \in Values : v \notin Good}
           T == {Depth[v] : v \in Bad}
<1>1. T \subseteq Nat /\ T # {}
  BY ValuesAssumption
<1>2. PICK n \in T : \A m \in T : n <= m
  BY <1>1, LeastOf
<1>3. PICK v \in Bad : Depth[v] = n
  OBVIOUS
<1>4. PICK w \in Parts(v) : w \notin Good
  BY <1>3
<1>5. w \in Values /\ Depth[w] < Depth[v] /\ Depth[w] \in Nat /\ Depth[v] \in Nat
  BY <1>3, <1>4, PartsAreValues
<1>6. Depth[w] \in T
  BY <1>4, <1>5
<1>7. QED
  BY <1>2, <1>3, <1>5, <1>6

----------------------------------------------------------------------------
(* ToLua satisfies its equation: what it makes of a value depends on what  *)
(* it makes of the parts only.                                             *)
Below(n) == {v \in Values : Depth[v] < n}
LuaBelow(n, f) == \A v \in Below(n) : f[v] = LuaOf(v, f)

LEMMA LuaOfParts ==
  ASSUME NEW v \in Values, NEW f, NEW g, \A w \in Parts(v) : f[w] = g[w]
  PROVE  LuaOf(v, f) = LuaOf(v, g)
<1>1. CASE v.t = "arr"
  <2> DEFINE some == {i \in DOMAIN v.s : v.s[i] # Null}
  <2>1. \A k \in {Num(i) : i \in some} : f[v.s[k.n]] = g[v.s[k.n]]
    <3>1. \A i \in some : Num(i).n = i /\ v.s[i] \in Parts(v)
      BY <1>1 DEF Num, Parts
    <3>2. QED
      BY <3>1
  <2>2. LuaOf(v, f) = Table([k \in {Num(i) : i \in some} |-> f[v.s[k.n]]])
    BY <1>1, Zenon DEF LuaOf
  <2>3. LuaOf(v, g) = Table([k \in {Num(i) : i \in some} |-> g[v.s[k.n]]])
    BY <1>1, Zenon DEF LuaOf
  <2>4. QED
    BY <2>1, <2>2, <2>3
<1>2. CASE v.t = "obj"
  <2> DEFINE some == {x \in DOMAIN v.f : v.f[x] # Null}
  <2>1. \A k \in {Str(x) : x \in some} : f[v.f[k.s]] = g[v.f[k.s]]
    <3>1. \A x \in some : Str(x).s = x /\ v.f[x] \in Parts(v)
      BY <1>2 DEF Str, Parts
    <3>2. QED
      BY <3>1
  <2>2. LuaOf(v, f) = Table([k \in {Str(x) : x \in some} |-> f[v.f[k.s]]])
    BY <1>2, Zenon DEF LuaOf
  <2>3. LuaOf(v, g) = Table([k \in {Str(x) : x \in some} |-> g[v.f[k.s]]])
    BY <1>2, Zenon DEF LuaOf
  <2>4. QED
    BY <2>1, <2>2, <2>3
<1>3. CASE v.t \in {"null", "atom"}
  BY <1>3 DEF LuaOf
<1>4. QED
  BY <1>1, <1>2, <1>3, Shapes

LEMMA LuaAgrees ==
  ASSUME NEW n \in Nat, NEW m \in Nat, n <= m,
         NEW f, NEW g, LuaBelow(n, f), LuaBelow(m, g)
  PROVE  \A v \in Below(n) : f[v] = g[v]
<1> DEFINE Good == {v \in Values : v \in Below(n) => f[v] = g[v]}
<1>1. ASSUME NEW v \in Values, Parts(v) \subseteq Good PROVE v \in Good
  <2>1. SUFFICES ASSUME v \in Below(n) PROVE f[v] = g[v]
    OBVIOUS
  <2>2. \A w \in Parts(v) : f[w] = g[w]
    BY <1>1, <2>1, PartsAreValues DEF Below
  <2>3. v \in Below(m)
    BY <2>1, ValuesAssumption DEF Below
  <2>4. QED
    BY <2>1, <2>2, <2>3, LuaOfParts DEF LuaBelow
<1>2. Values \subseteq Good
  BY <1>1, Induction
<1>3. QED
  BY <1>2 DEF Below

LEMMA LuaExists == \A n \in Nat : \E f : LuaBelow(n, f)
<1> SUFFICES ASSUME NEW b \in Nat, ~ \E f : LuaBelow(b, f) PROVE FALSE
  OBVIOUS
<1> DEFINE T == {n \in Nat : ~ \E f : LuaBelow(n, f)}
<1>1. PICK n \in T : \A m \in T : n <= m
  BY LeastOf
<1>2. n # 0
  BY ValuesAssumption DEF LuaBelow, Below
<1>3. n - 1 \in Nat /\ n - 1 \notin T
  BY <1>1, <1>2
<1>4. PICK f : LuaBelow(n - 1, f)
  BY <1>3
<1> DEFINE g == [v \in Below(n) |-> LuaOf(v, f)]
<1>5. \A v \in Below(n - 1) : g[v] = f[v]
  BY <1>3, <1>4, ValuesAssumption DEF LuaBelow, Below
<1>6. \A v \in Below(n) : \A w \in Parts(v) : f[w] = g[w]
  BY <1>5, PartsAreValues DEF Below
<1>7. LuaBelow(n, g)
  <2>1. \A v \in Below(n) : LuaOf(v, f) = LuaOf(v, g)
    BY <1>6, LuaOfParts DEF Below
  <2>2. QED
    BY <2>1 DEF LuaBelow
<1>8. QED
  BY <1>1, <1>7

LEMMA ToLuaIs == \A v \in Values : ToLua[v] = LuaOf(v, ToLua)
<1> DEFINE F == [v \in Values |-> (CHOOSE f : LuaBelow(Depth[v] + 1, f))[v]]
<1>1. ASSUME NEW n \in Nat, NEW f, LuaBelow(n, f), NEW v \in Below(n)
      PROVE  F[v] = f[v]
  <2>1. v \in Values /\ Depth[v] \in Nat /\ Depth[v] + 1 \in Nat /\ Depth[v] + 1 <= n
    BY <1>1, ValuesAssumption DEF Below
  <2> DEFINE h == CHOOSE g : LuaBelow(Depth[v] + 1, g)
  <2>2. LuaBelow(Depth[v] + 1, h)
    BY <2>1, LuaExists
  <2>3. v \in Below(Depth[v] + 1)
    BY <2>1 DEF Below
  <2>4. h[v] = f[v]
    <3> HIDE DEF h
    <3>1. QED
      BY <1>1, <2>1, <2>2, <2>3, LuaAgrees
  <2>5. QED
    BY <2>1, <2>4
<1>2. ASSUME NEW v \in Values PROVE F[v] = LuaOf(v, F)
  <2>1. Depth[v] + 1 \in Nat /\ v \in Below(Depth[v] + 1)
    BY ValuesAssumption DEF Below
  <2>2. PICK f : LuaBelow(Depth[v] + 1, f)
    BY <2>1, LuaExists
  <2>3. F[v] = f[v] /\ f[v] = LuaOf(v, f)
    BY <1>1, <2>1, <2>2 DEF LuaBelow
  <2>4. \A w \in Parts(v) : F[w] = f[w]
    <3>1. \A w \in Parts(v) : w \in Below(Depth[v] + 1)
      BY <2>1, PartsAreValues DEF Below
    <3>2. QED
      BY <1>1, <2>1, <2>2, <3>1
  <2>5. QED
    <3> HIDE DEF F
    <3>1. QED
      BY <2>3, <2>4, LuaOfParts
<1>3. F = [v \in Values |-> LuaOf(v, F)]
  <2>1. DOMAIN F = Values /\ F = [v \in Values |-> F[v]]
    OBVIOUS
  <2> HIDE DEF F
  <2>2. QED
    BY <1>2, <2>1
<1>4. ToLua = [v \in Values |-> LuaOf(v, ToLua)]
  <2> HIDE DEF F
  <2>1. \E f : f = [v \in Values |-> LuaOf(v, f)]
    BY <1>3
  <2>2. QED
    BY <2>1, Zenon DEF ToLua
<1>5. QED
  BY <1>4, Zenon

----------------------------------------------------------------------------
(* Survives satisfies its equation.                                        *)
SurvivesBelow(n, f) == \A v \in Below(n) : f[v] = SurvivesIf(v, f)

LEMMA SurvivesOfParts ==
  ASSUME NEW v \in Values, NEW f, NEW g, \A w \in Parts(v) : f[w] = g[w]
  PROVE  SurvivesIf(v, f) = SurvivesIf(v, g)
<1>1. CASE v.t = "arr"
  <2>1. \A i \in DOMAIN v.s : f[v.s[i]] = g[v.s[i]]
    BY <1>1 DEF Parts
  <2>2. QED
    BY <1>1, <2>1, Zenon DEF SurvivesIf
<1>2. CASE v.t = "obj"
  <2>1. \A x \in DOMAIN v.f : f[v.f[x]] = g[v.f[x]]
    BY <1>2 DEF Parts
  <2>2. QED
    BY <1>2, <2>1, Zenon DEF SurvivesIf
<1>3. CASE v.t \in {"null", "atom"}
  BY <1>3, Zenon DEF SurvivesIf
<1>4. QED
  BY <1>1, <1>2, <1>3, Shapes

LEMMA SurvivesAgrees ==
  ASSUME NEW n \in Nat, NEW m \in Nat, n <= m,
         NEW f, NEW g, SurvivesBelow(n, f), SurvivesBelow(m, g)
  PROVE  \A v \in Below(n) : f[v] = g[v]
<1> DEFINE Good == {v \in Values : v \in Below(n) => f[v] = g[v]}
<1>1. ASSUME NEW v \in Values, Parts(v) \subseteq Good PROVE v \in Good
  <2>1. SUFFICES ASSUME v \in Below(n) PROVE f[v] = g[v]
    OBVIOUS
  <2>2. \A w \in Parts(v) : f[w] = g[w]
    BY <1>1, <2>1, PartsAreValues DEF Below
  <2>3. v \in Below(m)
    BY <2>1, ValuesAssumption DEF Below
  <2>4. QED
    BY <2>1, <2>2, <2>3, SurvivesOfParts DEF SurvivesBelow
<1>2. Values \subseteq Good
  BY <1>1, Induction
<1>3. QED
  BY <1>2 DEF Below

LEMMA SurvivesExists == \A n \in Nat : \E f : SurvivesBelow(n, f)
<1> SUFFICES ASSUME NEW b \in Nat, ~ \E f : SurvivesBelow(b, f) PROVE FALSE
  OBVIOUS
<1> DEFINE T == {n \in Nat : ~ \E f : SurvivesBelow(n, f)}
<1>1. PICK n \in T : \A m \in T : n <= m
  BY LeastOf
<1>2. n # 0
  BY ValuesAssumption DEF SurvivesBelow, Below
<1>3. n - 1 \in Nat /\ n - 1 \notin T
  BY <1>1, <1>2
<1>4. PICK f : SurvivesBelow(n - 1, f)
  BY <1>3
<1> DEFINE g == [v \in Below(n) |-> SurvivesIf(v, f)]
<1>5. \A v \in Below(n - 1) : g[v] = f[v]
  BY <1>3, <1>4, ValuesAssumption DEF SurvivesBelow, Below
<1>6. \A v \in Below(n) : \A w \in Parts(v) : f[w] = g[w]
  BY <1>5, PartsAreValues DEF Below
<1>7. SurvivesBelow(n, g)
  <2>1. \A v \in Below(n) : SurvivesIf(v, f) = SurvivesIf(v, g)
    BY <1>6, SurvivesOfParts DEF Below
  <2>2. QED
    BY <2>1 DEF SurvivesBelow
<1>8. QED
  BY <1>1, <1>7

LEMMA SurvivesIs == \A v \in Values : Survives[v] = SurvivesIf(v, Survives)
<1> DEFINE F == [v \in Values |-> (CHOOSE f : SurvivesBelow(Depth[v] + 1, f))[v]]
<1>1. ASSUME NEW n \in Nat, NEW f, SurvivesBelow(n, f), NEW v \in Below(n)
      PROVE  F[v] = f[v]
  <2>1. v \in Values /\ Depth[v] \in Nat /\ Depth[v] + 1 \in Nat /\ Depth[v] + 1 <= n
    BY <1>1, ValuesAssumption DEF Below
  <2> DEFINE h == CHOOSE g : SurvivesBelow(Depth[v] + 1, g)
  <2>2. SurvivesBelow(Depth[v] + 1, h)
    BY <2>1, SurvivesExists
  <2>3. v \in Below(Depth[v] + 1)
    BY <2>1 DEF Below
  <2>4. h[v] = f[v]
    <3> HIDE DEF h
    <3>1. QED
      BY <1>1, <2>1, <2>2, <2>3, SurvivesAgrees
  <2>5. QED
    BY <2>1, <2>4
<1>2. ASSUME NEW v \in Values PROVE F[v] = SurvivesIf(v, F)
  <2>1. Depth[v] + 1 \in Nat /\ v \in Below(Depth[v] + 1)
    BY ValuesAssumption DEF Below
  <2>2. PICK f : SurvivesBelow(Depth[v] + 1, f)
    BY <2>1, SurvivesExists
  <2>3. F[v] = f[v] /\ f[v] = SurvivesIf(v, f)
    BY <1>1, <2>1, <2>2 DEF SurvivesBelow
  <2>4. \A w \in Parts(v) : F[w] = f[w]
    <3>1. \A w \in Parts(v) : w \in Below(Depth[v] + 1)
      BY <2>1, PartsAreValues DEF Below
    <3>2. QED
      BY <1>1, <2>1, <2>2, <3>1
  <2>5. QED
    <3> HIDE DEF F
    <3>1. QED
      BY <2>3, <2>4, SurvivesOfParts
<1>3. F = [v \in Values |-> SurvivesIf(v, F)]
  <2>1. DOMAIN F = Values /\ F = [v \in Values |-> F[v]]
    OBVIOUS
  <2> HIDE DEF F
  <2>2. QED
    BY <1>2, <2>1
<1>4. Survives = [v \in Values |-> SurvivesIf(v, Survives)]
  <2> HIDE DEF F
  <2>1. \E f : f = [v \in Values |-> SurvivesIf(v, f)]
    BY <1>3
  <2>2. QED
    BY <2>1, Zenon DEF Survives
<1>5. QED
  BY <1>4, Zenon

----------------------------------------------------------------------------
(* FromLua satisfies its equation for what ToLua makes: a table's fields   *)
(* are made of the parts of what the table was made of.                    *)
LEMMA FlatKinds ==
  ASSUME NEW v \in Values
  PROVE  /\ v.t = "null" => ToLua[v] = Nil /\ ToLua[v].t = "nil"
         /\ v.t = "atom" => ToLua[v] = v /\ ToLua[v].t = "atom"
<1>1. v.t = "null" => LuaOf(v, ToLua) = Nil
  BY Zenon DEF LuaOf
<1>2. v.t = "atom" => LuaOf(v, ToLua) = v
  BY Zenon DEF LuaOf
<1>3. QED
  BY <1>1, <1>2, ToLuaIs DEF Nil

LEMMA FieldsAreParts ==
  ASSUME NEW v \in Values, ToLua[v].t = "table", NEW k \in DOMAIN ToLua[v].f
  PROVE  \E w \in Parts(v) : ToLua[v].f[k] = ToLua[w]
<1>1. CASE v.t = "arr"
  <2> DEFINE some == {i \in DOMAIN v.s : v.s[i] # Null}
             f == [j \in {Num(i) : i \in some} |-> ToLua[v.s[j.n]]]
  <2>1. ToLua[v] = Table(f)
    <3>1. LuaOf(v, ToLua) = Table(f)
      BY <1>1, Zenon DEF LuaOf
    <3>2. QED
      BY <3>1, ToLuaIs
  <2>2. ToLua[v].f = f
    BY <2>1 DEF Table
  <2>3. PICK i \in some : k = Num(i)
    BY <2>2
  <2>4. f[k] = ToLua[v.s[i]]
    BY <2>3 DEF Num
  <2>5. v.s[i] \in Parts(v)
    BY <1>1 DEF Parts
  <2>6. QED
    BY <2>2, <2>4, <2>5
<1>2. CASE v.t = "obj"
  <2> DEFINE some == {x \in DOMAIN v.f : v.f[x] # Null}
             f == [j \in {Str(x) : x \in some} |-> ToLua[v.f[j.s]]]
  <2>1. ToLua[v] = Table(f)
    <3>1. LuaOf(v, ToLua) = Table(f)
      BY <1>2, Zenon DEF LuaOf
    <3>2. QED
      BY <3>1, ToLuaIs
  <2>2. ToLua[v].f = f
    BY <2>1 DEF Table
  <2>3. PICK x \in some : k = Str(x)
    BY <2>2
  <2>4. f[k] = ToLua[v.f[x]]
    BY <2>3 DEF Str
  <2>5. v.f[x] \in Parts(v)
    BY <1>2 DEF Parts
  <2>6. QED
    BY <2>2, <2>4, <2>5
<1>3. CASE v.t \in {"null", "atom"}
  BY <1>3, FlatKinds
<1>4. QED
  BY <1>1, <1>2, <1>3, Shapes

LuaKinds == {"nil", "atom", "table"}

LEMMA KindOf == \A v \in Values : ToLua[v].t \in LuaKinds
<1> SUFFICES ASSUME NEW v \in Values PROVE ToLua[v].t \in LuaKinds
  OBVIOUS
<1>1. v.t = "arr" => \E f : LuaOf(v, ToLua) = Table(f)
  BY Zenon DEF LuaOf
<1>2. v.t = "obj" => \E f : LuaOf(v, ToLua) = Table(f)
  BY Zenon DEF LuaOf
<1>3. \A f : Table(f).t = "table"
  BY DEF Table
<1>4. v.t \in {"arr", "obj"} => ToLua[v].t = "table"
  <2>1. ToLua[v] = LuaOf(v, ToLua)
    BY ToLuaIs
  <2>2. QED
    BY <1>1, <1>2, <1>3, <2>1
<1>5. v.t \in {"null", "atom", "arr", "obj"}
  BY ValuesAssumption
<1>6. QED
  BY <1>4, <1>5, FlatKinds DEF LuaKinds

GoBelow(n, g) == \A v \in Below(n) : g[ToLua[v]] = GolangOf(ToLua[v], g)

(* What a table's conversion depends on.                                   *)
LEMMA GolangOfFields ==
  ASSUME NEW l, l.t \in LuaKinds, NEW f, NEW g,
         l.t = "table" => \A k \in DOMAIN l.f : f[l.f[k]] = g[l.f[k]]
  PROVE  GolangOf(l, f) = GolangOf(l, g)
<1>1. CASE l.t = "table" /\ IsArray(l.f)
  <2>1. /\ GolangOf(l, f) = Arr([i \in 1..MaxIdx(l.f) |->
                       IF Index(l.f, i) \in DOMAIN l.f
                       THEN f[l.f[Index(l.f, i)]] ELSE Null])
        /\ GolangOf(l, g) = Arr([i \in 1..MaxIdx(l.f) |->
                       IF Index(l.f, i) \in DOMAIN l.f
                       THEN g[l.f[Index(l.f, i)]] ELSE Null])
    BY <1>1, Zenon DEF GolangOf
  <2>2. QED
    BY <1>1, <2>1
<1>2. CASE l.t = "table" /\ ~IsArray(l.f)
  <2> DEFINE Names == {KeyString(k) : k \in DOMAIN l.f}
             Key(x) == CHOOSE k \in DOMAIN l.f : KeyString(k) = x
  <2>1. /\ GolangOf(l, f) = Obj([x \in Names |-> f[l.f[Key(x)]]])
        /\ GolangOf(l, g) = Obj([x \in Names |-> g[l.f[Key(x)]]])
    BY <1>2, Zenon DEF GolangOf
  <2>2. \A x \in Names : Key(x) \in DOMAIN l.f
    OBVIOUS
  <2> HIDE DEF Names, Key
  <2>3. QED
    BY <1>2, <2>1, <2>2
<1>3. CASE l.t \in {"nil", "atom"}
  BY <1>3, Zenon DEF GolangOf
<1>4. QED
  BY <1>1, <1>2, <1>3 DEF LuaKinds

LEMMA GolangOfParts ==
  ASSUME NEW v \in Values, NEW f, NEW g, \A w \in Parts(v) : f[ToLua[w]] = g[ToLua[w]]
  PROVE  GolangOf(ToLua[v], f) = GolangOf(ToLua[v], g)
<1>1. ToLua[v].t = "table" =>
        \A k \in DOMAIN ToLua[v].f : f[ToLua[v].f[k]] = g[ToLua[v].f[k]]
  BY FieldsAreParts
<1>2. QED
  BY <1>1, KindOf, GolangOfFields

LEMMA GoAgrees ==
  ASSUME NEW n \in Nat, NEW m \in Nat, n <= m,
         NEW f, NEW g, GoBelow(n, f), GoBelow(m, g)
  PROVE  \A v \in Below(n) : f[ToLua[v]] = g[ToLua[v]]
<1> DEFINE Good == {v \in Values : v \in Below(n) => f[ToLua[v]] = g[ToLua[v]]}
<1>1. ASSUME NEW v \in Values, Parts(v) \subseteq Good PROVE v \in Good
  <2>1. SUFFICES ASSUME v \in Below(n) PROVE f[ToLua[v]] = g[ToLua[v]]
    OBVIOUS
  <2>2. \A w \in Parts(v) : f[ToLua[w]] = g[ToLua[w]]
    BY <1>1, <2>1, PartsAreValues DEF Below
  <2>3. v \in Below(m)
    BY <2>1, ValuesAssumption DEF Below
  <2>4. QED
    BY <2>1, <2>2, <2>3, GolangOfParts DEF GoBelow
<1>2. Values \subseteq Good
  BY <1>1, Induction
<1>3. QED
  BY <1>2 DEF Below

LEMMA GoExists == \A n \in Nat : \E f : GoBelow(n, f)
<1> SUFFICES ASSUME NEW b \in Nat, ~ \E f : GoBelow(b, f) PROVE FALSE
  OBVIOUS
<1> DEFINE T == {n \in Nat : ~ \E f : GoBelow(n, f)}
<1>1. PICK n \in T : \A m \in T : n <= m
  BY LeastOf
<1>2. n # 0
  BY ValuesAssumption DEF GoBelow, Below
<1>3. n - 1 \in Nat /\ n - 1 \notin T
  BY <1>1, <1>2
<1>4. PICK f : GoBelow(n - 1, f)
  BY <1>3
<1> DEFINE g == [l \in {ToLua[v] : v \in Below(n)} |-> GolangOf(l, f)]
<1>5. \A v \in Below(n - 1) : g[ToLua[v]] = f[ToLua[v]]
  BY SMTT(30), <1>3, <1>4, ValuesAssumption DEF GoBelow, Below
<1>6. \A v \in Below(n) : \A w \in Parts(v) : f[ToLua[w]] = g[ToLua[w]]
  BY <1>5, PartsAreValues DEF Below
<1>7. GoBelow(n, g)
  <2>1. \A v \in Below(n) : GolangOf(ToLua[v], f) = GolangOf(ToLua[v], g)
    BY ZenonT(60), <1>6, GolangOfParts DEF Below
  <2>2. QED
    BY <2>1 DEF GoBelow
<1>8. QED
  BY <1>1, <1>7

LEMMA FromLuaIs == \A v \in Values : FromLua[ToLua[v]] = GolangOf(ToLua[v], FromLua)
<1> DEFINE Source(l) == CHOOSE v \in Values : ToLua[v] = l
           H(l) == CHOOSE f : GoBelow(Depth[Source(l)] + 1, f)
           F == [l \in LuaValues |-> H(l)[l]]
<1>1. ASSUME NEW n \in Nat, NEW f, GoBelow(n, f), NEW v \in Below(n)
      PROVE  F[ToLua[v]] = f[ToLua[v]]
  <2> DEFINE u == Source(ToLua[v])
             h == H(ToLua[v])
  <2>1. v \in Values /\ u \in Values /\ ToLua[u] = ToLua[v]
    BY DEF Below
  <2>2. Depth[u] \in Nat /\ Depth[u] + 1 \in Nat /\ u \in Below(Depth[u] + 1)
    <3> HIDE DEF u
    <3>1. QED
      BY <2>1, ValuesAssumption DEF Below
  <2>3. GoBelow(Depth[u] + 1, h)
    BY <2>2, GoExists
  <2>4. F[ToLua[v]] = h[ToLua[v]]
    BY <2>1 DEF LuaValues
  <2>5. h[ToLua[v]] = f[ToLua[v]]
    <3> HIDE DEF h, u
    <3>1. CASE n <= Depth[u] + 1
      BY <1>1, <2>2, <2>3, <3>1, GoAgrees
    <3>2. CASE Depth[u] + 1 <= n
      <4>1. h[ToLua[u]] = f[ToLua[u]]
        BY <1>1, <2>2, <2>3, <3>2, GoAgrees
      <4>2. QED
        BY <2>1, <4>1
    <3>3. QED
      BY <2>2, <3>1, <3>2
  <2>6. QED
    BY <2>4, <2>5
<1>2. ASSUME NEW v \in Values PROVE F[ToLua[v]] = GolangOf(ToLua[v], F)
  <2> HIDE DEF F
  <2>1. Depth[v] + 1 \in Nat /\ v \in Below(Depth[v] + 1)
    BY ValuesAssumption DEF Below
  <2>2. PICK f : GoBelow(Depth[v] + 1, f)
    BY <2>1, GoExists
  <2>3. F[ToLua[v]] = f[ToLua[v]] /\ f[ToLua[v]] = GolangOf(ToLua[v], f)
    BY <1>1, <2>1, <2>2 DEF GoBelow
  <2>4. \A w \in Parts(v) : F[ToLua[w]] = f[ToLua[w]]
    <3>1. \A w \in Parts(v) : w \in Below(Depth[v] + 1)
      BY <2>1, PartsAreValues DEF Below
    <3>2. QED
      BY <1>1, <2>1, <2>2, <3>1
  <2>5. QED
    BY <2>3, <2>4, GolangOfParts
<1>3. F = [l \in LuaValues |-> GolangOf(l, F)]
  <2>1. F = [l \in LuaValues |-> F[l]]
    OBVIOUS
  <2> HIDE DEF F
  <2>2. \A l \in LuaValues : F[l] = GolangOf(l, F)
    BY <1>2 DEF LuaValues
  <2>3. QED
    BY <2>1, <2>2
<1>4. FromLua = [l \in LuaValues |-> GolangOf(l, FromLua)]
  <2> HIDE DEF F
  <2>1. \E f : f = [l \in LuaValues |-> GolangOf(l, f)]
    BY <1>3
  <2>2. QED
    BY <2>1, Zenon DEF FromLua
<1>5. \A v \in Values : ToLua[v] \in LuaValues
  BY DEF LuaValues
<1>6. QED
  BY <1>4, <1>5, Zenon

----------------------------------------------------------------------------
(* Keys, and the numbers and strings they stand for.                       *)
NumKeys == [i \in DOMAIN Itoa |-> Num(i)]
StrKeys == [i \in DOMAIN Itoa |-> Str(Itoa[i])]

LEMMA Spellings ==
  /\ \A i \in DOMAIN Itoa : Itoa[i] \in Strings /\ Atoi[Itoa[i]] = i /\ i \in Nat /\ i >= 1
  /\ \A i, j \in DOMAIN Itoa : Itoa[i] = Itoa[j] => i = j
  /\ \A x \in Strings : Atoi[x] \in Nat
<1>1. /\ Itoa \in Seq(Strings) /\ Atoi \in [Strings -> Nat]
      /\ \A i \in DOMAIN Itoa : Atoi[Itoa[i]] = i
  BY TypesAssumption
<1>2. QED
  BY <1>1

LEMMA NumberKeys ==
  ASSUME NEW i \in DOMAIN Itoa
  PROVE  IsNumber(Num(i)) /\ KeyNumber(Num(i)) = i /\ KeyString(Num(i)) = Itoa[i]
  BY DEF IsNumber, KeyNumber, KeyString, Num

LEMMA StringKeys ==
  ASSUME NEW x
  PROVE  ~IsNumber(Str(x)) /\ KeyNumber(Str(x)) = Atoi[x] /\ KeyString(Str(x)) = x
<1>1. Str(x).s = x /\ \A i : Str(x) # Num(i)
  BY DEF Str, Num
<1>2. ~IsNumber(Str(x))
  BY <1>1 DEF IsNumber
<1>3. QED
  BY <1>1, <1>2 DEF KeyNumber, KeyString

LEMMA ArrayKeys ==
  ASSUME NEW K, K = NumKeys \/ K = StrKeys
  PROVE  /\ \A i \in DOMAIN Itoa : KeyNumber(K[i]) = i /\ KeyString(K[i]) = Itoa[i]
         /\ \A i, j \in DOMAIN Itoa : K[i] = K[j] => i = j
         /\ \A i \in DOMAIN Itoa : IsNumber(K[i]) <=> K = NumKeys
<1>1. CASE K = NumKeys
  BY <1>1, NumberKeys DEF NumKeys, Num
<1>2. CASE K = StrKeys /\ K # NumKeys
  BY <1>2, StringKeys, Spellings DEF StrKeys
<1>3. QED
  BY <1>1, <1>2

LEMMA GreatestOf ==
  ASSUME NEW n \in Nat, NEW I, I \subseteq 1..n
  PROVE  \E m \in 0..n : (m = 0 \/ m \in I) /\ \A i \in I : i <= m
<1>1. CASE I = {}
  BY <1>1
<1>2. CASE I # {}
  <2> DEFINE T == {n - i : i \in I}
  <2>0. T \subseteq Nat /\ T # {}
    <3>1. \A i \in I : i \in 1..n
      OBVIOUS
    <3>2. \A i \in I : n - i \in Nat
      BY <3>1
    <3>3. QED
      BY <1>2, <3>2
  <2>1. PICK x \in T : \A y \in T : x <= y
    <3> HIDE DEF T
    <3>1. QED
      BY <2>0, LeastOf
  <2>2. PICK m \in I : x = n - m
    OBVIOUS
  <2>3. \A i \in I : i <= m
    BY SMTT(30), <2>1, <2>2
  <2>4. QED
    BY <2>3
<1>3. QED
  BY <1>1, <1>2

KeysAt(K, I) == {K[i] : i \in I}
Elements(f, K, I, m, conv) == [i \in 1..m |-> IF i \in I THEN conv[f[K[i]]] ELSE Null]

(* A table whose keys are numbers, or are strings that all spell numbers,  *)
(* becomes an array that has each element at its place.                    *)
LEMMA ArrayBack ==
  ASSUME NEW K, K = NumKeys \/ K = StrKeys,
         NEW I, I \subseteq DOMAIN Itoa,
         NEW f, DOMAIN f = KeysAt(K, I),
         NEW m \in Nat, m = 0 \/ m \in I, \A i \in I : i <= m,
         NEW conv
  PROVE  GolangOf(Table(f), conv) = Arr(Elements(f, K, I, m, conv))
<1> USE DEF KeysAt
<1>1. {KeyNumber(k) : k \in DOMAIN f} = I
  BY ArrayKeys
<1>2. IsArray(f)
  <2>1. \A k \in DOMAIN f : KeyNumber(k) \in I
    BY <1>1
  <2>2. QED
    BY <2>1, Spellings DEF IsArray
<1>3. MaxIdx(f) = m
  <2>1. \A i \in I : i \in Nat /\ i >= 1
    BY Spellings
  <2>2. \A y \in {0} \cup I : m >= y
    BY <2>1
  <2>3. m \in {0} \cup I
    OBVIOUS
  <2>4. \A x \in {0} \cup I : (\A y \in {0} \cup I : x >= y) => x = m
    BY <2>1, <2>2, <2>3
  <2>5. Max({0} \cup I) = m
    BY <2>2, <2>3, <2>4 DEF Max
  <2>6. QED
    BY <1>1, <2>5 DEF MaxIdx
<1>4. ASSUME NEW i \in 1..m
      PROVE  Index(f, i) = K[i] /\ (K[i] \in DOMAIN f <=> i \in I)
  <2>1. m \in I /\ m \in DOMAIN Itoa /\ i \in DOMAIN Itoa
    <3>1. m \in I /\ m \in DOMAIN Itoa
      BY <1>4
    <3>2. DOMAIN Itoa = 1..Len(Itoa) /\ Len(Itoa) \in Nat
      BY TypesAssumption
    <3>3. QED
      BY <3>1, <3>2
  <2>2. (\E k \in DOMAIN f : IsNumber(k)) <=> K = NumKeys
    BY <2>1, ArrayKeys
  <2>3. Index(f, i) = K[i]
    <3>1. CASE K = NumKeys
      BY <2>1, <2>2, <3>1 DEF Index, NumKeys
    <3>2. CASE K = StrKeys /\ K # NumKeys
      BY <2>1, <2>2, <3>2 DEF Index, StrKeys
    <3>3. QED
      BY <3>1, <3>2
  <2>4. K[i] \in DOMAIN f <=> i \in I
    BY <2>1, ArrayKeys
  <2>5. QED
    BY <2>3, <2>4
<1>5. GolangOf(Table(f), conv) =
        Arr([i \in 1..m |-> IF Index(f, i) \in DOMAIN f
                            THEN conv[f[Index(f, i)]] ELSE Null])
  <2> DEFINE l == Table(f)
  <2>1. l.t = "table" /\ l.f = f
    BY DEF Table
  <2> HIDE DEF l
  <2>2. IsArray(l.f)
    BY <1>2, <2>1
  <2>3. GolangOf(l, conv) =
          Arr([i \in 1..MaxIdx(l.f) |-> IF Index(l.f, i) \in DOMAIN l.f
                                         THEN conv[l.f[Index(l.f, i)]] ELSE Null])
    BY <2>1, <2>2, Zenon DEF GolangOf
  <2>4. QED
    BY <1>3, <2>1, <2>3 DEF l
<1>6. QED
  BY <1>4, <1>5 DEF Elements

(* A table of string keys, one of which spells no number, becomes an       *)
(* object of the same keys.                                                *)
LEMMA ObjectBack ==
  ASSUME NEW X, NEW f, DOMAIN f = {Str(x) : x \in X}, NEW conv,
         \E x \in X : ~(Atoi[x] >= 1)
  PROVE  GolangOf(Table(f), conv) = Obj([x \in X |-> conv[f[Str(x)]]])
<1>1. ~IsArray(f)
  BY StringKeys DEF IsArray
<1>2. Table(f).t = "table" /\ Table(f).f = f
  BY DEF Table
<1>3. {KeyString(k) : k \in DOMAIN f} = X
  BY StringKeys
<1>4. ASSUME NEW x \in X
      PROVE  (CHOOSE k \in DOMAIN f : KeyString(k) = x) = Str(x)
  <2>1. Str(x) \in DOMAIN f /\ KeyString(Str(x)) = x
    BY StringKeys
  <2>2. \A k \in DOMAIN f : KeyString(k) = x => k = Str(x)
    BY StringKeys
  <2>3. QED
    BY <2>1, <2>2
<1>5. GolangOf(Table(f), conv) =
        Obj([x \in {KeyString(k) : k \in DOMAIN f} |->
               conv[f[CHOOSE k \in DOMAIN f : KeyString(k) = x]]])
  <2>1. GolangOf(Table(f), conv) =
        Obj([x \in {KeyString(k) : k \in DOMAIN Table(f).f} |->
               conv[Table(f).f[CHOOSE k \in DOMAIN Table(f).f : KeyString(k) = x]]])
    BY <1>1, <1>2, Zenon DEF GolangOf
  <2>2. QED
    BY <1>2, <2>1
<1>6. QED
  BY <1>3, <1>4, <1>5

LEMMA ArrayOfStrings ==
  ASSUME NEW X, NEW f, DOMAIN f = {Str(x) : x \in X}, NEW conv,
         \A x \in X : Atoi[x] >= 1
  PROVE  GolangOf(Table(f), conv).t = "arr"
<1>1. IsArray(f)
  BY StringKeys DEF IsArray
<1>2. Table(f).t = "table" /\ Table(f).f = f
  BY DEF Table
<1>3. \E s : GolangOf(Table(f), conv) = Arr(s)
  BY <1>1, <1>2, Zenon DEF GolangOf
<1>4. QED
  BY <1>3 DEF Arr

----------------------------------------------------------------------------
(* What becomes of a value, from what becomes of its parts.                *)
Echo(v) == FromLua[ToLua[v]]
Kept(v) == {i \in DOMAIN v.s : v.s[i] # Null}
Named(v) == {x \in DOMAIN v.f : v.f[x] # Null}
EchoedTo(v, m) ==
  Arr([i \in 1..m |-> IF i \in Kept(v) THEN Echo(v.s[i]) ELSE Null])
LastOf(m, I) == m \in Nat /\ (m = 0 \/ m \in I) /\ \A i \in I : i <= m

LEMMA KeptPlaces ==
  ASSUME NEW v \in Values, v.t = "arr"
  PROVE  /\ Kept(v) \subseteq 1..Len(v.s) /\ Kept(v) \subseteq DOMAIN Itoa
         /\ \E m : m <= Len(v.s) /\ LastOf(m, Kept(v))
<1>1. DOMAIN v.s = 1..Len(v.s) /\ Len(v.s) \in Nat /\ Len(v.s) <= Len(Itoa)
  BY Shapes
<1>2. DOMAIN Itoa = 1..Len(Itoa) /\ Len(Itoa) \in Nat
  BY TypesAssumption
<1>3. Kept(v) \subseteq 1..Len(v.s)
  BY <1>1 DEF Kept
<1>4. Kept(v) \subseteq DOMAIN Itoa
  BY <1>1, <1>2, <1>3
<1>5. PICK m \in 0..Len(v.s) : (m = 0 \/ m \in Kept(v)) /\ \A i \in Kept(v) : i <= m
  BY <1>1, <1>3, GreatestOf
<1>6. QED
  BY <1>1, <1>3, <1>4, <1>5 DEF LastOf

LEMMA ArrayTable ==
  ASSUME NEW v \in Values, v.t = "arr"
  PROVE  \E f : /\ ToLua[v] = Table(f)
                /\ DOMAIN f = KeysAt(NumKeys, Kept(v))
                /\ \A i \in Kept(v) : f[NumKeys[i]] = ToLua[v.s[i]]
<1> DEFINE f == [k \in {Num(i) : i \in Kept(v)} |-> ToLua[v.s[k.n]]]
<1>1. LuaOf(v, ToLua) = Table(f)
  BY Zenon DEF LuaOf, Kept
<1>2. ToLua[v] = Table(f)
  BY <1>1, ToLuaIs
<1>3. \A i \in Kept(v) : NumKeys[i] = Num(i) /\ Num(i).n = i
  BY KeptPlaces DEF NumKeys, Num
<1>4. DOMAIN f = KeysAt(NumKeys, Kept(v))
  BY <1>3 DEF KeysAt
<1>5. \A i \in Kept(v) : f[Num(i)] = ToLua[v.s[i]]
  BY <1>3
<1>6. QED
  <2> HIDE DEF f
  <2>1. QED
    BY <1>2, <1>3, <1>4, <1>5

LEMMA ObjectTable ==
  ASSUME NEW v \in Values, v.t = "obj"
  PROVE  \E f : /\ ToLua[v] = Table(f)
                /\ f = [k \in DOMAIN f |-> f[k]]
                /\ DOMAIN f = {Str(x) : x \in Named(v)}
                /\ \A x \in Named(v) : f[Str(x)] = ToLua[v.f[x]]
<1> DEFINE f == [k \in {Str(x) : x \in Named(v)} |-> ToLua[v.f[k.s]]]
<1>1. LuaOf(v, ToLua) = Table(f)
  BY Zenon DEF LuaOf, Named
<1>2. ToLua[v] = Table(f)
  BY <1>1, ToLuaIs
<1>3. \A x \in Named(v) : f[Str(x)] = ToLua[v.f[x]]
  <2>1. \A x : Str(x).s = x
    BY DEF Str
  <2>2. QED
    BY <2>1
<1>4. f = [k \in DOMAIN f |-> f[k]] /\ DOMAIN f = {Str(x) : x \in Named(v)}
  OBVIOUS
<1>5. QED
  <2> HIDE DEF f
  <2>1. QED
    BY <1>2, <1>3, <1>4

LEMMA ArrayReply ==
  ASSUME NEW v \in Values, v.t = "arr",
         NEW K, K = NumKeys \/ K = StrKeys,
         NEW f, DOMAIN f = KeysAt(K, Kept(v)),
         \A i \in Kept(v) : f[K[i]] = ToLua[v.s[i]],
         NEW m, LastOf(m, Kept(v))
  PROVE  GolangOf(Table(f), FromLua) = EchoedTo(v, m)
<1>1. GolangOf(Table(f), FromLua) =
        Arr([i \in 1..m |-> IF i \in Kept(v) THEN FromLua[f[K[i]]] ELSE Null])
  <2>1. m \in Nat /\ (m = 0 \/ m \in Kept(v)) /\ \A i \in Kept(v) : i <= m
    BY DEF LastOf
  <2>2. GolangOf(Table(f), FromLua) = Arr(Elements(f, K, Kept(v), m, FromLua))
    BY <2>1, KeptPlaces, ArrayBack
  <2>3. QED
    BY <2>2 DEF Elements
<1>2. QED
  BY <1>1 DEF EchoedTo, Echo

LEMMA ArrayEcho ==
  ASSUME NEW v \in Values, v.t = "arr", NEW m, LastOf(m, Kept(v))
  PROVE  Echo(v) = EchoedTo(v, m)
<1>1. PICK f : /\ ToLua[v] = Table(f)
               /\ DOMAIN f = KeysAt(NumKeys, Kept(v))
               /\ \A i \in Kept(v) : f[NumKeys[i]] = ToLua[v.s[i]]
  BY ArrayTable
<1>2. GolangOf(Table(f), FromLua) = EchoedTo(v, m)
  BY <1>1, ArrayReply
<1>3. QED
  BY <1>1, <1>2, FromLuaIs DEF Echo

LEMMA ObjectEcho ==
  ASSUME NEW v \in Values, v.t = "obj"
  PROVE  IF \E x \in Named(v) : ~(Atoi[x] >= 1)
         THEN Echo(v) = Obj([x \in Named(v) |-> Echo(v.f[x])])
         ELSE Echo(v).t = "arr"
<1>1. PICK f : /\ ToLua[v] = Table(f)
               /\ DOMAIN f = {Str(x) : x \in Named(v)}
               /\ \A x \in Named(v) : f[Str(x)] = ToLua[v.f[x]]
  BY ObjectTable
<1>2. Echo(v) = GolangOf(Table(f), FromLua)
  BY <1>1, FromLuaIs DEF Echo
<1>3. CASE \E x \in Named(v) : ~(Atoi[x] >= 1)
  <2>1. GolangOf(Table(f), FromLua) = Obj([x \in Named(v) |-> FromLua[f[Str(x)]]])
    BY <1>1, <1>3, ObjectBack
  <2>2. QED
    BY <1>1, <1>2, <1>3, <2>1 DEF Echo
<1>4. CASE ~ \E x \in Named(v) : ~(Atoi[x] >= 1)
  <2>1. GolangOf(Table(f), FromLua).t = "arr"
    BY <1>1, <1>4, ArrayOfStrings
  <2>2. QED
    BY <1>2, <1>4, <2>1
<1>5. QED
  BY <1>3, <1>4

----------------------------------------------------------------------------
(* A value comes back as it was if and only if it survives: by induction.  *)
LEMMA SurvivesShapes ==
  ASSUME NEW v \in Values
  PROVE  /\ v.t \in {"null", "atom"} => Survives[v]
         /\ v.t = "arr" => (Survives[v] <=>
                              /\ \A i \in DOMAIN v.s : Survives[v.s[i]]
                              /\ v.s # <<>> => v.s[Len(v.s)] # Null)
         /\ v.t = "obj" => (Survives[v] <=>
                              /\ \A x \in DOMAIN v.f : v.f[x] # Null /\ Survives[v.f[x]]
                              /\ \E x \in DOMAIN v.f : Atoi[x] < 1)
<1>1. v.t \in {"null", "atom"} => SurvivesIf(v, Survives)
  BY Zenon DEF SurvivesIf
<1>2. v.t = "arr" => (SurvivesIf(v, Survives) <=>
                        /\ \A i \in DOMAIN v.s : Survives[v.s[i]]
                        /\ v.s # <<>> => v.s[Len(v.s)] # Null)
  BY Zenon DEF SurvivesIf
<1>3. v.t = "obj" => (SurvivesIf(v, Survives) <=>
                        /\ \A x \in DOMAIN v.f : v.f[x] # Null /\ Survives[v.f[x]]
                        /\ \E x \in DOMAIN v.f : Atoi[x] < 1)
  BY Zenon DEF SurvivesIf
<1>4. Survives[v] <=> SurvivesIf(v, Survives)
  BY SurvivesIs
<1>5. QED
  <2>1. v.t \in {"null", "atom"} => Survives[v]
    BY <1>1, <1>4, Zenon
  <2>2. v.t = "arr" => (Survives[v] <=>
                          /\ \A i \in DOMAIN v.s : Survives[v.s[i]]
                          /\ v.s # <<>> => v.s[Len(v.s)] # Null)
    BY <1>2, <1>4, Zenon
  <2>3. v.t = "obj" => (Survives[v] <=>
                          /\ \A x \in DOMAIN v.f : v.f[x] # Null /\ Survives[v.f[x]]
                          /\ \E x \in DOMAIN v.f : Atoi[x] < 1)
    BY <1>3, <1>4, Zenon
  <2>4. QED
    BY <2>1, <2>2, <2>3, Zenon

LEMMA FlatEcho ==
  ASSUME NEW v \in Values, v.t \in {"null", "atom"}
  PROVE  Echo(v) = v /\ Survives[v]
<1>1. CASE v.t = "null"
  <2>1. ToLua[v].t = "nil" /\ v = Null
    BY <1>1, FlatKinds, Shapes
  <2>2. GolangOf(ToLua[v], FromLua) = Null
    BY <2>1, Zenon DEF GolangOf
  <2>3. QED
    BY <2>1, <2>2, FromLuaIs, SurvivesShapes DEF Echo
<1>2. CASE v.t = "atom"
  <2>1. ToLua[v].t = "atom" /\ ToLua[v] = v
    BY <1>2, FlatKinds
  <2>2. GolangOf(ToLua[v], FromLua) = ToLua[v]
    BY <2>1, Zenon DEF GolangOf
  <2>3. QED
    BY <2>1, <2>2, FromLuaIs, SurvivesShapes DEF Echo
<1>3. QED
  BY <1>1, <1>2

(* The elements of an array that comes back, each at its place.            *)
LEMMA ElementsEcho ==
  ASSUME NEW v \in Values, v.t = "arr",
         \A w \in Parts(v) : Echo(w) = w <=> Survives[w],
         NEW m, LastOf(m, Kept(v)), m <= Len(v.s), NEW i \in DOMAIN v.s
  PROVE  (IF i \in Kept(v) THEN Echo(v.s[i]) ELSE Null) = v.s[i] <=> Survives[v.s[i]]
<1>1. v.s[i] \in Parts(v) /\ v.s[i] \in Values
  BY Shapes DEF Parts
<1>2. CASE i \in Kept(v)
  BY <1>1, <1>2
<1>3. CASE i \notin Kept(v)
  <2>1. v.s[i] = Null
    BY <1>3 DEF Kept
  <2>2. v.s[i].t = "null"
    BY <2>1 DEF Null
  <2>3. QED
    BY <1>1, <1>3, <2>1, <2>2, FlatEcho
<1>4. QED
  BY <1>2, <1>3

LEMMA ArraySurvives ==
  ASSUME NEW v \in Values, v.t = "arr",
         \A w \in Parts(v) : Echo(w) = w <=> Survives[w]
  PROVE  Echo(v) = v <=> Survives[v]
<1>1. PICK m : m <= Len(v.s) /\ LastOf(m, Kept(v))
  BY KeptPlaces
<1> DEFINE back == [i \in 1..m |-> IF i \in Kept(v) THEN Echo(v.s[i]) ELSE Null]
<1>2. Echo(v) = Arr(back)
  BY <1>1, ArrayEcho DEF EchoedTo
<1>3. v = Arr(v.s) /\ DOMAIN v.s = 1..Len(v.s) /\ Len(v.s) \in Nat
      /\ v.s = [i \in DOMAIN v.s |-> v.s[i]]
  BY Shapes
<1>4. m \in Nat /\ (m = 0 \/ m \in Kept(v)) /\ \A i \in Kept(v) : i <= m
  BY <1>1 DEF LastOf
<1>5. Echo(v) = v <=> back = v.s
  BY <1>2, <1>3 DEF Arr
<1>6. \A i \in DOMAIN v.s :
        (IF i \in Kept(v) THEN Echo(v.s[i]) ELSE Null) = v.s[i] <=> Survives[v.s[i]]
  BY <1>1, ElementsEcho
<1>7. ASSUME Survives[v] PROVE back = v.s
  <2>1. /\ \A i \in DOMAIN v.s : Survives[v.s[i]]
        /\ v.s # <<>> => v.s[Len(v.s)] # Null
    BY <1>7, SurvivesShapes, Zenon
  <2>2. m = Len(v.s)
    <3>1. CASE Len(v.s) = 0
      BY <1>1, <1>4, <3>1
    <3>2. CASE Len(v.s) # 0
      <4>1. Len(v.s) \in DOMAIN v.s /\ v.s # <<>>
        BY <1>3, <3>2
      <4>2. Len(v.s) \in Kept(v)
        BY <2>1, <4>1 DEF Kept
      <4>3. QED
        BY <1>1, <1>3, <1>4, <4>2
    <3>3. QED
      BY <3>1, <3>2
  <2>3. \A i \in DOMAIN v.s : back[i] = v.s[i]
    BY <1>3, <1>6, <2>1, <2>2
  <2>4. QED
    BY <1>3, <2>2, <2>3
<1>8. ASSUME back = v.s PROVE Survives[v]
  <2>1. 1..m = 1..Len(v.s)
    BY <1>3, <1>8
  <2>2. m = Len(v.s)
    BY <1>3, <1>4, <2>1
  <2>3. \A i \in DOMAIN v.s : Survives[v.s[i]]
    BY <1>3, <1>6, <1>8, <2>1
  <2>4. ASSUME v.s # <<>> PROVE v.s[Len(v.s)] # Null
    <3>1. m # 0
      BY <1>3, <2>2, <2>4
    <3>2. QED
      BY <1>4, <2>2, <3>1 DEF Kept
  <2>5. QED
    BY <2>3, <2>4, SurvivesShapes, Zenon
<1>9. QED
  BY <1>5, <1>7, <1>8

LEMMA ObjectSurvives ==
  ASSUME NEW v \in Values, v.t = "obj",
         \A w \in Parts(v) : Echo(w) = w <=> Survives[w]
  PROVE  Echo(v) = v <=> Survives[v]
<1>1. /\ v = Obj(v.f) /\ DOMAIN v.f \subseteq Strings
      /\ \A x \in DOMAIN v.f : v.f[x] \in Values
      /\ v.f = [x \in DOMAIN v.f |-> v.f[x]]
  BY Shapes
<1>2. \A x \in DOMAIN v.f : Atoi[x] < 1 <=> ~(Atoi[x] >= 1)
  BY <1>1, Spellings
<1>3. \A x \in DOMAIN v.f : Echo(v.f[x]) = v.f[x] <=> Survives[v.f[x]]
  BY DEF Parts
<1>4. Named(v) \subseteq DOMAIN v.f
  BY DEF Named
<1> DEFINE back == [x \in Named(v) |-> Echo(v.f[x])]
<1>5. ASSUME Survives[v] PROVE Echo(v) = v
  <2>1. /\ \A x \in DOMAIN v.f : v.f[x] # Null /\ Survives[v.f[x]]
        /\ \E x \in DOMAIN v.f : Atoi[x] < 1
    BY <1>5, SurvivesShapes
  <2>2. Named(v) = DOMAIN v.f
    BY <2>1 DEF Named
  <2>3. Echo(v) = Obj(back)
    BY <1>2, <2>1, <2>2, ObjectEcho
  <2>4. back = v.f
    BY <1>1, <1>3, <2>1, <2>2
  <2>5. QED
    BY <1>1, <2>3, <2>4
<1>6. ASSUME Echo(v) = v PROVE Survives[v]
  <2>1. \E x \in Named(v) : ~(Atoi[x] >= 1)
    BY <1>6, ObjectEcho
  <2>2. Echo(v) = Obj(back)
    BY <2>1, ObjectEcho
  <2>3. back = v.f
    BY <1>1, <1>6, <2>2 DEF Obj
  <2>4. Named(v) = DOMAIN v.f
    BY <2>3
  <2>5. \A x \in DOMAIN v.f : v.f[x] # Null /\ Echo(v.f[x]) = v.f[x]
    BY <2>3, <2>4 DEF Named
  <2>6. QED
    BY <1>2, <1>3, <2>1, <2>4, <2>5, SurvivesShapes
<1>7. QED
  BY <1>5, <1>6

LEMMA EchoSurvives == \A v \in Values : Echo(v) = v <=> Survives[v]
<1> DEFINE Good == {v \in Values : Echo(v) = v <=> Survives[v]}
<1>1. ASSUME NEW v \in Values, Parts(v) \subseteq Good PROVE v \in Good
  <2>1. \A w \in Parts(v) : Echo(w) = w <=> Survives[w]
    BY <1>1
  <2>2. v.t \in {"null", "atom", "arr", "obj"}
    BY ValuesAssumption
  <2>3. Echo(v) = v <=> Survives[v]
    BY <2>1, <2>2, FlatEcho, ArraySurvives, ObjectSurvives
  <2>4. QED
    BY <2>3
<1>2. Values \subseteq Good
  BY <1>1, Induction
<1>3. QED
  BY <1>2

----------------------------------------------------------------------------
(* The way of the params: send gives the table's keys as strings, which    *)
(* changes nothing of what is made of it.                                  *)
LEMMA MergedWith ==
  ASSUME NEW f, \A j, k \in DOMAIN f : KeyString(j) = KeyString(k) => j = k
  PROVE  \E g : /\ Merged(Table(<<>>), Table(f)) = Table(g)
                /\ g = [k \in DOMAIN g |-> g[k]]
                /\ DOMAIN g = {Str(KeyString(k)) : k \in DOMAIN f}
                /\ \A k \in DOMAIN f : g[Str(KeyString(k))] = f[k]
<1> DEFINE names == {KeyString(k) : k \in DOMAIN f}
           Of(x) == CHOOSE j \in DOMAIN f : KeyString(j) = x
           keys == {Str(x) : x \in names}
           g == [k \in keys |-> f[Of(k.s)]]
<1>1. \A k \in DOMAIN f : Of(KeyString(k)) = k
  <2> SUFFICES ASSUME NEW k \in DOMAIN f PROVE Of(KeyString(k)) = k
    OBVIOUS
  <2>1. \E j \in DOMAIN f : KeyString(j) = KeyString(k)
    OBVIOUS
  <2>2. Of(KeyString(k)) \in DOMAIN f /\ KeyString(Of(KeyString(k))) = KeyString(k)
    BY <2>1
  <2>3. QED
    BY <2>2
<1>2. \A x : Str(x).s = x
  BY DEF Str
<1>3. Merged(Table(<<>>), Table(f)) = Table(g)
  <2> DEFINE r == Table(<<>>)
             l == Table(f)
  <2>1. l.f = f /\ r.f = <<>>
    BY DEF Table
  <2>2. DOMAIN r.f \cup keys = keys
    BY <2>1
  <2>3. Merged(r, l) = Table([k \in DOMAIN r.f \cup {Str(x) : x \in {KeyString(j) : j \in DOMAIN l.f}} |->
                 IF k.s \in {KeyString(j) : j \in DOMAIN l.f}
                 THEN l.f[CHOOSE j \in DOMAIN l.f : KeyString(j) = k.s]
                 ELSE r.f[k]])
    <3> HIDE DEF r, l
    <3>1. QED
      BY Zenon DEF Merged
  <2>4. Merged(r, l) = Table([k \in keys |-> IF k.s \in names THEN f[Of(k.s)] ELSE r.f[k]])
    BY <2>1, <2>2, <2>3
  <2>5. \A k \in keys : k.s \in names
    BY <1>2
  <2>6. QED
    <3> HIDE DEF Of, names
    <3>1. QED
      BY <2>4, <2>5
<1>4. \A k \in DOMAIN f : Str(KeyString(k)) \in keys
  OBVIOUS
<1>5. \A k \in DOMAIN f : g[Str(KeyString(k))] = f[k]
  <2> HIDE DEF Of
  <2>1. QED
    BY <1>1, <1>2, <1>4
<1>6. g = [k \in DOMAIN g |-> g[k]] /\ DOMAIN g = {Str(KeyString(k)) : k \in DOMAIN f}
  OBVIOUS
<1>7. QED
  <2> HIDE DEF g
  <2>1. QED
    BY <1>3, <1>5, <1>6

LEMMA ReplyIs ==
  ASSUME NEW v \in Values, v.t \in {"arr", "obj"}
  PROVE  GolangOf(Merged(Table(<<>>), ToLua[v]), FromLua) = Echo(v)
<1>1. CASE v.t = "arr"
  <2>1. PICK f : /\ ToLua[v] = Table(f)
                 /\ DOMAIN f = KeysAt(NumKeys, Kept(v))
                 /\ \A i \in Kept(v) : f[NumKeys[i]] = ToLua[v.s[i]]
    BY <1>1, ArrayTable
  <2>2. PICK m : LastOf(m, Kept(v))
    BY <1>1, KeptPlaces
  <2>3. Kept(v) \subseteq DOMAIN Itoa
    BY <1>1, KeptPlaces
  <2>4. \A i \in Kept(v) : KeyString(NumKeys[i]) = Itoa[i] /\ StrKeys[i] = Str(Itoa[i])
    BY <2>3, ArrayKeys DEF StrKeys
  <2>5. \A j, k \in DOMAIN f : KeyString(j) = KeyString(k) => j = k
    BY <2>1, <2>3, <2>4, Spellings DEF KeysAt
  <2>6. PICK g : /\ Merged(Table(<<>>), Table(f)) = Table(g)
                 /\ DOMAIN g = {Str(KeyString(k)) : k \in DOMAIN f}
                 /\ \A k \in DOMAIN f : g[Str(KeyString(k))] = f[k]
    BY <2>5, MergedWith
  <2>7. DOMAIN g = KeysAt(StrKeys, Kept(v))
    BY <2>1, <2>4, <2>6 DEF KeysAt
  <2>8. \A i \in Kept(v) : g[StrKeys[i]] = ToLua[v.s[i]]
    BY <2>1, <2>4, <2>6 DEF KeysAt
  <2>9. GolangOf(Table(g), FromLua) = EchoedTo(v, m)
    BY <1>1, <2>2, <2>7, <2>8, ArrayReply
  <2>10. Echo(v) = EchoedTo(v, m)
    BY <1>1, <2>2, ArrayEcho
  <2>11. QED
    BY <2>1, <2>6, <2>9, <2>10
<1>2. CASE v.t = "obj"
  <2>1. PICK f : /\ ToLua[v] = Table(f)
                 /\ f = [k \in DOMAIN f |-> f[k]]
                 /\ DOMAIN f = {Str(x) : x \in Named(v)}
    BY <1>2, ObjectTable
  <2>2. \A k \in DOMAIN f : Str(KeyString(k)) = k
    BY <2>1, StringKeys
  <2>3. \A j, k \in DOMAIN f : KeyString(j) = KeyString(k) => j = k
    BY <2>2
  <2>4. PICK g : /\ Merged(Table(<<>>), Table(f)) = Table(g)
                 /\ g = [k \in DOMAIN g |-> g[k]]
                 /\ DOMAIN g = {Str(KeyString(k)) : k \in DOMAIN f}
                 /\ \A k \in DOMAIN f : g[Str(KeyString(k))] = f[k]
    BY <2>3, MergedWith
  <2>5. DOMAIN g = DOMAIN f /\ \A k \in DOMAIN f : g[k] = f[k]
    BY ZenonT(60), <2>2, <2>4
  <2>6. g = f
    BY <2>1, <2>4, <2>5
  <2>7. QED
    BY <2>1, <2>4, <2>6, FromLuaIs DEF Echo
<1>3. QED
  BY <1>1, <1>2

Inv == /\ params \in Params
       /\ fetched = Nil \/ fetched = ToLua[params]
       /\ reply = Pending \/ reply = Echo(params)

LEMMA ParamsAreValues == \A v \in Params : v \in Values /\ v.t \in {"arr", "obj"}
  BY TypesAssumption

LEMMA Inductive == Spec => []Inv
<1>1. Init => Inv
  BY DEF Init, Inv
<1>2. Inv /\ [Next]_vars => Inv'
  <2> SUFFICES ASSUME Inv, [Next]_vars PROVE Inv'
    OBVIOUS
  <2>1. CASE Fetch
    BY <2>1 DEF Inv, Fetch, Echo
  <2>2. CASE SendBack
    <3>1. fetched = ToLua[params] /\ params \in Values /\ params.t \in {"arr", "obj"}
      BY <2>2, ParamsAreValues DEF Inv, SendBack
    <3>2. reply' = Echo(params)
      BY <2>2, <3>1, ReplyIs DEF SendBack
    <3>3. QED
      BY <2>2, <3>2 DEF Inv, SendBack, Echo
  <2>3. CASE UNCHANGED vars
    BY <2>3 DEF Inv, vars, Echo
  <2>4. QED
    BY <2>1, <2>2, <2>3 DEF Next
<1>3. QED
  BY <1>1, <1>2, PTL DEF Spec

(* A method that sends its params back answers with exactly what the       *)
(* client sent if and only if the params survive, for JSON of any size and *)
(* depth: what ConvertGolangTypesToLua and ConvertLuaTypesToGolang lose or *)
(* reshape is no more and no less than Survives says.                      *)
THEOREM EchoesExactly == Spec => []EchoesWhatSurvives
<1>1. Inv => EchoesWhatSurvives
  BY ParamsAreValues, EchoSurvives DEF Inv, EchoesWhatSurvives
<1>2. QED
  BY <1>1, Inductive, PTL

(* An array sent back is an array that has each element the client sent at *)
(* its place, but for nulls at the end: neither the numeric keys of the    *)
(* table nor their spelling as strings by send ever move an element.       *)
THEOREM PlacesKept == Spec => []ArraysKeepPlaces
<1>1. ASSUME Inv PROVE ArraysKeepPlaces
  <2> SUFFICES ASSUME reply # Pending, params.t = "arr"
               PROVE  /\ reply.t = "arr" /\ Len(reply.s) <= Len(params.s)
                      /\ \A i \in DOMAIN params.s :
                           IF i \in DOMAIN reply.s
                           THEN Survives[params.s[i]] => reply.s[i] = params.s[i]
                           ELSE params.s[i] = Null
    BY DEF ArraysKeepPlaces
  <2>1. params \in Values /\ reply = Echo(params)
    BY <1>1, ParamsAreValues DEF Inv
  <2>2. PICK m : m <= Len(params.s) /\ LastOf(m, Kept(params))
    BY <2>1, KeptPlaces
  <2> DEFINE back == [i \in 1..m |->
                        IF i \in Kept(params) THEN Echo(params.s[i]) ELSE Null]
  <2>3. reply = Arr(back)
    BY <2>1, <2>2, ArrayEcho DEF EchoedTo
  <2>4. DOMAIN params.s = 1..Len(params.s) /\ Len(params.s) \in Nat
    BY <2>1, Shapes
  <2>5. m \in Nat /\ \A i \in Kept(params) : i <= m
    BY <2>2 DEF LastOf
  <2>6. reply.t = "arr" /\ reply.s = back /\ Len(back) = m
    BY <2>3, <2>5 DEF Arr
  <2>7. ASSUME NEW i \in DOMAIN params.s
        PROVE  IF i \in DOMAIN reply.s
               THEN Survives[params.s[i]] => reply.s[i] = params.s[i]
               ELSE params.s[i] = Null
    <3>1. \A w \in Parts(params) : Echo(w) = w <=> Survives[w]
      BY <2>1, PartsAreValues, EchoSurvives
    <3>2. (IF i \in Kept(params) THEN Echo(params.s[i]) ELSE Null) = params.s[i]
            <=> Survives[params.s[i]]
      BY <2>1, <2>2, <3>1, ElementsEcho
    <3>3. CASE i \in 1..m
      <4>1. reply.s[i] = IF i \in Kept(params) THEN Echo(params.s[i]) ELSE Null
        BY <2>6, <3>3
      <4>2. i \in DOMAIN reply.s
        BY <2>6, <3>3
      <4>3. QED
        BY <3>2, <4>1, <4>2
    <3>4. CASE i \notin 1..m
      <4>1. i \notin Kept(params)
        BY <2>4, <2>5, <3>4
      <4>2. i \notin DOMAIN reply.s
        BY <2>6, <3>4
      <4>3. QED
        BY <4>1, <4>2 DEF Kept
    <3>5. QED
      BY <3>3, <3>4
  <2>8. QED
    BY <2>2, <2>6, <2>7
<1>2. QED
  BY <1>1, Inductive, PTL
=============================================================================
