-------------------------- MODULE ConfigReplProofs --------------------------
(***************************************************************************)
(* What placeholders become, for any strings, placeholders and fields.     *)
(***************************************************************************)
EXTENDS ConfigRepl, TLAPS

Strings == Seq(Placeholders \cup Texts)

TypeOK ==
    /\ file \in [Fields -> Settings \cup {Nil}]
    /\ conf \in [Fields -> Strings \cup {Nil}]
    /\ loaded \in [Fields -> Strings \cup {Nil}]
    /\ next \in Nat
    /\ left \subseteq Placeholders

(* What the turns taken so far have made of s.                             *)
Pending(s, result) ==
    IF s = Nil THEN result = Nil
    ELSE \/ result = s /\ Present(s) \subseteq left
         \/ \E p \in Present(s) \ left : result = ReplaceAll(s, p)

(* Fields behind next are done, the one at next is under way, and those    *)
(* ahead are as they were loaded.                                          *)
Progress ==
    next > 0 =>
        \A i \in 1..Len(Order) :
            LET s == loaded[Order[i]]
                r == conf[Order[i]]
            IN /\ i < next => Becomes(s, r)
               /\ i = next => Pending(s, r)
               /\ i > next => r = s

Logged == /\ log # "none" => next = Len(Order) + 1
          /\ LogsWhereSaid

Inv == TypeOK /\ Progress /\ Logged

(* A string is what its atoms are.                                         *)
LEMMA StringShape ==
    ASSUME NEW s \in Strings PROVE s = [i \in DOMAIN s |-> s[i]]
BY DEF Strings

(* Replacing one placeholder leaves a string.                              *)
LEMMA ReplaceAllType ==
    ASSUME NEW s \in Strings, NEW p \in Placeholders
    PROVE  ReplaceAll(s, p) \in Strings
<1>1. /\ Len(s) \in Nat /\ DOMAIN s = 1..Len(s)
      /\ \A i \in 1..Len(s) : s[i] \in Placeholders \cup Texts
  BY DEF Strings
<1>2. \A i \in 1..Len(s) : ReplaceAll(s, p)[i] \in Placeholders \cup Texts
  BY <1>1, ConfigAssumption DEF ReplaceAll
<1>3. ReplaceAll(s, p) \in [1..Len(s) -> Placeholders \cup Texts]
  BY <1>1, <1>2 DEF ReplaceAll
<1>4. QED
  BY <1>1, <1>3 DEF Strings

(* A string that holds no placeholder, or one kind of them, is resolved.   *)
LEMMA OneKind ==
    ASSUME NEW s \in Strings
    PROVE  /\ Present(s) = {} => Resolved(s) = s
           /\ \A p \in Present(s) : (\A q \in Present(s) : p = q)
                => Resolved(s) = ReplaceAll(s, p)
<1>1. CASE Present(s) = {}
  <2>1. \A i \in DOMAIN s : s[i] \notin Placeholders
    BY <1>1 DEF Present, Contains
  <2>2. QED
    BY <2>1, <1>1, StringShape DEF Resolved
<1>2. ASSUME NEW p \in Present(s), \A q \in Present(s) : p = q
      PROVE  Resolved(s) = ReplaceAll(s, p)
  <2>1. \A i \in DOMAIN s : s[i] \in Placeholders => s[i] = p
    BY <1>2 DEF Present, Contains
  <2>2. p \in Placeholders
    BY DEF Present
  <2>3. QED
    BY <2>1, <2>2 DEF Resolved, ReplaceAll
<1>3. QED
  BY <1>1, <1>2

(* When every replacement has had its turn, the field is done.             *)
LEMMA AllVisited ==
    ASSUME NEW s \in Strings \cup {Nil}, NEW r, Pending(s, r), left = {}
    PROVE  Becomes(s, r)
BY OneKind DEF Pending, Becomes

(* A string that is a placeholder and nothing else.                        *)
LEMMA WholeDone ==
    ASSUME NEW p \in Placeholders
    PROVE  /\ <<p>> \in Strings /\ <<Value[p]>> \in Strings
           /\ Becomes(<<p>>, <<Value[p]>>)
<1>1. <<p>> \in Strings /\ <<Value[p]>> \in Strings
  BY ConfigAssumption DEF Strings
<1>2. Resolved(<<p>>) = <<Value[p]>>
  BY DEF Resolved
<1>3. \A q \in Present(<<p>>) : q = p
  BY DEF Present, Contains
<1>4. QED
  BY <1>1, <1>2, <1>3, ConfigAssumption DEF Becomes, Strings

(* Who has the only atom v, or a placeholder for it.                       *)
LEMMA OnlyAtom ==
    ASSUME NEW s \in Strings \cup {Nil}, NEW r, Becomes(s, r),
           NEW v \in Texts
    PROVE  r = <<v>> <=> s \in Streams(v)
<1>1. CASE s = Nil
  <2>1. <<v>> \in Strings /\ \A p \in Placeholders : <<p>> \in Strings
    BY DEF Strings
  <2>2. r = Nil /\ Nil \notin Strings
    BY <1>1, ConfigAssumption DEF Becomes, Strings
  <2>3. \A x \in Streams(v) : x \in Strings
    BY <2>1 DEF Streams
  <2>4. QED
    BY <1>1, <2>1, <2>2, <2>3
<1>2. CASE s \in Strings
  <2>1. s # Nil
    BY <1>2, ConfigAssumption DEF Strings
  <2>2. DOMAIN r = DOMAIN s
    <3>1. DOMAIN Resolved(s) = DOMAIN s
      BY DEF Resolved
    <3>2. \A p : DOMAIN ReplaceAll(s, p) = DOMAIN s
      BY DEF ReplaceAll
    <3>3. QED
      BY <2>1, <3>1, <3>2 DEF Becomes
  <2>3. DOMAIN s = 1..Len(s) /\ Len(s) \in Nat
    BY <1>2 DEF Strings
  <2>4. CASE Len(s) = 1
    <3>1. \A p, q \in Present(s) : p = s[1] /\ q = s[1]
      BY <2>3, <2>4 DEF Present, Contains
    <3>2. r = Resolved(s)
      BY <2>1, <3>1 DEF Becomes
    <3>3. /\ s = <<s[1]>>
          /\ r = <<IF s[1] \in Placeholders THEN Value[s[1]] ELSE s[1]>>
      BY <2>3, <2>4, <3>2, <1>2 DEF Resolved, Strings
    <3>4. r = <<v>> <=> (IF s[1] \in Placeholders THEN Value[s[1]] ELSE s[1]) = v
      BY <3>3
    <3>5. s \in Streams(v) <=>
            s[1] = v \/ (s[1] \in Placeholders /\ Value[s[1]] = v)
      BY <3>3 DEF Streams
    <3>6. QED
      BY <3>4, <3>5, ConfigAssumption
  <2>5. CASE Len(s) # 1
    <3>1. \A a : DOMAIN <<a>> = 1..1
      OBVIOUS
    <3>2. 1..Len(s) # 1..1
      BY <2>3, <2>5
    <3>3. r # <<v>> /\ \A a : s # <<a>>
      BY <2>2, <2>3, <3>1, <3>2
    <3>4. QED
      BY <3>3 DEF Streams
  <2>6. QED
    BY <2>4, <2>5
<1>3. QED
  BY <1>1, <1>2

(* A field that is done is left for the next one.                          *)
LEMMA Advances ==
    ASSUME Inv, TypeOK', next \in 1..Len(Order),
           next' = next + 1, left' = Placeholders,
           UNCHANGED <<file, loaded, log>>,
           Becomes(loaded'[Order[next]], conf'[Order[next]]),
           \A i \in 1..Len(Order) : i # next => conf'[Order[i]] = conf[Order[i]]
    PROVE  Inv'
<1>1. Len(Order) \in Nat
  BY ConfigAssumption
<1>2. Logged'
  BY <1>1 DEF Inv, Logged, LogsWhereSaid
<1>3. \A s : Present(s) \subseteq Placeholders
  BY DEF Present
<1>4. Progress'
  <2>. SUFFICES ASSUME NEW i \in 1..Len(Order)
                PROVE  /\ i < next' => Becomes(loaded[Order[i]], conf[Order[i]])'
                       /\ i = next' => Pending(loaded[Order[i]], conf[Order[i]])'
                       /\ i > next' => conf'[Order[i]] = loaded'[Order[i]]
    BY DEF Progress
  <2>1. CASE i = next
    BY <2>1, <1>1
  <2>2. CASE i < next
    BY <2>2, <1>1 DEF Inv, Progress
  <2>3. CASE i > next
    <3>1. conf'[Order[i]] = loaded'[Order[i]]
      BY <2>3, <1>1 DEF Inv, Progress
    <3>2. Pending(loaded[Order[i]], conf[Order[i]])'
      BY <3>1, <1>3 DEF Pending
    <3>3. QED
      BY <2>3, <3>1, <3>2, <1>1
  <2>4. QED
    BY <2>1, <2>2, <2>3, <1>1
<1>5. QED
  BY <1>2, <1>4 DEF Inv

(* The inductive invariant.                                                *)
LEMMA Inductive == ASSUME Inv, [Next]_vars PROVE Inv'
<1>0. /\ Len(Order) \in Nat
      /\ \A i \in 1..Len(Order) : Order[i] \in Fields
  BY ConfigAssumption
<1>1. CASE UNCHANGED vars
  <2>1. UNCHANGED <<file, conf, loaded, next, left, log>>
    BY <1>1 DEF vars
  <2>2. TypeOK' /\ Progress' /\ Logged'
    BY <2>1 DEF Inv, TypeOK, Progress, Pending, Logged, LogsWhereSaid
  <2>3. QED
    BY <2>2 DEF Inv
<1>2. CASE LoadConf
  <2>1. TypeOK'
    BY <1>2, ConfigAssumption DEF LoadConf, Inv, TypeOK, Strings
  <2>2. Progress'
    <3>1. next' = 1 /\ left' = Placeholders /\ conf' = loaded'
      BY <1>2 DEF LoadConf
    <3>2. \A s : Present(s) \subseteq Placeholders
      BY DEF Present
    <3>3. QED
      BY <3>1, <3>2, <1>0 DEF Progress, Pending
  <2>3. Logged'
    BY <1>2, <1>0 DEF LoadConf, Inv, Logged, LogsWhereSaid
  <2>4. QED
    BY <2>1, <2>2, <2>3 DEF Inv
<1>3. CASE ReplaceWhole
  <2>. DEFINE f == Order[next]
  <2>1. /\ next \in 1..Len(Order) /\ f \in Fields
        /\ next' = next + 1 /\ left' = Placeholders
        /\ UNCHANGED <<file, loaded, log>>
    BY <1>3, <1>0 DEF ReplaceWhole, AtField, NextField
  <2>2. PICK p \in Placeholders : loaded[f] = <<p>>
    BY <1>3 DEF ReplaceWhole, IsWhole, Str
  <2>3. conf' = [conf EXCEPT ![f] = <<Value[p]>>]
    BY <1>3, <2>2 DEF ReplaceWhole, SetString, Str
  <2>4. TypeOK'
    <3>1. <<Value[p]>> \in Strings \cup {Nil}
      BY WholeDone
    <3>2. ASSUME NEW w \in Strings \cup {Nil}, conf' = [conf EXCEPT ![f] = w]
          PROVE  TypeOK'
      BY <1>0, <2>1, <3>2 DEF Inv, TypeOK
    <3>3. QED
      BY <2>3, <3>1, <3>2
  <2>5. Becomes(loaded'[f], conf'[f])
    BY <2>1, <2>2, <2>3, WholeDone DEF Inv, TypeOK
  <2>6. \A i \in 1..Len(Order) : i # next => conf'[Order[i]] = conf[Order[i]]
    BY <2>1, <2>3, <1>0, ConfigAssumption DEF Inv, TypeOK
  <2>7. QED
    BY <2>1, <2>4, <2>5, <2>6, Advances
<1>4. ASSUME NEW p \in Placeholders, Visit(p) PROVE Inv'
  <2>. DEFINE f == Order[next]
              s == loaded[f]
  <2>1. /\ next \in 1..Len(Order) /\ f \in Fields /\ s # Nil /\ p \in left
        /\ left' = left \ {p}
        /\ UNCHANGED <<file, loaded, next, log>>
    BY <1>0, <1>4 DEF Visit, AtField, Str
  <2>2. s \in Strings
    BY <2>1 DEF Inv, TypeOK
  <2>3. conf' = IF Contains(s, p) THEN [conf EXCEPT ![f] = ReplaceAll(s, p)]
                                  ELSE conf
    BY <1>4 DEF Visit, SetString, Str
  <2>4. TypeOK'
    BY <2>1, <2>2, <2>3, ReplaceAllType DEF Inv, TypeOK
  <2>5. Pending(s, conf[f])
    BY <2>1 DEF Inv, Progress
  <2>6. Pending(loaded[f], conf[f])'
    <3>1. CASE Contains(s, p)
      <4>1. conf'[f] = ReplaceAll(s, p)
        BY <2>1, <2>3, <3>1 DEF Inv, TypeOK
      <4>2. p \in Present(s) \ left'
        BY <2>1, <3>1 DEF Present
      <4>3. QED
        BY <2>1, <4>1, <4>2 DEF Pending
    <3>2. CASE ~Contains(s, p)
      <4>1. p \notin Present(s) /\ conf' = conf
        BY <2>3, <3>2 DEF Present
      <4>2. QED
        BY <2>1, <2>5, <4>1 DEF Pending
    <3>3. QED
      BY <3>1, <3>2
  <2>7. \A i \in 1..Len(Order) : i # next => conf'[Order[i]] = conf[Order[i]]
    BY <2>1, <2>3, <1>0, ConfigAssumption DEF Inv, TypeOK
  <2>8. Progress'
    <3>. SUFFICES ASSUME NEW i \in 1..Len(Order)
                  PROVE  /\ i < next' => Becomes(loaded[Order[i]], conf[Order[i]])'
                         /\ i = next' => Pending(loaded[Order[i]], conf[Order[i]])'
                         /\ i > next' => conf'[Order[i]] = loaded'[Order[i]]
      BY DEF Progress
    <3>1. CASE i = next
      BY <2>1, <2>6, <3>1, <1>0
    <3>2. CASE i # next
      BY <2>1, <2>7, <3>2, <1>0 DEF Inv, Progress
    <3>3. QED
      BY <3>1, <3>2
  <2>9. Logged'
    BY <2>1, <1>0 DEF Inv, Logged, LogsWhereSaid
  <2>10. QED
    BY <2>4, <2>8, <2>9 DEF Inv
<1>5. CASE LeaveField
  <2>1. /\ next \in 1..Len(Order)
        /\ next' = next + 1 /\ left' = Placeholders
        /\ UNCHANGED <<file, loaded, log, conf>>
    BY <1>5 DEF LeaveField, AtField, NextField
  <2>2. Becomes(loaded[Order[next]], conf[Order[next]])
    <3>1. Pending(loaded[Order[next]], conf[Order[next]])
      BY <2>1 DEF Inv, Progress
    <3>2. loaded[Order[next]] \in Strings \cup {Nil}
      BY <2>1, <1>0 DEF Inv, TypeOK
    <3>3. CASE loaded[Order[next]] = Nil
      BY <3>1, <3>3 DEF Pending, Becomes
    <3>4. CASE left = {}
      BY <3>1, <3>2, <3>4, AllVisited
    <3>5. QED
      BY <1>5, <3>3, <3>4 DEF LeaveField, Str
  <2>3. TypeOK'
    BY <2>1 DEF Inv, TypeOK
  <2>4. QED
    BY <2>1, <2>2, <2>3, Advances
<1>6. CASE InitSLogHook
  <2>1. /\ next = Len(Order) + 1
        /\ UNCHANGED <<file, conf, loaded, left, next>>
        /\ log' = IF conf["log.output"] = <<"_1STDout">> THEN "stdout"
                  ELSE IF conf["log.output"] = <<"_2STDerr">> THEN "stderr"
                  ELSE "files"
    BY <1>6 DEF InitSLogHook
  <2>2. TypeOK' /\ Progress'
    BY <2>1 DEF Inv, TypeOK, Progress, Pending
  <2>3. Becomes(loaded["log.output"], conf["log.output"])
    <3>1. PICK i \in 1..Len(Order) : Order[i] = "log.output"
      BY ConfigAssumption DEF Fields
    <3>2. QED
      BY <2>1, <3>1, <1>0 DEF Inv, Progress
  <2>4. \A v \in {"_1STDout", "_2STDerr"} :
          conf["log.output"] = <<v>> <=> loaded["log.output"] \in Streams(v)
    BY <2>3, OnlyAtom, ConfigAssumption DEF Inv, TypeOK
  <2>5. <<"_1STDout">> # <<"_2STDerr">>
    OBVIOUS
  <2>6. Logged'
    BY <2>1, <2>4, <2>5 DEF Logged, LogsWhereSaid, Streams
  <2>7. QED
    BY <2>2, <2>6 DEF Inv
<1>7. QED
  BY <1>1, <1>2, <1>3, <1>4, <1>5, <1>6 DEF Next

(* Every reachable state satisfies it.                                     *)
LEMMA Invariance == Spec => []Inv
<1>1. Init => Inv
  BY ConfigAssumption
     DEF Init, Inv, TypeOK, Progress, Logged, LogsWhereSaid, Strings
<1>2. QED
  BY <1>1, Inductive, PTL DEF Spec

(* For any placeholders, strings and order of the replacements: a string   *)
(* with one kind of placeholder is resolved, with more exactly one kind is *)
(* replaced.                                                               *)
THEOREM ReplacesExactly == Spec => []ReplacedExactly
<1>1. Inv => ReplacedExactly
  <2>1. ASSUME Inv, next > Len(Order), NEW f \in Fields
        PROVE  Becomes(loaded[f], conf[f])
    <3>1. PICK i \in 1..Len(Order) : Order[i] = f
      BY DEF Fields
    <3>2. Len(Order) \in Nat
      BY ConfigAssumption
    <3>3. QED
      BY <2>1, <3>1, <3>2 DEF Inv, TypeOK, Progress
  <2>2. QED
    BY <2>1 DEF ReplacedExactly
<1>2. QED
  BY <1>1, Invariance, PTL

(* The log goes where log.output says after replacement: for any settings  *)
(* that are whole placeholders or name a stream, and to files otherwise.   *)
THEOREM LogsAsConfigured == Spec => []LogsWhereSaid
<1>1. Inv => LogsWhereSaid
  BY DEF Inv, Logged
<1>2. QED
  BY <1>1, Invariance, PTL
=============================================================================
