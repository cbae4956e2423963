---------------------------- MODULE UnitsProofs ----------------------------
(***************************************************************************)
(* What the answers of com/Unit's methods are worth, for any number of     *)
(* calls at a time, units and usernames.                                   *)
(***************************************************************************)
EXTENDS Units, TLAPS

(* A key that is an id is about the row of that id and no other.           *)
LEMMA NowOfId ==
    ASSUME TypeOK, NEW i \in Ids
    PROVE  /\ Now(i) = {rows[i]}
           /\ At(i) = IF rows[i] = None THEN {} ELSE {i}
<1>1. \A j \in Ids : rows[j] # None => rows[j].name \in UserNames
  BY DEF TypeOK, Row
<1>2. At(i) = IF rows[i] = None THEN {} ELSE {i}
  BY <1>1, UnitsAssumption DEF At
<1>3. QED
  BY <1>2 DEF Now

(* The same of the rows after a step.                                      *)
LEMMA NowOfIdNext ==
    ASSUME TypeOK', NEW i \in Ids
    PROVE  Now(i)' = {rows'[i]}
<1>1. \A j \in Ids : rows'[j] # None => rows'[j].name \in UserNames
  BY DEF TypeOK, Row
<1>2. At(i)' = IF rows'[i] = None THEN {} ELSE {i}
  BY <1>1, UnitsAssumption DEF At
<1>3. QED
  BY <1>2 DEF Now

(* What a SELECT that has found its unit has seen.                         *)
Found(c) ==
    /\ pc[c] = "write" /\ call[c].op \in {"update", "delete"}
         => rows[call[c].key] # None
    /\ Doing(c, "delete", "write")
         => \E r \in seen[c] \ {None} : ~r.gone /\ r.status # "deleted"

(* A call under way knows the present state of its unit.                   *)
Watched(c) == pc[c] \in {"select", "write"} => /\ call[c] \in Calls
                                               /\ Now(call[c].key) \subseteq seen[c]

(* UpdateTold, DeleteTold and NotFoundExplained of one client.             *)
Honest(c) ==
    /\ Told(c, "update", "ok") =>
         \E r \in seen[c] \ {None} : r.gone \/ Stored(call[c].fields, r)
    /\ Told(c, "delete", "ok") =>
         /\ \E r \in seen[c] \ {None} : ~r.gone /\ r.status # "deleted"
         /\ \E r \in seen[c] \ {None} : r.gone
    /\ (pc[c] = "done" /\ answer[c] = "notFound") =>
         \/ None \in seen[c] \/ (\E r \in seen[c] \ {None} : r.gone)
         \/ call[c].op = "update" /\ failed[c]
         \/ /\ call[c].op = "delete"
            /\ \E r \in seen[c] \ {None} : r.status = "deleted"

Inv == TypeOK /\ \A c \in Clients : Found(c) /\ Watched(c) /\ Honest(c)

(* The steps keep the types.                                               *)
LEMMA TypesKept ==
    ASSUME TypeOK, Next PROVE TypeOK'
<1>1. PICK c \in Clients : Method(c)
  BY DEF Next
<1>. USE DEF TypeOK
<1>2. /\ rows' \in [Ids -> Row \cup {None}]
      /\ pc' \in [Clients -> {"idle", "select", "write", "done"}]
      /\ call' \in [Clients -> Calls \cup {NoCall}]
      /\ answer' \in [Clients -> Answers]
      /\ failed' \in [Clients -> BOOLEAN]
  <2>. USE DEF Answer, Answers, Doing
  <2>1. ASSUME NEW k \in Calls, Begin(c, k) PROVE <1>2
    BY <2>1 DEF Begin
  <2>2. CASE Fails(c)
    BY <2>2 DEF Fails
  <2>3. CASE Create(c)
    <3>1. call[c].op = "create" => call[c].key \in UserNames
      BY DEF Calls, Call, NoCall
    <3>2. ASSUME NEW n \in UserNames
          PROVE  [name |-> n, status |-> "active", gone |-> FALSE] \in Row
      BY DEF Row, Statuses
    <3>3. rows' \in [Ids -> Row \cup {None}]
      BY <2>3, <3>1, <3>2 DEF Create
    <3>4. QED
      BY <2>3, <3>3 DEF Create
  <2>4. CASE Get(c)
    BY <2>4 DEF Get
  <2>5. CASE UpdateSelects(c)
    BY <2>5 DEF UpdateSelects
  <2>6. CASE UpdateWrites(c)
    <3>1. call[c].op = "update" => call[c].key \in Ids /\ call[c].fields \in Fields
      BY DEF Calls, Call, NoCall
    <3>2. ASSUME NEW f \in Fields, NEW r \in Row PROVE Set(f, r) \in Row
      BY DEF Fields, Row, Set
    <3>3. QED
      BY <2>6, <3>1, <3>2 DEF UpdateWrites, UpdateWhere
  <2>7. CASE DeleteSelects(c)
    BY <2>7 DEF DeleteSelects
  <2>8. CASE DeleteWrites(c)
    <3>1. call[c].op = "delete" => call[c].key \in Ids
      BY DEF Calls, Call, NoCall
    <3>2. ASSUME NEW r \in Row PROVE Deleted(r) \in Row
      BY DEF Deleted, Row, Statuses
    <3>3. rows' \in [Ids -> Row \cup {None}]
      BY <2>8, <3>1, <3>2 DEF DeleteWrites
    <3>4. QED
      BY <2>8, <3>3 DEF DeleteWrites
  <2>9. CASE Return(c)
    BY <2>9 DEF Return
  <2>10. QED
    BY <1>1, <2>1, <2>2, <2>3, <2>4, <2>5, <2>6, <2>7, <2>8, <2>9 DEF Method
<1>3. \A d \in Clients : Now(call[d].key)' \subseteq Row \cup {None}
  BY <1>2 DEF Now, At
<1>4. seen' \in [Clients -> SUBSET (Row \cup {None})]
  BY <1>3 DEF Next, Observe
<1>5. QED
  BY <1>2, <1>4

(* A client of which a step changes neither call nor answer stays honest:  *)
(* what it has seen only grows.                                            *)
LEMMA OthersKeep ==
    ASSUME TypeOK, TypeOK', Observe, NEW d \in Clients,
           Found(d), Watched(d), Honest(d),
           pc'[d] = pc[d], call'[d] = call[d],
           answer'[d] = answer[d], failed'[d] = failed[d],
           \A i \in Ids : rows[i] # None => rows'[i] # None
    PROVE  Found(d)' /\ Watched(d)' /\ Honest(d)'
<1>1. seen'[d] = IF pc'[d] = "idle" THEN {}
                 ELSE IF pc[d] = "done" THEN seen[d]
                 ELSE seen[d] \cup Now(call[d].key)'
  BY DEF Observe
<1>2. Found(d)'
  <2>1. pc[d] = "write" => seen[d] \subseteq seen'[d]
    BY <1>1
  <2>2. call[d].op \in {"update", "delete"} => call[d].key \in Ids
    BY DEF TypeOK, Calls, Call, NoCall
  <2>3. QED
    BY <2>1, <2>2 DEF Found, Doing
<1>3. Watched(d)'
  BY <1>1 DEF Watched
<1>4. Honest(d)'
  <2>1. pc[d] = "done" => seen'[d] = seen[d]
    BY <1>1
  <2>2. QED
    BY <2>1 DEF Honest, Told, Doing
<1>5. QED
  BY <1>2, <1>3, <1>4

(* A row is never removed from the table.                                  *)
LEMMA RowsStay ==
    ASSUME TypeOK, Next, NEW i \in Ids, rows[i] # None
    PROVE  /\ rows'[i] # None
           /\ rows[i].gone => rows'[i] = rows[i]
<1>1. PICK c \in Clients : Method(c)
  BY DEF Next
<1>2. /\ call[c].op \in {"update", "delete"} => call[c].key \in Ids
      /\ call[c].op = "update" => call[c].fields \in Fields
  BY DEF TypeOK, Calls, Call, NoCall
<1>3. \A j \in Ids : rows[j] \in Row \cup {None}
  BY DEF TypeOK
<1>4. rows' = rows \/ Create(c) \/ UpdateWrites(c) \/ DeleteWrites(c)
  BY <1>1 DEF Method, Begin, Fails, Get, UpdateSelects, DeleteSelects, Return
<1>5. ASSUME Create(c) PROVE rows'[i] = rows[i]
  BY <1>5 DEF Create, TypeOK
<1>6. ASSUME UpdateWrites(c)
      PROVE  /\ rows'[i] # None
             /\ rows[i].gone => rows'[i] = rows[i]
  <2>1. ASSUME NEW f \in Fields, NEW r \in Row PROVE Set(f, r) \in Row
    BY DEF Fields, Row, Set
  <2>2. CASE rows' = rows
    BY <2>2
  <2>3. CASE /\ UpdateWhere(call[c].key)
             /\ rows' = [rows EXCEPT ![call[c].key] = Set(call[c].fields, @)]
    BY <2>1, <2>3, <1>2, <1>3, <1>6, UnitsAssumption
       DEF UpdateWhere, UpdateWrites, Doing, TypeOK
  <2>4. QED
    BY <1>6, <2>2, <2>3 DEF UpdateWrites
<1>7. ASSUME DeleteWrites(c)
      PROVE  /\ rows'[i] # None
             /\ rows[i].gone => rows'[i] = rows[i]
  <2>1. ASSUME NEW r \in Row
        PROVE  Deleted(r) \in Row
    BY DEF Row, Statuses, Deleted
  <2>2. QED
    BY <2>1, <1>2, <1>3, <1>7, UnitsAssumption DEF DeleteWrites, Doing, TypeOK
<1>8. QED
  BY <1>4, <1>5, <1>6, <1>7

(* The client whose step it is stays honest, action by action.             *)
LEMMA StepKeeps ==
    ASSUME TypeOK, TypeOK', Observe, NEW c \in Clients, Method(c),
           Found(c), Watched(c), Honest(c),
           \A i \in Ids : rows[i] # None => rows'[i] # None
    PROVE  Found(c)' /\ Watched(c)' /\ Honest(c)'
<1>1. seen'[c] = IF pc'[c] = "idle" THEN {}
                 ELSE IF pc[c] = "done" THEN seen[c]
                 ELSE seen[c] \cup Now(call[c].key)'
  BY DEF Observe
<1>2. /\ call[c].op \in {"update", "delete"} => call[c].key \in Ids
      /\ call'[c].op \in {"update", "delete"} => call'[c].key \in Ids
  BY DEF TypeOK, Calls, Call, NoCall
<1>3. call[c].op \in {"update", "delete"}
        => /\ Now(call[c].key) = {rows[call[c].key]}
           /\ rows[call[c].key] \in Row \cup {None}
  BY <1>2, NowOfId DEF TypeOK
<1>4. call'[c].op \in {"update", "delete"}
        => /\ Now(call[c].key)' = {rows'[call'[c].key]}
           /\ rows'[call'[c].key] \in Row \cup {None}
  BY <1>2, NowOfIdNext DEF TypeOK
<1>5. None \notin Row
  BY UnitsAssumption
<1>6. Watched(c)'
  <2>1. pc'[c] \in {"select", "write"} =>
          /\ pc[c] # "done"
          /\ call'[c] \in Calls
    <3>. USE DEF TypeOK, Watched, Doing, Answer
    <3>1. ASSUME NEW k \in Calls, Begin(c, k) PROVE <2>1
      BY <3>1 DEF Begin
    <3>2. CASE UpdateSelects(c) \/ DeleteSelects(c)
      BY <3>2 DEF UpdateSelects, DeleteSelects
    <3>3. CASE Fails(c) \/ Create(c) \/ Get(c) \/ UpdateWrites(c)
                 \/ DeleteWrites(c) \/ Return(c)
      BY <3>3 DEF Fails, Create, Get, UpdateWrites, DeleteWrites, Return
    <3>4. QED
      BY <3>1, <3>2, <3>3 DEF Method
  <2>2. QED
    BY <2>1, <1>1 DEF Watched
<1>7. Found(c)' /\ Honest(c)'
  <2>1. ASSUME NEW k \in Calls, Begin(c, k) PROVE <1>7
    BY <2>1 DEF Begin, Answer, Found, Honest, Told, Doing, TypeOK, Calls, Call
  <2>2. CASE Fails(c) \/ Create(c) \/ Return(c)
    BY <2>2 DEF Fails, Create, Return, Answer, Found, Honest, Told, Doing, TypeOK
  <2>3. CASE Get(c)
    <3>1. /\ pc'[c] = "done" /\ call' = call /\ rows' = rows
          /\ call[c].op = "get"
          /\ answer'[c] = "notFound" => ~Live(call[c].key)
      BY <2>3 DEF Get, Answer, Doing, TypeOK
    <3>2. /\ Now(call[c].key)' = Now(call[c].key)
          /\ Now(call[c].key)' \subseteq seen'[c]
      BY <3>1, <2>3, <1>1 DEF Get, Doing, Now, At
    <3>3. ~Live(call[c].key) =>
            None \in Now(call[c].key)
              \/ \E r \in Now(call[c].key) \ {None} : r.gone
      BY DEF Live, Now, At
    <3>4. QED
      BY <3>1, <3>2, <3>3 DEF Found, Honest, Told, Doing
  <2>4. CASE UpdateSelects(c)
    <3>1. /\ call' = call /\ rows' = rows /\ call[c].op = "update"
          /\ rows'[call[c].key] \in seen'[c]
      BY <2>4, <1>1, <1>4 DEF UpdateSelects, Answer, Doing, TypeOK
    <3>2. Live(call[c].key) <=> rows[call[c].key] # None
                                  /\ ~rows[call[c].key].gone
      BY <3>1, <1>2, NowOfId DEF Live
    <3>3. Found(c)'
      BY <2>4, <3>1, <3>2
         DEF UpdateSelects, UpdateFinds, Answer, Found, Doing, TypeOK
    <3>4. Honest(c)'
      BY <2>4, <3>1, <3>2
         DEF UpdateSelects, UpdateFinds, Answer, Honest, Told, Doing, TypeOK
    <3>5. QED
      BY <3>3, <3>4
  <2>5. CASE UpdateWrites(c)
    <3>1. /\ call' = call /\ call[c].op = "update" /\ pc'[c] = "done"
          /\ answer'[c] # "notFound"
          /\ rows'[call[c].key] \in seen'[c]
      BY <2>5, <1>1, <1>4 DEF UpdateWrites, Answer, Doing, TypeOK
    <3>2. ASSUME answer'[c] = "ok"
          PROVE  LET r == rows'[call[c].key] IN
                 r # None /\ (r.gone \/ Stored(call[c].fields, r))
      <4>. DEFINE i == call[c].key
                  f == call[c].fields
      <4>1. rows[i] # None /\ rows[i] \in Row /\ i \in Ids
        BY <2>5, <1>2, <1>3 DEF Found, UpdateWrites, Doing
      <4>2. CASE ~UpdateWhere(i)
        BY <2>5, <4>1, <4>2 DEF UpdateWrites, UpdateWhere
      <4>3. CASE UpdateWhere(i)
        <5>1. rows'[i] = Set(f, rows[i])
          BY <2>5, <3>2, <4>1, <4>3 DEF UpdateWrites, Answer, TypeOK
        <5>2. f \in Fields
          BY <3>1 DEF TypeOK, Calls, Call, NoCall
        <5>3. Set(f, rows[i]) \in Row /\ Stored(f, Set(f, rows[i]))
          BY <4>1, <5>2 DEF Set, Stored, Row, Fields
        <5>4. QED
          BY <5>1, <5>3, <1>5
      <4>4. QED
        BY <4>2, <4>3
    <3>3. QED
      BY <3>1, <3>2 DEF Found, Honest, Told, Doing
  <2>6. CASE DeleteSelects(c)
    <3>1. /\ call' = call /\ rows' = rows /\ call[c].op = "delete"
          /\ rows'[call[c].key] \in seen'[c]
      BY <2>6, <1>1, <1>4 DEF DeleteSelects, Answer, Doing, TypeOK
    <3>2. Found(c)'
      BY <2>6, <3>1 DEF DeleteSelects, DeleteFinds, Answer, Found, Doing, TypeOK
    <3>3. Honest(c)'
      BY <2>6, <3>1
         DEF DeleteSelects, DeleteFinds, Answer, Honest, Told, Doing, TypeOK
    <3>4. QED
      BY <3>2, <3>3
  <2>7. CASE DeleteWrites(c)
    <3>1. /\ call' = call /\ call[c].op = "delete" /\ pc'[c] = "done"
          /\ answer'[c] = "ok"
          /\ seen[c] \subseteq seen'[c]
          /\ rows'[call[c].key] \in seen'[c]
      BY <2>7, <1>1, <1>4 DEF DeleteWrites, Answer, Doing, TypeOK
    <3>2. rows'[call[c].key] # None /\ rows'[call[c].key].gone
      <4>1. rows[call[c].key] # None /\ rows[call[c].key] \in Row
        BY <2>7, <1>3 DEF Found, DeleteWrites, Doing
      <4>2. Deleted(rows[call[c].key]) \in Row /\ Deleted(rows[call[c].key]).gone
        BY <4>1 DEF Deleted, Row, Statuses
      <4>3. QED
        BY <2>7, <4>1, <4>2, <1>2, <1>5 DEF DeleteWrites, Doing, TypeOK
    <3>3. QED
      BY <2>7, <3>1, <3>2 DEF Found, Honest, Told, Doing, DeleteWrites
  <2>8. QED
    BY <2>1, <2>2, <2>3, <2>4, <2>5, <2>6, <2>7 DEF Method
<1>8. QED
  BY <1>6, <1>7

(* The inductive invariant.                                                *)
LEMMA Inductive ==
    ASSUME Inv, [Next]_vars PROVE Inv'
<1>1. CASE UNCHANGED vars
  <2>1. \A k : Now(k)' = Now(k)
    BY <1>1 DEF vars, Now, At
  <2>2. TypeOK'
    BY <1>1 DEF Inv, TypeOK, vars
  <2>3. ASSUME NEW c \in Clients PROVE Found(c)' /\ Watched(c)' /\ Honest(c)'
    BY <1>1, <2>1 DEF Inv, vars, Found, Watched, Honest, Told, Doing
  <2>4. QED
    BY <2>2, <2>3 DEF Inv
<1>2. CASE Next
  <2>1. TypeOK'
    BY <1>2, TypesKept DEF Inv
  <2>2. \A i \in Ids : rows[i] # None => rows'[i] # None
    BY <1>2, RowsStay DEF Inv
  <2>3. PICK c \in Clients : Method(c)
    BY <1>2 DEF Next
  <2>4. Found(c)' /\ Watched(c)' /\ Honest(c)'
    BY <1>2, <2>1, <2>2, <2>3, StepKeeps DEF Inv, Next
  <2>5. ASSUME NEW d \in Clients, d # c
        PROVE  Found(d)' /\ Watched(d)' /\ Honest(d)'
    <3>1. /\ pc'[d] = pc[d] /\ call'[d] = call[d]
          /\ answer'[d] = answer[d] /\ failed'[d] = failed[d]
      BY <2>3, <2>5
         DEF Method, Begin, Fails, Create, Get, UpdateSelects, UpdateWrites,
             DeleteSelects, DeleteWrites, Return, Answer, Inv, TypeOK
    <3>2. QED
      BY <1>2, <2>1, <2>2, <3>1, OthersKeep DEF Inv, Next
  <2>6. QED
    BY <2>1, <2>4, <2>5 DEF Inv
<1>3. QED
  BY <1>1, <1>2

(* Every reachable state satisfies it.                                     *)
LEMMA Invariance == Spec => []Inv
<1>1. Init => Inv
  BY DEF Init, Inv, TypeOK, Found, Watched, Honest, Told, Doing, NoCall, Answers
<1>2. QED
  BY <1>1, Inductive, PTL DEF Spec

(* For any number of calls, units and names: what Update has answered "ok" *)
(* to was stored, unless the unit was deleted during the call.             *)
THEOREM UpdatesTold == Spec => []UpdateTold
<1>1. Inv => UpdateTold
  BY DEF Inv, Honest, UpdateTold
<1>2. QED
  BY <1>1, Invariance, PTL

(* A Delete that answers "ok" met a unit, which is deleted.                *)
THEOREM DeletesTold == Spec => []DeleteTold
<1>1. Inv => DeleteTold
  BY DEF Inv, Honest, DeleteTold
<1>2. QED
  BY <1>1, Invariance, PTL

(* "Unit is not exists" is said of no unit that was there throughout, but  *)
(* for the two exceptions of NotFoundExplained.                            *)
THEOREM NotFoundsExplained == Spec => []NotFoundExplained
<1>1. Inv => NotFoundExplained
  BY DEF Inv, Honest, NotFoundExplained
<1>2. QED
  BY <1>1, Invariance, PTL

(* No call, however it was overtaken, changes the row of a deleted unit.   *)
THEOREM DeletedStays == Spec => DeletedForGood
<1>1. Inv /\ [Next]_vars =>
        [\A i \in Ids : (rows[i] # None /\ rows[i].gone)
                          => rows'[i] = rows[i]]_vars
  BY RowsStay DEF Inv
<1>2. QED
  BY <1>1, Invariance, PTL DEF Spec, DeletedForGood
=============================================================================
