------------------------------- MODULE Units -------------------------------
(***************************************************************************)
(* The methods of com/Unit over the table units.  DbConn shows what each   *)
(* of their statements is: atomic, and carried out in the order of the     *)
(* writes.  Here a statement is a step, and Update and Delete are two of   *)
(* them, a SELECT and an UPDATE, with other calls in between.              *)
(*                                                                         *)
(* A row is its username, which is UNIQUE, its entry_status, and whether   *)
(* deleted_at is set.  A statement may fail, with no effect.               *)
(***************************************************************************)
CONSTANTS
    Clients,    \* calls of Unit methods under way at one time
    Ids,        \* user ids: the hashes of the seeds of calls of Create
    UserNames,
    None        \* no row, no such field

Keys == Ids \cup UserNames

Statuses == {"active", "deleted"}
Row      == [name : UserNames, status : Statuses, gone : BOOLEAN]

ASSUME UnitsAssumption ==
    /\ Ids \cap UserNames = {}
    /\ None \notin Keys \cup Statuses \cup Row

VARIABLES
    rows,   \* id -> its row, or None
    pc,     \* client -> "idle", "select", "write" or "done"
    call,   \* client -> its call
    answer, \* client -> what the method has sent
    seen,   \* client -> what the unit it addresses was, at any time since
    failed  \* client -> has a SELECT of the call failed

vars == <<rows, pc, call, answer, seen, failed>>

(* The allowed fields of an Update.  Nothing stands for a table of others. *)
Fields  == [name : UserNames \cup {None}, status : Statuses \cup {None}]
Nothing == [name |-> None, status |-> None]

Call(op, keys) == [op : {op}, key : keys, fields : {Nothing}]

(* Create's key is the name it asks for, Get's its "value".                *)
Calls == Call("create", UserNames) \cup Call("get", Keys)
           \cup Call("delete", Ids)
           \cup [op : {"update"}, key : Ids, fields : Fields]

NoCall == [op |-> "none", key |-> None, fields |-> Nothing]

(* The rows a key is about, or None.                                       *)
At(k)  == {i \in Ids : rows[i] # None /\ (i = k \/ rows[i].name = k)}
Now(k) == IF At(k) = {} THEN {None} ELSE {rows[i] : i \in At(k)}

Init ==
    /\ rows = [i \in Ids |-> None]
    /\ pc = [c \in Clients |-> "idle"]
    /\ call = [c \in Clients |-> NoCall]
    /\ answer = [c \in Clients |-> "none"]
    /\ seen = [c \in Clients |-> {}]
    /\ failed = [c \in Clients |-> FALSE]

Answer(c, a) ==
    /\ pc' = [pc EXCEPT ![c] = "done"]
    /\ answer' = [answer EXCEPT ![c] = a]

Doing(c, op, l) == pc[c] = l /\ call[c].op = op

----------------------------------------------------------------------------
(* A call arrives.  CheckMissingElement and the checks of "by" and of      *)
(* "fields" come before anything else.                                     *)
Begin(c, k) ==
    /\ pc[c] = "idle"
    /\ call' = [call EXCEPT ![c] = k]
    /\ \/ Answer(c, "badParams")
       \/ /\ pc' = [pc EXCEPT ![c] = IF k.op = "create" THEN "write"
                                                        ELSE "select"]
          /\ UNCHANGED answer
    /\ UNCHANGED <<rows, failed>>

(* A failed statement, or a password that bcrypt refuses.                  *)
Fails(c) ==
    /\ pc[c] = "write" \/ (pc[c] = "select" /\ call[c].op # "update")
    /\ Answer(c, "error")
    /\ UNCHANGED <<rows, call, failed>>

(* The UNIQUE of username does not ask for deleted_at.                     *)
Taken(n, i) == \E j \in Ids \ {i} : rows[j] # None /\ rows[j].name = n

Create(c) ==
    /\ Doing(c, "create", "write")
    /\ \E i \in Ids :
         /\ rows[i] = None
         /\ \/ Taken(call[c].key, i) /\ Answer(c, "exists") /\ UNCHANGED rows
            \/ /\ ~Taken(call[c].key, i)
               /\ rows' = [rows EXCEPT ![i] = [name |-> call[c].key,
                                               status |-> "active",
                                               gone |-> FALSE]]
               /\ Answer(c, "ok")
    /\ UNCHANGED <<call, failed>>

(* WHERE ... AND deleted_at IS NULL, in Get and in Update's SELECT.         *)
Live(k) == \E i \in At(k) : ~rows[i].gone

Get(c) ==
    /\ Doing(c, "get", "select")
    /\ Answer(c, IF Live(call[c].key) THEN "ok" ELSE "notFound")
    /\ UNCHANGED <<rows, call, failed>>

----------------------------------------------------------------------------
(* Update.                                                                 *)

(* Mutant: the SELECT is that of Delete.                                   *)
UpdateFinds_open(k) ==
    \E i \in At(k) : ~rows[i].gone /\ rows[i].status # "deleted"

UpdateFinds(k) == Live(k)

(* query_row's error is not looked at: nil is nil.                         *)
UpdateSelects(c) ==
    /\ Doing(c, "update", "select")
    /\ UNCHANGED <<rows, call>>
    /\ \/ ~UpdateFinds(call[c].key) /\ Answer(c, "notFound") /\ UNCHANGED failed
       \/ Answer(c, "notFound") /\ failed' = [failed EXCEPT ![c] = TRUE]
       \/ /\ UpdateFinds(call[c].key) /\ UNCHANGED failed
          /\ IF call[c].fields = Nothing
             THEN Answer(c, "noFields")
             ELSE pc' = [pc EXCEPT ![c] = "write"] /\ UNCHANGED answer

(* Mutant: the UPDATE asks for entry_status, as Delete's SELECT does.      *)
UpdateWhere_open(i) ==
    rows[i] # None /\ ~rows[i].gone /\ rows[i].status # "deleted"

(* Mutant: the UPDATE relies on the SELECT.                                *)
UpdateWhere_any(i) == rows[i] # None

UpdateWhere(i) == rows[i] # None /\ ~rows[i].gone

Set(f, r) == [r EXCEPT !.name = IF f.name = None THEN @ ELSE f.name,
                       !.status = IF f.status = None THEN @ ELSE f.status]

(* An UPDATE of no row is no error.                                        *)
UpdateWrites(c) ==
    /\ Doing(c, "update", "write")
    /\ LET i == call[c].key
           f == call[c].fields
       IN \/ ~UpdateWhere(i) /\ Answer(c, "ok") /\ UNCHANGED rows
          \/ /\ UpdateWhere(i) /\ f.name # None /\ Taken(f.name, i)
             /\ Answer(c, "unique") /\ UNCHANGED rows
          \/ /\ UpdateWhere(i) /\ ~(f.name # None /\ Taken(f.name, i))
             /\ rows' = [rows EXCEPT ![i] = Set(f, @)]
             /\ Answer(c, "ok")
    /\ UNCHANGED <<call, failed>>

----------------------------------------------------------------------------
(* Delete.                                                                 *)

(* Mutant: no SELECT.                                                      *)
DeleteFinds_any(i) == TRUE

DeleteFinds(i) == rows[i] # None /\ ~rows[i].gone /\ rows[i].status # "deleted"

DeleteSelects(c) ==
    /\ Doing(c, "delete", "select")
    /\ UNCHANGED <<rows, call, failed>>
    /\ IF DeleteFinds(call[c].key)
       THEN pc' = [pc EXCEPT ![c] = "write"] /\ UNCHANGED answer
       ELSE Answer(c, "notFound")

Deleted(r) == [r EXCEPT !.status = "deleted", !.gone = TRUE]

DeleteWrites(c) ==
    /\ Doing(c, "delete", "write")
    /\ LET i == call[c].key IN
       rows' = IF rows[i] = None \/ rows[i].gone THEN rows
               ELSE [rows EXCEPT ![i] = Deleted(@)]
    /\ Answer(c, "ok")
    /\ UNCHANGED <<call, failed>>

----------------------------------------------------------------------------
Return(c) ==
    /\ pc[c] = "done"
    /\ pc' = [pc EXCEPT ![c] = "idle"]
    /\ call' = [call EXCEPT ![c] = NoCall]
    /\ answer' = [answer EXCEPT ![c] = "none"]
    /\ failed' = [failed EXCEPT ![c] = FALSE]
    /\ UNCHANGED rows

Method(c) ==
    \/ (\E k \in Calls : Begin(c, k)) \/ Fails(c) \/ Create(c) \/ Get(c)
    \/ UpdateSelects(c) \/ UpdateWrites(c)
    \/ DeleteSelects(c) \/ DeleteWrites(c) \/ Return(c)

(* The history of the unit each call under way is about.                   *)
Observe ==
    seen' = [c \in Clients |->
               IF pc'[c] = "idle" THEN {}
               ELSE IF pc[c] = "done" THEN seen[c]
               ELSE seen[c] \cup Now(call[c].key)']

Next == (\E c \in Clients : Method(c)) /\ Observe

Spec == Init /\ [][Next]_vars

----------------------------------------------------------------------------
Answers == {"none", "badParams", "error", "ok", "exists", "notFound", "noFields",
            "unique"}

(* Types.                                                                  *)
TypeOK ==
    /\ rows \in [Ids -> Row \cup {None}]
    /\ pc \in [Clients -> {"idle", "select", "write", "done"}]
    /\ call \in [Clients -> Calls \cup {NoCall}]
    /\ answer \in [Clients -> Answers]
    /\ seen \in [Clients -> SUBSET (Row \cup {None})]
    /\ failed \in [Clients -> BOOLEAN]

Told(c, op, a) == Doing(c, op, "done") /\ answer[c] = a

Stored(f, r) == /\ f.name # None => r.name = f.name
                /\ f.status # None => r.status = f.status

(* An Update that answers "ok" has put its fields into the row, unless the *)
(* unit was deleted between its SELECT and its UPDATE.                     *)
UpdateTold ==
    \A c \in Clients : Told(c, "update", "ok") =>
        \E r \in seen[c] \ {None} : r.gone \/ Stored(call[c].fields, r)

(* A Delete that answers "ok" met a unit that was there, and it is deleted *)
(* when the answer is sent, by this Delete or by another.                  *)
DeleteTold ==
    \A c \in Clients : Told(c, "delete", "ok") =>
        /\ \E r \in seen[c] \ {None} : ~r.gone /\ r.status # "deleted"
        /\ \E r \in seen[c] \ {None} : r.gone

(* "Unit is not exists" (_errors.lua:38) is said of a unit that was not    *)
(* there or deleted at some moment of the call, with two exceptions: an    *)
(* Update whose SELECT failed, and a Delete of a unit that an Update has   *)
(* given the entry_status "deleted", which nothing can delete any more.    *)
NotFoundExplained ==
    \A c \in Clients : (pc[c] = "done" /\ answer[c] = "notFound") =>
        \/ None \in seen[c] \/ (\E r \in seen[c] \ {None} : r.gone)
        \/ call[c].op = "update" /\ failed[c]
        \/ /\ call[c].op = "delete"
           /\ \E r \in seen[c] \ {None} : r.status = "deleted"

(* A deleted unit stays as it was deleted, whatever Updates and Deletes    *)
(* had found it before.                                                    *)
DeletedForGood ==
    [][\A i \in Ids : (rows[i] # None /\ rows[i].gone)
                        => rows'[i] = rows[i]]_vars
=============================================================================
