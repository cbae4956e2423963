------------------------------ MODULE RWMutex ------------------------------
(***************************************************************************)
(* Go's sync.RWMutex, as getDBMutex's callers use it, as a record with     *)
(*   announced - the writer inside Lock or Unlock, or NoWriter             *)
(*   held      - has that writer the lock                                  *)
(*   readers   - readers that have the lock                                *)
(*   blocked   - readers inside RLock                                      *)
(* Lock first announces the writer, which keeps new readers out, and then  *)
(* waits for the present ones; Unlock hands the lock to every reader that  *)
(* was kept out before another writer may announce itself.                 *)
(***************************************************************************)
CONSTANT NoWriter

Unlocked == [announced |-> NoWriter, held |-> FALSE, readers |-> {}, blocked |-> {}]

RWMutexes(T) == [announced : T \cup {NoWriter}, held : BOOLEAN,
                 readers : SUBSET T, blocked : SUBSET T]

CanAnnounce(m) == m.announced = NoWriter
Announced(m, t) == [m EXCEPT !.announced = t]

CanLock(m, t) == m.announced = t /\ ~m.held /\ m.readers = {}
Locked(m) == [m EXCEPT !.held = TRUE]

AfterUnlock(m) == [announced |-> NoWriter, held |-> FALSE,
                   readers |-> m.readers \cup m.blocked, blocked |-> {}]

(* RLock returns at once, or leaves t among the blocked.                   *)
AfterRLock(m, t) ==
    IF m.announced = NoWriter THEN [m EXCEPT !.readers = @ \cup {t}]
                              ELSE [m EXCEPT !.blocked = @ \cup {t}]

AfterRUnlock(m, t) == [m EXCEPT !.readers = @ \ {t}]
=============================================================================
