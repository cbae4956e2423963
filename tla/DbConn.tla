------------------------------- MODULE DbConn -------------------------------
(***************************************************************************)
(* sv1/db_sqlite.go: the connections Lua scripts open on SQLite files.     *)
(* exec hands a write to the connection's own goroutine (processWrites)    *)
(* over a bounded channel and returns a context whose wait and check read  *)
(* the result from a channel of capacity 1; query and query_row run on the *)
(* script's goroutine.  Writers and readers of one path share an RWMutex.  *)
(***************************************************************************)
EXTENDS Naturals, Sequences

CONSTANTS
    Scripts, Paths, PathOf,     \* as in DbService
    Careful,    \* scripts that wait for each write once and then close, as
                \* those of com/Unit do; the others call in any order
    QueueCap,   \* capacity of writeChan (100 in the code)
    NoWriter,
    MaxExecs,   \* bound: [Scripts -> Nat], exec calls of a script
    MaxQueries  \* bound: [Scripts -> Nat], queries of a script

ASSUME DbAssumption ==
    /\ PathOf \in [Scripts -> Paths]
    /\ Careful \subseteq Scripts
    /\ QueueCap \in Nat \ {0}
    /\ NoWriter \notin Scripts
    /\ MaxExecs \in [Scripts -> Nat] /\ MaxQueries \in [Scripts -> Nat]

INSTANCE RWMutex

VARIABLES
    pc,         \* script -> where its goroutine is
    want,       \* script -> the exec call it waits for
    writes,     \* script -> per exec call, the content of its result channel
    taken,      \* script -> exec calls of which it has received the result
    queue,      \* script -> its writeChan
    closed,     \* script -> is closeChan closed
    writer,     \* script -> where its processWrites goroutine is
    cur,        \* script -> the write processWrites is at
    mtx,        \* path -> dbMutexMap[path]
    db,         \* path -> the writes that have taken effect, in order
    seen,       \* script -> what its query's first statement saw
    got,        \* script -> what its last query returned
    queries     \* script -> queries so far

scriptVars == <<pc, want, taken, seen, got, queries>>
vars == <<scriptVars, writes, queue, closed, writer, cur, mtx, db>>

Init ==
    /\ pc = [s \in Scripts |-> "idle"]
    /\ want = [s \in Scripts |-> 0]
    /\ writes = [s \in Scripts |-> <<>>]
    /\ taken = [s \in Scripts |-> {}]
    /\ queue = [s \in Scripts |-> <<>>]
    /\ closed = [s \in Scripts |-> FALSE]
    /\ writer = [s \in Scripts |-> "off"]
    /\ cur = [s \in Scripts |-> 0]
    /\ mtx = [p \in Paths |-> Unlocked]
    /\ db = [p \in Paths |-> <<>>]
    /\ seen = [s \in Scripts |-> <<>>]
    /\ got = [s \in Scripts |-> <<>>]
    /\ queries = [s \in Scripts |-> 0]

Goto(s, l) == pc' = [pc EXCEPT ![s] = l]
WriterGoto(s, l) == writer' = [writer EXCEPT ![s] = l]
Mutex(s) == mtx[PathOf[s]]
SetMutex(s, m) == mtx' = [mtx EXCEPT ![PathOf[s]] = m]

AllTaken(s) == taken[s] = DOMAIN writes[s]

----------------------------------------------------------------------------
(* The script's calls.                                                     *)

Connect(s) ==
    /\ pc[s] = "idle"
    /\ Goto(s, "ready")
    /\ WriterGoto(s, "select")
    /\ UNCHANGED <<want, writes, taken, queue, closed, cur, mtx, db, seen, got,
                   queries>>

Exec(s) ==
    /\ pc[s] = "ready" /\ Len(writes[s]) < MaxExecs[s]
    /\ s \in Careful => AllTaken(s) /\ ~closed[s]
    /\ writes' = [writes EXCEPT ![s] = Append(@, "none")]
    /\ Goto(s, "sending")
    /\ UNCHANGED <<want, taken, queue, closed, writer, cur, mtx, db, seen, got,
                   queries>>

(* Mutant: writes are kept on a list of any length.                        *)
Enqueue_unbounded(s) ==
    /\ pc[s] = "sending"
    /\ queue' = [queue EXCEPT ![s] = Append(@, Len(writes[s]))]
    /\ Goto(s, "ready")
    /\ UNCHANGED <<want, writes, taken, closed, writer, cur, mtx, db, seen, got,
                   queries>>

(* conn.writeChan <- req blocks while the buffer is full.                  *)
Enqueue(s) ==
    /\ pc[s] = "sending" /\ Len(queue[s]) < QueueCap
    /\ queue' = [queue EXCEPT ![s] = Append(@, Len(writes[s]))]
    /\ Goto(s, "ready")
    /\ UNCHANGED <<want, writes, taken, closed, writer, cur, mtx, db, seen, got,
                   queries>>

(* ctx:wait() receives from resCh, for as long as that takes.              *)
Wait(s, n) ==
    /\ pc[s] = "ready" /\ n \in DOMAIN writes[s]
    /\ s \in Careful => n \notin taken[s]
    /\ want' = [want EXCEPT ![s] = n]
    /\ Goto(s, "waiting")
    /\ UNCHANGED <<writes, taken, queue, closed, writer, cur, mtx, db, seen, got,
                   queries>>

Available(s, n) == writes[s][n] # "none" /\ n \notin taken[s]

WaitReturns(s) ==
    /\ pc[s] = "waiting" /\ Available(s, want[s])
    /\ taken' = [taken EXCEPT ![s] = @ \cup {want[s]}]
    /\ want' = [want EXCEPT ![s] = 0]
    /\ Goto(s, "ready")
    /\ UNCHANGED <<writes, queue, closed, writer, cur, mtx, db, seen, got,
                   queries>>

(* ctx:check() takes the result if it is there (else it changes nothing).  *)
Check(s, n) ==
    /\ pc[s] = "ready" /\ s \notin Careful
    /\ n \in DOMAIN writes[s] /\ Available(s, n)
    /\ taken' = [taken EXCEPT ![s] = @ \cup {n}]
    /\ UNCHANGED <<pc, want, writes, queue, closed, writer, cur, mtx, db, seen,
                   got, queries>>

Close(s) ==
    /\ pc[s] = "ready" /\ ~closed[s]
    /\ s \in Careful => AllTaken(s)
    /\ closed' = [closed EXCEPT ![s] = TRUE]
    /\ UNCHANGED <<scriptVars, writes, queue, writer, cur, mtx, db>>

(* The script returns, or ends with an error: a second close panics, which *)
(* the protected call turns into a Lua error.                              *)
End(s) ==
    /\ pc[s] = "ready"
    /\ s \in Careful => closed[s]
    /\ Goto(s, "ended")
    /\ UNCHANGED <<want, writes, taken, queue, closed, writer, cur, mtx, db, seen,
                   got, queries>>

----------------------------------------------------------------------------
(* query_row: one statement for the values, a second for the column names, *)
(* under one read lock.  query runs its statement once.                    *)

RLock(s) ==
    /\ pc[s] = "ready" /\ queries[s] < MaxQueries[s]
    /\ SetMutex(s, AfterRLock(Mutex(s), s))
    /\ queries' = [queries EXCEPT ![s] = @ + 1]
    /\ Goto(s, "rlock")
    /\ UNCHANGED <<want, writes, taken, queue, closed, writer, cur, db, seen, got>>

(* Mutant: the read lock covers the first statement only.                  *)
FirstStatement_unlocks(s) ==
    /\ pc[s] = "rlock" /\ s \in Mutex(s).readers
    /\ seen' = [seen EXCEPT ![s] = db[PathOf[s]]]
    /\ SetMutex(s, AfterRUnlock(Mutex(s), s))
    /\ Goto(s, "reading")
    /\ UNCHANGED <<want, writes, taken, queue, closed, writer, cur, db, got,
                   queries>>

FirstStatement(s) ==
    /\ pc[s] = "rlock" /\ s \in Mutex(s).readers
    /\ seen' = [seen EXCEPT ![s] = db[PathOf[s]]]
    /\ Goto(s, "reading")
    /\ UNCHANGED <<want, writes, taken, queue, closed, writer, cur, mtx, db, got,
                   queries>>

Return(s) ==
    /\ pc[s] = "reading"
    /\ got' = [got EXCEPT ![s] = seen[s]]
    /\ seen' = [seen EXCEPT ![s] = <<>>]
    /\ SetMutex(s, AfterRUnlock(Mutex(s), s))
    /\ Goto(s, "ready")
    /\ UNCHANGED <<want, writes, taken, queue, closed, writer, cur, db, queries>>

(* Either statement failed, or there is no row: nothing is read.           *)
ReturnError(s) ==
    /\ pc[s] = "reading"
    /\ seen' = [seen EXCEPT ![s] = <<>>]
    /\ SetMutex(s, AfterRUnlock(Mutex(s), s))
    /\ Goto(s, "ready")
    /\ UNCHANGED <<want, writes, taken, queue, closed, writer, cur, db, got, queries>>

----------------------------------------------------------------------------
(* processWrites.                                                          *)

(* Mutant: the write stays at the head of the queue while it is processed. *)
Receive_peeks(s) ==
    /\ writer[s] = "select" /\ queue[s] # <<>>
    /\ cur' = [cur EXCEPT ![s] = Head(queue[s])]
    /\ WriterGoto(s, "lock")
    /\ UNCHANGED <<scriptVars, writes, queue, closed, mtx, db>>

(* The select: a write, or the closed channel; at random when both are     *)
(* ready.                                                                  *)
Receive(s) ==
    /\ writer[s] = "select" /\ queue[s] # <<>>
    /\ cur' = [cur EXCEPT ![s] = Head(queue[s])]
    /\ queue' = [queue EXCEPT ![s] = Tail(@)]
    /\ WriterGoto(s, "lock")
    /\ UNCHANGED <<scriptVars, writes, closed, mtx, db>>

(* Mutant: closeChan is looked at only when there is a write.              *)
Quit_onWrite(s) ==
    /\ writer[s] = "select" /\ closed[s] /\ queue[s] # <<>>
    /\ WriterGoto(s, "exit")
    /\ UNCHANGED <<scriptVars, writes, queue, closed, cur, mtx, db>>

Quit(s) ==
    /\ writer[s] = "select" /\ closed[s]
    /\ WriterGoto(s, "exit")
    /\ UNCHANGED <<scriptVars, writes, queue, closed, cur, mtx, db>>

AnnounceLock(s) ==
    /\ writer[s] = "lock" /\ CanAnnounce(Mutex(s))
    /\ SetMutex(s, Announced(Mutex(s), s))
    /\ WriterGoto(s, "locking")
    /\ UNCHANGED <<scriptVars, writes, queue, closed, cur, db>>

Lock(s) ==
    /\ writer[s] = "locking" /\ CanLock(Mutex(s), s)
    /\ SetMutex(s, Locked(Mutex(s)))
    /\ WriterGoto(s, "held")
    /\ UNCHANGED <<scriptVars, writes, queue, closed, cur, db>>

(* db.Exec: the whole statement or an error.  An open or a PRAGMA that     *)
(* fails is reported like a statement that fails.                          *)
Execute(s) ==
    /\ writer[s] = "held"
    /\ \/ /\ db' = [db EXCEPT ![PathOf[s]] = Append(@, <<s, cur[s]>>)]
          /\ WriterGoto(s, "sendOk")
       \/ UNCHANGED db /\ WriterGoto(s, "sendErr")
    /\ UNCHANGED <<scriptVars, writes, queue, closed, cur, mtx>>

Reporting == {"sendOk", "sendErr"}

(* Mutant: the result channel has no buffer.                               *)
CanSend_unbuffered(s) == pc[s] = "waiting" /\ want[s] = cur[s]

(* resCh has room for the one result it will ever carry.                   *)
CanSend(s) == writes[s][cur[s]] = "none"

Report(s) ==
    /\ writer[s] \in Reporting /\ CanSend(s)
    /\ writes' = [writes EXCEPT ![s] =
                   [@ EXCEPT ![cur[s]] =
                      IF writer[s] = "sendOk" THEN "ok" ELSE "err"]]
    /\ WriterGoto(s, "unlock")
    /\ UNCHANGED <<scriptVars, queue, closed, cur, mtx, db>>

Unlock(s) ==
    /\ writer[s] = "unlock"
    /\ SetMutex(s, AfterUnlock(Mutex(s)))
    /\ WriterGoto(s, "select")
    /\ cur' = [cur EXCEPT ![s] = 0]
    /\ UNCHANGED <<scriptVars, writes, queue, closed, db>>

----------------------------------------------------------------------------
Script(s) ==
    \/ Connect(s) \/ Exec(s) \/ Enqueue(s) \/ WaitReturns(s) \/ Close(s) \/ End(s)
    \/ RLock(s) \/ FirstStatement(s) \/ Return(s) \/ ReturnError(s)
    \/ \E n \in DOMAIN writes[s] : Wait(s, n) \/ Check(s, n)

ProcessWrites(s) ==
    \/ Receive(s) \/ Quit(s) \/ AnnounceLock(s) \/ Lock(s) \/ Execute(s)
    \/ Report(s) \/ Unlock(s)

Next == \E s \in Scripts : Script(s) \/ ProcessWrites(s)

(* Goroutines are scheduled; a goroutine blocked in Lock is not overtaken  *)
(* for ever (Go's mutex has a starvation mode).  A careful script goes on; *)
(* one that is not may stop anywhere.                                      *)
Fairness ==
    \A s \in Scripts :
        /\ SF_vars(AnnounceLock(s))
        /\ WF_vars(ProcessWrites(s))
        /\ s \in Careful => WF_vars(Script(s))
        /\ WF_vars(FirstStatement(s) \/ Return(s) \/ ReturnError(s))

Spec == Init /\ [][Next]_vars /\ Fairness

----------------------------------------------------------------------------
ScriptPCs == {"idle", "ready", "sending", "waiting", "rlock", "reading", "ended"}
WriterPCs == {"off", "select", "lock", "locking", "held", "unlock", "exit"}
                \cup Reporting

(* Types.                                                                  *)
TypeOK ==
    /\ pc \in [Scripts -> ScriptPCs]
    /\ want \in [Scripts -> Nat]
    /\ writes \in [Scripts -> Seq({"none", "ok", "err"})]
    /\ taken \in [Scripts -> SUBSET Nat]
    /\ queue \in [Scripts -> Seq(Nat)]
    /\ closed \in [Scripts -> BOOLEAN]
    /\ writer \in [Scripts -> WriterPCs]
    /\ cur \in [Scripts -> Nat]
    /\ mtx \in [Paths -> RWMutexes(Scripts)]
    /\ db \in [Paths -> Seq(Scripts \X Nat)]
    /\ seen \in [Scripts -> Seq(Scripts \X Nat)]
    /\ got \in [Scripts -> Seq(Scripts \X Nat)]
    /\ queries \in [Scripts -> Nat]
    /\ \A s \in Scripts : Len(queue[s]) <= QueueCap

InWrite(s) == writer[s] \in {"held", "unlock"} \cup Reporting
InQuery(s) == pc[s] = "reading"

(* Writes of one path are exclusive, whichever connections they come from, *)
(* and none overlaps a query of that path: a query's two statements see    *)
(* one database.                                                           *)
PathExclusive ==
    \A s, t \in Scripts :
        (PathOf[s] = PathOf[t] /\ InWrite(s)) =>
            /\ ~InQuery(t)
            /\ InWrite(t) => s = t

(* processWrites never waits for a script while it has the lock: a result  *)
(* always has room, so no write is reported twice and no script that       *)
(* forgets to wait can stop the others.                                    *)
ReportNeverBlocks == \A s \in Scripts : writer[s] \in Reporting => CanSend(s)

(* The scripts of com/Unit end: whatever careless scripts do on the same   *)
(* path, a script that waits once for each write and closes is not held up *)
(* for ever by a lock, a full queue or a missing result.                   *)
CarefulEnds == \A s \in Careful : pc[s] = "ready" ~> pc[s] = "ended"

(* close stops the connection's goroutine, whatever is still queued.       *)
CloseStops == \A s \in Scripts : closed[s] ~> writer[s] = "exit"

(* The refinement: a write is decided when SQLite has executed it.         *)
Decided(s, n) ==
    IF \E i \in DOMAIN db[PathOf[s]] : db[PathOf[s]][i] = <<s, n>> THEN "ok"
    ELSE IF writes[s][n] = "err" \/ (writer[s] = "sendErr" /\ cur[s] = n) THEN "err"
    ELSE "pending"

Status == [s \in Scripts |-> [n \in DOMAIN writes[s] |-> Decided(s, n)]]

S == INSTANCE DbService WITH status <- Status, acked <- taken

(* The connection implements the service: writes in the order of exec, at  *)
(* most once, none reported that was not decided, and every query a        *)
(* snapshot although it runs two statements.                               *)
ImplementsService == S!Service
=============================================================================
