---------------------------- MODULE DbConnProofs ----------------------------
(***************************************************************************)
(* For every set of scripts, connections and paths: the RWMutex per path   *)
(* keeps writes apart from each other and from queries, a goroutine that   *)
(* holds it is never held up by the script it works for, and connections   *)
(* keep what DbService promises.                                           *)
(***************************************************************************)
EXTENDS DbConn, TLAPS

Typed ==
    /\ pc \in [Scripts -> ScriptPCs]
    /\ writer \in [Scripts -> WriterPCs]
    /\ mtx \in [Paths -> RWMutexes(Scripts)]

(* The lock of a path and what the goroutines believe of it agree.         *)
Agrees ==
    /\ \A p \in Paths : mtx[p].held => /\ mtx[p].readers = {}
                                       /\ mtx[p].announced # NoWriter
    /\ \A s \in Scripts :
         /\ InQuery(s) => s \in Mutex(s).readers
         /\ InWrite(s) => Mutex(s).held /\ Mutex(s).announced = s
         /\ writer[s] = "locking" => ~Mutex(s).held /\ Mutex(s).announced = s

IInv == Typed /\ Agrees

USE DbAssumption DEF Goto, WriterGoto, InQuery, InWrite, Reporting, ScriptPCs, WriterPCs

(* The operations of the lock keep its type, and say what they change.     *)
LEMMA MutexOperations ==
  ASSUME NEW T, NEW t \in T, NEW m \in RWMutexes(T)
  PROVE  /\ Announced(m, t) \in RWMutexes(T)
         /\ Locked(m) \in RWMutexes(T)
         /\ AfterUnlock(m) \in RWMutexes(T)
         /\ AfterRLock(m, t) \in RWMutexes(T)
         /\ AfterRUnlock(m, t) \in RWMutexes(T)
         /\ Announced(m, t).announced = t
         /\ Announced(m, t).held = m.held
         /\ Announced(m, t).readers = m.readers
         /\ AfterRLock(m, t).held = m.held
         /\ AfterRLock(m, t).announced = m.announced
         /\ m.readers \subseteq AfterRLock(m, t).readers
         /\ m.announced # NoWriter => AfterRLock(m, t).readers = m.readers
         /\ AfterRUnlock(m, t).held = m.held
         /\ AfterRUnlock(m, t).announced = m.announced
         /\ AfterRUnlock(m, t).readers = m.readers \ {t}
<1> USE DEF RWMutexes
<1>1. Announced(m, t) \in RWMutexes(T)
  BY DEF Announced
<1>2. Locked(m) \in RWMutexes(T)
  BY DEF Locked
<1>3. AfterUnlock(m) \in RWMutexes(T)
  BY DEF AfterUnlock
<1>4. AfterRLock(m, t) \in RWMutexes(T)
  BY DEF AfterRLock
<1>5. AfterRUnlock(m, t) \in RWMutexes(T)
  BY DEF AfterRUnlock
<1>6. /\ AfterRLock(m, t).held = m.held
      /\ AfterRLock(m, t).announced = m.announced
      /\ m.readers \subseteq AfterRLock(m, t).readers
      /\ m.announced # NoWriter => AfterRLock(m, t).readers = m.readers
  BY DEF AfterRLock
<1>7. /\ AfterRUnlock(m, t).held = m.held
      /\ AfterRUnlock(m, t).announced = m.announced
      /\ AfterRUnlock(m, t).readers = m.readers \ {t}
  BY DEF AfterRUnlock
<1>8. /\ Announced(m, t).announced = t
      /\ Announced(m, t).held = m.held
      /\ Announced(m, t).readers = m.readers
  BY DEF Announced
<1> QED
  BY <1>1, <1>2, <1>3, <1>4, <1>5, <1>6, <1>7, <1>8

LEMMA InitEstablishes == Init => IInv
  BY DEF Init, IInv, Typed, Agrees, Mutex, Unlocked, RWMutexes

(* Steps that touch no lock and neither enter nor leave what it guards.    *)
LEMMA UnlockedSteps ==
  ASSUME IInv, mtx' = mtx, Typed',
         \A s \in Scripts :
            /\ InQuery(s)' => InQuery(s)
            /\ InWrite(s)' => InWrite(s)
            /\ writer'[s] = "locking" => writer[s] = "locking"
  PROVE  IInv'
  BY DEF IInv, Agrees, Mutex

LEMMA ScriptKeeps ==
  ASSUME IInv, NEW s \in Scripts, Script(s) PROVE IInv'
<1> USE DEF IInv, Typed
<1>1. CASE Connect(s)
  BY <1>1, UnlockedSteps DEF Connect
<1>2. CASE Exec(s) \/ Enqueue(s) \/ WaitReturns(s) \/ Close(s) \/ End(s)
  BY <1>2, UnlockedSteps
     DEF Exec, Enqueue, WaitReturns, Close, End, scriptVars
<1>3. ASSUME NEW n \in DOMAIN writes[s], Wait(s, n) \/ Check(s, n) PROVE IInv'
  BY <1>3, UnlockedSteps DEF Wait, Check
<1>4. CASE RLock(s)
  <2>1. Typed'
    <3>1. AfterRLock(Mutex(s), s) \in RWMutexes(Scripts)
      BY MutexOperations DEF Mutex
    <3> QED
      BY <1>4, <3>1 DEF RLock, SetMutex
  <2>2. \A p \in Paths : /\ mtx'[p].held = mtx[p].held
                         /\ mtx'[p].announced = mtx[p].announced
                         /\ mtx[p].readers \subseteq mtx'[p].readers
                         /\ mtx[p].announced # NoWriter =>
                              mtx'[p].readers = mtx[p].readers
    <3>1. mtx' = [mtx EXCEPT ![PathOf[s]] = AfterRLock(mtx[PathOf[s]], s)]
      BY <1>4 DEF RLock, SetMutex, Mutex
    <3>2. /\ AfterRLock(mtx[PathOf[s]], s).held = mtx[PathOf[s]].held
          /\ AfterRLock(mtx[PathOf[s]], s).announced = mtx[PathOf[s]].announced
          /\ mtx[PathOf[s]].readers \subseteq AfterRLock(mtx[PathOf[s]], s).readers
          /\ mtx[PathOf[s]].announced # NoWriter =>
               AfterRLock(mtx[PathOf[s]], s).readers = mtx[PathOf[s]].readers
      BY MutexOperations
    <3> QED
      BY <3>1, <3>2
  <2>3. pc' = [pc EXCEPT ![s] = "rlock"] /\ writer' = writer
    BY <1>4 DEF RLock
  <2>4. Agrees'
    BY <2>1, <2>2, <2>3 DEF Agrees, Mutex
  <2> QED
    BY <2>1, <2>4
<1>5. CASE FirstStatement(s)
  BY <1>5 DEF Agrees, FirstStatement, Mutex
<1>6. CASE Return(s) \/ ReturnError(s)
  <2>1. Typed'
    <3>1. AfterRUnlock(Mutex(s), s) \in RWMutexes(Scripts)
      BY MutexOperations DEF Mutex
    <3>2. CASE Return(s)
      BY <3>1, <3>2 DEF Return, SetMutex
    <3>3. CASE ReturnError(s)
      BY <3>1, <3>3 DEF ReturnError, SetMutex
    <3> QED
      BY <1>6, <3>2, <3>3
  <2>2. \A p \in Paths : /\ mtx'[p].held = mtx[p].held
                         /\ mtx'[p].announced = mtx[p].announced
                         /\ mtx'[p].readers \subseteq mtx[p].readers
                         /\ \A t \in Scripts \ {s} :
                              t \in mtx[p].readers => t \in mtx'[p].readers
    <3>1. mtx' = [mtx EXCEPT ![PathOf[s]] = AfterRUnlock(mtx[PathOf[s]], s)]
      BY <1>6 DEF Return, ReturnError, SetMutex, Mutex
    <3>2. /\ AfterRUnlock(mtx[PathOf[s]], s).held = mtx[PathOf[s]].held
          /\ AfterRUnlock(mtx[PathOf[s]], s).announced = mtx[PathOf[s]].announced
          /\ AfterRUnlock(mtx[PathOf[s]], s).readers = mtx[PathOf[s]].readers \ {s}
      BY MutexOperations
    <3> QED
      BY <3>1, <3>2
  <2>3. pc' = [pc EXCEPT ![s] = "ready"] /\ writer' = writer
    BY <1>6 DEF Return, ReturnError
  <2>4. Agrees'
    <3>1. ASSUME NEW t \in Scripts, InQuery(t)' PROVE t \in Mutex(t)'.readers
      <4>1. t # s /\ InQuery(t)
        BY <2>3, <3>1
      <4>2. t \in mtx[PathOf[t]].readers
        BY <4>1 DEF Agrees, Mutex
      <4> QED
        BY <2>2, <4>1, <4>2 DEF Mutex
    <3>2. ASSUME NEW p \in Paths, mtx'[p].held
          PROVE  mtx'[p].readers = {} /\ mtx'[p].announced # NoWriter
      BY <2>2, <3>2 DEF Agrees
    <3>3. ASSUME NEW t \in Scripts
          PROVE  /\ InWrite(t)' => Mutex(t)'.held /\ Mutex(t)'.announced = t
                 /\ writer'[t] = "locking" =>
                      ~Mutex(t)'.held /\ Mutex(t)'.announced = t
      BY <2>2, <2>3 DEF Agrees, Mutex
    <3> QED
      BY <3>1, <3>2, <3>3 DEF Agrees
  <2> QED
    BY <2>1, <2>4
<1> QED
  BY <1>1, <1>2, <1>3, <1>4, <1>5, <1>6 DEF Script

LEMMA ProcessWritesKeeps ==
  ASSUME IInv, NEW s \in Scripts, ProcessWrites(s) PROVE IInv'
<1> USE DEF IInv, Typed
<1>1. CASE Receive(s) \/ Quit(s)
  BY <1>1, UnlockedSteps DEF Receive, Quit, scriptVars
<1>2. CASE AnnounceLock(s)
  <2>1. Typed'
    <3>1. Announced(Mutex(s), s) \in RWMutexes(Scripts)
      BY MutexOperations DEF Mutex
    <3> QED
      BY <1>2, <3>1 DEF AnnounceLock, SetMutex, scriptVars
  <2>2. /\ mtx[PathOf[s]].announced = NoWriter
        /\ mtx' = [mtx EXCEPT ![PathOf[s]] = Announced(mtx[PathOf[s]], s)]
    BY <1>2 DEF AnnounceLock, CanAnnounce, SetMutex, Mutex
  <2>3. /\ Announced(mtx[PathOf[s]], s).announced = s
        /\ Announced(mtx[PathOf[s]], s).held = mtx[PathOf[s]].held
        /\ Announced(mtx[PathOf[s]], s).readers = mtx[PathOf[s]].readers
    BY MutexOperations
  <2>4. writer' = [writer EXCEPT ![s] = "locking"] /\ pc' = pc
    BY <1>2 DEF AnnounceLock, scriptVars
  <2>5. Agrees'
    BY <2>2, <2>3, <2>4 DEF Agrees, Mutex
  <2> QED
    BY <2>1, <2>5
<1>3. CASE Lock(s)
  <2>1. Typed'
    <3>1. Locked(Mutex(s)) \in RWMutexes(Scripts)
      BY MutexOperations DEF Mutex
    <3> QED
      BY <1>3, <3>1 DEF Lock, SetMutex, scriptVars
  <2>2. Agrees'
    BY <1>3 DEF Agrees, Lock, CanLock, SetMutex, Mutex, Locked, RWMutexes,
                scriptVars
  <2> QED
    BY <2>1, <2>2
<1>4. CASE Execute(s) \/ Report(s)
  BY <1>4, UnlockedSteps DEF Execute, Report, scriptVars
<1>5. CASE Unlock(s)
  <2>1. Typed'
    <3>1. AfterUnlock(Mutex(s)) \in RWMutexes(Scripts)
      BY MutexOperations DEF Mutex
    <3> QED
      BY <1>5, <3>1 DEF Unlock, SetMutex, scriptVars
  <2>2. Agrees'
    BY <1>5 DEF Agrees, Unlock, SetMutex, Mutex, AfterUnlock, RWMutexes,
                scriptVars
  <2> QED
    BY <2>1, <2>2
<1> QED
  BY <1>1, <1>2, <1>3, <1>4, <1>5 DEF ProcessWrites

LEMMA IInvKept == IInv /\ [Next]_vars => IInv'
<1> SUFFICES ASSUME IInv, [Next]_vars PROVE IInv'
  OBVIOUS
<1>1. CASE UNCHANGED vars
  BY <1>1, UnlockedSteps DEF vars, scriptVars, IInv, Typed
<1> QED
  BY <1>1, ScriptKeeps, ProcessWritesKeeps DEF Next

LEMMA IInvExcludes == IInv => PathExclusive
  BY DEF IInv, Agrees, PathExclusive, Mutex

(* Whatever scripts run, on whatever paths: two writes of a path never     *)
(* overlap and no write comes between the two statements of a query_row.   *)
THEOREM PathsExclude == Spec => []PathExclusive
  BY IInvKept, InitEstablishes, IInvExcludes, PTL DEF Spec

----------------------------------------------------------------------------
(* Why a report never blocks: each call of exec has its own result channel *)
(* and is, until it is reported, at one place only: with the script that   *)
(* is about to send it, in the queue, or with processWrites.               *)

Unreported(w, n) == n \in DOMAIN w /\ w[n] = "none"

(* w: the results of a script's writes, q: its queue, out: what its        *)
(* goroutine is about to send, hand: what processWrites is at.             *)
OnePlace(w, q, out, hand) ==
    /\ \A n \in out \cup hand : Unreported(w, n)
    /\ out \cap hand = {}
    /\ \A i \in DOMAIN q :
         /\ Unreported(w, q[i])
         /\ q[i] \notin out \cup hand
         /\ \A j \in DOMAIN q : i # j => q[i] # q[j]

AtWrite == {"lock", "locking", "held"} \cup Reporting
Out(s)  == IF pc[s] = "sending" THEN {Len(writes[s])} ELSE {}
Hand(s) == IF writer[s] \in AtWrite THEN {cur[s]} ELSE {}

Results == {"none", "ok", "err"}

Queues ==
    /\ pc \in [Scripts -> ScriptPCs]
    /\ writer \in [Scripts -> WriterPCs]
    /\ writes \in [Scripts -> Seq(Results)]
    /\ queue \in [Scripts -> Seq(Nat)]
    /\ cur \in [Scripts -> Nat]

QInv ==
    /\ Queues
    /\ \A s \in Scripts : OnePlace(writes[s], queue[s], Out(s), Hand(s))

(* What exec, the send, the receive and the report do to a write's place.  *)
LEMMA Executed ==
  ASSUME NEW w \in Seq(Results), NEW q, NEW hand, OnePlace(w, q, {}, hand)
  PROVE  OnePlace(Append(w, "none"), q, {Len(w) + 1}, hand)
<1> DEFINE v == Append(w, "none")
<1>1. /\ v \in Seq(Results) /\ Len(v) = Len(w) + 1 /\ v[Len(w) + 1] = "none"
      /\ Len(w) + 1 \in DOMAIN v
  BY DEF Results
<1>2. ASSUME NEW n \in DOMAIN w
      PROVE  n \in DOMAIN v /\ v[n] = w[n] /\ n # Len(w) + 1
  BY <1>2 DEF Results
<1>3. \A n : Unreported(w, n) => Unreported(v, n) /\ n # Len(w) + 1
  BY <1>2 DEF Unreported
<1>4. Unreported(v, Len(w) + 1)
  BY <1>1 DEF Unreported
<1> HIDE DEF v
<1>5. OnePlace(v, q, {Len(w) + 1}, hand)
  BY <1>3, <1>4 DEF OnePlace
<1> QED
  BY <1>5 DEF v

LEMMA Sent ==
  ASSUME NEW w, NEW q \in Seq(Nat), NEW n \in Nat, NEW hand,
         OnePlace(w, q, {n}, hand)
  PROVE  OnePlace(w, Append(q, n), {}, hand)
<1> DEFINE r == Append(q, n)
<1>1. ASSUME NEW i \in DOMAIN r
      PROVE  \/ i \in DOMAIN q /\ r[i] = q[i]
             \/ i = Len(q) + 1 /\ r[i] = n
  BY <1>1
<1> HIDE DEF r
<1>2. \A i \in DOMAIN r : Unreported(w, r[i]) /\ r[i] \notin hand
  BY <1>1 DEF OnePlace
<1>3. \A i, j \in DOMAIN r : i # j => r[i] # r[j]
  BY <1>1 DEF OnePlace
<1>4. OnePlace(w, r, {}, hand)
  BY <1>2, <1>3 DEF OnePlace
<1> QED
  BY <1>4 DEF r

LEMMA Received ==
  ASSUME NEW w, NEW q \in Seq(Nat), q # <<>>, NEW out, OnePlace(w, q, out, {})
  PROVE  OnePlace(w, Tail(q), out, {Head(q)})
<1> DEFINE r == Tail(q)
<1>1. 1 \in DOMAIN q /\ Head(q) = q[1]
  OBVIOUS
<1>2. ASSUME NEW i \in DOMAIN r
      PROVE  i \in Nat /\ i + 1 \in DOMAIN q /\ i + 1 # 1 /\ r[i] = q[i + 1]
  BY <1>2
<1> HIDE DEF r
<1>3. \A i \in DOMAIN r : /\ Unreported(w, r[i])
                          /\ r[i] \notin out
                          /\ r[i] # q[1]
  BY <1>1, <1>2 DEF OnePlace
<1>4. ASSUME NEW i \in DOMAIN r, NEW j \in DOMAIN r, i # j PROVE r[i] # r[j]
  <2>1. i + 1 \in DOMAIN q /\ j + 1 \in DOMAIN q /\ i + 1 # j + 1
    BY <1>2, <1>4
  <2>2. q[i + 1] # q[j + 1]
    BY <2>1 DEF OnePlace
  <2> QED
    BY <1>2, <2>2
<1>5. Unreported(w, q[1]) /\ q[1] \notin out
  BY <1>1 DEF OnePlace
<1>6. \A n \in out : Unreported(w, n)
  BY DEF OnePlace
<1>7. OnePlace(w, r, out, {Head(q)})
  BY <1>1, <1>3, <1>4, <1>5, <1>6 DEF OnePlace
<1> QED
  BY <1>7 DEF r

LEMMA FunctionIsSeq ==
  ASSUME NEW n \in Nat, NEW v \in [1..n -> Results]
  PROVE  v \in Seq(Results) /\ Len(v) = n
  OBVIOUS

LEMMA Reported ==
  ASSUME NEW w, NEW v, NEW q, NEW out, NEW c, OnePlace(w, q, out, {c}),
         \A n \in DOMAIN w : n # c => n \in DOMAIN v /\ v[n] = w[n]
  PROVE  OnePlace(v, q, out, {})
<1>1. \A n : Unreported(w, n) /\ n # c => Unreported(v, n)
  BY DEF Unreported
<1> QED
  BY <1>1 DEF OnePlace

LEMMA Dropped ==
  ASSUME NEW w, NEW q, NEW out, NEW hand, OnePlace(w, q, out, hand)
  PROVE  OnePlace(w, q, out, {}) /\ OnePlace(w, q, {}, hand)
  BY DEF OnePlace

LEMMA QInvInit == Init => QInv
<1> SUFFICES ASSUME Init PROVE QInv
  OBVIOUS
<1>1. Queues
  BY DEF Init, Queues
<1>2. ASSUME NEW s \in Scripts
      PROVE  OnePlace(writes[s], queue[s], Out(s), Hand(s))
  <2>1. Out(s) = {} /\ Hand(s) = {} /\ queue[s] = <<>>
    BY DEF Init, Out, Hand, AtWrite
  <2> QED
    BY <2>1 DEF OnePlace
<1> QED
  BY <1>1, <1>2 DEF QInv

(* A step of one connection leaves the others' writes where they are.      *)
LEMMA OnlyOwn ==
  ASSUME QInv, Queues', NEW s \in Scripts,
         OnePlace(writes'[s], queue'[s], Out(s)', Hand(s)'),
         \A t \in Scripts \ {s} :
            /\ pc'[t] = pc[t] /\ writer'[t] = writer[t] /\ cur'[t] = cur[t]
            /\ writes'[t] = writes[t] /\ queue'[t] = queue[t]
  PROVE  QInv'
<1>1. ASSUME NEW t \in Scripts \ {s}
      PROVE  OnePlace(writes'[t], queue'[t], Out(t)', Hand(t)')
  <2>1. Out(t)' = Out(t) /\ Hand(t)' = Hand(t)
    BY DEF Out, Hand
  <2> QED
    BY <2>1 DEF QInv
<1> QED
  BY <1>1 DEF QInv

LEMMA ScriptQueues ==
  ASSUME QInv, NEW s \in Scripts, Script(s) PROVE QInv'
<1> USE DEF Queues
<1>1. OnePlace(writes[s], queue[s], Out(s), Hand(s)) /\ Queues
  BY DEF QInv
<1>2. ASSUME Queues', writes' = writes, queue' = queue, cur' = cur,
             pc'[s] # "sending", writer[s] \notin AtWrite \/ writer' = writer,
             writer'[s] \in AtWrite => writer' = writer,
             \A t \in Scripts \ {s} : pc'[t] = pc[t] /\ writer'[t] = writer[t]
      PROVE  QInv'
  <2>1. Out(s)' = {} /\ (Hand(s)' = Hand(s) \/ Hand(s)' = {})
    BY <1>2 DEF Out, Hand
  <2>2. OnePlace(writes[s], queue[s], {}, Hand(s)')
    BY <1>1, <2>1, Dropped
  <2> QED
    BY <1>2, <2>1, <2>2, OnlyOwn
<1>3. CASE Connect(s)
  <2>1. Queues' /\ writer'[s] \notin AtWrite /\ pc'[s] # "sending"
    BY <1>1, <1>3 DEF Connect, AtWrite
  <2>2. OnePlace(writes[s], queue[s], {}, {})
    BY <1>1, Dropped
  <2>3. Out(s)' = {} /\ Hand(s)' = {}
    BY <2>1 DEF Out, Hand
  <2>4. /\ writes' = writes /\ queue' = queue /\ cur' = cur
        /\ \A t \in Scripts \ {s} : pc'[t] = pc[t] /\ writer'[t] = writer[t]
    BY <1>1, <1>3 DEF Connect
  <2> QED
    BY <2>1, <2>2, <2>3, <2>4, OnlyOwn
<1>4. CASE WaitReturns(s) \/ End(s) \/ RLock(s) \/ FirstStatement(s) \/ Return(s)
             \/ ReturnError(s)
  BY <1>1, <1>2, <1>4 DEF WaitReturns, End, RLock, FirstStatement, Return, ReturnError
<1>5. CASE Close(s)
  BY <1>1, <1>2, <1>5 DEF Close, scriptVars
<1>6. ASSUME NEW n \in DOMAIN writes[s], Wait(s, n) \/ Check(s, n) PROVE QInv'
  BY <1>1, <1>2, <1>6 DEF Wait, Check
<1>7. CASE Exec(s)
  <2> DEFINE w == writes[s]
             v == Append(w, "none")
  <2>1. /\ pc[s] = "ready" /\ pc' = [pc EXCEPT ![s] = "sending"]
        /\ writes' = [writes EXCEPT ![s] = v]
        /\ UNCHANGED <<queue, writer, cur>>
    BY <1>7 DEF Exec
  <2>2. w \in Seq(Results) /\ v \in Seq(Results) /\ Len(v) = Len(w) + 1
    BY <1>1 DEF Results
  <2>3. Queues' /\ writes'[s] = v /\ pc'[s] = "sending"
    BY <1>1, <2>1, <2>2
  <2>4. Out(s) = {} /\ Out(s)' = {Len(w) + 1} /\ Hand(s)' = Hand(s)
    BY <2>1, <2>2, <2>3 DEF Out, Hand
  <2>5. OnePlace(v, queue[s], {Len(w) + 1}, Hand(s))
    BY <1>1, <2>2, <2>4, Executed
  <2> HIDE DEF v
  <2>6. OnePlace(writes'[s], queue'[s], Out(s)', Hand(s)')
    BY <2>1, <2>3, <2>4, <2>5
  <2> QED
    BY <1>1, <2>1, <2>3, <2>6, OnlyOwn
<1>8. CASE Enqueue(s)
  <2> DEFINE q == queue[s]
             n == Len(writes[s])
             r == Append(q, n)
  <2>1. /\ pc[s] = "sending" /\ pc' = [pc EXCEPT ![s] = "ready"]
        /\ queue' = [queue EXCEPT ![s] = r]
        /\ UNCHANGED <<writes, writer, cur>>
    BY <1>8 DEF Enqueue
  <2>2. q \in Seq(Nat) /\ n \in Nat /\ r \in Seq(Nat)
    BY <1>1
  <2>3. Queues' /\ queue'[s] = r /\ pc'[s] = "ready"
    BY <1>1, <2>1, <2>2
  <2>4. Out(s) = {n} /\ Out(s)' = {} /\ Hand(s)' = Hand(s)
    BY <2>1, <2>3 DEF Out, Hand
  <2>5. OnePlace(writes[s], r, {}, Hand(s))
    BY <1>1, <2>2, <2>4, Sent
  <2> HIDE DEF r
  <2>6. OnePlace(writes'[s], queue'[s], Out(s)', Hand(s)')
    BY <2>1, <2>3, <2>4, <2>5
  <2> QED
    BY <1>1, <2>1, <2>3, <2>6, OnlyOwn
<1> QED
  BY <1>3, <1>4, <1>5, <1>6, <1>7, <1>8 DEF Script

LEMMA ProcessWritesQueues ==
  ASSUME QInv, NEW s \in Scripts, ProcessWrites(s) PROVE QInv'
<1> USE DEF Queues
<1>1. OnePlace(writes[s], queue[s], Out(s), Hand(s)) /\ Queues
  BY DEF QInv
<1>2. CASE Quit(s) \/ AnnounceLock(s) \/ Lock(s) \/ Execute(s) \/ Unlock(s)
  <2>1. /\ Queues' /\ pc' = pc /\ writes' = writes /\ queue' = queue
        /\ \A t \in Scripts \ {s} : writer'[t] = writer[t] /\ cur'[t] = cur[t]
    <3>1. CASE Quit(s)
      BY <1>1, <3>1 DEF Quit, scriptVars
    <3>2. CASE AnnounceLock(s)
      BY <1>1, <3>2 DEF AnnounceLock, scriptVars
    <3>3. CASE Lock(s)
      BY <1>1, <3>3 DEF Lock, scriptVars
    <3>4. CASE Execute(s)
      BY <1>1, <3>4 DEF Execute, scriptVars
    <3>5. CASE Unlock(s)
      BY <1>1, <3>5 DEF Unlock, scriptVars
    <3> QED
      BY <1>2, <3>1, <3>2, <3>3, <3>4, <3>5
  <2>2. writer'[s] \in AtWrite => writer[s] \in AtWrite /\ cur'[s] = cur[s]
    BY <1>1, <1>2 DEF AtWrite, Quit, AnnounceLock, Lock, Execute, Unlock,
                      scriptVars
  <2>3. Out(s)' = Out(s) /\ (Hand(s)' = Hand(s) \/ Hand(s)' = {})
    BY <2>1, <2>2 DEF Out, Hand
  <2>4. OnePlace(writes[s], queue[s], Out(s), Hand(s)')
    <3>1. CASE Hand(s)' = Hand(s)
      BY <1>1, <3>1
    <3>2. CASE Hand(s)' = {}
      <4>1. OnePlace(writes[s], queue[s], Out(s), {})
        BY <1>1, Dropped
      <4> QED
        BY <3>2, <4>1
    <3> QED
      BY <2>3, <3>1, <3>2
  <2> QED
    BY <2>1, <2>3, <2>4, OnlyOwn
<1>3. CASE Receive(s)
  <2> DEFINE q == queue[s]
             r == Tail(q)
  <2>1. /\ writer[s] = "select" /\ writer' = [writer EXCEPT ![s] = "lock"]
        /\ q # <<>> /\ queue' = [queue EXCEPT ![s] = r]
        /\ cur' = [cur EXCEPT ![s] = Head(q)]
        /\ UNCHANGED <<writes, pc>>
    BY <1>3 DEF Receive, scriptVars
  <2>2. q \in Seq(Nat) /\ r \in Seq(Nat) /\ Head(q) \in Nat
    BY <1>1, <2>1
  <2>3. Queues' /\ queue'[s] = r /\ cur'[s] = Head(q) /\ writer'[s] = "lock"
    BY <1>1, <2>1, <2>2
  <2>4. Out(s)' = Out(s) /\ Hand(s) = {} /\ Hand(s)' = {Head(q)}
    BY <2>1, <2>3 DEF Out, Hand, AtWrite
  <2>5. OnePlace(writes[s], r, Out(s), {Head(q)})
    BY <1>1, <2>1, <2>2, <2>4, Received
  <2> HIDE DEF r
  <2>6. OnePlace(writes'[s], queue'[s], Out(s)', Hand(s)')
    BY <2>1, <2>3, <2>4, <2>5
  <2> QED
    BY <1>1, <2>1, <2>3, <2>6, OnlyOwn
<1>4. CASE Report(s)
  <2> DEFINE w == writes[s]
             r == IF writer[s] = "sendOk" THEN "ok" ELSE "err"
             v == [w EXCEPT ![cur[s]] = r]
  <2>1. /\ writer[s] \in AtWrite /\ writer' = [writer EXCEPT ![s] = "unlock"]
        /\ writes' = [writes EXCEPT ![s] = v]
        /\ UNCHANGED <<queue, cur, pc>>
    BY <1>4 DEF Report, AtWrite, scriptVars
  <2>2. w \in Seq(Results) /\ r \in Results /\ Hand(s) = {cur[s]}
    BY <1>1, <2>1 DEF Results, Hand
  <2>3. /\ v \in Seq(Results) /\ Len(v) = Len(w)
        /\ OnePlace(v, queue[s], Out(s), {})
    <3> HIDE DEF r
    <3>1. v \in Seq(Results) /\ Len(v) = Len(w)
      <4>1. Len(w) \in Nat /\ w \in [1..Len(w) -> Results]
        BY <2>2
      <4>2. v \in [1..Len(w) -> Results]
        BY <2>2, <4>1
      <4> HIDE DEF v
      <4> QED
        BY <4>1, <4>2, FunctionIsSeq
    <3>2. \A n \in DOMAIN w : n # cur[s] => n \in DOMAIN v /\ v[n] = w[n]
      OBVIOUS
    <3>3. OnePlace(w, queue[s], Out(s), {cur[s]})
      BY <1>1, <2>2
    <3> HIDE DEF v
    <3> QED
      BY <3>1, <3>2, <3>3, Reported
  <2> HIDE DEF v
  <2>4. Queues' /\ writes'[s] = v /\ writer'[s] = "unlock"
    BY <1>1, <2>1, <2>3
  <2>5. Out(s)' = Out(s) /\ Hand(s)' = {}
    BY <2>1, <2>3, <2>4 DEF Out, Hand, AtWrite
  <2>6. OnePlace(writes'[s], queue'[s], Out(s)', Hand(s)')
    BY <2>1, <2>3, <2>4, <2>5
  <2> QED
    BY <1>1, <2>1, <2>4, <2>6, OnlyOwn
<1> QED
  BY <1>2, <1>3, <1>4 DEF ProcessWrites

LEMMA QInvKept == QInv /\ [Next]_vars => QInv'
<1> SUFFICES ASSUME QInv, [Next]_vars PROVE QInv'
  OBVIOUS
<1>1. CASE UNCHANGED vars
  BY <1>1 DEF vars, scriptVars, QInv, Queues, Out, Hand
<1> QED
  BY <1>1, ScriptQueues, ProcessWritesQueues DEF Next

(* Whatever scripts do with their connections, waiting for results or not: *)
(* processWrites, which sends a result while it holds the path's lock,     *)
(* finds room for it at once.                                              *)
THEOREM ReportsNeverBlock == Spec => []ReportNeverBlocks
<1>1. QInv => ReportNeverBlocks
  BY DEF QInv, OnePlace, Hand, AtWrite, Unreported, ReportNeverBlocks, CanSend
<1> QED
  BY <1>1, QInvKept, QInvInit, PTL DEF Spec
-----------------------------------------------------------------------------
(* The refinement.  A script's unreported writes are worked off in the     *)
(* order of exec, the database holds exactly those that SQLite executed,   *)
(* and nothing is written while a query is under way.                      *)

InOrder(w, q, out, hand) ==
    /\ \A n : Unreported(w, n) => n \in out \cup hand \cup {q[i] : i \in DOMAIN q}
    /\ \A c \in hand : (\A i \in DOMAIN q : c < q[i]) /\ (\A o \in out : c < o)
    /\ \A i \in DOMAIN q : /\ \A j \in DOMAIN q : i < j => q[i] < q[j]
                           /\ \A o \in out : q[i] < o

Has(d, x)  == \E i \in DOMAIN d : d[i] = x
InDb(s, n) == Has(db[PathOf[s]], <<s, n>>)

Ok(s, n)  == writes[s][n] = "ok" \/ (writer[s] = "sendOk" /\ cur[s] = n)
Err(s, n) == writes[s][n] = "err" \/ (writer[s] = "sendErr" /\ cur[s] = n)

Ordered  == \A s \in Scripts : InOrder(writes[s], queue[s], Out(s), Hand(s))
Stored   == /\ db \in [Paths -> Seq(Scripts \X Nat)]
            /\ \A s \in Scripts : \A n : InDb(s, n) <=> n \in DOMAIN writes[s] /\ Ok(s, n)
Snapshot == /\ DOMAIN seen = Scripts
            /\ \A s \in Scripts : InQuery(s) => seen[s] = db[PathOf[s]]
Waits    == /\ DOMAIN want = Scripts
            /\ \A s \in Scripts : pc[s] = "waiting" => want[s] \in DOMAIN writes[s]
Idles    == \A s \in Scripts : pc[s] = "idle" => writer[s] = "off"

(* No write comes between the statements of a query, a script waits for a  *)
(* write it has made, and a connection that is not there writes nothing.   *)
Steady == Snapshot /\ Waits /\ Idles

FInv == Ordered /\ Stored /\ Steady

(* What the service sees of a write, without the database.                 *)
Seen(s, n) == IF Ok(s, n) THEN "ok" ELSE IF Err(s, n) THEN "err" ELSE "pending"

StatusSeen ==
    Status = [s \in Scripts |-> [n \in DOMAIN writes[s] |-> Seen(s, n)]]

LEMMA StatusIs == Stored => StatusSeen
<1> SUFFICES ASSUME Stored PROVE StatusSeen
  OBVIOUS
<1>1. ASSUME NEW s \in Scripts, NEW n \in DOMAIN writes[s]
      PROVE  Decided(s, n) = Seen(s, n)
  <2>1. InDb(s, n) <=> Ok(s, n)
    BY <1>1 DEF Stored
  <2>2. Decided(s, n) = IF InDb(s, n) THEN "ok"
                        ELSE IF Err(s, n) THEN "err" ELSE "pending"
    BY DEF Decided, InDb, Has, Err
  <2> QED
    BY <2>1, <2>2 DEF Seen
<1> QED
  BY <1>1 DEF Status, StatusSeen

LEMMA StatusWillBe == (Stored => StatusSeen)'
  BY StatusIs, PTL

(* A step by which the service sees no write decided.                      *)
LEMMA DecidesNothing ==
  ASSUME FInv, db' = db,
         \A s \in Scripts : DOMAIN writes'[s] = DOMAIN writes[s],
         \A s \in Scripts : \A n \in DOMAIN writes[s] :
            (Ok(s, n)' <=> Ok(s, n)) /\ (Err(s, n)' <=> Err(s, n))
  PROVE  Stored' /\ Status' = Status
<1>1. ASSUME NEW s \in Scripts, NEW n
      PROVE  InDb(s, n)' <=> n \in DOMAIN writes'[s] /\ Ok(s, n)'
  <2>1. InDb(s, n)' <=> InDb(s, n)
    BY DEF InDb
  <2>2. InDb(s, n) <=> n \in DOMAIN writes[s] /\ Ok(s, n)
    BY DEF FInv, Stored
  <2> QED
    BY <2>1, <2>2
<1>2. Stored'
  BY <1>1 DEF FInv, Stored
<1>3. ASSUME NEW s \in Scripts, NEW n \in DOMAIN writes[s]
      PROVE  Seen(s, n)' = Seen(s, n)
  BY DEF Seen
<1>4. StatusSeen /\ StatusSeen'
  BY <1>2, StatusIs, StatusWillBe DEF FInv
<1>5. Status' = Status
  BY <1>3, <1>4 DEF StatusSeen
<1> QED
  BY <1>2, <1>5

(* A step that moves no write either.                                      *)
LEMMA QuietStep ==
  ASSUME QInv, QInv', FInv, writes' = writes, queue' = queue, db' = db,
         \A s \in Scripts :
            /\ Out(s)' = Out(s) /\ Hand(s)' = Hand(s)
            /\ \A l \in Reporting : writer'[s] = l <=> writer[s] = l
  PROVE  Ordered' /\ Stored' /\ Status' = Status
<1>1. Ordered'
  BY DEF FInv, Ordered
<1>2. ASSUME NEW s \in Scripts, writer[s] \in Reporting PROVE cur'[s] = cur[s]
  <2>1. Hand(s) = {cur[s]} /\ Hand(s)' = {cur'[s]}
    BY <1>2 DEF Hand, AtWrite
  <2> QED
    BY <2>1
<1>3. ASSUME NEW s \in Scripts, NEW n
      PROVE  (Ok(s, n)' <=> Ok(s, n)) /\ (Err(s, n)' <=> Err(s, n))
  BY <1>2 DEF Ok, Err
<1> QED
  BY <1>1, <1>3, DecidesNothing

LEMMA FunctionAppend ==
  ASSUME NEW R, NEW k \in Nat, NEW f \in [1..k -> R], NEW x \in R,
         NEW g \in [1..(k + 1) -> R],
         \A i \in 1..k : g[i] = f[i], g[k + 1] = x
  PROVE  g = Append(f, x)
<1> DEFINE b == Append(f, x)
<1>1. f \in Seq(R) /\ Len(f) = k
  OBVIOUS
<1>2. /\ b \in Seq(R) /\ Len(b) = k + 1
      /\ \A i \in 1..k : b[i] = f[i]
      /\ b[k + 1] = x
  BY <1>1
<1> HIDE DEF b
<1>3. b \in [1..(k + 1) -> R]
  BY <1>2
<1>4. \A i \in 1..(k + 1) : b[i] = g[i]
  BY <1>2
<1>5. b = g
  BY <1>3, <1>4
<1> QED
  BY <1>5 DEF b

LEMMA SubmitStep ==
  ASSUME QInv, QInv', FInv, NEW s \in Scripts, Exec(s)
  PROVE  Ordered' /\ Stored' /\ S!Submit(s)
<1> DEFINE w == writes[s]
           v == Append(w, "none")
<1> USE DEF Queues
<1>0. PICK k \in Nat : k = Len(w)
  BY DEF QInv
<1>1. /\ pc[s] = "ready" /\ pc' = [pc EXCEPT ![s] = "sending"]
      /\ writes' = [writes EXCEPT ![s] = v]
      /\ UNCHANGED <<queue, writer, cur, db, taken, got>>
  BY DEF Exec, Goto
<1>2. /\ w \in Seq(Results) /\ writes'[s] = v
      /\ DOMAIN w = 1..k /\ DOMAIN v = 1..(k + 1) /\ Len(v) = k + 1
      /\ v[k + 1] = "none" /\ \A n \in DOMAIN w : v[n] = w[n]
  BY <1>0, <1>1 DEF QInv, Results
<1> HIDE DEF v
<1>3. ASSUME NEW t \in Scripts, t # s
      PROVE  writes'[t] = writes[t] /\ Out(t)' = Out(t) /\ Hand(t)' = Hand(t)
  <2>1. writes'[t] = writes[t] /\ pc'[t] = pc[t]
    BY <1>1, <1>3 DEF QInv
  <2> QED
    BY <1>1, <2>1 DEF Out, Hand
<1>4. Out(s) = {} /\ Out(s)' = {k + 1} /\ Hand(s)' = Hand(s)
  <2>1. pc'[s] = "sending"
    BY <1>1 DEF QInv
  <2> QED
    BY <1>1, <1>2, <2>1 DEF Out, Hand
<1>5. InOrder(v, queue[s], {k + 1}, Hand(s))
  <2>1. \A n : Unreported(v, n) => n = k + 1 \/ Unreported(w, n)
    BY <1>2 DEF Unreported
  <2>2. OnePlace(w, queue[s], Out(s), Hand(s)) /\ InOrder(w, queue[s], Out(s), Hand(s))
    BY DEF QInv, FInv, Ordered
  <2>3. /\ \A n \in Hand(s) : n < k + 1
        /\ \A i \in DOMAIN queue[s] : queue[s][i] < k + 1
    BY <1>2, <2>2 DEF OnePlace, Unreported
  <2> QED
    BY <1>4, <2>1, <2>2, <2>3 DEF InOrder
<1>6. Ordered'
  BY <1>1, <1>2, <1>3, <1>4, <1>5 DEF Ordered, FInv
<1>7. cur[s] # k + 1 \/ writer[s] \notin Reporting
  <2>1. Hand(s) = {cur[s]} => Unreported(w, cur[s])
    BY DEF QInv, OnePlace
  <2> QED
    BY <1>2, <2>1 DEF Hand, AtWrite, Unreported
<1>8. /\ \A n \in DOMAIN w : (Ok(s, n)' <=> Ok(s, n)) /\ (Err(s, n)' <=> Err(s, n))
      /\ ~Ok(s, k + 1)' /\ ~Err(s, k + 1)'
  <2>1. \A n \in DOMAIN w : writes'[s][n] = writes[s][n]
    BY <1>2
  <2>2. writes'[s][k + 1] = "none"
    BY <1>2
  <2> QED
    BY <1>1, <1>7, <2>1, <2>2 DEF Ok, Err
<1>9. ASSUME NEW t \in Scripts, t # s, NEW n
      PROVE  (Ok(t, n)' <=> Ok(t, n)) /\ (Err(t, n)' <=> Err(t, n))
  BY <1>1, <1>3, <1>9 DEF Ok, Err
<1>10. Stored'
  <2>1. ASSUME NEW t \in Scripts, NEW n
        PROVE  InDb(t, n)' <=> n \in DOMAIN writes'[t] /\ Ok(t, n)'
    <3>1. InDb(t, n)' <=> n \in DOMAIN writes[t] /\ Ok(t, n)
      BY <1>1 DEF FInv, Stored, InDb
    <3>2. CASE t # s
      BY <1>3, <1>9, <3>1, <3>2
    <3>3. CASE t = s
      <4>1. n \in DOMAIN writes'[s] <=> n \in DOMAIN w \/ n = k + 1
        BY <1>2
      <4> QED
        BY <1>2, <1>8, <3>1, <3>3, <4>1
    <3> QED
      BY <3>2, <3>3
  <2> QED
    BY <1>1, <2>1 DEF FInv, Stored
<1>11. Status' = [Status EXCEPT ![s] = Append(Status[s], "pending")]
  <2>1. StatusSeen /\ StatusSeen'
    BY <1>10, StatusIs, StatusWillBe DEF FInv
  <2>2. ASSUME NEW t \in Scripts, t # s PROVE Status'[t] = Status[t]
    <3>1. \A n : Seen(t, n)' = Seen(t, n)
      BY <1>9, <2>2 DEF Seen
    <3> QED
      BY <1>3, <2>1, <2>2, <3>1 DEF StatusSeen
  <2>3. Status'[s] = Append(Status[s], "pending")
    <3> DEFINE a == Status[s]
    <3>1. a = [n \in 1..k |-> Seen(s, n)]
      BY <1>2, <2>1 DEF StatusSeen
    <3>2. a \in [1..k -> {"ok", "err", "pending"}]
      BY <3>1 DEF Seen
    <3>3. Status'[s] = [n \in 1..(k + 1) |-> Seen(s, n)']
      BY <1>2, <2>1 DEF StatusSeen
    <3>4. \A n \in 1..k : Seen(s, n)' = a[n]
      BY <1>2, <1>8, <3>1 DEF Seen
    <3>5. Seen(s, k + 1)' = "pending"
      BY <1>8 DEF Seen
    <3> DEFINE b == Status'[s]
    <3>6. b \in [1..(k + 1) -> {"ok", "err", "pending"}]
      BY <3>3 DEF Seen
    <3>7. (\A n \in 1..k : b[n] = a[n]) /\ b[k + 1] = "pending"
      BY <1>0, <3>3, <3>4, <3>5
    <3> HIDE DEF a, b
    <3>8. b = Append(a, "pending")
      BY <1>0, <3>2, <3>6, <3>7, FunctionAppend
    <3> QED
      BY <3>8 DEF a, b
  <2>4. Status = [t \in Scripts |-> Status[t]] /\ Status' = [t \in Scripts |-> Status'[t]]
    BY DEF Status
  <2> QED
    BY <2>2, <2>3, <2>4
<1> QED
  BY <1>1, <1>6, <1>10, <1>11 DEF S!Submit

(* A step by which it sees one write decided.                              *)
LEMMA DecidesOne ==
  ASSUME FInv, Stored', writes' = writes, NEW s \in Scripts,
         NEW n \in DOMAIN writes[s], NEW r, Seen(s, n)' = r,
         \A t \in Scripts : \A m \in DOMAIN writes[t] :
            t # s \/ m # n => Seen(t, m)' = Seen(t, m)
  PROVE  Status' = [Status EXCEPT ![s] = [@ EXCEPT ![n] = r]]
<1>1. StatusSeen /\ StatusSeen'
  BY StatusIs, StatusWillBe DEF FInv
<1>2. ASSUME NEW t \in Scripts, t # s PROVE Status'[t] = Status[t]
  BY <1>1, <1>2 DEF StatusSeen
<1>3. Status'[s] = [m \in DOMAIN writes[s] |-> Seen(s, m)']
  BY <1>1 DEF StatusSeen
<1>4. Status[s] = [m \in DOMAIN writes[s] |-> Seen(s, m)]
  BY <1>1 DEF StatusSeen
<1>5. Status'[s] = [Status[s] EXCEPT ![n] = r]
  BY <1>3, <1>4
<1>6. Status = [t \in Scripts |-> Status[t]] /\ Status' = [t \in Scripts |-> Status'[t]]
  BY DEF Status
<1> QED
  BY <1>2, <1>5, <1>6

LEMMA Appended ==
  ASSUME NEW R, NEW d \in Seq(R), NEW x \in R, NEW y
  PROVE  Has(Append(d, x), y) <=> Has(d, y) \/ x = y
<1> DEFINE e == Append(d, x)
           k == Len(d)
<1>1. /\ k \in Nat /\ DOMAIN e = 1..(k + 1) /\ DOMAIN d = 1..k
      /\ \A i \in 1..k : e[i] = d[i]
      /\ e[k + 1] = x
  OBVIOUS
<1> HIDE DEF e, k
<1>2. \A i \in 1..(k + 1) : i \in 1..k \/ i = k + 1
  BY <1>1
<1>3. Has(e, y) <=> Has(d, y) \/ x = y
  BY SMTT(30), <1>1, <1>2 DEF Has
<1> QED
  BY <1>3 DEF e

(* processWrites executes the oldest write that is not decided.            *)
LEMMA DecideStep ==
  ASSUME QInv, QInv', FInv, NEW s \in Scripts, Execute(s)
  PROVE  /\ Ordered' /\ Stored'
         /\ \E n \in DOMAIN Status[s] : S!Decide(s, n)
<1> USE DEF Queues
<1>0. PICK n \in Nat : n = cur[s]
  BY DEF QInv
<1> DEFINE w == writes[s]
<1>1. /\ writer[s] = "held"
      /\ \/ /\ db' = [db EXCEPT ![PathOf[s]] = Append(@, <<s, n>>)]
            /\ writer' = [writer EXCEPT ![s] = "sendOk"]
         \/ /\ db' = db
            /\ writer' = [writer EXCEPT ![s] = "sendErr"]
      /\ UNCHANGED <<pc, writes, queue, cur, taken, got>>
  BY <1>0 DEF Execute, WriterGoto, scriptVars
<1>2. Hand(s) = {n} /\ n \in DOMAIN w /\ w[n] = "none"
  <2>1. Hand(s) = {n}
    BY <1>0, <1>1 DEF Hand, AtWrite
  <2> QED
    BY <2>1 DEF QInv, OnePlace, Unreported
<1>3. ASSUME NEW m \in DOMAIN w, m < n PROVE w[m] \in {"ok", "err"}
  <2>1. ~Unreported(w, m)
    <3>1. InOrder(w, queue[s], Out(s), {n})
      BY <1>2 DEF FInv, Ordered
    <3>2. n \in Nat /\ m \in Nat /\ queue[s] \in Seq(Nat) /\ Out(s) \subseteq Nat
      BY <1>0, <1>3 DEF QInv, Out
    <3> QED
      BY <1>3, <3>1, <3>2 DEF InOrder
  <2> QED
    BY <1>3, <2>1 DEF QInv, Unreported, Results
<1>4. Seen(s, n) = "pending"
  BY <1>1, <1>2 DEF Seen, Ok, Err
<1>5. ASSUME NEW m \in DOMAIN w, m < n PROVE Seen(s, m) # "pending"
  BY <1>3, <1>5 DEF Seen, Ok, Err
<1>6. /\ \A t \in Scripts : Out(t)' = Out(t) /\ Hand(t)' = Hand(t)
      /\ writer' \in [Scripts -> WriterPCs]
      /\ \A t \in Scripts \ {s} : writer'[t] = writer[t]
  <2>1. /\ writer' \in [Scripts -> WriterPCs]
        /\ \A t \in Scripts \ {s} : writer'[t] = writer[t]
        /\ writer'[s] \in Reporting
    BY <1>1 DEF QInv
  <2> QED
    BY <1>1, <2>1 DEF Out, Hand, AtWrite
<1>7. Ordered'
  BY <1>1, <1>6 DEF Ordered, FInv
<1>8. ASSUME NEW t \in Scripts, NEW m \in DOMAIN writes[t], t # s \/ m # n
      PROVE  (Ok(t, m)' <=> Ok(t, m)) /\ (Err(t, m)' <=> Err(t, m))
  BY <1>0, <1>1, <1>6, <1>8 DEF Ok, Err
<1>9. \A t \in Scripts : \A m \in DOMAIN writes[t] :
          t # s \/ m # n => Seen(t, m)' = Seen(t, m)
  BY <1>8 DEF Seen
<1>10. /\ n \in DOMAIN Status[s] /\ Status[s][n] = "pending"
       /\ \A m \in 1..(n - 1) : Status[s][m] # "pending"
  <2>1. Status[s] = [m \in DOMAIN w |-> Seen(s, m)]
    BY StatusIs DEF FInv, StatusSeen
  <2>2. DOMAIN w = 1..Len(w) /\ Len(w) \in Nat
    BY DEF QInv
  <2>3. ASSUME NEW m \in 1..(n - 1) PROVE m \in DOMAIN w /\ m < n
    BY <1>0, <1>2, <2>2
  <2> QED
    BY <1>2, <1>4, <1>5, <2>1, <2>3
<1>11. CASE /\ db' = [db EXCEPT ![PathOf[s]] = Append(@, <<s, n>>)]
           /\ writer' = [writer EXCEPT ![s] = "sendOk"]
  <2>1. db' \in [Paths -> Seq(Scripts \X Nat)]
    BY <1>11 DEF FInv, Stored
  <2>2. ASSUME NEW t \in Scripts, NEW m
        PROVE  InDb(t, m)' <=> InDb(t, m) \/ (t = s /\ m = n)
    <3>1. CASE PathOf[t] = PathOf[s]
      <4> DEFINE R == Scripts \X Nat
                 d == db[PathOf[s]]
                 x == <<s, n>>
                 y == <<t, m>>
      <4>1. /\ d \in Seq(R) /\ x \in R
            /\ db[PathOf[t]] = d /\ db'[PathOf[t]] = Append(d, x)
        BY <1>11, <3>1 DEF FInv, Stored
      <4> HIDE DEF R, d, x, y
      <4>2. Has(Append(d, x), y) <=> Has(d, y) \/ x = y
        BY <4>1, Appended
      <4>3. x = y <=> t = s /\ m = n
        BY DEF x, y
      <4> QED
        BY <4>1, <4>2, <4>3 DEF InDb, x, y
    <3>2. CASE PathOf[t] # PathOf[s]
      BY <1>11, <3>2 DEF InDb, FInv, Stored
    <3> QED
      BY <3>1, <3>2
  <2>3. Ok(s, n)'
    BY <1>0, <1>1, <1>11 DEF Ok, QInv
  <2>4. Stored'
    <3>1. ASSUME NEW t \in Scripts, NEW m
          PROVE  InDb(t, m)' <=> m \in DOMAIN writes'[t] /\ Ok(t, m)'
      <4>1. InDb(t, m) <=> m \in DOMAIN writes[t] /\ Ok(t, m)
        BY DEF FInv, Stored
      <4>2. CASE t = s /\ m = n
        BY <1>1, <1>2, <2>2, <2>3, <4>2
      <4>3. CASE t # s \/ m # n
        BY <1>1, <1>8, <2>2, <4>1, <4>3
      <4> QED
        BY <4>2, <4>3
    <3> QED
      BY <2>1, <3>1 DEF Stored
  <2>5. Seen(s, n)' = "ok"
    BY <2>3 DEF Seen
  <2>6. Status' = [Status EXCEPT ![s] = [@ EXCEPT ![n] = "ok"]]
    BY <1>1, <1>2, <1>9, <2>4, <2>5, DecidesOne
  <2> QED
    BY <1>1, <1>7, <1>11, <1>10, <2>4, <2>6 DEF S!Decide
<1>12. CASE db' = db /\ writer' = [writer EXCEPT ![s] = "sendErr"]
  <2>1. ~Ok(s, n)' /\ Err(s, n)' /\ ~Ok(s, n)
    BY <1>0, <1>1, <1>2, <1>12 DEF Ok, Err, QInv
  <2>2. Stored'
    <3>1. ASSUME NEW t \in Scripts, NEW m
          PROVE  InDb(t, m)' <=> m \in DOMAIN writes'[t] /\ Ok(t, m)'
      <4>1. InDb(t, m)' <=> InDb(t, m)
        BY <1>12 DEF InDb
      <4>2. InDb(t, m) <=> m \in DOMAIN writes[t] /\ Ok(t, m)
        BY DEF FInv, Stored
      <4> QED
        BY <1>1, <1>8, <2>1, <4>1, <4>2
    <3> QED
      BY <1>12, <3>1 DEF FInv, Stored
  <2>3. Seen(s, n)' = "err"
    BY <2>1 DEF Seen
  <2>4. Status' = [Status EXCEPT ![s] = [@ EXCEPT ![n] = "err"]]
    BY <1>1, <1>2, <1>9, <2>2, <2>3, DecidesOne
  <2> QED
    BY <1>1, <1>7, <1>12, <1>10, <2>2, <2>4 DEF S!Decide
<1> QED
  BY <1>1, <1>11, <1>12

(* The send, the receive and the report keep the writes in order.          *)
LEMMA SentInOrder ==
  ASSUME NEW w, NEW q \in Seq(Nat), NEW n \in Nat, NEW hand,
         InOrder(w, q, {n}, hand)
  PROVE  InOrder(w, Append(q, n), {}, hand)
<1> DEFINE r == Append(q, n)
<1>1. /\ Len(q) \in Nat /\ DOMAIN q = 1..Len(q) /\ DOMAIN r = 1..(Len(q) + 1)
      /\ \A i \in 1..Len(q) : r[i] = q[i]
      /\ r[Len(q) + 1] = n
  OBVIOUS
<1> HIDE DEF r
<1>2. \A i \in DOMAIN r : i \in DOMAIN q \/ i = Len(q) + 1
  BY <1>1
<1>3. ASSUME NEW m, Unreported(w, m) PROVE m \in hand \cup {r[i] : i \in DOMAIN r}
  <2>1. m = n \/ m \in hand \/ \E i \in DOMAIN q : m = q[i]
    BY <1>3 DEF InOrder
  <2>2. Len(q) + 1 \in DOMAIN r /\ \A i \in DOMAIN q : i \in DOMAIN r /\ r[i] = q[i]
    BY <1>1
  <2> QED
    BY <1>1, <2>1, <2>2
<1>4. \A c \in hand : \A i \in DOMAIN r : c < r[i]
  BY <1>1, <1>2 DEF InOrder
<1>5. ASSUME NEW i \in DOMAIN r, NEW j \in DOMAIN r, i < j PROVE r[i] < r[j]
  <2>1. i \in DOMAIN q /\ r[i] = q[i]
    BY <1>1, <1>2, <1>5
  <2>2. CASE j \in DOMAIN q
    BY <1>1, <1>5, <2>1, <2>2 DEF InOrder
  <2>3. CASE j = Len(q) + 1
    BY <1>1, <2>1, <2>3 DEF InOrder
  <2> QED
    BY <1>2, <2>2, <2>3
<1>6. InOrder(w, r, {}, hand)
  BY <1>3, <1>4, <1>5 DEF InOrder
<1> QED
  BY <1>6 DEF r

LEMMA ReceivedInOrder ==
  ASSUME NEW w, NEW q \in Seq(Nat), q # <<>>, NEW out, InOrder(w, q, out, {})
  PROVE  InOrder(w, Tail(q), out, {Head(q)})
<1> DEFINE r == Tail(q)
<1>1. /\ Len(q) \in Nat /\ 1 \in DOMAIN q /\ Head(q) = q[1]
      /\ DOMAIN q = 1..Len(q) /\ DOMAIN r = 1..(Len(q) - 1)
      /\ \A i \in DOMAIN r : r[i] = q[i + 1]
  OBVIOUS
<1> HIDE DEF r
<1>2. ASSUME NEW i \in DOMAIN r
      PROVE  i \in Nat /\ i + 1 \in DOMAIN q /\ 1 < i + 1 /\ r[i] = q[i + 1]
  BY <1>1
<1>3. ASSUME NEW m, Unreported(w, m)
      PROVE  m \in out \cup {q[1]} \cup {r[i] : i \in DOMAIN r}
  <2>1. m \in out \/ \E i \in DOMAIN q : m = q[i]
    BY <1>3 DEF InOrder
  <2>2. ASSUME NEW i \in DOMAIN q, i # 1 PROVE i - 1 \in DOMAIN r /\ r[i - 1] = q[i]
    <3>1. i - 1 \in DOMAIN r /\ (i - 1) + 1 = i
      BY <1>1, <2>2
    <3> QED
      BY <1>1, <3>1
  <2> QED
    BY SMTT(30), <2>1, <2>2
<1>4. (\A i \in DOMAIN r : q[1] < r[i]) /\ (\A o \in out : q[1] < o)
  BY <1>1, <1>2 DEF InOrder
<1>5. ASSUME NEW i \in DOMAIN r, NEW j \in DOMAIN r, i < j PROVE r[i] < r[j]
  <2>1. i + 1 < j + 1
    BY <1>2, <1>5
  <2> QED
    BY <1>2, <2>1 DEF InOrder
<1>6. \A i \in DOMAIN r : \A o \in out : r[i] < o
  BY <1>2 DEF InOrder
<1>7. InOrder(w, r, out, {q[1]})
  BY <1>3, <1>4, <1>5, <1>6 DEF InOrder
<1> QED
  BY <1>1, <1>7 DEF r

LEMMA ReportedInOrder ==
  ASSUME NEW w, NEW v, NEW q, NEW out, NEW c, InOrder(w, q, out, {c}),
         \A n : Unreported(v, n) => Unreported(w, n) /\ n # c
  PROVE  InOrder(v, q, out, {})
  BY DEF InOrder

(* The steps that move a write along, unseen by the service.               *)
LEMMA EnqueueStep ==
  ASSUME QInv, FInv, NEW s \in Scripts, Enqueue(s)
  PROVE  Ordered' /\ Stored' /\ Status' = Status
<1> USE DEF Queues
<1>0. PICK k \in Nat : k = Len(writes[s])
  BY DEF QInv
<1> DEFINE r == Append(queue[s], k)
<1>1. /\ pc[s] = "sending" /\ pc' = [pc EXCEPT ![s] = "ready"]
      /\ queue' = [queue EXCEPT ![s] = r]
      /\ UNCHANGED <<writes, writer, cur, db>>
  BY <1>0 DEF Enqueue
<1>2. InOrder(writes[s], r, {}, Hand(s))
  <2>1. InOrder(writes[s], queue[s], {k}, Hand(s)) /\ queue[s] \in Seq(Nat)
    BY <1>0, <1>1 DEF FInv, Ordered, Out, QInv
  <2> QED
    BY <2>1, SentInOrder
<1> HIDE DEF r
<1>3. ASSUME NEW t \in Scripts
      PROVE  InOrder(writes'[t], queue'[t], Out(t)', Hand(t)')
  <2>1. Hand(t)' = Hand(t)
    BY <1>1 DEF Hand
  <2>2. CASE t = s
    <3>1. queue'[s] = r /\ Out(s)' = {}
      BY <1>1 DEF QInv, Out
    <3> QED
      BY <1>1, <1>2, <2>1, <2>2, <3>1
  <2>3. CASE t # s
    <3>1. queue'[t] = queue[t] /\ Out(t)' = Out(t)
      BY <1>1, <2>3 DEF QInv, Out
    <3> QED
      BY <1>1, <2>1, <3>1 DEF FInv, Ordered
  <2> QED
    BY <2>2, <2>3
<1>4. Stored' /\ Status' = Status
  BY <1>1, DecidesNothing DEF Ok, Err
<1> QED
  BY <1>3, <1>4 DEF Ordered

LEMMA ReceiveStep ==
  ASSUME QInv, FInv, NEW s \in Scripts, Receive(s)
  PROVE  Ordered' /\ Stored' /\ Status' = Status
<1> USE DEF Queues
<1> DEFINE q == queue[s]
           r == Tail(q)
<1>1. /\ writer[s] = "select" /\ writer' = [writer EXCEPT ![s] = "lock"]
      /\ q # <<>> /\ queue' = [queue EXCEPT ![s] = r]
      /\ cur' = [cur EXCEPT ![s] = Head(q)]
      /\ UNCHANGED <<writes, pc, db>>
  BY DEF Receive, scriptVars
<1>2. InOrder(writes[s], r, Out(s), {Head(q)})
  <2>1. InOrder(writes[s], q, Out(s), {}) /\ q \in Seq(Nat)
    BY <1>1 DEF FInv, Ordered, Hand, AtWrite, QInv
  <2> QED
    BY <1>1, <2>1, ReceivedInOrder
<1> HIDE DEF r
<1>3. ASSUME NEW t \in Scripts
      PROVE  InOrder(writes'[t], queue'[t], Out(t)', Hand(t)')
  <2>1. Out(t)' = Out(t)
    BY <1>1 DEF Out
  <2>2. CASE t = s
    <3>1. queue'[s] = r /\ Hand(s)' = {Head(q)}
      BY <1>1 DEF QInv, Hand, AtWrite
    <3> QED
      BY <1>1, <1>2, <2>1, <2>2, <3>1
  <2>3. CASE t # s
    <3>1. queue'[t] = queue[t] /\ Hand(t)' = Hand(t)
      BY <1>1, <2>3 DEF QInv, Hand
    <3> QED
      BY <1>1, <2>1, <3>1 DEF FInv, Ordered
  <2> QED
    BY <2>2, <2>3
<1>4. ASSUME NEW t \in Scripts, NEW n
      PROVE  (Ok(t, n)' <=> Ok(t, n)) /\ (Err(t, n)' <=> Err(t, n))
  <2>1. CASE t = s
    <3>1. writer'[s] = "lock"
      BY <1>1 DEF QInv
    <3> QED
      BY <1>1, <2>1, <3>1 DEF Ok, Err
  <2>2. CASE t # s
    BY <1>1, <2>2 DEF Ok, Err, QInv
  <2> QED
    BY <2>1, <2>2
<1>5. Stored' /\ Status' = Status
  BY <1>1, <1>4, DecidesNothing
<1> QED
  BY <1>3, <1>5 DEF Ordered

LEMMA ReportStep ==
  ASSUME QInv, QInv', FInv, NEW s \in Scripts, Report(s)
  PROVE  Ordered' /\ Stored' /\ Status' = Status
<1> USE DEF Queues
<1>0. PICK c \in Nat : c = cur[s]
  BY DEF QInv
<1> DEFINE w == writes[s]
           r == IF writer[s] = "sendOk" THEN "ok" ELSE "err"
           v == [w EXCEPT ![c] = r]
<1>1. /\ writer[s] \in Reporting /\ writer' = [writer EXCEPT ![s] = "unlock"]
      /\ writes' = [writes EXCEPT ![s] = v]
      /\ UNCHANGED <<queue, cur, pc, db>>
  BY <1>0 DEF Report, scriptVars
<1>2. /\ Hand(s) = {c} /\ c \in DOMAIN w /\ w[c] = "none"
      /\ OnePlace(w, queue[s], Out(s), {c}) /\ InOrder(w, queue[s], Out(s), {c})
  <2>1. Hand(s) = {c}
    BY <1>0, <1>1 DEF Hand, AtWrite
  <2>2. OnePlace(w, queue[s], Out(s), {c}) /\ InOrder(w, queue[s], Out(s), {c})
    <3>1. OnePlace(w, queue[s], Out(s), Hand(s))
      BY DEF QInv
    <3>2. InOrder(w, queue[s], Out(s), Hand(s))
      BY DEF FInv, Ordered
    <3> QED
      BY <2>1, <3>1, <3>2
  <2>3. c \in DOMAIN w /\ w[c] = "none"
    BY <2>2 DEF OnePlace, Unreported
  <2> QED
    BY <2>1, <2>2, <2>3
<1>3. /\ DOMAIN v = DOMAIN w /\ v[c] = r /\ r # "none"
      /\ \A n \in DOMAIN w : n # c => v[n] = w[n]
  BY <1>2
<1>4. writes'[s] = v /\ writer'[s] = "unlock"
  BY <1>1 DEF QInv
<1> HIDE DEF v
<1>5. InOrder(v, queue[s], Out(s), {})
  BY <1>2, <1>3, ReportedInOrder DEF Unreported
<1>6. ASSUME NEW t \in Scripts, t # s
      PROVE  /\ writes'[t] = writes[t] /\ writer'[t] = writer[t]
             /\ Out(t)' = Out(t) /\ Hand(t)' = Hand(t)
  <2>1. writes'[t] = writes[t] /\ writer'[t] = writer[t]
    BY <1>1, <1>6 DEF QInv
  <2> QED
    BY <1>1, <2>1 DEF Out, Hand
<1>7. Out(s)' = Out(s) /\ Hand(s)' = {}
  <2>1. Len(v) = Len(w)
    <3>1. v \in Seq(Results) /\ w \in Seq(Results)
      BY <1>4 DEF QInv
    <3> QED
      BY <1>3, <3>1
  <2> QED
    BY <1>1, <1>4, <2>1 DEF Out, Hand, AtWrite
<1>8. Ordered'
  BY <1>1, <1>4, <1>5, <1>6, <1>7 DEF Ordered, FInv
<1>9. ASSUME NEW t \in Scripts, NEW n \in DOMAIN writes[t]
      PROVE  (Ok(t, n)' <=> Ok(t, n)) /\ (Err(t, n)' <=> Err(t, n))
  <2>1. CASE t # s
    BY <1>1, <1>6, <2>1 DEF Ok, Err
  <2>2. CASE t = s /\ n = c
    BY <1>0, <1>1, <1>2, <1>3, <1>4, <2>2 DEF Ok, Err
  <2>3. CASE t = s /\ n # c
    BY <1>0, <1>1, <1>3, <1>4, <2>3 DEF Ok, Err
  <2> QED
    BY <2>1, <2>2, <2>3
<1>10. \A t \in Scripts : DOMAIN writes'[t] = DOMAIN writes[t]
  BY <1>3, <1>4, <1>6
<1>11. Stored' /\ Status' = Status
  BY <1>1, <1>9, <1>10, DecidesNothing
<1> QED
  BY <1>8, <1>11

LEMMA ScriptSteady ==
  ASSUME QInv, Steady, NEW s \in Scripts, Script(s) PROVE Steady'
<1> USE DEF Queues, Steady
<1>1. CASE Connect(s)
  BY <1>1 DEF Connect, QInv, Snapshot, Waits, Idles
<1>2. CASE Exec(s)
  <2>1. /\ pc[s] = "ready" /\ pc' = [pc EXCEPT ![s] = "sending"]
        /\ writes' = [writes EXCEPT ![s] = Append(@, "none")]
        /\ UNCHANGED <<want, writer, seen, db>>
    BY <1>2 DEF Exec
  <2>2. Waits'
    <3>1. ASSUME NEW t \in Scripts, pc'[t] = "waiting"
          PROVE  want'[t] \in DOMAIN writes'[t]
      <4>1. t # s /\ pc[t] = "waiting"
        BY <2>1, <3>1 DEF QInv
      <4> QED
        BY <2>1, <4>1 DEF Waits, QInv
    <3> QED
      BY <2>1, <3>1 DEF Waits
  <2> QED
    BY <2>1, <2>2 DEF QInv, Snapshot, Idles
<1>3. CASE Enqueue(s) \/ End(s) \/ RLock(s)
  BY <1>3 DEF Enqueue, End, RLock, QInv, Snapshot, Waits, Idles
<1>4. CASE WaitReturns(s)
  BY <1>4 DEF WaitReturns, QInv, Snapshot, Waits, Idles
<1>5. CASE Close(s)
  BY <1>5 DEF Close, scriptVars, QInv, Snapshot, Waits, Idles
<1>6. CASE FirstStatement(s)
  BY <1>6 DEF FirstStatement, QInv, Snapshot, Waits, Idles
<1>7. CASE Return(s) \/ ReturnError(s)
  BY <1>7 DEF Return, ReturnError, QInv, Snapshot, Waits, Idles
<1>8. ASSUME NEW n \in DOMAIN writes[s], Wait(s, n) \/ Check(s, n) PROVE Steady'
  BY <1>8 DEF Wait, Check, QInv, Snapshot, Waits, Idles
<1> QED
  BY <1>1, <1>2, <1>3, <1>4, <1>5, <1>6, <1>7, <1>8 DEF Script

LEMMA ProcessWritesSteady ==
  ASSUME PathExclusive, QInv, Stored, Steady, NEW s \in Scripts, ProcessWrites(s)
  PROVE  Steady'
<1> USE DEF Queues, Steady
<1>1. CASE Execute(s)
  <2>1. Snapshot'
    <3>1. ASSUME NEW t \in Scripts, InQuery(t)' PROVE seen'[t] = db'[PathOf[t]]
      <4>1. InQuery(t) /\ seen' = seen /\ InWrite(s)
        BY <1>1, <3>1 DEF Execute, scriptVars
      <4>2. PathOf[t] # PathOf[s]
        BY <4>1 DEF PathExclusive
      <4>3. db'[PathOf[t]] = db[PathOf[t]]
        BY <1>1, <4>2 DEF Execute, Stored
      <4> QED
        BY <4>1, <4>3 DEF Snapshot
    <3>2. DOMAIN seen' = Scripts
      BY <1>1 DEF Execute, scriptVars, Snapshot
    <3> QED
      BY <3>1, <3>2 DEF Snapshot
  <2> QED
    BY <1>1, <2>1 DEF Execute, scriptVars, QInv, Waits, Idles
<1>2. CASE Report(s)
  BY <1>2 DEF Report, scriptVars, QInv, Snapshot, Waits, Idles
<1>3. CASE Receive(s) \/ Quit(s) \/ AnnounceLock(s) \/ Lock(s) \/ Unlock(s)
  BY <1>3 DEF Receive, Quit, AnnounceLock, Lock, Unlock, scriptVars, QInv,
              Snapshot, Waits, Idles
<1> QED
  BY <1>1, <1>2, <1>3 DEF ProcessWrites

(* Every step is one of the service's, or one that it does not see.        *)
Refined == FInv' /\ [S!ServiceNext]_S!svcVars

LEMMA Unseen ==
  ASSUME Ordered', Stored', Steady', Status' = Status,
         UNCHANGED <<db, taken, got>>
  PROVE  Refined
  BY DEF Refined, FInv, S!svcVars

LEMMA ScriptRefines ==
  ASSUME QInv, QInv', FInv, NEW s \in Scripts, Script(s) PROVE Refined
<1> USE DEF Queues
<1>1. Steady'
  BY ScriptSteady DEF FInv
<1>2. ASSUME writes' = writes, queue' = queue, db' = db, cur' = cur, writer' = writer,
             pc[s] # "sending", pc' = pc \/ \E l : l # "sending" /\ pc' = [pc EXCEPT ![s] = l]
      PROVE  Ordered' /\ Stored' /\ Status' = Status
  <2>1. \A t \in Scripts : Out(t)' = Out(t) /\ Hand(t)' = Hand(t)
    BY <1>2 DEF Out, Hand, QInv
  <2> QED
    BY <1>2, <2>1, QuietStep
<1>3. CASE Connect(s)
  <2>1. pc' = [pc EXCEPT ![s] = "ready"] /\ pc[s] = "idle" /\ writer[s] = "off"
        /\ writer' = [writer EXCEPT ![s] = "select"]
        /\ UNCHANGED <<writes, queue, cur, db, taken, got>>
    BY <1>3 DEF Connect, FInv, Steady, Idles
  <2>2. ASSUME NEW t \in Scripts
        PROVE  /\ Out(t)' = Out(t) /\ Hand(t)' = Hand(t)
               /\ \A l \in Reporting : writer'[t] = l <=> writer[t] = l
    BY <2>1 DEF Out, Hand, AtWrite, QInv
  <2> QED
    BY <1>1, <2>1, <2>2, QuietStep, Unseen
<1>4. CASE Exec(s)
  BY <1>1, <1>4, SubmitStep DEF Refined, FInv, S!ServiceNext
<1>5. CASE Enqueue(s)
  BY <1>1, <1>5, EnqueueStep, Unseen DEF Enqueue
<1>6. CASE Close(s)
  BY <1>1, <1>6, QuietStep, Unseen DEF Close, scriptVars, Out, Hand
<1>7. CASE End(s) \/ RLock(s) \/ FirstStatement(s) \/ ReturnError(s)
  BY <1>1, <1>2, <1>7, Unseen DEF End, RLock, FirstStatement, ReturnError
<1>8. ASSUME NEW n \in DOMAIN writes[s], Wait(s, n) PROVE Refined
  BY <1>1, <1>2, <1>8, Unseen DEF Wait
<1>9. ASSUME NEW n, n \in DOMAIN writes[s], Available(s, n),
             taken' = [taken EXCEPT ![s] = @ \cup {n}],
             Ordered', Stored', Status' = Status, UNCHANGED <<db, got>>
      PROVE  Refined
  <2>1. Status[s] = [m \in DOMAIN writes[s] |-> Seen(s, m)]
    BY StatusIs DEF FInv, StatusSeen
  <2>2. writes[s][n] \in {"ok", "err"}
    BY <1>9 DEF Available, QInv, Results
  <2>3. Seen(s, n) # "pending" /\ n \notin taken[s]
    BY <1>9, <2>2 DEF Seen, Ok, Err, Available
  <2>4. S!Acknowledge(s, n) /\ n \in DOMAIN Status[s]
    BY <1>9, <2>1, <2>3 DEF S!Acknowledge
  <2> QED
    BY <1>1, <1>9, <2>4 DEF Refined, FInv, S!ServiceNext
<1>10. CASE WaitReturns(s)
  <2>1. Ordered' /\ Stored' /\ Status' = Status
    BY <1>2, <1>10 DEF WaitReturns
  <2> QED
    BY <1>9, <1>10, <2>1 DEF WaitReturns, FInv, Steady, Waits
<1>11. ASSUME NEW n \in DOMAIN writes[s], Check(s, n) PROVE Refined
  <2>1. Ordered' /\ Stored' /\ Status' = Status
    BY <1>2, <1>11 DEF Check
  <2> QED
    BY <1>9, <1>11, <2>1 DEF Check
<1>12. CASE Return(s)
  <2>1. Ordered' /\ Stored' /\ Status' = Status
    BY <1>2, <1>12 DEF Return
  <2>2. S!Query(s)
    BY <1>12, <2>1 DEF Return, S!Query, FInv, Steady, Snapshot
  <2> QED
    BY <1>1, <2>1, <2>2 DEF Refined, FInv, S!ServiceNext
<1> QED
  BY <1>3, <1>4, <1>5, <1>6, <1>7, <1>8, <1>10, <1>11, <1>12 DEF Script

LEMMA ProcessWritesRefines ==
  ASSUME PathExclusive, QInv, QInv', FInv, NEW s \in Scripts, ProcessWrites(s)
  PROVE  Refined
<1> USE DEF Queues
<1>1. Steady'
  BY ProcessWritesSteady DEF FInv
<1>2. CASE Receive(s)
  BY <1>1, <1>2, ReceiveStep, Unseen DEF Receive, scriptVars
<1>3. CASE Report(s)
  BY <1>1, <1>3, ReportStep, Unseen DEF Report, scriptVars
<1>4. CASE Execute(s)
  BY <1>1, <1>4, DecideStep DEF Refined, FInv, S!ServiceNext
<1>5. CASE Quit(s) \/ AnnounceLock(s) \/ Lock(s) \/ Unlock(s)
  <2>1. /\ UNCHANGED <<pc, writes, queue, db, taken, got>>
        /\ \A t \in Scripts \ {s} : writer'[t] = writer[t] /\ cur'[t] = cur[t]
    BY <1>5 DEF Quit, AnnounceLock, Lock, Unlock, scriptVars, QInv
  <2>2. /\ writer[s] \notin Reporting /\ writer'[s] \notin Reporting
        /\ writer[s] \in AtWrite <=> writer'[s] \in AtWrite
        /\ writer[s] \in AtWrite => cur'[s] = cur[s]
    BY <1>5 DEF Quit, AnnounceLock, Lock, Unlock, QInv, AtWrite
  <2>3. ASSUME NEW t \in Scripts
        PROVE  /\ Out(t)' = Out(t) /\ Hand(t)' = Hand(t)
               /\ \A l \in Reporting : writer'[t] = l <=> writer[t] = l
    BY <2>1, <2>2 DEF Out, Hand
  <2> QED
    BY <1>1, <2>1, <2>3, QuietStep, Unseen
<1> QED
  BY <1>2, <1>3, <1>4, <1>5 DEF ProcessWrites

LEMMA ServiceInits == Init => FInv /\ S!ServiceInit
<1> SUFFICES ASSUME Init PROVE FInv /\ S!ServiceInit
  OBVIOUS
<1>1. ASSUME NEW s \in Scripts
      PROVE  writes[s] = <<>> /\ queue[s] = <<>> /\ Out(s) = {} /\ Hand(s) = {}
  BY DEF Init, Out, Hand, AtWrite
<1>2. Ordered
  <2>1. \A n : ~Unreported(<<>>, n)
    BY DEF Unreported
  <2>2. InOrder(<<>>, <<>>, {}, {})
    BY <2>1 DEF InOrder
  <2> QED
    BY <1>1, <2>2 DEF Ordered
<1>3. Stored
  <2>1. \A s \in Scripts : db[PathOf[s]] = <<>>
    BY DEF Init
  <2> QED
    BY <1>1, <2>1 DEF Init, Stored, InDb, Has
<1>4. Steady
  BY DEF Init, Steady, Snapshot, Waits, Idles
<1>5. Status = [s \in Scripts |-> <<>>]
  <2>1. ASSUME NEW s \in Scripts
        PROVE  [n \in DOMAIN writes[s] |-> Decided(s, n)] = <<>>
    <3>1. DOMAIN writes[s] = {}
      BY <1>1
    <3> DEFINE f == [n \in DOMAIN writes[s] |-> Decided(s, n)]
    <3>2. f \in [1..0 -> {}]
      BY <3>1
    <3> HIDE DEF f
    <3>3. f \in Seq({}) /\ Len(f) = 0
      BY <3>2
    <3>4. f = <<>>
      BY <3>3
    <3> QED
      BY <3>4 DEF f
  <2> QED
    BY <2>1 DEF Status
<1> QED
  BY <1>2, <1>3, <1>4, <1>5 DEF FInv, Init, S!ServiceInit

RInv == IInv /\ QInv /\ FInv

LEMMA RInvInit == Init => RInv
  BY InitEstablishes, QInvInit, ServiceInits DEF RInv

LEMMA RInvKept == RInv /\ [Next]_vars => RInv' /\ [S!ServiceNext]_S!svcVars
<1> USE DEF RInv
<1> SUFFICES ASSUME RInv, [Next]_vars PROVE RInv' /\ [S!ServiceNext]_S!svcVars
  OBVIOUS
<1>1. IInv'
  BY IInvKept
<1>2. QInv'
  BY QInvKept
<1>3. CASE UNCHANGED vars
  <2>1. Ordered' /\ Stored' /\ Status' = Status
    BY <1>2, <1>3, QuietStep DEF vars, scriptVars, Out, Hand
  <2>2. Steady'
    BY <1>3 DEF vars, scriptVars, FInv, Steady, Snapshot, Waits, Idles
  <2> QED
    BY <1>1, <1>2, <1>3, <2>1, <2>2, Unseen DEF vars, scriptVars, Refined
<1>4. CASE Next
  BY <1>1, <1>2, <1>4, IInvExcludes, ScriptRefines, ProcessWritesRefines
     DEF Next, Refined
<1> QED
  BY <1>3, <1>4

(* For every set of scripts and paths the goroutines, queues and locks     *)
(* keep what DbService promises a script, which knows of none of them.     *)
THEOREM Implements == Spec => ImplementsService
  BY RInvInit, RInvKept, ServiceInits, PTL DEF Spec, ImplementsService, S!Service

(* What the types of the other variables and the queue's bound come to.    *)
Others ==
    /\ want \in [Scripts -> Nat]
    /\ taken \in [Scripts -> SUBSET Nat]
    /\ closed \in [Scripts -> BOOLEAN]
    /\ seen \in [Scripts -> Seq(Scripts \X Nat)]
    /\ got \in [Scripts -> Seq(Scripts \X Nat)]
    /\ queries \in [Scripts -> Nat]
    /\ \A s \in Scripts : Len(queue[s]) <= QueueCap

LEMMA OthersKept == QInv /\ FInv /\ Others /\ [Next]_vars => Others'
<1> SUFFICES ASSUME QInv, FInv, Others, [Next]_vars PROVE Others'
  OBVIOUS
<1> USE DEF Queues, Others
<1>1. CASE UNCHANGED vars
  BY <1>1 DEF vars, scriptVars
<1>2. ASSUME NEW s \in Scripts, Script(s) PROVE Others'
  <2>1. CASE Connect(s) \/ Exec(s) \/ End(s)
    BY <2>1 DEF Connect, Exec, End
  <2>2. ASSUME NEW n \in Nat, taken' = [taken EXCEPT ![s] = @ \cup {n}]
        PROVE  taken' \in [Scripts -> SUBSET Nat]
    BY <2>2
  <2>3. CASE WaitReturns(s)
    <3>1. taken' \in [Scripts -> SUBSET Nat]
      BY <2>2, <2>3 DEF WaitReturns
    <3> QED
      BY <2>3, <3>1 DEF WaitReturns
  <2>4. CASE Enqueue(s)
    <3>1. ASSUME NEW t \in Scripts PROVE Len(queue'[t]) <= QueueCap
      BY <2>4 DEF Enqueue, QInv
    <3> QED
      BY <2>4, <3>1 DEF Enqueue
  <2>5. CASE Close(s)
    BY <2>5 DEF Close, scriptVars
  <2>6. CASE RLock(s)
    BY <2>6 DEF RLock
  <2>7. CASE FirstStatement(s)
    BY <2>7 DEF FirstStatement, FInv, Stored
  <2>8. CASE Return(s)
    BY <2>8 DEF Return
  <2>10. CASE ReturnError(s)
    <3>1. ASSUME NEW v \in Seq(Scripts \X Nat), seen' = [seen EXCEPT ![s] = v]
          PROVE  seen' \in [Scripts -> Seq(Scripts \X Nat)]
      BY <3>1
    <3>2. seen' \in [Scripts -> Seq(Scripts \X Nat)]
      BY <2>10, <3>1 DEF ReturnError
    <3> QED
      BY <2>10, <3>2 DEF ReturnError
  <2>9. ASSUME NEW n \in DOMAIN writes[s], Wait(s, n) \/ Check(s, n) PROVE Others'
    <3>1. n \in Nat
      BY <2>9 DEF QInv
    <3>2. CASE Wait(s, n)
      BY <3>1, <3>2 DEF Wait
    <3>3. CASE Check(s, n)
      <4>1. taken' \in [Scripts -> SUBSET Nat]
        BY <2>2, <3>1, <3>3 DEF Check
      <4> QED
        BY <3>3, <4>1 DEF Check
    <3> QED
      BY <2>9, <3>2, <3>3
  <2> QED
    BY <1>2, <2>1, <2>4, <2>5, <2>6, <2>7, <2>8, <2>9, <2>10, <2>3 DEF Script
<1>3. ASSUME NEW s \in Scripts, ProcessWrites(s) PROVE Others'
  <2>1. CASE Receive(s)
    <3>1. ASSUME NEW t \in Scripts PROVE Len(queue'[t]) <= QueueCap
      BY <2>1 DEF Receive, QInv
    <3> QED
      BY <2>1, <3>1 DEF Receive, scriptVars
  <2> QED
    BY <1>3, <2>1 DEF ProcessWrites, Quit, AnnounceLock, Lock, Execute, Report,
                      Unlock, scriptVars
<1> QED
  BY <1>1, <1>2, <1>3 DEF Next

(* The variables keep their types, and writeChan its capacity.             *)
THEOREM TypesKept == Spec => []TypeOK
<1>1. Init => Others
  BY DEF Init, Others
<1>2. RInv /\ Others => TypeOK
  BY DEF RInv, IInv, Typed, QInv, Queues, Results, FInv, Stored, Others, TypeOK
<1>3. RInv /\ Others /\ [Next]_vars => Others'
  BY OthersKept DEF RInv
<1> QED
  BY <1>1, <1>2, <1>3, RInvInit, RInvKept, PTL DEF Spec

-----------------------------------------------------------------------------
(* Nobody waits for a lock that nobody will give away: the mutex of a path *)
(* knows who is inside its calls, a reader is kept out only by a writer,   *)
(* and that writer is at its statement or waits for readers that have the  *)
(* lock.                                                                   *)
Queued(s) == s \in Mutex(s).readers \cup Mutex(s).blocked

Waited ==
    /\ \A p \in Paths :
         /\ \A t \in mtx[p].readers : /\ PathOf[t] = p /\ t \notin mtx[p].blocked
                                      /\ pc[t] \in {"rlock", "reading"}
         /\ \A t \in mtx[p].blocked : PathOf[t] = p /\ pc[t] = "rlock"
         /\ mtx[p].blocked # {} => mtx[p].announced # NoWriter
         /\ mtx[p].announced # NoWriter =>
              /\ PathOf[mtx[p].announced] = p
              /\ InWrite(mtx[p].announced) \/ writer[mtx[p].announced] = "locking"
    /\ \A s \in Scripts : pc[s] = "rlock" => Queued(s)

(* Kept out by the lock of the path.                                       *)
KeptOut(s) ==
    \/ writer[s] = "lock" /\ ~CanAnnounce(Mutex(s))
    \/ writer[s] = "locking" /\ ~CanLock(Mutex(s), s)
    \/ pc[s] = "rlock" /\ s \notin Mutex(s).readers

(* At a step it can take: Execute, Unlock, Report, Lock, FirstStatement or *)
(* Return.                                                                 *)
Able(t) ==
    \/ writer[t] \in {"held", "unlock"}
    \/ writer[t] \in Reporting /\ CanSend(t)
    \/ writer[t] = "locking" /\ CanLock(Mutex(t), t)
    \/ pc[t] = "rlock" /\ t \in Mutex(t).readers
    \/ pc[t] = "reading"

NobodyStuck ==
    \A s \in Scripts : KeptOut(s) => \E t \in Scripts : PathOf[t] = PathOf[s] /\ Able(t)

LEMMA WaitedInit == Init => Waited
  BY DEF Init, Waited, Mutex, Unlocked

LEMMA NobodyStuckThen ==
  ASSUME IInv, QInv, ReportNeverBlocks, Waited PROVE NobodyStuck
<1> SUFFICES ASSUME NEW s \in Scripts, KeptOut(s)
             PROVE  \E t \in Scripts : PathOf[t] = PathOf[s] /\ Able(t)
  BY DEF NobodyStuck
<1> DEFINE m == Mutex(s)
<1>1. m \in RWMutexes(Scripts) /\ PathOf[s] \in Paths
  BY DEF IInv, Typed, Mutex
<1>2. ASSUME NEW t \in m.readers PROVE t \in Scripts /\ PathOf[t] = PathOf[s] /\ Able(t)
  BY <1>1 DEF Waited, Able, Mutex, RWMutexes
<1>3. m.announced # NoWriter
  BY <1>1 DEF KeptOut, CanAnnounce, IInv, Agrees, Waited, Queued, Mutex
<1> DEFINE w == m.announced
<1>4. w \in Scripts /\ PathOf[w] = PathOf[s] /\ (InWrite(w) \/ writer[w] = "locking")
  BY <1>1, <1>3 DEF Waited, Mutex, RWMutexes
<1>5. CASE InWrite(w)
  BY <1>4, <1>5 DEF Able, ReportNeverBlocks
<1>6. CASE writer[w] = "locking"
  <2>1. Mutex(w) = m /\ ~m.held
    BY <1>4, <1>6 DEF IInv, Agrees, Mutex
  <2>2. m.readers = {} => Able(w)
    BY <1>6, <2>1 DEF Able, CanLock
  <2>3. QED
    BY <1>2, <1>4, <2>2
<1>7. QED
  BY <1>4, <1>5, <1>6

(* Steps that touch no lock and neither start nor end a query or a write.  *)
LEMMA LocksUntouched ==
  ASSUME Waited, mtx' = mtx,
         \A s \in Scripts :
            /\ pc'[s] = "rlock" <=> pc[s] = "rlock"
            /\ pc'[s] = "reading" <=> pc[s] = "reading"
            /\ InWrite(s) => InWrite(s)'
            /\ writer[s] = "locking" => writer'[s] = "locking",
         \A p \in Paths : mtx[p] \in RWMutexes(Scripts)
  PROVE  Waited'
<1>1. \A p \in Paths : mtx[p].readers \subseteq Scripts /\ mtx[p].blocked \subseteq Scripts
                      /\ mtx[p].announced \in Scripts \cup {NoWriter}
  BY DEF RWMutexes
<1>2. QED
  BY <1>1 DEF Waited, Queued, Mutex

LEMMA ScriptWaited ==
  ASSUME IInv, Idles, Waited, NEW s \in Scripts, Script(s) PROVE Waited'
<1> USE DEF IInv, Typed
<1>1. \A p \in Paths : /\ mtx[p] \in RWMutexes(Scripts)
                      /\ mtx[p].readers \subseteq Scripts /\ mtx[p].blocked \subseteq Scripts
                      /\ mtx[p].announced \in Scripts \cup {NoWriter}
  BY DEF RWMutexes
<1>2. CASE Connect(s)
  <2>1. writer[s] = "off"
    BY <1>2 DEF Connect, Idles
  <2>2. QED
    BY <1>1, <1>2, <2>1, LocksUntouched DEF Connect
<1>3. CASE Exec(s) \/ Enqueue(s) \/ WaitReturns(s) \/ Close(s) \/ End(s)
  BY <1>1, <1>3, LocksUntouched
     DEF Exec, Enqueue, WaitReturns, Close, End, scriptVars
<1>4. ASSUME NEW n \in DOMAIN writes[s], Wait(s, n) \/ Check(s, n) PROVE Waited'
  BY <1>1, <1>4, LocksUntouched DEF Wait, Check
<1>5. CASE RLock(s)
  <2> DEFINE q == PathOf[s]
             m == AfterRLock(mtx[q], s)
  <2>1. /\ pc[s] = "ready" /\ pc' = [pc EXCEPT ![s] = "rlock"] /\ writer' = writer
        /\ mtx' = [mtx EXCEPT ![q] = m]
    BY <1>5 DEF RLock, SetMutex, Mutex
  <2>2. s \notin mtx[q].readers /\ s \notin mtx[q].blocked
    BY <2>1 DEF Waited
  <2>3. /\ m.announced = mtx[q].announced
        /\ IF mtx[q].announced = NoWriter
           THEN m.readers = mtx[q].readers \cup {s} /\ m.blocked = mtx[q].blocked
           ELSE m.readers = mtx[q].readers /\ m.blocked = mtx[q].blocked \cup {s}
    BY <1>1 DEF AfterRLock, RWMutexes
  <2>4. mtx'[q] = m /\ \A p \in Paths \ {q} : mtx'[p] = mtx[p]
    BY <2>1
  <2> HIDE DEF m
  <2>5. QED
    BY <1>1, <2>1, <2>2, <2>3, <2>4 DEF Waited, Queued, Mutex
<1>6. CASE FirstStatement(s)
  <2>1. /\ pc[s] = "rlock" /\ s \in mtx[PathOf[s]].readers
        /\ pc' = [pc EXCEPT ![s] = "reading"] /\ writer' = writer /\ mtx' = mtx
    BY <1>6 DEF FirstStatement, Mutex
  <2>2. s \notin mtx[PathOf[s]].blocked
    BY <2>1 DEF Waited
  <2>3. QED
    BY <1>1, <2>1, <2>2 DEF Waited, Queued, Mutex
<1>7. CASE Return(s) \/ ReturnError(s)
  <2> DEFINE q == PathOf[s]
             m == AfterRUnlock(mtx[q], s)
  <2>1. /\ pc[s] = "reading" /\ pc' = [pc EXCEPT ![s] = "ready"] /\ writer' = writer
        /\ mtx' = [mtx EXCEPT ![q] = m]
    BY <1>7 DEF Return, ReturnError, SetMutex, Mutex
  <2>2. s \notin mtx[q].blocked
    BY <2>1 DEF Waited
  <2>3. /\ m.announced = mtx[q].announced /\ m.blocked = mtx[q].blocked
        /\ m.readers = mtx[q].readers \ {s}
    BY <1>1 DEF AfterRUnlock, RWMutexes
  <2>4. mtx'[q] = m /\ \A p \in Paths \ {q} : mtx'[p] = mtx[p]
    BY <2>1
  <2> HIDE DEF m
  <2>5. QED
    BY <1>1, <2>1, <2>2, <2>3, <2>4 DEF Waited, Queued, Mutex
<1>8. QED
  BY <1>2, <1>3, <1>4, <1>5, <1>6, <1>7 DEF Script

LEMMA ProcessWritesWaited ==
  ASSUME IInv, Waited, NEW s \in Scripts, ProcessWrites(s) PROVE Waited'
<1> USE DEF IInv, Typed
<1>1. \A p \in Paths : /\ mtx[p] \in RWMutexes(Scripts)
                      /\ mtx[p].readers \subseteq Scripts /\ mtx[p].blocked \subseteq Scripts
                      /\ mtx[p].announced \in Scripts \cup {NoWriter}
  BY DEF RWMutexes
<1> DEFINE q == PathOf[s]
<1>2. CASE Receive(s) \/ Quit(s) \/ Execute(s) \/ Report(s)
  BY <1>1, <1>2, LocksUntouched DEF Receive, Quit, Execute, Report, scriptVars
<1>3. CASE AnnounceLock(s)
  <2> DEFINE m == Announced(mtx[q], s)
  <2>1. /\ writer[s] = "lock" /\ writer' = [writer EXCEPT ![s] = "locking"]
        /\ pc' = pc /\ mtx' = [mtx EXCEPT ![q] = m] /\ mtx[q].announced = NoWriter
    BY <1>3 DEF AnnounceLock, SetMutex, Mutex, scriptVars, CanAnnounce
  <2>2. /\ m.announced = s /\ m.blocked = mtx[q].blocked
        /\ m.readers = mtx[q].readers
    BY <1>1 DEF Announced, RWMutexes
  <2>3. mtx'[q] = m /\ \A p \in Paths \ {q} : mtx'[p] = mtx[p]
    BY <2>1
  <2> HIDE DEF m
  <2>4. QED
    BY <1>1, <2>1, <2>2, <2>3 DEF Waited, Queued, Mutex
<1>4. CASE Lock(s)
  <2> DEFINE m == Locked(mtx[q])
  <2>1. /\ writer[s] = "locking" /\ writer' = [writer EXCEPT ![s] = "held"]
        /\ pc' = pc /\ mtx' = [mtx EXCEPT ![q] = m]
    BY <1>4 DEF Lock, SetMutex, Mutex, scriptVars
  <2>2. /\ m.announced = mtx[q].announced /\ m.blocked = mtx[q].blocked
        /\ m.readers = mtx[q].readers
    BY <1>1 DEF Locked, RWMutexes
  <2>3. mtx'[q] = m /\ \A p \in Paths \ {q} : mtx'[p] = mtx[p]
    BY <2>1
  <2> HIDE DEF m
  <2>4. QED
    BY <1>1, <2>1, <2>2, <2>3 DEF Waited, Queued, Mutex
<1>5. CASE Unlock(s)
  <2> DEFINE m == AfterUnlock(mtx[q])
  <2>1. /\ writer[s] = "unlock" /\ writer' = [writer EXCEPT ![s] = "select"]
        /\ pc' = pc /\ mtx' = [mtx EXCEPT ![q] = m]
    BY <1>5 DEF Unlock, SetMutex, Mutex, scriptVars
  <2>2. mtx[q].announced = s
    BY <2>1 DEF Agrees, Mutex
  <2>3. /\ m.announced = NoWriter /\ m.blocked = {}
        /\ m.readers = mtx[q].readers \cup mtx[q].blocked
    BY <1>1 DEF AfterUnlock
  <2>4. mtx'[q] = m /\ \A p \in Paths \ {q} : mtx'[p] = mtx[p]
    BY <2>1
  <2>5. \A p \in Paths \ {q} : mtx[p].announced # s
    BY DEF Waited
  <2> HIDE DEF m
  <2>6. QED
    BY <1>1, <2>1, <2>2, <2>3, <2>4, <2>5 DEF Waited, Queued, Mutex
<1>6. QED
  BY <1>2, <1>3, <1>4, <1>5 DEF ProcessWrites

LEMMA WaitedKept == ASSUME RInv, Waited, [Next]_vars PROVE Waited'
<1>1. CASE UNCHANGED vars
  BY <1>1 DEF vars, scriptVars, Waited, Queued, Mutex
<1>2. CASE Next
  BY <1>2, ScriptWaited, ProcessWritesWaited DEF Next, RInv, FInv, Steady
<1>3. QED
  BY <1>1, <1>2

(* The mutex of a path never holds everyone up: whoever waits in Lock or   *)
(* RLock, some goroutine of the same path is at a step it can take, which  *)
(* no script that forgets to wait, ends or closes can keep from it.        *)
THEOREM NeverStuck == Spec => []NobodyStuck
<1>1. Init => Waited
  BY WaitedInit
<1>2. RInv /\ Waited /\ [Next]_vars => Waited'
  BY WaitedKept
<1>3. RInv /\ ReportNeverBlocks /\ Waited => NobodyStuck
  BY NobodyStuckThen DEF RInv
<1>4. QED
  BY <1>1, <1>2, <1>3, RInvInit, RInvKept, ReportsNeverBlock, PTL DEF Spec

-----------------------------------------------------------------------------
(* What a script may build on.  Its writes are in the database in the      *)
(* order of its calls of exec, each once, whatever other scripts write;    *)
(* this needs that what has been reported comes before what has not.       *)
WritesInOrder ==
    \A p \in Paths : \A i, j \in DOMAIN db[p] :
        i < j /\ db[p][i][1] = db[p][j][1] => db[p][i][2] < db[p][j][2]

OldestFirst(w) == \A m, n \in DOMAIN w : w[n] # "none" /\ w[m] = "none" => n < m

Arranged == WritesInOrder /\ \A s \in Scripts : OldestFirst(writes[s])

LEMMA ExecutedInOrder ==
  ASSUME RInv, Arranged, NEW s \in Scripts, writer[s] = "held",
         db' = [db EXCEPT ![PathOf[s]] = Append(@, <<s, cur[s]>>)]
  PROVE  WritesInOrder'
<1> DEFINE q == PathOf[s]
<1>1. db[q] \in Seq(Scripts \X Nat) /\ q \in Paths /\ DOMAIN db = Paths
  BY DEF RInv, FInv, Stored
<1>2. cur[s] \in DOMAIN writes[s] /\ writes[s][cur[s]] = "none"
  BY DEF RInv, QInv, OnePlace, Unreported, Hand, AtWrite
<1>3. ASSUME NEW i \in DOMAIN db[q], db[q][i][1] = s PROVE db[q][i][2] < cur[s]
  <2> DEFINE n == db[q][i][2]
  <2>1. db[q][i] = <<s, n>>
    BY <1>1, <1>3
  <2>2. n \in DOMAIN writes[s] /\ writes[s][n] = "ok"
    <3>1. InDb(s, n)
      BY <2>1 DEF InDb, Has
    <3>2. n \in DOMAIN writes[s] /\ Ok(s, n)
      BY <3>1 DEF RInv, FInv, Stored
    <3>3. QED
      BY <3>2 DEF Ok
  <2>3. QED
    BY <1>2, <2>2 DEF Arranged, OldestFirst
<1>4. db'[q] = Append(db[q], <<s, cur[s]>>) /\ \A p \in Paths \ {q} : db'[p] = db[p]
  BY <1>1
<1>5. ASSUME NEW i \in DOMAIN db'[q], NEW j \in DOMAIN db'[q],
             i < j, db'[q][i][1] = db'[q][j][1]
      PROVE  db'[q][i][2] < db'[q][j][2]
  <2>1. i \in DOMAIN db[q] /\ db'[q][i] = db[q][i]
    <3>1. /\ DOMAIN db[q] = 1..Len(db[q]) /\ Len(db[q]) \in Nat
          /\ DOMAIN db'[q] = 1..(Len(db[q]) + 1)
      BY <1>1, <1>4
    <3>2. i \in DOMAIN db[q]
      BY <1>5, <3>1
    <3>3. QED
      BY <1>1, <1>4, <3>2
  <2>2. CASE j \in DOMAIN db[q]
    <3>1. db'[q][j] = db[q][j]
      BY <1>1, <1>4, <2>2
    <3>2. QED
      BY <1>1, <1>5, <2>1, <2>2, <3>1 DEF Arranged, WritesInOrder
  <2>3. CASE j \notin DOMAIN db[q]
    <3>1. db'[q][j] = <<s, cur[s]>>
      BY <1>1, <1>4, <2>3
    <3>2. QED
      BY <1>3, <1>5, <2>1, <3>1
  <2>4. QED
    BY <2>2, <2>3
<1>6. QED
  BY SMTT(30), <1>4, <1>5 DEF Arranged, WritesInOrder

LEMMA ReportedOldest ==
  ASSUME RInv, Arranged, NEW s \in Scripts, Report(s) PROVE OldestFirst(writes'[s])
<1> DEFINE c == cur[s]
           w == writes[s]
<1>1. c \in DOMAIN w /\ w[c] = "none" /\ Hand(s) = {c} /\ w \in Seq(Results)
      /\ DOMAIN writes = Scripts /\ queue[s] \in Seq(Nat)
  BY DEF RInv, QInv, Queues, OnePlace, Unreported, Hand, AtWrite, Report
<1>2. ASSUME NEW m \in DOMAIN w, w[m] = "none", m # c PROVE c < m
  <2>1. m \in Out(s) \cup {c} \cup {queue[s][i] : i \in DOMAIN queue[s]}
    BY <1>1, <1>2 DEF RInv, FInv, Ordered, InOrder, Unreported
  <2>2. /\ \A i \in DOMAIN queue[s] : c < queue[s][i]
        /\ \A o \in Out(s) : c < o
    BY <1>1 DEF RInv, FInv, Ordered, InOrder
  <2>3. QED
    BY <1>2, <2>1, <2>2
<1>3. PICK r : r # "none" /\ writes'[s] = [w EXCEPT ![c] = r]
  BY <1>1 DEF Report
<1>4. DOMAIN writes'[s] = DOMAIN w /\ writes'[s][c] = r
      /\ \A n \in DOMAIN w : n # c => writes'[s][n] = w[n]
  BY <1>1, <1>3
<1>5. QED
  BY <1>2, <1>3, <1>4 DEF Arranged, OldestFirst

LEMMA ArrangedKept == ASSUME RInv, Arranged, [Next]_vars PROVE Arranged'
<1>1. CASE UNCHANGED vars
  BY <1>1 DEF vars, scriptVars, Arranged, WritesInOrder
<1>2. ASSUME NEW s \in Scripts, Exec(s) PROVE Arranged'
  <2>1. writes[s] \in Seq(Results) /\ DOMAIN writes = Scripts
    BY DEF RInv, QInv, Queues
  <2>2. writes' = [writes EXCEPT ![s] = Append(@, "none")] /\ db' = db
    BY <1>2 DEF Exec
  <2>3. OldestFirst(writes'[s])
    BY <2>1, <2>2 DEF Arranged, OldestFirst
  <2>4. QED
    BY <2>1, <2>2, <2>3 DEF Arranged, WritesInOrder
<1>3. ASSUME NEW s \in Scripts, Script(s), ~Exec(s) PROVE Arranged'
  <2>1. writes' = writes /\ db' = db
    BY <1>3 DEF Script, Connect, Enqueue, WaitReturns, Close, End, RLock,
                FirstStatement, Return, ReturnError, Wait, Check, scriptVars
  <2>2. QED
    BY <2>1 DEF Arranged, WritesInOrder
<1>4. ASSUME NEW s \in Scripts, Execute(s) PROVE Arranged'
  <2>1. writes' = writes /\ writer[s] = "held"
    BY <1>4 DEF Execute
  <2>2. db' = db \/ db' = [db EXCEPT ![PathOf[s]] = Append(@, <<s, cur[s]>>)]
    BY <1>4 DEF Execute
  <2>3. WritesInOrder'
    BY <2>1, <2>2, ExecutedInOrder DEF Arranged, WritesInOrder
  <2>4. QED
    BY <2>1, <2>3 DEF Arranged
<1>5. ASSUME NEW s \in Scripts, Report(s) PROVE Arranged'
  <2>1. OldestFirst(writes'[s])
    BY <1>5, ReportedOldest
  <2>2. db' = db /\ \A t \in Scripts \ {s} : writes'[t] = writes[t]
    BY <1>5 DEF Report, RInv, QInv, Queues
  <2>3. QED
    BY <2>1, <2>2 DEF Arranged, WritesInOrder
<1>6. ASSUME NEW s \in Scripts, ProcessWrites(s), ~Execute(s), ~Report(s) PROVE Arranged'
  <2>1. writes' = writes /\ db' = db
    BY <1>6 DEF ProcessWrites, Receive, Quit, AnnounceLock, Lock, Unlock
  <2>2. QED
    BY <2>1 DEF Arranged, WritesInOrder
<1>7. QED
  BY <1>1, <1>2, <1>3, <1>4, <1>5, <1>6 DEF Next

(* Of one script's writes, as exec is called and as processWrites takes    *)
(* them from the queue, none overtakes another or takes effect twice, for  *)
(* any number of scripts that write to the same database.                  *)
THEOREM OrderKept == Spec => []WritesInOrder
<1>1. Init => Arranged
  BY DEF Init, Arranged, WritesInOrder, OldestFirst
<1>2. RInv /\ Arranged /\ [Next]_vars => Arranged'
  BY ArrangedKept
<1>3. Arranged => WritesInOrder
  BY DEF Arranged
<1>4. QED
  BY <1>1, <1>2, <1>3, RInvInit, RInvKept, PTL DEF Spec

(* A query returns the whole database: it has every write of the script    *)
(* that was reported to it as done, and nothing that an earlier query saw  *)
(* is missing or elsewhere.                                                *)
Continues(a, b) == Len(a) <= Len(b) /\ \A i \in DOMAIN a : b[i] = a[i]

QueryUpToDate(s) ==
    /\ \A n \in DOMAIN writes[s] :
         writes[s][n] = "ok" => \E i \in DOMAIN got'[s] : got'[s][i] = <<s, n>>
    /\ Continues(got[s], got'[s])

GotBefore ==
    /\ DOMAIN got = Scripts
    /\ \A s \in Scripts : /\ got[s] \in Seq(Scripts \X Nat)
                          /\ Continues(got[s], db[PathOf[s]])

LEMMA Continuing ==
  ASSUME NEW X, NEW a \in Seq(X), NEW b \in Seq(X), NEW c \in Seq(X),
         Continues(a, b), Continues(b, c)
  PROVE  Continues(a, c)
  BY DEF Continues

LEMMA DbGrows ==
  ASSUME RInv, [Next]_vars, NEW p \in Paths PROVE Continues(db[p], db'[p])
<1>1. db[p] \in Seq(Scripts \X Nat) /\ DOMAIN db = Paths
  BY DEF RInv, FInv, Stored
<1>2. CASE db' = db
  BY <1>1, <1>2 DEF Continues
<1>3. ASSUME NEW s \in Scripts, db' = [db EXCEPT ![PathOf[s]] = Append(@, <<s, cur[s]>>)]
      PROVE  Continues(db[p], db'[p])
  <2>1. CASE p = PathOf[s]
    BY <1>1, <1>3, <2>1 DEF Continues
  <2>2. CASE p # PathOf[s]
    BY <1>1, <1>3, <2>2 DEF Continues
  <2>3. QED
    BY <2>1, <2>2
<1>4. ASSUME NEW s \in Scripts, Script(s) PROVE db' = db
  BY <1>4 DEF Script, Connect, Exec, Enqueue, WaitReturns, Close, End, RLock,
              FirstStatement, Return, ReturnError, Wait, Check
<1>5. ASSUME NEW s \in Scripts, ProcessWrites(s), ~Execute(s) PROVE db' = db
  BY <1>5 DEF ProcessWrites, Receive, Quit, AnnounceLock, Lock, Report, Unlock
<1>6. ASSUME NEW s \in Scripts, Execute(s) PROVE Continues(db[p], db'[p])
  BY <1>2, <1>3, <1>6 DEF Execute
<1>7. QED
  BY <1>2, <1>4, <1>5, <1>6 DEF Next, vars

LEMMA ReturnUpToDate ==
  ASSUME RInv, GotBefore, NEW s \in Scripts, Return(s)
  PROVE  got'[s] = db[PathOf[s]] /\ QueryUpToDate(s)
<1>1. got'[s] = db[PathOf[s]]
  BY DEF Return, GotBefore, RInv, FInv, Steady, Snapshot
<1>2. \A n \in DOMAIN writes[s] :
        writes[s][n] = "ok" => \E i \in DOMAIN db[PathOf[s]] : db[PathOf[s]][i] = <<s, n>>
  BY DEF RInv, FInv, Stored, InDb, Has, Ok
<1>3. QED
  BY <1>1, <1>2 DEF QueryUpToDate, GotBefore

LEMMA GotBeforeKept == ASSUME RInv, GotBefore, [Next]_vars PROVE GotBefore'
<1>1. \A p \in Paths : /\ db[p] \in Seq(Scripts \X Nat)
                      /\ db'[p] \in Seq(Scripts \X Nat)
                      /\ Continues(db[p], db'[p])
  <2>1. RInv'
    BY RInvKept
  <2>2. QED
    BY <2>1, DbGrows DEF RInv, FInv, Stored
<1>2. CASE got' = got
  <2>1. ASSUME NEW s \in Scripts PROVE Continues(got[s], db'[PathOf[s]])
    <3>1. /\ got[s] \in Seq(Scripts \X Nat) /\ PathOf[s] \in Paths
          /\ Continues(got[s], db[PathOf[s]])
      BY DEF GotBefore
    <3>2. QED
      BY <1>1, <3>1, Continuing
  <2>2. QED
    BY <1>2, <2>1 DEF GotBefore
<1>3. ASSUME NEW s \in Scripts, Return(s) PROVE GotBefore'
  <2>1. got'[s] = db[PathOf[s]]
    BY <1>3, ReturnUpToDate
  <2>2. DOMAIN got' = Scripts /\ \A t \in Scripts \ {s} : got'[t] = got[t]
    BY <1>3 DEF Return, GotBefore
  <2>3. ASSUME NEW t \in Scripts
        PROVE  got'[t] \in Seq(Scripts \X Nat) /\ Continues(got'[t], db'[PathOf[t]])
    <3>1. CASE t = s
      BY <1>1, <2>1, <3>1
    <3>2. CASE t # s
      <4>1. /\ got[t] \in Seq(Scripts \X Nat) /\ PathOf[t] \in Paths
            /\ Continues(got[t], db[PathOf[t]])
        BY DEF GotBefore
      <4>2. Continues(got[t], db'[PathOf[t]])
        BY <1>1, <4>1, Continuing
      <4>3. QED
        BY <2>2, <3>2, <4>1, <4>2
    <3>3. QED
      BY <3>1, <3>2
  <2>4. QED
    BY <2>2, <2>3 DEF GotBefore
<1>4. ASSUME NEW s \in Scripts, Script(s), ~Return(s) PROVE got' = got
  BY <1>4 DEF Script, Connect, Exec, Enqueue, WaitReturns, Close, End, RLock,
              FirstStatement, ReturnError, Wait, Check, scriptVars
<1>5. ASSUME NEW s \in Scripts, ProcessWrites(s) PROVE got' = got
  BY <1>5 DEF ProcessWrites, Receive, Quit, AnnounceLock, Lock, Execute, Report,
              Unlock, scriptVars
<1>6. QED
  BY <1>2, <1>3, <1>4, <1>5 DEF Next, vars, scriptVars

(* A script reads its own writes, and never an older database than it has  *)
(* read before, however its queries interleave with the goroutines of      *)
(* other connections on the path.                                          *)
THEOREM ReadsUpToDate == Spec => [][\A s \in Scripts : Return(s) => QueryUpToDate(s)]_vars
<1>1. Init => GotBefore
  BY DEF Init, GotBefore, Continues
<1>2. RInv /\ GotBefore /\ [Next]_vars => GotBefore'
  BY GotBeforeKept
<1>3. RInv /\ GotBefore /\ [Next]_vars
        => [\A s \in Scripts : Return(s) => QueryUpToDate(s)]_vars
  BY ReturnUpToDate
<1>4. QED
  BY <1>1, <1>2, <1>3, RInvInit, RInvKept, PTL DEF Spec

-----------------------------------------------------------------------------
(* A careful script never waits for nothing: what it waits for is on its   *)
(* way as long as the connection is open, and it closes it only when it    *)
(* has every result.                                                       *)
Attended ==
    \A s \in Scripts :
        /\ taken[s] \subseteq DOMAIN writes[s]
        /\ pc[s] # "idle" => writer[s] # "off"
        /\ writer[s] = "exit" => closed[s]
        /\ s \in Careful =>
             /\ closed[s] => AllTaken(s) /\ pc[s] \notin {"sending", "waiting"}
             /\ pc[s] = "waiting" => want[s] \in DOMAIN writes[s] /\ want[s] \notin taken[s]

(* The script has a call to make, or its call can return.                  *)
Proceeds(s) ==
    \/ pc[s] = "ready" /\ \/ closed[s] \/ AllTaken(s)
                          \/ \E n \in DOMAIN writes[s] : n \notin taken[s]
    \/ pc[s] = "sending" /\ Len(queue[s]) < QueueCap
    \/ pc[s] = "waiting" /\ Available(s, want[s])

(* Its connection's goroutine has a write to take, or can enter Lock.      *)
Served(s) ==
    \/ writer[s] = "select" /\ queue[s] # <<>>
    \/ writer[s] = "lock" /\ CanAnnounce(Mutex(s))

CarefulGoOn ==
    \A s \in Careful :
        pc[s] \notin {"idle", "ended"} =>
            \/ Proceeds(s) \/ Served(s)
            \/ \E t \in Scripts : PathOf[t] = PathOf[s] /\ Able(t)

(* What a step of one script or its connection leaves alone of the others. *)
LEMMA OthersAttended ==
  ASSUME Attended, NEW s \in Scripts,
         \A t \in Scripts \ {s} :
            /\ taken'[t] = taken[t] /\ writes'[t] = writes[t] /\ pc'[t] = pc[t]
            /\ writer'[t] = writer[t] /\ closed'[t] = closed[t] /\ want'[t] = want[t],
         taken'[s] \subseteq DOMAIN writes'[s],
         pc'[s] # "idle" => writer'[s] # "off",
         writer'[s] = "exit" => closed'[s],
         s \in Careful =>
             /\ closed'[s] => taken'[s] = DOMAIN writes'[s] /\ pc'[s] \notin {"sending", "waiting"}
             /\ pc'[s] = "waiting" => want'[s] \in DOMAIN writes'[s] /\ want'[s] \notin taken'[s]
  PROVE  Attended'
  BY DEF Attended, AllTaken

LEMMA AttendedKept ==
  ASSUME RInv, Others, Attended, [Next]_vars PROVE Attended'
<1> USE DEF Goto, WriterGoto
<1>1. /\ pc \in [Scripts -> ScriptPCs] /\ writer \in [Scripts -> WriterPCs]
      /\ writes \in [Scripts -> Seq(Results)]
      /\ taken \in [Scripts -> SUBSET Nat] /\ want \in [Scripts -> Nat]
      /\ closed \in [Scripts -> BOOLEAN]
  BY DEF RInv, QInv, Queues, Others
<1>2. CASE UNCHANGED vars
  BY <1>2 DEF vars, scriptVars, Attended, AllTaken
<1>3. ASSUME NEW s \in Scripts, Script(s) PROVE Attended'
  <2>1. CASE Connect(s)
    <3>1. pc[s] = "idle" /\ writer'[s] = "select" /\ pc'[s] = "ready"
      BY <1>1, <2>1 DEF Connect
    <3>2. QED
      BY <1>1, <2>1, <3>1, OthersAttended DEF Connect, Attended, AllTaken
  <2>2. CASE Exec(s)
    <3>1. /\ writes'[s] = Append(writes[s], "none") /\ pc'[s] = "sending" /\ pc[s] = "ready"
          /\ s \in Careful => ~closed[s]
      BY <1>1, <2>2 DEF Exec
    <3>2. DOMAIN writes[s] \subseteq DOMAIN writes'[s]
      BY <1>1, <3>1
    <3>3. QED
      BY <1>1, <2>2, <3>1, <3>2, OthersAttended DEF Exec, Attended
  <2>3. CASE Enqueue(s) \/ End(s) \/ FirstStatement(s) \/ RLock(s) \/ Return(s)
              \/ ReturnError(s)
    <3>1. /\ writes' = writes /\ taken' = taken /\ closed' = closed /\ writer' = writer
          /\ want' = want
          /\ \A t \in Scripts \ {s} : pc'[t] = pc[t]
          /\ pc'[s] \in {"ready", "ended", "rlock", "reading"} /\ pc[s] # "idle"
      BY <1>1, <2>3 DEF Enqueue, End, FirstStatement, RLock, Return, ReturnError
    <3>2. QED
      BY <1>1, <3>1, OthersAttended DEF Attended, AllTaken
  <2>4. CASE WaitReturns(s)
    <3>1. /\ pc[s] = "waiting" /\ pc'[s] = "ready" /\ taken'[s] = taken[s] \cup {want[s]}
          /\ writes' = writes /\ closed' = closed /\ writer' = writer
      BY <1>1, <2>4 DEF WaitReturns
    <3>2. want[s] \in DOMAIN writes[s]
      BY <3>1 DEF RInv, FInv, Steady, Waits
    <3>3. /\ taken'[s] \subseteq DOMAIN writes'[s]
          /\ writer[s] # "off" /\ writer'[s] = writer[s]
          /\ writer'[s] = "exit" => closed'[s]
          /\ s \in Careful => ~closed'[s]
      BY <1>1, <3>1, <3>2 DEF Attended
    <3>4. \A t \in Scripts \ {s} :
            /\ taken'[t] = taken[t] /\ writes'[t] = writes[t] /\ pc'[t] = pc[t]
            /\ writer'[t] = writer[t] /\ closed'[t] = closed[t] /\ want'[t] = want[t]
      BY <1>1, <2>4, <3>1 DEF WaitReturns
    <3>5. QED
      BY <3>1, <3>3, <3>4, OthersAttended
  <2>5. CASE Close(s)
    <3>1. /\ pc[s] = "ready" /\ closed'[s]
          /\ s \in Careful => AllTaken(s)
          /\ pc' = pc /\ want' = want /\ taken' = taken /\ writes' = writes /\ writer' = writer
          /\ \A t \in Scripts \ {s} : closed'[t] = closed[t]
      BY <1>1, <2>5 DEF Close, scriptVars
    <3>2. taken'[s] \subseteq DOMAIN writes'[s] /\ writer'[s] # "off"
      BY <3>1 DEF Attended
    <3>3. s \in Careful => taken'[s] = DOMAIN writes'[s]
      BY <3>1 DEF AllTaken
    <3>4. QED
      BY <3>1, <3>2, <3>3, OthersAttended
  <2>6. ASSUME NEW n \in DOMAIN writes[s], Wait(s, n) PROVE Attended'
    <3>1. /\ pc[s] = "ready" /\ pc'[s] = "waiting" /\ want'[s] = n
          /\ s \in Careful => n \notin taken[s]
          /\ writes' = writes /\ taken' = taken /\ closed' = closed /\ writer' = writer
      BY <1>1, <2>6 DEF Wait
    <3>2. s \in Careful => ~closed[s]
      BY <3>1 DEF Attended, AllTaken
    <3>3. /\ taken'[s] \subseteq DOMAIN writes'[s]
          /\ writer[s] # "off" /\ writer'[s] = writer[s]
          /\ writer'[s] = "exit" => closed'[s]
      BY <3>1 DEF Attended
    <3>4. \A t \in Scripts \ {s} : pc'[t] = pc[t] /\ want'[t] = want[t]
      BY <1>1, <2>6 DEF Wait
    <3>5. QED
      BY <3>1, <3>2, <3>3, <3>4, OthersAttended
  <2>7. ASSUME NEW n \in DOMAIN writes[s], Check(s, n) PROVE Attended'
    <3>1. /\ s \notin Careful /\ taken'[s] = taken[s] \cup {n}
          /\ pc' = pc /\ want' = want /\ writes' = writes /\ closed' = closed /\ writer' = writer
          /\ \A t \in Scripts \ {s} : taken'[t] = taken[t]
      BY <1>1, <2>7 DEF Check
    <3>2. QED
      BY <1>1, <3>1, OthersAttended DEF Attended
  <2>8. QED
    BY <1>3, <2>1, <2>2, <2>3, <2>4, <2>5, <2>6, <2>7 DEF Script
<1>4. ASSUME NEW s \in Scripts, ProcessWrites(s) PROVE Attended'
  <2>1. pc' = pc /\ want' = want /\ taken' = taken /\ closed' = closed
    BY <1>4 DEF ProcessWrites, Receive, Quit, AnnounceLock, Lock, Execute, Report,
                Unlock, scriptVars
  <2>2. /\ \A t \in Scripts \ {s} : writer'[t] = writer[t] /\ writes'[t] = writes[t]
        /\ writer'[s] # "off" /\ (writer'[s] = "exit" => closed[s])
    BY <1>1, <1>4 DEF ProcessWrites, Receive, Quit, AnnounceLock, Lock, Execute, Report,
                      Unlock, scriptVars
  <2>3. DOMAIN writes'[s] = DOMAIN writes[s]
    BY <1>1, <1>4 DEF ProcessWrites, Receive, Quit, AnnounceLock, Lock, Execute, Report,
                      Unlock, scriptVars
  <2>4. QED
    BY <1>1, <2>1, <2>2, <2>3, OthersAttended DEF Attended, AllTaken
<1>5. QED
  BY <1>2, <1>3, <1>4 DEF Next

LEMMA WriterMoves ==
  ASSUME RInv, ReportNeverBlocks, NobodyStuck, NEW s \in Scripts,
         writer[s] \notin {"off", "select", "exit"}
  PROVE  Served(s) \/ \E t \in Scripts : PathOf[t] = PathOf[s] /\ Able(t)
<1>1. writer[s] \in {"lock", "locking", "held", "unlock"} \cup Reporting
  BY DEF RInv, QInv, Queues
<1>2. KeptOut(s) => \E t \in Scripts : PathOf[t] = PathOf[s] /\ Able(t)
  BY DEF NobodyStuck
<1>3. ~KeptOut(s) => Served(s) \/ Able(s)
  BY <1>1 DEF KeptOut, Served, Able, ReportNeverBlocks
<1>4. QED
  BY <1>2, <1>3

LEMMA GoOn ==
  ASSUME RInv, Others, Attended, ReportNeverBlocks, NobodyStuck PROVE CarefulGoOn
<1> SUFFICES ASSUME NEW s \in Careful, pc[s] \notin {"idle", "ended"}
             PROVE  \/ Proceeds(s) \/ Served(s)
                    \/ \E t \in Scripts : PathOf[t] = PathOf[s] /\ Able(t)
  BY DEF CarefulGoOn
<1>1. s \in Scripts /\ pc[s] \in {"ready", "sending", "waiting", "rlock", "reading"}
  BY DEF RInv, QInv, Queues
<1>2. ASSUME queue[s] # <<>>, ~closed[s]
      PROVE  Served(s) \/ \E t \in Scripts : PathOf[t] = PathOf[s] /\ Able(t)
  <2>1. writer[s] \notin {"off", "exit"}
    BY <1>1, <1>2 DEF Attended
  <2>2. CASE writer[s] = "select"
    BY <1>2, <2>2 DEF Served
  <2>3. CASE writer[s] # "select"
    BY <1>1, <2>1, <2>3, WriterMoves
  <2>4. QED
    BY <2>2, <2>3
<1>3. CASE pc[s] = "ready"
  BY <1>1, <1>3 DEF Proceeds, Attended, AllTaken
<1>4. CASE pc[s] = "sending"
  <2>1. ~closed[s]
    BY <1>1, <1>4 DEF Attended
  <2>2. CASE Len(queue[s]) < QueueCap
    BY <1>4, <2>2 DEF Proceeds
  <2>3. CASE ~(Len(queue[s]) < QueueCap)
    <3>1. queue[s] # <<>>
      BY <1>1, <2>3 DEF RInv, QInv, Queues
    <3>2. QED
      BY <1>2, <2>1, <3>1
  <2>4. QED
    BY <2>2, <2>3
<1>5. CASE pc[s] = "waiting"
  <2>1. ~closed[s] /\ want[s] \in DOMAIN writes[s] /\ want[s] \notin taken[s]
    BY <1>1, <1>5 DEF Attended
  <2>2. CASE writes[s][want[s]] # "none"
    BY <1>5, <2>1, <2>2 DEF Proceeds, Available
  <2>3. CASE writes[s][want[s]] = "none"
    <3>1. want[s] \in Hand(s) \cup {queue[s][i] : i \in DOMAIN queue[s]}
      BY <1>1, <1>5, <2>1, <2>3 DEF RInv, FInv, Ordered, InOrder, Unreported, Out
    <3>2. CASE want[s] \in Hand(s)
      <4>1. writer[s] \in AtWrite
        BY <3>2 DEF Hand
      <4>2. QED
        BY <1>1, <4>1, WriterMoves DEF AtWrite
    <3>3. CASE want[s] \notin Hand(s)
      <4>1. queue[s] # <<>>
        BY <3>1, <3>3
      <4>2. QED
        BY <1>2, <2>1, <4>1
    <3>4. QED
      BY <3>2, <3>3
  <2>4. QED
    BY <2>2, <2>3
<1>6. CASE pc[s] = "rlock"
  <2>1. CASE s \in Mutex(s).readers
    BY <1>1, <1>6, <2>1 DEF Able
  <2>2. CASE s \notin Mutex(s).readers
    BY <1>1, <1>6, <2>2 DEF NobodyStuck, KeptOut
  <2>3. QED
    BY <2>1, <2>2
<1>7. CASE pc[s] = "reading"
  BY <1>1, <1>7 DEF Able
<1>8. QED
  BY <1>1, <1>3, <1>4, <1>5, <1>6, <1>7

(* No deadlock for the scripts of com/Unit: as long as a careful script is *)
(* under way, it can make or return from a call, or its connection's       *)
(* goroutine or one that has the lock of its path can take a step.  This   *)
(* is what CarefulEnds rests on, for any number of scripts, writes and     *)
(* queries and any queue.                                                  *)
THEOREM CarefulNeverStuck == Spec => []CarefulGoOn
<1>1. Init => Attended /\ Others
  BY DEF Init, Attended, Others, AllTaken
<1>2. RInv /\ Others /\ Attended /\ [Next]_vars => Others' /\ Attended'
  BY OthersKept, AttendedKept DEF RInv
<1>3. RInv /\ Others /\ Attended /\ ReportNeverBlocks /\ NobodyStuck => CarefulGoOn
  BY GoOn
<1>4. QED
  BY <1>1, <1>2, <1>3, RInvInit, RInvKept, ReportsNeverBlock, NeverStuck, PTL DEF Spec
=============================================================================
