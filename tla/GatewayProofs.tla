--------------------------- MODULE GatewayProofs ---------------------------
(***************************************************************************)
(* For every set of requests, sessions and bodies: which calls of a        *)
(* request the gateway answers, in whatever order their goroutines end;    *)
(* the types of what requests, sessions and channels hold; and what the    *)
(* gateway makes of the session manager.  A session excludes as long as    *)
(* none of its entries outlives the TTL, and no way through Handle leaves  *)
(* an entry behind.                                                        *)
(***************************************************************************)
EXTENDS Gateway, FiniteSetTheorems, TLAPS

(* The functions that a request has its part of.                           *)
Shapes == /\ DOMAIN phase = Requests /\ DOMAIN task = Requests
          /\ DOMAIN chan = Requests /\ DOMAIN out = Requests
          /\ body \in [Requests -> Bodies \cup {Empty}]

(* While calls are under way: what runs or has its response is owed one,   *)
(* and what is done has put it into the channel exactly if it was.         *)
UnderWay(r) ==
    /\ DOMAIN task[r] = Indices(r)
    /\ \A i \in Indices(r) :
         /\ task[r][i] \in {"running", "hang"} \cup Replied => i \in Owed(r)
         /\ task[r][i] = "done" => (i \in Owed(r) <=> \E a \in chan[r] : a.call = i)
    /\ \A a \in chan[r] : a.call \in Indices(r) /\ task[r][a.call] = "done"

(* What has been written for a body that could be parsed.                  *)
Written(r) ==
    \/ out[r].kind = "dropped" /\ out[r].answers # {}
    \/ out[r] = Answers(Owed(r))
    \/ body[r].kind = "single" /\ Owed(r) = {} /\ out[r] = None

Parsed(r) == body[r].kind \in {"single", "batch"}

Good(r) ==
    /\ phase[r] # "waiting" => chan[r] = {}
    /\ phase[r] \in {"single", "waiting"} => UnderWay(r)
    /\ phase[r] = "single" => body[r].kind = "single"
    /\ phase[r] = "waiting" => body[r].kind = "batch"
    /\ (phase[r] = "leaving" /\ Parsed(r)) => Written(r)
    /\ (phase[r] = "leaving" /\ ~Parsed(r)) => out[r].kind # "answers"

Inv == Shapes /\ \A r \in Requests : Good(r)

(* The indices of a single call, and what is owed.                         *)
LEMMA BodyFacts ==
    ASSUME Shapes, NEW r \in Requests
    PROVE  /\ Owed(r) \subseteq Indices(r)
           /\ body[r].kind = "single" => Indices(r) = {1}
           /\ \A i \in Indices(r) : CallsOf(r)[i] \in Calls
<1>1. CASE body[r] \in Bodies
  <2>1. /\ CallsOf(r) \in Seq(Calls)
        /\ body[r].kind = "single" => Len(CallsOf(r)) = 1
    <3>1. PICK b \in Bodies : b = body[r]
      BY <1>1
    <3>2. /\ b.calls \in Seq(Calls)
          /\ b.kind = "single" => Len(b.calls) = 1
      BY ONLY GatewayAssumption, b \in Bodies
    <3>3. QED
      BY <3>1, <3>2 DEF CallsOf
  <2>2. \A i \in Indices(r) : CallsOf(r)[i] \in Calls
    BY <2>1 DEF Indices
  <2>3. body[r].kind = "single" => Indices(r) = {1}
    <3>1. 1 .. 1 = {1}
      OBVIOUS
    <3>2. QED
      BY <2>1, <3>1 DEF Indices
  <2>4. QED
    BY <2>2, <2>3 DEF Owed
<1>2. CASE body[r] = Empty
  BY <1>2 DEF Empty, CallsOf, Owed, Indices
<1>3. QED
  BY <1>1, <1>2 DEF Shapes

(* A request of which a step leaves everything alone stays good.           *)
Same(s) == /\ phase'[s] = phase[s] /\ body'[s] = body[s] /\ task'[s] = task[s]
           /\ chan'[s] = chan[s] /\ out'[s] = out[s]

LEMMA SameKeeps ==
    ASSUME NEW s \in Requests, Good(s), Same(s) PROVE Good(s)'
BY DEF Good, Same, UnderWay, Written, Parsed, Owed, Indices, CallsOf

(* Every step changes one request at most.                                 *)
LEMMA StepOfOne ==
    ASSUME Shapes, Next
    PROVE  /\ Shapes'
           /\ \/ \A s \in Requests : Same(s)
              \/ \E r \in Requests :
                   /\ \A s \in Requests \ {r} : Same(s)
                   /\ \/ Handle(r) \/ Client(r)
                      \/ \E i \in DOMAIN task[r] : Goroutine(r, i)
<1>. USE DEF Shapes, Same, Goto, Write, SetTask
<1>1. ASSUME NEW r \in Requests, Handle(r)
      PROVE  Shapes' /\ \A s \in Requests \ {r} : Same(s)
  BY <1>1 DEF Handle, Reject, Dispatch, WriteSingle, WriteBatch, Leave
<1>2. ASSUME NEW r \in Requests, Refuse(r) \/ Admit(r) \/ Again(r)
      PROVE  Shapes' /\ \A s \in Requests \ {r} : Same(s)
  BY <1>2 DEF Refuse, Admit, Again
<1>3. ASSUME NEW r \in Requests, NEW b \in Bodies, Receive(r, b)
      PROVE  Shapes' /\ \A s \in Requests \ {r} : Same(s)
  BY <1>3 DEF Receive
<1>4. ASSUME NEW r \in Requests, NEW i \in DOMAIN task[r], Goroutine(r, i)
      PROVE  Shapes' /\ \A s \in Requests \ {r} : Same(s)
  BY <1>4 DEF Goroutine, Route, Run, Send
<1>5. ASSUME NEW r \in Requests, NoteEnds(r)
      PROVE  Shapes' /\ \A s \in Requests : Same(s)
  BY <1>5 DEF NoteEnds
<1>6. CASE UNCHANGED gwVars
  BY <1>6 DEF gwVars
<1>7. QED
  BY <1>1, <1>2, <1>3, <1>4, <1>5, <1>6 DEF Next, Client

(* What can be encoded is answered, call by call; else nothing is.         *)
LEMMA EncodedIs ==
    ASSUME NEW as
    PROVE  \/ Encoded(as).kind = "dropped" /\ Encoded(as).answers # {}
           \/ Encoded(as) = Answers({a.call : a \in as})
<1> DEFINE bad == {a \in as : a.form = "unencodable"}
<1>1. CASE bad = {}
  BY <1>1, Zenon DEF Encoded
<1>2. CASE bad # {}
  <2>1. Encoded(as) = Dropped({a.call : a \in bad})
    BY <1>2, Zenon DEF Encoded
  <2>2. {a.call : a \in bad} # {}
    BY <1>2
  <2>3. \A D : Dropped(D).kind = "dropped" /\ Dropped(D).answers = D
    BY DEF Dropped
  <2>4. QED
    <3> HIDE DEF bad
    <3>1. QED
      BY <2>1, <2>2, <2>3
<1>3. QED
  BY <1>1, <1>2

(* The steps of Handle.                                                    *)
LEMMA HandleKeeps ==
    ASSUME Shapes, NEW r \in Requests, Good(r),
           Handle(r) \/ Client(r)
    PROVE  Good(r)'
<1>. USE DEF Shapes, Goto, Write
<1>1. CASE Client(r) \/ Leave(r)
  BY <1>1 DEF Client, Refuse, Again, Admit, Receive, Leave, Good
<1>2. CASE Reject(r)
  BY <1>2 DEF Reject, Error, Good, Parsed
<1>3. CASE Dispatch(r)
  <2>1. /\ task'[r] = [i \in Indices(r) |-> "routing"]
        /\ chan'[r] = {} /\ body' = body
        /\ phase'[r] = IF body[r].kind = "single" THEN "single" ELSE "waiting"
        /\ body[r].kind \in {"single", "batch"}
    BY <1>3 DEF Dispatch, Good
  <2>2. UnderWay(r)'
    BY <2>1 DEF UnderWay, Indices, CallsOf, Owed, Replied
  <2>3. QED
    BY <2>1, <2>2 DEF Good
<1>4. CASE WriteSingle(r)
  <2>1. /\ body' = body /\ phase'[r] = "leaving" /\ chan' = chan
        /\ chan[r] = {} /\ body[r].kind = "single" /\ Indices(r) = {1}
        /\ UnderWay(r)
    BY <1>4, BodyFacts DEF WriteSingle, Good
  <2>2. CASE task[r][1] = "done"
    <3>1. out'[r] = None
      BY <1>4, <2>2 DEF WriteSingle
    <3>2. Owed(r) = {}
      BY <2>1, <2>2, BodyFacts DEF UnderWay
    <3>3. Written(r)'
      BY <2>1, <3>1, <3>2 DEF Written, Owed, Indices, CallsOf
    <3>4. QED
      BY <2>1, <3>3 DEF Good, Parsed
  <2>3. CASE task[r][1] \in Replied
    <3>1. out'[r] = Encoded({[call |-> 1, form |-> task[r][1]]})
      BY <1>4, <2>3 DEF WriteSingle, Replied
    <3>2. Owed(r) = {1}
      BY <2>1, <2>3, BodyFacts DEF UnderWay
    <3>3. \/ out'[r].kind = "dropped" /\ out'[r].answers # {}
          \/ out'[r] = Answers({1})
      <4>1. {a.call : a \in {[call |-> 1, form |-> task[r][1]]}} = {1}
        OBVIOUS
      <4>2. QED
        BY <3>1, <4>1, EncodedIs
    <3>4. Written(r)'
      BY <2>1, <3>2, <3>3 DEF Written, Owed, Indices, CallsOf, Answers
    <3>5. QED
      BY <2>1, <3>4 DEF Good, Parsed
  <2>4. QED
    BY <1>4, <2>2, <2>3 DEF WriteSingle
<1>5. CASE WriteBatch(r)
  <2>1. /\ body' = body /\ phase'[r] = "leaving" /\ chan'[r] = {}
        /\ body[r].kind = "batch" /\ UnderWay(r)
        /\ out'[r] = Encoded(chan[r])
    BY <1>5 DEF WriteBatch, Good
  <2>2. Owed(r) = {a.call : a \in chan[r]}
    BY <1>5, <2>1, BodyFacts DEF WriteBatch, Gathered, UnderWay
  <2>3. \/ out'[r].kind = "dropped" /\ out'[r].answers # {}
        \/ out'[r] = Answers(Owed(r))
    BY <2>1, <2>2, EncodedIs
  <2>4. Written(r)'
    BY <2>1, <2>3 DEF Written, Owed, Indices, CallsOf, Answers
  <2>5. QED
    BY <2>1, <2>4 DEF Good, Parsed
<1>6. QED
  BY <1>1, <1>2, <1>3, <1>4, <1>5 DEF Handle

(* The steps of a call's goroutine.                                        *)
LEMMA GoroutineKeeps ==
    ASSUME Shapes, NEW r \in Requests, Good(r),
           NEW i \in DOMAIN task[r], Goroutine(r, i)
    PROVE  Good(r)'
<1>. USE DEF Shapes, SetTask
<1>1. ASSUME phase[r] \in {"single", "waiting"} => UnderWay(r)',
             phase' = phase, body' = body, out' = out,
             phase[r] # "waiting" => chan'[r] = chan[r]
      PROVE  Good(r)'
  BY <1>1 DEF Good, Written, Parsed, Owed, Indices, CallsOf
<1>2. CASE Route(r, i) \/ Run(r, i)
  <2>1. /\ phase' = phase /\ body' = body /\ out' = out /\ chan' = chan
    BY <1>2 DEF Route, Run
  <2>2. ASSUME UnderWay(r) PROVE UnderWay(r)'
    <3>1. /\ i \in Indices(r) /\ task[r][i] \in {"routing", "running"}
          /\ \A j \in Indices(r) \ {i} : task'[r][j] = task[r][j]
          /\ DOMAIN task'[r] = Indices(r)
      BY <1>2, <2>2 DEF Route, Run, UnderWay
    <3>2. /\ task'[r][i] \in {"running", "hang"} \cup Replied => i \in Owed(r)
          /\ task'[r][i] = "done" => i \notin Owed(r)
      <4>1. CASE Route(r, i)
        BY <4>1, <3>1, <2>2, BodyFacts
           DEF Route, Malformed, Notification, Owed, Calls, Replied, UnderWay
      <4>2. CASE Run(r, i)
        <5>1. i \in Owed(r)
          BY <4>2, <2>2, <3>1 DEF Run, UnderWay
        <5>2. task'[r][i] \in {"hang"} \cup Replied
          BY <4>2, <2>2, <3>1, GatewayAssumption
             DEF Run, UnderWay, AllOutcomes, Replied
        <5>3. QED
          BY <5>1, <5>2 DEF Replied
      <4>3. QED
        BY <1>2, <4>1, <4>2
    <3>3. \A a \in chan[r] : a.call # i
      BY <2>2, <3>1 DEF UnderWay
    <3>4. QED
      BY <2>1, <2>2, <3>1, <3>2, <3>3 DEF UnderWay, Owed, Indices, CallsOf
  <2>3. QED
    BY <1>1, <2>1, <2>2 DEF Good
<1>3. CASE Send(r, i)
  <2>1. /\ phase' = phase /\ body' = body /\ out' = out
        /\ phase[r] = "waiting" /\ UnderWay(r) /\ i \in Indices(r)
        /\ task[r][i] \in Replied /\ i \in Owed(r)
        /\ chan'[r] = chan[r] \cup {[call |-> i, form |-> task[r][i]]}
        /\ task'[r] = [task[r] EXCEPT ![i] = "done"]
    BY <1>3 DEF Send, Good, UnderWay
  <2>2. Indices(r)' = Indices(r) /\ Owed(r)' = Owed(r)
    BY <2>1 DEF Owed, Indices, CallsOf
  <2>3. /\ task'[r][i] = "done"
        /\ \A j \in Indices(r) \ {i} : task'[r][j] = task[r][j]
        /\ DOMAIN task'[r] = Indices(r)
    BY <2>1 DEF UnderWay
  <2>4. \A a \in chan'[r] :
          \/ a \in chan[r]
          \/ a.call = i
    BY <2>1
  <2>5. \E a \in chan'[r] : a.call = i
    <3>1. [call |-> i, form |-> task[r][i]] \in chan'[r]
      BY <2>1
    <3>2. [call |-> i, form |-> task[r][i]].call = i
      OBVIOUS
    <3>3. QED
      BY <3>1, <3>2
  <2>6. \A j \in Indices(r) \ {i} :
          (\E a \in chan'[r] : a.call = j) <=> \E a \in chan[r] : a.call = j
    BY <2>1
  <2>7. \A a \in chan'[r] : a.call \in Indices(r) /\ task'[r][a.call] = "done"
    BY <2>1, <2>3, <2>4 DEF UnderWay
  <2>8. ASSUME NEW j \in Indices(r)
        PROVE  /\ task'[r][j] \in {"running", "hang"} \cup Replied => j \in Owed(r)
               /\ task'[r][j] = "done"
                    => (j \in Owed(r) <=> \E a \in chan'[r] : a.call = j)
    <3>1. CASE j = i
      BY <3>1, <2>1, <2>5
    <3>2. CASE j # i
      BY <3>2, <2>1, <2>3, <2>6 DEF UnderWay
    <3>3. QED
      BY <3>1, <3>2
  <2>9. UnderWay(r)'
    BY <2>2, <2>3, <2>7, <2>8 DEF UnderWay
  <2>10. QED
    BY <1>1, <2>1, <2>9
<1>4. QED
  BY <1>2, <1>3 DEF Goroutine

LEMMA Inductive == ASSUME Inv, [Next]_vars PROVE Inv'
<1>1. CASE Next
  <2>1. CASE \A s \in Requests : Same(s)
    BY <1>1, <2>1, StepOfOne, SameKeeps DEF Inv
  <2>2. ASSUME NEW r \in Requests, \A s \in Requests \ {r} : Same(s),
               \/ Handle(r) \/ Client(r)
               \/ \E i \in DOMAIN task[r] : Goroutine(r, i)
        PROVE  Inv'
    <3>1. Good(r)'
      BY <2>2, HandleKeeps, GoroutineKeeps DEF Inv
    <3>2. \A s \in Requests \ {r} : Good(s)'
      BY <2>2, SameKeeps DEF Inv
    <3>3. QED
      BY <1>1, <3>1, <3>2, StepOfOne DEF Inv
  <2>3. QED
    BY <1>1, <2>1, <2>2, StepOfOne DEF Inv
<1>2. CASE UNCHANGED vars
  BY <1>2, SameKeeps DEF Inv, Shapes, Same, vars, gwVars
<1>3. QED
  BY <1>1, <1>2

LEMMA Inductively == Spec => []Inv
<1>1. Init => Inv
  BY DEF Init, Inv, Shapes, Good, Empty, Parsed
<1>2. QED
  BY <1>1, Inductive, PTL DEF Spec

(* A batch that is answered is answered whole: the invariant follows each  *)
(* call's answer from its goroutine into the channel and out of it.        *)
THEOREM BatchesExact == Spec => []BatchExact
<1>1. ASSUME Inv, NEW r \in Requests, phase[r] = "leaving",
             out[r].kind = "answers"
      PROVE  out[r].answers = Owed(r)
  <2>1. Written(r)
    BY <1>1 DEF Inv, Good
  <2>2. out[r] = Answers(Owed(r))
    BY <1>1, <2>1 DEF Written, None
  <2>3. QED
    BY <2>2 DEF Answers
<1>2. Inv => BatchExact
  BY <1>1 DEF BatchExact
<1>3. QED
  BY <1>2, Inductively, PTL

(* A call with an id stays without an answer only for the reasons that     *)
(* Silenced names: v2, or a result of its request that cannot be encoded.  *)
THEOREM SilencesExplained == Spec => []SilenceExplained
<1>1. ASSUME Inv, NEW r \in Requests, phase[r] = "leaving",
             body[r].kind \in {"single", "batch"},
             NEW i \in Indices(r), CallsOf(r)[i].id, ~Silenced(r, i)
      PROVE  out[r].kind = "answers" /\ i \in out[r].answers
  <2>1. Written(r) /\ CallsOf(r)[i] \in Calls
    BY <1>1, BodyFacts DEF Inv, Good, Parsed
  <2>2. i \in Owed(r)
    BY <1>1, <2>1 DEF Silenced, Owed, Malformed, Calls
  <2>3. out[r] = Answers(Owed(r))
    BY <1>1, <2>1, <2>2 DEF Written, Silenced
  <2>4. QED
    BY <2>2, <2>3 DEF Answers
<1>2. Inv => SilenceExplained
  BY <1>1 DEF SilenceExplained
<1>3. QED
  BY <1>2, Inductively, PTL

(* Why no goroutine of a batch waits at the channel: each call has sent    *)
(* once at most, and there is room for one response per call.              *)
OneEach == \A r \in Requests : \A a, b \in chan[r] : a.call = b.call => a = b

SendsHaveRoom ==
    \A r \in Requests : \A i \in DOMAIN task[r] :
        phase[r] = "waiting" /\ task[r][i] \in Replied => Room(r)

LEMMA OneEachKept == ASSUME Inv, OneEach, [Next]_vars PROVE OneEach'
<1>1. CASE UNCHANGED chan
  BY <1>1 DEF OneEach
<1>2. ASSUME NEW r \in Requests, NEW i \in DOMAIN task[r], Send(r, i) PROVE OneEach'
  <2> DEFINE new == [call |-> i, form |-> task[r][i]]
  <2>1. /\ DOMAIN chan = Requests /\ chan'[r] = chan[r] \cup {new}
        /\ \A s \in Requests \ {r} : chan'[s] = chan[s]
    BY <1>2 DEF Send, Inv, Shapes
  <2>2. \A a \in chan[r] : a.call # i
    BY <1>2 DEF Send, Inv, Good, UnderWay, Replied
  <2>3. new.call = i
    OBVIOUS
  <2> HIDE DEF new
  <2>4. \A a, b \in chan'[r] : a.call = b.call => a = b
    BY <2>1, <2>2, <2>3 DEF OneEach
  <2>5. QED
    BY <2>1, <2>4 DEF OneEach
<1>3. ASSUME NEW r \in Requests, WriteBatch(r) PROVE OneEach'
  BY <1>3 DEF WriteBatch, OneEach, Inv, Shapes
<1>4. ASSUME NEW r \in Requests, Handle(r), ~WriteBatch(r) PROVE chan' = chan
  BY <1>4 DEF Handle, Reject, Dispatch, WriteSingle, Leave
<1>5. ASSUME NEW r \in Requests, NEW i \in DOMAIN task[r], Goroutine(r, i), ~Send(r, i)
      PROVE  chan' = chan
  BY <1>5 DEF Goroutine, Route, Run
<1>6. ASSUME NEW r \in Requests, Client(r) \/ NoteEnds(r)
      PROVE  chan' = chan
  BY <1>6 DEF Client, Refuse, Again, NoteEnds, Admit, Receive
<1>7. QED
  BY <1>1, <1>2, <1>3, <1>4, <1>5, <1>6 DEF Next, vars, gwVars

LEMMA RoomFor ==
    ASSUME Inv, OneEach, NEW r \in Requests, NEW i \in DOMAIN task[r],
           phase[r] = "waiting", task[r][i] \in Replied
    PROVE  Room(r)
<1> DEFINE n == Len(CallsOf(r))
           others == Indices(r) \ {i}
           f == [a \in chan[r] |-> a.call]
<1>1. UnderWay(r) /\ i \in Indices(r)
  BY DEF Inv, Good, UnderWay
<1>2. \A a \in chan[r] : a.call \in others
  BY <1>1 DEF UnderWay, Replied
<1>3. f \in Injection(chan[r], others)
  BY <1>2 DEF OneEach, Injection, IsInjective
<1>4. n \in Nat
  <2>1. CASE body[r] \in Bodies
    BY <2>1, GatewayAssumption DEF CallsOf
  <2>2. CASE body[r] = Empty
    BY <2>2 DEF CallsOf, Empty
  <2>3. QED
    BY <2>1, <2>2 DEF Inv, Shapes
<1>5. IsFiniteSet(Indices(r)) /\ Cardinality(Indices(r)) = n
  <2>1. IsFiniteSet(1..n) /\ Cardinality(1..n) = IF 1 > n THEN 0 ELSE n - 1 + 1
    BY <1>4, FS_Interval
  <2>2. QED
    BY <1>4, <2>1 DEF Indices
<1>6. IsFiniteSet(others) /\ Cardinality(others) = n - 1
  BY <1>1, <1>5, FS_RemoveElement
<1>7. IsFiniteSet(chan[r]) /\ Cardinality(chan[r]) <= Cardinality(others)
  <2> HIDE DEF f, others
  <2>1. QED
    BY <1>3, <1>6, FS_Injection
<1>8. Cardinality(chan[r]) \in Nat
  BY <1>7, FS_CardinalityType
<1>9. QED
  BY <1>4, <1>6, <1>7, <1>8 DEF Room

(* The channel of a batch has as much room as the batch has calls, so that *)
(* the goroutine of a call never waits to send, however many calls there   *)
(* are, and wg.Wait waits for methods only.                                *)
THEOREM SendsNeverBlock == Spec => []SendsHaveRoom
<1>1. Init => OneEach
  BY DEF Init, OneEach
<1>2. Inv /\ OneEach /\ [Next]_vars => OneEach'
  BY OneEachKept
<1>3. Inv /\ OneEach => SendsHaveRoom
  BY RoomFor DEF SendsHaveRoom
<1>4. QED
  BY <1>1, <1>2, <1>3, Inductively, PTL DEF Spec

----------------------------------------------------------------------------
(* The types of what a request carries.                                    *)
States == {"routing", "running", "done", "hang"} \cup Replied

TypedOf(r) ==
    /\ phase[r] \in {"idle", "reading"} => out[r] = None
    /\ task[r] \in Seq(States)
    /\ \A a \in chan[r] : a.form \in Replied
    /\ out[r] = None \/ out[r].answers \subseteq Indices(r)

Fields == /\ SessionsTypeOK /\ up \in BOOLEAN /\ notes \subseteq Requests
          /\ phase \in [Requests -> Phases]
          /\ \A r \in Requests : TypedOf(r)

LEMMA IndexedSeq ==
  ASSUME NEW n \in Nat, NEW f \in [1..n -> States]
  PROVE  f \in Seq(States)
  OBVIOUS

LEMMA ReplacedIn ==
  ASSUME NEW s \in Seq(States), NEW i \in DOMAIN s, NEW x \in States
  PROVE  [s EXCEPT ![i] = x] \in Seq(States)
<1>1. Len(s) \in Nat /\ s \in [1..Len(s) -> States]
  OBVIOUS
<1>2. [s EXCEPT ![i] = x] \in [1..Len(s) -> States]
  BY <1>1
<1>3. QED
  BY <1>1, <1>2, IndexedSeq

(* What Encode is given are answers to the calls of the request.           *)
LEMMA EncodedAnswers ==
  ASSUME NEW as, NEW I, \A a \in as : a.call \in I
  PROVE  Encoded(as).answers \subseteq I
  BY DEF Encoded, Dropped, Answers

LEMMA HandleTypes ==
    ASSUME Shapes, NEW r \in Requests, Good(r), TypedOf(r),
           Handle(r) \/ Client(r)
    PROVE  TypedOf(r)'
<1>. USE DEF Shapes, Goto, Write
<1>1. CASE Client(r)
  <2>1. task'[r] = task[r] /\ chan'[r] = chan[r]
    BY <1>1 DEF Client, Refuse, Again, Admit, Receive
  <2>2. CASE Refuse(r)
    BY <2>1, <2>2 DEF Refuse, Error, TypedOf, Indices, CallsOf
  <2>3. CASE Again(r)
    BY <2>1, <2>3 DEF Again, TypedOf
  <2>4. CASE Admit(r)
    BY <2>1, <2>4 DEF Admit, TypedOf, Indices, CallsOf
  <2>5. CASE \E b \in Bodies : Receive(r, b)
    <3>1. out'[r] = None /\ phase'[r] = "read"
      BY <2>5 DEF Receive, TypedOf
    <3>2. QED
      BY <2>1, <3>1 DEF TypedOf
  <2>6. QED
    BY <1>1, <2>2, <2>3, <2>4, <2>5 DEF Client
<1>2. CASE Reject(r)
  BY <1>2 DEF Reject, Error, TypedOf, Indices, CallsOf
<1>3. CASE Leave(r)
  <2>1. chan'[r] = {} /\ out'[r] = None /\ task'[r] = <<>> /\ phase'[r] = "answered"
    BY <1>3 DEF Leave, Good
  <2>2. QED
    BY <2>1 DEF TypedOf
<1>4. CASE Dispatch(r)
  <2>1. /\ task'[r] = [i \in Indices(r) |-> "routing"]
        /\ UNCHANGED <<chan, out, body>> /\ phase'[r] \in {"single", "waiting"}
        /\ body[r].kind \in {"single", "batch"}
    BY <1>4 DEF Dispatch
  <2>2. Len(CallsOf(r)) \in Nat
    <3>1. body[r] \in Bodies
      BY <2>1 DEF Empty
    <3>2. PICK b \in Bodies : b = body[r]
      BY <3>1
    <3>3. b.calls \in Seq(Calls)
      BY ONLY GatewayAssumption, b \in Bodies
    <3>4. QED
      BY <3>2, <3>3 DEF CallsOf
  <2>3. task'[r] \in Seq(States)
    BY <2>1, <2>2, IndexedSeq DEF Indices, States
  <2>4. QED
    BY <2>1, <2>3 DEF TypedOf, Indices, CallsOf
<1>5. CASE WriteSingle(r)
  <2>1. /\ UNCHANGED <<body, chan>> /\ phase'[r] = "leaving" /\ task'[r] = <<"done">>
        /\ Indices(r) = {1}
        /\ out'[r] = IF task[r][1] = "done"
                     THEN None ELSE Encoded({[call |-> 1, form |-> task[r][1]]})
    BY <1>5, BodyFacts DEF WriteSingle, Good
  <2>2. Encoded({[call |-> 1, form |-> task[r][1]]}).answers \subseteq {1}
    <3>1. \A a \in {[call |-> 1, form |-> task[r][1]]} : a.call \in {1}
      OBVIOUS
    <3>2. QED
      BY <3>1, EncodedAnswers
  <2>3. task'[r] \in Seq(States)
    BY <2>1 DEF States
  <2>4. QED
    BY <2>1, <2>2, <2>3 DEF TypedOf, Indices, CallsOf
<1>6. CASE WriteBatch(r)
  <2>1. /\ UNCHANGED <<body, task>> /\ phase'[r] = "leaving" /\ chan'[r] = {}
        /\ UnderWay(r) /\ out'[r] = Encoded(chan[r])
    BY <1>6 DEF WriteBatch, Good
  <2>2. Encoded(chan[r]).answers \subseteq Indices(r)
    BY <2>1, EncodedAnswers DEF UnderWay
  <2>3. QED
    BY <2>1, <2>2 DEF TypedOf, Indices, CallsOf
<1>7. QED
  BY <1>1, <1>2, <1>3, <1>4, <1>5, <1>6 DEF Handle

LEMMA GoroutineTypes ==
    ASSUME Shapes, NEW r \in Requests, TypedOf(r),
           NEW i \in DOMAIN task[r], Goroutine(r, i)
    PROVE  TypedOf(r)'
<1>. USE DEF Shapes, SetTask
<1>1. /\ UNCHANGED <<phase, body, out>>
      /\ \E x \in States : task'[r] = [task[r] EXCEPT ![i] = x]
  <2>1. CASE Route(r, i)
    BY <2>1 DEF Route, States, Replied
  <2>2. CASE Run(r, i)
    <3>1. PICK o \in Outcomes :
            task'[r] = [task[r] EXCEPT ![i] = IF o = "panic" THEN "reply" ELSE o]
      BY <2>2 DEF Run
    <3>2. (IF o = "panic" THEN "reply" ELSE o) \in States
      BY <3>1, GatewayAssumption DEF AllOutcomes, States, Replied
    <3>3. QED
      BY <2>2, <3>1, <3>2 DEF Run
  <2>3. CASE Send(r, i)
    BY <2>3 DEF Send, States
  <2>4. QED
    BY <2>1, <2>2, <2>3 DEF Goroutine
<1>2. task'[r] \in Seq(States)
  BY <1>1, ReplacedIn DEF TypedOf
<1>3. \A a \in chan'[r] : a.form \in Replied
  <2>1. CASE Route(r, i) \/ Run(r, i)
    BY <2>1 DEF Route, Run, TypedOf
  <2>2. CASE Send(r, i)
    <3>1. /\ chan'[r] = chan[r] \cup {[call |-> i, form |-> task[r][i]]}
          /\ task[r][i] \in Replied
      BY <2>2 DEF Send
    <3>2. QED
      BY <3>1 DEF TypedOf
  <2>3. QED
    BY <2>1, <2>2 DEF Goroutine
<1>4. QED
  BY <1>1, <1>2, <1>3 DEF TypedOf, Indices, CallsOf

LEMMA FieldsKept == ASSUME Inv, Fields, Next PROVE Fields'
<1>1. SessionsTypeOK' /\ phase' \in [Requests -> Phases]
  <2>1. ASSUME NEW r \in Requests,
               Refuse(r) \/ Reject(r) \/ Dispatch(r) \/ WriteSingle(r) \/ WriteBatch(r)
                 \/ Again(r) \/ \E b \in Bodies : Receive(r, b)
        PROVE  UNCHANGED smVars /\ phase' \in [Requests -> Phases]
    BY <2>1 DEF Refuse, Reject, Dispatch, WriteSingle, WriteBatch, Again, Receive,
                Goto, Fields, Phases, ActivePhases
  <2>2. ASSUME NEW r \in Requests, Leave(r) \/ Admit(r)
        PROVE  SessionsTypeOK' /\ phase' \in [Requests -> Phases]
    BY <2>2, GatewayAssumption DEF Leave, Admit, Delete, Add, Goto, Fields,
                SessionsTypeOK, Phases, ActivePhases
  <2>3. ASSUME NEW r \in Requests,
               NoteEnds(r) \/ \E i \in DOMAIN task[r] : Goroutine(r, i)
        PROVE  UNCHANGED smVars /\ phase' \in [Requests -> Phases]
    BY <2>3 DEF NoteEnds, Goroutine, Route, Run, Send, Fields
  <2>4. CASE SessionsStep /\ up /\ UNCHANGED gwVars
    BY <2>4, KeysAssumption DEF SessionsStep, Expire, CleanerReads,
         CleanerDeletes, Delete, gwVars, Fields, SessionsTypeOK
  <2>5. UNCHANGED smVars => SessionsTypeOK'
    BY DEF smVars, Fields, SessionsTypeOK
  <2>6. QED
    BY <2>1, <2>2, <2>3, <2>4, <2>5 DEF Next, Handle, Client
<1>2. up' \in BOOLEAN /\ notes' \subseteq Requests
  <2>1. ASSUME NEW r \in Requests,
               Handle(r) \/ Client(r)
        PROVE  UNCHANGED <<up, notes>>
    BY <2>1 DEF Handle, Client, Refuse, Reject, Dispatch, WriteSingle, WriteBatch,
                Leave, Again, Admit, Receive
  <2>2. ASSUME NEW r \in Requests, NoteEnds(r)
        PROVE  up' \in BOOLEAN /\ notes' \subseteq Requests
    BY <2>2 DEF NoteEnds, Fields
  <2>3. ASSUME NEW r \in Requests, NEW i \in DOMAIN task[r], Goroutine(r, i)
        PROVE  up' = up /\ notes' \subseteq Requests
    BY <2>3 DEF Goroutine, Route, Run, Send, Fields
  <2>4. CASE SessionsStep /\ up /\ UNCHANGED gwVars
    BY <2>4 DEF gwVars, Fields
  <2>5. QED
    BY <2>1, <2>2, <2>3, <2>4 DEF Next, Fields
<1>4. ASSUME NEW s \in Requests, Same(s) PROVE TypedOf(s)'
  BY <1>4 DEF Same, Fields, TypedOf, Indices, CallsOf
<1>5. \A s \in Requests : TypedOf(s)'
  <2>1. CASE \A s \in Requests : Same(s)
    BY <2>1, <1>4
  <2>2. ASSUME NEW r \in Requests, \A s \in Requests \ {r} : Same(s),
               \/ Handle(r) \/ Client(r)
               \/ \E i \in DOMAIN task[r] : Goroutine(r, i)
        PROVE  \A s \in Requests : TypedOf(s)'
    <3>1. Shapes /\ Good(r) /\ TypedOf(r)
      BY DEF Inv, Fields
    <3>2. TypedOf(r)'
      BY <2>2, <3>1, HandleTypes, GoroutineTypes
    <3>3. QED
      BY <2>2, <3>2, <1>4
  <2>3. QED
    BY <2>1, <2>2, StepOfOne DEF Inv
<1>6. QED
  BY <1>1, <1>2, <1>5 DEF Fields

LEMMA FieldsAlways == Spec => []Fields
<1>1. Init => Fields
  BY DEF Init, SessionsInit, Fields, SessionsTypeOK, TypedOf, Phases, ActivePhases, None
<1>2. Inv /\ Fields /\ [Next]_vars => Fields'
  <2>1. ASSUME Fields, UNCHANGED vars PROVE Fields'
    BY <2>1 DEF vars, smVars, gwVars, Fields, SessionsTypeOK, TypedOf, Indices,
                CallsOf
  <2>2. QED
    BY <2>1, FieldsKept
<1>3. QED
  BY <1>1, <1>2, Inductively, PTL DEF Spec

(* The variables keep their types; in particular an answer, in the channel *)
(* or written, belongs to a call of the body that the request carries.     *)
THEOREM TypesKept == Spec => []TypeOK
<1>1. Inv /\ Fields => TypeOK
  <2>1. ASSUME Inv, Fields, NEW r \in Requests, NEW a \in chan[r]
        PROVE  a.call \in Indices(r)
    BY <2>1 DEF Inv, Good, UnderWay
  <2>2. QED
    BY <2>1 DEF Inv, Shapes, Fields, TypedOf, States, TypeOK
<1>2. QED
  BY <1>1, FieldsAlways, Inductively, PTL

----------------------------------------------------------------------------
(* What a request that was let in waits for.                               *)
HandleReady(r) ==
    \/ phase[r] \in {"read", "leaving"}
    \/ phase[r] = "single" /\ task[r][1] \in Replied \cup {"done"}
    \/ phase[r] = "waiting" /\ Gathered(r)

GoroutineReady(r, i) ==
    \/ task[r][i] = "routing"
    \/ phase[r] = "waiting" /\ task[r][i] \in Replied /\ Room(r)

MethodRuns(r, i) == task[r][i] \in {"running", "hang"}

MethodsOnlyDelay ==
    \A r \in Requests :
        (Active(r) /\ phase[r] # "reading") =>
            \/ HandleReady(r)
            \/ \E i \in DOMAIN task[r] : GoroutineReady(r, i) \/ MethodRuns(r, i)

(* Once its body is in, a request never waits for nothing: Handle goes on, *)
(* a goroutine of one of its calls can, or a method is running.  Neither   *)
(* the wait group nor the channel nor another request of the session can   *)
(* hold it up while the node is up: AdmittedAnswered rests on this.        *)
THEOREM MethodsDelay == Spec => []MethodsOnlyDelay
<1>1. ASSUME Inv, Fields, SendsHaveRoom PROVE MethodsOnlyDelay
  <2> SUFFICES ASSUME NEW r \in Requests, Active(r), phase[r] # "reading",
                      ~HandleReady(r)
               PROVE  \E i \in DOMAIN task[r] : GoroutineReady(r, i) \/ MethodRuns(r, i)
    BY DEF MethodsOnlyDelay
  <2>1. /\ phase[r] \in {"single", "waiting"} /\ UnderWay(r)
        /\ phase[r] = "single" => Indices(r) = {1}
    BY <1>1, BodyFacts DEF Active, ActivePhases, HandleReady, Inv, Good
  <2>2. DOMAIN task[r] = Indices(r)
    BY <2>1 DEF UnderWay
  <2>3. \A i \in DOMAIN task[r] : task[r][i] \in States
    BY <1>1 DEF Fields, TypedOf
  <2>4. CASE phase[r] = "single"
    <3>1. 1 \in DOMAIN task[r] /\ task[r][1] \notin Replied \cup {"done"}
      BY <2>1, <2>2, <2>4 DEF HandleReady
    <3>2. QED
      BY <2>3, <3>1 DEF States, GoroutineReady, MethodRuns
  <2>5. CASE phase[r] = "waiting"
    <3>1. PICK i \in DOMAIN task[r] : task[r][i] # "done"
      BY <2>2, <2>5 DEF HandleReady, Gathered
    <3>2. task[r][i] \in Replied => Room(r)
      BY <1>1, <2>5 DEF SendsHaveRoom
    <3>3. QED
      BY <2>3, <2>5, <3>1, <3>2 DEF States, GoroutineReady, MethodRuns
  <2>6. QED
    BY <2>1, <2>4, <2>5
<1>2. QED
  BY <1>1, FieldsAlways, SendsNeverBlock, Inductively, PTL
----------------------------------------------------------------------------
(* The part of the types the sessions need.                                *)
Typed == SessionsTypeOK /\ phase \in [Requests -> Phases]

(* A session none of whose entries has outlived the TTL has a fresh entry  *)
(* while a request of it is handled, and the cleanup is not about to       *)
(* delete it.  The request is the only one.                                *)
InTime ==
    \A k \in Keys \ overran :
        /\ pending # k /\ sessions[k] # "expired"
        /\ \A r \in Requests : (Active(r) /\ KeyOf[r] = k) => Busy(k)

IInv == Typed /\ EntryOwned /\ InTime /\ SessionExclusive

USE KeysAssumption, GatewayAssumption DEF ActivePhases, Phases

LEMMA InitEstablishes == Init => IInv
  BY DEF Init, SessionsInit, SessionsTypeOK, IInv, Typed, EntryOwned, InTime,
         SessionExclusive, Active, Busy

(* What a step can mean to the sessions.                                   *)
Idles  == UNCHANGED <<smVars, phase>>
Moves(r) ==
    /\ UNCHANGED smVars
    /\ \E l \in Phases : /\ phase' = [phase EXCEPT ![r] = l]
                         /\ l \in ActivePhases <=> Active(r)
Enters(r) ==
    /\ Add(KeyOf[r]) /\ UNCHANGED <<pending, overran>>
    /\ ~Active(r) /\ phase' = [phase EXCEPT ![r] = "reading"]
Exits(r) ==
    /\ Delete(KeyOf[r]) /\ UNCHANGED <<pending, overran>>
    /\ Active(r) /\ phase' = [phase EXCEPT ![r] = "answered"]
Ages == SessionsStep /\ UNCHANGED phase

LEMMA StepHasKind ==
  ASSUME Typed, [Next]_vars
  PROVE  \/ Idles \/ Ages
         \/ \E r \in Requests : Moves(r) \/ Enters(r) \/ Exits(r)
<1> USE DEF gwVars, Goto, Active, Typed
<1>1. ASSUME NEW r \in Requests, Handle(r) PROVE Moves(r) \/ Exits(r)
  <2>1. CASE Reject(r) \/ WriteSingle(r) \/ WriteBatch(r)
    BY <2>1 DEF Reject, WriteSingle, WriteBatch, Moves
  <2>2. CASE Dispatch(r)
    BY <2>2 DEF Dispatch, Moves
  <2>3. CASE Leave(r)
    BY <2>3 DEF Leave, Exits
  <2> QED
    BY <1>1, <2>1, <2>2, <2>3 DEF Handle
<1>2. ASSUME NEW r \in Requests,
             Refuse(r) \/ Again(r) \/ \E b \in Bodies : Receive(r, b)
      PROVE  Moves(r)
  BY <1>2 DEF Refuse, Again, Receive, Moves
<1>3. ASSUME NEW r \in Requests, Admit(r) PROVE Enters(r)
  BY <1>3 DEF Admit, Enters
<1>4. ASSUME NEW r \in Requests, NEW i, Goroutine(r, i) \/ NoteEnds(r)
      PROVE  Idles
  BY <1>4 DEF Goroutine, Route, Run, Send, NoteEnds, Idles, smVars
<1>5. CASE SessionsStep /\ up /\ UNCHANGED gwVars
  BY <1>5 DEF Ages
<1>6. CASE UNCHANGED vars
  BY <1>6 DEF vars, Idles, smVars
<1> QED
  BY <1>1, <1>2, <1>3, <1>4, <1>5, <1>6 DEF Next, Client

LEMMA IdlesKeeps == ASSUME IInv, Idles PROVE IInv'
  BY DEF IInv, Typed, SessionsTypeOK, EntryOwned, InTime, SessionExclusive,
         Idles, smVars, Active, Busy

LEMMA MovesKeeps == ASSUME IInv, NEW r \in Requests, Moves(r) PROVE IInv'
<1>1. \A s \in Requests : Active(s)' <=> Active(s)
  BY DEF Moves, Active, IInv, Typed
<1>2. UNCHANGED <<sessions, pending, overran>> /\ Typed'
  BY DEF Moves, smVars, IInv, Typed, SessionsTypeOK
<1> QED
  BY <1>1, <1>2 DEF IInv, EntryOwned, InTime, SessionExclusive, Busy

LEMMA EntersKeeps == ASSUME IInv, NEW r \in Requests, Enters(r) PROVE IInv'
<1>1. /\ Active(r)' /\ ~Active(r)
      /\ \A s \in Requests \ {r} : Active(s)' <=> Active(s)
  BY DEF Enters, Active, IInv, Typed
<1>2. /\ Typed' /\ ~Busy(KeyOf[r]) /\ Busy(KeyOf[r])'
      /\ \A k \in Keys \ {KeyOf[r]} : sessions'[k] = sessions[k]
      /\ sessions'[KeyOf[r]] = "fresh"
  BY DEF Enters, Add, Busy, IInv, Typed, SessionsTypeOK
<1>3. EntryOwned'
  BY <1>1, <1>2 DEF IInv, EntryOwned, Busy
<1>4. InTime' /\ overran' = overran
  BY <1>1, <1>2 DEF IInv, InTime, Enters, Busy
<1>5. SessionExclusive'
  <2> SUFFICES ASSUME NEW x \in Requests, NEW y \in Requests, x # y,
                      Active(x)', Active(y)', KeyOf[x] = KeyOf[y],
                      KeyOf[x] \notin overran
               PROVE  FALSE
    BY <1>4 DEF SessionExclusive
  <2>1. CASE x = r \/ y = r
    <3>1. PICK z \in Requests : Active(z) /\ KeyOf[z] = KeyOf[r]
      BY <1>1, <2>1
    <3> QED
      BY <1>2, <2>1, <3>1 DEF IInv, InTime
  <2> QED
    BY <1>1, <2>1 DEF IInv, SessionExclusive
<1> QED
  BY <1>2, <1>3, <1>4, <1>5 DEF IInv

LEMMA ExitsKeeps == ASSUME IInv, NEW r \in Requests, Exits(r) PROVE IInv'
<1>1. /\ Active(r) /\ ~Active(r)'
      /\ \A s \in Requests \ {r} : Active(s)' <=> Active(s)
  BY DEF Exits, Active, IInv, Typed
<1>2. /\ Typed' /\ ~Busy(KeyOf[r])'
      /\ \A k \in Keys \ {KeyOf[r]} : sessions'[k] = sessions[k]
      /\ sessions'[KeyOf[r]] = "free"
  BY DEF Exits, Delete, Busy, IInv, Typed, SessionsTypeOK
<1>3. EntryOwned'
  BY <1>1, <1>2 DEF IInv, EntryOwned, Busy
<1>4. overran' = overran /\ pending' = pending
  BY DEF Exits
<1>5. SessionExclusive'
  BY <1>1, <1>4 DEF IInv, SessionExclusive
<1>6. InTime'
  <2> SUFFICES ASSUME NEW k \in Keys \ overran, NEW s \in Requests,
                      Active(s)', KeyOf[s] = k
               PROVE  Busy(k)'
    BY <1>2, <1>4 DEF InTime, IInv
  <2>1. s # r /\ Active(s)
    BY <1>1
  <2>2. KeyOf[s] # KeyOf[r]
    BY <1>1, <2>1 DEF IInv, SessionExclusive
  <2> QED
    BY <1>2, <2>1, <2>2 DEF IInv, InTime, Busy
<1> QED
  BY <1>2, <1>3, <1>5, <1>6 DEF IInv

LEMMA AgesKeeps == ASSUME IInv, Ages PROVE IInv'
<1>1. /\ phase' = phase /\ \A s \in Requests : Active(s)' <=> Active(s)
      /\ pending' \in Keys \cup {NoKey}
      /\ overran \subseteq overran' /\ overran' \subseteq Keys
  BY DEF Ages, Active, IInv, Typed, SessionsTypeOK, SessionsStep, Expire,
         CleanerReads, CleanerDeletes
<1>2. SessionExclusive'
  BY <1>1 DEF IInv, SessionExclusive
<1>3. ASSUME NEW k \in Keys, Expire(k) PROVE IInv'
  <2>1. /\ Typed'
        /\ \A j \in Keys : Busy(j)' <=> Busy(j)
        /\ \A j \in Keys \ {k} : sessions'[j] = sessions[j]
    BY <1>1, <1>3 DEF Expire, Busy, IInv, Typed, SessionsTypeOK
  <2> QED
    BY <1>1, <1>2, <1>3, <2>1 DEF Expire, IInv, EntryOwned, InTime
<1>4. ASSUME NEW k \in Keys, CleanerReads(k) PROVE IInv'
  BY <1>1, <1>2, <1>4
     DEF CleanerReads, IInv, Typed, SessionsTypeOK, EntryOwned, InTime, Busy
<1>5. CASE CleanerDeletes
  <2>1. /\ Typed' /\ pending \in overran
        /\ \A j \in Keys : Busy(j)' => Busy(j)
        /\ \A j \in Keys \ {pending} : sessions'[j] = sessions[j]
    BY <1>1, <1>5
       DEF CleanerDeletes, Delete, Busy, IInv, InTime, Typed, SessionsTypeOK
  <2>2. EntryOwned'
    BY <1>1, <2>1 DEF IInv, EntryOwned
  <2>3. InTime'
    BY <1>1, <1>5, <2>1 DEF CleanerDeletes, IInv, InTime, Busy
  <2> QED
    BY <1>2, <2>1, <2>2, <2>3 DEF IInv
<1> QED
  BY <1>3, <1>4, <1>5 DEF Ages, SessionsStep

LEMMA IInvInvariant == Spec => []IInv
<1>1. IInv /\ [Next]_vars => IInv'
  <2> SUFFICES ASSUME IInv, [Next]_vars PROVE IInv'
    OBVIOUS
  <2>1. Typed
    BY DEF IInv
  <2> QED
    BY <2>1, StepHasKind, IdlesKeeps, MovesKeeps, EntersKeeps, ExitsKeeps,
       AgesKeeps
<1> QED
  BY <1>1, InitEstablishes, PTL DEF Spec

(* LoadOrStore and the deferred Delete make a session a lock as long as    *)
(* requests stay within the TTL: for any number of requests and sessions,  *)
(* two are inside Handle under one session only if the TTL has run out on  *)
(* one of that session's entries.                                          *)
THEOREM SessionsExclude == Spec => []SessionExclusive
  BY IInvInvariant, PTL DEF IInv

(* Refusals, unreadable bodies, parse errors and panics included, Handle   *)
(* never leaves an entry that nobody will delete: whatever the cleanup     *)
(* does meanwhile, an entry has a request of its session being handled.    *)
THEOREM EntriesOwned == Spec => []EntryOwned
  BY IInvInvariant, PTL DEF IInv
=============================================================================
