------------------------- MODULE LuaResponseProofs -------------------------
(***************************************************************************)
(* Which answer the client of a script gets, for any tables, errors and    *)
(* number of calls of session.response.                                    *)
(***************************************************************************)
EXTENDS LuaResponse, SequenceTheorems, TLAPS

(* The exit code is that of the last send or send_error that took effect,  *)
(* and a signal on its way up comes from one.                              *)
Told == /\ exit = CASE told = "nothing" -> "none" [] told = "send" -> "sent"
                    [] told = "send_error" -> "error"
        /\ told \in {"nothing", "send", "send_error"}
        /\ raised \in {"no", "signal", "fault"}
        /\ raised = "signal" => told # "nothing"

(* Nothing is answered, and nothing has ended, before the end.             *)
Before == /\ at # "answered" => ended = "not" /\ answer.kind = "pending"
          /\ at \in {"call", "prepare", "script", "answered"}

Inv == Told /\ Before /\ AnswerAsTold

(* The kinds of answers.                                                   *)
LEMMA Kinds ==
    /\ InternalError.kind = "error"
    /\ ErrorAnswer.kind = "error"
    /\ \A v : Success(v).kind \in {"result", "empty"}
    /\ Success(NilValue).kind = "empty"
    /\ Refused.kind = "refused"
BY DEF InternalError, ErrorAnswer, Failure, Success, Refused

(* A call of session.response, whatever it stores.                         *)
LEMMA CallsKeep ==
    ASSUME Inv,
           \/ WriteField
           \/ \E v \in Values : SetResult(v) \/ Send(v)
           \/ \E args \in ErrorArgs : SetError(args) \/ SendError(args)
    PROVE  Inv'
<1>1. Told' /\ at' = at /\ answer' = answer /\ ended' = ended /\ at # "answered"
  BY DEF Inv, Told, WriteField, SetResult, Send, SetError, SendError, Call, Running,
         history, found
<1>2. QED
  BY <1>1 DEF Inv, Before, AnswerAsTold

(* The end decides.                                                        *)
LEMMA EndKeeps == ASSUME Inv, End PROVE Inv'
<1>1. /\ Told' /\ Before' /\ UNCHANGED <<session, response, told>>
  BY DEF Inv, Told, Before, End, Answer, found
<1>2. CASE at = "prepare"
  BY <1>1, <1>2, Kinds DEF Inv, Before, End, Answer, AnswerAsTold
<1>3. CASE at = "script"
  <2>1. /\ ended' = raised
        /\ answer' = IF Fails THEN InternalError ELSE Extract
    BY <1>3 DEF End, Answer
  <2>2. ASSUME Untouched'
        PROVE  CASE told = "send" -> answer'.kind \in {"result", "empty"}
                 [] told = "send_error" -> answer'.kind = "error"
                 [] told = "nothing" -> IF raised = "fault"
                                        THEN answer' = InternalError
                                        ELSE answer'.kind = "empty"
    <3>1. Untouched
      BY <1>1, <2>2 DEF Untouched
    <3>2. CASE told = "send"
      BY <2>1, <3>1, <3>2, Kinds DEF Inv, Told, Fails, Extract, Untouched
    <3>3. CASE told = "send_error"
      BY <2>1, <3>1, <3>3, Kinds DEF Inv, Told, Fails, Extract, Untouched
    <3>4. CASE told = "nothing"
      BY <2>1, <3>1, <3>4, Kinds DEF Inv, Told, Fails, Extract, Untouched
    <3>5. QED
      BY <3>2, <3>3, <3>4 DEF Inv, Told
  <2>3. AnswerAsTold'
    BY <1>1, <2>1, <2>2 DEF AnswerAsTold, Inv, Told
  <2>4. QED
    BY <1>1, <2>3 DEF Inv
<1>4. QED
  BY <1>2, <1>3 DEF End

LEMMA Inductive == ASSUME Inv, [Next]_vars PROVE Inv'
<1>1. CASE Handle
  BY <1>1, Kinds DEF Handle, Answer, Inv, Told, Before, AnswerAsTold,
                     found, history
<1>2. CASE Raise \/ Catch \/ Require \/ Replace
  <2>1. Told' /\ at' = at /\ answer' = answer /\ ended' = ended /\ at # "answered"
    BY <1>2 DEF Inv, Told, Raise, Catch, Require, Replace, Running, found, history
  <2>2. QED
    BY <2>1 DEF Inv, Before, AnswerAsTold
<1>3. CASE UNCHANGED vars
  BY <1>3 DEF vars, found, history, Inv, Told, Before, AnswerAsTold,
              Untouched, InternalError
<1>4. QED
  BY <1>1, <1>2, <1>3, CallsKeep, EndKeeps DEF Next

LEMMA Inductively == Spec => []Inv
<1>1. Init => Inv
  BY DEF Init, Inv, Told, Before, AnswerAsTold
<1>2. QED
  BY <1>1, Inductive, PTL DEF Spec

(* The last send or send_error that took effect decides the kind of the    *)
(* answer, whatever the script catches and whatever faults follow.         *)
THEOREM AnswersAsTold == Spec => []AnswerAsTold
<1>1. Inv => AnswerAsTold
  BY DEF Inv
<1>2. QED
  BY <1>1, Inductively, PTL

----------------------------------------------------------------------------
(* The error kept is what was said last, and it goes into the answer.      *)
Said == Codes \cup Messages \cup Datas \cup Scalars \cup {Nil}

Of(s, T) == {i \in DOMAIN s : s[i] \in T}

(* v is the last of kind T that was said, and nil if there is none.        *)
IsLast(v, T) ==
    IF Of(said, T) = {} THEN v = Nil
    ELSE Max(Of(said, T)) \in Of(said, T) /\ v = said[Max(Of(said, T))]

Agrees == /\ said \in Seq(Said)
          /\ IsLast(err.code, Codes) /\ IsLast(err.message, Messages)
          /\ IsLast(err.data, Datas)

LEMMA MaxIs ==
    ASSUME NEW S, S \subseteq Nat, NEW x \in S, \A y \in S : x >= y
    PROVE  Max(S) = x
<1>1. Max(S) \in S /\ \A y \in S : Max(S) >= y
  BY DEF Max
<1>2. Max(S) \in Nat /\ x \in Nat /\ Max(S) >= x /\ x >= Max(S)
  BY <1>1
<1>. HIDE DEF Max
<1>3. QED
  BY <1>2

LEMMA IndexedSeq ==
  ASSUME NEW S, NEW n \in Nat, NEW f \in [1..n -> S]
  PROVE  f \in Seq(S) /\ Len(f) = n
<1>1. f \in Seq(S)
  OBVIOUS
<1>2. Len(f) \in Nat /\ DOMAIN f = 1..Len(f) /\ DOMAIN f = 1..n
  BY <1>1
<1>3. QED
  BY <1>1, <1>2

(* The last of a kind, after three more arguments.                         *)
LEMMA LastOfMore ==
    ASSUME NEW s \in Seq(Said), NEW a \in [1..3 -> Said], NEW T
    PROVE  /\ s \o a \in Seq(Said)
           /\ Of(a, T) = {} => /\ Of(s \o a, T) = Of(s, T)
                               /\ \A i \in Of(s, T) : (s \o a)[i] = s[i]
           /\ Of(a, T) # {} => /\ Max(Of(s \o a, T)) \in Of(s \o a, T)
                               /\ (s \o a)[Max(Of(s \o a, T))] = a[Max(Of(a, T))]
<1>. DEFINE n == Len(s)
<1>1. n \in Nat /\ a \in Seq(Said) /\ Len(a) = 3 /\ DOMAIN a = 1..3
  <2>1. 3 \in Nat /\ Len(s) \in Nat
    OBVIOUS
  <2>2. a \in Seq(Said) /\ Len(a) = 3
    BY <2>1, IndexedSeq
  <2>3. DOMAIN a = 1..3
    OBVIOUS
  <2>4. QED
    BY <2>1, <2>2, <2>3
<1>2. /\ s \o a \in Seq(Said) /\ DOMAIN (s \o a) = 1..(n + 3) /\ DOMAIN s = 1..n
      /\ \A i \in 1..n : (s \o a)[i] = s[i]
      /\ \A i \in 1..3 : (s \o a)[n + i] = a[i]
  <2>1. /\ s \o a \in Seq(Said) /\ Len(s \o a) = n + 3
        /\ \A i \in 1..(n + 3) :
             (s \o a)[i] = IF i <= n THEN s[i] ELSE a[i - n]
    <3>1. /\ s \o a \in Seq(Said) /\ Len(s \o a) = Len(s) + Len(a)
          /\ \A i \in 1 .. Len(s) + Len(a) :
               (s \o a)[i] = IF i <= Len(s) THEN s[i] ELSE a[i - Len(s)]
      BY <1>1, ConcatProperties, Zenon
    <3>2. QED
      BY <1>1, <3>1, Zenon
  <2>2. DOMAIN s = 1..n
    OBVIOUS
  <2>. HIDE DEF n
  <2>3. DOMAIN (s \o a) = 1..(n + 3)
    BY <2>1
  <2>4. ASSUME NEW i \in 1..n PROVE (s \o a)[i] = s[i]
    <3>1. i \in 1..(n + 3) /\ i <= n
      BY <1>1
    <3>2. QED
      BY <2>1, <3>1
  <2>5. ASSUME NEW i \in 1..3 PROVE (s \o a)[n + i] = a[i]
    <3>1. n + i \in 1..(n + 3) /\ ~(n + i <= n) /\ (n + i) - n = i
      BY <1>1
    <3>2. QED
      BY <2>1, <3>1
  <2>6. QED
    BY <2>1, <2>2, <2>3, <2>4, <2>5
<1>3. \A i \in (1..(n + 3)) \ (1..n) : \E j \in 1..3 : i = n + j
  <2>1. ASSUME NEW i \in (1..(n + 3)) \ (1..n) PROVE i - n \in 1..3 /\ i = n + (i - n)
    BY <1>1
  <2>2. QED
    BY <2>1
<1>. HIDE DEF n
<1>4. ASSUME Of(a, T) = {}
      PROVE  /\ Of(s \o a, T) = Of(s, T)
             /\ \A i \in Of(s, T) : (s \o a)[i] = s[i]
  <2>1. \A j \in 1..3 : a[j] \notin T
    BY <1>4 DEF Of
  <2>2. ASSUME NEW i \in (1..(n + 3)) \ (1..n) PROVE (s \o a)[i] \notin T
    <3>1. PICK j \in 1..3 : i = n + j
      BY <1>3
    <3>2. QED
      BY <1>2, <2>1, <3>1
  <2>3. 1..n \subseteq 1..(n + 3)
    BY <1>1
  <2>4. QED
    BY <1>2, <2>2, <2>3 DEF Of
<1>5. ASSUME Of(a, T) # {}
      PROVE  /\ Max(Of(s \o a, T)) \in Of(s \o a, T)
             /\ (s \o a)[Max(Of(s \o a, T))] = a[Max(Of(a, T))]
  <2>1. DOMAIN a = 1..3 /\ Of(a, T) \subseteq 1..3
    BY DEF Of
  <2>2. PICK m \in Of(a, T) : \A y \in Of(a, T) : m >= y
    BY <1>5, <2>1
  <2>3. Max(Of(a, T)) = m
    BY <2>1, <2>2, MaxIs
  <2>4. n + m \in Of(s \o a, T)
    BY <1>1, <1>2, <2>1, <2>2 DEF Of
  <2>5. \A y \in Of(s \o a, T) : n + m >= y
    <3>. SUFFICES ASSUME NEW y \in Of(s \o a, T) PROVE n + m >= y
      OBVIOUS
    <3>1. y \in 1..(n + 3) /\ (s \o a)[y] \in T
      BY <1>2 DEF Of
    <3>2. CASE y \in 1..n
      BY <1>1, <2>1, <3>2
    <3>3. CASE y \notin 1..n
      <4>1. PICK j \in 1..3 : y = n + j
        BY <1>3, <3>1, <3>3
      <4>2. j \in Of(a, T)
        BY <1>2, <2>1, <3>1, <4>1 DEF Of
      <4>3. QED
        BY <1>1, <2>1, <2>2, <4>1, <4>2
    <3>4. QED
      BY <3>2, <3>3
  <2>6. Of(s \o a, T) \subseteq Nat
    BY <1>1, <1>2 DEF Of
  <2>7. Max(Of(s \o a, T)) = n + m
    BY <2>4, <2>5, <2>6, MaxIs
  <2>8. QED
    BY <1>2, <2>1, <2>3, <2>4, <2>7
<1>6. QED
  BY <1>2, <1>4, <1>5

LEMMA AgreesKept == ASSUME Agrees, [Next]_vars PROVE Agrees'
<1>1. CASE UNCHANGED <<err, said>>
  BY <1>1 DEF Agrees, IsLast
<1>2. ASSUME NEW args \in ErrorArgs, SetError(args) \/ SendError(args)
      PROVE  Agrees'
  <2>1. /\ said' = said \o args /\ err' = Given(args)
        /\ args \in [1..3 -> Said] /\ said \in Seq(Said)
    BY <1>2, ResponseAssumption DEF SetError, SendError, Said, Agrees
  <2>2. ASSUME NEW T, NEW v, IsLast(v, T)
        PROVE  LET w == IF Of(args, T) = {} THEN v ELSE args[Max(Of(args, T))]
               IN  IF Of(said \o args, T) = {} THEN w = Nil
                   ELSE /\ Max(Of(said \o args, T)) \in Of(said \o args, T)
                        /\ w = (said \o args)[Max(Of(said \o args, T))]
    <3>0. /\ said \o args \in Seq(Said)
          /\ Of(args, T) = {} =>
                /\ Of(said \o args, T) = Of(said, T)
                /\ \A i \in Of(said, T) : (said \o args)[i] = said[i]
          /\ Of(args, T) # {} =>
                /\ Max(Of(said \o args, T)) \in Of(said \o args, T)
                /\ (said \o args)[Max(Of(said \o args, T))] = args[Max(Of(args, T))]
      <4>1. said \in Seq(Said) /\ args \in [1..3 -> Said]
        BY <2>1
      <4>2. QED
        BY <4>1, LastOfMore, Zenon
    <3>1. CASE Of(args, T) = {}
      <4>1. IF Of(said, T) = {} THEN v = Nil
            ELSE Max(Of(said, T)) \in Of(said, T) /\ v = said[Max(Of(said, T))]
        BY <2>2, Zenon DEF IsLast
      <4>2. QED
        BY <3>0, <3>1, <4>1
    <3>2. CASE Of(args, T) # {}
      <4>1. Of(said \o args, T) # {}
        BY <3>0, <3>2
      <4>2. QED
        BY <3>0, <3>2, <4>1, Zenon
    <3>3. QED
      BY <3>1, <3>2
  <2>3. said \o args \in Seq(Said)
    BY <2>1, LastOfMore
  <2>4. /\ err'.code = IF Of(args, Codes) = {} THEN err.code
                       ELSE args[Max(Of(args, Codes))]
        /\ err'.message = IF Of(args, Messages) = {} THEN err.message
                          ELSE args[Max(Of(args, Messages))]
        /\ err'.data = IF Of(args, Datas) = {} THEN err.data
                       ELSE args[Max(Of(args, Datas))]
    BY <2>1, Zenon DEF Given, Of
  <2>5. IsLast(err.code, Codes)' /\ IsLast(err.message, Messages)'
          /\ IsLast(err.data, Datas)'
    BY <2>1, <2>2, <2>4 DEF Agrees, IsLast
  <2>6. QED
    BY <2>1, <2>3, <2>5 DEF Agrees
<1>3. ASSUME NEW v \in Values, SetResult(v) \/ Send(v) PROVE UNCHANGED <<err, said>>
  BY <1>3 DEF SetResult, Send
<1>4. CASE Handle \/ End \/ Raise \/ Catch \/ Require \/ Replace \/ WriteField
             \/ UNCHANGED vars
  BY <1>1, <1>4 DEF Handle, End, Raise, Catch, Require, Replace, WriteField, history,
     vars
<1>5. QED
  BY <1>1, <1>2, <1>3, <1>4 DEF Next

(* The error kept, with its defaults, is the error that was said.          *)
LEMMA ErrorSaid ==
    ASSUME Agrees
    PROVE  ErrorAnswer = Failure(LastSaid(Codes, InternalCode),
                           LastSaid(Messages, InternalMessage), LastSaid(Datas, Nil))
<1>1. ASSUME NEW T, NEW v, NEW d, IsLast(v, T), Nil \notin T
      PROVE  LastSaid(T, d) = IF v = Nil THEN d ELSE v
  <2>1. LastSaid(T, d) = IF Of(said, T) = {} THEN d ELSE said[Max(Of(said, T))]
    BY Zenon DEF LastSaid, Of
  <2>2. Of(said, T) # {} => v \in T
    BY <1>1 DEF IsLast, Of
  <2>3. QED
    BY <1>1, <2>1, <2>2 DEF IsLast
<1>2. Nil \notin Codes /\ Nil \notin Messages /\ Nil \notin Datas
  BY ResponseAssumption
<1>3. /\ LastSaid(Codes, InternalCode) = IF err.code = Nil THEN InternalCode ELSE err.code
      /\ LastSaid(Messages, InternalMessage) =
           IF err.message = Nil THEN InternalMessage ELSE err.message
      /\ LastSaid(Datas, Nil) = IF err.data = Nil THEN Nil ELSE err.data
  BY <1>1, <1>2 DEF Agrees
<1>4. LastSaid(Datas, Nil) = err.data
  BY <1>3
<1>5. QED
  BY <1>3, <1>4 DEF ErrorAnswer

LEMMA ErrorsKept == ASSUME Inv, Agrees, ErrorsComplete, [Next]_vars PROVE ErrorsComplete'
<1>1. CASE at # "answered" /\ at' # "answered"
  BY <1>1, Inductive DEF Inv, Before, ErrorsComplete
<1>2. CASE End /\ at' = "answered"
  <2>1. UNCHANGED <<said, told, session, response>>
    BY <1>2 DEF End, found
  <2>2. CASE at = "prepare"
    BY <1>2, <2>2 DEF End, Answer, ErrorsComplete, Inv, Before
  <2>3. CASE at = "script"
    <3>. SUFFICES ASSUME Untouched', told' = "send_error"
                  PROVE  answer' = ErrorAnswer
      <4>1. LastSaid(Codes, InternalCode)' = LastSaid(Codes, InternalCode)
            /\ LastSaid(Messages, InternalMessage)' = LastSaid(Messages, InternalMessage)
            /\ LastSaid(Datas, Nil)' = LastSaid(Datas, Nil)
        BY <2>1 DEF LastSaid
      <4>2. QED
        BY <4>1, ErrorSaid DEF ErrorsComplete, Failure
    <3>1. exit = "error" /\ Untouched
      BY <2>1 DEF Inv, Told, Untouched
    <3>2. QED
      BY <1>2, <2>3, <3>1 DEF End, Answer, Fails, Extract, Untouched
  <2>4. QED
    BY <1>2, <2>2, <2>3 DEF End
<1>3. CASE Handle
  BY <1>3 DEF Handle, Inv, Before, ErrorsComplete, history
<1>4. CASE UNCHANGED vars
  BY <1>4 DEF vars, found, history, ErrorsComplete, Untouched, LastSaid, Failure
<1>5. CASE at = "answered"
  BY <1>4, <1>5 DEF Next, Handle, End, Raise, Catch, Require, Replace, WriteField,
     Call, Running, SetResult, Send, SetError, SendError
<1>6. CASE at # "answered" /\ at' = "answered" /\ ~Handle /\ ~End
  BY <1>6 DEF Next, Raise, Catch, Require, Replace, WriteField, SetResult, Send,
     SetError, SendError, Call, Running, vars
<1>7. QED
  BY <1>1, <1>2, <1>3, <1>5, <1>6

(* A script that ends by send_error gets its own error through: the code,  *)
(* the message and the data it gave last, or their defaults, whatever it   *)
(* gave, however often, and whatever it caught in between.                 *)
THEOREM ErrorsAreComplete == Spec => []ErrorsComplete
<1>1. Init => Agrees /\ ErrorsComplete
  BY DEF Init, Agrees, IsLast, Of, NoError, ErrorsComplete
<1>2. QED
  BY <1>1, AgreesKept, ErrorsKept, Inductively, PTL DEF Spec

----------------------------------------------------------------------------
(* Values that are tables.                                                 *)
LEMMA TableShape ==
    /\ \A v \in Values :
         /\ v.kind \in {"table", "scalar", "nil"}
         /\ v.kind = "nil" => v = NilValue
         /\ v.kind = "table" => DOMAIN v.v \subseteq Keys /\ v.v \in [DOMAIN v.v -> Vals]
    /\ \A D \in SUBSET Keys : \A f \in [D -> Vals] : Value("table", f) \in Values
<1>1. \A f : f \in Tables <=> (DOMAIN f \subseteq Keys /\ f \in [DOMAIN f -> Vals])
  BY DEF Tables
<1>2. ASSUME NEW v \in Values
      PROVE  /\ v.kind \in {"table", "scalar", "nil"}
             /\ v.kind = "nil" => v = NilValue
             /\ v.kind = "table" => v.v \in Tables
  BY DEF Values, Value, NilValue
<1>3. ASSUME NEW D \in SUBSET Keys, NEW f \in [D -> Vals]
      PROVE  Value("table", f) \in Values
  BY <1>1 DEF Values
<1>4. QED
  BY <1>1, <1>2, <1>3

(* Storing a value that fits leaves a value, with all the stored one has.  *)
LEMMA StoredHas ==
    ASSUME result \in Values, NEW v \in Values, Fits(v)
    PROVE  /\ Stored(v) \in Values
           /\ v.kind # "table" => Stored(v) = v
           /\ (v.kind = "table" /\ DOMAIN v.v # {}) =>
                /\ Stored(v).kind = "table"
                /\ \A k \in DOMAIN v.v : Stored(v).v[k] = v.v[k]
<1>1. CASE v.kind # "table" \/ DOMAIN v.v = {}
  BY <1>1 DEF Stored
<1>2. CASE v.kind = "table" /\ DOMAIN v.v # {}
  <2>. DEFINE D == DOMAIN result.v \cup DOMAIN v.v
              f == [k \in D |-> IF k \in DOMAIN v.v THEN v.v[k] ELSE result.v[k]]
  <2>1. result.kind = "table"
    BY <1>2 DEF Fits
  <2>2. D \subseteq Keys /\ f \in [D -> Vals]
    BY <1>2, <2>1, TableShape
  <2>3. Stored(v) = Value("table", f)
    BY <1>2 DEF Stored
  <2>4. Value("table", f).kind = "table" /\ Value("table", f).v = f
    BY DEF Value
  <2>5. QED
    BY <1>2, <2>2, <2>3, <2>4, TableShape
<1>3. QED
  BY <1>1, <1>2

(* Which arguments of send_error count.                                    *)
LEMMA GivenErrors == ASSUME err \in Errors, NEW args \in ErrorArgs
                     PROVE  Given(args) \in Errors
<1>. DEFINE I(T) == {i \in DOMAIN args : args[i] \in T}
<1>1. ASSUME NEW T, I(T) # {} PROVE args[Max(I(T))] \in T
  <2>1. DOMAIN args = 1..3
    BY ResponseAssumption
  <2>2. \E x \in I(T) : \A y \in I(T) : x >= y
    BY <1>1, <2>1
  <2>3. Max(I(T)) \in I(T)
    BY <2>2 DEF Max
  <2>4. QED
    BY <2>3
<1>2. QED
  BY <1>1 DEF Given, Errors

(* What was stored last is in the result.                                  *)
Arrived ==
    /\ last.kind = "scalar" => result = last
    /\ (last.kind = "table" /\ DOMAIN last.v # {}) =>
         /\ result.kind = "table"
         /\ \A k \in DOMAIN last.v : result.v[k] = last.v[k]
    /\ (last.kind = "nil" /\ exit = "sent") => result = NilValue

Typed == /\ result \in Values /\ last \in Values /\ err \in Errors
         /\ calls \in 0..MaxCalls

Kept == Typed /\ Arrived /\ LastStoredArrives
         /\ (at # "answered" => answer.kind = "pending")

(* Only the end makes an answer.                                           *)
LEMMA KeptBefore ==
    ASSUME Kept, at' # "answered", at # "answered", answer' = answer, Typed', Arrived'
    PROVE  Kept'
BY DEF Kept, LastStoredArrives

LEMMA KeptInductive == ASSUME Kept, [Next]_vars PROVE Kept'
<1>. USE DEF Kept, Typed
<1>1. CASE Handle
  <2>1. UNCHANGED <<result, last, err, calls, exit>>
    BY <1>1 DEF Handle, history
  <2>2. answer'.kind # "result"
    BY <1>1, Kinds DEF Handle, Answer
  <2>3. QED
    BY <1>1, <2>1, <2>2 DEF Arrived, LastStoredArrives, Handle, Answer
<1>2. CASE End
  <2>1. UNCHANGED <<result, last, err, calls, exit>>
    BY <1>2 DEF End
  <2>2. answer'.kind = "result" =>
          answer'.result = result /\ result # NilValue /\ exit = "sent"
    <3>1. /\ \A v : Success(v).kind = "result" =>
                      Success(v).result = v /\ v # NilValue
          /\ InternalError.kind # "result" /\ ErrorAnswer.kind # "result"
      BY Kinds DEF Success
    <3>2. QED
      BY <1>2, <3>1 DEF End, Answer, Extract
  <2>3. LastStoredArrives'
    BY <2>1, <2>2, TableShape DEF Arrived, LastStoredArrives
  <2>4. QED
    BY <1>2, <2>1, <2>3 DEF Arrived, End, Answer
<1>3. CASE Raise \/ Catch \/ Require \/ Replace
  BY <1>3, KeptBefore
     DEF Raise, Catch, Require, Replace, Running, Arrived, history, found
<1>4. CASE WriteField
  BY <1>4, KeptBefore, ResponseAssumption
     DEF WriteField, Call, Running, Arrived, history, found
<1>5. ASSUME NEW v \in Values, SetResult(v) \/ Send(v)
      PROVE  Kept'
  <2>1. /\ calls' \in 0..MaxCalls /\ at # "answered" /\ at' = at
        /\ answer' = answer /\ err' = err
    BY <1>5, ResponseAssumption DEF SetResult, Send, Call, Running
  <2>2. CASE UNCHANGED <<result, last, exit>>
    BY <2>1, <2>2, KeptBefore DEF Arrived
  <2>3. CASE Fits(v) /\ Store(v)
    BY <2>1, <2>3, KeptBefore, StoredHas, TableShape DEF Arrived, Store
  <2>4. QED
    BY <1>5, <2>2, <2>3 DEF SetResult, Send
<1>6. ASSUME NEW args \in ErrorArgs, SetError(args) \/ SendError(args)
      PROVE  Kept'
  BY <1>6, KeptBefore, GivenErrors, ResponseAssumption
     DEF SetError, SendError, Call, Running, Arrived, history
<1>7. CASE UNCHANGED vars
  BY <1>7 DEF vars, history, found, Arrived, LastStoredArrives
<1>8. QED
  BY <1>1, <1>2, <1>3, <1>4, <1>5, <1>6, <1>7 DEF Next

LEMMA KeptInductively == Spec => []Kept
<1>1. Init => Kept
  <2>1. Value("table", <<>>) \in Values
    <3>1. <<>> \in [{} -> Vals] /\ {} \in SUBSET Keys
      OBVIOUS
    <3>2. QED
      BY <3>1, TableShape
  <2>2. NilValue \in Values /\ NilValue.kind = "nil"
    BY DEF Values, NilValue, Value
  <2>3. QED
    BY <2>1, <2>2, ResponseAssumption
       DEF Init, Kept, Typed, Arrived, LastStoredArrives, NoError, Errors
<1>2. QED
  BY <1>1, KeptInductive, PTL DEF Spec

(* What set or send stored last is in the result the client gets.          *)
THEOREM LastOneArrives == Spec => []LastStoredArrives
<1>1. Kept => LastStoredArrives
  BY DEF Kept
<1>2. QED
  BY <1>1, KeptInductively, PTL

(* The types of the other variables.                                       *)
Fields ==
    /\ session \in {"absent", "stock", "other", "lost"}
    /\ response \in {"stock", "table", "other"}
    /\ written \in BOOLEAN
    /\ ended \in {"not", "no", "signal", "fault", "prepare"}
    /\ answer.kind \in {"pending", "refused", "empty", "result", "error"}

LEMMA FieldsKept == Inv /\ Fields /\ [Next]_vars => Fields'
<1> SUFFICES ASSUME Inv, Fields, [Next]_vars PROVE Fields'
  OBVIOUS
<1>. USE DEF Fields
<1>1. CASE Handle
  BY <1>1, Kinds DEF Handle, Answer, found, history
<1>2. CASE End
  <2>1. answer'.kind \in {"pending", "refused", "empty", "result", "error"}
    BY <1>2, Kinds DEF End, Answer, Extract
  <2>2. QED
    BY <1>2, <2>1 DEF End, Inv, Told, found
<1>3. CASE Raise \/ Catch \/ Require \/ Replace
  BY <1>3 DEF Raise, Catch, Require, Replace, found, history
<1>4. CASE WriteField
  BY <1>4 DEF WriteField, Call, found, history
<1>5. ASSUME NEW v \in Values, SetResult(v) \/ Send(v) PROVE Fields'
  BY <1>5 DEF SetResult, Send, Call, found
<1>6. ASSUME NEW args \in ErrorArgs, SetError(args) \/ SendError(args) PROVE Fields'
  BY <1>6 DEF SetError, SendError, Call, found, history
<1>7. CASE UNCHANGED vars
  BY <1>7 DEF vars, found, history
<1>8. QED
  BY <1>1, <1>2, <1>3, <1>4, <1>5, <1>6, <1>7 DEF Next


(* The variables keep their types: what a script stores is a value, what   *)
(* it gives as an error one of an error's fields.                          *)
THEOREM TypesKept == Spec => []TypeOK
<1>1. Init => Fields
  <2>1. Init => written \in BOOLEAN
    BY DEF Init
  <2>2. Init => answer.kind = "pending"
    BY DEF Init
  <2>3. QED
    BY <2>1, <2>2 DEF Init, Fields
<1>2. Inv /\ Kept /\ Fields => TypeOK
  BY DEF Inv, Told, Before, Kept, Typed, Fields, TypeOK
<1>3. QED
  BY <1>1, <1>2, FieldsKept, Inductively, KeptInductively, PTL DEF Spec
=============================================================================
