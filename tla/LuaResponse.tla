---------------------------- MODULE LuaResponse ----------------------------
(***************************************************************************)
(* sv1/handle.go and the part of sv1/lua_handler.go that turns what a Lua  *)
(* script does with internal.session into the answer to one JSON-RPC call. *)
(* _prepare.lua and the method's script run in one Lua state; send and     *)
(* send_error note an exit code and raise a Lua error to end the script,   *)
(* which the script may catch; the answer is made from that code, the      *)
(* error that ended the script and what package.loaded then holds.         *)
(***************************************************************************)
EXTENDS Naturals, Sequences, FiniteSetsExt

CONSTANTS
    Keys, Vals,     \* of the tables a script gives to set and send
    Scalars,        \* what else it gives to them
    Codes, Messages, Datas, \* numbers, strings and tables in errors
    ErrorArgs,      \* bound: the arguments given to send_error, set_error
    InternalCode, InternalMessage,
    Nil,            \* the nil of Lua
    MaxCalls        \* bound: a script's calls of session.response

ASSUME ResponseAssumption ==
    /\ MaxCalls \in Nat
    /\ Nil \notin Scalars \cup Codes \cup Messages \cup Datas
    /\ ErrorArgs \subseteq
         [1..3 -> Codes \cup Messages \cup Datas \cup Scalars \cup {Nil}]
    /\ InternalCode # Nil /\ InternalMessage # Nil

VARIABLES
    at,         \* "call", "prepare" or "script" (what runs), "answered"
    raised,     \* an error on its way up: "no", "signal" (of send and
                \* send_error) or "fault"; the code cannot tell them apart
    session,    \* package.loaded["internal.session"]: absent, stock, other;
                \* lost if package or package.loaded is no table
    response,   \* its field response: stock, a table of the script, other
    exit,       \* __exit: none (-1), sent (0) or error (1)
    result,     \* __script_data.result
    err,        \* __script_data.error
    written,    \* did the script itself assign response.error
    answer,
    calls,      \* calls of session.response so far
    told,       \* history: the last send or send_error that took effect
    last,       \* history: what set or send stored last
    said,       \* history: the arguments of send_error and set_error
    ended       \* history: how the Lua code ended; "prepare" if by an error
                \* in _prepare.lua

found == <<session, response>>
history == <<told, last, said, ended>>
vars == <<at, raised, found, exit, result, err, written, answer, calls, history>>

Value(kind, v) == [kind |-> kind, v |-> v]
NilValue == Value("nil", Nil)
Tables == UNION {[D -> Vals] : D \in SUBSET Keys}
Values == {Value("table", t) : t \in Tables} \cup {Value("scalar", c) : c \in Scalars}
            \cup {NilValue}

Errors == [code : Codes \cup {Nil}, message : Messages \cup {Nil},
           data : Datas \cup {Nil}]
NoError == [code |-> Nil, message |-> Nil, data |-> Nil]

Init ==
    /\ at = "call" /\ raised = "no"
    /\ session = "absent" /\ response = "stock"
    /\ exit = "none"
    /\ result = Value("table", <<>>) /\ err = NoError
    /\ written = FALSE
    /\ answer = [kind |-> "pending"]
    /\ calls = 0 /\ told = "nothing" /\ last = NilValue
    /\ said = <<>> /\ ended = "not"

(* rpc.NewResponse and NewError: a nil result is left out of the answer.   *)
Success(v) == IF v = NilValue THEN [kind |-> "empty"]
                              ELSE [kind |-> "result", result |-> v]
Failure(c, m, d) == [kind |-> "error", code |-> c, message |-> m, data |-> d]
InternalError == Failure(InternalCode, InternalMessage, Nil)
Refused == [kind |-> "refused"]

Answer(a) == at' = "answered" /\ answer' = a

(* A call without a method, of a malformed or an unknown one, or with a    *)
(* scalar for params is refused.  Else _prepare.lua runs, if it exists,    *)
(* and then the method's script.                                           *)
Handle ==
    /\ at = "call"
    /\ \/ at' \in {"prepare", "script"} /\ UNCHANGED answer
       \/ Answer(Refused)
    /\ UNCHANGED <<raised, found, exit, result, err, written, calls, history>>

----------------------------------------------------------------------------
(* The end of the Lua code and the answer.                                 *)

(* Mutant: what the script left out of its error stays nil.                *)
ErrorAnswer_raw == Failure(err.code, err.message, err.data)

ErrorAnswer ==
    Failure(IF err.code = Nil THEN InternalCode ELSE err.code,
            IF err.message = Nil THEN InternalMessage ELSE err.message, err.data)

Extract ==
    IF session = "lost" THEN InternalError
    ELSE IF session # "stock" \/ response = "table" THEN Success(NilValue)
    ELSE IF response = "other" THEN InternalError
    ELSE IF exit = "error" THEN ErrorAnswer
    ELSE Success(IF exit = "sent" THEN result ELSE NilValue)

(* An error of the script counts unless it has sent something.             *)
Fails == raised # "no" /\ exit = "none"

(* _prepare.lua or the script ends, by itself or by an error.              *)
End ==
    /\ at \in {"prepare", "script"}
    /\ IF at = "prepare"
       THEN IF raised = "no" THEN at' = "script" /\ UNCHANGED answer
                             ELSE Answer(InternalError)
       ELSE Answer(IF Fails THEN InternalError ELSE Extract)
    /\ ended' = IF at = "script" THEN raised
                ELSE IF raised = "no" THEN ended ELSE "prepare"
    /\ UNCHANGED <<raised, found, exit, result, err, written, calls, told, last,
                   said>>

Running == at \in {"prepare", "script"} /\ raised = "no"

(* error(...), throw_error or a fault of the script.                       *)
Raise ==
    /\ Running
    /\ raised' = "fault"
    /\ UNCHANGED <<at, found, exit, result, err, written, answer, calls, history>>

(* pcall                                                                   *)
Catch ==
    /\ raised # "no" /\ at # "answered"
    /\ raised' = "no"
    /\ UNCHANGED <<at, found, exit, result, err, written, answer, calls, history>>

----------------------------------------------------------------------------
(* The script and internal.session.                                        *)

Require ==
    /\ Running /\ session = "absent"
    /\ session' = "stock"
    /\ UNCHANGED <<at, raised, response, exit, result, err, written, answer, calls,
                   history>>

(* The script puts something of its own in the place of the module, of its *)
(* response or of package; it keeps the functions it has taken from them,  *)
(* and require, which looks elsewhere, still works.                        *)
Replace ==
    /\ Running
    /\ \/ session = "stock" /\ session' = "other" /\ UNCHANGED response
       \/ /\ session = "stock"
          /\ response' \in {"table", "other"} /\ UNCHANGED session
       \/ session \in {"absent", "stock"} /\ session' = "lost" /\ UNCHANGED response
    /\ UNCHANGED <<at, raised, exit, result, err, written, answer, calls, history>>

Call ==
    /\ Running /\ session # "absent"
    /\ calls < MaxCalls /\ calls' = calls + 1
    /\ UNCHANGED <<at, found, answer>>

(* session.response.error = {...}, a field the code never reads.           *)
WriteField ==
    /\ Call /\ response = "stock" /\ session = "stock"
    /\ written' = TRUE
    /\ UNCHANGED <<raised, exit, result, err, history>>

(* Storing a key in a result that is no table is an error of Lua.          *)
Fits(v) == (v.kind = "table" /\ DOMAIN v.v # {}) => result.kind = "table"

(* Mutant: what is stored already is kept.                                 *)
Stored_keeps(v) ==
    IF v.kind # "table" THEN v
    ELSE IF DOMAIN v.v = {} THEN result
    ELSE Value("table", [k \in DOMAIN result.v \cup DOMAIN v.v |->
                           IF k \in DOMAIN result.v THEN result.v[k] ELSE v.v[k]])

(* A table is merged into the result, anything else replaces it.           *)
Stored(v) ==
    IF v.kind # "table" THEN v
    ELSE IF DOMAIN v.v = {} THEN result
    ELSE Value("table", [k \in DOMAIN result.v \cup DOMAIN v.v |->
                           IF k \in DOMAIN v.v THEN v.v[k] ELSE result.v[k]])

Store(v) == result' = Stored(v) /\ last' = v

SetResult(v) ==
    /\ Call
    /\ IF ~Fits(v) THEN raised' = "fault" /\ UNCHANGED <<result, last>>
       ELSE /\ UNCHANGED raised
            /\ IF v = NilValue THEN UNCHANGED <<result, last>> ELSE Store(v)
    /\ UNCHANGED <<exit, err, written, told, said, ended>>

(* Mutant: the exit code is noted before the value is stored.              *)
Send_early(v) ==
    /\ Call
    /\ exit' = "sent"
    /\ IF ~Fits(v) THEN raised' = "fault" /\ UNCHANGED <<result, last, told>>
                   ELSE Store(v) /\ raised' = "signal" /\ told' = "send"
    /\ UNCHANGED <<err, written, said, ended>>

Send(v) ==
    /\ Call
    /\ IF ~Fits(v) THEN raised' = "fault" /\ UNCHANGED <<exit, result, last, told>>
       ELSE Store(v) /\ exit' = "sent" /\ raised' = "signal" /\ told' = "send"
    /\ UNCHANGED <<err, written, said, ended>>

(* Mutant: code, message and data are told apart by their places.          *)
Given_places(args) == [code |-> args[1], message |-> args[2], data |-> args[3]]

(* Each argument is told apart by its type; the last of a type counts.     *)
Given(args) ==
    LET pick(T, old) == LET I == {i \in DOMAIN args : args[i] \in T}
                        IN  IF I = {} THEN old ELSE args[Max(I)]
    IN  [code |-> pick(Codes, err.code), message |-> pick(Messages, err.message),
         data |-> pick(Datas, err.data)]

SetError(args) ==
    /\ Call
    /\ err' = Given(args) /\ said' = said \o args
    /\ UNCHANGED <<raised, exit, result, written, told, last, ended>>

SendError(args) ==
    /\ Call
    /\ err' = Given(args) /\ said' = said \o args
    /\ exit' = "error" /\ raised' = "signal" /\ told' = "send_error"
    /\ UNCHANGED <<result, written, last, ended>>

Next ==
    \/ Handle \/ End \/ Raise \/ Catch \/ Require \/ Replace \/ WriteField
    \/ \E v \in Values : SetResult(v) \/ Send(v)
    \/ \E args \in ErrorArgs : SetError(args) \/ SendError(args)

Spec == Init /\ [][Next]_vars

----------------------------------------------------------------------------
(* Types.                                                                  *)
TypeOK ==
    /\ at \in {"call", "prepare", "script", "answered"}
    /\ raised \in {"no", "signal", "fault"}
    /\ session \in {"absent", "stock", "other", "lost"}
    /\ response \in {"stock", "table", "other"}
    /\ exit \in {"none", "sent", "error"}
    /\ result \in Values /\ last \in Values
    /\ err \in Errors
    /\ written \in BOOLEAN
    /\ ended \in {"not", "no", "signal", "fault", "prepare"}
    /\ answer.kind \in {"pending", "refused", "empty", "result", "error"}
    /\ calls \in 0..MaxCalls
    /\ told \in {"nothing", "send", "send_error"}

Untouched == session = "stock" /\ response = "stock"

(* What the script says last decides which kind of answer the client gets: *)
(* the last send or send_error that took effect, whether the script caught *)
(* its signal or not and whatever fault follows; if there is none, a fault *)
(* is an internal error.  A send that failed does not count, and an error  *)
(* in _prepare.lua overrides whatever was sent.                            *)
AnswerAsTold ==
    (ended # "not" /\ Untouched) =>
        IF ended = "prepare" THEN answer = InternalError
        ELSE CASE told = "send" -> answer.kind \in {"result", "empty"}
               [] told = "send_error" -> answer.kind = "error"
               [] told = "nothing" -> IF ended = "fault" THEN answer = InternalError
                                      ELSE answer.kind = "empty"

(* What set or send stored last is in the result the client gets, whatever *)
(* was stored before.                                                      *)
LastStoredArrives ==
    answer.kind = "result" =>
        CASE last.kind = "scalar" -> answer.result = last
          [] last.kind = "table" -> DOMAIN last.v # {} =>
               /\ answer.result.kind = "table"
               /\ \A k \in DOMAIN last.v : answer.result.v[k] = last.v[k]
          [] last.kind = "nil" -> FALSE

(* The last argument of a kind that the script has given, in whichever     *)
(* call and place.                                                         *)
LastSaid(T, default) ==
    LET I == {i \in DOMAIN said : said[i] \in T}
    IN  IF I = {} THEN default ELSE said[Max(I)]

(* A script that ends by send_error gets its own error through: the last   *)
(* number, string and table it gave to set_error or send_error, even in    *)
(* calls before one whose signal it caught or in _prepare.lua, or the      *)
(* defaults of what it never gave, as the scripts of com/Unit do.          *)
ErrorsComplete ==
    (ended \in {"no", "signal", "fault"} /\ Untouched /\ told = "send_error") =>
        answer = Failure(LastSaid(Codes, InternalCode),
                         LastSaid(Messages, InternalMessage), LastSaid(Datas, Nil))

(* com/_globals.lua: the script writes its errors to response.error.       *)
WrittenErrorsAnswered ==
    (ended = "no" /\ Untouched /\ written /\ told = "nothing") =>
        answer.kind = "error"
=============================================================================
