------------------------------ MODULE Gateway ------------------------------
(***************************************************************************)
(* gateway.GatewayServer.Handle and Route: one request per session at a    *)
(* time, a body that is one JSON-RPC call or a batch of them, one goroutine *)
(* per call of a batch, notifications run apart, and the answers collected *)
(* from a buffered channel.                                                *)
(*                                                                         *)
(* A call is reduced to what Route and sv1/sv2 Handle branch on; what a    *)
(* Lua method does is one of four outcomes.                                *)
(***************************************************************************)
EXTENDS SessionManager, Sequences, FiniteSets

CONSTANTS
    Requests,   \* concurrent HTTP requests; a client may send each again
    KeyOf,      \* [Requests -> Keys]: their X-Session-UUID
    Bodies,     \* the request bodies clients send
    Outcomes    \* what a Lua method may come to, out of AllOutcomes

(* A result or error that can be encoded; a result encoding/json refuses   *)
(* (NaN, infinity); a Go panic outside the protected call; no end.         *)
AllOutcomes == {"reply", "unencodable", "panic", "hang"}

(* proto: is "jsonrpc" 2.0; version: the "context-version"; id: is there   *)
(* an id that is not null (json.RawMessage of null decodes to nil).        *)
Calls == [proto : BOOLEAN, version : {"v1", "v2", "unknown"}, id : BOOLEAN]

ASSUME GatewayAssumption ==
    /\ KeyOf \in [Requests -> Keys]
    /\ Outcomes \subseteq AllOutcomes
    /\ \A b \in Bodies :
         /\ b.kind \in {"unreadable", "invalid", "single", "batch"}
         /\ b.calls \in Seq(Calls)
         /\ b.kind = "single" => Len(b.calls) = 1
         /\ b.kind \in {"unreadable", "invalid"} => b.calls = <<>>

VARIABLES
    up,         \* is the process alive
    phase,      \* request -> where its Handle is
    body,       \* request -> the body it carries
    task,       \* request -> call index -> state of that call's Route
    chan,       \* request -> the responses sent and not yet read
    out,        \* request -> what has been written to the client
    notes       \* requests of which a v1 notification is still running

gwVars == <<up, phase, body, task, chan, out, notes>>
vars   == <<smVars, gwVars>>

Empty == [kind |-> "invalid", calls |-> <<>>]

(* Between the successful Add and the deferred Delete.                     *)
ActivePhases == {"reading", "read", "single", "waiting", "leaving"}
Active(r)    == phase[r] \in ActivePhases
Phases       == ActivePhases \cup {"idle", "answered"}

CallsOf(r) == body[r].calls
Indices(r) == 1 .. Len(CallsOf(r))

(* What the client gets: an error for the whole request, nothing, or the   *)
(* answers, each named by the call it answers.  Nothing, too, is written   *)
(* if some answers cannot be encoded: those are noted.                     *)
None        == [kind |-> "none", answers |-> {}]
Error(c)    == [kind |-> c, answers |-> {}]
Answers(as) == [kind |-> "answers", answers |-> as]
Dropped(as) == [kind |-> "dropped", answers |-> as]

Init ==
    /\ SessionsInit
    /\ up = TRUE
    /\ phase = [r \in Requests |-> "idle"]
    /\ body = [r \in Requests |-> Empty]
    /\ task = [r \in Requests |-> <<>>]
    /\ chan = [r \in Requests |-> {}]
    /\ out = [r \in Requests |-> None]
    /\ notes = {}

Goto(r, l) == phase' = [phase EXCEPT ![r] = l]
Write(r, o) == out' = [out EXCEPT ![r] = o]

----------------------------------------------------------------------------
(* Handle, up to the body.                                                 *)

(* Mutant: the deferred Delete is set up before Add is asked.              *)
Refuse_deletes(r) ==
    /\ up /\ phase[r] = "idle" /\ Busy(KeyOf[r])
    /\ Delete(KeyOf[r])
    /\ Write(r, Error("busy"))
    /\ Goto(r, "answered")
    /\ UNCHANGED <<pending, overran, up, body, task, chan, notes>>

Refuse(r) ==
    /\ up /\ phase[r] = "idle" /\ Busy(KeyOf[r])
    /\ Write(r, Error("busy"))
    /\ Goto(r, "answered")
    /\ UNCHANGED <<smVars, up, body, task, chan, notes>>

Admit(r) ==
    /\ up /\ phase[r] = "idle"
    /\ Add(KeyOf[r])
    /\ Goto(r, "reading")
    /\ UNCHANGED <<pending, overran, up, body, task, chan, out, notes>>

(* io.ReadAll returns when the client has sent its body, or has gone: the  *)
(* server sets no timeout, and a client that stalls keeps its session.     *)
Receive(r, b) ==
    /\ up /\ phase[r] = "reading"
    /\ body' = [body EXCEPT ![r] = b]
    /\ Goto(r, "read")
    /\ UNCHANGED <<smVars, up, task, chan, out, notes>>

(* Mutant: the early returns come before the deferred Delete.              *)
Reject_early(r) ==
    /\ up /\ phase[r] = "read" /\ body[r].kind \in {"unreadable", "invalid"}
    /\ Write(r, Error("parseError"))
    /\ Goto(r, "answered")
    /\ UNCHANGED <<smVars, up, body, task, chan, notes>>

(* A body that cannot be read, or that is neither a call nor an array.     *)
Reject(r) ==
    /\ up /\ phase[r] = "read" /\ body[r].kind \in {"unreadable", "invalid"}
    /\ Write(r, Error(IF body[r].kind = "invalid" THEN "parseError"
                                                  ELSE "internalError"))
    /\ Goto(r, "leaving")
    /\ UNCHANGED <<smVars, up, body, task, chan, notes>>

(* One call is routed on the request's own goroutine; a batch starts one   *)
(* goroutine per call, each counted by the wait group beforehand.          *)
Dispatch(r) ==
    /\ up /\ phase[r] = "read" /\ body[r].kind \in {"single", "batch"}
    /\ task' = [task EXCEPT ![r] = [i \in Indices(r) |-> "routing"]]
    /\ Goto(r, IF body[r].kind = "single" THEN "single" ELSE "waiting")
    /\ UNCHANGED <<smVars, up, body, chan, out, notes>>

----------------------------------------------------------------------------
(* Route.                                                                  *)

SetTask(r, i, s) == task' = [task EXCEPT ![r] = [@ EXCEPT ![i] = s]]

(* InvalidRequest or ContextVersion, with or without an id.                *)
Malformed(c) == ~c.proto \/ c.version = "unknown"

Notification(c) == ~c.id /\ ~Malformed(c)

(* A response ready for the channel, or for the writer.                    *)
Replied == {"reply", "unencodable"}

(* A notification runs on a goroutine of its own.  v2's Handle returns nil *)
(* at once: no response, as if there were no call.                         *)
Route(r, i) ==
    LET c == CallsOf(r)[i] IN
    /\ up /\ task[r][i] = "routing"
    /\ \/ Malformed(c) /\ SetTask(r, i, "reply") /\ UNCHANGED notes
       \/ /\ Notification(c)
          /\ notes' = IF c.version = "v1" THEN notes \cup {r} ELSE notes
          /\ SetTask(r, i, "done")
       \/ /\ ~Malformed(c) /\ ~Notification(c)
          /\ SetTask(r, i, IF c.version = "v1" THEN "running" ELSE "done")
          /\ UNCHANGED notes
    /\ UNCHANGED <<smVars, up, phase, body, chan, out>>

(* Mutant: the recover makes no answer.                                    *)
Run_silent(r, i) ==
    /\ up /\ task[r][i] = "running"
    /\ \E o \in Outcomes :
         SetTask(r, i, IF o = "panic" THEN "done" ELSE o)
    /\ UNCHANGED <<smVars, up, phase, body, chan, out, notes>>

(* sv1's Handle ends, or never does.  Route's recover turns a panic into   *)
(* an InternalError answer.                                                *)
Run(r, i) ==
    /\ up /\ task[r][i] = "running"
    /\ \E o \in Outcomes :
         SetTask(r, i, IF o = "panic" THEN "reply" ELSE o)
    /\ UNCHANGED <<smVars, up, phase, body, chan, out, notes>>

(* Mutant: the channel is made with room for one response.                 *)
Room_one(r) == Cardinality(chan[r]) < 1

Room(r) == Cardinality(chan[r]) < Len(CallsOf(r))

(* responses <- *res, then wg.Done().                                      *)
Send(r, i) ==
    /\ up /\ phase[r] = "waiting" /\ task[r][i] \in Replied
    /\ Room(r)
    /\ chan' = [chan EXCEPT ![r] = @ \cup {[call |-> i, form |-> task[r][i]]}]
    /\ SetTask(r, i, "done")
    /\ UNCHANGED <<smVars, up, phase, body, out, notes>>

----------------------------------------------------------------------------
(* The end of Handle.                                                      *)

(* json.Marshal and Encode refuse the whole value for one part of it, and  *)
(* the error is dropped: nothing is written.                               *)
Encoded(as) ==
    LET bad == {a \in as : a.form = "unencodable"} IN
    IF bad # {} THEN Dropped({a.call : a \in bad})
                ELSE Answers({a.call : a \in as})

(* A single call that has its response, or has none.                       *)
WriteSingle(r) ==
    /\ up /\ phase[r] = "single" /\ task[r][1] \in Replied \cup {"done"}
    /\ Write(r, IF task[r][1] = "done"
                THEN None ELSE Encoded({[call |-> 1, form |-> task[r][1]]}))
    /\ task' = [task EXCEPT ![r] = <<"done">>]
    /\ Goto(r, "leaving")
    /\ UNCHANGED <<smVars, up, body, chan, notes>>

(* Mutant: the channel is read as soon as there is a response in it.       *)
Gathered_some(r) == \/ \A i \in Indices(r) : task[r][i] = "done"
                    \/ chan[r] # {}

(* wg.Wait().                                                              *)
Gathered(r) == \A i \in Indices(r) : task[r][i] = "done"

(* Mutant: one channel serves all requests of a goroutine and is not drained. *)
WriteBatch_keeps(r) ==
    /\ up /\ phase[r] = "waiting" /\ Gathered(r)
    /\ Write(r, Encoded(chan[r]))
    /\ Goto(r, "leaving")
    /\ UNCHANGED <<smVars, up, body, task, chan, notes>>

(* close(responses), the loop over them, Encode or "[]".                   *)
WriteBatch(r) ==
    /\ up /\ phase[r] = "waiting" /\ Gathered(r)
    /\ Write(r, Encoded(chan[r]))
    /\ chan' = [chan EXCEPT ![r] = {}]
    /\ Goto(r, "leaving")
    /\ UNCHANGED <<smVars, up, body, task, notes>>

(* The deferred Delete(sessionUUID), by key; the request is forgotten.     *)
Leave(r) ==
    /\ up /\ phase[r] = "leaving"
    /\ Delete(KeyOf[r])
    /\ Goto(r, "answered")
    /\ body' = [body EXCEPT ![r] = Empty]
    /\ task' = [task EXCEPT ![r] = <<>>]
    /\ Write(r, None)
    /\ UNCHANGED <<pending, overran, up, chan, notes>>

(* The client sends another request.                                       *)
Again(r) ==
    /\ up /\ phase[r] = "answered"
    /\ Goto(r, "idle")
    /\ Write(r, None)
    /\ UNCHANGED <<smVars, up, body, task, chan, notes>>

(* The last notification of request r ends; nothing recovers a panic on    *)
(* its goroutine, and the process dies of it.                              *)
NoteEnds(r) ==
    /\ up /\ r \in notes
    /\ notes' = notes \ {r}
    /\ up' \in IF "panic" \in Outcomes THEN BOOLEAN ELSE {TRUE}
    /\ UNCHANGED <<smVars, phase, body, task, chan, out>>

----------------------------------------------------------------------------
(* A request arrives, its body does, and the client sends another.         *)
Client(r) ==
    \/ Refuse(r) \/ Admit(r) \/ Again(r)
    \/ \E b \in Bodies : Receive(r, b)

Handle(r) ==
    \/ Reject(r) \/ Dispatch(r)
    \/ WriteSingle(r) \/ WriteBatch(r) \/ Leave(r)

Goroutine(r, i) == Route(r, i) \/ Run(r, i) \/ Send(r, i)

Next ==
    \/ \E r \in Requests :
         \/ Client(r) \/ Handle(r) \/ NoteEnds(r)
         \/ \E i \in DOMAIN task[r] : Goroutine(r, i)
    \/ SessionsStep /\ up /\ UNCHANGED gwVars

(* Goroutines are scheduled and time passes.  Every tick's Range visits    *)
(* every key: an entry that stays expired is read, however busy the other  *)
(* entries keep the callback.  Clients owe nothing.                        *)
Fairness ==
    /\ \A r \in Requests :
         WF_vars(Handle(r)) /\ WF_vars(\E i \in DOMAIN task[r] : Goroutine(r, i))
    /\ \A k \in Keys : /\ WF_vars(Expire(k) /\ up /\ UNCHANGED gwVars)
                       /\ SF_vars(CleanerReads(k) /\ up /\ UNCHANGED gwVars)
    /\ WF_vars(CleanerDeletes /\ up /\ UNCHANGED gwVars)

Spec == Init /\ [][Next]_vars /\ Fairness

----------------------------------------------------------------------------
(* Types.                                                                  *)
TypeOK ==
    /\ SessionsTypeOK
    /\ up \in BOOLEAN
    /\ phase \in [Requests -> Phases]
    /\ body \in [Requests -> Bodies \cup {Empty}]
    /\ \A r \in Requests :
         /\ task[r] \in Seq({"routing", "running", "done", "hang"} \cup Replied)
         /\ \A a \in chan[r] : a.call \in Indices(r) /\ a.form \in Replied
         /\ out[r] = None \/ out[r].answers \subseteq Indices(r)
    /\ notes \subseteq Requests

(* The session is busy: two requests are inside Handle under one session   *)
(* only if an entry of that session has outlived the TTL (the cleanup then *)
(* frees a session that is in use, and may go on to delete the entry of    *)
(* the request that came after).                                           *)
SessionExclusive ==
    \A r, s \in Requests :
        (r # s /\ Active(r) /\ Active(s) /\ KeyOf[r] = KeyOf[s])
            => KeyOf[r] \in overran

(* No way out of Handle leaves the session's entry behind: an entry means  *)
(* that a request of that session is being handled.                        *)
EntryOwned ==
    \A k \in Keys : Busy(k) => \E r \in Requests : Active(r) /\ KeyOf[r] = k

(* The calls that are owed an answer: malformed ones, with whatever id,    *)
(* and v1 calls with an id.                                                *)
Owed(r) == {i \in Indices(r) :
              LET c == CallsOf(r)[i] IN Malformed(c) \/ (c.id /\ c.version = "v1")}

(* A batch that is answered is answered whole, whatever the order its      *)
(* goroutines finish in and whichever panic: one response per call that is *)
(* owed one, none for a notification.                                      *)
BatchExact ==
    \A r \in Requests :
        (phase[r] = "leaving" /\ out[r].kind = "answers") => out[r].answers = Owed(r)

(* A call with an id is left without a response, whatever panics and in    *)
(* whichever order the goroutines end, only if it is one for v2, or if the *)
(* result of some call of the same request could not be encoded.           *)
Silenced(r, i) ==
    \/ CallsOf(r)[i].version = "v2" /\ CallsOf(r)[i].proto
    \/ out[r].kind = "dropped" /\ out[r].answers # {}

SilenceExplained ==
    \A r \in Requests :
        (phase[r] = "leaving" /\ body[r].kind \in {"single", "batch"}) =>
            \A i \in Indices(r) :
                (CallsOf(r)[i].id /\ ~Silenced(r, i))
                    => out[r].kind = "answers" /\ i \in out[r].answers

(* route.go:93-96, "panic caught in handler": a method that panics costs   *)
(* its caller an error, never the node.                                    *)
PanicContained == up

(* A request whose body has come in is answered, however its calls         *)
(* interleave, unless one of its scripts does not end or the node dies.    *)
AdmittedAnswered ==
    \A r \in Requests :
        phase[r] = "read" ~>
            \/ phase[r] = "answered" \/ ~up
            \/ \E i \in DOMAIN task[r] : task[r][i] = "hang"

(* A session is never busy for good: even if its request hangs, or its     *)
(* client never sends the body, the TTL and the cleanup free it.           *)
SessionFreed == \A k \in Keys : Busy(k) ~> (~Busy(k) \/ ~up)
=============================================================================
