----------------------------- MODULE DbService -----------------------------
(***************************************************************************)
(* What internal.database.sqlite promises a Lua script, without goroutines, *)
(* channels or locks: writes of one connection take effect in the order of *)
(* its exec calls, each at most once and all of it, and wait or check      *)
(* reports what became of them; a query sees the database at one moment.   *)
(***************************************************************************)
EXTENDS Naturals, Sequences

CONSTANTS
    Scripts,    \* running scripts, each with one connection
    Paths,      \* database paths
    PathOf      \* [Scripts -> Paths]: the argument of connect

VARIABLES
    db,         \* path -> the writes that have taken effect, in order
    status,     \* script -> per exec call: "pending", "ok" or "err"
    acked,      \* script -> its exec calls it has had the result of
    got         \* script -> what its last query saw

svcVars == <<db, status, acked, got>>

ServiceInit ==
    /\ db = [p \in Paths |-> <<>>]
    /\ status = [s \in Scripts |-> <<>>]
    /\ acked = [s \in Scripts |-> {}]
    /\ got = [s \in Scripts |-> <<>>]

Submit(s) ==
    /\ status' = [status EXCEPT ![s] = Append(@, "pending")]
    /\ UNCHANGED <<db, acked, got>>

(* The oldest pending write is decided.                                    *)
Decide(s, n) ==
    /\ status[s][n] = "pending"
    /\ \A m \in 1 .. (n - 1) : status[s][m] # "pending"
    /\ \/ /\ status' = [status EXCEPT ![s] = [@ EXCEPT ![n] = "ok"]]
          /\ db' = [db EXCEPT ![PathOf[s]] = Append(@, <<s, n>>)]
       \/ /\ status' = [status EXCEPT ![s] = [@ EXCEPT ![n] = "err"]]
          /\ UNCHANGED db
    /\ UNCHANGED <<acked, got>>

Acknowledge(s, n) ==
    /\ status[s][n] # "pending" /\ n \notin acked[s]
    /\ acked' = [acked EXCEPT ![s] = @ \cup {n}]
    /\ UNCHANGED <<db, status, got>>

Query(s) ==
    /\ got' = [got EXCEPT ![s] = db[PathOf[s]]]
    /\ UNCHANGED <<db, status, acked>>

ServiceNext ==
    \E s \in Scripts :
        \/ Submit(s) \/ Query(s)
        \/ \E n \in DOMAIN status[s] : Decide(s, n) \/ Acknowledge(s, n)

Service == ServiceInit /\ [][ServiceNext]_svcVars
=============================================================================
