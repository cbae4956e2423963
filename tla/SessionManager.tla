--------------------------- MODULE SessionManager ---------------------------
(***************************************************************************)
(* session.SessionManager: a sync.Map from session uuid to expiry time,    *)
(* and the goroutine StartCleanup runs over it.  Requests use Add and      *)
(* Delete; the cleanup goroutine reads an entry's expiry and deletes by    *)
(* key in two steps, between which the entry may have been replaced.       *)
(***************************************************************************)
EXTENDS Naturals

CONSTANTS
    Keys,       \* X-Session-UUID values
    NoKey       \* the cleanup goroutine is not in the middle of an entry

ASSUME KeysAssumption == NoKey \notin Keys

VARIABLES
    sessions,   \* key -> "free" (no entry), "fresh" or "expired" entry
    pending,    \* the key whose expired entry the Range callback has read
    overran     \* history: keys of which an entry has outlived the TTL

smVars == <<sessions, pending, overran>>

SessionsInit ==
    /\ sessions = [k \in Keys |-> "free"]
    /\ pending = NoKey
    /\ overran = {}

SessionsTypeOK ==
    /\ sessions \in [Keys -> {"free", "fresh", "expired"}]
    /\ pending \in Keys \cup {NoKey}
    /\ overran \subseteq Keys

(* LoadOrStore: TRUE only for the caller that finds no entry, whatever the *)
(* age of the entry found.                                                 *)
Busy(k) == sessions[k] # "free"
Add(k) == ~Busy(k) /\ sessions' = [sessions EXCEPT ![k] = "fresh"]

Delete(k) == sessions' = [sessions EXCEPT ![k] = "free"]

(* time.Now() passes the entry's expiry.                                   *)
Expire(k) ==
    /\ sessions[k] = "fresh"
    /\ sessions' = [sessions EXCEPT ![k] = "expired"]
    /\ overran' = overran \cup {k}
    /\ UNCHANGED pending

(* Mutant: the ticker is never waited for.                                 *)
CleanerReads_never(k) == FALSE /\ k = pending /\ UNCHANGED smVars

CleanerReads(k) ==
    /\ pending = NoKey /\ sessions[k] = "expired"
    /\ pending' = k
    /\ UNCHANGED <<sessions, overran>>

CleanerDeletes ==
    /\ pending # NoKey
    /\ Delete(pending)
    /\ pending' = NoKey
    /\ UNCHANGED overran

SessionsStep ==
    \/ \E k \in Keys : Expire(k) \/ CleanerReads(k)
    \/ CleanerDeletes
=============================================================================
