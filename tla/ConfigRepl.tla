----------------------------- MODULE ConfigRepl -----------------------------
(***************************************************************************)
(* From the configuration file to the settings a node runs with: LoadConf  *)
(* puts defaults under what the file says, InitConfigReplHook replaces     *)
(* placeholders in every string (processConfig), InitSLogHook opens the    *)
(* log that log.output then names.                                         *)
(*                                                                         *)
(* A string is a sequence of atoms, each a placeholder or a piece of text  *)
(* without one.  processConfig visits the structure's fields in their      *)
(* order; the replacements are a Go map, visited in any order.             *)
(***************************************************************************)
EXTENDS Sequences, Integers

CONSTANTS
    Placeholders,   \* the keys of the replacements
    Texts,          \* atoms that hold no placeholder
    Value,          \* [Placeholders -> Texts]: what each stands for
    Order,          \* the string fields, in the order of the structure
    Default,        \* [fields -> string], or Nil where there is no default
    Settings,       \* the strings a file may give a field
    Nil             \* an absent key, a nil pointer

Fields == {Order[i] : i \in 1..Len(Order)}

ASSUME ConfigAssumption ==
    /\ Placeholders \cap Texts = {} /\ {"_1STDout", "_2STDerr"} \subseteq Texts
    /\ Value \in [Placeholders -> Texts]
    /\ Settings \subseteq Seq(Placeholders \cup Texts)
    /\ Nil \notin Seq(Placeholders \cup Texts)
    /\ Order \in Seq(Fields) /\ "log.output" \in Fields
    /\ \A i, j \in 1..Len(Order) : Order[i] = Order[j] => i = j
    /\ Default \in [Fields -> Settings \cup {Nil}]

VARIABLES
    file,   \* field -> what the file says of it, or Nil
    conf,   \* field -> its value in x.Config.Conf
    loaded, \* field -> its value after LoadConf
    next,   \* index in Order of the field processConfig is at
    left,   \* the replacements not yet visited for that field
    log     \* where the node's log goes

vars == <<file, conf, loaded, next, left, log>>

Init ==
    /\ file \in [Fields -> Settings \cup {Nil}]
    /\ conf = [f \in Fields |-> Nil] /\ loaded = conf
    /\ next = 0 /\ left = {} /\ log = "none"

(* LoadConf.                                                               *)
LoadConf ==
    /\ next = 0
    /\ conf' = [f \in Fields |-> IF file[f] = Nil THEN Default[f] ELSE file[f]]
    /\ loaded' = conf'
    /\ next' = 1 /\ left' = Placeholders
    /\ UNCHANGED <<file, log>>

(* Mutant: strings.Replace of the first occurrence.                        *)
ReplaceAll_first(s, p) ==
    [i \in DOMAIN s |-> IF s[i] = p /\ \A j \in 1..(i - 1) : s[j] # p
                        THEN Value[p] ELSE s[i]]

ReplaceAll(s, p) == [i \in DOMAIN s |-> IF s[i] = p THEN Value[p] ELSE s[i]]

Contains(s, p) == \E i \in DOMAIN s : s[i] = p

Present(s) == {p \in Placeholders : Contains(s, p)}

AtField == next \in 1..Len(Order)
Str     == loaded[Order[next]]
IsWhole == \E p \in Placeholders : Str = <<p>>

SetString(s) == conf' = [conf EXCEPT ![Order[next]] = s]

NextField ==
    next' = next + 1 /\ left' = Placeholders /\ UNCHANGED <<file, loaded, log>>

(* A string that is a placeholder and nothing else.                        *)
ReplaceWhole ==
    /\ AtField /\ Str # Nil /\ IsWhole
    /\ SetString(<<Value[Str[1]]>>)
    /\ NextField

(* One turn of the loop over the replacements.  str is the string as it    *)
(* was, so that what an earlier turn has set is lost.                      *)
Visit(p) ==
    /\ AtField /\ Str # Nil /\ ~IsWhole /\ p \in left
    /\ IF Contains(Str, p) THEN SetString(ReplaceAll(Str, p)) ELSE UNCHANGED conf
    /\ left' = left \ {p}
    /\ UNCHANGED <<file, loaded, next, log>>

LeaveField ==
    /\ AtField /\ (Str = Nil \/ (~IsWhole /\ left = {}))
    /\ NextField /\ UNCHANGED conf

(* Mutant: the logger is set up before the replacement.                    *)
InitSLogHook_early ==
    /\ next > 0 /\ log = "none"
    /\ LET out == conf["log.output"] IN
       log' = IF out = <<"_1STDout">> THEN "stdout"
              ELSE IF out = <<"_2STDerr">> THEN "stderr" ELSE "files"
    /\ UNCHANGED <<file, conf, loaded, next, left>>

(* InitSLogHook and SetupLogger.                                           *)
InitSLogHook ==
    /\ next = Len(Order) + 1 /\ log = "none"
    /\ LET out == conf["log.output"] IN
       log' = IF out = <<"_1STDout">> THEN "stdout"
              ELSE IF out = <<"_2STDerr">> THEN "stderr" ELSE "files"
    /\ UNCHANGED <<file, conf, loaded, next, left>>

Next == \/ LoadConf \/ ReplaceWhole \/ (\E p \in Placeholders : Visit(p))
        \/ LeaveField \/ InitSLogHook

Spec == Init /\ [][Next]_vars

----------------------------------------------------------------------------
(* What "replaces special expressions" asks for (initial.go:195).          *)
Resolved(s) ==
    [i \in DOMAIN s |-> IF s[i] \in Placeholders THEN Value[s[i]] ELSE s[i]]

(* What becomes of a string: with no more than one kind of placeholder all *)
(* of them are replaced; with more, exactly one kind is, whichever the map *)
(* yields last, and the others stay in the text.                           *)
Becomes(s, result) ==
    IF s = Nil THEN result = Nil
    ELSE IF \A p, q \in Present(s) : p = q THEN result = Resolved(s)
    ELSE \E p \in Present(s) : result = ReplaceAll(s, p)

ReplacedExactly ==
    next > Len(Order) => \A f \in Fields : Becomes(loaded[f], conf[f])

(* The log goes to a standard stream exactly if log.output names it and    *)
(* nothing else, and is standard error if the file does not say.           *)
Streams(v) == {<<v>>} \cup {<<p>> : p \in {q \in Placeholders : Value[q] = v}}

LogsWhereSaid ==
    log # "none" =>
        /\ (log = "stdout") <=> (loaded["log.output"] \in Streams("_1STDout"))
        /\ (log = "stderr") <=> (loaded["log.output"] \in Streams("_2STDerr"))
=============================================================================
