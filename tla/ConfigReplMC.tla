---------------------------- MODULE ConfigReplMC ----------------------------
(***************************************************************************)
(* Two fields with a default and one without; four of the six              *)
(* placeholders, two of them for the same text; strings of up to three     *)
(* atoms.                                                                  *)
(***************************************************************************)
EXTENDS ConfigRepl, FiniteSets

MCPlaceholders == {"%tmp%", "%stdout%", "%1%", "%2%"}
MCValue == [p \in MCPlaceholders |->
    CASE p = "%tmp%" -> "/tmp/run" [] p = "%2%" -> "_2STDerr"
      [] OTHER -> "_1STDout"]
MCOrder == <<"node.com_dir", "updates.repository_url", "log.output">>
MCDefault == [f \in {MCOrder[i] : i \in 1..3} |->
    CASE f = "node.com_dir" -> <<"com">>
      [] f = "updates.repository_url" -> Nil
      [] f = "log.output" -> <<"%2%">>]

MCTexts == {"com", "/tmp/run", "_1STDout", "_2STDerr"}

Strings(n) == [1..n -> MCPlaceholders \cup {"com"}]
MCSettings == Strings(1) \cup {<<"_1STDout">>, <<"_2STDerr">>}
                \cup {s \in Strings(2) \cup Strings(3) : s[1] \in {"%tmp%", "com"}}

(* The three fields differ in their defaults alone; one of them at a time   *)
(* takes every string, the others short ones.                              *)
MCInit == Init /\ Cardinality({f \in Fields : file[f] # Nil}) <= 1
MCSpec == MCInit /\ [][Next]_vars
=============================================================================
