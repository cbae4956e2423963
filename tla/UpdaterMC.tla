----------------------------- MODULE UpdaterMC -----------------------------
(***************************************************************************)
(* Four releases: a small one; one of two blocks with a directory and      *)
(* another file; one without a binary, whose number differs from that of   *)
(* the second only in a part that is no number; one that does not unpack.  *)
(***************************************************************************)
EXTENDS Updater

MCNames == {"run.lock", "node", "other"}
MCVersions == {<<1, 9>>, <<1, 10>>, <<1, 10, Junk>>, <<2>>}
MCSize == [v \in MCVersions |-> IF v = <<1, 10>> THEN 2 ELSE 1]
MCArchive == [v \in MCVersions |->
    CASE v = <<1, 9>>        -> <<"top", "node">>
      [] v = <<1, 10>>       -> <<"dir", "node", "other">>
      [] v = <<1, 10, Junk>> -> <<"dir", "other">>
      [] v = <<2>>           -> <<"link">>]
=============================================================================
