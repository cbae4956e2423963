----------------------------- MODULE RunManager -----------------------------
(***************************************************************************)
(* The package variables of run_manager and the runtime directory they     *)
(* describe, in one process image.  Nothing guards them: main, the run.lock *)
(* watcher and the updater call Clean, Set, SetDir and File as they please. *)
(* Operators named for a half of a function are combined by the module     *)
(* that knows who calls them.                                              *)
(***************************************************************************)
EXTENDS Sequences, Integers

CONSTANTS
    Names,  \* files of the runtime directory, run.lock and node among them
    Nil     \* a nil map, a missing directory

ASSUME NilAssumption == \A S \in SUBSET Names : S # Nil

VARIABLES
    created,  \* run_manager.created
    indexed,  \* the keys of indexedPaths, or Nil
    dir       \* the runtime directory: its files with their contents, or Nil

runVars == <<created, indexed, dir>>

OnlyLock == [f \in {"run.lock"} |-> <<>>]

(* InitRunlockHook: Toggle, and Set of run.lock into the map that every    *)
(* image starts with.                                                      *)
Fresh ==
    /\ created' = TRUE
    /\ indexed' = {"run.lock"}
    /\ dir' = OnlyLock

RunInit == created = TRUE /\ indexed = {"run.lock"} /\ dir = OnlyLock

(* Mutant: Clean leaves the map as it is.                                  *)
Forget_keepsCreated == indexed' = Nil /\ UNCHANGED created

(* Clean's two assignments, which no caller can tell apart, ...            *)
Forget == created' = FALSE /\ indexed' = Nil

(* Mutant: CleanTempRuntimes without the removal.                          *)
Remove_not == UNCHANGED dir

(* ... and CleanTempRuntimes.                                              *)
Remove == dir' = Nil

(* It drops the error of os.RemoveAll, which leaves the directory then and *)
(* what it has not come to of the files.                                   *)
RemoveFails ==
    dir # Nil /\ \E S \in SUBSET DOMAIN dir : dir' = [f \in S |-> dir[f]]

(* os.MkdirAll of the directory or of one below it.                        *)
Mkdir == dir' = IF dir = Nil THEN [f \in {} |-> <<>>] ELSE dir

Holds(f) == dir # Nil /\ f \in DOMAIN dir

(* os.OpenFile with O_CREATE and without O_TRUNC.                          *)
Create(f) == dir' = IF Holds(f) THEN dir
                    ELSE [g \in DOMAIN dir \cup {f} |->
                            IF g = f THEN <<>> ELSE dir[g]]

(* indexPaths: the files found, or Nil for an error.                       *)
Walked == IF created /\ dir # Nil THEN DOMAIN dir ELSE Nil

Indexed(f) == indexed # Nil /\ f \in indexed

(* File followed by Open; the map is made anew when f is not in it.        *)
CanOpen(f) == Holds(f) /\ (Indexed(f) \/ Walked # Nil)

Lookup(f) == indexed' = IF Indexed(f) \/ Walked = Nil THEN indexed ELSE Walked

(* Without O_TRUNC a longer file keeps its tail under a shorter one.       *)
Overlay(new, old) ==
    new \o SubSeq(old, Len(new) + 1, Len(old))

(* io.Copy through a descriptor of f, which may have been unlinked.        *)
Write(f, new) ==
    dir' = IF Holds(f) THEN [dir EXCEPT ![f] = Overlay(new, @)] ELSE dir
=============================================================================
