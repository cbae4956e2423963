----------------------------- MODULE NodeStart -----------------------------
(***************************************************************************)
(* Life of GoSally node processes that share one machine: how a process    *)
(* reads or prepares the persistent uuid of its node (InitUUIDHook), makes *)
(* its runtime directory and re-executes itself from there                 *)
(* (InitRuntimeHook), refuses to go on beside a node with the same uuid    *)
(* (InitRunlockHook), serves, and stops (RunHook, App.CallFallback, the    *)
(* updater's InstallAndRestart).                                           *)
(*                                                                         *)
(* The processes interact through the file system only: the uuid file of a *)
(* node path and the directories "*-<uuid>-gosally-runtime" in $TMPDIR.    *)
(* A step is one file system call, or several the other processes cannot   *)
(* tell apart.                                                             *)
(***************************************************************************)
EXTENDS Naturals

CONSTANTS
    Procs,      \* processes an operator starts (a pid: exec keeps it)
    Homes,      \* node paths, each with a ./.meta/uuid directory
    UUIDs,      \* the identifiers NewUUID32Raw may return
    None,       \* no identifier / no file
    Torn,       \* a uuid file that is not UUIDLength bytes long
    Cwd,        \* [Procs -> Homes]: where MetaDir/uuid is read from
    NodePath,   \* [Procs -> Homes]: where SetNodeUUID writes it
    Prepared,   \* [Homes -> UUIDs \cup {None}]: the uuid files at the outset
    Faults,     \* what the environment does, out of AllFaults
    MaxRuns     \* bound: program images a process may go through at stage 1

AllFaults == {"crash", "signal", "touch", "update", "io"}

ASSUME ConstantsAssumption ==
    /\ None \notin UUIDs /\ Torn \notin UUIDs /\ None # Torn
    /\ Cwd \in [Procs -> Homes]
    /\ NodePath \in [Procs -> Homes]
    /\ Prepared \in [Homes -> UUIDs \cup {None}]
    /\ Faults \subseteq AllFaults
    /\ MaxRuns \in Nat

VARIABLES
    file,   \* home -> content of .meta/uuid/data
    meta,   \* home -> does the directory .meta/uuid exist
    fd,     \* home -> processes whose open descriptor is the present data file
    used,   \* identifiers handed out so far (random, never repeated)
    tmp,    \* the runtime directories in $TMPDIR
    pc,     \* process -> next thing it does
    stage,  \* process -> 1 before the re-execution, 2 after it
    runs,   \* process -> images started at stage 1 so far
    id,     \* process -> cs.UUID32
    todo,   \* process -> matches of Glob still to be looked at
    lock,   \* process -> its run.lock, as the watcher sees it
    watch,  \* process -> the run.lock watcher
    stop,   \* process -> is ctxMain (or the signal context) cancelled
    upd,    \* process -> has InstallAndRestart cleaned and not yet exec'd
    abandoned \* directories nobody will remove: their process was killed,
              \* ended where the code does not clean, or failed to clean

vars == <<file, meta, fd, used, tmp, pc, stage, runs, id, todo, lock, watch,
          stop, upd, abandoned>>

Paths == [proc : Procs, run : Nat]
Dirs  == [path : Paths, uuid : UUIDs]

(* The program counter, in the order of Run's hooks.                       *)
MakingId == {"removeAll", "mkdirAll", "openData", "writeData", "writeReadme",
             "reread"}
Guarded  == {"setLock", "confirm", "ask", "openLock", "serve", "fallback"}
PCs      == {"off", "loadConf", "readId", "create", "copy", "glob", "stat"}
              \cup MakingId \cup Guarded

Path(p)    == [proc |-> p, run |-> runs[p]]
OwnDirs(p) == {d \in tmp : d.path = Path(p)}
HasDir(p)  == OwnDirs(p) # {}

(* p's directory exists and carries the identifier p now goes by.          *)
InPlace(p) == [path |-> Path(p), uuid |-> id[p]] \in tmp

----------------------------------------------------------------------------
Init ==
    /\ file = Prepared
    /\ meta = [h \in Homes |-> Prepared[h] # None]
    /\ fd = [h \in Homes |-> {}]
    /\ used = {Prepared[h] : h \in Homes} \ {None}
    /\ tmp = {}
    /\ pc = [p \in Procs |-> "off"]
    /\ stage = [p \in Procs |-> 1]
    /\ runs = [p \in Procs |-> 0]
    /\ id = [p \in Procs |-> None]
    /\ todo = [p \in Procs |-> {}]
    /\ lock = [p \in Procs |-> "none"]
    /\ watch = [p \in Procs |-> "off"]
    /\ stop = [p \in Procs |-> FALSE]
    /\ upd = [p \in Procs |-> FALSE]
    /\ abandoned = {}

Goto(p, l) == pc' = [pc EXCEPT ![p] = l]

(* What a fresh program image of p starts from, at the given stage.        *)
NewImage(p, s) ==
    /\ stage' = [stage EXCEPT ![p] = s]
    /\ id' = [id EXCEPT ![p] = None]
    /\ stop' = [stop EXCEPT ![p] = FALSE]
    /\ Goto(p, "loadConf")

Files  == <<file, meta, fd, used>>
Image  == <<stage, runs, id>>
Duties == <<todo, lock, watch, stop, upd, abandoned>>

(* The operating system reclaims an ended process.                         *)
Ended(p) ==
    /\ Goto(p, "off")
    /\ fd' = [h \in Homes |-> fd[h] \ {p}]
    /\ todo' = [todo EXCEPT ![p] = {}]
    /\ lock' = [lock EXCEPT ![p] = "none"]
    /\ watch' = [watch EXCEPT ![p] = "off"]
    /\ stop' = [stop EXCEPT ![p] = FALSE]
    /\ upd' = [upd EXCEPT ![p] = FALSE]
    /\ stage' = [stage EXCEPT ![p] = 1]
    /\ id' = [id EXCEPT ![p] = None]
    /\ UNCHANGED <<file, meta, used, runs>>

Abandons(p) == abandoned' = abandoned \cup {d.path : d \in OwnDirs(p)}

(* Where log.Fatalf may come after the directory was made, without Clean:  *)
(* the second image's InitConfigLoadHook and GetNodeUUID, and RunHook.     *)
Uncleaned == {"loadConf", "readId", "openLock"}

(* log.Fatalf: the process ends and nothing is cleaned.                    *)
Fatal(p) ==
    /\ Ended(p)
    /\ \/ pc[p] \in Uncleaned /\ Abandons(p)
       \/ pc[p] \notin Uncleaned /\ UNCHANGED abandoned
    /\ UNCHANGED tmp

(* run_manager.Clean, which drops the error of os.RemoveAll: the directory *)
(* stays then, or what could not be removed of it.                         *)
Clean(p) ==
    \/ /\ tmp' = tmp \ OwnDirs(p)
       /\ lock' = [lock EXCEPT ![p] = "none"]
       /\ UNCHANGED abandoned
    \/ /\ "io" \in Faults
       /\ Abandons(p)
       /\ lock' \in {lock, [lock EXCEPT ![p] = "none"]}
       /\ UNCHANGED tmp

(* Mutant: an error path that forgets run_manager.Clean.                   *)
CleanFatal_noClean(p) == Fatal(p)

(* run_manager.Clean followed by the end of the process.                   *)
CleanFatal(p) == Ended(p) /\ Clean(p)

(* A call that fails where the hook answers with log.Fatalf alone, and     *)
(* where it calls run_manager.Clean first.                                 *)
Fails(p)      == "io" \in Faults /\ Fatal(p)
CleanFails(p) == "io" \in Faults /\ CleanFatal(p)

----------------------------------------------------------------------------
(* The uuid of the node.                                                   *)

Start(p) ==
    /\ pc[p] = "off" /\ runs[p] < MaxRuns
    /\ runs' = [runs EXCEPT ![p] = @ + 1]
    /\ NewImage(p, 1)
    /\ UNCHANGED <<Files, tmp, todo, lock, watch, upd, abandoned>>

(* InitConfigLoadHook, in either stage: the environment, the file.         *)
LoadConf(p) ==
    /\ pc[p] = "loadConf"
    /\ \/ Fails(p)
       \/ /\ Goto(p, "readId")
          /\ UNCHANGED <<Files, tmp, Image, Duties>>

(* Mutant: readNodeUUIDRaw without the check of the length.                *)
Readable_any(x) == x # None

Readable(x) == x \in UUIDs

(* Mutant: a file of the wrong length is made anew, as a missing one is.   *)
ReadId_mends(p) ==
    /\ pc[p] = "readId"
    /\ \/ Fails(p)
       \/ /\ ~Readable(file[Cwd[p]])
          /\ Goto(p, "removeAll")
          /\ UNCHANGED <<Files, tmp, Image, Duties>>
       \/ /\ Readable(file[Cwd[p]])
          /\ id' = [id EXCEPT ![p] = file[Cwd[p]]]
          /\ Goto(p, IF stage[p] = 1 THEN "create" ELSE "glob")
          /\ UNCHANGED <<Files, tmp, stage, runs, Duties>>

(* GetNodeUUID: no file, a file of the wrong length, another error, or the *)
(* identifier.                                                             *)
ReadId(p) ==
    /\ pc[p] = "readId"
    /\ \/ Fails(p)
       \/ /\ file[Cwd[p]] = None
          /\ Goto(p, "removeAll")
          /\ UNCHANGED <<Files, tmp, Image, Duties>>
       \/ file[Cwd[p]] = Torn /\ Fatal(p)
       \/ /\ Readable(file[Cwd[p]])
          /\ id' = [id EXCEPT ![p] = file[Cwd[p]]]
          /\ Goto(p, IF stage[p] = 1 THEN "create" ELSE "glob")
          /\ UNCHANGED <<Files, tmp, stage, runs, Duties>>

(* SetNodeUUID, call by call.  The directory goes with all it contains.    *)
RemoveAll(p) ==
    /\ pc[p] = "removeAll"
    /\ \/ Fails(p)
       \/ /\ LET h == NodePath[p] IN
             /\ meta' = [meta EXCEPT ![h] = FALSE]
             /\ file' = [file EXCEPT ![h] = None]
             /\ fd' = [fd EXCEPT ![h] = {}]
          /\ Goto(p, "mkdirAll")
          /\ UNCHANGED <<used, tmp, Image, Duties>>

MkdirAll(p) ==
    /\ pc[p] = "mkdirAll"
    /\ \/ Fails(p)
       \/ /\ meta' = [meta EXCEPT ![NodePath[p]] = TRUE]
          /\ Goto(p, "openData")
          /\ UNCHANGED <<file, fd, used, tmp, Image, Duties>>

(* os.WriteFile opens with O_CREATE|O_TRUNC, ...                           *)
OpenData(p) ==
    /\ pc[p] = "openData"
    /\ LET h == NodePath[p] IN
       \/ ~meta[h] /\ Fatal(p)
       \/ Fails(p)
       \/ /\ meta[h]
          /\ file' = [file EXCEPT ![h] = Torn]
          /\ fd' = [fd EXCEPT ![h] = @ \cup {p}]
          /\ Goto(p, "writeData")
          /\ UNCHANGED <<meta, used, tmp, Image, Duties>>

(* ... and writes through its descriptor, which may by now be that of an   *)
(* unlinked file.                                                          *)
WriteData(p) ==
    /\ pc[p] = "writeData"
    /\ \/ Fails(p)
       \/ /\ \E u \in UUIDs \ used :
               /\ used' = used \cup {u}
               /\ LET h == NodePath[p] IN
                  /\ file' = IF p \in fd[h] THEN [file EXCEPT ![h] = u]
                                            ELSE file
                  /\ fd' = [fd EXCEPT ![h] = @ \ {p}]
          /\ Goto(p, "writeReadme")
          /\ UNCHANGED <<meta, tmp, Image, Duties>>

WriteReadme(p) ==
    /\ pc[p] = "writeReadme"
    /\ \/ ~meta[NodePath[p]] /\ Fatal(p)
       \/ Fails(p)
       \/ /\ meta[NodePath[p]]
          /\ Goto(p, "reread")
          /\ UNCHANGED <<Files, tmp, Image, Duties>>

(* The second GetNodeUUID: now a missing file is fatal too.                *)
Reread(p) ==
    /\ pc[p] = "reread"
    /\ \/ Fails(p)
       \/ ~Readable(file[Cwd[p]]) /\ Fatal(p)
       \/ /\ Readable(file[Cwd[p]])
          /\ id' = [id EXCEPT ![p] = file[Cwd[p]]]
          /\ Goto(p, IF stage[p] = 1 THEN "create" ELSE "glob")
          /\ UNCHANGED <<Files, tmp, stage, runs, Duties>>

----------------------------------------------------------------------------
(* The runtime directory and the second stage.                             *)

Create(p) ==
    /\ pc[p] = "create"
    /\ \/ Fails(p)
       \/ /\ tmp' = tmp \cup {[path |-> Path(p), uuid |-> id[p]]}
          /\ Goto(p, "copy")
          /\ UNCHANGED <<Files, Image, Duties>>

(* The binary is copied and executed, with GS_PARENT_PID set to the pid.   *)
(* The new image has its own signal context: a signal so far is forgotten. *)
Copy(p) ==
    /\ pc[p] = "copy"
    /\ \/ CleanFails(p)
       \/ /\ NewImage(p, 2)
          /\ UNCHANGED <<Files, tmp, runs, todo, lock, watch, upd, abandoned>>

(* Mutant: the own directory is not left out.                              *)
Glob_own(p) ==
    /\ pc[p] = "glob"
    /\ todo' = [todo EXCEPT ![p] = {d.path : d \in {e \in tmp : e.uuid = id[p]}}]
    /\ Goto(p, "stat")
    /\ UNCHANGED <<Files, tmp, Image, lock, watch, stop, upd, abandoned>>

(* ExistsMatchingDirs: one Glob ...                                        *)
Glob(p) ==
    /\ pc[p] = "glob"
    /\ \/ CleanFails(p)
       \/ /\ todo' = [todo EXCEPT ![p] =
                {d.path : d \in {e \in tmp : e.uuid = id[p]}} \ {Path(p)}]
          /\ Goto(p, "stat")
          /\ UNCHANGED <<Files, tmp, Image, lock, watch, stop, upd, abandoned>>

(* Mutant: only a node that has written its run.lock counts as running.    *)
Standing_locked(x) == \E d \in tmp : d.path = x /\ lock[x.proc] # "none"

Standing(x) == \E d \in tmp : d.path = x

(* ... then one Stat per match, which may have gone since.                 *)
Stat(p) ==
    /\ pc[p] = "stat"
    /\ \/ /\ todo[p] = {}
          /\ Goto(p, "setLock")
          /\ UNCHANGED <<Files, tmp, Image, Duties>>
       \/ \E x \in todo[p] :
            \/ Standing(x) /\ CleanFatal(p)
            \/ /\ ~Standing(x)
               /\ todo' = [todo EXCEPT ![p] = @ \ {x}]
               /\ UNCHANGED <<Files, tmp, pc, Image, lock, watch, stop, upd,
                              abandoned>>

(* run_manager.Set("run.lock") and SaveTo.                                 *)
SetLock(p) ==
    /\ pc[p] = "setLock"
    /\ \/ CleanFails(p)
       \/ /\ lock' = [lock EXCEPT ![p] = "written"]
          /\ Goto(p, "confirm")
          /\ UNCHANGED <<Files, tmp, Image, todo, watch, stop, upd, abandoned>>

(* InitSLogHook.                                                           *)
InitSLog(p) ==
    \/ CleanFails(p)
    \/ /\ Goto(p, "openLock")
       /\ UNCHANGED <<Files, tmp, Image, Duties>>

(* InitConfigPrintHook asks only if the configuration wants it shown.      *)
Confirm(p) ==
    /\ pc[p] = "confirm"
    /\ \/ InitSLog(p)
       \/ /\ Goto(p, "ask")
          /\ UNCHANGED <<Files, tmp, Image, Duties>>

(* The operator answers "yes", or "no", which calls the fallback.          *)
Answer(p) == pc[p] = "ask" /\ (InitSLog(p) \/ CleanFatal(p))


(* askConfirm's other case: a signal at the prompt.                        *)
Interrupted(p) == pc[p] = "ask" /\ stop[p] /\ CleanFatal(p)

----------------------------------------------------------------------------
(* RunHook.                                                                *)

(* A run.lock that cannot be opened is fatal, without Clean.  Otherwise    *)
(* its present state becomes what the watcher compares with.               *)
OpenLock(p) ==
    /\ pc[p] = "openLock"
    /\ \/ lock[p] = "none" /\ Fatal(p)
       \/ Fails(p)
       \/ /\ lock[p] # "none"
          /\ lock' = [lock EXCEPT ![p] = "written"]
          /\ watch' = [watch EXCEPT ![p] = "armed"]
          /\ Goto(p, "serve")
          /\ UNCHANGED <<Files, tmp, Image, todo, stop, upd, abandoned>>

(* The watcher's callback: Clean first, cancelMain second.                 *)
WatchCleans(p) ==
    /\ pc[p] = "serve" /\ watch[p] = "armed" /\ ~stop[p]
    /\ lock[p] # "written"
    /\ Clean(p)
    /\ watch' = [watch EXCEPT ![p] = "fired"]
    /\ UNCHANGED <<Files, pc, Image, todo, stop, upd>>

(* Mutant: the callback cleans and does not cancel.                        *)
WatchCancels_not(p) ==
    /\ watch[p] = "fired"
    /\ watch' = [watch EXCEPT ![p] = "off"]
    /\ UNCHANGED <<Files, tmp, pc, Image, todo, lock, stop, upd, abandoned>>

WatchCancels(p) ==
    /\ watch[p] = "fired"
    /\ watch' = [watch EXCEPT ![p] = "off"]
    /\ stop' = [stop EXCEPT ![p] = TRUE]
    /\ UNCHANGED <<Files, tmp, pc, Image, todo, lock, upd, abandoned>>

(* <-ctxMain.Done(), then the fallback: srv.Shutdown closes the listener   *)
(* and, its context being done already, waits for no request.              *)
Shutdown(p) ==
    /\ pc[p] = "serve" /\ stop[p]
    /\ Goto(p, "fallback")
    /\ UNCHANGED <<Files, tmp, Image, Duties>>

CleanExit(p) == pc[p] = "fallback" /\ CleanFatal(p)

(* The end of InstallAndRestart, on the updater's goroutine: Clean, then   *)
(* exec of the new binary with GS_PARENT_PID=-1, whatever the main         *)
(* goroutine is doing.                                                     *)
UpdateCleans(p) ==
    /\ "update" \in Faults
    /\ pc[p] \in {"serve", "fallback"} /\ ~upd[p]
    /\ runs[p] < MaxRuns
    /\ Clean(p)
    /\ upd' = [upd EXCEPT ![p] = TRUE]
    /\ UNCHANGED <<Files, pc, Image, todo, watch, stop>>

UpdateExecs(p) ==
    /\ upd[p]
    /\ upd' = [upd EXCEPT ![p] = FALSE]
    /\ \/ /\ runs' = [runs EXCEPT ![p] = @ + 1]
          /\ lock' = [lock EXCEPT ![p] = "none"]
          /\ watch' = [watch EXCEPT ![p] = "off"]
          /\ NewImage(p, 1)
          /\ UNCHANGED <<Files, tmp, todo, abandoned>>
       \/ "io" \in Faults /\ UNCHANGED <<Files, tmp, pc, Image, todo, lock,
                                         watch, stop, abandoned>>

----------------------------------------------------------------------------
(* The environment.                                                        *)

(* SIGINT, SIGTERM or SIGQUIT; a listener that fails has the same effect.  *)
Signal(p) ==
    /\ "signal" \in Faults /\ pc[p] # "off" /\ ~stop[p]
    /\ stop' = [stop EXCEPT ![p] = TRUE]
    /\ UNCHANGED <<Files, tmp, pc, Image, todo, lock, watch, upd, abandoned>>

(* run.lock is modified or removed by hand.                                *)
TouchLock(p) ==
    /\ "touch" \in Faults /\ lock[p] = "written"
    /\ \E l \in {"touched", "none"} : lock' = [lock EXCEPT ![p] = l]
    /\ UNCHANGED <<Files, tmp, pc, Image, todo, watch, stop, upd, abandoned>>

(* SIGKILL or a power cut: whatever is on disk stays there.                *)
Crash(p) ==
    /\ "crash" \in Faults /\ pc[p] # "off"
    /\ Ended(p)
    /\ abandoned' = abandoned \cup {Path(p)}
    /\ UNCHANGED tmp

----------------------------------------------------------------------------
Step(p) ==
    \/ LoadConf(p)
    \/ ReadId(p) \/ RemoveAll(p) \/ MkdirAll(p) \/ OpenData(p)
    \/ WriteData(p) \/ WriteReadme(p) \/ Reread(p)
    \/ Create(p) \/ Copy(p) \/ Glob(p) \/ Stat(p) \/ SetLock(p) \/ Confirm(p)
    \/ Interrupted(p) \/ OpenLock(p) \/ Shutdown(p) \/ CleanExit(p)

Watcher(p) == WatchCleans(p) \/ WatchCancels(p)

Environment(p) == Start(p) \/ Answer(p) \/ Signal(p) \/ TouchLock(p)
                    \/ Crash(p) \/ UpdateCleans(p)

Next == \E p \in Procs :
          Step(p) \/ Watcher(p) \/ UpdateExecs(p) \/ Environment(p)

(* Each goroutine of a live process is scheduled; nothing is asked of the  *)
(* environment.                                                            *)
Fairness == \A p \in Procs : /\ WF_vars(Step(p))
                             /\ WF_vars(Watcher(p))
                             /\ WF_vars(UpdateExecs(p))

Spec == Init /\ [][Next]_vars /\ Fairness

----------------------------------------------------------------------------
(* Types.                                                                  *)
TypeOK ==
    /\ file \in [Homes -> UUIDs \cup {None, Torn}]
    /\ meta \in [Homes -> BOOLEAN]
    /\ fd \in [Homes -> SUBSET Procs]
    /\ used \subseteq UUIDs
    /\ tmp \subseteq Dirs
    /\ pc \in [Procs -> PCs]
    /\ stage \in [Procs -> {1, 2}]
    /\ runs \in [Procs -> Nat]
    /\ id \in [Procs -> UUIDs \cup {None}]
    /\ todo \in [Procs -> SUBSET Paths]
    /\ lock \in [Procs -> {"none", "written", "touched"}]
    /\ watch \in [Procs -> {"off", "armed", "fired"}]
    /\ stop \in [Procs -> BOOLEAN]
    /\ upd \in [Procs -> BOOLEAN]
    /\ abandoned \subseteq Paths

(* The guard of InitRunlockHook does its work whatever the interleaving of  *)
(* MkdirTemp, Glob and Stat: of two processes that have passed it and whose *)
(* runtime directory stands under the identifier they go by, no two go by  *)
(* the same identifier.                                                    *)
HoldersExclusive ==
    \A p, q \in Procs :
        (/\ p # q
         /\ pc[p] \in Guarded /\ InPlace(p)
         /\ pc[q] \in Guarded /\ InPlace(q)) => id[p] # id[q]

(* README.md:34, "against running a node under the same identifier as one  *)
(* already running in the system": two nodes that serve with their runtime *)
(* directories in place have different identifiers.                        *)
OneServingPerId ==
    \A p, q \in Procs :
        (/\ p # q
         /\ pc[p] = "serve" /\ HasDir(p)
         /\ pc[q] = "serve" /\ HasDir(q)) => id[p] # id[q]

Alive(x) == pc[x.proc] # "off" /\ runs[x.proc] = x.run

(* Every path that ends a process cleans up: a runtime directory belongs   *)
(* to a process that is alive in the run that made it, unless that process *)
(* was killed, ended where the code stops short of cleaning (run.go:50,    *)
(* and initial.go:57, 65 and 82 in the second stage), or could not remove  *)
(* it (routines.go:44).  What is left refuses every later start.           *)
NoOrphans == \A d \in tmp : d.path \in abandoned \/ Alive(d.path)

(* A start is refused only for the directory of another process that is    *)
(* alive and goes by the same identifier, or for one abandoned as above:   *)
(* never for a directory of its own, nor for one that another error path,  *)
(* an orderly end or an update should have removed.                        *)
RefusalExplained ==
    [][\A p \in Procs :
         (pc[p] = "stat" /\ pc'[p] = "off" /\ Path(p) \notin abandoned') =>
            \E d \in tmp :
               /\ d.path \in todo[p] /\ d.uuid = id[p]
               /\ \/ d.path \in abandoned
                  \/ d.path.proc # p /\ Alive(d.path)]_vars

(* initial.go:69, "reads or prepares a persistent uuid": a uuid file that  *)
(* a kill or a failing write left torn is not prepared again, however many *)
(* processes are started.  At rest it stays as it is, and every process    *)
(* that reads it ends (initial.go:81-83).                                  *)
AtRest(h)   == file[h] = Torn /\ \A p \in Procs : pc[p] \notin MakingId
TornForGood ==
    [][\A h \in Homes :
         AtRest(h) =>
           /\ AtRest(h)'
           /\ \A p \in Procs : pc[p] = "readId" => pc'[p] \in {"readId", "off"}]_vars


(* A node whose run.lock is changed, or removed with the directory by the  *)
(* updater, does not keep serving: the watcher stops it.                   *)
TouchStops ==
    \A p \in Procs : (pc[p] = "serve" /\ lock[p] # "written") ~> pc[p] # "serve"
=============================================================================
