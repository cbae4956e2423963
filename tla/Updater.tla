------------------------------ MODULE Updater ------------------------------
(***************************************************************************)
(* The updater of a serving node: RunHook's loop, CkeckUpdates, Update and *)
(* InstallAndRestart, beside the main goroutine and the run.lock watcher,  *)
(* which may clean the runtime directory and end the process at any of its *)
(* steps.  Between them the repository publishes, calls fail, the process  *)
(* is killed and an operator starts bin/node again.                        *)
(*                                                                         *)
(* A version is a sequence of parts, and the binary of a version as many   *)
(* blocks labelled with it as it is long.  How an image gets from exec to  *)
(* RunHook is NodeStart's subject: here it takes one step.                 *)
(***************************************************************************)
EXTENDS RunManager

CONSTANTS
    Versions,   \* sequences of numbers and Junk: what may be published
    Junk,       \* a part of a version that strconv.Atoi refuses
    Size,       \* [Versions -> Nat \ {0}]: blocks of the binary
    Archive,    \* [Versions -> sequence of tar entries]
    MaxEvents   \* bound: publications, failing calls, touches and kills

Entries == {"top", "dir", "link", "node", "other"}

ASSUME UpdaterAssumption ==
    /\ Names = {"run.lock", "node", "other"}
    /\ Versions \subseteq Seq({Junk} \cup Nat)
    /\ Size \in [Versions -> Nat \ {0}]
    /\ Archive \in [Versions -> Seq(Entries)]
    /\ MaxEvents \in Nat

VARIABLES
    pc,         \* the updater's goroutine
    main,       \* the main goroutine
    watch,      \* the goroutine of RunFileManager.Watch
    stop,       \* is ctxMain cancelled
    repo,       \* what the configuration says of the repository
    adv,        \* the version the repository advertises for the branch
    ver,        \* the version of the running image, or of the last one
    got,        \* the version Update is after, or Nil
    at,         \* the next entry of its archive
    input,      \* update/node as InstallAndRestart opened it
    bin,        \* the content of bin/node
    events,     \* environment events so far
    rolledBack, \* has the repository ever gone back to an older version
    tried,      \* has a failed Update of this image left an update/node
    spoiled,    \* what may be wrong with the last install: "cut", "retry"
    caught,     \* was Update under way when somebody called Clean
    kept,       \* has os.RemoveAll failed, and the directory stayed
    killed      \* did the last process end by a kill

vars == <<created, indexed, dir, pc, main, watch, stop, repo, adv, ver, got,
          at, input, bin, events, rolledBack, tried, spoiled, caught, kept, killed>>

Work      == <<got, at, input>>
Processes == <<main, watch, stop>>
World     == <<repo, adv, rolledBack, killed>>
Notes     == <<tried, spoiled, caught, kept>>

Binary(v) == [i \in 1..Size[v] |-> v]
Binaries  == {Binary(v) : v \in Versions}
Prefixes(s) == {SubSeq(s, 1, n) : n \in 0..(Len(s) - 1)}

(* Update between its check of created and the install: where it may still *)
(* make directories, by MkdirAll or by an entry that is a directory.       *)
Making   == {"mkdir", "latest", "fetch", "entry", "setMkdir", "copy"}
Setting  == {"setCheck", "setMkdir", "setCreate", "setIndex", "setStore",
             "open", "copy"}
Unpacking == {"entry"} \cup Setting
Installing == {"install", "create", "copyBin", "clean", "remove", "exec"}
PCs == {"off", "panicked", "sleep", "check", "setDir"}
         \cup Making \cup Setting \cup Installing

----------------------------------------------------------------------------
(* isVersionNewer.                                                         *)
Part(v, i) == IF i \in 1..Len(v) /\ v[i] # Junk THEN v[i] ELSE 0

isVersionNewer(current, latest) ==
    \E i \in 1..(Len(current) + Len(latest)) :
        /\ Part(current, i) < Part(latest, i)
        /\ \A j \in 1..(i - 1) : Part(current, j) = Part(latest, j)

----------------------------------------------------------------------------
Init ==
    /\ RunInit
    /\ pc = "check" /\ main = "serve" /\ watch = "armed" /\ stop = FALSE
    /\ repo \in {"unset", "useless", "ok"}
    /\ adv \in Versions /\ ver \in Versions
    /\ got = Nil /\ at = 0 /\ input = <<>>
    /\ bin = Binary(ver)
    /\ events = 0
    /\ rolledBack = isVersionNewer(adv, ver)
    /\ tried = FALSE /\ spoiled = {} /\ caught = FALSE /\ kept = FALSE
    /\ killed = FALSE

Event == events < MaxEvents /\ events' = events + 1

(* A call that fails: one of the environment's events.                     *)
Fails == Event

Goto(l) == pc' = l /\ UNCHANGED <<Processes, World, ver>>

Step(l) == Goto(l) /\ UNCHANGED <<events, Notes>>

(* Mutant: an error ends the loop.                                         *)
Return_breaks ==
    /\ Goto("off")
    /\ got' = Nil /\ at' = 0 /\ input' = <<>>
    /\ tried' = (tried \/ Holds("node"))

(* Update returns an error, which the loop only logs.                      *)
Return ==
    /\ Goto("sleep")
    /\ got' = Nil /\ at' = 0 /\ input' = <<>>
    /\ tried' = (tried \/ Holds("node"))

GiveUp == Return /\ UNCHANGED <<events, spoiled, caught, kept>>

Error == Return /\ Fails /\ UNCHANGED <<spoiled, caught, kept>>

----------------------------------------------------------------------------
(* CkeckUpdates and the first half of Update.                              *)

(* Mutant: the first line of actual.txt, whatever its branch.              *)
GetLatestVersion_first == IF repo = "ok" THEN Versions ELSE {}

(* A repository without an address, an address of another scheme, a branch *)
(* no line names: never an answer.                                         *)
GetLatestVersion == IF repo = "ok" THEN {adv} ELSE {}

Sleep == pc = "sleep" /\ Step("check") /\ UNCHANGED <<runVars, Work, bin>>

(* repository_url has no default: unset, it is a nil pointer.              *)
CkeckUpdates ==
    /\ pc = "check"
    /\ \/ repo = "unset" /\ Step("panicked") /\ UNCHANGED <<runVars, Work, bin>>
       \/ repo = "useless" /\ GiveUp /\ UNCHANGED <<runVars, bin>>
       \/ repo = "ok" /\ Error /\ UNCHANGED <<runVars, bin>>
       \/ \E v \in GetLatestVersion :
            /\ Step(IF v = ver THEN "sleep" ELSE "setDir")
            /\ UNCHANGED <<runVars, Work, bin>>

(* utils.CatchPanicWithCancel: the loop is over and ctxMain cancelled.     *)
CatchPanicWithCancel ==
    /\ pc = "panicked"
    /\ pc' = "off" /\ stop' = TRUE
    /\ UNCHANGED <<runVars, main, watch, World, ver, Work, bin, events, Notes>>

(* run_manager.SetDir("update"): the check, then MkdirAll.                 *)
SetDirCheck ==
    /\ pc = "setDir"
    /\ UNCHANGED <<runVars, bin>>
    /\ \/ created /\ Step("mkdir") /\ UNCHANGED Work
       \/ ~created /\ GiveUp

SetDirMake ==
    /\ pc = "mkdir"
    /\ UNCHANGED <<created, indexed, bin>>
    /\ \/ Mkdir /\ Step("latest") /\ UNCHANGED Work
       \/ Error /\ UNCHANGED dir

(* actual.txt is fetched again, and its answer need not be that of the     *)
(* check.                                                                  *)
Latest ==
    /\ pc = "latest"
    /\ UNCHANGED <<runVars, bin>>
    /\ \/ \E v \in GetLatestVersion :
            Step("fetch") /\ got' = v /\ UNCHANGED <<at, input>>
       \/ Error

Fetch ==
    /\ pc = "fetch"
    /\ UNCHANGED <<runVars, bin>>
    /\ \/ Step("entry") /\ at' = 1 /\ UNCHANGED <<got, input>>
       \/ Error

----------------------------------------------------------------------------
(* The entries of the archive.                                             *)

AtEnd == at = Len(Archive[got]) + 1
Entry == Archive[got][at]

NextEntry(l) == Step(l) /\ at' = at + 1 /\ UNCHANGED <<got, input>>

(* Mutant: entries of other types are unpacked as files.                   *)
Unpack_anyType ==
    /\ pc = "entry"
    /\ UNCHANGED <<created, indexed, bin>>
    /\ \/ AtEnd /\ Step("install") /\ UNCHANGED <<dir, Work>>
       \/ ~AtEnd /\ Entry = "dir" /\ NextEntry("entry") /\ Mkdir
       \/ ~AtEnd /\ Entry # "dir" /\ Step("setCheck") /\ UNCHANGED <<dir, Work>>

Unpack ==
    /\ pc = "entry"
    /\ UNCHANGED <<created, indexed, bin>>
    /\ \/ AtEnd /\ Step("install") /\ UNCHANGED <<dir, Work>>
       \/ ~AtEnd /\ Entry = "top" /\ NextEntry("entry") /\ UNCHANGED dir
       \/ ~AtEnd /\ Entry = "dir" /\ NextEntry("entry") /\ Mkdir
       \/ ~AtEnd /\ Entry = "link" /\ GiveUp /\ UNCHANGED dir
       \/ /\ ~AtEnd /\ Entry \in Names
          /\ Step("setCheck") /\ UNCHANGED <<dir, Work>>
       \/ Error /\ UNCHANGED dir

(* run_manager.Set, call by call.                                          *)
SetCheck ==
    /\ pc = "setCheck"
    /\ UNCHANGED <<runVars, bin>>
    /\ \/ created /\ Step("setMkdir") /\ UNCHANGED Work
       \/ ~created /\ GiveUp

SetMkdir ==
    /\ pc = "setMkdir"
    /\ UNCHANGED <<created, indexed, bin>>
    /\ \/ Mkdir /\ Step("setCreate") /\ UNCHANGED Work
       \/ Error /\ UNCHANGED dir

SetCreate ==
    /\ pc = "setCreate"
    /\ UNCHANGED <<created, indexed, bin>>
    /\ \/ dir # Nil /\ Create(Entry) /\ Step("setIndex") /\ UNCHANGED Work
       \/ dir = Nil /\ GiveUp /\ UNCHANGED dir
       \/ Error /\ UNCHANGED dir

(* A nil map means that Clean has been called, so that indexPaths errs.     *)
SetIndex ==
    /\ pc = "setIndex"
    /\ UNCHANGED <<created, dir, bin>>
    /\ \/ indexed # Nil /\ Step("setStore") /\ UNCHANGED <<indexed, Work>>
       \/ indexed = Nil /\ GiveUp /\ UNCHANGED indexed

(* A map that has become nil since it was compared: a panic, or a write to *)
(* the map as it was loaded for the comparison.                            *)
SetStore ==
    /\ pc = "setStore"
    /\ UNCHANGED <<created, dir, bin>>
    /\ \/ /\ indexed # Nil /\ indexed' = indexed \cup {Entry}
          /\ Step("open") /\ UNCHANGED Work
       \/ /\ indexed = Nil /\ UNCHANGED <<indexed, Work>>
          /\ Step("panicked") \/ Step("open")

Open ==
    /\ pc = "open"
    /\ Lookup(Entry)
    /\ UNCHANGED <<created, dir, bin>>
    /\ \/ CanOpen(Entry) /\ Step("copy") /\ UNCHANGED Work
       \/ ~CanOpen(Entry) /\ GiveUp

(* Mutant: a download that ends early is taken for whole.                  *)
Copy_short ==
    /\ pc = "copy"
    /\ \E new \in {Binary(got)} \cup Prefixes(Binary(got)) :
         Write(Entry, IF Entry = "node" THEN new ELSE <<>>)
    /\ NextEntry("entry")
    /\ UNCHANGED <<created, indexed, bin>>

(* io.Copy over whatever the file holds; a failure leaves what came first. *)
Copy ==
    /\ pc = "copy"
    /\ LET Written(new) == Write(Entry, IF Entry = "node" THEN new ELSE <<>>)
       IN \/ Written(Binary(got)) /\ NextEntry("entry")
          \/ /\ \E new \in Prefixes(Binary(got)) : Written(new)
             /\ Error
    /\ UNCHANGED <<created, indexed, bin>>

----------------------------------------------------------------------------
(* InstallAndRestart.                                                      *)

Install ==
    /\ pc = "install"
    /\ Lookup("node")
    /\ UNCHANGED <<created, dir, bin>>
    /\ \/ /\ CanOpen("node")
          /\ input' = dir["node"] /\ Step("create") /\ UNCHANGED <<got, at>>
       \/ ~CanOpen("node") /\ GiveUp

CreateBin ==
    /\ pc = "create"
    /\ UNCHANGED runVars
    /\ \/ bin' = <<>> /\ Step("copyBin") /\ UNCHANGED Work
       \/ Error /\ UNCHANGED bin

CopyBin ==
    /\ pc = "copyBin"
    /\ UNCHANGED <<runVars, caught, kept>>
    /\ \/ /\ bin' = input
          /\ spoiled' = IF tried THEN {"retry"} ELSE {}
          /\ Goto("clean") /\ UNCHANGED <<Work, events, tried>>
       \/ /\ bin' \in Prefixes(input)
          /\ spoiled' = {"cut"}
          /\ Return /\ Fails

(* Who calls Clean may meet Update where it still makes directories, or    *)
(* where it makes a file, which os.RemoveAll may pass while it walks.      *)
Cleans == /\ Forget /\ UNCHANGED kept
          /\ caught' = (caught \/ pc \in Making \cup {"setCreate"})

(* The walk may fail, and may miss what an Update it meets has just made:  *)
(* the directory is not empty then.                                        *)
Removes ==
    \/ Remove /\ UNCHANGED <<events, kept>>
    \/ RemoveFails /\ Fails /\ kept' = TRUE
    \/ caught /\ RemoveFails /\ UNCHANGED <<events, kept>>

(* Chmod, then the updater's own Clean.                                    *)
CleanBefore ==
    /\ pc = "clean"
    /\ UNCHANGED <<dir, bin>>
    /\ \/ Cleans /\ Goto("remove") /\ UNCHANGED <<Work, events, tried, spoiled>>
       \/ Error /\ UNCHANGED <<created, indexed>>

RemoveBefore ==
    /\ pc = "remove"
    /\ Removes /\ Goto("exec")
    /\ UNCHANGED <<created, indexed, Work, bin, tried, spoiled, caught>>

(* A new image of version v serves.                                        *)
NewImage(v) ==
    /\ Fresh
    /\ pc' = "check" /\ main' = "serve" /\ watch' = "armed" /\ stop' = FALSE
    /\ ver' = v
    /\ got' = Nil /\ at' = 0 /\ input' = <<>>
    /\ tried' = FALSE /\ caught' = FALSE /\ kept' = FALSE
    /\ UNCHANGED <<repo, adv, rolledBack, bin, spoiled>>

(* The process ends; what it was copying to bin/node stays as it is.       *)
Ended ==
    /\ pc' = "off" /\ main' = "off" /\ watch' = "done" /\ stop' = FALSE
    /\ IF pc = "copyBin"
       THEN bin' \in {input} \cup Prefixes(input) /\ spoiled' = {"cut"}
       ELSE UNCHANGED <<bin, spoiled>>
    /\ got' = Nil /\ at' = 0 /\ input' = <<>>
    /\ created' = FALSE /\ indexed' = Nil /\ tried' = FALSE
    /\ UNCHANGED <<repo, adv, rolledBack, ver, caught, kept>>

(* What is no whole binary is refused, or dies in the place of the node.   *)
(* NodeStart's guard ends the new image if the old directory still stands. *)
Exec ==
    /\ pc = "exec"
    /\ \/ /\ dir = Nil /\ \E v \in Versions : bin = Binary(v) /\ NewImage(v)
          /\ UNCHANGED <<events, killed>>
       \/ dir # Nil /\ bin \in Binaries /\ Ended /\ UNCHANGED <<dir, events, killed>>
       \/ bin \notin Binaries /\ GiveUp /\ UNCHANGED <<runVars, bin>>
       \/ bin \notin Binaries /\ Ended /\ UNCHANGED <<dir, events, killed>>
       \/ Error /\ UNCHANGED <<runVars, bin>>

----------------------------------------------------------------------------
(* The other goroutines.                                                   *)

Others == <<pc, repo, adv, rolledBack, killed, ver, Work, bin, tried, spoiled>>

MainCleans ==
    /\ main = "serve" /\ stop
    /\ Cleans /\ main' = "remove"
    /\ UNCHANGED <<dir, watch, stop, events, Others>>

MainRemoves ==
    /\ main = "remove"
    /\ Removes /\ main' = "exit"
    /\ UNCHANGED <<created, indexed, watch, stop, caught, Others>>

MainExits == main = "exit" /\ Ended /\ UNCHANGED <<dir, events, killed>>

WatchCleans ==
    /\ watch = "armed" /\ ~Holds("run.lock")
    /\ Cleans /\ watch' = "remove"
    /\ UNCHANGED <<dir, main, stop, events, Others>>

WatchRemoves ==
    /\ watch = "remove"
    /\ Removes /\ watch' = "cancel"
    /\ UNCHANGED <<created, indexed, main, stop, caught, Others>>

(* Mutant: the watcher's callback cleans and does not cancel.              *)
WatchCancels_not ==
    /\ watch = "cancel"
    /\ watch' = "done"
    /\ UNCHANGED <<runVars, main, stop, events, caught, kept, Others>>

WatchCancels ==
    /\ watch = "cancel"
    /\ watch' = "done" /\ stop' = TRUE
    /\ UNCHANGED <<runVars, main, events, caught, kept, Others>>

WatchReturns ==
    /\ watch = "armed" /\ stop
    /\ watch' = "done"
    /\ UNCHANGED <<runVars, main, stop, events, caught, kept, Others>>

----------------------------------------------------------------------------
(* The environment.                                                        *)

Beside == <<pc, Processes, ver, Work, bin, Notes, repo, killed>>

Publish(v) ==
    /\ repo = "ok" /\ v # adv /\ Event
    /\ adv' = v
    /\ rolledBack' = (rolledBack \/ isVersionNewer(v, adv))
    /\ UNCHANGED <<runVars, Beside>>

(* run.lock is removed or replaced: the watcher cannot tell these apart.   *)
Touch ==
    /\ main # "off" /\ Holds("run.lock") /\ Event
    /\ dir' = [f \in DOMAIN dir \ {"run.lock"} |-> dir[f]]
    /\ UNCHANGED <<created, indexed, Beside, adv, rolledBack>>

Signal ==
    /\ main # "off" /\ ~stop /\ stop' = TRUE
    /\ UNCHANGED <<runVars, main, watch, events, caught, kept, Others>>

Kill ==
    /\ main # "off" /\ Event
    /\ Ended /\ killed' = TRUE
    /\ UNCHANGED dir

(* NodeStart's guard refuses a node whose old directory is still there.    *)
Boot ==
    /\ main = "off" /\ dir = Nil
    /\ \E v \in Versions : bin = Binary(v) /\ NewImage(v)
    /\ killed' = FALSE
    /\ UNCHANGED events

----------------------------------------------------------------------------
Update ==
    \/ Sleep \/ CkeckUpdates \/ CatchPanicWithCancel
    \/ SetDirCheck \/ SetDirMake \/ Latest \/ Fetch \/ Unpack
    \/ SetCheck \/ SetMkdir \/ SetCreate \/ SetIndex \/ SetStore \/ Open \/ Copy
    \/ Install \/ CreateBin \/ CopyBin \/ CleanBefore \/ RemoveBefore \/ Exec

Main == MainCleans \/ MainRemoves \/ MainExits

Watcher == WatchCleans \/ WatchRemoves \/ WatchCancels \/ WatchReturns

Environment ==
    (\E v \in Versions : Publish(v)) \/ Touch \/ Signal \/ Kill \/ Boot

Next == Update \/ Main \/ Watcher \/ Environment

(* Update waits for the repository, for an answer or for the next bytes of *)
(* the archive: http.Get has no timeout, and the answer need not come.     *)
Awaits == \/ pc = "check" /\ repo = "ok"
          \/ pc \in {"latest", "fetch", "entry", "copy"}

(* The goroutines are scheduled; the environment owes nothing.             *)
Fairness ==
    WF_vars(~Awaits /\ Update) /\ WF_vars(Main) /\ WF_vars(Watcher)

Spec == Init /\ [][Next]_vars /\ Fairness

----------------------------------------------------------------------------
TypeOK ==
    /\ created \in BOOLEAN
    /\ indexed = Nil \/ indexed \subseteq Names
    /\ dir = Nil \/ (DOMAIN dir \subseteq Names
                       /\ \A f \in DOMAIN dir : dir[f] \in Seq(Versions))
    /\ pc \in PCs
    /\ main \in {"serve", "remove", "exit", "off"}
    /\ watch \in {"armed", "remove", "cancel", "done"}
    /\ stop \in BOOLEAN
    /\ adv \in Versions /\ ver \in Versions
    /\ pc \in {"fetch"} \cup Unpacking \cup Installing => got \in Versions
    /\ pc \in Setting => ~AtEnd /\ Entry \in Names
    /\ input \in Seq(Versions) /\ bin \in Seq(Versions)
    /\ events \in 0..MaxEvents
    /\ spoiled \subseteq {"cut", "retry"}

(* There is a binary to start the node from, of one version and whole,     *)
(* unless it is being written, or the last install was cut off, or that    *)
(* install followed an attempt that had failed in the same image: an       *)
(* update at its first attempt never leaves anything else in bin/node.     *)
BinExplained == bin \in Binaries \/ pc = "copyBin" \/ spoiled # {}

(* The node goes to an older version only if the repository did, though    *)
(* the two fetches of actual.txt may differ and any difference counts as   *)
(* an update.                                                              *)
NoDowngrade == [][isVersionNewer(ver', ver) => rolledBack]_vars

(* The runtime directory of a node that has ended is left behind, where it *)
(* refuses the next start, only by a kill, by an os.RemoveAll that failed, *)
(* or by an Update that was before its install when Clean was called.      *)
OrphanExplained == (main = "off" /\ dir # Nil) => (killed \/ caught \/ kept)

(* The updater panics only for want of a repository_url or in a node that  *)
(* somebody has cleaned, and which ends anyway.                            *)
PanicExplained == pc = "panicked" => (repo = "unset" \/ ~created)

(* A node that has been cleaned and does not see it: os.RemoveAll has left *)
(* run.lock, and neither a cancelled context nor the watcher ends the node.*)
Stranded == ~created /\ kept /\ Holds("run.lock") /\ main = "serve" /\ ~stop

(* A node whose directory has been cleaned, by whomever, ends or is        *)
(* replaced, even if the updater's exec fails, or it panics, or the        *)
(* repository never answers, unless it is stranded for ever.               *)
CleanedEnds == ~created ~> (created \/ main = "off" \/ []Stranded)

(* An archive that can be installed.                                       *)
Complete(v) == \E i \in 1..Len(Archive[v]) :
                  /\ Archive[v][i] = "node"
                  /\ \A j \in 1..Len(Archive[v]) : Archive[v][j] # "link"

(* A running node comes to the version advertised, or ends, or the         *)
(* repository has no complete archive of it, or leaves a request without   *)
(* an answer for ever, or the node is stranded: failed attempts are        *)
(* repeated.                                                               *)
Converges ==
    (main # "off" /\ repo = "ok" /\ Complete(adv))
        ~> (main = "off" \/ ver = adv \/ ~Complete(adv) \/ []Awaits \/ []Stranded)
=============================================================================
