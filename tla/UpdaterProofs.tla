--------------------------- MODULE UpdaterProofs ---------------------------
(***************************************************************************)
(* What the races of the updater with Clean can come to, what an update    *)
(* leaves in bin/node and which version a node comes to, for any versions, *)
(* archives and numbers of events.                                         *)
(***************************************************************************)
EXTENDS Updater, WellFoundedInduction, TLAPS

(* The names in the map and in the directory, and of the entry being set.  *)
Named == /\ indexed = Nil \/ indexed \subseteq Names
         /\ dir = Nil \/ DOMAIN dir \subseteq Names
         /\ pc \in Setting => Entry \in Names

(* A map of paths is there exactly in an image that nobody has cleaned.    *)
MapThere == created \in BOOLEAN /\ (created <=> indexed # Nil)

(* Who is past a Clean is in a cleaned image.                              *)
PastClean ==
    (main \in {"remove", "exit"} \/ pc \in {"remove", "exec"}) => ~created

(* Only an Update that was met by Clean is where it makes directories.     *)
Met == (~created /\ pc \in Making) => caught

(* What has been removed is gone, unless such an Update has made it anew,  *)
(* or the removal failed.                                                  *)
Gone == ((pc = "exec" \/ main = "exit") /\ dir # Nil) => (caught \/ kept)

Still == main = "off" => pc = "off"

Inv == /\ Named /\ MapThere /\ PastClean /\ Met /\ Gone /\ Still
       /\ PanicExplained /\ OrphanExplained

(* A removal leaves at most files that were there, and that is explained.  *)
LEMMA Removal ==
  ASSUME Removes
  PROVE  /\ dir' # Nil =>
              /\ dir # Nil
              /\ \A f \in DOMAIN dir' : f \in DOMAIN dir /\ dir'[f] = dir[f]
              /\ kept' \/ caught
         /\ kept => kept'
  BY DEF Removes, Remove, RemoveFails

(* Main and the watcher.                                                   *)
LEMMA OthersKeep == ASSUME Inv, Main \/ Watcher PROVE Inv'
<1>. USE DEF Inv, Named, MapThere, PastClean, Met, Gone, Still,
             PanicExplained, OrphanExplained, Making, Setting, Entry
<1>1. CASE MainCleans \/ WatchCleans
  BY <1>1, NilAssumption DEF MainCleans, WatchCleans, Cleans, Forget, Others, Work
<1>2. CASE MainRemoves \/ WatchRemoves
  <2>1. UNCHANGED <<created, indexed, pc, repo, Work, caught, killed>>
    BY <1>2 DEF MainRemoves, WatchRemoves, Others
  <2>2. DOMAIN dir' \subseteq DOMAIN dir \/ dir' = Nil
    BY <1>2, Removal DEF MainRemoves, WatchRemoves
  <2>3. /\ dir' # Nil => dir # Nil /\ (kept' \/ caught)
        /\ kept => kept'
    BY <1>2, Removal DEF MainRemoves, WatchRemoves
  <2>4. \/ main = "remove" /\ main' = "exit"
        \/ main' = main
    BY <1>2 DEF MainRemoves, WatchRemoves
  <2>5. QED
    BY <2>1, <2>2, <2>3, <2>4 DEF Work
<1>3. CASE MainExits
  BY <1>3 DEF MainExits, Ended
<1>4. CASE WatchCancels \/ WatchReturns
  BY <1>4 DEF WatchCancels, WatchReturns, Others, Work, runVars
<1>5. QED
  BY <1>1, <1>2, <1>3, <1>4 DEF Main, Watcher

(* A new image has its map and its directory.                              *)
LEMMA ImageKeeps ==
    ASSUME NEW v, NewImage(v) PROVE Inv'
<1>1. /\ indexed' # Nil /\ indexed' \subseteq Names
      /\ dir' = OnlyLock
  BY NilAssumption, UpdaterAssumption DEF NewImage, Fresh
<1>2. DOMAIN dir' \subseteq Names
  BY <1>1, UpdaterAssumption DEF OnlyLock
<1>3. QED
  BY <1>1, <1>2 DEF NewImage, Fresh, Inv, Named, MapThere, PastClean, Met, Gone,
        Still, PanicExplained, OrphanExplained, Making, Setting

(* The environment.                                                        *)
LEMMA EnvironmentKeeps == ASSUME Inv, Environment PROVE Inv'
<1>1. CASE Boot
  BY <1>1, ImageKeeps DEF Boot
<1>. USE DEF Inv, Named, MapThere, PastClean, Met, Gone, Still,
             PanicExplained, OrphanExplained, Making, Setting, Entry
<1>2. ASSUME NEW v \in Versions, Publish(v) PROVE Inv'
  BY <1>2 DEF Publish, Beside, Work, Notes, Processes, runVars
<1>3. CASE Touch
  <2>1. /\ UNCHANGED <<created, indexed, Beside>>
        /\ dir # Nil /\ DOMAIN dir' \subseteq DOMAIN dir
        /\ main # "off"
    BY <1>3 DEF Touch, Holds
  <2>2. QED
    BY <2>1 DEF Beside, Work, Notes, Processes, runVars
<1>4. CASE Signal
  BY <1>4 DEF Signal, Others, Work, runVars
<1>5. CASE Kill
  BY <1>5 DEF Kill, Ended
<1>6. QED
  BY <1>1, <1>2, <1>3, <1>4, <1>5 DEF Environment

(* The updater's goroutine.                                                *)
LEMMA UpdateKeeps == ASSUME Inv, Update PROVE Inv'
<1>1. CASE Exec
  <2>1. ASSUME NEW v, NewImage(v) PROVE Inv'
    BY <2>1, ImageKeeps
  <2>2. CASE Ended /\ UNCHANGED <<dir, killed>>
    BY <1>1, <2>2 DEF Ended, Exec, Inv, Named, MapThere, PastClean, Met, Gone,
       Still, PanicExplained, OrphanExplained, Making, Setting
  <2>3. CASE Return /\ UNCHANGED <<runVars, caught, kept>>
    BY <1>1, <2>3 DEF Exec, Return, Goto, runVars, Processes, World, Inv, Named,
       MapThere, PastClean, Met, Gone, Still, PanicExplained, OrphanExplained,
       Making, Setting
  <2>4. QED
    BY <1>1, <2>1, <2>2, <2>3 DEF Exec, GiveUp, Error
<1>. USE DEF Inv, Named, MapThere, PastClean, Met, Gone, Still,
             PanicExplained, OrphanExplained, Making, Setting, Entry
<1>. USE DEF Step, Goto, GiveUp, Error, Return, Processes, World, Work, Notes, runVars
<1>2. CASE Sleep \/ CkeckUpdates \/ CatchPanicWithCancel
  BY <1>2 DEF Sleep, CkeckUpdates, CatchPanicWithCancel
<1>3. CASE SetDirCheck \/ Latest \/ Fetch \/ SetCheck \/ SetIndex
  BY <1>3 DEF SetDirCheck, Latest, Fetch, SetCheck, SetIndex
<1>4. CASE SetDirMake \/ SetMkdir
  BY <1>4 DEF SetDirMake, SetMkdir, Mkdir
<1>5. CASE Unpack
  BY <1>5 DEF Unpack, Mkdir, NextEntry
<1>6. CASE SetCreate
  BY <1>6 DEF SetCreate, Create
<1>7. CASE SetStore
  BY <1>7, NilAssumption DEF SetStore
<1>8. CASE Open \/ Install
  BY <1>8, NilAssumption DEF Open, Install, CanOpen, Lookup, Walked, Indexed
<1>9. CASE Copy
  <2>1. ASSUME NEW f, NEW new, Write(f, new)
        PROVE  dir' # Nil => dir # Nil /\ DOMAIN dir' = DOMAIN dir
    BY <2>1 DEF Write, Holds
  <2>2. QED
    BY <1>9, <2>1 DEF Copy, NextEntry
<1>10. CASE CreateBin \/ CopyBin
  BY <1>10 DEF CreateBin, CopyBin
<1>11. CASE CleanBefore
  <2>1. CASE Cleans /\ Goto("remove") /\ UNCHANGED dir
    BY <2>1, <1>11 DEF CleanBefore, Cleans, Forget
  <2>2. CASE Error /\ UNCHANGED <<created, indexed, dir>>
    BY <2>2, <1>11 DEF CleanBefore
  <2>3. QED
    BY <1>11, <2>1, <2>2 DEF CleanBefore
<1>12. CASE RemoveBefore
  <2>1. UNCHANGED <<created, indexed, main, repo, Work, caught, killed>>
    BY <1>12 DEF RemoveBefore
  <2>2. DOMAIN dir' \subseteq DOMAIN dir \/ dir' = Nil
    BY <1>12, Removal DEF RemoveBefore
  <2>3. /\ dir' # Nil => dir # Nil /\ (kept' \/ caught)
        /\ kept => kept'
    BY <1>12, Removal DEF RemoveBefore
  <2>4. pc = "remove" /\ pc' = "exec"
    BY <1>12 DEF RemoveBefore
  <2>5. QED
    BY <2>1, <2>2, <2>3, <2>4
<1>13. QED
  BY <1>1, <1>2, <1>3, <1>4, <1>5, <1>6, <1>7, <1>8, <1>9, <1>10, <1>11, <1>12 DEF Update

LEMMA Invariance == Spec => []Inv
<1>1. Init => Inv
  BY NilAssumption, UpdaterAssumption DEF Init, RunInit, OnlyLock, Inv, Named, MapThere, PastClean, Met,
     Gone, Still, PanicExplained, OrphanExplained, Making, Setting
<1>2. Inv /\ UNCHANGED vars => Inv'
  BY DEF vars, Inv, Named, MapThere, PastClean, Met,
     Gone, Still, PanicExplained, OrphanExplained, Making, Setting, Entry
<1>3. Inv /\ [Next]_vars => Inv'
  BY <1>2, OthersKeep, EnvironmentKeeps, UpdateKeeps DEF Next
<1>4. QED
  BY <1>1, <1>3, PTL DEF Spec

(* The updater panics only for want of a repository_url or in a node that  *)
(* somebody has cleaned, however Set and Clean interleave.                 *)
THEOREM PanicsExplained == Spec => []PanicExplained
<1>1. Inv => PanicExplained
  BY DEF Inv
<1>2. QED
  BY <1>1, Invariance, PTL

(* A directory outlives its node only by a kill, by a removal that failed, *)
(* or by an Update that was making directories when Clean was called: no   *)
(* other interleaving of main, watcher and updater leaves one behind.      *)
THEOREM OrphansExplained == Spec => []OrphanExplained
<1>1. Inv => OrphanExplained
  BY DEF Inv
<1>2. QED
  BY <1>1, Invariance, PTL
-----------------------------------------------------------------------------
(* What is installed: at a first attempt the update/node of a version is   *)
(* either empty, because it is just being stored, or the whole binary.     *)

Placing == {"setIndex", "setStore", "open", "copy"}
Before  == {"sleep", "check", "setDir", "mkdir", "latest", "fetch"}

Whole ==
    (~tried /\ pc \notin {"off", "panicked"} /\ Holds("node")) =>
        /\ pc \notin Before
        /\ \/ dir["node"] = Binary(got)
           \/ dir["node"] = <<>> /\ pc \in Placing /\ Entry = "node"

Taken == (~tried /\ pc \in {"create", "copyBin"}) => input = Binary(got)

Getting ==
    /\ adv \in Versions /\ tried \in BOOLEAN
    /\ pc \in {"fetch"} \cup Unpacking \cup Installing => got \in Versions

BInv == Getting /\ Whole /\ Taken /\ BinExplained

(* A copy over nothing, or over the same binary, leaves that binary.       *)
LEMMA OverlaidWhole ==
  ASSUME NEW v \in Versions, NEW old \in {<<>>, Binary(v)}
  PROVE  Overlay(Binary(v), old) = Binary(v)
<1>. DEFINE b == Binary(v)
<1>1. Size[v] \in Nat /\ Size[v] # 0
  BY UpdaterAssumption
<1>2. b \in Seq(Versions) /\ Len(b) = Size[v]
  BY <1>1 DEF Binary
<1>. HIDE DEF b
<1>3. SubSeq(b, Len(b) + 1, Len(b)) = <<>>
  BY <1>1, <1>2
<1>4. SubSeq(<<>>, Len(b) + 1, Len(<<>>)) = <<>>
  BY <1>1, <1>2
<1>5. b \o <<>> = b
  BY <1>2
<1>6. QED
  BY <1>3, <1>4, <1>5 DEF Overlay, b

(* The other goroutines and the environment at most take the directory     *)
(* away, or run.lock out of it.                                            *)
LEMMA BesideKeeps ==
  ASSUME BInv, adv' \in Versions,
         UNCHANGED <<pc, tried, got, at, input, bin, spoiled>>,
         Holds("node")' => Holds("node") /\ dir'["node"] = dir["node"]
  PROVE  BInv'
  BY DEF BInv, Getting, Whole, Taken, BinExplained, Entry, Making, Setting,
         Unpacking, Installing

LEMMA EndedKeeps == ASSUME BInv, Ended PROVE BInv'
  BY DEF BInv, Getting, Whole, Taken, BinExplained, Ended, Making, Setting,
         Unpacking, Installing

LEMMA NewImageKeeps ==
  ASSUME BInv, NEW v \in Versions, bin = Binary(v), NewImage(v) PROVE BInv'
<1>1. ~Holds("node")'
  BY DEF NewImage, Fresh, OnlyLock, Holds
<1>2. QED
  BY <1>1 DEF BInv, Getting, Whole, Taken, BinExplained, NewImage, Making,
     Setting, Unpacking, Installing, Binaries

LEMMA EnvironmentLeavesWhole == ASSUME BInv, Environment PROVE BInv'
<1>1. CASE Boot
  BY <1>1, NewImageKeeps DEF Boot
<1>2. ASSUME NEW v \in Versions, Publish(v) PROVE BInv'
  BY <1>2, BesideKeeps DEF Publish, Beside, Work, Notes, runVars, Holds
<1>3. CASE Touch
  BY <1>3, BesideKeeps DEF Touch, Beside, Work, Notes, Holds, BInv, Getting
<1>4. CASE Signal
  BY <1>4, BesideKeeps DEF Signal, Others, Work, runVars, Holds, BInv, Getting
<1>5. CASE Kill
  BY <1>5, EndedKeeps DEF Kill
<1>6. QED
  BY <1>1, <1>2, <1>3, <1>4, <1>5 DEF Environment

LEMMA OthersLeaveWhole == ASSUME BInv, Main \/ Watcher PROVE BInv'
<1>1. CASE MainCleans \/ WatchCleans \/ WatchCancels \/ WatchReturns
  BY <1>1, BesideKeeps DEF MainCleans, WatchCleans, WatchCancels, WatchReturns,
     Others, Work, runVars, Holds, BInv, Getting
<1>2. CASE MainRemoves \/ WatchRemoves
  BY <1>2, Removal, BesideKeeps
     DEF MainRemoves, WatchRemoves, Others, Work, Holds, BInv, Getting
<1>3. CASE MainExits
  BY <1>3, EndedKeeps DEF MainExits
<1>4. QED
  BY <1>1, <1>2, <1>3 DEF Main, Watcher

LEMMA UpdateLeavesWhole == ASSUME Inv, BInv, Update PROVE BInv'
<1>. USE DEF Making, Setting, Unpacking, Installing, Before, Placing
(* A step of the updater that leaves bin/node alone.                       *)
<1>1. ASSUME NEW l, Step(l), bin' = bin, pc # "copyBin", l \notin Before,
             l \notin {"create", "copyBin"}, got' = got,
             l \in Unpacking \cup Installing => got \in Versions,
             (~tried /\ Holds("node")') =>
               \/ dir'["node"] = Binary(got)
               \/ dir'["node"] = <<>> /\ l \in Placing /\ Entry' = "node"
      PROVE  BInv'
  BY <1>1 DEF BInv, Getting, Whole, Taken, BinExplained, Step, Goto, World, Notes
<1>2. ASSUME NEW l, Step(l), bin' = bin, pc \in Before, l \in Before,
             l = "fetch" => got' \in Versions,
             Holds("node")' => Holds("node")
      PROVE  BInv'
  BY <1>2 DEF BInv, Getting, Whole, Taken, BinExplained, Step, Goto, World, Notes
<1>3. ASSUME Return, Holds("node")' => Holds("node"),
             \/ bin' = bin /\ spoiled' = spoiled /\ pc # "copyBin"
             \/ spoiled' # {}
      PROVE  BInv'
  BY <1>3 DEF BInv, Getting, Whole, Taken, BinExplained, Return, Goto, World
<1>4. ASSUME dir' = dir, bin' = bin, pc # "copyBin", GiveUp \/ Error PROVE BInv'
  BY <1>3, <1>4 DEF GiveUp, Error, Holds
<1>5. CASE Sleep \/ CkeckUpdates
  <2>1. CASE Step("panicked") /\ UNCHANGED <<runVars, Work, bin>>
    BY <1>1, <1>5, <2>1 DEF Sleep, CkeckUpdates, Work, runVars, BInv, Whole, Holds
  <2>2. ASSUME NEW l \in {"sleep", "check", "setDir"}, Step(l),
               UNCHANGED <<runVars, Work, bin>>
        PROVE  BInv'
    BY <1>2, <1>5, <2>2 DEF Sleep, CkeckUpdates, Work, runVars, Holds
  <2>3. QED
    BY <1>4, <1>5, <2>1, <2>2 DEF Sleep, CkeckUpdates, runVars
<1>6. CASE CatchPanicWithCancel
  BY <1>6 DEF CatchPanicWithCancel, BInv, Getting, Whole, Taken, BinExplained,
     runVars, Work, Notes, World
<1>7. CASE SetDirCheck \/ SetDirMake
  BY <1>2, <1>4, <1>7 DEF SetDirCheck, SetDirMake, Mkdir, runVars, Work, Holds
<1>8. CASE Latest
  BY <1>2, <1>4, <1>8 DEF Latest, GetLatestVersion, runVars, Holds, BInv, Getting
<1>9. CASE Fetch
  BY <1>1, <1>4, <1>9 DEF Fetch, runVars, Holds, BInv, Getting, Whole
<1>10. CASE Unpack
  BY <1>1, <1>4, <1>10 DEF Unpack, Mkdir, NextEntry, Work, Holds, BInv, Getting,
     Whole
<1>11. CASE SetCheck \/ SetMkdir
  BY <1>1, <1>4, <1>11 DEF SetCheck, SetMkdir, Mkdir, runVars, Work, Holds, BInv,
     Getting, Whole
<1>12. CASE SetCreate
  <2>1. ASSUME Create(Entry), Step("setIndex"), UNCHANGED Work
        PROVE  (~tried /\ Holds("node")') =>
                 \/ dir'["node"] = Binary(got)
                 \/ dir'["node"] = <<>> /\ Entry' = "node"
    BY <1>12, <2>1 DEF SetCreate, Create, Holds, BInv, Whole, Work, Entry
  <2>2. QED
    BY <1>1, <1>4, <1>12, <2>1 DEF SetCreate, Work, BInv, Getting
<1>13. CASE SetIndex \/ SetStore \/ Open
  <2>1. ASSUME NEW l \in {"setStore", "open", "copy", "panicked"}, Step(l),
               pc \in Placing, dir' = dir, bin' = bin, UNCHANGED Work
        PROVE  BInv'
    <3>1. got' = got /\ Entry' = Entry /\ (Holds("node")' <=> Holds("node"))
      BY <2>1 DEF Work, Entry, Holds
    <3>2. got \in Versions
      BY <2>1 DEF BInv, Getting
    <3>3. ASSUME ~tried, Holds("node")
          PROVE  \/ dir["node"] = Binary(got)
                 \/ dir["node"] = <<>> /\ Entry = "node"
      BY <2>1, <3>3 DEF BInv, Whole
    <3>4. CASE l = "panicked"
      BY <2>1, <3>1, <3>2, <3>4 DEF BInv, Getting, Whole, Taken, BinExplained,
         Step, Goto, World, Notes
    <3>5. CASE l # "panicked"
      BY <1>1, <2>1, <3>1, <3>2, <3>3, <3>5
    <3>6. QED
      BY <3>4, <3>5
  <2>2. CASE SetIndex
    BY <1>4, <2>1, <2>2 DEF SetIndex
  <2>3. CASE SetStore
    BY <2>1, <2>3 DEF SetStore
  <2>4. CASE Open
    BY <1>4, <2>1, <2>4 DEF Open
  <2>5. QED
    BY <1>13, <2>2, <2>3, <2>4
<1>14. CASE Copy
  <2>1. ASSUME NEW f, NEW new, Write(f, new) PROVE Holds("node")' => Holds("node")
    BY <2>1 DEF Write, Holds
  <2>2. CASE Error /\ UNCHANGED bin
    BY <1>3, <1>14, <2>1, <2>2 DEF Copy, Error
  <2>3. CASE NextEntry("entry") /\ UNCHANGED bin
             /\ Write(Entry, IF Entry = "node" THEN Binary(got) ELSE <<>>)
    <3>1. got \in Versions
      BY <1>14 DEF Copy, BInv, Getting
    <3>2. ASSUME ~tried, Holds("node")' PROVE dir'["node"] = Binary(got)
      <4>1. Holds("node")
        BY <2>1, <2>3, <3>2
      <4>2. \/ dir["node"] = Binary(got)
            \/ dir["node"] = <<>> /\ Entry = "node"
        BY <1>14, <3>2, <4>1 DEF Copy, BInv, Whole
      <4>3. CASE Entry = "node"
        <5>1. dir' = [dir EXCEPT !["node"] = Overlay(Binary(got), dir["node"])]
          BY <2>3, <4>1, <4>3 DEF Write
        <5>2. Overlay(Binary(got), dir["node"]) = Binary(got)
          BY <3>1, <4>2, OverlaidWhole
        <5>3. QED
          BY <4>1, <5>1, <5>2 DEF Holds
      <4>4. CASE Entry # "node"
        BY <2>3, <4>1, <4>2, <4>4 DEF Write, Holds
      <4>5. QED
        BY <4>3, <4>4
    <3>3. QED
      BY <1>1, <1>14, <2>3, <3>1, <3>2 DEF Copy, NextEntry
  <2>4. QED
    BY <1>14, <2>2, <2>3 DEF Copy
<1>15. CASE Install
  <2>1. CASE CanOpen("node") /\ input' = dir["node"] /\ Step("create")
             /\ UNCHANGED <<got, at, dir, bin>>
    BY <1>15, <2>1 DEF Install, CanOpen, Holds, Step, Goto, World, Notes, BInv,
       Getting, Whole, Taken, BinExplained, Entry
  <2>2. QED
    BY <1>4, <1>15, <2>1 DEF Install
<1>16. CASE CreateBin
  <2>1. CASE bin' = <<>> /\ Step("copyBin") /\ UNCHANGED <<Work, runVars>>
    BY <1>16, <2>1 DEF CreateBin, Holds, Step, Goto, World, Notes, Work, runVars,
       BInv, Getting, Whole, Taken, BinExplained, Entry
  <2>2. QED
    BY <1>4, <1>16, <2>1 DEF CreateBin, runVars
<1>17. CASE CopyBin
  <2>1. CASE Return /\ spoiled' = {"cut"}
    BY <1>3, <1>17, <2>1 DEF CopyBin, runVars, Holds
  <2>2. CASE /\ bin' = input /\ Goto("clean") /\ UNCHANGED <<Work, tried, dir>>
             /\ spoiled' = IF tried THEN {"retry"} ELSE {}
    <3>1. got \in Versions /\ (~tried => bin' \in Binaries)
      BY <1>17, <2>2 DEF CopyBin, BInv, Getting, Taken, Binaries
    <3>2. QED
      BY <1>17, <2>2, <3>1 DEF CopyBin, Goto, World, Work, Holds, BInv, Getting,
         Whole, Taken, BinExplained, Entry
  <2>3. QED
    BY <1>17, <2>1, <2>2 DEF CopyBin, runVars
<1>18. CASE CleanBefore
  <2>1. CASE Goto("remove") /\ UNCHANGED <<Work, tried, spoiled, dir, bin>>
    BY <1>18, <2>1 DEF CleanBefore, Goto, World, Work, Holds, BInv, Getting, Whole,
       Taken, BinExplained, Entry
  <2>2. QED
    BY <1>4, <1>18, <2>1 DEF CleanBefore
<1>19. CASE RemoveBefore
  <2>1. Holds("node")' => Holds("node") /\ dir'["node"] = dir["node"]
    BY <1>19, Removal DEF RemoveBefore, Holds
  <2>2. QED
    BY <1>19, <2>1 DEF RemoveBefore, Goto, World, Work, BInv, Getting, Whole,
       Taken, BinExplained, Entry
<1>20. CASE Exec
  BY <1>4, <1>20, EndedKeeps, NewImageKeeps DEF Exec, runVars
<1>21. QED
  BY <1>5, <1>6, <1>7, <1>8, <1>9, <1>10, <1>11, <1>12, <1>13, <1>14, <1>15,
     <1>16, <1>17, <1>18, <1>19, <1>20 DEF Update

(* However downloads fail, nodes end and updates are repeated: bin/node is *)
(* a whole binary unless it is being written, the last install was cut off *)
(* or it came after a failed attempt of the same image.                    *)
THEOREM BinsExplained == Spec => []BinExplained
<1>1. Init => BInv
  BY DEF Init, RunInit, OnlyLock, Holds, BInv, Getting, Whole, Taken, BinExplained,
         Binaries, Making, Setting, Unpacking, Installing
<1>2. BInv /\ UNCHANGED vars => BInv'
  BY DEF vars, BInv, Getting, Whole, Taken, BinExplained, Holds, Entry
<1>3. Inv /\ BInv /\ [Next]_vars => BInv'
  BY <1>2, OthersLeaveWhole, EnvironmentLeavesWhole, UpdateLeavesWhole DEF Next
<1>4. BInv => BinExplained
  BY DEF BInv
<1>5. QED
  BY <1>1, <1>3, <1>4, Invariance, PTL DEF Spec
-----------------------------------------------------------------------------
(* isVersionNewer orders versions by the first part in which they differ.  *)

LEMMA LeastOf ==
  ASSUME NEW T, T \subseteq Nat, T # {}
  PROVE  \E x \in T : \A y \in T : x <= y
<1>1. \E x \in T : \A y \in T : ~ (<<y, x>> \in OpToRel(<, Nat))
  BY NatLessThanWellFounded, WFMin
<1>2. PICK x \in T : \A y \in T : ~ (<<y, x>> \in OpToRel(<, Nat))
  BY <1>1
<1>3. \A y \in T : ~ (y < x)
  BY <1>2 DEF OpToRel
<1>4. QED
  BY <1>3

LEMMA Parts ==
  ASSUME NEW v \in Versions, NEW i \in Nat
  PROVE  Part(v, i) \in Nat /\ (Part(v, i) # 0 => i \in 1..Len(v))
<1>1. v \in Seq({Junk} \cup Nat)
  BY UpdaterAssumption
<1>2. i \in 1..Len(v) => v[i] \in {Junk} \cup Nat
  BY <1>1
<1>3. QED
  BY <1>2 DEF Part

LEMMA FirstDifference ==
  ASSUME NEW a \in Versions, NEW b \in Versions, NEW i \in Nat \ {0},
         Part(a, i) < Part(b, i), \A j \in 1..(i - 1) : Part(a, j) = Part(b, j)
  PROVE  isVersionNewer(a, b)
<1>1. i \in 1..Len(b)
  BY Parts
<1>2. Len(a) \in Nat /\ Len(b) \in Nat
  BY UpdaterAssumption
<1>3. QED
  BY <1>1, <1>2 DEF isVersionNewer

(* If c is newer than a, any version between them is newer than a, or      *)
(* older than c.                                                           *)
LEMMA NewerIsWeakOrder ==
  ASSUME NEW a \in Versions, NEW b \in Versions, NEW c \in Versions,
         isVersionNewer(a, c)
  PROVE  isVersionNewer(a, b) \/ isVersionNewer(b, c)
<1>1. Len(a) \in Nat /\ Len(c) \in Nat
  BY UpdaterAssumption
<1>2. PICK i \in Nat \ {0} : /\ Part(a, i) < Part(c, i)
                             /\ \A j \in 1..(i - 1) : Part(a, j) = Part(c, j)
  BY <1>1 DEF isVersionNewer
<1>. DEFINE T == {j \in 1..i : Part(a, j) # Part(b, j) \/ j = i}
<1>3. PICK k \in T : \A j \in T : k <= j
  <2>1. T \subseteq Nat /\ i \in T
    OBVIOUS
  <2>2. QED
    BY <2>1, LeastOf
<1>4. k \in Nat \ {0} /\ k <= i /\ i \in Nat
  BY <1>3
<1>5. \A j \in 1..(k - 1) : Part(a, j) = Part(b, j)
  <2>1. ASSUME NEW j \in 1..(k - 1) PROVE Part(a, j) = Part(b, j)
    <3>1. j \in 1..i /\ ~(k <= j)
      BY <1>4, <2>1
    <3>2. j \notin T
      BY <1>3, <3>1
    <3>3. QED
      BY <3>1, <3>2
  <2>2. QED
    BY <2>1
<1>6. \A j \in 1..(k - 1) : Part(b, j) = Part(c, j)
  BY <1>2, <1>4, <1>5
<1>7. Part(a, k) \in Nat /\ Part(b, k) \in Nat /\ Part(c, k) \in Nat
  BY <1>4, Parts
<1>8. CASE Part(a, k) < Part(b, k)
  BY <1>4, <1>5, <1>8, FirstDifference
<1>9. CASE Part(b, k) < Part(c, k)
  BY <1>4, <1>6, <1>9, FirstDifference
<1>10. Part(a, k) < Part(b, k) \/ Part(b, k) < Part(c, k)
  <2>1. CASE k = i
    BY <1>2, <1>7, <2>1
  <2>2. CASE k # i
    <3>1. Part(a, k) # Part(b, k) /\ Part(a, k) = Part(c, k)
      BY <1>2, <1>3, <1>4, <2>2
    <3>2. QED
      BY <1>7, <3>1
  <2>3. QED
    BY <2>1, <2>2
<1>11. QED
  BY <1>8, <1>9, <1>10

LEMMA NeverNewerThanItself ==
  ASSUME NEW v \in Versions PROVE ~isVersionNewer(v, v)
<1>1. Len(v) \in Nat
  BY UpdaterAssumption
<1>2. \A i \in Nat : Part(v, i) \in Nat
  BY Parts
<1>3. QED
  BY <1>1, <1>2 DEF isVersionNewer

(* What a node may come to: while the repository has not gone back, what   *)
(* is neither older than the node nor newer than what is advertised.       *)
Kept == {v \in Versions :
           ~rolledBack => ~isVersionNewer(v, ver) /\ ~isVersionNewer(adv, v)}

Spans ==
    /\ ver \in Versions /\ adv \in Versions
    /\ ~rolledBack => ~isVersionNewer(adv, ver)
    /\ bin \in Seq(Kept) /\ input \in Seq(Kept)
    /\ dir # Nil => \A f \in DOMAIN dir : dir[f] \in Seq(Kept)
    /\ pc \in {"fetch"} \cup Unpacking \cup Installing => got \in Kept

LEMMA BinaryType ==
  ASSUME NEW S, NEW v \in Versions
  PROVE  /\ v \in S => Binary(v) \in Seq(S)
         /\ Binary(v) \in Seq(S) => v \in S
<1>1. Size[v] \in Nat /\ Size[v] # 0
  BY UpdaterAssumption
<1>2. v \in S => Binary(v) \in Seq(S)
  BY <1>1 DEF Binary
<1>3. ASSUME Binary(v) \in Seq(S) PROVE v \in S
  <2>1. 1 \in DOMAIN Binary(v) /\ Binary(v)[1] = v
    BY <1>1 DEF Binary
  <2>2. QED
    BY <1>3, <2>1
<1>4. QED
  BY <1>2, <1>3

LEMMA PrefixType ==
  ASSUME NEW S, NEW s \in Seq(S), NEW t \in Prefixes(s) PROVE t \in Seq(S)
<1>1. PICK n \in 0..(Len(s) - 1) : t = SubSeq(s, 1, n)
  BY DEF Prefixes
<1>2. \A i \in 1..n : s[i] \in S
  BY <1>1
<1>3. QED
  BY <1>1, <1>2

LEMMA OverlayType ==
  ASSUME NEW S, NEW new \in Seq(S), NEW old \in Seq(S)
  PROVE  Overlay(new, old) \in Seq(S)
<1>1. SubSeq(old, Len(new) + 1, Len(old)) \in Seq(S)
  OBVIOUS
<1>2. QED
  BY <1>1 DEF Overlay

LEMMA SeqGrows ==
  ASSUME NEW S, NEW T, S \subseteq T, NEW s \in Seq(S) PROVE s \in Seq(T)
<1>1. Len(s) \in Nat /\ s \in [1..Len(s) -> S]
  OBVIOUS
<1>2. s \in [1..Len(s) -> T]
  BY <1>1
<1>3. QED
  BY <1>1, <1>2

LEMMA BesideSpans ==
  ASSUME Spans, UNCHANGED <<pc, rolledBack, adv, ver, got, input, bin>>,
         dir' # Nil => /\ dir # Nil
                       /\ \A f \in DOMAIN dir' : f \in DOMAIN dir
                                                 /\ dir'[f] = dir[f]
  PROVE  Spans'
  BY DEF Spans, Kept, Unpacking, Setting, Installing

LEMMA EndedSpans ==
  ASSUME Spans, Ended, dir' = dir PROVE Spans'
<1>1. Kept' = Kept
  BY DEF Ended, Kept
<1>2. bin' \in Seq(Kept)
  BY PrefixType DEF Ended, Spans
<1>3. QED
  BY <1>1, <1>2 DEF Ended, Spans, Unpacking, Setting, Installing

LEMMA NewImageSpans ==
  ASSUME Spans, NEW v \in Versions, bin = Binary(v), NewImage(v)
  PROVE  Spans' /\ (isVersionNewer(v, ver) => rolledBack)
<1>1. v \in Kept
  BY BinaryType DEF Spans
<1>2. v \in Kept'
  BY <1>1, NeverNewerThanItself DEF Kept, NewImage
<1>3. bin' \in Seq(Kept')
  BY <1>2, BinaryType DEF NewImage
<1>4. \A f \in DOMAIN dir' : dir'[f] \in Seq(Kept')
  BY DEF NewImage, Fresh, OnlyLock
<1>5. QED
  BY <1>1, <1>3, <1>4 DEF Spans, Kept, NewImage, Unpacking, Setting, Installing

LEMMA PublishSpans ==
  ASSUME Spans, NEW v \in Versions, Publish(v) PROVE Spans'
<1>1. /\ adv' = v /\ rolledBack' = (rolledBack \/ isVersionNewer(v, adv))
      /\ UNCHANGED <<pc, ver, got, input, bin, dir>>
  BY DEF Publish, Beside, Work, runVars
<1>2. ASSUME NEW w \in Kept PROVE w \in Kept'
  <2>1. CASE rolledBack'
    BY <1>2, <2>1 DEF Kept
  <2>2. CASE ~rolledBack'
    <3>1. ~rolledBack /\ ~isVersionNewer(v, adv) /\ ~isVersionNewer(adv, w)
      BY <1>1, <1>2, <2>2 DEF Kept
    <3>2. ~isVersionNewer(v, w)
      BY <1>2, <3>1, NewerIsWeakOrder DEF Spans, Kept
    <3>3. QED
      BY <1>1, <1>2, <3>1, <3>2 DEF Kept
  <2>3. QED
    BY <2>1, <2>2
<1>3. Kept \subseteq Kept'
  BY <1>2
<1>4. ~rolledBack' => ~isVersionNewer(adv', ver)
  BY <1>1, NewerIsWeakOrder DEF Spans
<1>5. \A s \in Seq(Kept) : s \in Seq(Kept')
  BY <1>3, SeqGrows
<1>6. QED
  BY <1>1, <1>3, <1>4, <1>5 DEF Spans, Unpacking, Setting, Installing

LEMMA UpdateSpans ==
  ASSUME Spans, Update
  PROVE  Spans' /\ (isVersionNewer(ver', ver) => rolledBack)
<1>1. CASE Exec
  <2>1. CASE \E v \in Versions : bin = Binary(v) /\ NewImage(v)
    BY <2>1, NewImageSpans DEF NewImage
  <2>2. CASE Ended /\ dir' = dir
    BY <2>2, EndedSpans, NeverNewerThanItself DEF Ended, Spans
  <2>3. CASE Return /\ dir' = dir /\ bin' = bin
    BY <2>3, NeverNewerThanItself DEF Return, Goto, World, Spans, Kept, Unpacking,
       Setting, Installing
  <2>4. QED
    BY <1>1, <2>1, <2>2, <2>3 DEF Exec, GiveUp, Error, runVars
<1>2. CASE ~Exec
  <2>1. UNCHANGED <<rolledBack, adv, ver>>
    BY <1>2 DEF Update, Step, Goto, GiveUp, Error, Return, World, Sleep,
       CkeckUpdates, CatchPanicWithCancel, SetDirCheck, SetDirMake, Latest, Fetch,
       Unpack, NextEntry, SetCheck, SetMkdir, SetCreate, SetIndex, SetStore, Open,
       Copy, Install, CreateBin, CopyBin, CleanBefore, RemoveBefore
  <2>2. Kept' = Kept
    BY <2>1 DEF Kept
  <2>3. (pc' \in {"fetch"} \cup Unpacking \cup Installing => got' \in Kept)
    <3>. USE DEF Spans, Unpacking, Setting, Installing, Step, Goto, Work, NextEntry
    <3>1. CASE Return
      BY <3>1 DEF Return
    <3>2. CASE ~Return
      <4>1. CASE Sleep \/ CkeckUpdates \/ CatchPanicWithCancel \/ SetDirCheck
                 \/ SetDirMake \/ Fetch
        BY <3>2, <4>1 DEF Sleep, CkeckUpdates, CatchPanicWithCancel, SetDirCheck,
           SetDirMake, Fetch, GiveUp, Error
      <4>2. CASE Latest
        BY <3>2, <4>2, NeverNewerThanItself DEF Latest, GetLatestVersion, Error, Kept
      <4>3. CASE Unpack \/ SetCheck \/ SetMkdir \/ SetCreate \/ SetIndex
                 \/ SetStore \/ Open
        BY <3>2, <4>3 DEF Unpack, SetCheck, SetMkdir, SetCreate, SetIndex, SetStore,
           Open, GiveUp, Error
      <4>4. CASE Copy \/ Install \/ CreateBin \/ CopyBin \/ CleanBefore
                 \/ RemoveBefore
        BY <3>2, <4>4 DEF Copy, Install, CreateBin, CopyBin, CleanBefore,
           RemoveBefore, GiveUp, Error
      <4>5. QED
        BY <1>2, <4>1, <4>2, <4>3, <4>4 DEF Update
    <3>3. QED
      BY <3>1, <3>2
  <2>4. CASE Copy
    <3>1. got \in Kept /\ got \in Versions
      BY <2>4 DEF Copy, Spans, Unpacking, Setting, Kept
    <3>2. Binary(got) \in Seq(Kept)
      BY <3>1, BinaryType
    <3>3. PICK new \in Seq(Kept) : Write(Entry, new)
      <4>1. \A new \in {Binary(got)} \cup Prefixes(Binary(got)) : new \in Seq(Kept)
        BY <3>2, PrefixType
      <4>2. <<>> \in Seq(Kept)
        OBVIOUS
      <4>3. \E new \in {Binary(got)} \cup Prefixes(Binary(got)) :
               Write(Entry, IF Entry = "node" THEN new ELSE <<>>)
        BY <2>4 DEF Copy
      <4>4. QED
        BY <4>1, <4>2, <4>3
    <3>4. dir' # Nil => /\ dir # Nil
                        /\ \A f \in DOMAIN dir' : dir'[f] \in Seq(Kept)
      BY <3>3, OverlayType DEF Write, Holds, Spans
    <3>5. bin' = bin /\ input' \in Seq(Kept)
      <4>1. <<>> \in Seq(Kept)
        OBVIOUS
      <4>2. QED
        BY <2>4, <4>1 DEF Copy, NextEntry, Error, Return, Spans
    <3>6. QED
      BY <2>1, <2>2, <2>3, <3>4, <3>5, NeverNewerThanItself DEF Spans
  <2>5. CASE ~Copy
    <3>1. bin' \in Seq(Kept) /\ input' \in Seq(Kept)
      <4>. <<>> \in Seq(Kept)
        OBVIOUS
      <4>1. CASE bin' = bin /\ input' \in {input, <<>>}
        BY <4>1 DEF Spans
      <4>2. CASE Install /\ input' = dir["node"] /\ CanOpen("node")
        BY <4>2 DEF Install, CanOpen, Holds, Spans
      <4>3. CASE CreateBin /\ bin' = <<>> /\ input' = input
        BY <4>3 DEF Spans
      <4>4. CASE CopyBin
        <5>1. input \in Seq(Kept)
          BY DEF Spans
        <5>2. bin' \in {input} \cup Prefixes(input) /\ input' \in {input, <<>>}
          BY <4>4 DEF CopyBin, Return, Work
        <5>3. QED
          BY <5>1, <5>2, PrefixType
      <4>5. QED
        BY <1>2, <2>5, <4>1, <4>2, <4>3, <4>4 DEF Update, Step, Goto, GiveUp, Error,
           Return, Work, Sleep, CkeckUpdates, CatchPanicWithCancel, SetDirCheck,
           SetDirMake, Latest, Fetch, Unpack, NextEntry, SetCheck, SetMkdir,
           SetCreate, SetIndex, SetStore, Open, Install, CreateBin, CleanBefore,
           RemoveBefore
    <3>2. dir' # Nil => \A f \in DOMAIN dir' : dir'[f] \in Seq(Kept)
      <4>1. CASE dir' = dir
        BY <4>1 DEF Spans
      <4>2. CASE Mkdir
        BY <4>2 DEF Mkdir, Spans
      <4>3. CASE SetCreate /\ Create(Entry)
        BY <4>3 DEF SetCreate, Create, Spans
      <4>4. CASE Removes
        BY <4>4, Removal DEF Spans
      <4>5. QED
        BY <1>2, <2>5, <4>1, <4>2, <4>3, <4>4 DEF Update, runVars, Sleep,
           CkeckUpdates, CatchPanicWithCancel, SetDirCheck, SetDirMake, Latest,
           Fetch, Unpack, SetCheck, SetMkdir, SetCreate, SetIndex, SetStore, Open,
           Install, CreateBin, CopyBin, CleanBefore, RemoveBefore
    <3>3. QED
      BY <2>1, <2>2, <2>3, <3>1, <3>2, NeverNewerThanItself DEF Spans
  <2>6. QED
    BY <2>4, <2>5
<1>3. QED
  BY <1>1, <1>2

LEMMA SpansKept ==
  Spans /\ [Next]_vars => Spans' /\ (isVersionNewer(ver', ver) => rolledBack)
<1>. SUFFICES ASSUME Spans, [Next]_vars
              PROVE  Spans' /\ (isVersionNewer(ver', ver) => rolledBack)
  OBVIOUS
<1>1. ASSUME ver' = ver PROVE ~isVersionNewer(ver', ver)
  BY <1>1, NeverNewerThanItself DEF Spans
<1>2. CASE Main \/ Watcher
  <2>1. CASE MainExits
    BY <1>1, <2>1, EndedSpans DEF MainExits, Ended
  <2>2. CASE ~MainExits
    BY <1>1, <1>2, <2>2, Removal, BesideSpans DEF Main, Watcher, MainCleans,
       MainRemoves, WatchCleans, WatchRemoves, WatchCancels, WatchReturns, Others,
       Work, runVars
  <2>3. QED
    BY <2>1, <2>2
<1>3. CASE Environment
  <2>1. CASE Boot
    BY <2>1, NewImageSpans DEF Boot, NewImage
  <2>2. ASSUME NEW v \in Versions, Publish(v)
        PROVE  Spans' /\ (isVersionNewer(ver', ver) => rolledBack)
    BY <1>1, <2>2, PublishSpans DEF Publish, Beside
  <2>3. CASE Touch
    BY <1>1, <2>3, BesideSpans DEF Touch, Beside, Work, Holds
  <2>4. CASE Signal
    BY <1>1, <2>4, BesideSpans DEF Signal, Others, Work, runVars
  <2>5. CASE Kill
    BY <1>1, <2>5, EndedSpans DEF Kill, Ended
  <2>6. QED
    BY <1>3, <2>1, <2>2, <2>3, <2>4, <2>5 DEF Environment
<1>4. CASE UNCHANGED vars
  BY <1>1, <1>4, BesideSpans DEF vars
<1>5. QED
  BY <1>2, <1>3, <1>4, UpdateSpans DEF Next

LEMMA SpansInvariance == Spec => []Spans
<1>1. Init => Spans
  <2>. SUFFICES ASSUME Init PROVE Spans
    OBVIOUS
  <2>1. ver \in Kept
    BY NeverNewerThanItself DEF Init, Kept
  <2>2. bin \in Seq(Kept)
    BY <2>1, BinaryType DEF Init
  <2>3. QED
    BY <2>2 DEF Init, RunInit, OnlyLock, Spans, Unpacking, Setting, Installing
<1>2. QED
  BY <1>1, SpansKept, PTL DEF Spec

(* A node never goes to an older version unless the repository did: not by *)
(* two answers of actual.txt that differ, by what failed updates have left *)
(* or by a kill between the steps of an installation.                      *)
THEOREM NeverDowngrades == Spec => NoDowngrade
<1>1. Spans /\ [Next]_vars => [isVersionNewer(ver', ver) => rolledBack]_vars
  BY SpansKept
<1>2. Spec => [][isVersionNewer(ver', ver) => rolledBack]_vars
  BY <1>1, SpansInvariance, PTL DEF Spec
<1>3. QED
  BY <1>2 DEF NoDowngrade
-----------------------------------------------------------------------------
(* The types of the variables that no invariant above is about.            *)
Fields ==
    /\ pc \in PCs
    /\ main \in {"serve", "remove", "exit", "off"}
    /\ watch \in {"armed", "remove", "cancel", "done"}
    /\ stop \in BOOLEAN
    /\ pc \in Setting => ~AtEnd
    /\ events \in 0..MaxEvents
    /\ spoiled \subseteq {"cut", "retry"}

LEMMA EventCounts ==
  ASSUME events \in 0..MaxEvents, Event PROVE events' \in 0..MaxEvents
  BY UpdaterAssumption DEF Event

LEMMA RemovalCounts ==
  ASSUME events \in 0..MaxEvents, Removes PROVE events' \in 0..MaxEvents
  BY EventCounts DEF Removes, Fails

LEMMA EndedFields ==
  ASSUME Fields, Ended, events' \in 0..MaxEvents PROVE Fields'
  BY DEF Fields, Ended, PCs, Setting

LEMMA OthersFields == ASSUME Fields, Main \/ Watcher PROVE Fields'
<1>1. CASE MainExits
  BY <1>1, EndedFields DEF MainExits, Fields
<1>2. CASE MainCleans \/ MainRemoves \/ Watcher
  <2>1. events' \in 0..MaxEvents
    BY <1>2, RemovalCounts DEF Fields, MainCleans, MainRemoves, Watcher,
       WatchCleans, WatchRemoves, WatchCancels, WatchReturns
  <2>2. QED
    BY <1>2, <2>1 DEF Fields, MainCleans, MainRemoves, Watcher, WatchCleans,
       WatchRemoves, WatchCancels, WatchReturns, Others, Work, AtEnd
<1>3. QED
  BY <1>1, <1>2 DEF Main

LEMMA EnvironmentFields == ASSUME Fields, Environment PROVE Fields'
<1>1. CASE Boot
  BY <1>1 DEF Boot, NewImage, Fields, PCs, Setting
<1>2. CASE Kill
  <2>1. events' \in 0..MaxEvents
    BY <1>2, EventCounts DEF Kill, Fields
  <2>2. QED
    BY <1>2, <2>1, EndedFields DEF Kill
<1>3. CASE Signal
  BY <1>3 DEF Signal, Others, Work, Fields, AtEnd
<1>4. CASE Touch \/ \E v \in Versions : Publish(v)
  <2>1. events' \in 0..MaxEvents
    BY <1>4, EventCounts DEF Touch, Publish, Fields
  <2>2. QED
    BY <1>4, <2>1 DEF Touch, Publish, Beside, Processes, Work, Notes, Fields, AtEnd
<1>5. QED
  BY <1>1, <1>2, <1>3, <1>4 DEF Environment

LEMMA UpdateFields == ASSUME Fields, Update PROVE Fields'
<1>. USE DEF PCs, Making, Setting, Installing
<1>1. ASSUME NEW l \in PCs, Step(l),
             l \in Setting => ~AtEnd /\ (pc # "entry" => pc \in Setting) /\ UNCHANGED Work
      PROVE  Fields'
  BY <1>1 DEF Fields, Step, Goto, Processes, Notes, Work, AtEnd
<1>2. ASSUME Return, spoiled' \subseteq {"cut", "retry"}, events' \in 0..MaxEvents
      PROVE  Fields'
  BY <1>2 DEF Fields, Return, Goto, Processes
<1>3. ASSUME GiveUp \/ Error PROVE Fields'
  BY <1>2, <1>3, EventCounts DEF GiveUp, Error, Fails, Fields
<1>4. CASE Sleep \/ CkeckUpdates
  BY <1>1, <1>3, <1>4 DEF Sleep, CkeckUpdates
<1>5. CASE CatchPanicWithCancel
  BY <1>5 DEF CatchPanicWithCancel, Fields, Notes
<1>6. CASE SetDirCheck \/ SetDirMake \/ Latest \/ Fetch
  BY <1>1, <1>3, <1>6 DEF SetDirCheck, SetDirMake, Latest, Fetch
<1>7. CASE Unpack
  BY <1>1, <1>3, <1>7 DEF Unpack, NextEntry
<1>8. CASE SetCheck \/ SetMkdir \/ SetCreate \/ SetIndex \/ SetStore \/ Open
  BY <1>1, <1>3, <1>8
     DEF Fields, SetCheck, SetMkdir, SetCreate, SetIndex, SetStore, Open
<1>9. CASE Copy
  BY <1>1, <1>3, <1>9 DEF Copy, NextEntry
<1>10. CASE Install \/ CreateBin
  BY <1>1, <1>3, <1>10 DEF Install, CreateBin
<1>11. CASE CopyBin
  <2>1. CASE Goto("clean") /\ events' = events /\ spoiled' \subseteq {"retry"}
    BY <2>1 DEF Goto, Processes, Fields
  <2>2. CASE Return /\ Fails /\ spoiled' = {"cut"}
    BY <1>2, <2>2, EventCounts DEF Fails, Fields
  <2>3. QED
    BY <1>11, <2>1, <2>2 DEF CopyBin
<1>12. CASE CleanBefore
  <2>1. CASE Goto("remove") /\ events' = events /\ spoiled' = spoiled
    BY <2>1 DEF Goto, Processes, Fields
  <2>2. QED
    BY <1>3, <1>12, <2>1 DEF CleanBefore
<1>13. CASE RemoveBefore
  <2>1. events' \in 0..MaxEvents
    BY <1>13, RemovalCounts DEF RemoveBefore, Fields
  <2>2. QED
    BY <1>13, <2>1 DEF RemoveBefore, Goto, Processes, Fields
<1>14. CASE Exec
  <2>1. ASSUME NEW v \in Versions, NewImage(v), events' = events PROVE Fields'
    BY <2>1 DEF NewImage, Fields
  <2>2. QED
    BY <1>3, <1>14, <2>1, EndedFields DEF Exec, Fields
<1>15. QED
  BY <1>4, <1>5, <1>6, <1>7, <1>8, <1>9, <1>10, <1>11, <1>12, <1>13, <1>14
     DEF Update

(* The variables keep their types; in particular files hold blocks of      *)
(* versions only, and an entry is set only while there is one.             *)
THEOREM TypesKept == Spec => []TypeOK
<1>1. Init => Fields
  <2> SUFFICES ASSUME Init PROVE Fields
    OBVIOUS
  <2>1. /\ pc = "check" /\ main = "serve" /\ watch = "armed" /\ stop = FALSE
        /\ events = 0 /\ spoiled = {}
    BY DEF Init
  <2>2. events \in 0..MaxEvents
    BY <2>1, UpdaterAssumption
  <2>3. pc \notin Setting /\ pc \in PCs
    BY <2>1 DEF Setting, PCs
  <2>4. QED
    BY <2>1, <2>2, <2>3 DEF Fields
<1>2. Fields /\ [Next]_vars => Fields'
  <2>1. Fields /\ UNCHANGED vars => Fields'
    BY DEF Fields, vars, AtEnd
  <2>2. QED
    BY <2>1, OthersFields, EnvironmentFields, UpdateFields DEF Next
<1>3. Inv /\ Spans /\ Fields => TypeOK
  <2> SUFFICES ASSUME Inv, Spans, Fields PROVE TypeOK
    OBVIOUS
  <2>1. \A s \in Seq(Kept) : s \in Seq(Versions)
    BY DEF Kept
  <2>2. /\ bin \in Seq(Versions) /\ input \in Seq(Versions)
        /\ dir # Nil => \A f \in DOMAIN dir : dir[f] \in Seq(Versions)
        /\ pc \in {"fetch"} \cup Unpacking \cup Installing => got \in Versions
    BY <2>1 DEF Spans, Kept
  <2>3. QED
    BY <2>2 DEF TypeOK, Inv, Named, MapThere, Spans, Fields
<1>4. QED
  BY <1>1, <1>2, <1>3, Invariance, SpansInvariance, PTL DEF Spec
=============================================================================
