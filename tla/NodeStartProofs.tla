-------------------------- MODULE NodeStartProofs --------------------------
(***************************************************************************)
(* For every set of processes, node paths and identifiers, every state of  *)
(* the uuid files and every set of faults: the variables keep their types, *)
(* and the guard of InitRunlockHook excludes a second holder of an         *)
(* identifier.  Where the uuid files are there from the start: one node    *)
(* serves per identifier, nothing is left behind, refusals have a cause.   *)
(***************************************************************************)
EXTENDS NodeStart, TLAPS

(* A process looks its identifier up before it makes a directory for it.   *)
IdKnown == \A p \in Procs : pc[p] = "create" => id[p] \in UUIDs

(* Past the guard nothing is left to be looked at.                         *)
ListDone == \A p \in Procs : pc[p] \in Guarded => todo[p] = {}

Listed == Guarded \cup {"stat"}

(* Of two processes that have listed $TMPDIR and stand under one           *)
(* identifier, the one that listed later still has the other's directory   *)
(* to look at.                                                             *)
LaterSees ==
    \A p, q \in Procs :
        (/\ p # q /\ id[p] = id[q]
         /\ pc[p] \in Listed /\ InPlace(p)
         /\ pc[q] \in Listed /\ InPlace(q))
            => Path(q) \in todo[p] \/ Path(p) \in todo[q]

IInv == TypeOK /\ IdKnown /\ ListDone /\ LaterSees

USE DEF PCs, MakingId, Guarded, Listed

LEMMA InitEstablishes == Init => IInv
  BY ConstantsAssumption
     DEF Init, IInv, TypeOK, IdKnown, ListDone, LaterSees

LEMMA TypeKept == TypeOK /\ IdKnown /\ [Next]_vars => TypeOK'
<1> SUFFICES ASSUME TypeOK, IdKnown, [Next]_vars PROVE TypeOK'
  OBVIOUS
<1> USE ConstantsAssumption DEF TypeOK, Goto, Files, Image, Duties
<1>1. ASSUME NEW p \in Procs, Ended(p), tmp' \subseteq tmp,
             abandoned' \subseteq Paths
      PROVE TypeOK'
  BY <1>1 DEF Ended
<1>path. ASSUME NEW p \in Procs
      PROVE  Path(p) \in Paths /\ (Abandons(p) => abandoned' \subseteq Paths)
  BY DEF Path, Paths, Abandons, OwnDirs, Dirs
<1>clean. ASSUME NEW p \in Procs, Clean(p)
          PROVE  /\ tmp' \subseteq tmp /\ abandoned' \subseteq Paths
                 /\ lock' \in {lock, [lock EXCEPT ![p] = "none"]}
  BY <1>path, <1>clean DEF Clean
<1>2. ASSUME NEW p \in Procs, Fatal(p) \/ Fails(p) PROVE TypeOK'
  BY <1>1, <1>2, <1>path DEF Fatal, Fails
<1>3. ASSUME NEW p \in Procs, CleanFatal(p) \/ CleanFails(p) PROVE TypeOK'
  BY <1>1, <1>3, <1>clean DEF CleanFatal, CleanFails
<1>log. ASSUME NEW p \in Procs, InitSLog(p) PROVE TypeOK'
  BY <1>3, <1>log DEF InitSLog
<1>5. ASSUME NEW p \in Procs, Step(p) PROVE TypeOK'
  <2>1. CASE ReadId(p)
    BY <1>2, <2>1 DEF ReadId, Readable
  <2>2. CASE RemoveAll(p)
    <3>1. CASE Fatal(p) \/ Fails(p)
      BY <1>2, <3>1
    <3>2. CASE ~(Fatal(p) \/ Fails(p))
      <4>1. pc' \in [Procs -> PCs]
        BY SMTT(30), <2>2, <3>2 DEF RemoveAll
      <4>2. /\ meta' \in [Homes -> BOOLEAN] /\ fd' \in [Homes -> SUBSET Procs]
            /\ file' \in [Homes -> UUIDs \cup {None, Torn}]
        BY <2>2, <3>2 DEF RemoveAll
      <4>3. UNCHANGED <<used, tmp, Image, Duties>>
        BY <2>2, <3>2 DEF RemoveAll
      <4> QED
        BY <4>1, <4>2, <4>3
    <3> QED
      BY <3>1, <3>2
  <2>3. CASE MkdirAll(p)
    <3>1. CASE Fatal(p) \/ Fails(p)
      BY <1>2, <3>1
    <3>2. CASE ~(Fatal(p) \/ Fails(p))
      <4>1. pc' \in [Procs -> PCs]
        BY <2>3, <3>2 DEF MkdirAll
      <4>2. meta' \in [Homes -> BOOLEAN]
        BY <2>3, <3>2 DEF MkdirAll
      <4>3. UNCHANGED <<file, fd, used, tmp, Image, Duties>>
        BY <2>3, <3>2 DEF MkdirAll
      <4> QED
        BY <4>1, <4>2, <4>3
    <3> QED
      BY <3>1, <3>2
  <2>4. CASE OpenData(p)
    <3>1. CASE Fatal(p) \/ Fails(p)
      BY <1>2, <3>1
    <3>2. CASE ~(Fatal(p) \/ Fails(p))
      <4>1. pc' \in [Procs -> PCs]
        BY SMTT(30), <2>4, <3>2 DEF OpenData
      <4>2. /\ file' \in [Homes -> UUIDs \cup {None, Torn}]
            /\ fd' \in [Homes -> SUBSET Procs]
        BY SMTT(30), <2>4, <3>2 DEF OpenData
      <4>3. UNCHANGED <<meta, used, tmp, Image, Duties>>
        BY <2>4, <3>2 DEF OpenData
      <4> QED
        BY <4>1, <4>2, <4>3
    <3> QED
      BY <3>1, <3>2
  <2>5. CASE WriteData(p)
    <3>1. CASE Fatal(p) \/ Fails(p)
      BY <1>2, <3>1
    <3>2. CASE ~(Fatal(p) \/ Fails(p))
      <4>1. pc' \in [Procs -> PCs]
        BY <2>5, <3>2 DEF WriteData
      <4>2. PICK u \in UUIDs \ used :
              /\ used' = used \cup {u}
              /\ file' = IF p \in fd[NodePath[p]]
                         THEN [file EXCEPT ![NodePath[p]] = u] ELSE file
              /\ fd' = [fd EXCEPT ![NodePath[p]] = @ \ {p}]
        BY <2>5, <3>2 DEF WriteData
      <4>3. /\ used' \subseteq UUIDs /\ fd' \in [Homes -> SUBSET Procs]
            /\ file' \in [Homes -> UUIDs \cup {None, Torn}]
        BY <4>2
      <4>4. UNCHANGED <<meta, tmp, Image, Duties>>
        BY <2>5, <3>2 DEF WriteData
      <4> QED
        BY <4>1, <4>3, <4>4
    <3> QED
      BY <3>1, <3>2
  <2>6. CASE WriteReadme(p)
    BY <1>2, <2>6 DEF WriteReadme
  <2>7. CASE Reread(p)
    BY <1>2, <2>7 DEF Reread, Readable
  <2>8. CASE Create(p)
    BY <1>2, <1>path, <2>8 DEF Create, Dirs, IdKnown
  <2>9. CASE Copy(p)
    <3>1. CASE CleanFails(p)
      BY <1>3, <3>1
    <3>2. CASE NewImage(p, 2) /\ UNCHANGED <<Files, tmp, runs, todo, lock,
                                             watch, upd, abandoned>>
      BY <3>2 DEF NewImage
    <3> QED
      BY <2>9, <3>1, <3>2 DEF Copy
  <2>10. CASE Glob(p)
    BY <1>3, <2>10 DEF Glob, Dirs
  <2>11. CASE Stat(p)
    BY <1>3, <2>11 DEF Stat
  <2>12. CASE SetLock(p)
    BY <1>3, <2>12 DEF SetLock
  <2>13. CASE Confirm(p)
    BY <1>log, <2>13 DEF Confirm
  <2>14. CASE OpenLock(p)
    BY SMTT(30), <1>2, <2>14 DEF OpenLock
  <2>15. CASE Shutdown(p)
    BY <2>15 DEF Shutdown
  <2>16. CASE CleanExit(p)
    BY <1>3, <2>16 DEF CleanExit
  <2>17. CASE LoadConf(p)
    BY <1>2, <2>17 DEF LoadConf
  <2>18. CASE Interrupted(p)
    BY <1>3, <2>18 DEF Interrupted
  <2> QED
    BY <1>5, <2>1, <2>2, <2>3, <2>4, <2>5, <2>6, <2>7, <2>8, <2>9, <2>10,
       <2>11, <2>12, <2>13, <2>14, <2>15, <2>16, <2>17, <2>18 DEF Step
<1>6. ASSUME NEW p \in Procs, Watcher(p) PROVE TypeOK'
  <2>1. CASE WatchCleans(p)
    BY <1>clean, <2>1 DEF WatchCleans
  <2>2. CASE WatchCancels(p)
    BY <2>2 DEF WatchCancels
  <2> QED
    BY <1>6, <2>1, <2>2 DEF Watcher
<1>7. ASSUME NEW p \in Procs, UpdateExecs(p) PROVE TypeOK'
  <2>1. CASE /\ runs' = [runs EXCEPT ![p] = @ + 1]
             /\ lock' = [lock EXCEPT ![p] = "none"]
             /\ watch' = [watch EXCEPT ![p] = "off"]
             /\ NewImage(p, 1)
             /\ UNCHANGED <<Files, tmp, todo, abandoned>>
    <3>1. upd' = [upd EXCEPT ![p] = FALSE]
      BY <1>7 DEF UpdateExecs
    <3> QED
      BY <2>1, <3>1 DEF NewImage
  <2>2. CASE UNCHANGED <<Files, tmp, pc, Image, todo, lock, watch, stop,
                         abandoned>>
    BY <1>7, <2>2 DEF UpdateExecs
  <2> QED
    BY <1>7, <2>1, <2>2 DEF UpdateExecs
<1>8. ASSUME NEW p \in Procs, Environment(p) PROVE TypeOK'
  <2>1. CASE Start(p)
    BY <2>1 DEF Start, NewImage
  <2>2. CASE Signal(p)
    BY <2>2 DEF Signal
  <2>3. CASE TouchLock(p)
    BY <2>3 DEF TouchLock
  <2>4. CASE Crash(p)
    BY <1>1, <1>path, <2>4 DEF Crash
  <2>5. CASE UpdateCleans(p)
    BY <1>clean, <2>5 DEF UpdateCleans
  <2>6. CASE Answer(p)
    BY <1>3, <1>log, <2>6 DEF Answer
  <2> QED
    BY <1>8, <2>1, <2>2, <2>3, <2>4, <2>5, <2>6 DEF Environment
<1>9. CASE UNCHANGED vars
  BY <1>9 DEF vars
<1> HIDE ConstantsAssumption DEF TypeOK, Goto, Files, Image, Duties
<1> QED
  BY <1>5, <1>6, <1>7, <1>8, <1>9 DEF Next

LEMMA IdKnownKept == TypeOK /\ IdKnown /\ [Next]_vars => IdKnown'
<1> SUFFICES ASSUME TypeOK, IdKnown, [Next]_vars,
                    NEW q \in Procs, pc'[q] = "create"
             PROVE  id'[q] \in UUIDs
  BY DEF IdKnown
<1> USE DEF Goto, Files, Image, Duties
<1>1. pc \in [Procs -> PCs] /\ id \in [Procs -> UUIDs \cup {None}]
  BY DEF TypeOK
<1>2. ASSUME pc' = pc, id' = id PROVE id'[q] \in UUIDs
  BY <1>2 DEF IdKnown
<1>3. ASSUME NEW p \in Procs, NEW l, l # "create", pc' = [pc EXCEPT ![p] = l],
             \/ id' = id \/ id' = [id EXCEPT ![p] = None]
      PROVE  id'[q] \in UUIDs
  BY <1>1, <1>3 DEF IdKnown
<1>4. ASSUME NEW p \in Procs, Ended(p) PROVE id'[q] \in UUIDs
  BY <1>3, <1>4 DEF Ended
<1>5. ASSUME NEW p \in Procs,
             Fatal(p) \/ CleanFatal(p) \/ Fails(p) \/ CleanFails(p)
      PROVE  id'[q] \in UUIDs
  BY <1>4, <1>5 DEF Fatal, CleanFatal, Fails, CleanFails
<1>6. ASSUME NEW p \in Procs, NEW s, NewImage(p, s) PROVE id'[q] \in UUIDs
  BY <1>3, <1>6 DEF NewImage
<1>7. ASSUME NEW p \in Procs, NEW l, Readable(file[Cwd[p]]),
             id' = [id EXCEPT ![p] = file[Cwd[p]]],
             pc' = [pc EXCEPT ![p] = l]
      PROVE  id'[q] \in UUIDs
  BY <1>1, <1>7 DEF IdKnown, Readable
<1>8. ASSUME NEW p \in Procs, Step(p) PROVE id'[q] \in UUIDs
  <2>1. CASE ReadId(p) \/ Reread(p)
    BY <1>3, <1>5, <1>7, <2>1 DEF ReadId, Reread
  <2>2. CASE RemoveAll(p) \/ MkdirAll(p) \/ WriteData(p)
    BY <1>3, <1>5, <2>2 DEF RemoveAll, MkdirAll, WriteData
  <2>3. CASE OpenData(p) \/ WriteReadme(p) \/ LoadConf(p)
    BY <1>3, <1>5, <2>3 DEF OpenData, WriteReadme, LoadConf
  <2>4. CASE Create(p) \/ Glob(p) \/ Shutdown(p)
    BY <1>3, <1>5, <2>4 DEF Create, Glob, Shutdown
  <2>5. CASE Copy(p)
    BY <1>5, <1>6, <2>5 DEF Copy
  <2>6. CASE Stat(p)
    BY <1>2, <1>3, <1>5, <2>6 DEF Stat
  <2>7. CASE SetLock(p) \/ Confirm(p) \/ Interrupted(p) \/ OpenLock(p)
             \/ CleanExit(p)
    BY <1>3, <1>5, <2>7
       DEF SetLock, Confirm, InitSLog, Interrupted, OpenLock, CleanExit
  <2> QED
    BY <1>8, <2>1, <2>2, <2>3, <2>4, <2>5, <2>6, <2>7 DEF Step
<1>9. ASSUME NEW p \in Procs, Watcher(p) \/ UpdateExecs(p)
      PROVE  id'[q] \in UUIDs
  BY <1>2, <1>6, <1>9 DEF Watcher, WatchCleans, WatchCancels, UpdateExecs
<1>10. ASSUME NEW p \in Procs, Environment(p) PROVE id'[q] \in UUIDs
  BY <1>2, <1>3, <1>4, <1>5, <1>6, <1>10
     DEF Environment, Start, Answer, InitSLog, Signal, TouchLock, Crash,
         UpdateCleans
<1>11. CASE UNCHANGED vars
  BY <1>2, <1>11 DEF vars
<1> QED
  BY <1>8, <1>9, <1>10, <1>11 DEF Next
-----------------------------------------------------------------------------
(* What a step of p can mean to the exclusion.                             *)

(* p's step leaves the other processes' part alone.                        *)
Frame(p) ==
    \A x \in Procs \ {p} : /\ pc'[x] = pc[x] /\ id'[x] = id[x]
                           /\ runs'[x] = runs[x] /\ todo'[x] = todo[x]

(* p is not, or no longer, among those that have listed; it may make its   *)
(* own directory.                                                          *)
Outside(p) ==
    pc'[p] \notin Listed /\ \A d \in tmp' \ tmp : d.path = Path(p)

(* p lists the directories.                                                *)
Lists(p) ==
    /\ tmp' = tmp /\ pc'[p] = "stat" /\ id'[p] = id[p] /\ runs'[p] = runs[p]
    /\ todo'[p] = {d.path : d \in {e \in tmp : e.uuid = id[p]}} \ {Path(p)}

(* p goes on, or drops a directory that has gone.                          *)
GoesOn(p) ==
    /\ tmp' \subseteq tmp /\ pc[p] \in Listed
    /\ id'[p] = id[p] /\ runs'[p] = runs[p]
    /\ pc'[p] \in Guarded => pc[p] \in Guarded \/ todo[p] = {}
    /\ todo'[p] \subseteq todo[p]
    /\ \A x \in todo[p] \ todo'[p] : ~ \E d \in tmp : d.path = x

Kind(p) == Frame(p) /\ (Outside(p) \/ Lists(p) \/ GoesOn(p))

LEMMA StepHasKind ==
  ASSUME TypeOK, Next PROVE \E p \in Procs : Kind(p)
<1> USE DEF Goto, Files, Image, Duties
<1>1. /\ pc \in [Procs -> PCs] /\ id \in [Procs -> UUIDs \cup {None}]
      /\ runs \in [Procs -> Nat] /\ todo \in [Procs -> SUBSET Paths]
  BY DEF TypeOK
<1>2. PICK p \in Procs :
         Step(p) \/ Watcher(p) \/ UpdateExecs(p) \/ Environment(p)
  BY DEF Next
<1>3. ASSUME NEW l, l \notin Listed, pc' = [pc EXCEPT ![p] = l],
             \/ id' = id \/ \E i : id' = [id EXCEPT ![p] = i],
             runs' = runs \/ runs' = [runs EXCEPT ![p] = @ + 1],
             todo' = todo \/ todo' = [todo EXCEPT ![p] = {}],
             tmp' \subseteq tmp
      PROVE  Kind(p)
  BY <1>1, <1>3 DEF Kind, Frame, Outside
<1>4. ASSUME Fatal(p) \/ CleanFatal(p) \/ Fails(p) \/ CleanFails(p)
      PROVE  Kind(p)
  BY <1>3, <1>4 DEF Fatal, CleanFatal, Fails, CleanFails, Ended, Clean
<1>5. ASSUME NEW s, NewImage(p, s), todo' = todo, tmp' = tmp,
             runs' = runs \/ runs' = [runs EXCEPT ![p] = @ + 1]
      PROVE  Kind(p)
  BY <1>3, <1>5 DEF NewImage
<1>6. ASSUME NEW l, pc[p] \in Guarded \/ (pc[p] \in Listed /\ todo[p] = {}),
             pc' = pc \/ pc' = [pc EXCEPT ![p] = l],
             id' = id, runs' = runs, todo' = todo, tmp' \subseteq tmp
      PROVE  Kind(p)
  BY <1>1, <1>6 DEF Kind, Frame, GoesOn
<1>7. ASSUME pc' = pc, id' = id, runs' = runs, todo' = todo, tmp' \subseteq tmp
      PROVE  Kind(p)
  BY <1>1, <1>7 DEF Kind, Frame, GoesOn, Outside
<1>8. CASE Step(p)
  <2>1. CASE ReadId(p) \/ Reread(p)
    <3>1. ASSUME NEW l, l \in {"create", "glob"}, pc' = [pc EXCEPT ![p] = l],
                 id' = [id EXCEPT ![p] = file[Cwd[p]]],
                 runs' = runs, todo' = todo, tmp' = tmp
          PROVE  Kind(p)
      BY <1>3, <3>1
    <3> QED
      BY <1>3, <1>4, <2>1, <3>1 DEF ReadId, Reread
  <2>2. CASE RemoveAll(p) \/ MkdirAll(p) \/ WriteData(p)
    BY <1>3, <1>4, <2>2 DEF RemoveAll, MkdirAll, WriteData
  <2>3. CASE OpenData(p) \/ WriteReadme(p) \/ LoadConf(p)
    BY <1>3, <1>4, <2>3 DEF OpenData, WriteReadme, LoadConf
  <2>4. CASE Create(p)
    BY <1>1, <1>4, <2>4 DEF Create, Kind, Frame, Outside
  <2>5. CASE Copy(p)
    BY <1>4, <1>5, <2>5 DEF Copy
  <2>6. CASE Glob(p)
    BY <1>1, <1>4, <2>6 DEF Glob, Kind, Frame, Lists
  <2>7. CASE Stat(p)
    <3>1. ASSUME NEW x \in todo[p], ~Standing(x), pc[p] = "stat", pc' = pc,
                 id' = id, runs' = runs, tmp' = tmp,
                 todo' = [todo EXCEPT ![p] = @ \ {x}]
          PROVE  Kind(p)
      BY <1>1, <3>1 DEF Kind, Frame, GoesOn, Standing
    <3> QED
      BY <1>4, <1>6, <2>7, <3>1 DEF Stat
  <2>8. CASE SetLock(p) \/ Confirm(p) \/ Interrupted(p) \/ OpenLock(p)
             \/ CleanExit(p)
    BY <1>4, <1>6, <2>8
       DEF SetLock, Confirm, InitSLog, Interrupted, OpenLock, CleanExit
  <2>9. CASE Shutdown(p)
    BY <1>6, <2>9 DEF Shutdown
  <2> QED
    BY <1>8, <2>1, <2>2, <2>3, <2>4, <2>5, <2>6, <2>7, <2>8, <2>9 DEF Step
<1>9. CASE Watcher(p)
  BY <1>7, <1>9 DEF Watcher, WatchCleans, WatchCancels, Clean
<1>10. CASE UpdateExecs(p)
  BY <1>5, <1>7, <1>10 DEF UpdateExecs
<1>11. CASE Environment(p)
  <2>1. CASE Start(p)
    BY <1>5, <2>1 DEF Start
  <2>2. CASE Signal(p) \/ TouchLock(p) \/ UpdateCleans(p)
    BY <1>7, <2>2 DEF Signal, TouchLock, UpdateCleans, Clean
  <2>3. CASE Crash(p)
    BY <1>3, <2>3 DEF Crash, Ended
  <2>4. CASE Answer(p)
    BY <1>4, <1>6, <2>4 DEF Answer, InitSLog
  <2> QED
    BY <1>11, <2>1, <2>2, <2>3, <2>4 DEF Environment
<1> QED
  BY <1>2, <1>8, <1>9, <1>10, <1>11
LEMMA ListDoneKept ==
  ASSUME TypeOK, ListDone, NEW p \in Procs, Kind(p) PROVE ListDone'
<1> SUFFICES ASSUME NEW x \in Procs, pc'[x] \in Guarded PROVE todo'[x] = {}
  BY DEF ListDone
<1>1. CASE x # p
  BY <1>1 DEF Kind, Frame, ListDone
<1>2. CASE x = p
  <2>1. GoesOn(p)
    BY <1>2 DEF Kind, Outside, Lists
  <2>2. todo[p] = {}
    BY <1>2, <2>1 DEF GoesOn, ListDone
  <2> QED
    BY <1>2, <2>1, <2>2 DEF GoesOn
<1> QED
  BY <1>1, <1>2

(* One side of LaterSees: x and y, both listed and in place under one      *)
(* identifier.                                                             *)
Rivals(x, y) ==
    /\ x # y /\ id[x] = id[y]
    /\ pc[x] \in Listed /\ InPlace(x)
    /\ pc[y] \in Listed /\ InPlace(y)

Sees(x, y) == Path(y) \in todo[x]

LEMMA LaterSeesKept ==
  ASSUME TypeOK, LaterSees, NEW p \in Procs, Kind(p) PROVE LaterSees'
<1>1. ASSUME NEW y \in Procs, Rivals(p, y)'
      PROVE  Sees(p, y)' \/ Sees(y, p)'
  <2>1. /\ y # p /\ Path(y)' = Path(y) /\ id'[y] = id[y] /\ pc'[y] = pc[y]
        /\ todo'[y] = todo[y]
    BY <1>1 DEF Rivals, Kind, Frame, Path
  <2>2. /\ Lists(p) \/ GoesOn(p)
        /\ Path(p)' = Path(p) /\ id'[p] = id[p] /\ tmp' \subseteq tmp
    BY <1>1 DEF Rivals, Kind, Outside, Lists, GoesOn, Path
  <2>3. /\ [path |-> Path(y), uuid |-> id[p]] \in tmp
        /\ [path |-> Path(p), uuid |-> id[p]] \in tmp
        /\ id[y] = id[p]
    BY <1>1, <2>1, <2>2 DEF Rivals, InPlace
  <2>4. Path(y) # Path(p)
    BY <2>1 DEF Path
  <2>5. CASE Lists(p)
    <3> DEFINE D == [path |-> Path(y), uuid |-> id[p]]
    <3>1. D \in {e \in tmp : e.uuid = id[p]} /\ D.path = Path(y)
      BY <2>3
    <3>2. Path(y) \in todo'[p]
      BY <2>4, <2>5, <3>1 DEF Lists
    <3> QED
      BY <2>1, <3>2 DEF Sees
  <2>6. CASE GoesOn(p)
    <3>1. Rivals(p, y)
      BY <1>1, <2>1, <2>3, <2>6 DEF Rivals, InPlace, GoesOn
    <3>2. Sees(p, y) \/ Sees(y, p)
      BY <3>1 DEF LaterSees, Rivals, Sees
    <3>3. CASE Sees(p, y)
      <4>1. Path(y) \in todo'[p]
        <5> SUFFICES ASSUME Path(y) \in todo[p] \ todo'[p] PROVE FALSE
          BY <3>3 DEF Sees
        <5> QED
          BY <2>3, <2>6 DEF GoesOn
      <4> QED
        BY <2>1, <4>1 DEF Sees
    <3> QED
      BY <2>1, <2>2, <3>2, <3>3 DEF Sees
  <2> QED
    BY <2>2, <2>5, <2>6
<1>2. ASSUME NEW x \in Procs, NEW y \in Procs, x # p, y # p, Rivals(x, y)'
      PROVE  Sees(x, y)' \/ Sees(y, x)'
  <2>1. \A z \in {x, y} :
          /\ Path(z)' = Path(z) /\ id'[z] = id[z] /\ pc'[z] = pc[z]
          /\ todo'[z] = todo[z]
    BY <1>2 DEF Kind, Frame, Path
  <2>2. \A d \in tmp' \ tmp : d.path = Path(p) \/ d.path = Path(p)'
    BY DEF Kind, Outside, Lists, GoesOn
  <2>3. ASSUME NEW z \in {x, y}, InPlace(z)' PROVE InPlace(z)
    <3> DEFINE D == [path |-> Path(z), uuid |-> id[z]]
    <3>1. D \in tmp' /\ D.path = Path(z)
      BY <2>1, <2>3 DEF InPlace
    <3>2. Path(z) # Path(p) /\ Path(z) # Path(p)'
      BY <1>2 DEF Path
    <3> QED
      BY <2>2, <3>1, <3>2 DEF InPlace
  <2>4. Rivals(x, y)
    BY <1>2, <2>1, <2>3 DEF Rivals
  <2>5. Sees(x, y) \/ Sees(y, x)
    BY <2>4 DEF LaterSees, Rivals, Sees
  <2> QED
    BY <2>1, <2>5 DEF Sees
<1>3. ASSUME NEW x \in Procs, NEW y \in Procs, Rivals(x, y)'
      PROVE  Sees(x, y)' \/ Sees(y, x)'
  <2>1. CASE x = p
    BY <1>1, <1>3, <2>1
  <2>2. CASE y = p
    <3>1. Rivals(y, x)'
      BY <1>3 DEF Rivals
    <3> QED
      BY <1>1, <2>2, <3>1
  <2> QED
    BY <1>2, <1>3, <2>1, <2>2
<1> QED
  BY <1>3 DEF LaterSees, Rivals, Sees

LEMMA IInvKept == IInv /\ [Next]_vars => IInv'
<1> SUFFICES ASSUME IInv, [Next]_vars PROVE IInv'
  OBVIOUS
<1>1. TypeOK' /\ IdKnown'
  BY TypeKept, IdKnownKept DEF IInv
<1>2. CASE Next
  <2>1. PICK p \in Procs : Kind(p)
    BY <1>2, StepHasKind DEF IInv
  <2> QED
    BY <1>1, <2>1, ListDoneKept, LaterSeesKept DEF IInv
<1>3. CASE UNCHANGED vars
  <2>1. ListDone' /\ LaterSees'
    BY <1>3 DEF IInv, vars, ListDone, LaterSees, InPlace, Path
  <2> QED
    BY <1>1, <2>1 DEF IInv
<1> QED
  BY <1>2, <1>3

LEMMA IInvExcludes == IInv => HoldersExclusive
  BY DEF IInv, ListDone, LaterSees, HoldersExclusive

LEMMA IInvInvariant == Spec => []IInv
  BY InitEstablishes, IInvKept, PTL DEF Spec

(* Every variable keeps its type: in particular a process that makes or    *)
(* looks for runtime directories has a complete identifier to do it with   *)
(* (GetNodeUUID's length check).                                           *)
THEOREM TypeCorrect == Spec => []TypeOK
<1>1. IInv => TypeOK
  BY DEF IInv
<1> QED
  BY <1>1, IInvInvariant, PTL

(* InitRunlockHook excludes: of any number of processes, started, stopped, *)
(* killed, updated and restarted in any order, no two get past the guard   *)
(* with their directories standing under one identifier.                   *)
THEOREM GuardExcludes == Spec => []HoldersExclusive
  BY IInvInvariant, IInvExcludes, PTL
-----------------------------------------------------------------------------
(* Nodes whose uuid files are there from the start.                        *)

AllPrepared == \A h \in Homes : Prepared[h] \in UUIDs
NodeId(p)   == Prepared[Cwd[p]]

(* Nobody makes an identifier, ...                                         *)
Settled ==
    /\ AllPrepared /\ file = Prepared
    /\ \A p \in Procs : pc[p] \notin MakingId

(* ... so that a process goes by that of its node, and so does what it     *)
(* makes.                                                                  *)
Unread == {"off", "loadConf", "readId"}
Known  == \A p \in Procs : pc[p] \notin Unread => id[p] = NodeId(p)

Carried == \A d \in tmp : d.uuid = NodeId(d.path.proc)

(* Directories are of runs begun, ...                                      *)
Begun == \A d \in tmp : d.path.run <= runs[d.path.proc]

(* ... and before Create there is none of the present one.                 *)
NoneYet(p) == pc[p] = "create" \/ (stage[p] = 1 /\ pc[p] \in {"loadConf", "readId"})
Bare       == \A p \in Procs : NoneYet(p) => ~HasDir(p)

(* The updater executes a new image only after its Clean.                  *)
Let(p)    == \A d \in OwnDirs(p) : d.path \in abandoned
Replacing == \A p \in Procs : upd[p] => pc[p] \in {"serve", "fallback"} /\ Let(p)

(* What is to be looked at are other directories of the same identifier.   *)
Matches == \A p \in Procs :
    pc[p] = "stat" => \A x \in todo[p] : x # Path(p) /\ NodeId(x.proc) = id[p]

PInv == /\ Settled /\ Known /\ Carried
        /\ NoOrphans /\ Begun /\ Bare /\ Replacing /\ Matches

LEMMA PathParts ==
  ASSUME NEW x \in Paths, NEW p \in Procs, x.proc = p, x.run = runs[p]
  PROVE  x = Path(p)
  BY DEF Paths, Path

(* What a process has in $TMPDIR that is not abandoned is its own directory.  *)
LEMMA OwnOnly ==
  ASSUME TypeOK, NoOrphans, NEW d \in tmp, d.path \notin abandoned
  PROVE  /\ Alive(d.path) /\ d.path.proc \in Procs
         /\ d.path = Path(d.path.proc) /\ d \in OwnDirs(d.path.proc)
<1>1. d.path \in Paths /\ d.path.proc \in Procs
  BY DEF TypeOK, Dirs, Paths
<1>2. Alive(d.path)
  BY DEF NoOrphans, Alive
<1>3. d.path = Path(d.path.proc)
  BY <1>1, <1>2, PathParts DEF Alive
<1> QED
  BY <1>1, <1>2, <1>3 DEF OwnDirs

(* The others' part of the invariant outlives a step of p that only takes  *)
(* away p's directories, or adds its own under the identifier of its node. *)
Aside(p) ==
    /\ file' = file /\ abandoned \subseteq abandoned'
    /\ \A x \in Procs \ {p} :
         /\ pc'[x] = pc[x] /\ id'[x] = id[x] /\ runs'[x] = runs[x]
         /\ todo'[x] = todo[x] /\ stage'[x] = stage[x] /\ upd'[x] = upd[x]
    /\ \A d \in tmp' \ tmp : d.path = Path(p)' /\ d.uuid = NodeId(p)

(* What is left to show of p itself.                                       *)
Own(p) ==
    /\ pc[p] \notin MakingId
    /\ pc[p] \notin Unread => id[p] = NodeId(p)
    /\ NoneYet(p) => ~HasDir(p)
    /\ upd[p] => pc[p] \in {"serve", "fallback"} /\ Let(p)
    /\ pc[p] = "stat" => \A x \in todo[p] : x # Path(p) /\ NodeId(x.proc) = id[p]
    /\ \A d \in tmp : d.path.proc = p =>
          d.path.run <= runs[p] /\ (d.path \in abandoned \/ Alive(d.path))

LEMMA AsideKeeps ==
  ASSUME TypeOK, TypeOK', PInv, NEW p \in Procs, Aside(p), Own(p)'
  PROVE  PInv'
<1>1. Settled'
  BY DEF PInv, Settled, Aside, Own
<1>2. Known'
  BY DEF PInv, Known, Aside, Own
<1>3. Carried'
  <2>1. ASSUME NEW d \in tmp', d \notin tmp PROVE d.uuid = NodeId(d.path.proc)
    BY <2>1 DEF Aside, Path
  <2> QED
    BY <2>1 DEF PInv, Carried
<1>4. NoOrphans'
  <2> SUFFICES ASSUME NEW d \in tmp', d.path.proc # p
               PROVE  d.path \in abandoned' \/ Alive(d.path)'
    BY DEF NoOrphans, Own, Alive
  <2>1. d \in tmp
    BY DEF Aside, Path
  <2>2. d.path.proc \in Procs \ {p}
    BY <2>1 DEF TypeOK, Dirs, Paths
  <2> QED
    BY <2>1, <2>2 DEF PInv, NoOrphans, Alive, Aside
<1>5. ASSUME NEW x \in Procs \ {p} PROVE Path(x)' = Path(x) /\ Path(x) # Path(p)'
  BY DEF Aside, Path
<1>6. ASSUME NEW x \in Procs \ {p} PROVE OwnDirs(x)' \subseteq OwnDirs(x)
  BY <1>5 DEF OwnDirs, Aside
<1>7. Replacing'
  BY <1>6 DEF PInv, Replacing, Let, Aside, Own
<1>9. Bare'
  BY <1>6 DEF PInv, Bare, NoneYet, HasDir, Aside, Own
<1>10. Begun'
  <2> SUFFICES ASSUME NEW d \in tmp', d.path.proc # p
               PROVE  d.path.run <= runs'[d.path.proc]
    BY DEF Begun, Own
  <2>1. d \in tmp
    BY DEF Aside, Path
  <2>2. d.path.proc \in Procs \ {p}
    BY <2>1 DEF TypeOK, Dirs, Paths
  <2> QED
    BY <2>1, <2>2 DEF PInv, Begun, Aside
<1>8. Matches'
  BY <1>5 DEF PInv, Matches, Aside, Own
<1> QED
  BY <1>1, <1>2, <1>3, <1>4, <1>7, <1>8, <1>9, <1>10 DEF PInv

LEMMA PInvKept ==
  ASSUME TypeOK, TypeOK', IdKnown, PInv, [Next]_vars PROVE PInv'
<1> USE DEF Goto, Files, Image, Duties, Unread
<1>1. /\ pc \in [Procs -> PCs] /\ id \in [Procs -> UUIDs \cup {None}]
      /\ runs \in [Procs -> Nat] /\ todo \in [Procs -> SUBSET Paths]
      /\ stage \in [Procs -> {1, 2}]
      /\ lock \in [Procs -> {"none", "written", "touched"}]
      /\ upd \in [Procs -> BOOLEAN]
  BY DEF TypeOK
<1>2. ASSUME NEW p \in Procs
      PROVE  /\ Own(p) /\ file = Prepared /\ NodeId(p) \in UUIDs
             /\ \A d \in tmp : d.path.proc = p /\ d.path \notin abandoned =>
                  pc[p] # "off" /\ d.path = Path(p) /\ d \in OwnDirs(p)
  <2>1. Own(p) /\ file = Prepared /\ NodeId(p) \in UUIDs
    BY ConstantsAssumption DEF PInv, Settled, AllPrepared, NodeId, Known,
       Begun, Bare, Replacing, Matches, NoOrphans, Alive, Own
  <2> QED
    BY <2>1, OwnOnly DEF PInv, Alive
<1>cut. ASSUME NEW p \in Procs, Clean(p)
        PROVE  /\ tmp' \subseteq tmp /\ abandoned \subseteq abandoned'
               /\ \A d \in OwnDirs(p) : d \in tmp' => d.path \in abandoned'
  BY <1>cut DEF Clean, Abandons
(* The end of a process.                                                   *)
<1>3. ASSUME NEW p \in Procs, Ended(p), abandoned \subseteq abandoned',
             tmp' \subseteq tmp,
             \A d \in OwnDirs(p) : d \in tmp' => d.path \in abandoned'
      PROVE  PInv'
  <2>1. Aside(p)
    BY <1>1, <1>3 DEF Ended, Aside
  <2>2. \A d \in tmp' : d.path.proc = p =>
            d.path.run <= runs'[p] /\ d.path \in abandoned'
    BY <1>2, <1>3 DEF Ended, Own
  <2>3. pc'[p] = "off" /\ ~upd'[p]
    BY <1>1, <1>3 DEF Ended
  <2> QED
    BY <2>1, <2>2, <2>3, AsideKeeps DEF Own, NoneYet
<1>4. ASSUME NEW p \in Procs, CleanFatal(p) \/ CleanFails(p) PROVE PInv'
  BY <1>3, <1>4, <1>cut DEF CleanFatal, CleanFails
<1>die. ASSUME NEW p \in Procs, Fatal(p) \/ Fails(p),
               pc[p] \in Uncleaned \cup {"create"}
        PROVE  PInv'
  <2>1. Ended(p) /\ tmp' = tmp /\ abandoned \subseteq abandoned'
    BY <1>die DEF Fatal, Fails, Abandons
  <2>2. ASSUME NEW d \in OwnDirs(p) PROVE d.path \in abandoned'
    BY <1>2, <1>die, <2>2 DEF Fatal, Fails, Abandons, Own, NoneYet, HasDir
  <2> QED
    BY <1>3, <2>1, <2>2
(* A new image: none of p's directories is one it will clean.              *)
<1>5. ASSUME NEW p \in Procs, NEW s \in {1, 2}, NewImage(p, s), file' = file,
             todo' = todo, abandoned' = abandoned, tmp' = tmp,
             \A x \in Procs \ {p} : upd'[x] = upd[x],
             ~upd'[p],
             \/ runs' = runs /\ pc[p] # "off" /\ s = 2
             \/ /\ runs' = [runs EXCEPT ![p] = @ + 1]
                /\ pc[p] = "off" \/ Let(p)
      PROVE  PInv'
  <2>1. Aside(p)
    BY <1>1, <1>5 DEF NewImage, Aside
  <2>2. pc'[p] = "loadConf" /\ stage'[p] = s
    BY <1>1, <1>5 DEF NewImage
  <2>3. CASE runs' = runs /\ pc[p] # "off" /\ s = 2
    <3>1. \A d \in tmp' : d.path.proc = p =>
            d.path.run <= runs'[p] /\ (d.path \in abandoned' \/ Alive(d.path)')
      BY <1>2, <1>5, <2>2, <2>3 DEF Alive, Own
    <3> QED
      BY <1>5, <2>1, <2>2, <2>3, <3>1, AsideKeeps DEF Own, NoneYet
  <2>4. CASE /\ runs' = [runs EXCEPT ![p] = @ + 1]
             /\ pc[p] = "off" \/ Let(p)
    <3>1. runs[p] \in Nat /\ runs'[p] = runs[p] + 1
      BY <1>1, <2>4
    <3>2. ASSUME NEW d \in tmp, d.path.proc = p
          PROVE  /\ d.path.run \in Nat /\ d.path.run <= runs[p]
                 /\ d.path \in abandoned
      BY <1>2, <2>4, <3>2 DEF Own, Let, TypeOK, Dirs, Paths
    <3>3. ~HasDir(p)'
      <4> SUFFICES ASSUME NEW d \in tmp, d.path = Path(p)' PROVE FALSE
        BY <1>5 DEF HasDir, OwnDirs
      <4>1. d.path.proc = p /\ d.path.run = runs[p] + 1
        BY <3>1 DEF Path
      <4> QED
        BY <3>1, <3>2, <4>1
    <3>4. \A d \in tmp' : d.path.proc = p =>
            d.path.run <= runs'[p] /\ d.path \in abandoned'
      BY <1>5, <3>1, <3>2
    <3> QED
      BY <1>5, <2>1, <2>2, <3>3, <3>4, AsideKeeps DEF Own
  <2> QED
    BY <1>5, <2>3, <2>4
(* A step that leaves the image, its list and the directories' owners.     *)
<1>6. ASSUME NEW p \in Procs, file' = file, abandoned' = abandoned, tmp' \subseteq tmp,
             id' = id, runs' = runs, stage' = stage,
             \A x \in Procs \ {p} : pc'[x] = pc[x] /\ todo'[x] = todo[x]
                                    /\ upd'[x] = upd[x],
             pc[p] \notin Unread,
             pc'[p] \notin {"off", "create", "loadConf", "readId"} \cup MakingId,
             upd'[p] => pc'[p] \in {"serve", "fallback"} /\ Let(p),
             pc'[p] = "stat" => \A x \in todo'[p] : x # Path(p)
                                                    /\ NodeId(x.proc) = id[p]
      PROVE  PInv'
  <2>1. Aside(p)
    BY <1>6 DEF Aside
  <2>2. Path(p)' = Path(p)
    BY <1>6 DEF Path
  <2>3. \A d \in tmp' : d.path.proc = p =>
          d.path.run <= runs'[p] /\ (d.path \in abandoned' \/ Alive(d.path)')
    BY <1>2, <1>6 DEF Own, Alive
  <2>4. Let(p) => Let(p)'
    BY <1>6, <2>2 DEF Let, OwnDirs
  <2>5. Own(p)'
    BY <1>2, <1>6, <2>2, <2>3, <2>4 DEF Own, NoneYet
  <2> QED
    BY <2>1, <2>5, AsideKeeps
<1>7. ASSUME NEW p \in Procs, Step(p) PROVE PInv'
  <2>1. CASE (ReadId(p) \/ Reread(p)) /\ ~Fails(p)
    <3>1. /\ ReadId(p) /\ Readable(file[Cwd[p]])
          /\ id' = [id EXCEPT ![p] = NodeId(p)]
          /\ pc' = [pc EXCEPT ![p] = IF stage[p] = 1 THEN "create" ELSE "glob"]
          /\ UNCHANGED <<file, tmp, stage, runs, Duties>>
      <4>1. pc[p] = "readId" /\ file[Cwd[p]] = NodeId(p)
        BY <1>2, <2>1 DEF Reread, ReadId, Own, NodeId
      <4>2. file[Cwd[p]] # None /\ file[Cwd[p]] # Torn
        BY <1>2, <4>1, ConstantsAssumption
      <4> QED
        BY <2>1, <4>1, <4>2 DEF ReadId, Reread
    <3>2. Aside(p)
      BY <1>1, <3>1 DEF Aside
    <3>3. Path(p)' = Path(p)
      BY <3>1 DEF Path
    <3>4. pc[p] = "readId" /\ pc'[p] \in {"create", "glob"} /\ id'[p] = NodeId(p)
      BY <1>1, <3>1 DEF ReadId
    <3>5. \A d \in tmp' : d.path.proc = p =>
            d.path.run <= runs'[p] /\ (d.path \in abandoned' \/ Alive(d.path)')
      BY <1>2, <3>1, <3>4 DEF Own, Alive
    <3>6. ~upd'[p]
      BY <1>2, <3>1, <3>4 DEF Own
    <3>7. NoneYet(p)' => NoneYet(p)
      BY <1>1, <3>1, <3>4 DEF NoneYet
    <3>8. ~HasDir(p) => ~HasDir(p)'
      BY <3>1, <3>3 DEF HasDir, OwnDirs
    <3> QED
      BY <1>2, <3>2, <3>4, <3>5, <3>6, <3>7, <3>8, AsideKeeps DEF Own
  <2>12. CASE (ReadId(p) \/ LoadConf(p) \/ Create(p)) /\ Fails(p)
    BY <1>die, <2>12 DEF ReadId, LoadConf, Create, Uncleaned
  <2>13. CASE Reread(p) /\ Fails(p)
    BY <1>2, <2>13 DEF Reread, Own
  <2>14. CASE LoadConf(p) /\ ~Fails(p)
    <3>1. /\ pc[p] = "loadConf" /\ pc' = [pc EXCEPT ![p] = "readId"]
          /\ UNCHANGED <<file, tmp, runs, id, stage, Duties>>
      BY <2>14 DEF LoadConf
    <3>2. Aside(p)
      BY <1>1, <3>1 DEF Aside
    <3>3. Path(p)' = Path(p) /\ pc'[p] = "readId"
      BY <1>1, <3>1 DEF Path
    <3>4. \A d \in tmp' : d.path.proc = p =>
            d.path.run <= runs'[p] /\ (d.path \in abandoned' \/ Alive(d.path)')
      BY <1>2, <3>1, <3>3 DEF Own, Alive
    <3>5. ~upd'[p]
      BY <1>2, <3>1 DEF Own
    <3>6. NoneYet(p)' => NoneYet(p)
      BY <3>1, <3>3 DEF NoneYet
    <3>7. ~HasDir(p) => ~HasDir(p)'
      BY <3>1, <3>3 DEF HasDir, OwnDirs
    <3> QED
      BY <1>2, <3>2, <3>3, <3>4, <3>5, <3>6, <3>7, AsideKeeps DEF Own
  <2>2. CASE RemoveAll(p) \/ MkdirAll(p) \/ OpenData(p) \/ WriteData(p)
             \/ WriteReadme(p)
    BY <1>2, <2>2 DEF RemoveAll, MkdirAll, OpenData, WriteData, WriteReadme, Own
  <2>3. CASE Create(p) /\ ~Fails(p)
    <3>1. /\ pc[p] = "create" /\ pc' = [pc EXCEPT ![p] = "copy"]
          /\ tmp' = tmp \cup {[path |-> Path(p), uuid |-> id[p]]}
          /\ UNCHANGED <<file, runs, id, stage, Duties>>
      BY <2>3 DEF Create
    <3>2. Path(p)' = Path(p) /\ id[p] = NodeId(p)
      BY <1>2, <3>1 DEF Path, Own
    <3>3. Aside(p)
      BY <1>1, <3>1, <3>2 DEF Aside
    <3>4. pc'[p] = "copy" /\ ~upd'[p]
      BY <1>1, <1>2, <3>1 DEF Own
    <3>5. \A d \in tmp' : d.path.proc = p =>
            d.path.run <= runs'[p] /\ (d.path \in abandoned' \/ Alive(d.path)')
      <4>1. ASSUME NEW d \in tmp, d.path.proc = p
            PROVE  d.path.run <= runs'[p] /\ (d.path \in abandoned' \/ Alive(d.path)')
        BY <1>2, <3>1, <3>4, <4>1 DEF Own, Alive
      <4>2. Alive(Path(p))' /\ Path(p).run <= runs'[p]
        BY <1>1, <3>1, <3>4 DEF Alive, Path
      <4> QED
        BY <3>1, <3>2, <4>1, <4>2
    <3> QED
      BY <3>1, <3>2, <3>3, <3>4, <3>5, AsideKeeps DEF Own, NoneYet
  <2>4. CASE Copy(p)
    BY <1>1, <1>2, <1>4, <1>5, <2>4 DEF Copy, Own
  <2>15. CASE Glob(p) /\ CleanFails(p)
    BY <1>4, <2>15
  <2>5. CASE Glob(p) /\ ~CleanFails(p)
    <3>1. /\ pc[p] = "glob" /\ pc' = [pc EXCEPT ![p] = "stat"]
          /\ todo' = [todo EXCEPT ![p] =
                {d.path : d \in {e \in tmp : e.uuid = id[p]}} \ {Path(p)}]
          /\ UNCHANGED <<file, tmp, runs, id, stage, upd, abandoned>>
      BY <2>5 DEF Glob
    <3>2. \A x \in todo'[p] : x # Path(p) /\ NodeId(x.proc) = id[p]
      BY <1>1, <3>1 DEF PInv, Carried
    <3> QED
      BY <1>1, <1>2, <1>6, <3>1, <3>2 DEF Own
  <2>6. CASE Stat(p)
    <3>1. ASSUME pc[p] = "stat", UNCHANGED <<file, tmp, id, runs, stage, upd, abandoned>>,
                 \/ pc' = [pc EXCEPT ![p] = "setLock"] /\ todo' = todo
                 \/ /\ pc' = pc
                    /\ \E x : todo' = [todo EXCEPT ![p] = @ \ {x}]
          PROVE  PInv'
      BY <1>1, <1>2, <1>6, <3>1 DEF Own
    <3> QED
      BY <1>4, <2>6, <3>1 DEF Stat
  <2>7. CASE SetLock(p)
    BY <1>1, <1>2, <1>4, <1>6, <2>7 DEF SetLock, Own
  <2>8. CASE Confirm(p) \/ Interrupted(p)
    BY <1>1, <1>2, <1>4, <1>6, <2>8 DEF Confirm, InitSLog, Interrupted, Own
  <2>9. CASE OpenLock(p)
    <3>1. CASE Fatal(p) \/ Fails(p)
      BY <1>die, <2>9, <3>1 DEF OpenLock, Uncleaned
    <3>2. CASE ~(Fatal(p) \/ Fails(p))
      BY <1>1, <1>2, <1>6, <2>9, <3>2 DEF OpenLock, Own
    <3> QED
      BY <3>1, <3>2
  <2>10. CASE Shutdown(p)
    BY <1>1, <1>2, <1>6, <2>10 DEF Shutdown, Own
  <2>11. CASE CleanExit(p)
    BY <1>4, <2>11 DEF CleanExit
  <2> QED
    BY <1>7, <2>1, <2>2, <2>3, <2>4, <2>5, <2>6, <2>7, <2>8, <2>9, <2>10,
       <2>11, <2>12, <2>13, <2>14, <2>15 DEF Step
(* A step beside the main goroutine: pc, the image and the list stay.      *)
<1>8. ASSUME NEW p \in Procs, UNCHANGED <<file, pc, id, stage, runs, todo>>,
             abandoned \subseteq abandoned', tmp' \subseteq tmp,
             \A x \in Procs \ {p} : upd'[x] = upd[x],
             upd'[p] => pc[p] \in {"serve", "fallback"} /\ Let(p)'
      PROVE  PInv'
  <2>1. Aside(p)
    BY <1>8 DEF Aside
  <2>2. Path(p)' = Path(p)
    BY <1>8 DEF Path
  <2>3. \A d \in tmp' : d.path.proc = p =>
          d.path.run <= runs'[p] /\ (d.path \in abandoned' \/ Alive(d.path)')
    BY <1>2, <1>8 DEF Own, Alive
  <2>4. ~HasDir(p) => ~HasDir(p)'
    BY <1>8, <2>2 DEF HasDir, OwnDirs
  <2>5. Own(p)'
    BY <1>2, <1>8, <2>2, <2>3, <2>4 DEF Own, NoneYet
  <2> QED
    BY <2>1, <2>5, AsideKeeps
<1>9. ASSUME NEW p \in Procs, tmp' \subseteq tmp, runs' = runs,
             abandoned \subseteq abandoned'
      PROVE  Let(p) => Let(p)'
  BY <1>9 DEF Let, OwnDirs, Path
<1>10. ASSUME NEW p \in Procs, Watcher(p) PROVE PInv'
  <2>1. /\ UNCHANGED <<file, pc, id, stage, runs, todo, upd>>
        /\ abandoned \subseteq abandoned' /\ tmp' \subseteq tmp
    BY <1>cut, <1>10 DEF Watcher, WatchCleans, WatchCancels
  <2> QED
    BY <1>2, <1>8, <1>9, <2>1 DEF Own
<1>11. ASSUME NEW p \in Procs, UpdateExecs(p) PROVE PInv'
  <2>1. CASE /\ runs' = [runs EXCEPT ![p] = @ + 1]
             /\ NewImage(p, 1)
             /\ UNCHANGED <<Files, tmp, todo, abandoned>>
    BY <1>1, <1>2, <1>5, <1>11, <2>1 DEF UpdateExecs, Own
  <2>2. CASE UNCHANGED <<Files, tmp, pc, Image, todo, abandoned>>
    BY <1>1, <1>2, <1>8, <1>11, <2>2 DEF UpdateExecs
  <2> QED
    BY <1>11, <2>1, <2>2 DEF UpdateExecs
<1>12. ASSUME NEW p \in Procs, Environment(p) PROVE PInv'
  <2>1. CASE Start(p)
    BY <1>1, <1>2, <1>5, <2>1 DEF Start, Own
  <2>2. CASE Signal(p) \/ TouchLock(p)
    BY <1>2, <1>8, <1>9, <2>2 DEF Signal, TouchLock, Own
  <2>3. CASE Crash(p)
    <3>1. \A d \in OwnDirs(p) : d.path = Path(p)
      BY DEF OwnDirs
    <3> QED
      BY <1>3, <2>3, <3>1 DEF Crash
  <2>4. CASE UpdateCleans(p)
    <3>1. /\ tmp' \subseteq tmp /\ abandoned \subseteq abandoned'
          /\ \A d \in OwnDirs(p) : d \in tmp' => d.path \in abandoned'
      BY <1>cut, <2>4 DEF UpdateCleans
    <3>2. Let(p)'
      BY <2>4, <3>1 DEF UpdateCleans, Let, OwnDirs, Path
    <3> QED
      BY <1>1, <1>8, <2>4, <3>1, <3>2 DEF UpdateCleans
  <2>5. CASE Answer(p)
    BY <1>1, <1>2, <1>4, <1>6, <2>5 DEF Answer, InitSLog, Own
  <2> QED
    BY <1>12, <2>1, <2>2, <2>3, <2>4, <2>5 DEF Environment
<1>13. CASE UNCHANGED vars
  BY <1>13 DEF vars, PInv, Settled, Known, Carried, NoOrphans, Alive, Begun,
     Bare, NoneYet, Replacing, Let, Matches, HasDir, OwnDirs, Path
<1> QED
  BY <1>7, <1>10, <1>11, <1>12, <1>13 DEF Next

LEMMA PreparedInvariance == AllPrepared /\ Spec => [](IInv /\ PInv)
<1>1. AllPrepared /\ Init => PInv
  BY ConstantsAssumption DEF Init, PInv, Settled, Known, Unread, Carried,
     NoOrphans, Begun, Bare, NoneYet, HasDir, OwnDirs, Replacing, Matches
<1>2. IInv /\ PInv /\ [Next]_vars => PInv'
  <2> SUFFICES ASSUME IInv, PInv, [Next]_vars PROVE PInv'
    OBVIOUS
  <2>1. TypeOK /\ IdKnown /\ TypeOK'
    BY TypeKept DEF IInv
  <2> QED
    BY <2>1, PInvKept
<1> QED
  BY <1>1, <1>2, InitEstablishes, IInvKept, PTL DEF Spec

(* Where the uuid files are there, the guard does what README.md:34 says:  *)
(* of any number of processes no two serve, with their directories in      *)
(* place, under one identifier.                                            *)
THEOREM ServesAlone == AllPrepared /\ Spec => []OneServingPerId
<1>1. ASSUME TypeOK, PInv, NEW p \in Procs, pc[p] = "serve", HasDir(p)
      PROVE  InPlace(p)
  <2>1. PICK d \in tmp : d.path = Path(p)
    BY <1>1 DEF HasDir, OwnDirs
  <2>2. d.uuid = id[p] /\ d \in Dirs
    BY <1>1, <2>1 DEF PInv, Carried, Known, Unread, Path, TypeOK
  <2> QED
    BY <2>1, <2>2 DEF InPlace, Dirs
<1>2. IInv /\ PInv => OneServingPerId
  BY <1>1, IInvExcludes DEF IInv, OneServingPerId, HoldersExclusive
<1> QED
  BY <1>2, PreparedInvariance, PTL

(* Where the uuid files are there, every way in which a process ends takes *)
(* its runtime directory with it, but a kill, a Clean that fails and the   *)
(* places that `abandoned' records.                                        *)
THEOREM NothingOrphaned == AllPrepared /\ Spec => []NoOrphans
<1>1. IInv /\ PInv => NoOrphans
  BY DEF PInv
<1> QED
  BY <1>1, PreparedInvariance, PTL

(* Where the uuid files are there, a start is refused only for a living    *)
(* node of the same identifier or for an abandoned directory.              *)
THEOREM RefusalsExplained == AllPrepared /\ Spec => RefusalExplained
<1> DEFINE Explained(p) ==
      (pc[p] = "stat" /\ pc'[p] = "off" /\ Path(p) \notin abandoned') =>
         \E d \in tmp :
            /\ d.path \in todo[p] /\ d.uuid = id[p]
            /\ \/ d.path \in abandoned
               \/ d.path.proc # p /\ Alive(d.path)
<1>1. ASSUME IInv, PInv, [Next]_vars, NEW p \in Procs PROVE Explained(p)
  <2> SUFFICES ASSUME pc[p] = "stat", pc'[p] = "off", Path(p) \notin abandoned'
               PROVE  \E d \in tmp :
                         /\ d.path \in todo[p] /\ d.uuid = id[p]
                         /\ \/ d.path \in abandoned
                            \/ d.path.proc # p /\ Alive(d.path)
    OBVIOUS
  <2>1. PICK x \in todo[p] : Standing(x)
    <3> USE DEF Goto, Files, Image, Duties
    <3>1. pc \in [Procs -> PCs]
      BY <1>1 DEF IInv, TypeOK
    <3>2. ASSUME NEW q \in Procs, NEW l, l # "off", pc' = [pc EXCEPT ![q] = l]
          PROVE  FALSE
      BY <3>1, <3>2
    <3>3. ASSUME NEW q \in Procs, Ended(q) PROVE q = p
      BY <3>1, <3>3 DEF Ended
    <3>4. ASSUME NEW q \in Procs,
                 Fatal(q) \/ CleanFatal(q) \/ Fails(q) \/ CleanFails(q)
          PROVE  q = p
      BY <3>3, <3>4 DEF Fatal, CleanFatal, Fails, CleanFails
    <3>5. ASSUME NEW q \in Procs, Step(q) PROVE Stat(p)
      <4>1. CASE Stat(q)
        BY <3>1, <3>2, <3>4, <4>1 DEF Stat
      <4>2. CASE LoadConf(q) \/ ReadId(q) \/ OpenData(q) \/ WriteReadme(q)
                 \/ Reread(q)
        BY <3>2, <3>4, <4>2 DEF LoadConf, ReadId, OpenData, WriteReadme, Reread
      <4>3. CASE RemoveAll(q) \/ MkdirAll(q) \/ WriteData(q) \/ Create(q)
                 \/ Glob(q) \/ Shutdown(q)
        BY <3>2, <3>4, <4>3
           DEF RemoveAll, MkdirAll, WriteData, Create, Glob, Shutdown
      <4>4. CASE Copy(q) \/ SetLock(q) \/ Confirm(q) \/ Interrupted(q)
                 \/ OpenLock(q) \/ CleanExit(q)
        BY <3>2, <3>4, <4>4 DEF Copy, NewImage, SetLock, Confirm, InitSLog,
           Interrupted, OpenLock, CleanExit
      <4> QED
        BY <3>5, <4>1, <4>2, <4>3, <4>4 DEF Step
    <3>6. ASSUME NEW q \in Procs, Watcher(q) \/ UpdateExecs(q) PROVE FALSE
      BY <3>2, <3>6 DEF Watcher, WatchCleans, WatchCancels, UpdateExecs, NewImage
    <3>7. ASSUME NEW q \in Procs, Environment(q) PROVE FALSE
      <4>1. CASE Answer(q)
        BY <3>1, <3>2, <3>4, <4>1 DEF Answer, InitSLog
      <4>2. CASE ~Answer(q)
        BY <3>2, <3>3, <3>7, <4>2
           DEF Environment, Start, NewImage, Signal, TouchLock, Crash, UpdateCleans
      <4> QED
        BY <4>1, <4>2
    <3>8. Stat(p)
      BY <1>1, <3>5, <3>6, <3>7 DEF Next, vars
    <3> QED
      BY <3>1, <3>2, <3>8 DEF Stat
  <2>2. PICK d \in tmp : d.path = x
    BY <2>1 DEF Standing
  <2>3. x # Path(p) /\ d.uuid = id[p]
    BY <1>1, <2>1, <2>2 DEF PInv, Matches, Carried
  <2>4. CASE d.path \notin abandoned
    BY <1>1, <2>1, <2>2, <2>3, <2>4, OwnOnly DEF IInv, PInv, Alive
  <2> QED
    BY <2>1, <2>2, <2>3, <2>4
<1>2. IInv /\ PInv /\ [Next]_vars => [\A p \in Procs : Explained(p)]_vars
  BY <1>1
<1>3. Spec => [][Next]_vars
  BY DEF Spec
<1>4. AllPrepared /\ Spec => [][\A p \in Procs : Explained(p)]_vars
  BY <1>2, <1>3, PreparedInvariance, PTL
<1> QED
  BY <1>4 DEF RefusalExplained
=============================================================================
