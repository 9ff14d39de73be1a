--------------------------- MODULE SyncEngineProofs ---------------------------
(***************************************************************************)
(* What SyncEngine promises, for any number of machines, runners, paths    *)
(* and faults: types, the provenance of files and tombstones, the          *)
(* anti-wipe guard, the refinement of SharedFolder, and that tombstones    *)
(* outlive passes and crashes.                                             *)
(***************************************************************************)
EXTENDS SyncEngine, TLAPS

-----------------------------------------------------------------------------
(* Types.                                                                  *)

LEMMA RecordTypes ==
    /\ NoRecord \in Record
    /\ NoRecords \in Manifest
    /\ NoFile \in Version \union {NoFile}
    /\ \A t \in Int : Live(t) \in Record /\ Deleted(t) \in Record
    /\ \A t \in Int, c \in Content : File(t, c) \in Version
BY DEF NoRecord, NoRecords, Manifest, Record, NoFile, Live, Deleted, File, Version

LEMMA NoTaskType == NoTask \in Task
BY ConstantsAssumption DEF NoTask, Task, Content

LEMMA FileType ==
    ASSUME NEW folder \in Folder, NEW p \in Path, folder[p].kind = "live"
    PROVE  folder[p] \in Version
BY DEF Folder, NoFile

LEMMA DiskType ==
    ASSUME NEW d \in [Node -> Folder], NEW n \in Node, NEW p \in Path,
           NEW f \in Version \union {NoFile}
    PROVE  [d EXCEPT ![n][p] = f] \in [Node -> Folder]
BY DEF Folder

LEMMA BuildManifestType ==
    ASSUME NEW folder \in Folder, NEW clock
    PROVE  BuildManifest(folder, clock) \in Manifest
BY DEF BuildManifest, Manifest, Folder, Live, NoRecord, Record, Version, NoFile

LEMMA MergeManifestType ==
    ASSUME NEW base \in Manifest, NEW t \in Manifest
    PROVE  MergeManifest(base, t) \in Manifest
BY DEF MergeManifest, Manifest

LEMMA AddTombstoneType ==
    ASSUME NEW stored \in Manifest, NEW p \in Path, NEW t \in Int, NEW clock
    PROVE  AddTombstoneEntry(stored, p, t, clock) \in Manifest
BY RecordTypes DEF AddTombstoneEntry, Manifest

LEMMA RemoveTombstoneType ==
    ASSUME NEW stored \in Manifest, NEW p \in Path
    PROVE  RemoveTombstoneEntry(stored, p) \in Manifest
BY RecordTypes DEF RemoveTombstoneEntry, Manifest

LEMMA PlanType ==
    ASSUME NEW loc, NEW rem, NEW m
    PROVE  /\ SyncPlan(loc, rem, m).toPull \in SUBSET Path
           /\ SyncPlan(loc, rem, m).toDelete \in SUBSET Path
BY DEF SyncPlan, ApplyEmptyManifestGuard, ComputeDiff

LEMMA ServedType ==
    ASSUME TypeOK, NEW n \in Node
    PROVE  GetMergedManifest(n) \in Manifest
BY BuildManifestType, MergeManifestType DEF TypeOK, GetMergedManifest

LEMMA InitTypeOK == Init => TypeOK
BY ConstantsAssumption, EngineAssumption, RecordTypes, NoTaskType
DEF Init, TypeOK, Folder, PC, Version, NoFile, File, Content, Never

LEMMA HostType == \A r \in Runner : Host[r] \in Node
BY EngineAssumption

LEMMA ClockType == ASSUME TypeOK, NEW n \in Node PROVE Clock(n) \in Int
BY EngineAssumption DEF TypeOK, Clock

LEMMA GoOnType ==
    ASSUME TypeOK, NEW r \in Runner, NEW rest \in Seq(Node), GoOn(r, rest)
    PROVE  /\ todo' \in [Runner -> Seq(Node)]
           /\ pc' \in [Runner -> PC]
           /\ batch' \in [Runner -> SUBSET Path]
           /\ pending' \in [Node -> SUBSET Path]
BY HostType DEF TypeOK, GoOn, PC

LEMMA EndRoundType ==
    ASSUME TypeOK, NEW r \in Runner, todo[r] # <<>>, EndRound(r)
    PROVE  TypeOK'
<1>1. Tail(todo[r]) \in Seq(Node)
  BY DEF TypeOK
<1>2. GoOn(r, Tail(todo[r]))
  BY DEF EndRound
<1> QED
  BY <1>1, <1>2, GoOnType, RecordTypes, NoTaskType
  DEF TypeOK, EndRound, userVars, confVars, Manifest

Typed == TypeOK /\ InRound

LEMMA EndRoundTyped ==
    ASSUME Typed, NEW r \in Runner, pc[r] # "idle", EndRound(r)
    PROVE  Typed'
<1>1. TypeOK'
  BY EndRoundType DEF Typed, InRound
<1>2. InRound'
  BY DEF Typed, TypeOK, InRound, EndRound, GoOn
<1> QED
  BY <1>1, <1>2 DEF Typed

LEMMA UserTyped ==
    ASSUME Typed, User \/ Tick
    PROVE  Typed'
<1> USE DEF Typed, TypeOK, InRound, nodeVars, confVars, roundVars, userVars
<1>1. ASSUME NEW n \in Node, NEW p \in Edited, UserWrite(n, p) PROVE Typed'
  <2>1. now \in Nat /\ now' = now + 1 /\ Skew[n] \in Int
    BY <1>1, EngineAssumption DEF UserWrite
  <2>2. File(now' + Skew[n], now') \in Version
    BY <2>1, RecordTypes DEF Content
  <2> QED
    BY <1>1, <2>1, <2>2, EngineAssumption DEF UserWrite, Folder
<1>2. ASSUME NEW n \in Node, NEW p \in Edited, UserDelete(n, p) PROVE Typed'
  BY <1>2, EngineAssumption DEF UserDelete, Folder
<1>3. ASSUME NEW n \in Node, SetAllowRemoteDeletes(n) PROVE Typed'
  BY <1>3 DEF SetAllowRemoteDeletes
<1>4. ASSUME NEW n \in Node, NEW m \in Roles, SetMode(n, m) PROVE Typed'
  BY <1>4 DEF SetMode
<1>5. CASE Tick
  BY <1>5 DEF Tick
<1> QED
  BY <1>1, <1>2, <1>3, <1>4, <1>5 DEF User

LEMMA WatcherTyped ==
    ASSUME Typed, NEW n \in Node, NEW p \in Path,
           WatchEvent(n, p) \/ LoseEvent(n, p) \/ Restart(n)
    PROVE  Typed'
<1> USE DEF Typed, TypeOK, InRound, nodeVars, confVars, roundVars, userVars
<1>1. CASE WatchEvent(n, p)
  BY <1>1 DEF WatchEvent
<1>2. CASE LoseEvent(n, p)
  BY <1>2 DEF LoseEvent
<1>3. CASE Restart(n)
  BY <1>3, RecordTypes, NoTaskType DEF Restart, PC
<1> QED
  BY <1>1, <1>2, <1>3

LEMMA OriginateTyped ==
    ASSUME Typed, NEW r \in Runner, NEW p \in Path,
           \/ StartPass(r) \/ OriginateProbe(r, p) \/ SaveTombstone(r)
           \/ SetTombstone(r) \/ SaveFail(r) \/ LocalManifest(r)
    PROVE  Typed'
<1> DEFINE n == Host[r]
<1> USE DEF Typed, TypeOK, InRound, nodeVars, confVars, roundVars, userVars
<1>1. n \in Node /\ Clock(n) \in Int
  BY HostType, ClockType
<1>2. CASE StartPass(r)
  <2> DEFINE rest == IF mode[n] = "slave" THEN <<Head(Peers[n])>> ELSE Peers[n]
  <2>1. rest \in Seq(Node) /\ rest # <<>> /\ GoOn(r, rest)
    BY <1>1, <1>2, EngineAssumption DEF StartPass
  <2> HIDE DEF rest
  <2>2. InRound'
    BY <2>1 DEF GoOn
  <2>3. /\ todo' \in [Runner -> Seq(Node)]
        /\ pc' \in [Runner -> PC]
        /\ batch' \in [Runner -> SUBSET Path]
        /\ pending' \in [Node -> SUBSET Path]
    BY <2>1, GoOnType
  <2> QED
    BY <1>2, <2>2, <2>3 DEF StartPass
<1>3. CASE OriginateProbe(r, p)
  <2>1. [path |-> p, mtime |-> Clock(n), content |-> 0, back |-> "originate"]
            \in Task
    BY <1>1 DEF Task, Content
  <2> QED
    BY <1>3, <2>1 DEF OriginateProbe, PC
<1>4. CASE SaveTombstone(r)
  <2>1. AddTombstoneEntry(store[n], cur[r].path, cur[r].mtime, Clock(n))
            \in Manifest
    BY <1>1, AddTombstoneType DEF Task
  <2> QED
    BY <1>1, <1>4, <2>1 DEF SaveTombstone, PC
<1>5. CASE SetTombstone(r)
  <2>1. Deleted(cur[r].mtime) \in Record /\ cur[r].path \in Path
    BY RecordTypes DEF Task
  <2> QED
    BY <1>1, <1>5, <2>1, NoTaskType DEF SetTombstone, PC, Manifest, Task
<1>6. CASE SaveFail(r)
  <2>1. CASE EndRound(r)
    BY <1>6, <2>1, EndRoundTyped DEF SaveFail
  <2>2. CASE ~EndRound(r)
    <3>1. cur[r].back \in PC /\ pc[r] # "idle"
      BY <1>6 DEF SaveFail, Task, PC
    <3>2. /\ pc' = [pc EXCEPT ![r] = cur[r].back]
          /\ cur' = [cur EXCEPT ![r] = NoTask]
          /\ UNCHANGED <<userVars, nodeVars, confVars, todo, batch, local,
                         remote, pulls, dels>>
      BY <1>6, <2>2 DEF SaveFail
    <3> QED
      BY <3>1, <3>2, NoTaskType
  <2> QED
    BY <2>1, <2>2
<1>7. CASE LocalManifest(r)
  BY <1>1, <1>7, ServedType DEF LocalManifest, PC
<1> QED
  BY <1>2, <1>3, <1>4, <1>5, <1>6, <1>7

LEMMA PullTyped ==
    ASSUME Typed, NEW r \in Runner, NEW p \in Path,
           \/ FetchManifest(r) \/ FetchFail(r) \/ PullRequest(r, p)
           \/ PullTear(r) \/ PullFail(r) \/ PullRename(r) \/ PullStamp(r)
           \/ ForgetTombstone(r)
    PROVE  Typed'
<1> DEFINE n == Host[r]
<1> USE DEF Typed, TypeOK, InRound, nodeVars, confVars, roundVars, userVars
<1>1. n \in Node /\ Clock(n) \in Int /\ cur[r].path \in Path
  BY HostType, ClockType DEF Task
<1>2. pc[r] # "idle" => Head(todo[r]) \in Node
  OBVIOUS
<1>3. CASE FetchManifest(r)
  <2>1. GetMergedManifest(Head(todo[r])) \in Manifest
    BY <1>2, <1>3, ServedType DEF FetchManifest
  <2> QED
    BY <1>3, <2>1, PlanType, RecordTypes DEF FetchManifest, PC
<1>4. CASE FetchFail(r)
  BY <1>4, EndRoundTyped DEF FetchFail
<1>5. CASE PullRequest(r, p)
  <2> DEFINE file == disk[Head(todo[r])][p]
  <2>1. file.kind = "live" =>
            [path |-> p, mtime |-> file.mtime, content |-> file.content,
             back |-> "pull"] \in Task
    BY <1>2, <1>5 DEF PullRequest, Folder, Version, NoFile, Task
  <2> QED
    BY <1>5, <2>1 DEF PullRequest, PC
<1>6. CASE PullTear(r)
  BY <1>6 DEF PullTear, Task, Content
<1>7. CASE PullFail(r)
  BY <1>7, NoTaskType DEF PullFail, PC
<1>8. CASE PullRename(r)
  <2>1. File(Clock(n), cur[r].content) \in Version
    BY <1>1, RecordTypes DEF Task
  <2> QED
    BY <1>1, <1>8, <2>1 DEF PullRename, PC, Folder
<1>9. CASE PullStamp(r)
  <2> DEFINE file == disk[n][cur[r].path]
  <2>1. CASE file.kind = "live"
    <3>1. file \in Version /\ cur[r].mtime \in Int
      BY <1>1, <2>1, FileType DEF Task
    <3>2. File(cur[r].mtime, file.content) \in Version
      BY <3>1, RecordTypes DEF Version
    <3>3. disk' = [disk EXCEPT ![n][cur[r].path] = File(cur[r].mtime, file.content)]
      BY <1>9, <2>1 DEF PullStamp
    <3>4. /\ tombs' = [tombs EXCEPT ![n][cur[r].path] = NoRecord] \/ UNCHANGED tombs
          /\ \/ pc' = [pc EXCEPT ![r] = "untomb"] /\ UNCHANGED cur
             \/ /\ pc' = [pc EXCEPT ![r] = "pull"]
                /\ cur' = [cur EXCEPT ![r] = NoTask]
          /\ UNCHANGED <<userVars, store, pending, events, confVars, todo,
                         batch, local, remote, pulls, dels>>
          /\ pc[r] # "idle"
      BY <1>9 DEF PullStamp
    <3>5. disk' \in [Node -> Folder]
      BY <1>1, <3>2, <3>3, DiskType
    <3>6. tombs' \in [Node -> Manifest]
      <4>1. CASE tombs' = [tombs EXCEPT ![n][cur[r].path] = NoRecord]
        BY <1>1, <4>1, RecordTypes DEF Manifest
      <4>2. CASE tombs' = tombs
        BY <4>2
      <4> QED
        BY <3>4, <4>1, <4>2
    <3> QED
      BY <3>4, <3>5, <3>6, NoTaskType DEF PC
  <2>2. CASE file.kind # "live"
    BY <1>9, <2>2, NoTaskType DEF PullStamp, PC
  <2> QED
    BY <2>1, <2>2
<1>10. CASE ForgetTombstone(r)
  BY <1>1, <1>10, RemoveTombstoneType, NoTaskType DEF ForgetTombstone, PC
<1> QED
  BY <1>3, <1>4, <1>5, <1>6, <1>7, <1>8, <1>9, <1>10

LEMMA DeleteTyped ==
    ASSUME Typed, NEW r \in Runner, NEW p \in Path,
           DeleteGate(r) \/ DeleteLocal(r, p) \/ UnlinkFail(r, p) \/ DeleteDone(r)
    PROVE  Typed'
<1> DEFINE n == Host[r]
<1> USE DEF Typed, TypeOK, InRound, nodeVars, confVars, roundVars, userVars
<1>1. n \in Node
  BY HostType
<1>2. CASE DeleteGate(r)
  <2>1. CASE EndRound(r)
    BY <1>2, <2>1, EndRoundTyped DEF DeleteGate
  <2>2. CASE ~EndRound(r)
    BY <1>2, <2>2 DEF DeleteGate, PC
  <2> QED
    BY <2>1, <2>2
<1>3. CASE DeleteLocal(r, p)
  <2>1. [path |-> p, mtime |-> remote[r][p].mtime, content |-> 0,
         back |-> "delete"] \in Task
    BY DEF Manifest, Record, Task, Content
  <2>2. disk' \in [Node -> Folder] /\ events' \in [Node -> SUBSET Path]
    <3>1. \/ /\ disk' = [disk EXCEPT ![n][p] = NoFile]
             /\ events' = [events EXCEPT ![n] = @ \union {p}]
          \/ UNCHANGED <<disk, events>>
      BY <1>3 DEF DeleteLocal
    <3>2. [disk EXCEPT ![n][p] = NoFile] \in [Node -> Folder]
      BY <1>1, DiskType
    <3>3. disk \in [Node -> Folder] /\ events \in [Node -> SUBSET Path]
      OBVIOUS
    <3>4. [events EXCEPT ![n] = @ \union {p}] \in [Node -> SUBSET Path]
      BY <1>1, <3>3
    <3> QED
      BY <3>1, <3>2, <3>3, <3>4, Zenon
  <2>3. /\ pc' \in [Runner -> PC]
        /\ cur' \in [Runner -> Task]
        /\ dels' \in [Runner -> SUBSET Path]
        /\ InRound'
    BY <1>3, <2>1 DEF DeleteLocal, PC
  <2> QED
    BY <1>3, <2>2, <2>3 DEF DeleteLocal
<1>4. CASE DeleteDone(r)
  BY <1>4, EndRoundTyped DEF DeleteDone
<1>5. CASE UnlinkFail(r, p)
  BY <1>5 DEF UnlinkFail
<1> QED
  BY <1>2, <1>3, <1>4, <1>5

LEMMA TypedStep == Typed /\ [Next]_vars => Typed'
<1> SUFFICES ASSUME Typed, [Next]_vars PROVE Typed'
  OBVIOUS
<1>1. PICK p0 \in Path : TRUE
  BY ConstantsAssumption
<1>2. ASSUME NEW r \in Runner, EngineStep(r) PROVE Typed'
  BY <1>1, <1>2, OriginateTyped, PullTyped, DeleteTyped DEF EngineStep
<1>3. ASSUME NEW n \in Node, WatcherStep(n) PROVE Typed'
  BY <1>3, WatcherTyped DEF WatcherStep
<1>4. CASE Fault
  BY <1>1, <1>4, WatcherTyped, OriginateTyped, PullTyped, DeleteTyped DEF Fault
<1>5. CASE UNCHANGED vars
  BY <1>5 DEF Typed, TypeOK, InRound, vars, userVars, nodeVars, confVars,
              roundVars
<1> QED
  BY <1>2, <1>3, <1>4, <1>5, UserTyped DEF Next

\* Every variable always has its type.
THEOREM TypeCorrect == Spec => []TypeOK
<1>1. Init => Typed
  BY InitTypeOK DEF Init, Typed, InRound
<1>2. Typed => TypeOK
  BY DEF Typed
<1> QED
  BY <1>1, <1>2, TypedStep, PTL DEF Spec

-----------------------------------------------------------------------------
(* The anti-wipe guard.                                                    *)

LEMMA PlanGuarded ==
    ASSUME NEW loc, NEW rem, NEW m, SyncPlan(loc, rem, m).toDelete # {}
    PROVE  HasLiveRecord(rem)
<1>1. CASE HasLiveRecord(rem)
  BY <1>1
<1>2. CASE ~HasLiveRecord(rem)
  <2>1. SyncPlan(loc, rem, m).toDelete = {}
    BY <1>2 DEF SyncPlan, ApplyEmptyManifestGuard, ComputeDiff
  <2> QED
    BY <2>1
<1> QED
  BY <1>1, <1>2

LEMMA EndRoundClears ==
    ASSUME Typed, NEW r \in Runner, EndRound(r)
    PROVE  /\ dels' = [dels EXCEPT ![r] = {}]
           /\ remote' = [remote EXCEPT ![r] = NoRecords]
           /\ cur' = [cur EXCEPT ![r] = NoTask]
           /\ pc' = [pc EXCEPT ![r] = "idle"] \/ pc' = [pc EXCEPT ![r] = "originate"]
           /\ UNCHANGED <<userVars, disk, store, tombs, events, confVars>>
BY DEF EndRound, GoOn

LEMMA GuardedStep == Typed /\ Guarded /\ [Next]_vars => Guarded'
<1> SUFFICES ASSUME Typed, Guarded, [Next]_vars PROVE Guarded'
  OBVIOUS
<1> USE DEF Guarded
<1>1. ASSUME UNCHANGED <<dels, remote>> PROVE Guarded'
  BY <1>1 DEF HasLiveRecord
<1>2. ASSUME NEW r \in Runner, EndRound(r) PROVE Guarded'
  BY <1>2, EndRoundClears DEF Typed, TypeOK, HasLiveRecord
<1>3. ASSUME NEW r \in Runner, EngineStep(r) PROVE Guarded'
  <2>1. CASE FetchManifest(r)
    <3> DEFINE answer == GetMergedManifest(Head(todo[r]))
               plan == SyncPlan(local[r], answer, mode[Host[r]])
    <3>1. /\ dels' = [dels EXCEPT ![r] = plan.toDelete]
          /\ remote' = [remote EXCEPT ![r] =
                 IF plan.toDelete = {} THEN NoRecords ELSE answer]
      BY <2>1 DEF FetchManifest
    <3>2. plan.toDelete # {} => HasLiveRecord(answer)
      BY PlanGuarded
    <3>3. /\ dels \in [Runner -> SUBSET Path]
          /\ remote \in [Runner -> Manifest]
      BY DEF Typed, TypeOK
    <3> HIDE DEF answer, plan
    <3> QED
      BY <3>1, <3>2, <3>3 DEF HasLiveRecord
  <2>2. CASE DeleteGate(r)
    BY <1>1, <1>2, <2>2 DEF DeleteGate
  <2>3. ASSUME NEW p \in Path, DeleteLocal(r, p) PROVE Guarded'
    BY <2>3 DEF DeleteLocal, Typed, TypeOK, HasLiveRecord
  <2>4. CASE DeleteDone(r)
    BY <1>2, <2>4 DEF DeleteDone
  <2>5. CASE \/ StartPass(r) \/ SaveTombstone(r) \/ SetTombstone(r)
             \/ LocalManifest(r) \/ PullRename(r) \/ PullStamp(r)
             \/ ForgetTombstone(r)
             \/ \E p \in Path : OriginateProbe(r, p) \/ PullRequest(r, p)
    BY <1>1, <2>5 DEF StartPass, SaveTombstone, SetTombstone, LocalManifest,
       PullRename, PullStamp, ForgetTombstone, OriginateProbe, PullRequest
  <2> QED
    BY <1>3, <2>1, <2>2, <2>3, <2>4, <2>5 DEF EngineStep
<1>4. CASE Fault
  <2>1. ASSUME NEW n \in Node, Restart(n) PROVE Guarded'
    BY <2>1 DEF Restart, Typed, TypeOK, HasLiveRecord
  <2>2. ASSUME NEW r \in Runner, SaveFail(r) \/ FetchFail(r) PROVE Guarded'
    BY <1>1, <1>2, <2>2 DEF SaveFail, FetchFail
  <2>3. ASSUME NEW r \in Runner, PullFail(r) \/ PullTear(r) PROVE Guarded'
    BY <1>1, <2>3 DEF PullFail, PullTear
  <2>4. ASSUME NEW n \in Node, NEW p \in Path, LoseEvent(n, p) PROVE Guarded'
    BY <1>1, <2>4 DEF LoseEvent, roundVars
  <2>5. ASSUME NEW r \in Runner, NEW p \in Path, UnlinkFail(r, p) PROVE Guarded'
    BY <2>5 DEF UnlinkFail, Typed, TypeOK, HasLiveRecord
  <2> QED
    BY <1>4, <2>1, <2>2, <2>3, <2>4, <2>5 DEF Fault
<1>5. CASE User \/ Tick \/ UNCHANGED vars \/ \E n \in Node : WatcherStep(n)
  BY <1>1, <1>5 DEF User, UserWrite, UserDelete, SetAllowRemoteDeletes, SetMode,
     Tick, WatcherStep, WatchEvent, vars, roundVars
<1> QED
  BY <1>3, <1>4, <1>5 DEF Next

\* Every step but these leaves the folders alone.
LEMMA FolderSteps ==
    ASSUME [Next]_vars, disk' # disk
    PROVE  \/ \E n \in Node, p \in Edited : UserWrite(n, p) \/ UserDelete(n, p)
           \/ \E r \in Runner : PullRename(r) \/ PullStamp(r)
           \/ \E r \in Runner, p \in Path : DeleteLocal(r, p)
<1> USE DEF userVars, nodeVars, confVars, roundVars
<1>1. ASSUME NEW r \in Runner, EndRound(r) PROVE disk' = disk
  BY <1>1 DEF EndRound
<1>2. ASSUME NEW r \in Runner, EngineStep(r)
      PROVE  \/ disk' = disk \/ PullRename(r) \/ PullStamp(r)
             \/ \E p \in Path : DeleteLocal(r, p)
  BY <1>1, <1>2 DEF EngineStep, StartPass, OriginateProbe, SaveTombstone,
     SetTombstone, LocalManifest, FetchManifest, PullRequest, ForgetTombstone,
     DeleteGate, DeleteDone
<1>3. Fault => disk' = disk
  BY <1>1 DEF Fault, Restart, LoseEvent, SaveFail, FetchFail, PullFail, PullTear,
     UnlinkFail
<1>4. User => \/ disk' = disk
              \/ \E n \in Node, p \in Edited : UserWrite(n, p) \/ UserDelete(n, p)
  BY DEF User, SetAllowRemoteDeletes, SetMode
<1>5. Tick \/ UNCHANGED vars \/ (\E n \in Node : WatcherStep(n)) => disk' = disk
  BY DEF Tick, vars, WatcherStep, WatchEvent
<1> QED
  BY <1>2, <1>3, <1>4, <1>5 DEF Next

\* No engine removes a file on the word of a peer without a live file.
THEOREM AntiWipe == Spec => NoWipe
<1> DEFINE Clean == \A n \in Node, p \in Path : RemovedBySync(n, p) =>
               \E r \in Runner : /\ Host[r] = n
                                  /\ p \in dels[r]
                                  /\ HasLiveRecord(remote[r])
<1>1. Init => Typed /\ Guarded
  BY InitTypeOK DEF Init, Typed, InRound, Guarded
<1>2. Typed /\ Guarded /\ [Next]_vars => (Typed /\ Guarded)'
  BY TypedStep, GuardedStep
<1>3. Typed /\ Guarded /\ [Next]_vars => [Clean]_vars
  <2> SUFFICES ASSUME Typed, Guarded, [Next]_vars,
                      NEW n \in Node, NEW p \in Path, RemovedBySync(n, p)
               PROVE  \E r \in Runner : /\ Host[r] = n
                                         /\ p \in dels[r]
                                         /\ HasLiveRecord(remote[r])
    OBVIOUS
  <2>1. /\ disk' # disk
        /\ disk[n][p] # NoFile /\ disk'[n][p] = NoFile /\ ~UserDelete(n, p)
    BY DEF RemovedBySync
  <2>2. disk \in [Node -> [Path -> Version \union {NoFile}]]
    BY DEF Typed, TypeOK, Folder
  <2>3. \A t, c : File(t, c) # NoFile
    BY DEF File, NoFile
  <2>4. ASSUME NEW m \in Node, NEW q \in Edited, UserWrite(m, q) PROVE FALSE
    BY <2>1, <2>2, <2>3, <2>4 DEF UserWrite
  <2>5. ASSUME NEW m \in Node, NEW q \in Edited, UserDelete(m, q) PROVE FALSE
    <3>1. disk' = [disk EXCEPT ![m][q] = NoFile]
      BY <2>5 DEF UserDelete
    <3>2. m = n /\ q = p
      BY <2>1, <2>2, <3>1
    <3> QED
      BY <2>1, <2>5, <3>2
  <2>6. ASSUME NEW r \in Runner, PullRename(r) \/ PullStamp(r) PROVE FALSE
    <3>1. PICK t, c : disk' = [disk EXCEPT ![Host[r]][cur[r].path] = File(t, c)]
      BY <2>1, <2>6 DEF PullRename, PullStamp
    <3> QED
      BY <2>1, <2>2, <2>3, <3>1
  <2>7. ASSUME NEW r \in Runner, NEW q \in Path, DeleteLocal(r, q)
        PROVE  Host[r] = n /\ p \in dels[r]
    BY <2>1, <2>2, <2>7 DEF DeleteLocal
  <2>8. PICK r \in Runner, q \in Path : DeleteLocal(r, q)
    BY <2>1, <2>4, <2>5, <2>6, FolderSteps
  <2> QED
    BY <2>7, <2>8 DEF Guarded
<1> QED
  BY <1>1, <1>2, <1>3, PTL DEF Spec, NoWipe

-----------------------------------------------------------------------------
(* Tombstones are never made up, where no machine is a slave.              *)

LEMMA PlanDeletes ==
    ASSUME NEW loc, NEW rem, NEW m, m # "slave",
           NEW p \in SyncPlan(loc, rem, m).toDelete
    PROVE  rem[p].kind = "deleted"
<1>1. p \in ComputeDiff(loc, rem, m).toDelete
  BY DEF SyncPlan, ApplyEmptyManifestGuard, ComputeDiff
<1> QED
  BY <1>1 DEF ComputeDiff, MergeDelete

LEMMA ServedDeletes ==
    ASSUME NEW n \in Node, NEW p \in Path,
           GetMergedManifest(n)[p].kind = "deleted"
    PROVE  tombs[n][p].kind = "deleted"
BY DEF GetMergedManifest, MergeManifest, BuildManifest, Live, NoRecord

LEMMA AddedTombstone ==
    ASSUME NEW stored, NEW p \in Path, NEW t, NEW clock, NEW q \in Path,
           AddTombstoneEntry(stored, p, t, clock)[q].kind = "deleted"
    PROVE  q = p \/ stored[q].kind = "deleted"
BY DEF AddTombstoneEntry, Deleted, NoRecord

LEMMA CondemnedGrows ==
    ASSUME Typed, [Next]_vars
    PROVE  Condemned \subseteq Condemned'
<1> USE DEF Condemned, Typed, TypeOK
<1>1. ASSUME NEW n \in Node, NEW p \in Edited, UserDelete(n, p)
      PROVE  Condemned \subseteq Condemned'
  BY <1>1 DEF UserDelete, Never
<1>2. ASSUME erased' = erased PROVE Condemned \subseteq Condemned'
  BY <1>2
<1>3. ASSUME NEW r \in Runner, EndRound(r) PROVE erased' = erased
  BY <1>3 DEF EndRound, userVars
<1>4. ASSUME NEW r \in Runner, EngineStep(r) PROVE erased' = erased
  BY <1>3, <1>4 DEF userVars, EngineStep, StartPass, OriginateProbe, SaveTombstone,
     SetTombstone, LocalManifest, FetchManifest, PullRequest, PullRename,
     PullStamp, ForgetTombstone, DeleteGate, DeleteLocal, DeleteDone
<1>5. Fault => erased' = erased
  BY <1>3 DEF userVars, Fault, Restart, LoseEvent, SaveFail, FetchFail, PullFail,
     PullTear, UnlinkFail
<1>6. Tick \/ UNCHANGED vars \/ (\E n \in Node : WatcherStep(n)) => erased' = erased
  BY DEF Tick, vars, userVars, WatcherStep, WatchEvent
<1>7. User => \/ erased' = erased
              \/ \E n \in Node, p \in Edited : UserDelete(n, p)
  BY DEF userVars, User, UserWrite, SetAllowRemoteDeletes, SetMode
<1> QED
  BY <1>1, <1>2, <1>4, <1>5, <1>6, <1>7 DEF Next

LEMMA ProvenanceFrame ==
    ASSUME Provenance, Condemned \subseteq Condemned',
           UNCHANGED <<tombs, store, pending, events, pc, batch, remote, dels, cur>>
    PROVE  Provenance'
BY DEF Provenance, NoPhantomTombstone

LEMMA ProvenanceEndRound ==
    ASSUME Typed, Provenance, NEW r \in Runner, EndRound(r),
           Condemned \subseteq Condemned'
    PROVE  Provenance'
<1>1. /\ pc'[r] \notin {"save", "set"}
      /\ \A q \in Runner \ {r} : pc'[q] = pc[q] /\ batch'[q] = batch[q]
      /\ batch'[r] \subseteq pending[Host[r]]
      /\ \A n \in Node : pending'[n] \subseteq pending[n]
  BY HostType DEF EndRound, GoOn, Typed, TypeOK
<1>2. /\ \A q \in Runner \ {r} : dels'[q] = dels[q] /\ cur'[q] = cur[q]
                                 /\ remote'[q] = remote[q]
      /\ dels'[r] = {} /\ remote'[r] = NoRecords
      /\ UNCHANGED <<tombs, store, events>>
  BY DEF EndRound, Typed, TypeOK
<1> QED
  BY <1>1, <1>2, HostType DEF Provenance, NoPhantomTombstone, NoRecords, NoRecord

LEMMA ProvenanceStep ==
    ASSUME "slave" \notin Roles, Typed, Provenance, [Next]_vars
    PROVE  Provenance'
<1>1. Condemned \subseteq Condemned'
  BY CondemnedGrows
<1>2. ASSUME UNCHANGED <<tombs, store, pending, events, pc, batch, remote, dels, cur>>
      PROVE  Provenance'
  BY <1>1, <1>2, ProvenanceFrame
<1>3. ASSUME NEW r \in Runner, EndRound(r) PROVE Provenance'
  BY <1>1, <1>3, ProvenanceEndRound
<1> USE DEF Provenance, NoPhantomTombstone
<1>4. CASE User
  <2>1. ASSUME NEW n \in Node, NEW p \in Edited, UserDelete(n, p)
        PROVE  Provenance'
    <3>1. events' = [events EXCEPT ![n] = @ \union {p}] /\ p \in Condemned'
      BY <2>1, EngineAssumption
      DEF UserDelete, Condemned, Never, Typed, TypeOK
    <3>2. UNCHANGED <<tombs, store, pending, pc, batch, remote, dels, cur>>
      BY <2>1 DEF UserDelete, roundVars
    <3> QED
      BY <1>1, <3>1, <3>2 DEF Typed, TypeOK
  <2> QED
    BY <1>2, <1>4, <2>1 DEF User, UserWrite, SetAllowRemoteDeletes, SetMode,
       nodeVars, roundVars
<1>5. ASSUME NEW n \in Node, NEW p \in Path, WatchEvent(n, p) \/ LoseEvent(n, p)
      PROVE  Provenance'
  <2>1. \A m \in Node : pending'[m] \union events'[m]
                            \subseteq pending[m] \union events[m]
    <3>1. /\ events' = [events EXCEPT ![n] = @ \ {p}]
          /\ \/ pending' = pending
             \/ pending' = [pending EXCEPT ![n] = @ \union {p}]
          /\ p \in events[n]
      BY <1>5 DEF WatchEvent, LoseEvent
    <3>2. events \in [Node -> SUBSET Path] /\ pending \in [Node -> SUBSET Path]
      BY DEF Typed, TypeOK
    <3> QED
      BY <3>1, <3>2
  <2>2. UNCHANGED <<tombs, store, pc, batch, remote, dels, cur>>
    BY <1>5 DEF WatchEvent, LoseEvent, roundVars
  <2> QED
    BY <1>1, <2>1, <2>2
<1>6. ASSUME NEW n \in Node, Restart(n) PROVE Provenance'
  <2>1. /\ tombs' = [tombs EXCEPT ![n] = store[n]]
        /\ pending' = [pending EXCEPT ![n] = {}]
        /\ events' = [events EXCEPT ![n] = {}]
        /\ store' = store
    BY <1>6 DEF Restart
  <2>2. \A r \in Runner :
            \/ pc'[r] = pc[r] /\ batch'[r] = batch[r] /\ dels'[r] = dels[r]
               /\ cur'[r] = cur[r] /\ remote'[r] = remote[r]
            \/ pc'[r] = "idle" /\ batch'[r] = {} /\ dels'[r] = {}
               /\ remote'[r] = NoRecords
    BY <1>6 DEF Restart
  <2>3. \A m \in Node : pending'[m] \union events'[m] \subseteq Condemned'
    BY <1>1, <2>1 DEF Typed, TypeOK
  <2>4. \A m \in Node, p \in Path :
            tombs'[m][p].kind = "deleted" \/ store'[m][p].kind = "deleted"
                => p \in Condemned'
    BY <1>1, <2>1 DEF Typed, TypeOK
  <2>5. \A r \in Runner, p \in Path :
            remote'[r][p].kind = "deleted" => p \in Condemned'
    BY <1>1, <2>2 DEF NoRecords, NoRecord
  <2>6. \A r \in Runner :
            /\ batch'[r] \union dels'[r] \subseteq Condemned'
            /\ pc'[r] \in {"save", "set"} => cur'[r].path \in Condemned'
    BY <1>1, <2>2
  <2> QED
    BY <2>3, <2>4, <2>5, <2>6
<1>7. ASSUME NEW r \in Runner,
             \/ EngineStep(r) \/ SaveFail(r) \/ FetchFail(r)
             \/ PullFail(r) \/ PullTear(r)
             \/ \E p \in Path : UnlinkFail(r, p)
      PROVE  Provenance'
  <2> DEFINE n == Host[r]
  <2> USE DEF userVars, nodeVars, confVars
  <2>1. n \in Node /\ cur[r].path \in Path
    BY HostType DEF Typed, TypeOK, Task
  <2>2. CASE StartPass(r)
    <3>1. PICK rest : GoOn(r, rest)
      BY <2>2 DEF StartPass
    <3>2. /\ pc'[r] \notin {"save", "set"}
          /\ \A q \in Runner \ {r} : pc'[q] = pc[q] /\ batch'[q] = batch[q]
          /\ batch'[r] \subseteq pending[n]
          /\ \A m \in Node : pending'[m] \subseteq pending[m]
      BY <2>1, <3>1 DEF GoOn, Typed, TypeOK
    <3> QED
      BY <1>1, <2>1, <2>2, <3>2 DEF StartPass
  <2>3. ASSUME NEW p \in Path, OriginateProbe(r, p) PROVE Provenance'
    <3>1. p \in Condemned'
      BY <1>1, <2>3 DEF OriginateProbe
    <3>2. /\ batch' = [batch EXCEPT ![r] = @ \ {p}]
          /\ \/ UNCHANGED <<pc, cur>>
             \/ /\ pc' = [pc EXCEPT ![r] = "save"]
                /\ \E t : cur' = [cur EXCEPT ![r] = [path |-> p, mtime |-> t,
                                     content |-> 0, back |-> "originate"]]
          /\ UNCHANGED <<tombs, store, pending, events, remote, dels>>
      BY <2>3 DEF OriginateProbe
    <3>3. \A q \in Runner :
              /\ batch'[q] \subseteq batch[q]
              /\ pc'[q] \in {"save", "set"} =>
                    cur'[q].path = p \/ (pc[q] = pc'[q] /\ cur'[q] = cur[q])
      BY <3>2 DEF Typed, TypeOK
    <3> QED
      BY <1>1, <3>1, <3>2, <3>3
  <2>4. CASE SaveTombstone(r)
    <3>1. cur[r].path \in Condemned
      BY <2>4 DEF SaveTombstone
    <3>2. \A p \in Path : store'[n][p].kind = "deleted" =>
              p = cur[r].path \/ store[n][p].kind = "deleted"
      BY <2>1, <2>4, AddedTombstone DEF SaveTombstone, Typed, TypeOK
    <3>3. /\ \A m \in Node \ {n} : store'[m] = store[m]
          /\ pc' = [pc EXCEPT ![r] = "set"]
          /\ UNCHANGED <<tombs, pending, events, batch, remote, dels, cur>>
      BY <2>4 DEF SaveTombstone, Typed, TypeOK
    <3> QED
      BY <1>1, <3>1, <3>2, <3>3 DEF Typed, TypeOK
  <2>5. CASE SetTombstone(r)
    <3>1. cur[r].path \in Condemned
      BY <2>5 DEF SetTombstone
    <3>2. /\ \A m \in Node, p \in Path : tombs'[m][p] = tombs[m][p]
                                         \/ (m = n /\ p = cur[r].path)
          /\ UNCHANGED <<store, pending, events, batch, remote, dels>>
      BY <2>1, <2>5 DEF SetTombstone, Typed, TypeOK, Manifest
    <3>3. \A q \in Runner : pc'[q] \in {"save", "set"} =>
              pc[q] = pc'[q] /\ cur'[q] = cur[q]
      BY <2>5 DEF SetTombstone, Typed, TypeOK, Task
    <3> QED
      BY <1>1, <3>1, <3>2, <3>3
  <2>6. CASE LocalManifest(r)
    BY <1>1, <2>6 DEF LocalManifest, Typed, TypeOK
  <2>7. CASE FetchManifest(r)
    <3> DEFINE answer == GetMergedManifest(Head(todo[r]))
               plan == SyncPlan(local[r], answer, mode[n])
    <3>1. mode[n] # "slave" /\ Head(todo[r]) \in Node
      BY <2>1, <2>7 DEF FetchManifest, Typed, TypeOK, InRound
    <3>2. \A p \in Path : answer[p].kind = "deleted" => p \in Condemned
      BY <3>1, ServedDeletes
    <3>3. plan.toDelete \subseteq Condemned
      BY <3>1, <3>2, PlanDeletes, PlanType
    <3>4. /\ dels' = [dels EXCEPT ![r] = plan.toDelete]
          /\ remote' = [remote EXCEPT ![r] =
                 IF plan.toDelete = {} THEN NoRecords ELSE answer]
          /\ pc' = [pc EXCEPT ![r] = "pull"]
          /\ UNCHANGED <<tombs, store, pending, events, batch, cur>>
      BY <2>7 DEF FetchManifest
    <3> HIDE DEF answer, plan
    <3> QED
      BY <1>1, <3>2, <3>3, <3>4 DEF Typed, TypeOK, NoRecords, NoRecord
  <2>8. ASSUME NEW p \in Path, PullRequest(r, p) PROVE Provenance'
    BY <1>1, <2>8 DEF PullRequest, Typed, TypeOK
  <2>9. CASE PullRename(r) \/ PullTear(r)
    BY <1>1, <2>9 DEF PullRename, PullTear, Typed, TypeOK
  <2>10. CASE PullStamp(r)
    <3>1. \A m \in Node, p \in Path :
              tombs'[m][p].kind = "deleted" => tombs[m][p].kind = "deleted"
      <4>1. tombs' = tombs \/ tombs' = [tombs EXCEPT ![n][cur[r].path] = NoRecord]
        BY <2>10 DEF PullStamp
      <4> QED
        <5>1. tombs \in [Node -> [Path -> Record]]
          BY DEF Typed, TypeOK, Manifest
        <5> QED
          BY <2>1, <4>1, <5>1 DEF NoRecord
    <3>2. \A q \in Runner : pc'[q] \in {"save", "set"} =>
              pc[q] = pc'[q] /\ cur'[q] = cur[q]
      BY <2>10 DEF PullStamp, Typed, TypeOK
    <3>3. UNCHANGED <<store, pending, events, batch, remote, dels>>
      BY <2>10 DEF PullStamp
    <3> QED
      BY <1>1, <3>1, <3>2, <3>3
  <2>11. CASE ForgetTombstone(r)
    <3>1. /\ \A m \in Node, p \in Path :
                store'[m][p].kind = "deleted" => store[m][p].kind = "deleted"
          /\ \A q \in Runner : pc'[q] \in {"save", "set"} =>
                pc[q] = pc'[q] /\ cur'[q] = cur[q]
      BY <2>1, <2>11
      DEF ForgetTombstone, RemoveTombstoneEntry, Typed, TypeOK, Manifest, NoRecord
    <3> QED
      BY <1>1, <2>11, <3>1 DEF ForgetTombstone
  <2>12. CASE SaveFail(r) \/ FetchFail(r) \/ PullFail(r) \/ DeleteGate(r)
              \/ DeleteDone(r)
    <3>1. CASE EndRound(r)
      BY <1>3, <3>1
    <3>2. CASE ~EndRound(r)
      <4>1. /\ \A q \in Runner : pc'[q] \in {"save", "set"} =>
                  pc[q] = pc'[q] /\ cur'[q] = cur[q]
            /\ UNCHANGED <<tombs, store, pending, events, batch, remote, dels>>
        BY <2>12, <3>2 DEF SaveFail, FetchFail, PullFail, DeleteGate, DeleteDone,
           Typed, TypeOK, Task
      <4> QED
        BY <1>1, <4>1
    <3> QED
      BY <3>1, <3>2
  <2>13. ASSUME NEW p \in Path, DeleteLocal(r, p) PROVE Provenance'
    <3>1. p \in Condemned
      BY <2>13 DEF DeleteLocal
    <3>2. /\ dels' = [dels EXCEPT ![r] = @ \ {p}]
          /\ events' = events \/ events' = [events EXCEPT ![n] = @ \union {p}]
          /\ \/ UNCHANGED <<pc, cur>>
             \/ /\ pc' = [pc EXCEPT ![r] = "save"]
                /\ \E t : cur' = [cur EXCEPT ![r] = [path |-> p, mtime |-> t,
                                     content |-> 0, back |-> "delete"]]
          /\ UNCHANGED <<tombs, store, pending, batch, remote>>
      BY <2>13 DEF DeleteLocal
    <3>3. /\ \A q \in Runner :
                /\ dels'[q] \subseteq dels[q]
                /\ pc'[q] \in {"save", "set"} =>
                      cur'[q].path = p \/ (pc[q] = pc'[q] /\ cur'[q] = cur[q])
          /\ \A m \in Node : events'[m] \subseteq events[m] \union {p}
      <4>1. /\ dels \in [Runner -> SUBSET Path] /\ events \in [Node -> SUBSET Path]
            /\ pc \in [Runner -> PC] /\ cur \in [Runner -> Task]
        BY DEF Typed, TypeOK
      <4>2. \A q \in Runner : dels'[q] \subseteq dels[q]
        BY <3>2, <4>1
      <4>3. \A q \in Runner : pc'[q] \in {"save", "set"} =>
                cur'[q].path = p \/ (pc[q] = pc'[q] /\ cur'[q] = cur[q])
        BY <3>2, <4>1
      <4>4. \A m \in Node : events'[m] \subseteq events[m] \union {p}
        BY <2>1, <3>2, <4>1
      <4> QED
        BY <4>2, <4>3, <4>4
    <3> QED
      BY <1>1, <3>1, <3>2, <3>3
  <2>14. ASSUME NEW p \in Path, UnlinkFail(r, p) PROVE Provenance'
    <3>1. /\ \A q \in Runner : dels'[q] \subseteq dels[q]
          /\ UNCHANGED <<tombs, store, pending, events, pc, batch, remote, cur>>
      BY <2>14 DEF UnlinkFail, Typed, TypeOK
    <3> QED
      BY <1>1, <3>1
  <2> QED
    BY <1>7, <2>2, <2>3, <2>4, <2>5, <2>6, <2>7, <2>8, <2>9, <2>10, <2>11, <2>12,
       <2>13, <2>14 DEF EngineStep
<1>8. CASE Tick \/ UNCHANGED vars
  BY <1>2, <1>8 DEF Tick, vars, nodeVars, roundVars
<1> QED
  BY <1>4, <1>5, <1>6, <1>7, <1>8 DEF Next, Fault, WatcherStep

\* Where no machine is a slave, a tombstone of a path, in memory, on disk or in
\* a fetched manifest, means that a user deleted that path.
THEOREM NoPhantoms == "slave" \notin Roles => (Spec => []NoPhantomTombstone)
<1> SUFFICES ASSUME "slave" \notin Roles PROVE Spec => []NoPhantomTombstone
  OBVIOUS
<1>1. Init => Typed /\ Provenance
  BY InitTypeOK DEF Init, Typed, InRound, Provenance, NoPhantomTombstone,
     NoRecords, NoRecord
<1>2. Typed /\ Provenance /\ [Next]_vars => (Typed /\ Provenance)'
  BY TypedStep, ProvenanceStep
<1>3. Provenance => NoPhantomTombstone
  BY DEF Provenance
<1> QED
  BY <1>1, <1>2, <1>3, PTL DEF Spec

-----------------------------------------------------------------------------
(* Files are saved versions, and go only where peers may delete.           *)

\* Only users change the histories; nothing turns the clock back.
LEMMA HistorySteps ==
    ASSUME Typed, [Next]_vars
    PROVE  /\ \/ UNCHANGED <<saved, erased>>
              \/ \E n \in Node, p \in Edited : UserWrite(n, p) \/ UserDelete(n, p)
           /\ now' \in Nat /\ now <= now'
<1> USE DEF userVars
<1>1. now \in Nat
  BY DEF Typed, TypeOK
<1>2. ASSUME NEW r \in Runner, EndRound(r) PROVE UNCHANGED userVars
  BY <1>2 DEF EndRound
<1>3. ASSUME NEW r \in Runner, EngineStep(r) PROVE UNCHANGED userVars
  BY <1>2, <1>3 DEF EngineStep, StartPass, OriginateProbe, SaveTombstone,
     SetTombstone, LocalManifest, FetchManifest, PullRequest, PullRename,
     PullStamp, ForgetTombstone, DeleteGate, DeleteLocal, DeleteDone
<1>4. Fault => UNCHANGED userVars
  BY <1>2 DEF Fault, Restart, LoseEvent, SaveFail, FetchFail, PullFail, PullTear,
     UnlinkFail
<1>5. UNCHANGED vars \/ (\E n \in Node : WatcherStep(n)) => UNCHANGED userVars
  BY DEF vars, WatcherStep, WatchEvent
<1>6. ASSUME NEW n \in Node, NEW p \in Edited, UserWrite(n, p) \/ UserDelete(n, p)
      PROVE  now' = now + 1
  BY <1>6 DEF UserWrite, UserDelete
<1>7. ASSUME NEW n \in Node,
             SetAllowRemoteDeletes(n) \/ \E m \in Roles : SetMode(n, m)
      PROVE  UNCHANGED userVars
  BY <1>7 DEF SetAllowRemoteDeletes, SetMode
<1>8. Tick => UNCHANGED <<saved, erased>> /\ now' = now + 1
  BY DEF Tick
<1> QED
  BY <1>1, <1>3, <1>4, <1>5, <1>6, <1>7, <1>8 DEF Next, User

LEMMA PastStep == Typed /\ Past /\ [Next]_vars => Past'
<1> SUFFICES ASSUME Typed, Past, [Next]_vars PROVE Past'
  OBVIOUS
<1>1. /\ now \in Nat /\ now' \in Nat /\ now <= now'
      /\ erased \in [Node -> [Path -> Nat \union {Never}]]
  BY HistorySteps DEF Typed, TypeOK
<1>2. CASE UNCHANGED <<saved, erased>>
  BY <1>1, <1>2 DEF Past, Never
<1>3. ASSUME NEW n \in Node, NEW p \in Edited, UserWrite(n, p) PROVE Past'
  BY <1>1, <1>3 DEF Past, UserWrite, Never
<1>4. ASSUME NEW n \in Node, NEW p \in Edited, UserDelete(n, p) PROVE Past'
  <2>1. erased' = [erased EXCEPT ![n][p] = now']
    BY <1>4 DEF UserDelete
  <2>2. \A m \in Node, q \in Path :
            erased'[m][q] = erased[m][q] \/ erased'[m][q] = now'
    BY <1>1, <2>1
  <2> QED
    BY <1>1, <2>2 DEF Past, Never
<1> QED
  BY <1>2, <1>3, <1>4, HistorySteps

LEMMA WillingFixed ==
    ASSUME Typed, [Next]_vars
    PROVE  Willing' = Willing
<1> USE DEF userVars, nodeVars, confVars, roundVars
<1>1. ASSUME allow' = allow PROVE Willing' = Willing
  BY <1>1 DEF Willing
<1>2. ASSUME NEW n \in Node, SetAllowRemoteDeletes(n) PROVE Willing' = Willing
  <2>1. allow' = [allow EXCEPT ![n] = ~allow[n]] /\ n \in Switchers
    BY <1>2 DEF SetAllowRemoteDeletes
  <2>2. \A m \in Node : m # n => allow'[m] = allow[m]
    BY <2>1 DEF Typed, TypeOK
  <2> QED
    BY <2>1, <2>2 DEF Willing
<1>3. ASSUME NEW r \in Runner, EndRound(r) PROVE allow' = allow
  BY <1>3 DEF EndRound
<1>4. ASSUME NEW r \in Runner, EngineStep(r) PROVE allow' = allow
  BY <1>3, <1>4 DEF EngineStep, StartPass, OriginateProbe, SaveTombstone,
     SetTombstone, LocalManifest, FetchManifest, PullRequest, PullRename,
     PullStamp, ForgetTombstone, DeleteGate, DeleteLocal, DeleteDone
<1>5. Fault => allow' = allow
  BY <1>3 DEF Fault, Restart, LoseEvent, SaveFail, FetchFail, PullFail, PullTear,
     UnlinkFail
<1>6. Tick \/ UNCHANGED vars \/ (\E n \in Node : WatcherStep(n)) => allow' = allow
  BY DEF Tick, vars, WatcherStep, WatchEvent
<1>7. User => allow' = allow \/ \E n \in Node : SetAllowRemoteDeletes(n)
  BY DEF User, UserWrite, UserDelete, SetMode
<1> QED
  BY <1>1, <1>2, <1>4, <1>5, <1>6, <1>7 DEF Next

\* How a runner gets to a rename, or into the delete loop.
LEMMA RunnerSteps ==
    ASSUME Typed, [Next]_vars, "tear" \notin Faults, NEW q \in Runner
    PROVE  /\ pc'[q] = "install" =>
                \/ pc[q] = "install" /\ cur'[q] = cur[q]
                \/ \E p \in Path : PullRequest(q, p)
           /\ pc'[q] = "delete" \/ cur'[q].back = "delete" =>
                \/ pc[q] = "delete" \/ cur[q].back = "delete"
                \/ allow[Host[q]]
<1> DEFINE Goal == /\ pc'[q] = "install" =>
                          \/ pc[q] = "install" /\ cur'[q] = cur[q]
                          \/ \E p \in Path : PullRequest(q, p)
                   /\ pc'[q] = "delete" \/ cur'[q].back = "delete" =>
                          \/ pc[q] = "delete" \/ cur[q].back = "delete"
                          \/ allow[Host[q]]
<1> USE DEF userVars, nodeVars, confVars, roundVars
<1>1. /\ pc \in [Runner -> PC] /\ cur \in [Runner -> Task]
      /\ NoTask.back = "idle"
  BY DEF Typed, TypeOK, NoTask
<1>2. ASSUME pc'[q] = pc[q], cur'[q] = cur[q] PROVE Goal
  BY <1>2
<1>3. ASSUME NEW r \in Runner, EndRound(r) PROVE Goal
  BY <1>1, <1>3, EndRoundClears
<1>4. ASSUME NEW r \in Runner, EngineStep(r) PROVE Goal
  <2>1. CASE StartPass(r)
    BY <1>1, <2>1 DEF StartPass, GoOn
  <2>2. ASSUME NEW p \in Path, OriginateProbe(r, p) PROVE Goal
    BY <1>1, <2>2 DEF OriginateProbe
  <2>3. CASE SaveTombstone(r) \/ LocalManifest(r) \/ FetchManifest(r)
    BY <1>1, <2>3 DEF SaveTombstone, LocalManifest, FetchManifest
  <2>4. CASE SetTombstone(r)
    <3>1. /\ pc' = [pc EXCEPT ![r] = cur[r].back]
          /\ cur' = [cur EXCEPT ![r] = NoTask]
          /\ cur[r].back # "install"
      BY <1>1, <2>4 DEF SetTombstone, Task
    <3> QED
      BY <1>1, <3>1
  <2>5. ASSUME NEW p \in Path, PullRequest(r, p) PROVE Goal
    <3>1. CASE r = q
      <4>1. pc'[q] \in {"pull", "install"} /\ (cur'[q].back # "pull" => cur' = cur)
        BY <1>1, <2>5, <3>1 DEF PullRequest
      <4>2. \E p1 \in Path : PullRequest(q, p1)
        BY <2>5, <3>1
      <4> QED
        BY <4>1, <4>2
    <3>2. CASE r # q
      BY <1>1, <1>2, <2>5, <3>2 DEF PullRequest
    <3> QED
      BY <3>1, <3>2
  <2>6. CASE PullRename(r) \/ PullStamp(r) \/ ForgetTombstone(r)
    BY <1>1, <2>6 DEF PullRename, PullStamp, ForgetTombstone
  <2>7. CASE DeleteGate(r) \/ DeleteDone(r)
    BY <1>1, <1>3, <2>7 DEF DeleteGate, DeleteDone, DeletesAllowed
  <2>8. ASSUME NEW p \in Path, DeleteLocal(r, p) PROVE Goal
    BY <1>1, <2>8 DEF DeleteLocal
  <2> QED
    BY <1>4, <2>1, <2>2, <2>3, <2>4, <2>5, <2>6, <2>7, <2>8 DEF EngineStep
<1>5. ASSUME Fault PROVE Goal
  <2>1. ASSUME NEW n \in Node, Restart(n) PROVE Goal
    BY <1>1, <2>1 DEF Restart
  <2>2. ASSUME NEW r \in Runner, SaveFail(r) \/ FetchFail(r) \/ PullFail(r) PROVE Goal
    <3>1. CASE EndRound(r)
      BY <1>3, <3>1
    <3>2. CASE ~EndRound(r)
      <4>1. /\ cur' = [cur EXCEPT ![r] = NoTask]
            /\ pc' = [pc EXCEPT ![r] = cur[r].back] \/ pc' = [pc EXCEPT ![r] = "pull"]
            /\ cur[r].back # "install"
        BY <1>1, <2>2, <3>2 DEF SaveFail, FetchFail, PullFail, Task
      <4> QED
        BY <1>1, <4>1
    <3> QED
      BY <3>1, <3>2
  <2>3. ASSUME NEW n \in Node, NEW p \in Path, LoseEvent(n, p) PROVE Goal
    BY <1>2, <2>3 DEF LoseEvent
  <2>4. ASSUME NEW r \in Runner, NEW p \in Path, UnlinkFail(r, p) PROVE Goal
    BY <1>2, <2>4 DEF UnlinkFail
  <2>5. ASSUME NEW r \in Runner, PullTear(r) PROVE Goal
    BY <2>5 DEF PullTear
  <2> HIDE DEF Goal
  <2> QED
    BY <1>5, <2>1, <2>2, <2>3, <2>4, <2>5 DEF Fault
<1>6. ASSUME User \/ Tick \/ UNCHANGED vars \/ \E n \in Node : WatcherStep(n)
      PROVE  Goal
  BY <1>2, <1>6 DEF User, UserWrite, UserDelete, SetAllowRemoteDeletes, SetMode,
     Tick, WatcherStep, WatchEvent, vars
<1> HIDE DEF Goal
<1>7. Goal
  BY <1>4, <1>5, <1>6 DEF Next
<1> QED
  BY <1>7 DEF Goal

LEMMA GrantedStep ==
    ASSUME "tear" \notin Faults, Typed, Granted, [Next]_vars
    PROVE  Granted'
<1>1. Willing' = Willing
  BY WillingFixed
<1>2. \A n \in Node : allow[n] => n \in Willing
  BY DEF Willing
<1> QED
  BY <1>1, <1>2, RunnerSteps, HostType DEF Granted

LEMMA GenuineStep ==
    ASSUME "tear" \notin Faults, Typed, Genuine, [Next]_vars
    PROVE  Genuine'
<1>1. \A p \in Path : saved[p] \subseteq saved'[p]
  <2>1. saved \in [Path -> SUBSET Nat]
    BY DEF Typed, TypeOK
  <2>2. \/ saved' = saved
        \/ \E p \in Edited : saved' = [saved EXCEPT ![p] = @ \union {now'}]
    BY HistorySteps DEF UserWrite, UserDelete
  <2> QED
    BY <2>1, <2>2
<1>2. ASSUME NEW q \in Runner, pc'[q] = "install"
      PROVE  cur'[q].content \in saved'[cur'[q].path]
  <2>1. CASE pc[q] = "install" /\ cur'[q] = cur[q]
    BY <1>1, <2>1 DEF Genuine, Typed, TypeOK, Task
  <2>2. ASSUME NEW p \in Path, PullRequest(q, p)
        PROVE  cur'[q].content \in saved'[cur'[q].path]
    <3>1. Head(todo[q]) \in Node
      BY <2>2 DEF PullRequest, Typed, TypeOK, InRound
    <3>2. /\ cur'[q].path = p /\ cur'[q].content = disk[Head(todo[q])][p].content
          /\ disk[Head(todo[q])][p].kind = "live"
      BY <1>2, <2>2 DEF PullRequest, Typed, TypeOK
    <3> QED
      BY <1>1, <3>1, <3>2 DEF Genuine
  <2> QED
    BY <1>2, <2>1, <2>2, RunnerSteps
<1>3. \A n \in Node, p \in Path :
          disk'[n][p].kind = "live" => disk'[n][p].content \in saved'[p]
  <2> DEFINE Goal == \A n \in Node, p \in Path :
          disk'[n][p].kind = "live" => disk'[n][p].content \in saved'[p]
  <2>1. CASE disk' = disk
    BY <1>1, <2>1 DEF Genuine
  <2>2. ASSUME NEW m \in Node, NEW q \in Path, NEW f,
               disk' = [disk EXCEPT ![m][q] = f],
               f.kind = "live" => f.content \in saved'[q]
        PROVE  Goal
    <3>1. \A n \in Node, p \in Path :
              disk'[n][p] = disk[n][p] \/ (p = q /\ disk'[n][p] = f)
      BY <2>2 DEF Typed, TypeOK, Folder
    <3> QED
      BY <1>1, <2>2, <3>1 DEF Genuine
  <2>3. ASSUME NEW n \in Node, NEW p \in Edited, UserWrite(n, p) PROVE Goal
    <3>1. /\ disk' = [disk EXCEPT ![n][p] = File(now' + Skew[n], now')]
          /\ saved' = [saved EXCEPT ![p] = @ \union {now'}]
      BY <2>3 DEF UserWrite
    <3>2. now' \in saved'[p] /\ p \in Path
      BY <3>1, EngineAssumption DEF Typed, TypeOK
    <3> QED
      BY <2>2, <3>1, <3>2 DEF File
  <2>4. ASSUME NEW n \in Node, NEW p \in Edited, UserDelete(n, p) PROVE Goal
    <3>1. disk' = [disk EXCEPT ![n][p] = NoFile] /\ p \in Path
      BY <2>4, EngineAssumption DEF UserDelete
    <3> QED
      BY <2>2, <3>1 DEF NoFile
  <2>5. ASSUME NEW r \in Runner, PullRename(r) \/ PullStamp(r) PROVE Goal
    <3> DEFINE n == Host[r] p == cur[r].path
    <3>1. n \in Node /\ p \in Path
      BY HostType DEF Typed, TypeOK, Task
    <3>2. CASE PullRename(r)
      <4>1. /\ disk' = [disk EXCEPT ![n][p] = File(Clock(n), cur[r].content)]
            /\ cur[r].content \in saved[p]
        BY <3>2 DEF PullRename, Genuine
      <4> QED
        BY <1>1, <2>2, <3>1, <4>1 DEF File
    <3>3. CASE PullStamp(r)
      <4>1. CASE disk[n][p].kind = "live"
        <5>1. disk' = [disk EXCEPT ![n][p] = File(cur[r].mtime, disk[n][p].content)]
          BY <3>3, <4>1 DEF PullStamp
        <5>2. disk[n][p].content \in saved[p]
          BY <3>1, <4>1 DEF Genuine
        <5> QED
          BY <1>1, <2>2, <3>1, <5>1, <5>2 DEF File
      <4>2. CASE disk[n][p].kind # "live"
        BY <2>1, <3>3, <4>2 DEF PullStamp
      <4> QED
        BY <4>1, <4>2
    <3> QED
      BY <2>5, <3>2, <3>3
  <2>6. ASSUME NEW r \in Runner, NEW p \in Path, DeleteLocal(r, p) PROVE Goal
    <3>1. disk' = disk \/ disk' = [disk EXCEPT ![Host[r]][p] = NoFile]
      BY <2>6 DEF DeleteLocal
    <3> QED
      BY <2>1, <2>2, <3>1, HostType DEF NoFile
  <2> QED
    BY <2>1, <2>3, <2>4, <2>5, <2>6, FolderSteps
<1> QED
  BY <1>2, <1>3 DEF Genuine

-----------------------------------------------------------------------------
(* SyncEngine implements SharedFolder.                                     *)

IInv == /\ Typed /\ Past /\ Genuine /\ Granted
        /\ "slave" \notin Roles => Provenance

LEMMA InitIInv == Init => IInv
<1> SUFFICES ASSUME Init PROVE IInv
  OBVIOUS
<1>1. Typed
  BY InitTypeOK DEF Init, Typed, InRound
<1>2. Past
  <2>1. now \in Nat /\ \A n \in Node, p \in Path : erased[n][p] = -1
    BY ConstantsAssumption DEF Init, Never
  <2> QED
    BY <2>1 DEF Past
<1>3. Genuine
  BY DEF Init, Genuine, File, NoFile
<1>4. Granted
  BY DEF Init, Granted, NoTask
<1>5. Provenance
  BY DEF Init, Provenance, NoPhantomTombstone, NoRecords, NoRecord
<1> QED
  BY <1>1, <1>2, <1>3, <1>4, <1>5 DEF IInv

LEMMA IInvStep ==
    ASSUME "tear" \notin Faults, IInv, [Next]_vars
    PROVE  IInv'
BY TypedStep, PastStep, GenuineStep, GrantedStep, ProvenanceStep DEF IInv

LEMMA RefinesInit == Init => Shared!Init
<1> SUFFICES ASSUME Init PROVE Shared!Init
  OBVIOUS
<1>1. saved \in [Path -> SUBSET Nat]
  BY DEF Init
<1>2. \A n \in Node, p \in Path :
          /\ Contents[n][p] \in Nat \union {NoVersion}
          /\ Contents[n][p] # NoVersion => Contents[n][p] \in saved[p]
  <2>1. ASSUME NEW n \in Node, NEW p \in Path
        PROVE  disk[n][p].kind = "live" => disk[n][p].content = 0
    BY DEF Init, File, NoFile
  <2>2. \A p \in Path : saved[p] = {0}
    BY DEF Init
  <2>3. \A n \in Node, p \in Path : Contents[n][p] \in {0, NoVersion}
    BY <2>1 DEF Contents
  <2>4. ASSUME NEW n \in Node, NEW p \in Path
        PROVE  /\ Contents[n][p] \in Nat \union {NoVersion}
               /\ Contents[n][p] # NoVersion => Contents[n][p] \in saved[p]
    <3>1. CASE Contents[n][p] = NoVersion
      BY <3>1
    <3>2. CASE Contents[n][p] = 0
      BY <2>2, <3>2
    <3> QED
      BY <2>3, <3>1, <3>2
  <2> QED
    BY <2>4
<1>3. Contents \in [Node -> [Path -> Nat \union {NoVersion}]]
  BY <1>2 DEF Contents
<1>4. erased = [n \in Node |-> [p \in Path |-> Never]]
  BY DEF Init
<1>5. Willing \subseteq Node
  BY EngineAssumption DEF Willing
<1> QED
  BY <1>1, <1>2, <1>3, <1>4, <1>5 DEF Shared!Init

\* One file changes: so does the abstract folder.
LEMMA ContentsUpdate ==
    ASSUME disk \in [Node -> Folder], NEW n \in Node, NEW p \in Path, NEW f,
           disk' = [disk EXCEPT ![n][p] = f]
    PROVE  Contents' = [Contents EXCEPT ![n][p] =
                            IF f.kind = "live" THEN f.content ELSE NoVersion]
BY DEF Contents, Folder

LEMMA NoFileKind == NoFile.kind # "live"
BY DEF NoFile

LEMMA RefinesStep ==
    ASSUME "tear" \notin Faults, IInv, [Next]_vars
    PROVE  [Shared!Next]_(Shared!vars)
<1> DEFINE Goal == [Shared!Next]_(Shared!vars)
<1>1. /\ disk \in [Node -> Folder] /\ saved \in [Path -> SUBSET Nat]
      /\ erased \in [Node -> [Path -> Nat \union {Never}]]
      /\ now \in Nat /\ Edited \subseteq Path
  BY EngineAssumption DEF IInv, Typed, TypeOK
<1>2. Willing' = Willing
  BY WillingFixed DEF IInv
<1>3. ASSUME NEW n \in Node, NEW p \in Edited, UserWrite(n, p) PROVE Goal
  <2>1. /\ disk' = [disk EXCEPT ![n][p] = File(now' + Skew[n], now')]
        /\ saved' = [saved EXCEPT ![p] = @ \union {now'}]
        /\ now' = now + 1 /\ erased' = erased /\ p \in Path
    BY <1>1, <1>3 DEF UserWrite
  <2>2. Contents' = [Contents EXCEPT ![n][p] = now']
    BY <1>1, <2>1, ContentsUpdate DEF File
  <2>3. Contents'[n][p] = now'
    BY <2>1, <2>2 DEF Contents
  <2>4. /\ Contents'[n][p] \in Nat
        /\ Contents' = [Contents EXCEPT ![n][p] = Contents'[n][p]]
        /\ saved' = [saved EXCEPT ![p] = @ \union {Contents'[n][p]}]
    <3>1. now' \in Nat
      BY <1>1, <2>1
    <3> QED
      BY <2>1, <2>2, <2>3, <3>1, Zenon
  <2>5. Shared!Save(n, p)
    BY <1>2, <2>1, <2>4, Zenon DEF Shared!Save
  <2> QED
    BY <2>1, <2>5 DEF Shared!Next
<1>4. ASSUME NEW n \in Node, NEW p \in Edited, UserDelete(n, p) PROVE Goal
  <2>1. /\ disk' = [disk EXCEPT ![n][p] = NoFile]
        /\ erased' = [erased EXCEPT ![n][p] = now']
        /\ now' = now + 1 /\ saved' = saved /\ p \in Path
    BY <1>1, <1>4 DEF UserDelete
  <2>2. Contents' = [Contents EXCEPT ![n][p] = NoVersion]
    BY <1>1, <2>1, ContentsUpdate, NoFileKind
  <2>3. erased[n][p] <= now
    BY <2>1 DEF IInv, Past
  <2>4. erased'[n][p] = now' /\ now' # Never /\ now' # erased[n][p]
    BY <1>1, <2>1, <2>3 DEF Never
  <2>5. Shared!Erase(n, p)
    BY <1>2, <2>1, <2>2, <2>4 DEF Shared!Erase
  <2> QED
    BY <2>1, <2>5 DEF Shared!Next
<1>5. ASSUME UNCHANGED <<saved, erased>> PROVE Goal
  <2>1. CASE disk' = disk
    BY <1>2, <1>5, <2>1 DEF Shared!vars, Contents
  <2>2. ASSUME NEW r \in Runner, PullRename(r) PROVE Goal
    <3> DEFINE n == Host[r] p == cur[r].path
    <3>1. n \in Node /\ p \in Path
      BY HostType DEF IInv, Typed, TypeOK, Task
    <3>2. /\ disk' = [disk EXCEPT ![n][p] = File(Clock(n), cur[r].content)]
          /\ cur[r].content \in saved[p]
      BY <2>2 DEF PullRename, IInv, Genuine
    <3>3. Contents' = [Contents EXCEPT ![n][p] = cur[r].content]
      BY <1>1, <3>1, <3>2, ContentsUpdate DEF File
    <3>4. Shared!Replicate(n, p)
      BY <1>2, <1>5, <3>2, <3>3 DEF Shared!Replicate
    <3> QED
      BY <3>1, <3>4 DEF Shared!Next
  <2>3. ASSUME NEW r \in Runner, PullStamp(r) PROVE Goal
    <3> DEFINE n == Host[r] p == cur[r].path
    <3>1. n \in Node /\ p \in Path
      BY HostType DEF IInv, Typed, TypeOK, Task
    <3>2. CASE disk[n][p].kind = "live"
      <4>1. disk' = [disk EXCEPT ![n][p] = File(cur[r].mtime, disk[n][p].content)]
        BY <2>3, <3>2 DEF PullStamp
      <4>2. \A m \in Node, q \in Path :
                /\ disk'[m][q].kind = disk[m][q].kind
                /\ disk'[m][q].content = disk[m][q].content
        BY <1>1, <3>1, <3>2, <4>1 DEF File, Folder
      <4>3. Contents' = Contents
        BY <4>2 DEF Contents
      <4> QED
        BY <1>2, <1>5, <4>3 DEF Shared!vars
    <3>3. CASE disk[n][p].kind # "live"
      BY <2>1, <2>3, <3>3 DEF PullStamp
    <3> QED
      BY <3>2, <3>3
  <2>4. ASSUME NEW r \in Runner, NEW p \in Path, DeleteLocal(r, p) PROVE Goal
    <3> DEFINE n == Host[r]
    <3>1. n \in Node
      BY HostType
    <3>2. CASE disk' # disk
      <4>1. disk' = [disk EXCEPT ![n][p] = NoFile]
        BY <2>4, <3>2 DEF DeleteLocal
      <4>2. Contents' = [Contents EXCEPT ![n][p] = NoVersion]
        BY <1>1, <3>1, <4>1, ContentsUpdate, NoFileKind
      <4>3. n \in Willing
        BY <2>4 DEF DeleteLocal, IInv, Granted
      <4>4. "slave" \in Roles \/ \E m \in Node : erased[m][p] # Never
        BY <2>4 DEF DeleteLocal, IInv, Provenance, Condemned
      <4>5. Shared!Withdraw(n, p)
        BY <1>2, <1>5, <4>2, <4>3, <4>4 DEF Shared!Withdraw
      <4> QED
        BY <3>1, <4>5 DEF Shared!Next
    <3> QED
      BY <2>1, <3>2
  <2> QED
    BY <1>3, <1>4, <2>1, <2>2, <2>3, <2>4, FolderSteps
<1> QED
  BY <1>3, <1>4, <1>5, HistorySteps DEF IInv

\* As long as no save in place overlaps a transfer, the engines implement the
\* abstract shared folder.
THEOREM Refinement == "tear" \notin Faults => (Spec => SharedFolderSpec)
<1> SUFFICES ASSUME "tear" \notin Faults PROVE Spec => SharedFolderSpec
  OBVIOUS
<1>1. Init => IInv /\ Shared!Init
  BY InitIInv, RefinesInit
<1>2. IInv /\ [Next]_vars => IInv' /\ [Shared!Next]_(Shared!vars)
  BY IInvStep, RefinesStep
<1> QED
  BY <1>1, <1>2, PTL DEF Spec, SharedFolderSpec, Shared!Spec

-----------------------------------------------------------------------------
(* Tombstones outlive passes and crashes.  No crash makes an engine forget *)
(* a tombstone it has acted on, for any machines, peers, paths, roles,     *)
(* switches, clocks and faults - if each machine runs one pass at a time,  *)
(* which the button does not see to.  And no deletion of a user is         *)
(* forgotten, however many passes a machine runs, unless a fault loses it. *)

OneRunnerEach == \A r, q \in Runner : Host[r] = Host[q] => r = q

-----------------------------------------------------------------------------
(* The inductive invariant, machine by machine and runner by runner.       *)

Aged(n, t) == t <= Clock(n) - TOMBSTONE_MAX_AGE

(* The runner between the two halves of recording a deletion of p at n. *)
Setting(r, n, p) == Host[r] = n /\ pc[r] = "set" /\ cur[r].path = p

(* A tombstone in memory at n is on disk, unless it is old or just being   *)
(* replaced there.                                                         *)
Kept(n) ==
    \A p \in Path : tombs[n][p].kind = "deleted" =>
        \/ store[n][p] = tombs[n][p]
        \/ Aged(n, tombs[n][p].mtime)
        \/ \E r \in Runner : Setting(r, n, p)

(* A tombstone just saved is on disk or old, one being forgotten is no     *)
(* longer in memory.                                                       *)
Saving(r) ==
    LET n == Host[r] p == cur[r].path IN
    /\ pc[r] = "set" => store[n][p] = Deleted(cur[r].mtime) \/ Aged(n, cur[r].mtime)
    /\ pc[r] = "untomb" => tombs[n][p].kind # "deleted"

Durable ==
    /\ \A n \in Node : Kept(n)
    /\ \A r \in Runner : Saving(r)

-----------------------------------------------------------------------------
(* The tombstone file after adding a tombstone. *)
LEMMA AddedEntry ==
  ASSUME NEW stored \in Manifest, NEW p \in Path, NEW t \in Int,
         NEW clock \in Int, NEW q \in Path
  PROVE  /\ q = p => \/ AddTombstoneEntry(stored, p, t, clock)[q] = Deleted(t)
                     \/ t <= clock - TOMBSTONE_MAX_AGE
         /\ q # p => \/ AddTombstoneEntry(stored, p, t, clock)[q] = stored[q]
                     \/ stored[q].kind = "none"
                     \/ stored[q].mtime <= clock - TOMBSTONE_MAX_AGE
<1>1. stored[q] \in Record
  BY DEF Manifest
<1> QED
  BY <1>1, ConstantsAssumption DEF AddTombstoneEntry, Deleted, Record

LEMMA NoRecordIsNone == NoRecord.kind = "none" /\ \A t : Deleted(t).kind = "deleted"
BY DEF NoRecord, Deleted

(* What was old stays old. *)
LEMMA AgedStays ==
  ASSUME Typed, Typed', NEW n \in Node, NEW t \in Int, now <= now', Aged(n, t)
  PROVE  Aged(n, t)'
<1>1. Clock(n) \in Int /\ Clock(n)' \in Int /\ Clock(n) <= Clock(n)'
  BY EngineAssumption DEF Clock, Typed, TypeOK
<1> QED
  BY <1>1, ConstantsAssumption DEF Aged

(* A machine whose tombstones a step leaves alone. *)
LEMMA KeptFrame ==
  ASSUME Typed, Typed', NEW n \in Node, Kept(n), now <= now',
         tombs'[n] = tombs[n], store'[n] = store[n],
         \A r \in Runner : Host[r] = n /\ pc[r] = "set" =>
             pc'[r] = "set" /\ cur'[r] = cur[r]
  PROVE  Kept(n)'
<1> SUFFICES ASSUME NEW p \in Path, tombs[n][p].kind = "deleted"
             PROVE  \/ store[n][p] = tombs[n][p]
                    \/ Aged(n, tombs[n][p].mtime)'
                    \/ \E r \in Runner : Setting(r, n, p)'
  BY DEF Kept, Aged
<1>1. tombs[n][p].mtime \in Int
  BY DEF Typed, TypeOK, Manifest, Record
<1>2. Aged(n, tombs[n][p].mtime) => tombs[n][p].mtime <= Clock(n)' - TOMBSTONE_MAX_AGE
  BY <1>1, AgedStays DEF Aged
<1>3. ASSUME NEW r \in Runner, Setting(r, n, p) PROVE Setting(r, n, p)'
  BY <1>3 DEF Setting
<1> QED
  BY <1>2, <1>3 DEF Kept, Aged

LEMMA SavingFrame ==
  ASSUME Typed, Typed', NEW r \in Runner, Saving(r), now <= now',
         tombs'[Host[r]] = tombs[Host[r]], store'[Host[r]] = store[Host[r]],
         pc'[r] \in {"set", "untomb"} => pc'[r] = pc[r] /\ cur'[r] = cur[r]
  PROVE  Saving(r)'
<1>1. Host[r] \in Node /\ cur[r].mtime \in Int
  BY HostType DEF Typed, TypeOK, Task
<1>2. Aged(Host[r], cur[r].mtime) => cur[r].mtime <= Clock(Host[r])' - TOMBSTONE_MAX_AGE
  BY <1>1, AgedStays DEF Aged
<1> QED
  BY <1>2 DEF Saving, Aged

(* A step that touches no tombstone, and begins or ends nobody's recording *)
(* of one.                                                                 *)
LEMMA Quietly ==
  ASSUME Typed, Typed', Durable, now <= now', tombs' = tombs, store' = store,
         \A r \in Runner :
            pc[r] = "set" \/ pc'[r] \in {"set", "untomb"} =>
                pc'[r] = pc[r] /\ cur'[r] = cur[r]
  PROVE  Durable'
<1>1. ASSUME NEW n \in Node PROVE Kept(n)'
  BY KeptFrame DEF Durable
<1>2. ASSUME NEW r \in Runner PROVE Saving(r)'
  BY SavingFrame DEF Durable
<1> QED
  BY <1>1, <1>2 DEF Durable

(* A step of one runner touches its own machine only. *)
LEMMA Focus ==
  ASSUME OneRunnerEach, Typed, Typed', Durable, NEW r \in Runner, now' = now,
         \A n \in Node \ {Host[r]} : tombs'[n] = tombs[n] /\ store'[n] = store[n],
         \A q \in Runner \ {r} : pc'[q] = pc[q] /\ cur'[q] = cur[q],
         Kept(Host[r])', Saving(r)'
  PROVE  Durable'
<1>1. now <= now'
  BY DEF Typed, TypeOK
<1>2. ASSUME NEW n \in Node PROVE Kept(n)'
  <2>1. CASE n = Host[r]
    BY <2>1
  <2>2. CASE n # Host[r]
    BY <1>1, <2>2, KeptFrame DEF Durable
  <2> QED
    BY <2>1, <2>2
<1>3. ASSUME NEW q \in Runner, q # r PROVE Saving(q)'
  <2>1. Host[q] \in Node \ {Host[r]}
    BY <1>3, HostType DEF OneRunnerEach
  <2> QED
    BY <1>1, <1>3, <2>1, SavingFrame DEF Durable
<1> QED
  BY <1>2, <1>3 DEF Durable

-----------------------------------------------------------------------------
(* The steps that touch the tombstones *)

(* Saving prunes what is old, and replaces what it is about to set. *)
LEMMA SaveDurable ==
  ASSUME OneRunnerEach, Typed, Typed', Durable, NEW r \in Runner, SaveTombstone(r)
  PROVE  Durable'
<1> DEFINE n == Host[r] path == cur[r].path t == cur[r].mtime
<1>1. /\ pc[r] = "save" /\ pc' = [pc EXCEPT ![r] = "set"]
      /\ store' = [store EXCEPT ![n] = AddTombstoneEntry(@, path, t, Clock(n))]
      /\ UNCHANGED <<now, tombs, cur>>
  BY DEF SaveTombstone, userVars
<1>2. /\ n \in Node /\ path \in Path /\ t \in Int
      /\ store[n] \in Manifest /\ tombs[n] \in Manifest
      /\ pc \in [Runner -> PC] /\ store \in [Node -> Manifest]
  BY HostType DEF Typed, TypeOK, Task
<1>3. Clock(n) \in Int /\ Clock(n)' = Clock(n)
  BY <1>1, <1>2, EngineAssumption DEF Clock, Typed, TypeOK
<1>4. pc'[r] = "set" /\ store'[n] = AddTombstoneEntry(store[n], path, t, Clock(n))
  BY <1>1, <1>2
<1>5. Kept(n)
  BY <1>2 DEF Durable
<1>6. ASSUME NEW p \in Path, tombs[n][p].kind = "deleted"
      PROVE  \/ store'[n][p] = tombs[n][p]
             \/ Aged(n, tombs[n][p].mtime)
             \/ p = path
  <2>1. CASE p = path
    BY <2>1
  <2>2. CASE p # path
    <3>1. ~\E q \in Runner : Setting(q, n, p)
      BY <1>1 DEF Setting, OneRunnerEach
    <3>2. store[n][p] = tombs[n][p] \/ Aged(n, tombs[n][p].mtime)
      BY <1>5, <1>6, <3>1 DEF Kept
    <3>3. \/ store'[n][p] = store[n][p] \/ store[n][p].kind = "none"
          \/ Aged(n, store[n][p].mtime)
      BY <1>2, <1>3, <1>4, <2>2, AddedEntry DEF Aged
    <3> QED
      BY <1>6, <3>2, <3>3
  <2> QED
    BY <2>1, <2>2
<1>7. Setting(r, n, path)'
  BY <1>1, <1>4 DEF Setting
<1>8. Kept(n)'
  BY <1>1, <1>3, <1>6, <1>7 DEF Kept, Aged
<1>9. store'[n][path] = Deleted(t) \/ Aged(n, t)
  BY <1>2, <1>3, <1>4, AddedEntry DEF Aged
<1>10. Saving(r)'
  BY <1>1, <1>3, <1>4, <1>9 DEF Saving, Aged
<1> QED
  BY <1>1, <1>2, <1>8, <1>10, Focus

LEMMA SetDurable ==
  ASSUME OneRunnerEach, Typed, Typed', Durable, NEW r \in Runner, SetTombstone(r)
  PROVE  Durable'
<1> DEFINE n == Host[r] path == cur[r].path t == cur[r].mtime
<1>1. /\ pc[r] = "set" /\ pc' = [pc EXCEPT ![r] = cur[r].back]
      /\ tombs' = [tombs EXCEPT ![n][path] = Deleted(t)]
      /\ cur' = [cur EXCEPT ![r] = NoTask]
      /\ UNCHANGED <<now, store>>
  BY DEF SetTombstone, userVars
<1>2. /\ n \in Node /\ path \in Path
      /\ pc \in [Runner -> PC] /\ tombs \in [Node -> Manifest]
      /\ cur \in [Runner -> Task]
  BY HostType DEF Typed, TypeOK, Task
<1>3. Clock(n)' = Clock(n)
  BY <1>1 DEF Clock
<1>4. Kept(n) /\ Saving(r)
  BY <1>2 DEF Durable
<1>5. /\ tombs'[n][path] = Deleted(t)
      /\ \A p \in Path \ {path} : tombs'[n][p] = tombs[n][p]
  BY <1>1, <1>2 DEF Manifest
<1>6. ASSUME NEW p \in Path, tombs'[n][p].kind = "deleted"
      PROVE  store[n][p] = tombs'[n][p] \/ Aged(n, tombs'[n][p].mtime)
  <2>1. CASE p = path
    <3>1. store[n][path] = Deleted(t) \/ Aged(n, t)
      BY <1>1, <1>4 DEF Saving
    <3>2. Deleted(t).mtime = t
      BY DEF Deleted
    <3> QED
      BY <1>5, <2>1, <3>1, <3>2
  <2>2. CASE p # path
    <3>1. ~\E q \in Runner : Setting(q, n, p)
      BY <2>2 DEF Setting, OneRunnerEach
    <3> QED
      BY <1>4, <1>5, <1>6, <2>2, <3>1 DEF Kept
  <2> QED
    BY <2>1, <2>2
<1>7. Kept(n)'
  BY <1>1, <1>3, <1>6 DEF Kept, Aged
<1>8. pc'[r] \in {"idle", "originate", "pull", "delete"}
  BY <1>1, <1>2 DEF Task
<1>9. Saving(r)'
  BY <1>8 DEF Saving
<1>10. \A m \in Node \ {n} : tombs'[m] = tombs[m] /\ store'[m] = store[m]
  BY <1>1, <1>2
<1>11. \A q \in Runner \ {r} : pc'[q] = pc[q] /\ cur'[q] = cur[q]
  BY <1>1, <1>2
<1> QED
  BY <1>1, <1>7, <1>9, <1>10, <1>11, Focus

(* What is forgotten in memory is no longer needed on disk ... *)
LEMMA StampDurable ==
  ASSUME OneRunnerEach, Typed, Typed', Durable, NEW r \in Runner, PullStamp(r)
  PROVE  Durable'
<1> DEFINE n == Host[r] path == cur[r].path
<1>1. /\ pc[r] = "stamp"
      /\ UNCHANGED <<now, store>>
      /\ \/ /\ tombs' = [tombs EXCEPT ![n][path] = NoRecord]
            /\ pc' = [pc EXCEPT ![r] = "untomb"] /\ cur' = cur
         \/ /\ pc' = [pc EXCEPT ![r] = "pull"]
            /\ cur' = [cur EXCEPT ![r] = NoTask] /\ tombs' = tombs
  BY DEF PullStamp, userVars
<1>2. /\ n \in Node /\ path \in Path
      /\ pc \in [Runner -> PC] /\ tombs \in [Node -> Manifest]
      /\ cur \in [Runner -> Task]
  BY HostType DEF Typed, TypeOK, Task
<1>3. Clock(n)' = Clock(n)
  BY <1>1 DEF Clock
<1>4. Kept(n)
  BY <1>2 DEF Durable
<1>5. /\ tombs'[n][path] = NoRecord \/ tombs' = tombs
      /\ \A p \in Path \ {path} : tombs'[n][p] = tombs[n][p]
      /\ pc'[r] = "untomb" => tombs'[n][path] = NoRecord /\ cur' = cur
      /\ pc'[r] \in {"untomb", "pull"}
      /\ \A m \in Node \ {n} : tombs'[m] = tombs[m] /\ store'[m] = store[m]
      /\ \A q \in Runner \ {r} : pc'[q] = pc[q] /\ cur'[q] = cur[q]
  BY <1>1, <1>2 DEF Manifest
<1>6. \A p \in Path : tombs'[n][p].kind = "deleted" => tombs'[n][p] = tombs[n][p]
  BY <1>5, NoRecordIsNone
<1>7. ~\E q \in Runner, p \in Path : Setting(q, n, p)
  BY <1>1 DEF Setting, OneRunnerEach
<1>8. Kept(n)'
  BY <1>1, <1>3, <1>4, <1>6, <1>7 DEF Kept, Aged
<1>9. Saving(r)'
  BY <1>5, NoRecordIsNone DEF Saving
<1> QED
  BY <1>1, <1>5, <1>8, <1>9, Focus

(* ... and removed there. *)
LEMMA ForgetDurable ==
  ASSUME OneRunnerEach, Typed, Typed', Durable, NEW r \in Runner, ForgetTombstone(r)
  PROVE  Durable'
<1> DEFINE n == Host[r] path == cur[r].path
<1>1. /\ pc[r] = "untomb" /\ pc' = [pc EXCEPT ![r] = "pull"]
      /\ store' = [store EXCEPT ![n] = RemoveTombstoneEntry(@, path)]
      /\ cur' = [cur EXCEPT ![r] = NoTask]
      /\ UNCHANGED <<now, tombs>>
  BY DEF ForgetTombstone, userVars
<1>2. /\ n \in Node /\ path \in Path
      /\ pc \in [Runner -> PC] /\ store \in [Node -> Manifest]
      /\ cur \in [Runner -> Task]
  BY HostType DEF Typed, TypeOK, Task
<1>3. Clock(n)' = Clock(n)
  BY <1>1 DEF Clock
<1>4. Kept(n) /\ tombs[n][path].kind # "deleted"
  BY <1>1, <1>2 DEF Durable, Saving
<1>5. /\ \A p \in Path \ {path} : store'[n][p] = store[n][p]
      /\ \A m \in Node \ {n} : tombs'[m] = tombs[m] /\ store'[m] = store[m]
      /\ \A q \in Runner \ {r} : pc'[q] = pc[q] /\ cur'[q] = cur[q]
      /\ pc'[r] = "pull"
  BY <1>1, <1>2 DEF Manifest, RemoveTombstoneEntry
<1>6. ~\E q \in Runner, p \in Path : Setting(q, n, p)
  BY <1>1 DEF Setting, OneRunnerEach
<1>7. Kept(n)'
  BY <1>1, <1>3, <1>4, <1>5, <1>6 DEF Kept, Aged
<1>8. Saving(r)'
  BY <1>5 DEF Saving
<1> QED
  BY <1>1, <1>5, <1>7, <1>8, Focus

(* A restart takes from disk what it had in memory. *)
LEMMA RestartDurable ==
  ASSUME Typed, Typed', Durable, NEW n \in Node, Restart(n)
  PROVE  Durable'
<1>1. /\ now' = now /\ store' = store
      /\ tombs' = [tombs EXCEPT ![n] = store[n]]
      /\ \A r \in Runner : Host[r] # n => pc'[r] = pc[r] /\ cur'[r] = cur[r]
      /\ \A r \in Runner : Host[r] = n => pc'[r] = "idle"
  BY DEF Restart, userVars
<1>2. /\ tombs \in [Node -> Manifest] /\ now <= now'
  BY <1>1 DEF Typed, TypeOK
<1>3. tombs'[n] = store[n] /\ \A m \in Node \ {n} : tombs'[m] = tombs[m]
  BY <1>1, <1>2
<1>4. Kept(n)'
  BY <1>1, <1>3 DEF Kept
<1>5. ASSUME NEW m \in Node, m # n PROVE Kept(m)'
  BY <1>1, <1>2, <1>3, <1>5, KeptFrame DEF Durable
<1>6. ASSUME NEW r \in Runner PROVE Saving(r)'
  <2>1. CASE Host[r] = n
    BY <1>1, <2>1 DEF Saving
  <2>2. CASE Host[r] # n
    BY <1>1, <1>2, <1>3, <2>2, HostType, SavingFrame DEF Durable
  <2> QED
    BY <2>1, <2>2
<1> QED
  BY <1>4, <1>5, <1>6 DEF Durable

-----------------------------------------------------------------------------
(* The steps that do not *)

LEMMA EndRoundDurable ==
  ASSUME Typed, Typed', Durable, NEW r \in Runner, pc[r] # "set", EndRound(r)
  PROVE  Durable'
<1>1. /\ now' = now /\ tombs' = tombs /\ store' = store
      /\ pc'[r] \in {"idle", "originate"}
      /\ \A q \in Runner \ {r} : pc'[q] = pc[q] /\ cur'[q] = cur[q]
  BY DEF EndRound, GoOn, userVars, Typed, TypeOK
<1> QED
  BY <1>1, Quietly DEF Typed, TypeOK

(* Nothing but its own two halves leads into recording a deletion, and     *)
(* nothing but a pull into forgetting one.                                 *)
LEMMA MoveDurable ==
  ASSUME Typed, Typed', Durable, NEW r \in Runner,
         UNCHANGED <<now, tombs, store>>, pc[r] # "set",
         pc'[r] \notin {"set", "untomb"},
         \A q \in Runner \ {r} : pc'[q] = pc[q] /\ cur'[q] = cur[q]
  PROVE  Durable'
BY Quietly DEF Typed, TypeOK

LEMMA PullDurable ==
  ASSUME Typed, Typed', Durable, NEW r \in Runner,
         \/ PullRename(r) \/ PullFail(r) \/ PullTear(r)
         \/ \E p \in Path : PullRequest(r, p)
  PROVE  Durable'
<1>1. pc \in [Runner -> PC] /\ cur \in [Runner -> Task]
  BY DEF Typed, TypeOK
<1>2. CASE PullRename(r)
  BY <1>1, <1>2, MoveDurable DEF PullRename, userVars
<1>3. CASE PullFail(r)
  BY <1>1, <1>3, MoveDurable DEF PullFail, userVars, nodeVars
<1>4. CASE PullTear(r)
  BY <1>1, <1>4, MoveDurable DEF PullTear, userVars, nodeVars
<1>5. ASSUME NEW p \in Path, PullRequest(r, p) PROVE Durable'
  <2>1. /\ pc[r] = "pull"
        /\ UNCHANGED <<now, tombs, store>>
        /\ \/ pc' = pc /\ cur' = cur
           \/ /\ pc' = [pc EXCEPT ![r] = "install"]
              /\ \E task : cur' = [cur EXCEPT ![r] = task]
    BY <1>5 DEF PullRequest, userVars, nodeVars
  <2> QED
    BY <1>1, <2>1, MoveDurable
<1> QED
  BY <1>2, <1>3, <1>4, <1>5

(* Planning: the probe, the manifests, and the start of a pass. *)
LEMMA PlanDurable ==
  ASSUME Typed, Typed', Durable, NEW r \in Runner,
         \/ StartPass(r) \/ LocalManifest(r) \/ FetchManifest(r)
         \/ \E p \in Path : OriginateProbe(r, p)
  PROVE  Durable'
<1>1. pc \in [Runner -> PC] /\ cur \in [Runner -> Task]
  BY DEF Typed, TypeOK
<1>2. CASE StartPass(r)
  BY <1>1, <1>2, MoveDurable DEF StartPass, GoOn, userVars
<1>3. CASE LocalManifest(r)
  BY <1>1, <1>3, MoveDurable DEF LocalManifest, userVars, nodeVars
<1>4. CASE FetchManifest(r)
  BY <1>1, <1>4, MoveDurable DEF FetchManifest, userVars, nodeVars
<1>5. ASSUME NEW p \in Path, OriginateProbe(r, p) PROVE Durable'
  <2>1. /\ pc[r] = "originate"
        /\ UNCHANGED <<now, tombs, store>>
        /\ \/ pc' = pc /\ cur' = cur
           \/ /\ pc' = [pc EXCEPT ![r] = "save"]
              /\ \E task : cur' = [cur EXCEPT ![r] = task]
    BY <1>5 DEF OriginateProbe, userVars, nodeVars
  <2> QED
    BY <1>1, <2>1, MoveDurable
<1> QED
  BY <1>2, <1>3, <1>4, <1>5

LEMMA DeleteDurable ==
  ASSUME Typed, Typed', Durable, NEW r \in Runner,
         \/ DeleteGate(r) \/ DeleteDone(r) \/ FetchFail(r)
         \/ \E p \in Path : DeleteLocal(r, p) \/ UnlinkFail(r, p)
  PROVE  Durable'
<1>1. pc \in [Runner -> PC] /\ cur \in [Runner -> Task]
  BY DEF Typed, TypeOK
<1>2. CASE DeleteGate(r) /\ ~EndRound(r)
  <2>1. /\ pc[r] = "pull" /\ pc' = [pc EXCEPT ![r] = "delete"]
        /\ UNCHANGED <<now, tombs, store, cur>>
    BY <1>2 DEF DeleteGate, userVars, nodeVars
  <2> QED
    BY <1>1, <2>1, MoveDurable
<1>3. CASE EndRound(r) /\ (DeleteGate(r) \/ DeleteDone(r) \/ FetchFail(r))
  BY <1>3, EndRoundDurable DEF DeleteGate, DeleteDone, FetchFail
<1>4. ASSUME NEW p \in Path, DeleteLocal(r, p) \/ UnlinkFail(r, p) PROVE Durable'
  <2>1. /\ pc[r] = "delete"
        /\ UNCHANGED <<now, tombs, store>>
        /\ \/ pc' = pc /\ cur' = cur
           \/ /\ pc' = [pc EXCEPT ![r] = "save"]
              /\ \E task : cur' = [cur EXCEPT ![r] = task]
    BY <1>4 DEF DeleteLocal, UnlinkFail, userVars, nodeVars
  <2> QED
    BY <1>1, <2>1, MoveDurable
<1> QED
  BY <1>2, <1>3, <1>4 DEF DeleteDone, FetchFail

(* A tombstone file that cannot be written leaves both as they are. *)
LEMMA SaveFailDurable ==
  ASSUME Typed, Typed', Durable, NEW r \in Runner, SaveFail(r)
  PROVE  Durable'
<1>1. pc[r] \in {"save", "untomb"} /\ pc \in [Runner -> PC] /\ cur \in [Runner -> Task]
  BY DEF SaveFail, Typed, TypeOK
<1>2. CASE EndRound(r)
  BY <1>1, <1>2, EndRoundDurable
<1>3. CASE ~EndRound(r)
  <2>1. /\ pc' = [pc EXCEPT ![r] = cur[r].back]
        /\ cur' = [cur EXCEPT ![r] = NoTask]
        /\ UNCHANGED <<now, tombs, store>>
    BY <1>3 DEF SaveFail, userVars, nodeVars
  <2>2. cur[r].back \notin {"set", "untomb"}
    BY <1>1 DEF Task
  <2> QED
    BY <1>1, <2>1, <2>2, MoveDurable
<1> QED
  BY <1>2, <1>3

LEMMA DurableStep == OneRunnerEach /\ Typed /\ Durable /\ [Next]_vars => Durable'
<1> SUFFICES ASSUME OneRunnerEach, Typed, Durable, [Next]_vars
             PROVE  Durable'
  OBVIOUS
<1>1. Typed'
  BY TypedStep
<1>2. ASSUME NEW r \in Runner, EngineStep(r) PROVE Durable'
  BY <1>1, <1>2, PlanDurable, SaveDurable, SetDurable, PullDurable, StampDurable,
     ForgetDurable, DeleteDurable
  DEF EngineStep
<1>3. CASE User \/ Tick \/ UNCHANGED vars \/ (\E n \in Node : WatcherStep(n))
           \/ (\E n \in Node, p \in Path : LoseEvent(n, p))
  <2>1. now <= now' /\ UNCHANGED <<tombs, store, pc, cur>>
    BY <1>3 DEF User, UserWrite, UserDelete, SetAllowRemoteDeletes, SetMode, Tick,
       WatcherStep, WatchEvent, LoseEvent, vars, userVars, nodeVars, roundVars,
       Typed, TypeOK
  <2> QED
    BY <1>1, <2>1, Quietly
<1>4. CASE Fault
  BY <1>1, <1>3, <1>4, RestartDurable, SaveFailDurable, DeleteDurable, PullDurable
  DEF Fault
<1> QED
  BY <1>2, <1>3, <1>4 DEF Next

(* Whatever an engine may have told its peers is deleted is in the         *)
(* tombstone file, or old enough to be pruned there, or just being         *)
(* replaced by one that is: at every moment at which the application may   *)
(* crash, tombstones may fail to be saved, and passes may be under way,    *)
(* whatever the clocks say (engine.ts 147, 218, 261).                      *)
THEOREM DurableTombstones ==
  ASSUME OneRunnerEach
  PROVE  Spec => []TombstoneDurable
<1>1. Init => Typed /\ Durable
  <2> SUFFICES ASSUME Init PROVE Typed /\ Durable
    OBVIOUS
  <2>1. Typed
    BY InitTypeOK DEF Init, Typed, InRound
  <2>2. \A n \in Node : Kept(n)
    BY NoRecordIsNone DEF Init, Kept, NoRecords
  <2>3. \A r \in Runner : Saving(r)
    BY DEF Init, Saving
  <2> QED
    BY <2>1, <2>2, <2>3 DEF Durable
<1>2. Typed /\ Durable => TombstoneDurable
  <2> SUFFICES ASSUME Durable, NEW n \in Node, NEW p \in Path,
                      tombs[n][p].kind = "deleted",
                      store[n][p].kind # "deleted", ~Aged(n, tombs[n][p].mtime)
               PROVE  OldReplaces(n, p)
    BY DEF TombstoneDurable, Aged
  <2>1. PICK r \in Runner : Setting(r, n, p)
    BY DEF Durable, Kept
  <2>2. Aged(n, cur[r].mtime)
    BY <2>1, NoRecordIsNone DEF Durable, Saving, Setting
  <2> QED
    BY <2>1, <2>2 DEF OldReplaces, Setting, Aged
<1> QED
  BY <1>1, <1>2, TypedStep, DurableStep, PTL DEF Spec

-----------------------------------------------------------------------------
(* What a user deletes is remembered.  Any number of passes may share a    *)
(* machine here.                                                           *)

(* A batch is drained by the originating that took it, and nothing else.   *)
BatchTaken ==
    \A r \in Runner : batch[r] # {} =>
        \/ pc[r] = "originate"
        \/ pc[r] \in {"save", "set"} /\ cur[r].back = "originate"

Memory == DeletionRemembered /\ BatchTaken

(* What the runner r is about to record. *)
Recording(r, p) == p \in batch[r] \/ (pc[r] \in {"save", "set"} /\ cur[r].path = p)

(* A step of a runner that changes no folder and no tombstone, and drops   *)
(* only what exists again.                                                 *)
LEMMA MemoryKept ==
  ASSUME Typed, Memory, NEW r \in Runner,
         UNCHANGED <<disk, tombs, erased, pending, events>>,
         \A q \in Runner \ {r} : pc'[q] = pc[q] /\ batch'[q] = batch[q] /\ cur'[q] = cur[q],
         \A p \in Path : Recording(r, p) =>
            Recording(r, p)' \/ disk[Host[r]][p].kind = "live",
         batch'[r] # {} => \/ pc'[r] = "originate"
                           \/ pc'[r] \in {"save", "set"} /\ cur'[r].back = "originate"
  PROVE  Memory'
<1>1. BatchTaken'
  BY DEF Memory, BatchTaken
<1>2. ASSUME NEW n \in Node, NEW p \in Path, erased'[n][p] # Never, disk'[n][p].kind = "none"
      PROVE  OnItsWay(n, p)' \/ tombs'[n][p].kind = "deleted"
  <2>1. OnItsWay(n, p) \/ tombs[n][p].kind = "deleted"
    BY <1>2 DEF Memory, DeletionRemembered, Remembered
  <2>2. ASSUME NEW q \in Runner, Host[q] = n, Recording(q, p) PROVE OnItsWay(n, p)'
    <3>1. Recording(q, p)'
      <4>1. CASE q = r
        BY <1>2, <2>2, <4>1
      <4>2. CASE q # r
        BY <2>2, <4>2 DEF Recording
      <4> QED
        BY <4>1, <4>2
    <3> QED
      BY <2>2, <3>1 DEF OnItsWay, Recording
  <2> QED
    BY <2>1, <2>2 DEF OnItsWay, Recording
<1> QED
  BY <1>1, <1>2 DEF Memory, DeletionRemembered, Remembered

(* The pass goes on to its next round, or ends: what was reported is taken *)
(* over, and nothing of the last round is left to record.                  *)
LEMMA MemoryGoesOn ==
  ASSUME Typed, Memory, NEW r \in Runner, NEW rest, GoOn(r, rest),
         pc[r] \in PC \ {"originate", "save", "set"},
         UNCHANGED <<disk, tombs, erased, events>>,
         \A q \in Runner \ {r} : cur'[q] = cur[q]
  PROVE  Memory'
<1> DEFINE round == rest # <<>> /\ mode[Host[r]] # "master"
<1>1. /\ pc \in [Runner -> PC] /\ batch \in [Runner -> SUBSET Path]
      /\ pending \in [Node -> SUBSET Path] /\ Host[r] \in Node
  BY HostType DEF Typed, TypeOK
<1>2. /\ pc' = [pc EXCEPT ![r] = IF round THEN "originate" ELSE "idle"]
      /\ batch' = [batch EXCEPT ![r] = IF round THEN pending[Host[r]] ELSE {}]
      /\ pending' = IF round THEN [pending EXCEPT ![Host[r]] = {}] ELSE pending
  BY DEF GoOn
<1> HIDE DEF round
<1>3. batch[r] = {} /\ \A p \in Path : ~Recording(r, p)
  BY <1>1 DEF Memory, BatchTaken, Recording
<1>4. BatchTaken'
  BY <1>1, <1>2 DEF Memory, BatchTaken
<1>5. ASSUME NEW n \in Node, NEW p \in Path, erased'[n][p] # Never, disk'[n][p].kind = "none"
      PROVE  OnItsWay(n, p)' \/ tombs'[n][p].kind = "deleted"
  <2>1. OnItsWay(n, p) \/ tombs[n][p].kind = "deleted"
    BY <1>5 DEF Memory, DeletionRemembered, Remembered
  <2>2. ASSUME NEW q \in Runner, Host[q] = n, Recording(q, p) PROVE OnItsWay(n, p)'
    <3>1. q # r
      BY <1>3, <2>2
    <3>2. pc'[q] = pc[q] /\ batch'[q] = batch[q] /\ cur'[q] = cur[q]
      BY <1>1, <1>2, <3>1
    <3> QED
      BY <2>2, <3>2 DEF OnItsWay, Recording
  <2>3. CASE p \in pending[n] /\ p \notin pending'[n]
    BY <1>1, <1>2, <2>3 DEF OnItsWay
  <2>4. CASE p \in pending'[n] \/ p \in events[n]
    BY <2>4 DEF OnItsWay
  <2> QED
    BY <2>1, <2>2, <2>3, <2>4 DEF OnItsWay, Recording
<1> QED
  BY <1>4, <1>5 DEF Memory, DeletionRemembered, Remembered

LEMMA MemoryEndRound ==
  ASSUME Typed, Memory, NEW r \in Runner, EndRound(r),
         pc[r] \in PC \ {"originate", "save", "set"}
  PROVE  Memory'
<1>1. /\ GoOn(r, Tail(todo[r])) /\ UNCHANGED <<disk, tombs, erased, events>>
      /\ cur' = [cur EXCEPT ![r] = NoTask]
  BY DEF EndRound, userVars
<1>2. \A q \in Runner \ {r} : cur'[q] = cur[q]
  BY <1>1 DEF Typed, TypeOK
<1> QED
  BY <1>1, <1>2, MemoryGoesOn

LEMMA MemoryStart ==
  ASSUME Typed, Memory, NEW r \in Runner, StartPass(r)
  PROVE  Memory'
<1>1. PICK rest : GoOn(r, rest)
  BY DEF StartPass
<1>2. pc[r] = "idle" /\ UNCHANGED <<disk, tombs, erased, events, cur>>
  BY DEF StartPass, userVars
<1> QED
  BY <1>1, <1>2, MemoryGoesOn DEF PC

(* A probe that finds no file goes on to record the deletion. *)
LEMMA MemoryProbe ==
  ASSUME Typed, Memory, NEW r \in Runner, NEW p \in Path, OriginateProbe(r, p)
  PROVE  Memory'
<1>1. /\ pc[r] = "originate" /\ batch' = [batch EXCEPT ![r] = @ \ {p}]
      /\ UNCHANGED <<disk, tombs, erased, pending, events>>
      /\ \/ disk[Host[r]][p].kind = "live" /\ UNCHANGED <<pc, cur>>
         \/ /\ cur' = [cur EXCEPT ![r] = [path |-> p, mtime |-> Clock(Host[r]),
                                          content |-> 0, back |-> "originate"]]
            /\ pc' = [pc EXCEPT ![r] = "save"]
  BY DEF OriginateProbe, userVars, nodeVars
<1>2. pc \in [Runner -> PC] /\ batch \in [Runner -> SUBSET Path] /\ cur \in [Runner -> Task]
  BY DEF Typed, TypeOK
<1>3. \A q \in Runner \ {r} : pc'[q] = pc[q] /\ batch'[q] = batch[q] /\ cur'[q] = cur[q]
  BY <1>1, <1>2
<1>4. batch'[r] = batch[r] \ {p}
  BY <1>1, <1>2
<1>5. \/ pc'[r] = "originate"
      \/ pc'[r] = "save" /\ cur'[r].back = "originate" /\ cur'[r].path = p
  BY <1>1, <1>2
<1>6. \A s \in Path : Recording(r, s) => Recording(r, s)' \/ disk[Host[r]][s].kind = "live"
  BY <1>1, <1>2, <1>4 DEF Recording
<1> QED
  BY <1>1, <1>3, <1>5, <1>6, MemoryKept

(* A tombstone that is in memory is remembered; the loop goes on. *)
LEMMA MemorySet ==
  ASSUME Typed, Memory, NEW r \in Runner, SetTombstone(r)
  PROVE  Memory'
<1> DEFINE m == Host[r] d == cur[r].path
<1>1. /\ pc[r] = "set" /\ tombs' = [tombs EXCEPT ![m][d] = Deleted(cur[r].mtime)]
      /\ pc' = [pc EXCEPT ![r] = cur[r].back] /\ cur' = [cur EXCEPT ![r] = NoTask]
      /\ UNCHANGED <<disk, erased, pending, events, batch>>
  BY DEF SetTombstone, userVars
<1>2. /\ pc \in [Runner -> PC] /\ batch \in [Runner -> SUBSET Path] /\ cur \in [Runner -> Task]
      /\ tombs \in [Node -> Manifest] /\ m \in Node /\ d \in Path
  BY HostType DEF Typed, TypeOK, Task
<1>3. \A q \in Runner \ {r} : pc'[q] = pc[q] /\ cur'[q] = cur[q]
  BY <1>1, <1>2
<1>4. BatchTaken'
  BY <1>1, <1>2, <1>3 DEF Memory, BatchTaken
<1>5. /\ tombs'[m][d].kind = "deleted"
      /\ \A n \in Node, p \in Path : n # m \/ p # d => tombs'[n][p] = tombs[n][p]
  BY <1>1, <1>2 DEF Manifest, Deleted
<1>6. ASSUME NEW n \in Node, NEW p \in Path, n # m \/ p # d,
             erased'[n][p] # Never, disk'[n][p].kind = "none"
      PROVE  OnItsWay(n, p)' \/ tombs'[n][p].kind = "deleted"
  <2>1. OnItsWay(n, p) \/ tombs[n][p].kind = "deleted"
    BY <1>1, <1>6 DEF Memory, DeletionRemembered, Remembered
  <2>2. ASSUME NEW q \in Runner, Host[q] = n, Recording(q, p) PROVE Recording(q, p)'
    BY <1>1, <1>3, <1>6, <2>2 DEF Recording
  <2> QED
    BY <1>1, <1>5, <1>6, <2>1, <2>2 DEF OnItsWay, Recording
<1> QED
  BY <1>4, <1>5, <1>6 DEF Memory, DeletionRemembered, Remembered

(* The steps of a pass that neither drain nor record anything. *)
LEMMA MemoryIdly ==
  ASSUME Typed, Memory, NEW r \in Runner,
         \/ SaveTombstone(r) \/ LocalManifest(r) \/ FetchManifest(r) \/ ForgetTombstone(r)
         \/ (\E p \in Path : PullRequest(r, p) \/ UnlinkFail(r, p))
         \/ PullFail(r) \/ PullTear(r) \/ (DeleteGate(r) /\ ~EndRound(r))
  PROVE  Memory'
<1> USE DEF userVars, nodeVars
<1>1. pc \in [Runner -> PC] /\ batch \in [Runner -> SUBSET Path] /\ cur \in [Runner -> Task]
  BY DEF Typed, TypeOK
<1>2. UNCHANGED <<disk, tombs, erased, pending, events, batch>>
  BY DEF SaveTombstone, LocalManifest, FetchManifest, ForgetTombstone, PullRequest, PullFail,
     PullTear, UnlinkFail, DeleteGate
<1>3. \A q \in Runner \ {r} : pc'[q] = pc[q] /\ cur'[q] = cur[q]
  BY <1>1 DEF SaveTombstone, LocalManifest, FetchManifest, ForgetTombstone, PullRequest,
     PullFail, PullTear, UnlinkFail, DeleteGate
<1>4. CASE SaveTombstone(r)
  <2>1. pc[r] = "save" /\ pc'[r] = "set" /\ cur' = cur
    BY <1>1, <1>4 DEF SaveTombstone
  <2>2. \A p \in Path : Recording(r, p) => Recording(r, p)'
    BY <1>2, <2>1 DEF Recording
  <2> QED
    BY <1>2, <1>3, <2>1, <2>2, MemoryKept DEF Memory, BatchTaken
<1>5. CASE ~SaveTombstone(r)
  <2>1. pc[r] \notin {"save", "set"} /\ batch[r] = {}
    BY <1>5 DEF LocalManifest, FetchManifest, ForgetTombstone, PullRequest, PullFail,
       PullTear, UnlinkFail, DeleteGate, Memory, BatchTaken
  <2>2. \A p \in Path : ~Recording(r, p)
    BY <2>1 DEF Recording
  <2> QED
    BY <1>2, <1>3, <2>1, <2>2, MemoryKept
<1> QED
  BY <1>4, <1>5

(* A pull puts a file there, and forgets its tombstone only then. *)
LEMMA MemoryPull ==
  ASSUME Typed, Memory, NEW r \in Runner, PullRename(r) \/ PullStamp(r)
  PROVE  Memory'
<1> DEFINE m == Host[r] d == cur[r].path
<1>1. /\ pc \in [Runner -> PC] /\ batch \in [Runner -> SUBSET Path] /\ cur \in [Runner -> Task]
      /\ disk \in [Node -> Folder] /\ tombs \in [Node -> Manifest]
      /\ m \in Node /\ d \in Path /\ \A n \in Node : DOMAIN disk[n] = Path
  BY HostType DEF Typed, TypeOK, Task, Folder
<1>2. /\ pc[r] \in {"install", "stamp"} /\ batch' = batch
      /\ UNCHANGED <<erased, pending, events>>
      /\ \A q \in Runner \ {r} : pc'[q] = pc[q] /\ cur'[q] = cur[q]
  BY <1>1 DEF PullRename, PullStamp, userVars
<1>3. batch[r] = {} /\ \A p \in Path : ~Recording(r, p)
  BY <1>2 DEF Memory, BatchTaken, Recording
<1>4. BatchTaken'
  BY <1>2, <1>3 DEF Memory, BatchTaken
<1>5. \A n \in Node, p \in Path : OnItsWay(n, p) => OnItsWay(n, p)'
  BY <1>2, <1>3 DEF OnItsWay, Recording
<1>6. ASSUME NEW n \in Node, NEW p \in Path
      PROVE  \/ disk'[n][p].kind = "live"
             \/ disk'[n][p] = disk[n][p] /\ tombs'[n][p] = tombs[n][p]
  <2>1. CASE n = m /\ p = d
    <3>1. CASE PullRename(r)
      BY <1>1, <2>1, <3>1 DEF PullRename, File
    <3>2. CASE PullStamp(r) /\ disk[m][d].kind = "live"
      BY <1>1, <2>1, <3>2 DEF PullStamp, File
    <3>3. CASE PullStamp(r) /\ disk[m][d].kind # "live"
      BY <1>1, <2>1, <3>3 DEF PullStamp
    <3> QED
      BY <3>1, <3>2, <3>3
  <2>2. CASE ~(n = m /\ p = d)
    <3>1. CASE PullRename(r)
      BY <1>1, <2>2, <3>1 DEF PullRename
    <3>2. CASE PullStamp(r)
      BY <1>1, <2>2, <3>2 DEF PullStamp, Manifest
    <3> QED
      BY <3>1, <3>2
  <2> QED
    BY <2>1, <2>2
<1>7. DeletionRemembered'
  BY <1>2, <1>5, <1>6 DEF Memory, DeletionRemembered, Remembered
<1> QED
  BY <1>4, <1>7 DEF Memory

(* A deletion for a peer is reported by the watcher like a user's. *)
LEMMA MemoryDelete ==
  ASSUME Typed, Memory, NEW r \in Runner, NEW d \in Path, DeleteLocal(r, d)
  PROVE  Memory'
<1> DEFINE m == Host[r]
<1>1. /\ pc \in [Runner -> PC] /\ batch \in [Runner -> SUBSET Path] /\ cur \in [Runner -> Task]
      /\ disk \in [Node -> Folder] /\ events \in [Node -> SUBSET Path]
      /\ m \in Node /\ \A n \in Node : DOMAIN disk[n] = Path
  BY HostType DEF Typed, TypeOK, Folder
<1>2. /\ pc[r] = "delete" /\ batch' = batch
      /\ UNCHANGED <<erased, pending, tombs>>
      /\ \A q \in Runner \ {r} : pc'[q] = pc[q] /\ cur'[q] = cur[q]
  BY <1>1 DEF DeleteLocal, userVars
<1>3. batch[r] = {} /\ \A p \in Path : ~Recording(r, p)
  BY <1>2 DEF Memory, BatchTaken, Recording
<1>4. BatchTaken'
  BY <1>2, <1>3 DEF Memory, BatchTaken
<1>5. \/ disk' = [disk EXCEPT ![m][d] = NoFile] /\ events' = [events EXCEPT ![m] = @ \union {d}]
      \/ UNCHANGED <<disk, events>>
  BY DEF DeleteLocal
<1>6. \A n \in Node : events[n] \subseteq events'[n]
  BY <1>1, <1>5
<1>7. \A n \in Node, p \in Path : disk'[n][p] = disk[n][p] \/ p \in events'[n]
  BY <1>1, <1>5
<1>8. \A n \in Node, p \in Path : OnItsWay(n, p) => OnItsWay(n, p)'
  BY <1>2, <1>3, <1>6 DEF OnItsWay, Recording
<1>9. DeletionRemembered'
  <2> SUFFICES ASSUME NEW n \in Node, NEW p \in Path, erased'[n][p] # Never,
                      disk'[n][p].kind = "none"
               PROVE  OnItsWay(n, p)' \/ tombs'[n][p].kind = "deleted"
    BY DEF DeletionRemembered, Remembered
  <2>1. CASE p \in events'[n]
    BY <2>1 DEF OnItsWay
  <2>2. CASE disk'[n][p] = disk[n][p]
    BY <1>2, <1>8, <2>2 DEF Memory, DeletionRemembered, Remembered
  <2> QED
    BY <1>7, <2>1, <2>2
<1> QED
  BY <1>4, <1>9 DEF Memory

(* Users, the watcher, the settings and the clock. *)
LEMMA MemoryOthers ==
  ASSUME Typed, Memory,
         \/ User \/ Tick \/ UNCHANGED vars \/ \E n \in Node : WatcherStep(n)
  PROVE  Memory'
<1> USE DEF userVars, nodeVars, confVars, roundVars
<1>1. UNCHANGED <<pc, batch, cur, tombs>>
  BY DEF User, UserWrite, UserDelete, SetAllowRemoteDeletes, SetMode, Tick, WatcherStep,
     WatchEvent, vars
<1>2. /\ disk \in [Node -> Folder] /\ events \in [Node -> SUBSET Path]
      /\ pending \in [Node -> SUBSET Path] /\ erased \in [Node -> [Path -> Nat \union {Never}]]
      /\ \A n \in Node : DOMAIN disk[n] = Path
  BY DEF Typed, TypeOK, Folder
<1>3. BatchTaken'
  BY <1>1 DEF Memory, BatchTaken
<1>4. CASE UNCHANGED <<disk, erased, events, pending>>
  <2>1. DeletionRemembered'
    BY <1>1, <1>4 DEF Memory, DeletionRemembered, Remembered, OnItsWay
  <2> QED
    BY <1>3, <2>1 DEF Memory
<1>5. ASSUME NEW m \in Node, NEW d \in Edited, UserWrite(m, d) PROVE Memory'
  <2>1. d \in Path /\ disk' = [disk EXCEPT ![m][d] = File(now' + Skew[m], now')]
        /\ UNCHANGED <<erased, events, pending>>
    BY <1>5, EngineAssumption DEF UserWrite
  <2>2. \A n \in Node, p \in Path : disk'[n][p] = disk[n][p] \/ disk'[n][p].kind = "live"
    BY <1>2, <2>1 DEF File
  <2>3. DeletionRemembered'
    BY <1>1, <2>1, <2>2 DEF Memory, DeletionRemembered, Remembered, OnItsWay
  <2> QED
    BY <1>3, <2>3 DEF Memory
<1>6. ASSUME NEW m \in Node, NEW d \in Edited, UserDelete(m, d) PROVE Memory'
  <2>1. /\ d \in Path /\ disk' = [disk EXCEPT ![m][d] = NoFile]
        /\ events' = [events EXCEPT ![m] = @ \union {d}]
        /\ erased' = [erased EXCEPT ![m][d] = now'] /\ UNCHANGED pending
    BY <1>6, EngineAssumption DEF UserDelete
  <2>2. \A n \in Node, p \in Path : \/ p \in events'[n]
                                    \/ disk'[n][p] = disk[n][p] /\ erased'[n][p] = erased[n][p]
    BY <1>2, <2>1
  <2>3. \A n \in Node : events[n] \subseteq events'[n]
    BY <1>2, <2>1
  <2>4. \A n \in Node, p \in Path : OnItsWay(n, p) => OnItsWay(n, p)'
    BY <1>1, <2>1, <2>3 DEF OnItsWay
  <2>5. ASSUME NEW n \in Node, NEW p \in Path PROVE Remembered(n, p)'
    <3>1. CASE p \in events'[n]
      BY <3>1 DEF Remembered, OnItsWay
    <3>2. CASE disk'[n][p] = disk[n][p] /\ erased'[n][p] = erased[n][p]
      BY <1>1, <2>4, <3>2 DEF Memory, DeletionRemembered, Remembered
    <3> QED
      BY <2>2, <3>1, <3>2
  <2> QED
    BY <1>3, <2>5 DEF Memory, DeletionRemembered
<1>7. ASSUME NEW m \in Node, NEW d \in Path, WatchEvent(m, d) PROVE Memory'
  <2>1. /\ events' = [events EXCEPT ![m] = @ \ {d}] /\ UNCHANGED <<disk, erased>>
        /\ pending' = IF disk[m][d].kind = "none" THEN [pending EXCEPT ![m] = @ \union {d}]
                                                  ELSE pending
    BY <1>7 DEF WatchEvent
  <2>2. ASSUME NEW n \in Node, NEW p \in Path, disk'[n][p].kind = "none", OnItsWay(n, p)
        PROVE  OnItsWay(n, p)'
    <3>1. p \in events[n] \union pending[n] => p \in events'[n] \union pending'[n]
      BY <1>2, <2>1, <2>2
    <3> QED
      BY <1>1, <2>2, <3>1 DEF OnItsWay
  <2>3. DeletionRemembered'
    BY <1>1, <2>1, <2>2 DEF Memory, DeletionRemembered, Remembered
  <2> QED
    BY <1>3, <2>3 DEF Memory
<1>8. CASE User
  BY <1>4, <1>5, <1>6, <1>8 DEF User, SetAllowRemoteDeletes, SetMode
<1> QED
  BY <1>4, <1>7, <1>8 DEF Tick, WatcherStep, vars

(* A user's deletion is remembered until the file is back or has a         *)
(* tombstone, whatever passes, of the loop and of the button, are under    *)
(* way (engine.ts 135-151, 218-236): if no event is dropped, no tombstone  *)
(* fails to be saved and nothing crashes.                                  *)
THEOREM DeletionsRemembered ==
  ASSUME Faults \cap {"save", "crash", "event"} = {}
  PROVE  Spec => []DeletionRemembered
<1>1. Init => Typed /\ Memory
  <2> SUFFICES ASSUME Init PROVE Typed /\ Memory
    OBVIOUS
  <2>1. Typed
    BY InitTypeOK DEF Init, Typed, InRound
  <2>2. Memory
    BY DEF Init, Memory, DeletionRemembered, Remembered, BatchTaken
  <2> QED
    BY <2>1, <2>2
<1>2. Typed /\ Memory /\ [Next]_vars => Memory'
  <2> SUFFICES ASSUME Typed, Memory, [Next]_vars PROVE Memory'
    OBVIOUS
  <2>1. ASSUME NEW r \in Runner, EngineStep(r) PROVE Memory'
    <3>1. CASE EndRound(r) /\ (DeleteGate(r) \/ DeleteDone(r))
      BY <3>1, MemoryEndRound DEF DeleteGate, DeleteDone, PC
    <3> QED
      BY <2>1, <3>1, MemoryStart, MemoryProbe, MemorySet, MemoryIdly, MemoryPull,
         MemoryDelete
      DEF EngineStep, DeleteDone
  <2>2. ASSUME NEW r \in Runner, FetchFail(r) PROVE Memory'
    BY <2>2, MemoryEndRound DEF FetchFail, PC
  <2>3. CASE Fault
    BY <2>2, <2>3, MemoryIdly DEF Fault, Restart, LoseEvent, SaveFail
  <2> QED
    BY <2>1, <2>3, MemoryOthers DEF Next
<1>3. Memory => DeletionRemembered
  BY DEF Memory
<1> QED
  BY <1>1, <1>2, <1>3, TypedStep, PTL DEF Spec
=============================================================================
