-------------------------- MODULE BatchConvertProofs --------------------------
(***************************************************************************)
(* That a batch touches nothing but what it is writing itself, that a      *)
(* click to cancel is meant, and that what a batch reports of plain files  *)
(* or of its tape is what lies in the folder, for any files, names, limits *)
(* and faults.                                                             *)
(***************************************************************************)
EXTENDS BatchConvert, FiniteSetTheorems, TLAPS

(* What the position in batchConvert says. *)
Places ==
    /\ pc \in {"write", "report"} => format = "plain"
    /\ pc \in {"open", "header", "append", "end", "drop"} => format = "tape"
    /\ pc \in {"convert", "write", "append"} => next <= MaxFile
    /\ pc = "reserve" => next <= MaxFile /\ (format = "tape" => next = 1)
    /\ pc = "open" => out[1] \in Name
    /\ pc = "write" => out[next] \in Name

(* The flag of the main process and the wish of the user are one. *)
OneWish == cancel = clicked

(* The tape of a running batch is there, its own, and not finished. *)
TapeThere ==
    /\ opened => format = "tape" /\ pc \notin {"reserve", "open"}
    /\ pc \in {"header", "append", "end"} => opened
    /\ format = "tape" /\ pc \in {"loop", "convert"} => opened
    /\ opened /\ pc \in {"loop", "convert", "header", "append", "end", "drop"} =>
         /\ out[1] \in Name
         /\ disk[out[1]].kind = "output" /\ disk[out[1]].batch = batch
         /\ ~disk[out[1]].whole

(* No file is from a batch to come. *)
NoneFromLater == \A n \in Name : disk[n].batch <= batch

BatchInv == TypeOK /\ Places /\ OneWish /\ TapeThere /\ NoneFromLater

-----------------------------------------------------------------------------
(* Records of the folder. *)
LEMMA Files ==
  /\ NoFile \in File /\ Foreign \in File
  /\ \A b \in 0 .. MaxBatch, s \in Seq(Input), w \in BOOLEAN :
       Output(b, s, w) \in File
  /\ NoFile.batch = 0 /\ Foreign.batch = 0 /\ NoFile.kind = "none"
  /\ Foreign.kind = "foreign" /\ NoFile.whole /\ Foreign.whole
<1>1. <<>> \in Seq(Input)
  OBVIOUS
<1>2. 0 \in 0 .. MaxBatch
  BY BatchAssumption
<1>3. Foreign = [kind |-> "foreign", batch |-> 0, records |-> <<>>, whole |-> TRUE]
  BY DEF Foreign
<1>4. NoFile \in File /\ Foreign \in File
  BY <1>1, <1>2, <1>3 DEF NoFile, File
<1>5. \A b \in 0 .. MaxBatch, s \in Seq(Input), w \in BOOLEAN : Output(b, s, w) \in File
  BY DEF Output, File
<1> QED
  BY <1>3, <1>4, <1>5 DEF NoFile

(* At first no batch runs and the folder is empty. *)
LEMMA InitBatch == Init => BatchInv
<1> SUFFICES ASSUME Init PROVE BatchInv
  OBVIOUS
<1>1. TypeOK
  <2>1. disk \in [Name -> File]
    BY Files DEF Init
  <2>2. out \in [Input -> Name \cup {NoName}] /\ result \in [Input -> {"none", "ok", "failed"}]
    BY DEF Init
  <2>3. counts \in [done : 0 .. MaxFile, failed : 0 .. MaxFile]
    BY BatchAssumption DEF Init
  <2>4. batch \in 0 .. MaxBatch /\ next \in 1 .. MaxFile + 1
    BY BatchAssumption DEF Init
  <2>5. base \in [Input -> Base] /\ taken \subseteq Name
    BY DEF Init
  <2>6. {cancel, clicked, canceled, opened} \subseteq BOOLEAN /\ running \in BOOLEAN
    BY DEF Init
  <2> QED
    BY <2>1, <2>2, <2>3, <2>4, <2>5, <2>6 DEF Init, TypeOK
<1>2. Places /\ OneWish /\ TapeThere
  BY DEF Init, Places, OneWish, TapeThere
<1>3. NoneFromLater
  BY Files DEF Init, NoneFromLater
<1> QED
  BY <1>1, <1>2, <1>3 DEF BatchInv

(* How many files are of a kind. *)
LEMMA Counted ==
  ASSUME TypeOK, NEW r
  PROVE  /\ IsFiniteSet(Is(r)) /\ Cardinality(Is(r)) \in 0 .. MaxFile
         /\ MaxFile - Cardinality(Is(r)) \in 0 .. MaxFile
<1>1. IsFiniteSet(Input) /\ Cardinality(Input) = MaxFile
  BY FS_Interval, BatchAssumption DEF Input
<1>2. Is(r) \in SUBSET Input
  BY DEF Is
<1>3. IsFiniteSet(Is(r)) /\ Cardinality(Is(r)) <= MaxFile
  BY <1>1, <1>2, FS_Subset
<1>4. Cardinality(Is(r)) \in Nat
  BY <1>3, FS_CardinalityType
<1> QED
  BY <1>3, <1>4, BatchAssumption

-----------------------------------------------------------------------------
(* Every action keeps the types. *)
LEMMA TypeStep == BatchInv /\ [Next]_vars => TypeOK'
<1> SUFFICES ASSUME BatchInv, [Next]_vars PROVE TypeOK'
  OBVIOUS
<1> USE BatchAssumption
<1>0. TypeOK /\ Places
  BY DEF BatchInv
<1>1. ASSUME NEW fmt \in {"plain", "tape"}, StartClick(fmt) PROVE TypeOK'
  <2>1. batch' \in 0 .. MaxBatch /\ next' \in 1 .. MaxFile + 1
    BY <1>0, <1>1 DEF StartClick, TypeOK
  <2>2. out' \in [Input -> Name \cup {NoName}] /\ result' \in [Input -> {"none", "ok", "failed"}]
    BY <1>1 DEF StartClick
  <2>3. counts' \in [done : 0 .. MaxFile, failed : 0 .. MaxFile]
    BY <1>1 DEF StartClick
  <2> QED
    BY <1>0, <1>1, <2>1, <2>2, <2>3 DEF StartClick, TypeOK, FlagAtStart
<1>2. CASE CancelClick
  BY <1>0, <1>2 DEF CancelClick, TypeOK
<1>3. CASE FinishBatch
  BY <1>0, <1>3 DEF FinishBatch, TypeOK, Saying
<1>4. CASE LoopTop
  BY <1>0, <1>4 DEF LoopTop, TypeOK, LoopIsOver, AfterLoop, user
<1>5. CASE Converted \/ WorkerDies \/ NameIsGone \/ TapeHeader \/ TapeBreaks
  BY <1>0, <1>5 DEF Converted, WorkerDies, NameIsGone, TapeHeader, TapeBreaks, TypeOK,
     user, loop
<1>6. CASE Refused
  BY <1>0, <1>6 DEF Refused, FileDone, TypeOK, Places, user, Input
<1>7. CASE Reserve
  <2>1. next \in Input /\ base[next] \in Base
    BY <1>0, <1>7 DEF Reserve, TypeOK, Places, Input
  <2>2. PICK k \in Free(base[next]) : /\ taken' = taken \cup {<<base[next], k>>}
                                      /\ out' = [out EXCEPT ![next] = <<base[next], k>>]
    BY <1>7 DEF Reserve
  <2>3. <<base[next], k>> \in Name
    BY <2>1 DEF Name, Free
  <2>4. out' \in [Input -> Name \cup {NoName}] /\ taken' \subseteq Name
    BY <1>0, <2>1, <2>2, <2>3 DEF TypeOK
  <2> QED
    BY <1>0, <1>7, <2>4 DEF Reserve, TypeOK, user, loop
<1>8. CASE NoFreeName
  <2>1. next \in Input /\ next' \in 1 .. MaxFile + 1
    BY <1>0, <1>8 DEF NoFreeName, FileDone, TypeOK, Places, Input
  <2>2. result' \in [Input -> {"none", "ok", "failed"}]
    BY <1>0, <1>8, <2>1 DEF NoFreeName, FileDone, TypeOK
  <2>3. counts' \in [done : 0 .. MaxFile, failed : 0 .. MaxFile]
    BY <1>0, <1>8 DEF NoFreeName, TypeOK
  <2> QED
    BY <1>0, <1>8, <2>1, <2>2, <2>3 DEF NoFreeName, FileDone, TypeOK, user
<1>9. CASE WriteOut \/ WriteFails
  <2>0. pc = "write" /\ next' = next + 1 /\ pc' = "loop"
    BY <1>9 DEF WriteOut, WriteFails, FileDone
  <2>1. next \in Input /\ next' \in 1 .. MaxFile + 1
    BY <1>0, <2>0 DEF TypeOK, Places, Input
  <2>2. result' \in [Input -> {"none", "ok", "failed"}]
    BY <1>0, <1>9, <2>1 DEF WriteOut, WriteFails, FileDone, TypeOK
  <2>3. <<next>> \in Seq(Input)
    BY <2>1
  <2>4. Output(batch, <<next>>, TRUE) \in File /\ Output(batch, <<next>>, FALSE) \in File
    BY <1>0, <2>3, Files DEF TypeOK
  <2>5. disk' \in [Name -> File]
    BY <1>0, <1>9, <2>4 DEF WriteOut, WriteFails, TypeOK
  <2> QED
    BY <1>0, <1>9, <2>0, <2>1, <2>2, <2>5 DEF WriteOut, WriteFails, TypeOK, user
<1>10. CASE Report
  BY <1>0, <1>10, Counted DEF Report, TypeOK, user
<1>11. CASE TapeOpens
  <2>0. <<>> \in Seq(Input)
    OBVIOUS
  <2>1. Output(batch, <<>>, FALSE) \in File
    BY <1>0, <2>0, Files DEF TypeOK
  <2> QED
    BY <1>0, <1>11, <2>1 DEF TapeOpens, TypeOK, user
<1>12. CASE TapeAppends
  <2>1. next \in Input /\ next' \in 1 .. MaxFile + 1
    BY <1>0, <1>12 DEF TapeAppends, FileDone, TypeOK, Places, Input
  <2>2. result' \in [Input -> {"none", "ok", "failed"}]
    BY <1>0, <1>12, <2>1 DEF TapeAppends, FileDone, TypeOK
  <2>3. ASSUME Tape \in Name
        PROVE  [disk[Tape] EXCEPT !.records = Append(@, next)] \in File
    <3>1. disk[Tape] \in File
      BY <1>0, <2>3 DEF TypeOK
    <3>2. Append(disk[Tape].records, next) \in Seq(Input)
      BY <2>1, <3>1 DEF File
    <3> QED
      BY <3>1, <3>2 DEF File
  <2>4. disk' \in [Name -> File]
    BY <1>0, <1>12, <2>3 DEF TapeAppends, TypeOK
  <2> QED
    BY <1>0, <1>12, <2>1, <2>2, <2>4 DEF TapeAppends, FileDone, TypeOK, user
<1>13. CASE TapeEnds
  <2>1. ASSUME Tape \in Name
        PROVE  /\ [disk[Tape] EXCEPT !.whole = TRUE] \in File
               /\ [disk[Tape] EXCEPT !.kind = "left"] \in File
    BY <1>0, <2>1 DEF TypeOK, File
  <2>2. disk' \in [Name -> File]
    BY <1>0, <1>13, <2>1, Files DEF TapeEnds, Removed, Stays, TypeOK
  <2> QED
    BY <1>0, <1>13, <2>2, Counted DEF TapeEnds, TypeOK, user
<1>14. CASE TapeDropped
  <2>0. ASSUME Tape \in Name PROVE [disk[Tape] EXCEPT !.kind = "left"] \in File
    BY <1>0, <2>0 DEF TypeOK, File
  <2>1. disk' \in [Name -> File]
    BY <1>0, <1>14, <2>0, Files DEF TapeDropped, Dropped, Removed, Stays, TypeOK
  <2> QED
    BY <1>0, <1>14, <2>1, Counted DEF TapeDropped, TypeOK, user
<1>15. ASSUME NEW n \in Name, ForeignFile(n) PROVE TypeOK'
  <2>1. disk' \in [Name -> File]
    BY <1>0, <1>15, Files DEF ForeignFile, TypeOK
  <2> QED
    BY <1>0, <1>15, <2>1 DEF ForeignFile, TypeOK, user, loop
<1>16. CASE Crash
  BY <1>0, <1>16 DEF Crash, TypeOK, loop
<1>17. CASE UNCHANGED vars
  BY <1>0, <1>17 DEF vars, TypeOK
<1> QED
  BY <1>1, <1>2, <1>3, <1>4, <1>5, <1>6, <1>7, <1>8, <1>9, <1>10, <1>11, <1>12,
     <1>13, <1>14, <1>15, <1>16, <1>17 DEF Next, Step

-----------------------------------------------------------------------------
(* Every action keeps the places, the flag and the tape. *)
LEMMA PlacesStep == BatchInv /\ [Next]_vars => Places'
<1> SUFFICES ASSUME BatchInv, [Next]_vars PROVE Places'
  OBVIOUS
<1> USE BatchAssumption
<1>0. TypeOK /\ Places
  BY DEF BatchInv
<1>1. ASSUME NEW fmt \in {"plain", "tape"}, StartClick(fmt) PROVE Places'
  BY <1>1 DEF StartClick, Places
<1>2. CASE CancelClick \/ FinishBatch \/ Crash
  BY <1>0, <1>2 DEF CancelClick, FinishBatch, Crash, Places, loop
<1>3. CASE LoopTop
  BY <1>0, <1>3 DEF LoopTop, LoopIsOver, AfterLoop, Places, TypeOK, user
<1>4. CASE Converted \/ WorkerDies \/ NameIsGone \/ TapeHeader \/ TapeBreaks
  BY <1>0, <1>4 DEF Converted, WorkerDies, NameIsGone, TapeHeader, TapeBreaks, Places,
     TypeOK, user, loop
<1>5. CASE Refused \/ NoFreeName \/ WriteOut \/ WriteFails \/ TapeAppends
  BY <1>0, <1>5 DEF Refused, NoFreeName, WriteOut, WriteFails, TapeAppends, FileDone,
     Places, user
<1>6. CASE Reserve
  <2>1. next \in Input /\ base[next] \in Base
    BY <1>0, <1>6 DEF Reserve, TypeOK, Places, Input
  <2>2. PICK k \in Free(base[next]) : out' = [out EXCEPT ![next] = <<base[next], k>>]
    BY <1>6 DEF Reserve
  <2>3. out'[next] \in Name
    BY <1>0, <2>1, <2>2 DEF Name, Free, TypeOK
  <2> QED
    BY <1>0, <1>6, <2>3 DEF Reserve, Places, TypeOK, user, loop
<1>7. CASE Report \/ TapeOpens \/ TapeEnds \/ TapeDropped
  BY <1>0, <1>7 DEF Report, TapeOpens, TapeEnds, TapeDropped, Places, user
<1>8. ASSUME NEW n \in Name, ForeignFile(n) PROVE Places'
  BY <1>0, <1>8 DEF ForeignFile, Places, user, loop
<1>9. CASE UNCHANGED vars
  BY <1>0, <1>9 DEF vars, Places
<1> QED
  BY <1>1, <1>2, <1>3, <1>4, <1>5, <1>6, <1>7, <1>8, <1>9 DEF Next, Step

(* The flag is cleared by the start and set by the click. *)
LEMMA WishStep == BatchInv /\ [Next]_vars => OneWish'
<1> SUFFICES ASSUME BatchInv, [Next]_vars PROVE OneWish'
  OBVIOUS
<1> USE DEF BatchInv, OneWish
<1>1. ASSUME NEW fmt \in {"plain", "tape"}, StartClick(fmt) PROVE OneWish'
  BY <1>1 DEF StartClick, FlagAtStart
<1>2. CASE CancelClick
  BY <1>2 DEF CancelClick
<1>3. CASE FinishBatch \/ Crash \/ Step \/ UNCHANGED vars
  BY <1>3 DEF FinishBatch, Crash, Step, LoopTop, Converted, Refused, WorkerDies, Reserve,
     NoFreeName, WriteOut, NameIsGone, WriteFails, Report, TapeOpens, TapeHeader,
     TapeAppends, TapeEnds, TapeBreaks, TapeDropped, user, loop, vars
<1>4. ASSUME NEW n \in Name, ForeignFile(n) PROVE OneWish'
  BY <1>4 DEF ForeignFile, user, loop
<1> QED
  BY <1>1, <1>2, <1>3, <1>4 DEF Next

(* The tape is opened once and is its batch's until the end. *)
LEMMA TapeStep == BatchInv /\ [Next]_vars => TapeThere'
<1> SUFFICES ASSUME BatchInv, [Next]_vars PROVE TapeThere'
  OBVIOUS
<1>0. TypeOK /\ Places /\ TapeThere
  BY DEF BatchInv
<1>1. ASSUME NEW fmt \in {"plain", "tape"}, StartClick(fmt) PROVE TapeThere'
  BY <1>1 DEF StartClick, TapeThere
<1>2. CASE CancelClick \/ FinishBatch \/ Crash
  BY <1>0, <1>2 DEF CancelClick, FinishBatch, Crash, TapeThere, loop
<1>3. CASE LoopTop
  BY <1>0, <1>3 DEF LoopTop, AfterLoop, TapeThere, TypeOK, user
<1>4. CASE Converted \/ WorkerDies \/ NameIsGone \/ TapeHeader \/ TapeBreaks
  BY <1>0, <1>4 DEF Converted, WorkerDies, NameIsGone, TapeHeader, TapeBreaks, TapeThere,
     Places, user, loop
<1>5. CASE Refused \/ NoFreeName
  BY <1>0, <1>5 DEF Refused, NoFreeName, FileDone, TapeThere, user
<1>6. CASE WriteOut \/ WriteFails
  <2>1. format = "plain" /\ format' = format /\ opened' = opened /\ pc' = "loop"
    BY <1>0, <1>6 DEF WriteOut, WriteFails, FileDone, Places, user
  <2> QED
    BY <1>0, <2>1 DEF TapeThere
<1>7. CASE Reserve \/ Report
  <2>1. ~opened /\ opened' = opened /\ format' = format
    BY <1>0, <1>7 DEF Reserve, Report, TapeThere, Places, user, loop
  <2>2. pc' \in {"open", "write", "answer"}
    BY <1>7 DEF Reserve, Report
  <2> QED
    BY <2>1, <2>2 DEF TapeThere
<1>8. CASE TapeOpens
  <2>1. CASE MayWrite(Tape)
    <3>1. Tape \in Name /\ Tape' = Tape
      BY <1>0, <1>8 DEF TapeOpens, Places, Tape
    <3>2. disk'[Tape] = Output(batch, <<>>, FALSE)
      BY <1>0, <1>8, <2>1, <3>1 DEF TapeOpens, TypeOK
    <3> QED
      BY <1>0, <1>8, <2>1, <3>1, <3>2 DEF TapeOpens, TapeThere, Places, Tape, Output, user
  <2>2. CASE ~MayWrite(Tape)
    BY <1>0, <1>8, <2>2 DEF TapeOpens, TapeThere, user
  <2> QED
    BY <2>1, <2>2
<1>9. CASE TapeAppends
  <2>1. /\ Tape \in Name /\ Tape' = Tape /\ disk[Tape] \in File
        /\ disk[Tape].kind = "output" /\ disk[Tape].batch = batch /\ ~disk[Tape].whole
    BY <1>0, <1>9 DEF TapeAppends, TapeThere, Tape, TypeOK
  <2>2. disk'[Tape] = [disk[Tape] EXCEPT !.records = Append(@, next)]
    BY <1>0, <1>9, <2>1 DEF TapeAppends, TypeOK
  <2>3. disk'[Tape].kind = "output" /\ disk'[Tape].batch = batch /\ ~disk'[Tape].whole
    BY <2>1, <2>2 DEF File
  <2> QED
    BY <1>0, <1>9, <2>1, <2>3 DEF TapeAppends, FileDone, TapeThere, Tape, user
<1>10. CASE TapeEnds \/ TapeDropped
  BY <1>0, <1>10 DEF TapeEnds, TapeDropped, TapeThere, user
<1>11. ASSUME NEW n \in Name, ForeignFile(n) PROVE TapeThere'
  <2>1. \A m \in Name : disk[m].kind = "output" => disk'[m] = disk[m]
    BY <1>0, <1>11, Files DEF ForeignFile, TypeOK
  <2> QED
    BY <1>0, <1>11, <2>1 DEF ForeignFile, TapeThere, user, loop
<1>12. CASE UNCHANGED vars
  BY <1>0, <1>12 DEF vars, TapeThere
<1> QED
  BY <1>1, <1>2, <1>3, <1>4, <1>5, <1>6, <1>7, <1>8, <1>9, <1>10, <1>11, <1>12
     DEF Next, Step

(* A file is written by the batch that runs. *)
LEMMA LaterStep == BatchInv /\ [Next]_vars => NoneFromLater'
<1> SUFFICES ASSUME BatchInv, [Next]_vars PROVE NoneFromLater'
  OBVIOUS
<1>0. TypeOK /\ NoneFromLater /\ batch \in Nat
  BY BatchAssumption DEF BatchInv, TypeOK
<1>1. batch' \in Nat /\ batch <= batch'
  <2>1. batch' = batch \/ batch' = batch + 1
    BY DEF Next, StartClick, CancelClick, FinishBatch, Crash, Step, LoopTop, Converted,
       Refused, WorkerDies, Reserve, NoFreeName, WriteOut, NameIsGone, WriteFails, Report,
       TapeOpens, TapeHeader, TapeAppends, TapeEnds, TapeBreaks, TapeDropped,
       ForeignFile, user, vars
  <2> QED
    BY <1>0, <2>1
<1>2. ASSUME NEW m \in Name PROVE disk'[m].batch <= batch
  <2>0. disk[m] \in File /\ disk[m].batch \in Nat /\ disk[m].batch <= batch
    BY <1>0, <1>2, BatchAssumption DEF TypeOK, NoneFromLater, File
  <2>1. CASE disk' = disk
    BY <2>0, <2>1
  <2>2. CASE WriteOut \/ WriteFails
    BY <1>0, <2>0, <2>2 DEF WriteOut, WriteFails, Output, TypeOK
  <2>3. CASE TapeOpens
    BY <1>0, <2>0, <2>3 DEF TapeOpens, Output, TypeOK
  <2>4. CASE TapeAppends
    BY <1>0, <2>0, <2>4 DEF TapeAppends, TypeOK, File
  <2>a. ASSUME disk' \in {Removed, Stays} PROVE disk'[m].batch <= batch
    <3>1. Removed[m] = disk[m] \/ Removed[m] = NoFile
      BY <1>0 DEF Removed, TypeOK
    <3>2. Stays[m] = disk[m] \/ Stays[m] = [disk[m] EXCEPT !.kind = "left"]
      BY <1>0 DEF Stays, TypeOK
    <3>3. [disk[m] EXCEPT !.kind = "left"].batch = disk[m].batch
      BY <2>0 DEF File
    <3>4. Removed[m].batch <= batch
      BY <1>0, <2>0, <3>1, Files
    <3>5. Stays[m].batch <= batch
      BY <2>0, <3>2, <3>3
    <3> QED
      BY <2>a, <3>4, <3>5
  <2>5. CASE TapeEnds
    <3>1. CASE disk' = [disk EXCEPT ![Tape].whole = TRUE]
      BY <1>0, <2>0, <3>1 DEF TypeOK, File
    <3> QED
      BY <2>5, <2>a, <3>1 DEF TapeEnds
  <2>6. CASE TapeDropped
    <3>1. disk' = disk \/ disk' \in {Removed, Stays}
      BY <2>6 DEF TapeDropped, Dropped
    <3> QED
      BY <2>0, <2>a, <3>1
  <2>7. ASSUME NEW n \in Name, ForeignFile(n) PROVE disk'[m].batch <= batch
    BY <1>0, <2>0, <2>7, Files DEF ForeignFile, TypeOK
  <2>8. \/ disk' = disk \/ WriteOut \/ WriteFails \/ TapeOpens \/ TapeAppends
        \/ TapeEnds \/ TapeDropped \/ \E n \in Name : ForeignFile(n)
    BY DEF Next, StartClick, CancelClick, FinishBatch, Crash, Step, LoopTop, Converted,
       Refused, WorkerDies, Reserve, NoFreeName, NameIsGone, Report, TapeHeader,
       TapeBreaks, vars
  <2> QED
    BY <2>1, <2>2, <2>3, <2>4, <2>5, <2>6, <2>7, <2>8
<1>3. ASSUME NEW m \in Name PROVE disk'[m].batch <= batch'
  <2>1. disk'[m] \in File
    BY <1>3, TypeStep DEF TypeOK
  <2> QED
    BY <1>0, <1>1, <1>2, <1>3, <2>1, BatchAssumption DEF File
<1> QED
  BY <1>3 DEF NoneFromLater

-----------------------------------------------------------------------------
(* Every variable of a batch has its type in every reachable state         *)
(* (electron/main.ts 1438-1707).                                           *)
THEOREM BatchTypes == Spec => []TypeOK
<1>1. BatchInv /\ [Next]_vars => BatchInv'
  BY TypeStep, PlacesStep, WishStep, TapeStep, LaterStep DEF BatchInv
<1>2. BatchInv => TypeOK
  BY DEF BatchInv
<1> QED
  BY InitBatch, <1>1, <1>2, PTL DEF Spec

(* Where a batch is, its flag and its tape fit together                   *)
(* (batchConvert, main.ts 1438-1705).                                      *)
THEOREM BatchInvariant == Spec => []BatchInv
<1>1. BatchInv /\ [Next]_vars => BatchInv'
  BY TypeStep, PlacesStep, WishStep, TapeStep, LaterStep DEF BatchInv
<1> QED
  BY InitBatch, <1>1, PTL DEF Spec

(* No file of others, no output of an earlier batch and no finished one is *)
(* ever changed (writeUniqueOut, the flag 'wx', the unlink of a tape).     *)
THEOREM NeverReplaced == Spec => NothingReplaced
<1> DEFINE Kept == \A n \in Name :
      disk[n] # NoFile /\ (disk[n].whole \/ disk[n].batch # batch) => disk'[n] = disk[n]
<1>1. BatchInv /\ [Next]_vars => Kept
  <2> SUFFICES ASSUME BatchInv, [Next]_vars, NEW n \in Name, disk[n] # NoFile,
                      disk[n].whole \/ disk[n].batch # batch
               PROVE  disk'[n] = disk[n]
    OBVIOUS
  <2>0. TypeOK /\ TapeThere
    BY DEF BatchInv
  <2>1. CASE WriteOut \/ WriteFails
    BY <2>0, <2>1 DEF WriteOut, WriteFails, MayWrite, TypeOK
  <2>2. CASE TapeOpens
    BY <2>0, <2>2 DEF TapeOpens, MayWrite, TypeOK
  <2>3. CASE TapeAppends \/ TapeEnds
    <3>1. Tape # n
      BY <2>0, <2>3 DEF TapeAppends, TapeEnds, TapeThere, Tape
    <3> QED
      BY <2>0, <2>3, <3>1 DEF TapeAppends, TapeEnds, Removed, Stays, TypeOK
  <2>4. CASE TapeDropped
    <3>1. opened => Tape # n
      BY <2>0, <2>4 DEF TapeDropped, TapeThere, Tape
    <3> QED
      BY <2>0, <2>4, <3>1 DEF TapeDropped, Dropped, Removed, Stays, TypeOK
  <2>5. ASSUME NEW m \in Name, ForeignFile(m) PROVE disk'[n] = disk[n]
    BY <2>0, <2>5 DEF ForeignFile, TypeOK
  <2>6. CASE disk' = disk
    BY <2>6
  <2>7. \/ disk' = disk \/ WriteOut \/ WriteFails \/ TapeOpens \/ TapeAppends
        \/ TapeEnds \/ TapeDropped \/ \E m \in Name : ForeignFile(m)
    BY DEF Next, StartClick, CancelClick, FinishBatch, Crash, Step, LoopTop, Converted,
       Refused, WorkerDies, Reserve, NoFreeName, NameIsGone, Report, TapeHeader,
       TapeBreaks, vars
  <2> QED
    BY <2>1, <2>2, <2>3, <2>4, <2>5, <2>6, <2>7
<1> QED
  BY BatchInvariant, <1>1, PTL DEF Spec, NothingReplaced

(* No file is begun after the click to cancel, and no batch is cancelled   *)
(* by a click meant for another (cancelRequested).                         *)
THEOREM CancelIsMeant == Spec => CancelMeant
<1> DEFINE Meant == /\ pc = "loop" /\ pc' = "convert" => ~clicked
                    /\ canceled' /\ ~canceled => clicked
<1>1. BatchInv /\ [Next]_vars => Meant
  <2> SUFFICES ASSUME BatchInv, [Next]_vars PROVE Meant
    OBVIOUS
  <2>0. cancel = clicked
    BY DEF BatchInv, OneWish
  <2>1. CASE LoopTop
    BY <2>0, <2>1 DEF LoopTop, AfterLoop
  <2>2. CASE ~LoopTop
    <3>1. canceled' = canceled \/ canceled' = FALSE
      BY <2>2 DEF Next, Step, StartClick, CancelClick, FinishBatch, Crash, Converted,
         Refused, WorkerDies, Reserve, NoFreeName, WriteOut, NameIsGone, WriteFails,
         Report, TapeOpens, TapeHeader, TapeAppends, TapeEnds, TapeBreaks, TapeDropped,
         ForeignFile, loop, vars
    <3>2. pc = "loop" => pc' # "convert"
      BY <2>2 DEF Next, Step, StartClick, CancelClick, FinishBatch, Crash, Converted,
         Refused, WorkerDies, Reserve, NoFreeName, WriteOut, NameIsGone, WriteFails,
         Report, TapeOpens, TapeHeader, TapeAppends, TapeEnds, TapeBreaks, TapeDropped,
         ForeignFile, loop, vars
    <3> QED
      BY <3>1, <3>2
  <2> QED
    BY <2>1, <2>2
<1> QED
  BY BatchInvariant, <1>1, PTL DEF Spec, CancelMeant

-----------------------------------------------------------------------------
(* What is known of the files of a batch that is no tape: which of them    *)
(* are done, where the converted ones lie, and that no other output does.  *)
Marked == \A f \in Input : result[f] = "none" <=> next <= f

OkLies ==
    \A f \in Input : result[f] = "ok" =>
        out[f] \in Name /\ disk[out[f]] = Output(batch, <<f>>, TRUE)

LyingIsOk ==
    \A n \in Name : disk[n].kind = "output" /\ disk[n].batch = batch /\ disk[n].whole
        => \E f \in Input : result[f] = "ok" /\ out[f] = n

AllSeen == pc \in {"report", "answer"} => canceled \/ next = MaxFile + 1

Told ==
    pc = "answer" =>
        /\ counts.done = Cardinality({f \in Input : result[f] = "ok"})
        /\ counts.failed = Cardinality({f \in Input : result[f] = "failed"})

Reported ==
    format = "plain" /\ pc # "idle" => Marked /\ OkLies /\ LyingIsOk /\ AllSeen /\ Told

(* A converted file tells its batch, its file and that it is whole. *)
LEMMA OkTells ==
  ASSUME TypeOK, Reported, format = "plain", pc # "idle", NEW f \in Input, result[f] = "ok"
  PROVE  /\ out[f] \in Name /\ disk[out[f]] # NoFile
         /\ disk[out[f]].kind = "output" /\ disk[out[f]].batch = batch
         /\ disk[out[f]].records = <<f>> /\ disk[out[f]].whole
<1>1. out[f] \in Name /\ disk[out[f]] = Output(batch, <<f>>, TRUE)
  BY DEF Reported, OkLies
<1>2. /\ disk[out[f]].kind = "output" /\ disk[out[f]].batch = batch
      /\ disk[out[f]].records = <<f>> /\ disk[out[f]].whole
  BY <1>1 DEF Output
<1>3. NoFile.kind = "none"
  BY DEF NoFile
<1> QED
  BY <1>1, <1>2, <1>3

(* A step that leaves files and results alone. *)
LEMMA LeftAlone ==
  ASSUME Reported, format = "plain", pc # "idle",
         disk' = disk, out' = out, result' = result, batch' = batch, next' = next,
         pc' \in {"report", "answer"} => canceled' \/ next = MaxFile + 1,
         pc' = "answer" => pc = "answer" /\ counts' = counts
  PROVE  Reported'
<1>1. Marked' /\ OkLies' /\ LyingIsOk'
  BY DEF Reported, Marked, OkLies, LyingIsOk
<1>2. AllSeen' /\ Told'
  BY DEF Reported, AllSeen, Told
<1> QED
  BY <1>1, <1>2 DEF Reported

(* A file of the loop is done, and its name, if it has one, is whole. *)
LEMMA OneMore ==
  ASSUME TypeOK, Reported, format = "plain", pc # "idle", NEW r \in {"ok", "failed"},
         next \in Input, result' = [result EXCEPT ![next] = r], next' = next + 1,
         pc' = "loop", batch' = batch,
         OkLies', LyingIsOk'
  PROVE  Reported'
<1>1. \A f \in Input : result'[f] = IF f = next THEN r ELSE result[f]
  BY DEF TypeOK
<1>2. \A f \in Input : next + 1 <= f <=> next <= f /\ f # next
  BY BatchAssumption DEF Input
<1>3. Marked'
  BY <1>1, <1>2 DEF Reported, Marked
<1>4. AllSeen' /\ Told'
  BY DEF AllSeen, Told
<1> QED
  BY <1>3, <1>4 DEF Reported

(* The file of the loop has no result yet. *)
LEMMA NotYet ==
  ASSUME Reported, format = "plain", pc # "idle", next \in Input
  PROVE  result[next] = "none"
BY BatchAssumption DEF Reported, Marked, Input

(* Each step of a batch of plain files keeps what is known of its files. *)
LEMMA ReportedStep == BatchInv /\ Reported /\ [Next]_vars => Reported'
<1> SUFFICES ASSUME BatchInv, Reported, [Next]_vars, format' = "plain", pc' # "idle"
             PROVE  Reported'
  BY DEF Reported
<1>0. TypeOK /\ Places /\ NoneFromLater
  BY DEF BatchInv
<1>1. ASSUME NEW fmt \in {"plain", "tape"}, StartClick(fmt) PROVE Reported'
  <2>1. /\ next' = 1 /\ result' = [f \in Input |-> "none"] /\ disk' = disk
        /\ pc' \in {"loop", "reserve"} /\ batch' = batch + 1
    BY <1>1 DEF StartClick
  <2>2. \A n \in Name : disk[n].batch # batch'
    BY <1>0, <2>1, BatchAssumption DEF NoneFromLater, TypeOK, File
  <2>3. Marked'
    BY <2>1, BatchAssumption DEF Marked, Input
  <2>4. OkLies' /\ LyingIsOk'
    BY <2>1, <2>2 DEF OkLies, LyingIsOk
  <2>5. AllSeen' /\ Told'
    BY <2>1 DEF AllSeen, Told
  <2> QED
    BY <2>3, <2>4, <2>5 DEF Reported
<1>2. CASE CancelClick \/ UNCHANGED vars
  <2>1. /\ disk' = disk /\ out' = out /\ result' = result /\ batch' = batch /\ next' = next
        /\ pc' = pc /\ format' = format /\ canceled' = canceled /\ counts' = counts
    BY <1>2 DEF CancelClick, vars
  <2> QED
    BY <2>1, LeftAlone DEF Reported, AllSeen
<1>3. CASE FinishBatch \/ Crash
  BY <1>3 DEF FinishBatch, Crash
<1>4. CASE LoopTop
  <2>1. /\ disk' = disk /\ out' = out /\ result' = result /\ batch' = batch /\ next' = next
        /\ pc = "loop" /\ format' = format /\ pc' # "answer"
        /\ pc' = "report" => LoopIsOver \/ canceled'
    BY <1>4 DEF LoopTop, AfterLoop, user
  <2>2. LoopIsOver => next = MaxFile + 1
    BY <1>0, BatchAssumption DEF LoopIsOver, TypeOK
  <2> QED
    BY <2>1, <2>2, LeftAlone
<1>5. CASE Converted \/ WorkerDies \/ NameIsGone \/ TapeHeader \/ TapeBreaks
  <2>1. /\ disk' = disk /\ out' = out /\ result' = result /\ batch' = batch /\ next' = next
        /\ pc # "idle" /\ format' = format /\ pc' \notin {"report", "answer"}
    BY <1>5 DEF Converted, WorkerDies, NameIsGone, TapeHeader, TapeBreaks, user, loop
  <2> QED
    BY <2>1, LeftAlone
<1>6. CASE Refused \/ NoFreeName
  <2>1. format = "plain"
    BY <1>6 DEF Refused, NoFreeName, user
  <2>2. /\ pc \in {"convert", "reserve"} /\ disk' = disk /\ out' = out
        /\ batch' = batch /\ result' = [result EXCEPT ![next] = "failed"]
        /\ next' = next + 1 /\ pc' = "loop"
    BY <1>6, <2>1 DEF Refused, NoFreeName, FileDone, user
  <2>3. next \in Input
    BY <1>0, <2>2, BatchAssumption DEF Places, TypeOK, Input
  <2>4. result[next] = "none" /\ \A f \in Input : f # next => result'[f] = result[f]
    BY <1>0, <2>1, <2>2, <2>3, NotYet DEF TypeOK
  <2>5. result'[next] = "failed"
    BY <1>0, <2>2, <2>3 DEF TypeOK
  <2>6. OkLies' /\ LyingIsOk'
    BY <2>1, <2>2, <2>4, <2>5 DEF Reported, OkLies, LyingIsOk
  <2> QED
    BY <1>0, <2>1, <2>2, <2>3, <2>6, OneMore
<1>7. CASE Reserve
  <2>1. /\ disk' = disk /\ batch' = batch /\ result' = result /\ next' = next
        /\ format' = format /\ pc = "reserve" /\ pc' \in {"write", "open"}
        /\ \E n : out' = [out EXCEPT ![next] = n]
    BY <1>7 DEF Reserve, user, loop
  <2>2. next \in Input /\ format = "plain"
    BY <1>0, <2>1, BatchAssumption DEF Places, TypeOK, Input
  <2>3. \A f \in Input : result[f] = "ok" => out'[f] = out[f]
    <3>1. \A f \in Input : f # next => out'[f] = out[f]
      BY <1>0, <2>1 DEF TypeOK
    <3>2. result[next] = "none"
      BY <2>1, <2>2, NotYet
    <3> QED
      BY <3>1, <3>2
  <2>4. Marked'
    BY <2>1, <2>2 DEF Reported, Marked
  <2>5. OkLies'
    BY <2>1, <2>2, <2>3 DEF Reported, OkLies
  <2>7. LyingIsOk'
    BY <2>1, <2>2, <2>3 DEF Reported, LyingIsOk
  <2>6. AllSeen' /\ Told'
    BY <2>1 DEF AllSeen, Told
  <2> QED
    BY <2>4, <2>5, <2>6, <2>7 DEF Reported
<1>8. CASE WriteOut \/ WriteFails
  <2> DEFINE n == out[next]
  <2>1. /\ pc = "write" /\ batch' = batch /\ out' = out /\ next' = next + 1 /\ pc' = "loop"
        /\ format' = format /\ disk[n] = NoFile
    BY <1>8 DEF WriteOut, WriteFails, FileDone, MayWrite, user
  <2>2. next \in Input /\ n \in Name /\ format = "plain"
    BY <1>0, <2>1, BatchAssumption DEF Places, TypeOK, Input
  <2>3. result[next] = "none"
    BY <2>1, <2>2, NotYet
  <2>4. \A f \in Input : result[f] = "ok" => out[f] # n
    BY <1>0, <2>1, <2>2, OkTells
  <2>5. \A m \in Name : m # n => disk'[m] = disk[m]
    BY <1>0, <1>8 DEF WriteOut, WriteFails, TypeOK
  <2>6. \A f \in Input : f # next => result'[f] = result[f]
    BY <1>0, <1>8 DEF WriteOut, WriteFails, FileDone, TypeOK
  <2>7. CASE WriteOut
    <3>1. disk'[n] = Output(batch, <<next>>, TRUE)
      BY <1>0, <2>2, <2>7 DEF WriteOut, TypeOK
    <3>2. result' = [result EXCEPT ![next] = "ok"] /\ result'[next] = "ok"
      BY <1>0, <2>2, <2>7 DEF WriteOut, FileDone, TypeOK
    <3>3. OkLies'
      BY <2>1, <2>2, <2>4, <2>5, <2>6, <3>1, <3>2 DEF Reported, OkLies
    <3>4. LyingIsOk'
      BY <2>1, <2>2, <2>3, <2>5, <2>6, <3>2 DEF Reported, LyingIsOk
    <3> QED
      BY <1>0, <2>1, <2>2, <3>2, <3>3, <3>4, OneMore
  <2>8. CASE WriteFails
    <3>1. disk'[n] = Output(batch, <<next>>, FALSE)
      BY <1>0, <2>2, <2>8 DEF WriteFails, TypeOK
    <3>2. result' = [result EXCEPT ![next] = "failed"] /\ result'[next] = "failed"
      BY <1>0, <2>2, <2>8 DEF WriteFails, FileDone, TypeOK
    <3>3. OkLies'
      BY <2>1, <2>2, <2>4, <2>5, <2>6, <3>2 DEF Reported, OkLies
    <3>4. ~disk'[n].whole
      BY <3>1 DEF Output
    <3>5. LyingIsOk'
      BY <2>1, <2>2, <2>3, <2>5, <2>6, <3>4 DEF Reported, LyingIsOk
    <3> QED
      BY <1>0, <2>1, <2>2, <3>2, <3>3, <3>5, OneMore
  <2> QED
    BY <1>8, <2>7, <2>8
<1>9. CASE Report
  <2>1. /\ disk' = disk /\ out' = out /\ result' = result /\ batch' = batch /\ next' = next
        /\ pc = "report" /\ pc' = "answer" /\ format' = format /\ canceled' = canceled
    BY <1>9 DEF Report, user
  <2>2. Marked' /\ OkLies' /\ LyingIsOk' /\ AllSeen'
    BY <2>1 DEF Reported, Marked, OkLies, LyingIsOk, AllSeen
  <2>3. Told'
    BY <1>9, <2>1 DEF Report, Told, Is
  <2> QED
    BY <2>2, <2>3 DEF Reported
<1>10. CASE TapeOpens \/ TapeAppends \/ TapeEnds \/ TapeDropped
  <2>1. format = "tape" /\ format' = format
    BY <1>0, <1>10 DEF TapeOpens, TapeAppends, TapeEnds, TapeDropped, Places, user
  <2> QED
    BY <2>1
<1>11. ASSUME NEW n \in Name, ForeignFile(n) PROVE Reported'
  <2>1. /\ \A m \in Name : disk'[m] = IF m = n THEN Foreign ELSE disk[m]
        /\ disk[n] = NoFile
    BY <1>0, <1>11 DEF ForeignFile, TypeOK
  <2>2. /\ result' = result /\ out' = out /\ next' = next /\ pc' = pc /\ format' = format
        /\ canceled' = canceled /\ counts' = counts /\ batch' = batch
    BY <1>11 DEF ForeignFile, user, loop
  <2>3. Marked' /\ AllSeen' /\ Told'
    BY <2>2 DEF Reported, Marked, AllSeen, Told
  <2>4. OkLies'
    <3>1. \A f \in Input : result[f] = "ok" => disk'[out[f]] = disk[out[f]]
      <4> SUFFICES ASSUME NEW f \in Input, result[f] = "ok" PROVE disk'[out[f]] = disk[out[f]]
        OBVIOUS
      <4>1. pc # "idle" /\ format = "plain"
        BY <2>2
      <4>2. out[f] \in Name /\ disk[out[f]] # NoFile
        BY <1>0, <4>1, OkTells
      <4> QED
        BY <2>1, <4>2
    <3> QED
      BY <2>2, <3>1 DEF Reported, OkLies
  <2>5. LyingIsOk'
    BY <2>1, <2>2, Files DEF Reported, LyingIsOk
  <2> QED
    BY <2>3, <2>4, <2>5 DEF Reported
<1> QED
  BY <1>1, <1>2, <1>3, <1>4, <1>5, <1>6, <1>7, <1>8, <1>9, <1>10, <1>11 DEF Next, Step

-----------------------------------------------------------------------------
(* As many whole outputs as files that are called converted. *)
LEMMA OneOutputEach ==
  ASSUME TypeOK, Reported, format = "plain", pc = "answer"
  PROVE  Cardinality(Is("ok")) = Cardinality({n \in Written : disk[n].whole})
<1> DEFINE W == {n \in Written : disk[n].whole}
           S == Is("ok")
           b == [f \in S |-> out[f]]
<1>1. \A f \in S : f \in Input /\ result[f] = "ok"
  BY DEF Is
<1>2. \A f \in S : out[f] \in W
  BY <1>1, OkTells DEF Written
<1>3. \A f, g \in S : out[f] = out[g] => f = g
  <2> SUFFICES ASSUME NEW f \in S, NEW g \in S, out[f] = out[g] PROVE f = g
    OBVIOUS
  <2>1. disk[out[f]].records = <<f>> /\ disk[out[g]].records = <<g>>
    BY <1>1, OkTells
  <2>2. <<f>> = <<g>>
    BY <2>1
  <2> QED
    BY <2>2
<1>4. \A n \in W : \E f \in S : out[f] = n
  BY DEF Is, Reported, LyingIsOk, Written
<1> HIDE DEF W, S
<1>5. b \in Injection(S, W)
  <2>1. b \in [S -> W]
    BY <1>2
  <2>2. IsInjective(b)
    BY <1>3 DEF IsInjective
  <2> QED
    BY <2>1, <2>2 DEF Injection
<1>6. b \in Surjection(S, W)
  BY <1>2, <1>4 DEF Surjection
<1>7. ExistsBijection(S, W)
  BY <1>5, <1>6 DEF Bijection, ExistsBijection
<1>8. IsFiniteSet(S)
  BY Counted DEF S
<1> QED
  BY <1>7, <1>8, FS_Bijection DEF S, W

(* Unless a batch was cancelled each of its files was converted or failed. *)
LEMMA AllAccounted ==
  ASSUME TypeOK, Reported, format = "plain", pc = "answer", ~canceled
  PROVE  Cardinality(Is("ok")) + Cardinality(Is("failed")) = MaxFile
<1>1. Is("ok") \cup Is("failed") = Input
  <2>1. next = MaxFile + 1 /\ \A f \in Input : result[f] = "none" <=> next <= f
    BY DEF Reported, AllSeen, Marked
  <2>2. \A f \in Input : result[f] # "none"
    BY <2>1, BatchAssumption DEF Input
  <2> QED
    BY <2>2 DEF Is, TypeOK
<1>2. Is("ok") \cap Is("failed") = {}
  BY DEF Is
<1>3. IsFiniteSet(Is("ok")) /\ IsFiniteSet(Is("failed"))
  BY Counted
<1>4. Cardinality(Input) = Cardinality(Is("ok")) + Cardinality(Is("failed")) - Cardinality({})
  BY <1>1, <1>2, <1>3, FS_Union
<1>5. Cardinality(Input) = MaxFile
  BY FS_Interval, BatchAssumption DEF Input
<1>6. Cardinality(Is("ok")) \in Nat /\ Cardinality(Is("failed")) \in Nat
  BY <1>3, FS_CardinalityType
<1> QED
  BY <1>4, <1>5, <1>6, FS_EmptySet, BatchAssumption

(* What a batch reports of plain files is what is in the folder            *)
(* (batchConvert, main.ts 1668-1705).                                      *)
THEOREM ReportsTrue == Spec => []ReportTrue
<1>1. Init => Reported
  BY DEF Init, Reported
<1>2. BatchInv /\ Reported => ReportTrue
  <2> SUFFICES ASSUME BatchInv, Reported, pc = "answer", format = "plain"
               PROVE  /\ \A f \in Is("ok") : disk[out[f]] = Output(batch, <<f>>, TRUE)
                      /\ \A n \in Written : disk[n].whole => \E f \in Is("ok") : out[f] = n
                      /\ counts.done = Cardinality({n \in Written : disk[n].whole})
                      /\ canceled \/ counts.done + counts.failed = MaxFile
    BY DEF ReportTrue
  <2>1. TypeOK
    BY DEF BatchInv
  <2>2. counts.done = Cardinality(Is("ok")) /\ counts.failed = Cardinality(Is("failed"))
    BY DEF Reported, Told, Is
  <2>3. \A f \in Is("ok") : disk[out[f]] = Output(batch, <<f>>, TRUE)
    BY DEF Is, Reported, OkLies
  <2>4. \A n \in Written : disk[n].whole => \E f \in Is("ok") : out[f] = n
    BY DEF Is, Reported, LyingIsOk, Written
  <2> QED
    BY <2>1, <2>2, <2>3, <2>4, OneOutputEach, AllAccounted
<1> QED
  BY BatchInvariant, ReportedStep, <1>1, <1>2, PTL DEF Spec

-----------------------------------------------------------------------------
(* What is known of a tape: until it is opened the batch has written and   *)
(* converted nothing; from then on it is all that the batch has written,   *)
(* and it holds the files converted so far in their order.                 *)
OnTape(s) ==
    /\ \A i, j \in DOMAIN s : i < j => s[i] < s[j]
    /\ {s[i] : i \in DOMAIN s} = Is("ok")
    /\ Cardinality(Is("ok")) = Len(s)

Taping ==
    format = "tape" /\ pc # "idle" =>
        /\ Marked
        /\ ~opened => Is("ok") = {} /\ Written = {}
        /\ opened /\ pc # "answer" => Written = {Tape} /\ OnTape(disk[Tape].records)
        /\ TapeWhole

(* A step that leaves the tape alone and does not end the batch. *)
LEMMA TapeLeft ==
  ASSUME Taping, format = "tape", pc # "idle", format' = "tape",
         disk' = disk, out' = out, batch' = batch, opened' = opened,
         \A f \in Input : result'[f] = "ok" <=> result[f] = "ok",
         Marked', pc' = "answer" => pc = "answer" /\ counts' = counts,
         pc = "answer" => pc' = "answer"
  PROVE  Taping'
<1>1. Is("ok")' = Is("ok") /\ Written' = Written /\ Tape' = Tape
  BY DEF Is, Written, Tape
<1>2. OnTape(disk[Tape].records)' <=> OnTape(disk[Tape].records)
  BY <1>1 DEF OnTape
<1>3. TapeWhole'
  <2>1. CASE pc' # "answer"
    BY <2>1 DEF TapeWhole
  <2>2. CASE pc' = "answer"
    BY <1>1, <2>2 DEF TapeWhole, Taping
  <2> QED
    BY <2>1, <2>2
<1> QED
  BY <1>1, <1>2, <1>3 DEF Taping

(* One more record, of the file of the loop. *)
LEMMA OneMoreRecord ==
  ASSUME TypeOK, next \in Input, Marked, NEW s \in Seq(Input), OnTape(s),
         result' = [result EXCEPT ![next] = "ok"]
  PROVE  /\ \A i, j \in DOMAIN Append(s, next) :
               i < j => Append(s, next)[i] < Append(s, next)[j]
         /\ {Append(s, next)[i] : i \in DOMAIN Append(s, next)} = Is("ok")'
         /\ Cardinality(Is("ok")') = Len(Append(s, next))
<1> DEFINE t == Append(s, next)
<1>1. /\ Len(s) \in Nat /\ DOMAIN s = 1 .. Len(s) /\ Len(t) = Len(s) + 1
      /\ DOMAIN t = 1 .. Len(s) + 1 /\ t[Len(s) + 1] = next
      /\ \A i \in DOMAIN s : t[i] = s[i]
  OBVIOUS
<1>2. Is("ok")' = Is("ok") \cup {next}
  BY DEF Is, TypeOK
<1>3. result[next] = "none"
  BY BatchAssumption DEF Marked, Input
<1>4. next \notin Is("ok")
  BY <1>3 DEF Is
<1>5. \A i \in DOMAIN s : s[i] \in Is("ok") /\ s[i] \in Input /\ s[i] < next
  <2> SUFFICES ASSUME NEW i \in DOMAIN s
               PROVE  s[i] \in Is("ok") /\ s[i] \in Input /\ s[i] < next
    OBVIOUS
  <2>1. s[i] \in Is("ok") /\ s[i] \in Input
    BY DEF OnTape, Is
  <2>2. ~(next <= s[i])
    BY <2>1 DEF Marked, Is
  <2> QED
    BY <2>1, <2>2, BatchAssumption DEF Input
<1> HIDE DEF t
<1>6. \A i, j \in DOMAIN t : i < j => t[i] < t[j]
  <2> SUFFICES ASSUME NEW i \in DOMAIN t, NEW j \in DOMAIN t, i < j PROVE t[i] < t[j]
    OBVIOUS
  <2>1. i \in DOMAIN s
    BY <1>1
  <2>2. CASE j \in DOMAIN s
    BY <1>1, <2>1, <2>2 DEF OnTape
  <2>3. CASE j = Len(s) + 1
    BY <1>1, <1>5, <2>1, <2>3
  <2> QED
    BY <1>1, <2>2, <2>3
<1>7. {t[i] : i \in DOMAIN t} = Is("ok") \cup {next}
  <2>1. \A x \in Is("ok") : \E i \in DOMAIN s : x = s[i]
    BY DEF OnTape
  <2>2. \A x \in Is("ok") \cup {next} : \E i \in DOMAIN t : x = t[i]
    BY <1>1, <2>1
  <2>3. \A i \in DOMAIN t : t[i] \in Is("ok") \cup {next}
    BY <1>1, <1>5
  <2> QED
    BY <2>2, <2>3
<1>8. Cardinality(Is("ok") \cup {next}) = Len(t)
  <2>1. IsFiniteSet(Is("ok"))
    BY Counted
  <2>2. Cardinality(Is("ok") \cup {next}) = Cardinality(Is("ok")) + 1
    BY <1>4, <2>1, FS_AddElement
  <2> QED
    BY <1>1, <2>2 DEF OnTape
<1> QED
  BY <1>2, <1>6, <1>7, <1>8 DEF t

(* The numbers of the loop. *)
LEMMA MarkedOn ==
  ASSUME TypeOK, Marked, next \in Input, NEW r \in {"ok", "failed"},
         result' = [result EXCEPT ![next] = r], next' = next + 1
  PROVE  Marked'
<1>1. \A f \in Input : result'[f] = IF f = next THEN r ELSE result[f]
  BY DEF TypeOK
<1>2. \A f \in Input : next + 1 <= f <=> next <= f /\ f # next
  BY BatchAssumption DEF Input
<1> QED
  BY <1>1, <1>2 DEF Marked

(* A tape that was to be removed is no output, also if it stays. *)
LEMMA Gone ==
  ASSUME TypeOK, Tape \in Name, disk' \in {Removed, Stays}
  PROVE  disk'[Tape].kind # "output" /\ \A n \in Name : n # Tape => disk'[n] = disk[n]
<1>1. disk[Tape] \in File
  BY DEF TypeOK
<1>2. CASE disk' = Removed
  BY <1>2 DEF Removed, TypeOK, NoFile
<1>3. CASE disk' = Stays
  <2>1. disk'[Tape] = [disk[Tape] EXCEPT !.kind = "left"]
    BY <1>3 DEF Stays, TypeOK
  <2>2. disk'[Tape].kind = "left"
    BY <1>1, <2>1 DEF File
  <2> QED
    BY <1>3, <2>2 DEF Stays, TypeOK
<1> QED
  BY <1>2, <1>3

(* Each step of a batch that makes a tape keeps what is known of it. *)
LEMMA TapingStep == BatchInv /\ Taping /\ [Next]_vars => Taping'
<1> SUFFICES ASSUME BatchInv, Taping, [Next]_vars, format' = "tape", pc' # "idle"
             PROVE  Taping'
  BY DEF Taping
<1>0. TypeOK /\ Places /\ TapeThere /\ NoneFromLater
  BY DEF BatchInv
<1>1. ASSUME NEW fmt \in {"plain", "tape"}, StartClick(fmt) PROVE Taping'
  <2>1. /\ next' = 1 /\ result' = [f \in Input |-> "none"] /\ disk' = disk
        /\ pc' # "answer" /\ batch' = batch + 1 /\ ~opened'
    BY <1>1 DEF StartClick
  <2>2. \A n \in Name : disk[n].batch # batch'
    BY <1>0, <2>1, BatchAssumption DEF NoneFromLater, TypeOK, File
  <2>3. Marked'
    BY <2>1, BatchAssumption DEF Marked, Input
  <2>4. Is("ok")' = {} /\ Written' = {}
    BY <2>1, <2>2 DEF Is, Written
  <2> QED
    BY <2>1, <2>3, <2>4 DEF Taping, TapeWhole
<1>2. CASE CancelClick
  BY <1>2, TapeLeft DEF CancelClick, Taping, Marked
<1>3. CASE FinishBatch \/ Crash
  BY <1>3 DEF FinishBatch, Crash
<1>4. CASE LoopTop \/ Converted \/ WorkerDies \/ TapeHeader \/ TapeBreaks
  <2>1. /\ UNCHANGED <<disk, out, batch, opened, result, next, format>>
        /\ pc \notin {"idle", "answer"}
    BY <1>4 DEF LoopTop, Converted, WorkerDies, TapeHeader, TapeBreaks, user, loop
  <2>2. pc' # "answer"
    BY <1>4, <1>0, <2>1 DEF LoopTop, AfterLoop, Converted, WorkerDies, TapeHeader, TapeBreaks
  <2>3. Marked'
    BY <2>1 DEF Taping, Marked
  <2> QED
    BY <2>1, <2>2, <2>3, TapeLeft
<1>5. CASE Refused
  <2>1. /\ UNCHANGED <<disk, out, batch, opened, format>> /\ pc = "convert" /\ pc' = "loop"
        /\ result' = [result EXCEPT ![next] = "failed"] /\ next' = next + 1
    BY <1>5 DEF Refused, FileDone, user
  <2>2. next \in Input /\ Marked
    BY <1>0, <2>1 DEF TypeOK, Places, Input, Taping
  <2>3. Marked'
    BY <1>0, <2>1, <2>2, MarkedOn
  <2>4. result[next] = "none"
    BY <2>2, BatchAssumption DEF Marked, Input
  <2>5. \A f \in Input : result'[f] = "ok" <=> result[f] = "ok"
    BY <1>0, <2>1, <2>4 DEF TypeOK
  <2> QED
    BY <2>1, <2>3, <2>5, TapeLeft
<1>6. CASE Reserve
  <2>1. /\ UNCHANGED <<disk, batch, opened, format, result, next>>
        /\ pc = "reserve" /\ pc' = "open"
    BY <1>6 DEF Reserve, user, loop
  <2>2. ~opened
    BY <1>0, <2>1 DEF TapeThere
  <2>3. Is("ok")' = Is("ok") /\ Written' = Written /\ Marked'
    BY <2>1 DEF Is, Written, Taping, Marked
  <2> QED
    BY <2>1, <2>2, <2>3 DEF Taping, TapeWhole
<1>7. CASE NoFreeName
  <2>1. /\ UNCHANGED <<disk, batch, opened, format, result, next>> /\ pc = "reserve"
    BY <1>7 DEF NoFreeName, user
  <2>2. ~opened
    BY <1>0, <2>1 DEF TapeThere
  <2>3. Is("ok")' = Is("ok") /\ Written' = Written /\ Marked'
    BY <2>1 DEF Is, Written, Taping, Marked
  <2> QED
    BY <2>1, <2>2, <2>3 DEF Taping, TapeWhole
<1>8. CASE NameIsGone \/ WriteOut \/ WriteFails \/ Report
  <2>1. pc \in {"write", "report"} /\ format' = format
    BY <1>8 DEF NameIsGone, WriteOut, WriteFails, Report, user
  <2> QED
    BY <1>0, <2>1 DEF Places
<1>9. CASE TapeOpens
  <2>1. /\ UNCHANGED <<batch, format, result, next, out>> /\ pc = "open"
        /\ ~opened /\ Tape \in Name
    BY <1>0, <1>9 DEF TapeOpens, user, TapeThere, Places, Tape
  <2>2. Is("ok") = {} /\ Written = {} /\ Is("ok")' = Is("ok") /\ Marked'
    BY <2>1 DEF Taping, Is, Marked
  <2>3. CASE MayWrite(Tape)
    <3>1. /\ disk' = [disk EXCEPT ![Tape] = Output(batch, <<>>, FALSE)]
          /\ opened' = TRUE /\ pc' = "header"
      BY <1>9, <2>3 DEF TapeOpens
    <3>2. /\ \A n \in Name : n # Tape => disk'[n] = disk[n]
          /\ disk'[Tape].kind = "output" /\ disk'[Tape].batch = batch
          /\ disk'[Tape].records = <<>>
      BY <1>0, <2>1, <3>1 DEF TypeOK, Output
    <3>3. Written' = {Tape}
      BY <2>1, <2>2, <3>2 DEF Written
    <3>4. Tape' = Tape
      BY <2>1 DEF Tape
    <3>5. Cardinality({}) = 0
      BY FS_EmptySet
    <3>6. OnTape(disk[Tape].records)'
      BY <2>2, <3>2, <3>4, <3>5 DEF OnTape
    <3> QED
      BY <2>2, <3>1, <3>3, <3>4, <3>6 DEF Taping, TapeWhole
  <2>4. CASE ~MayWrite(Tape)
    <3>1. disk' = disk /\ opened' = opened /\ pc' = "drop"
      BY <1>9, <2>4 DEF TapeOpens
    <3>2. Written' = {}
      BY <2>1, <2>2, <3>1 DEF Written
    <3> QED
      BY <2>1, <2>2, <3>1, <3>2 DEF Taping, TapeWhole
  <2> QED
    BY <2>3, <2>4
<1>10. CASE TapeAppends
  <2>1. /\ UNCHANGED <<batch, format, opened, out>> /\ pc = "append" /\ pc' = "loop"
        /\ disk' = [disk EXCEPT ![Tape].records = Append(@, next)]
        /\ result' = [result EXCEPT ![next] = "ok"] /\ next' = next + 1
    BY <1>10 DEF TapeAppends, FileDone, user
  <2>2. next \in Input /\ Marked /\ opened /\ Tape \in Name
    BY <1>0, <2>1 DEF TypeOK, Places, Input, Taping, TapeThere, Tape
  <2>3. Marked'
    BY <1>0, <2>1, <2>2, MarkedOn
  <2> DEFINE s == disk[Tape].records
  <2>4. disk[Tape] \in File /\ s \in Seq(Input) /\ OnTape(s) /\ Written = {Tape}
    BY <1>0, <2>1, <2>2 DEF TypeOK, File, Taping
  <2>5. /\ \A n \in Name : n # Tape => disk'[n] = disk[n]
        /\ disk'[Tape].kind = disk[Tape].kind /\ disk'[Tape].batch = disk[Tape].batch
        /\ disk'[Tape].records = Append(s, next)
    BY <1>0, <2>1, <2>2, <2>4 DEF TypeOK, File
  <2> HIDE DEF s
  <2>6. Written' = Written /\ Tape' = Tape
    BY <2>1, <2>5 DEF Written, Tape
  <2>7. OnTape(disk[Tape].records)'
    BY <1>0, <2>1, <2>2, <2>4, <2>5, <2>6, OneMoreRecord DEF OnTape
  <2> QED
    BY <2>1, <2>2, <2>3, <2>4, <2>6, <2>7 DEF Taping, TapeWhole
<1>11. CASE TapeEnds
  <2>1. /\ UNCHANGED <<batch, format, opened, out, result, next>> /\ pc = "end"
        /\ pc' = "answer" /\ counts'.done = Cardinality(Is("ok"))
        /\ IF Is("ok") = {} THEN disk' \in {Removed, Stays}
           ELSE disk' = [disk EXCEPT ![Tape].whole = TRUE]
    BY <1>11 DEF TapeEnds, user
  <2>2. opened /\ Tape \in Name /\ Written = {Tape} /\ OnTape(disk[Tape].records) /\ Marked
    BY <1>0, <2>1 DEF TapeThere, Tape, Taping
  <2>3. disk[Tape] \in File
    BY <1>0, <2>2 DEF TypeOK
  <2>4. Is("ok")' = Is("ok") /\ Marked' /\ Tape' = Tape
    BY <2>1, <2>2 DEF Is, Marked, Tape
  <2>5. \A n \in Name : n # Tape => disk'[n] = disk[n]
    BY <1>0, <2>1 DEF TypeOK, Removed, Stays
  <2>6. CASE Is("ok") = {}
    <3>1. disk'[Tape].kind # "output"
      BY <1>0, <2>1, <2>2, <2>3, <2>6, Gone
    <3>2. Written' = {}
      BY <2>1, <2>2, <2>5, <3>1 DEF Written
    <3> QED
      BY <2>1, <2>2, <2>4, <3>2 DEF Taping, TapeWhole
  <2>7. CASE Is("ok") # {}
    <3>1. disk'[Tape] = [disk[Tape] EXCEPT !.whole = TRUE]
      BY <1>0, <2>1, <2>2, <2>7 DEF TypeOK
    <3>2. /\ disk'[Tape].kind = disk[Tape].kind /\ disk'[Tape].batch = disk[Tape].batch
          /\ disk'[Tape].records = disk[Tape].records /\ disk'[Tape].whole
      BY <2>3, <3>1 DEF File
    <3>3. Written' = {Tape}
      BY <2>1, <2>2, <2>5, <3>2 DEF Written
    <3>4. Cardinality(Is("ok")) > 0
      BY <1>0, <2>7, Counted, FS_EmptySet
    <3>5. TapeWhole'
      <4> DEFINE s == disk[Tape].records
      <4>1. /\ \A i, j \in DOMAIN s : i < j => s[i] < s[j]
            /\ {s[i] : i \in DOMAIN s} = Is("ok")'
            /\ counts'.done = Len(s) /\ counts'.done > 0
        BY <2>1, <2>2, <2>4, <3>4 DEF OnTape
      <4>2. disk'[Tape'].records = s /\ disk'[Tape'].whole /\ Written' = {Tape'}
        BY <2>4, <3>2, <3>3
      <4> HIDE DEF s
      <4> QED
        BY <4>1, <4>2 DEF TapeWhole
    <3> QED
      BY <2>1, <2>2, <2>4, <3>5 DEF Taping
  <2> QED
    BY <2>6, <2>7
<1>12. CASE TapeDropped
  <2>1. /\ UNCHANGED <<batch, format, opened, out, result, next>> /\ pc = "drop"
        /\ pc' = "answer" /\ (disk' = Dropped \/ (opened /\ disk' = Stays))
    BY <1>12 DEF TapeDropped, user
  <2>2. Is("ok")' = Is("ok") /\ Marked'
    BY <2>1 DEF Is, Marked, Taping
  <2>3. Written' = {}
    <3>1. CASE opened
      <4>1. Tape \in Name /\ Written = {Tape}
        BY <1>0, <2>1, <3>1 DEF TapeThere, Tape, Taping
      <4>2. disk' \in {Removed, Stays}
        BY <2>1, <3>1 DEF Dropped
      <4>3. disk'[Tape].kind # "output" /\ \A n \in Name : n # Tape => disk'[n] = disk[n]
        BY <1>0, <4>1, <4>2, Gone
      <4> QED
        BY <2>1, <4>1, <4>3 DEF Written
    <3>2. CASE ~opened
      BY <2>1, <3>2 DEF Dropped, Written, Taping
    <3> QED
      BY <3>1, <3>2
  <2> QED
    BY <2>1, <2>2, <2>3 DEF Taping, TapeWhole
<1>13. ASSUME NEW m \in Name, ForeignFile(m) PROVE Taping'
  <2>1. /\ UNCHANGED <<batch, format, opened, out, result, next, counts, pc>>
        /\ disk[m] = NoFile /\ disk' = [disk EXCEPT ![m] = Foreign]
    BY <1>13 DEF ForeignFile, user, loop
  <2>2. /\ \A n \in Name : n # m => disk'[n] = disk[n]
        /\ disk[m].kind = "none" /\ disk'[m].kind = "foreign"
    BY <1>0, <2>1 DEF TypeOK, NoFile, Foreign
  <2>3. Written' = Written /\ \A n \in Written : disk'[n] = disk[n]
    BY <2>1, <2>2 DEF Written
  <2>4. Is("ok")' = Is("ok") /\ Tape' = Tape /\ Marked' = Marked
    BY <2>1 DEF Is, Tape, Marked
  <2>5. Written = {Tape} => disk'[Tape] = disk[Tape]
    BY <2>3
  <2>6. OnTape(disk[Tape].records) /\ Written = {Tape} => OnTape(disk[Tape].records)'
    BY <2>4, <2>5 DEF OnTape
  <2>7. TapeWhole => TapeWhole'
    BY <2>1, <2>3, <2>4, <2>5 DEF TapeWhole
  <2> QED
    BY <2>1, <2>3, <2>4, <2>6, <2>7 DEF Taping
<1>14. CASE UNCHANGED vars
  BY <1>14, TapeLeft DEF vars, Taping, Marked
<1> QED
  BY <1>1, <1>2, <1>3, <1>4, <1>5, <1>6, <1>7, <1>8, <1>9, <1>10, <1>11, <1>12,
     <1>13, <1>14 DEF Next, Step

(* A batch that makes a tape leaves one tape, closed and with the records  *)
(* of the files it calls converted in their order, or none - whatever file *)
(* the worker refuses and wherever the tape breaks off (main.ts 1566-1666);*)
(* a part stays only where the disk would not let it be removed.           *)
THEOREM TapeIsWhole == Spec => []TapeWhole
<1>1. Init => Taping
  BY DEF Init, Taping
<1>2. Taping => TapeWhole
  BY DEF Taping, TapeWhole
<1> QED
  BY <1>1, <1>2, TapingStep, BatchInvariant, PTL DEF Spec
=============================================================================
