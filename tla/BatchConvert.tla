----------------------------- MODULE BatchConvert -----------------------------
(***************************************************************************)
(* The batch conversion: many files into one folder, each under a name of  *)
(* its own (electron/main.ts 1438-1472, 1668-1705), or all of them into    *)
(* one tape image (1566-1666), with cancelling, and what the window says   *)
(* at the end (renderer/src/app.ts 2763-2793, 2885-2945).                  *)
(*                                                                         *)
(* The worker's answer to a file is a choice: converted, refused, or, when *)
(* the worker dies, an exception.  A step runs from one await to the next; *)
(* the search for a free name, a row of stats, is one step.                *)
(***************************************************************************)
EXTENDS Integers, Sequences, FiniteSets

CONSTANTS
    MaxFile,     \* input files of a batch
    Base,        \* the base names the template gives them
    MaxTry,      \* MAX_OUT_NAME_TRIES
    MaxBatch,    \* batches, the last of which may be cut off by a crash
    MaxForeign   \* files other programs put into the output folder

ASSUME BatchAssumption ==
    /\ MaxFile \in Nat \ {0} /\ Base # {}
    /\ MaxTry \in Nat \ {0} /\ MaxBatch \in Nat /\ MaxForeign \in Nat

Input == 1 .. MaxFile
Name == Base \X (1 .. MaxTry)
NoName == <<>>

(* What lies under a name: nothing, a file of others, an output, or a tape *)
(* with its records, "left" when it was to be removed and the disk would   *)
(* not.  batch tells which batch has written it, and whole that its last   *)
(* byte is.                                                                *)
NoFile == [kind |-> "none", batch |-> 0, records |-> <<>>, whole |-> TRUE]
Foreign == [kind |-> "foreign", batch |-> 0, records |-> <<>>, whole |-> TRUE]
Output(b, s, whole) == [kind |-> "output", batch |-> b, records |-> s, whole |-> whole]

VARIABLES
    base,      \* the template's base name of each file; a tape takes the first
    running,   \* batchRunning of the window
    batch,     \* how many batches were started
    format,    \* "plain" or "tape"
    pc,        \* the await batchConvert is at
    next,      \* the loop's file
    cancel,    \* cancelRequested
    clicked,   \* the user has asked to cancel this batch
    canceled,  \* canceled of the result
    result,    \* the results: what became of each file
    out,       \* the name reserved, and the names of the files converted
    taken,     \* takenNames
    opened,    \* opened of the tape
    counts,    \* done and failed as they are reported
    says,      \* what the window says of the last batch
    disk       \* the output folder

vars == <<base, running, batch, format, pc, next, cancel, clicked, canceled, result,
          out, taken, opened, counts, says, disk>>
user == <<base, running, batch, format, clicked, says>>
loop == <<next, cancel, canceled, result, opened, counts>>

Init ==
    /\ base \in [Input -> Base]
    /\ running = FALSE /\ batch = 0 /\ format = "plain"
    /\ pc = "idle" /\ next = 1
    /\ cancel = FALSE /\ clicked = FALSE /\ canceled = FALSE
    /\ result = [f \in Input |-> "none"]
    /\ out = [f \in Input |-> NoName] /\ taken = {}
    /\ opened = FALSE
    /\ counts = [done |-> 0, failed |-> 0]
    /\ says = "nothing"
    /\ disk = [n \in Name |-> NoFile]

Is(r) == {f \in Input : result[f] = r}

-----------------------------------------------------------------------------
(* The window *)

\* Mutant: the flag of a click that came too late is left set.
FlagKept == cancel

FlagAtStart == FALSE

StartClick(fmt) ==
    /\ ~running /\ batch < MaxBatch
    /\ running' = TRUE /\ batch' = batch + 1 /\ format' = fmt
    /\ pc' = IF fmt = "tape" THEN "reserve" ELSE "loop"
    /\ next' = 1
    /\ cancel' = FlagAtStart /\ clicked' = FALSE /\ canceled' = FALSE
    /\ result' = [f \in Input |-> "none"]
    /\ out' = [f \in Input |-> NoName] /\ taken' = {}
    /\ opened' = FALSE
    /\ counts' = [done |-> 0, failed |-> 0]
    /\ UNCHANGED <<base, says, disk>>

(* The window still shows a batch whose result is on its way. *)
CancelClick ==
    /\ running /\ ~clicked
    /\ cancel' = TRUE /\ clicked' = TRUE
    /\ UNCHANGED <<base, running, batch, format, pc, next, canceled, result, out,
                   taken, opened, counts, says, disk>>

(* finishBatch *)
Saying ==
    IF canceled THEN "cancelled"
    ELSE IF counts.failed > 0 THEN "errors"
    ELSE "finished"

FinishBatch ==
    /\ pc = "answer"
    /\ pc' = "idle" /\ running' = FALSE /\ says' = Saying
    /\ UNCHANGED <<base, batch, format, next, cancel, clicked, canceled, result, out,
                   taken, opened, counts, disk>>

-----------------------------------------------------------------------------
(* The loop over the files *)

LoopIsOver == next > MaxFile

AfterLoop == IF format = "tape" THEN "end" ELSE "report"

LoopTop ==
    /\ pc = "loop"
    /\ canceled' = (~LoopIsOver /\ cancel)
    /\ pc' = IF LoopIsOver \/ cancel THEN AfterLoop ELSE "convert"
    /\ UNCHANGED <<user, next, cancel, result, opened, counts, out, taken, disk>>

FileDone(f, r) ==
    /\ result' = [result EXCEPT ![f] = r]
    /\ next' = next + 1
    /\ pc' = "loop"

(* stat, its limit, and the worker; an exception ends a tape, but only one *)
(* file of the others.                                                     *)
Converted ==
    /\ pc = "convert"
    /\ pc' = IF format = "tape" THEN "append" ELSE "reserve"
    /\ UNCHANGED <<user, loop, out, taken, disk>>

Refused ==
    /\ pc = "convert"
    /\ FileDone(next, "failed")
    /\ UNCHANGED <<user, cancel, canceled, opened, counts, out, taken, disk>>

WorkerDies ==
    /\ pc = "convert" /\ format = "tape"
    /\ pc' = "drop"
    /\ UNCHANGED <<user, loop, out, taken, disk>>

-----------------------------------------------------------------------------
(* Names *)

Free(b) == {k \in 1 .. MaxTry : <<b, k>> \notin taken /\ disk[<<b, k>>] = NoFile}

(* reserveOutName *)
Reserve ==
    LET b == base[next] IN
    /\ pc = "reserve"
    /\ \E k \in Free(b) :
         /\ \A l \in Free(b) : k <= l
         /\ taken' = taken \cup {<<b, k>>}
         /\ out' = [out EXCEPT ![next] = <<b, k>>]
    /\ pc' = IF format = "tape" THEN "open" ELSE "write"
    /\ UNCHANGED <<user, loop, disk>>

\* Mutant: the search for a name goes on for ever.
NoFreeNameYet == FALSE

NoFreeName ==
    /\ pc = "reserve" /\ Free(base[next]) = {}
    /\ IF format = "tape"
       THEN /\ counts' = [done |-> 0, failed |-> MaxFile]
            /\ pc' = "answer" /\ UNCHANGED <<next, result>>
       ELSE FileDone(next, "failed") /\ UNCHANGED counts
    /\ UNCHANGED <<user, cancel, canceled, opened, out, taken, disk>>

\* Mutant: the flag 'w' for 'wx'.
MayWriteAnyhow(n) == TRUE

(* The flag 'wx' *)
MayWrite(n) == disk[n] = NoFile

(* writeUniqueOut, after its reservation *)
WriteOut ==
    LET n == out[next] IN
    /\ pc = "write" /\ MayWrite(n)
    /\ disk' = [disk EXCEPT ![n] = Output(batch, <<next>>, TRUE)]
    /\ FileDone(next, "ok")
    /\ UNCHANGED <<user, cancel, canceled, opened, counts, out, taken>>

NameIsGone ==
    /\ pc = "write" /\ ~MayWrite(out[next])
    /\ pc' = "reserve"
    /\ UNCHANGED <<user, loop, out, taken, disk>>

\* Mutant: a write that fails counts as one that went well.
WriteFailsUnnoticed ==
    LET n == out[next] IN
    /\ pc = "write" /\ MayWrite(n)
    /\ disk' = [disk EXCEPT ![n] = Output(batch, <<next>>, FALSE)]
    /\ FileDone(next, "ok")
    /\ UNCHANGED <<user, cancel, canceled, opened, counts, out, taken>>

(* A full disk leaves what was written. *)
WriteFails ==
    LET n == out[next] IN
    /\ pc = "write" /\ MayWrite(n)
    /\ disk' = [disk EXCEPT ![n] = Output(batch, <<next>>, FALSE)]
    /\ FileDone(next, "failed")
    /\ UNCHANGED <<user, cancel, canceled, opened, counts, out, taken>>

(* The result of a batch that is no tape *)
Report ==
    /\ pc = "report"
    /\ counts' = [done |-> Cardinality(Is("ok")), failed |-> Cardinality(Is("failed"))]
    /\ pc' = "answer"
    /\ UNCHANGED <<user, next, cancel, canceled, result, opened, out, taken, disk>>

-----------------------------------------------------------------------------
(* The tape *)

Tape == out[1]

TapeOpens ==
    /\ pc = "open"
    /\ IF MayWrite(Tape)
       THEN /\ disk' = [disk EXCEPT ![Tape] = Output(batch, <<>>, FALSE)]
            /\ opened' = TRUE /\ pc' = "header"
       ELSE pc' = "drop" /\ UNCHANGED <<disk, opened>>
    /\ UNCHANGED <<user, next, cancel, canceled, result, counts, out, taken>>

TapeHeader ==
    /\ pc = "header"
    /\ pc' = "loop"
    /\ UNCHANGED <<user, loop, out, taken, disk>>

TapeAppends ==
    /\ pc = "append"
    /\ disk' = [disk EXCEPT ![Tape].records = Append(@, next)]
    /\ FileDone(next, "ok")
    /\ UNCHANGED <<user, cancel, canceled, opened, counts, out, taken>>

Removed == [disk EXCEPT ![Tape] = NoFile]

(* An unlink that fails goes unnoticed, and the file stays. *)
Stays == [disk EXCEPT ![Tape].kind = "left"]

(* The closing marks and the flush; a tape without records is removed. *)
TapeEnds ==
    /\ pc = "end"
    /\ IF Is("ok") = {} THEN disk' \in {Removed, Stays}
                        ELSE disk' = [disk EXCEPT ![Tape].whole = TRUE]
    /\ counts' = [done |-> Cardinality(Is("ok")), failed |-> Cardinality(Is("failed"))]
    /\ pc' = "answer"
    /\ UNCHANGED <<user, next, cancel, canceled, result, opened, out, taken>>

TapeBreaks ==
    /\ pc \in {"open", "header", "append", "end"}
    /\ pc' = "drop"
    /\ UNCHANGED <<user, loop, out, taken, disk>>

\* Mutant: a tape that broke off stays where it is.
DroppedNever == disk

(* Only a tape that was opened is removed. *)
Dropped == IF opened THEN Removed ELSE disk

(* The catch of the tape *)
TapeDropped ==
    /\ pc = "drop"
    /\ disk' = Dropped \/ (opened /\ disk' = Stays)
    /\ counts' = [done |-> Cardinality(Is("ok")), failed |-> MaxFile - Cardinality(Is("ok"))]
    /\ pc' = "answer"
    /\ UNCHANGED <<user, next, cancel, canceled, result, opened, out, taken>>

-----------------------------------------------------------------------------
(* Others *)

Foreigners == {n \in Name : disk[n] = Foreign}

ForeignFile(n) ==
    /\ disk[n] = NoFile /\ Cardinality(Foreigners) < MaxForeign
    /\ disk' = [disk EXCEPT ![n] = Foreign]
    /\ UNCHANGED <<user, pc, loop, out, taken>>

Crash ==
    /\ running
    /\ running' = FALSE /\ pc' = "idle"
    /\ UNCHANGED <<base, batch, format, clicked, says, loop, out, taken, disk>>

Step ==
    \/ LoopTop \/ Converted \/ Refused \/ WorkerDies
    \/ Reserve \/ NoFreeName \/ WriteOut \/ NameIsGone \/ WriteFails \/ Report
    \/ TapeOpens \/ TapeHeader \/ TapeAppends \/ TapeEnds \/ TapeBreaks \/ TapeDropped

Next ==
    \/ \E fmt \in {"plain", "tape"} : StartClick(fmt)
    \/ CancelClick \/ FinishBatch \/ Step \/ Crash
    \/ \E n \in Name : ForeignFile(n)

Fairness == WF_vars(Step) /\ WF_vars(FinishBatch)

Spec == Init /\ [][Next]_vars /\ Fairness

-----------------------------------------------------------------------------
File == [kind : {"none", "foreign", "output", "left"}, batch : 0 .. MaxBatch,
         records : Seq(Input), whole : BOOLEAN]

TypeOK ==
    /\ base \in [Input -> Base]
    /\ running \in BOOLEAN /\ batch \in 0 .. MaxBatch /\ format \in {"plain", "tape"}
    /\ pc \in {"idle", "loop", "convert", "reserve", "write", "report", "open", "header",
               "append", "end", "drop", "answer"}
    /\ next \in 1 .. MaxFile + 1
    /\ {cancel, clicked, canceled, opened} \subseteq BOOLEAN
    /\ result \in [Input -> {"none", "ok", "failed"}]
    /\ out \in [Input -> Name \cup {NoName}] /\ taken \subseteq Name
    /\ counts \in [done : 0 .. MaxFile, failed : 0 .. MaxFile]
    /\ says \in {"nothing", "cancelled", "errors", "finished"}
    /\ disk \in [Name -> File]

(* Files of others, files of earlier batches and finished outputs are      *)
(* never written to and never removed, whoever takes a name at the last    *)
(* moment and whatever fails.                                              *)
NothingReplaced ==
    [][\A n \in Name :
         disk[n] # NoFile /\ (disk[n].whole \/ disk[n].batch # batch) => disk'[n] = disk[n]]_vars

Written == {n \in Name : disk[n].kind = "output" /\ disk[n].batch = batch}

(* What a batch reports is what is in the folder: each file it calls       *)
(* converted lies whole under a name of its own, no other does, and unless *)
(* it was cancelled every file is accounted for.                           *)
ReportTrue ==
    pc = "answer" /\ format = "plain" =>
        /\ \A f \in Is("ok") : disk[out[f]] = Output(batch, <<f>>, TRUE)
        /\ \A n \in Written : disk[n].whole => \E f \in Is("ok") : out[f] = n
        /\ counts.done = Cardinality({n \in Written : disk[n].whole})
        /\ canceled \/ counts.done + counts.failed = MaxFile

(* A batch leaves one tape, closed and with the records it has reported,   *)
(* each once and in the order of the files, or none: no failure of a file, *)
(* the worker or the disk leaves a part, but one that the disk would not   *)
(* let it remove.                                                          *)
TapeWhole ==
    pc = "answer" /\ format = "tape" /\ Written # {} =>
        /\ Written = {Tape} /\ disk[Tape].whole
        /\ LET s == disk[Tape].records IN
              /\ \A i, j \in DOMAIN s : i < j => s[i] < s[j]
              /\ {s[i] : i \in DOMAIN s} = Is("ok")
              /\ counts.done = Len(s) /\ counts.done > 0

(* After the click no file is begun, and no batch is cancelled by a click  *)
(* that was meant for the one before.                                      *)
CancelMeant ==
    [][/\ pc = "loop" /\ pc' = "convert" => ~clicked
       /\ canceled' /\ ~canceled => clicked]_vars

(* Every batch ends, also one that finds no name or loses its worker. *)
BatchEnds == running ~> ~running

(* When the window says that all went well, every file of the batch lies   *)
(* converted, or in a whole tape, in the output folder.                    *)
ClaimTrue ==
    pc = "answer" /\ Saying = "finished" =>
        \A f \in Input : \E n \in Written : disk[n].whole /\ \E i \in DOMAIN disk[n].records : disk[n].records[i] = f
=============================================================================
