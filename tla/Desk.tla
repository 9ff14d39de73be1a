--------------------------------- MODULE Desk ---------------------------------
(***************************************************************************)
(* The open file.  Its contents are in a worker thread that answers one    *)
(* request after the other (workers/parse.worker.ts 1190-1306); the main   *)
(* process keeps its path and its place in the folder and correlates       *)
(* requests with answers (electron/main.ts 85-174, 183-220, 1234-1275,     *)
(* 1476-1487, 1730-1749); the window shows it (renderer/src/app.ts         *)
(* 2155-2186, 2279-2299, 2655-2677, 2963-2971).                            *)
(*                                                                         *)
(* A worker that dies, for want of memory say, first reports an error and  *)
(* then its exit; the next request makes a new one.  Nothing in the code   *)
(* ends a worker otherwise (no terminate, no process.exit, and its port    *)
(* keeps it alive), so there is no exit without an error.  What the main   *)
(* process answers is shown at once.                                       *)
(***************************************************************************)
EXTENDS Integers, Sequences, FiniteSets, SequencesExt

CONSTANTS
    MaxFile,     \* the seismic files of the folder, in order of their names
    MaxClick,    \* what the user does in all
    MaxWorker    \* workers that are made

ASSUME DeskAssumption ==
    MaxFile \in Nat \ {0} /\ MaxClick \in Nat /\ MaxWorker \in Nat \ {0}

File == 1 .. MaxFile
Nothing == 0
Gen == 1 .. MaxWorker

VARIABLES
    worker,    \* the worker requests go to, or Nothing
    life,      \* the workers: "new", "up", "dead", "failed", "gone"
    current,   \* the file each worker holds, or Nothing
    calls,     \* pending, in the order of the requests
    lastOpened,\* lastOpenedPath
    siblings,  \* siblingPaths
    index,     \* siblingIndex + 1
    indexing,  \* the files whose folders are being read
    shown,     \* the summary of the window: the file, its index, the count
    saved,     \* the last conversion: its name, what is in it
    clicks,
    pace       \* history: see Begin

vars == <<worker, life, current, calls, lastOpened, siblings, index, indexing, shown,
          saved, clicks, pace>>
workers == <<worker, life, current>>
main == <<lastOpened, siblings, index, indexing>>

(* What siblingPaths can be: nothing, the folder in order of names, or the *)
(* open file alone.                                                        *)
Folder == [i \in File |-> i]
Listings == {<<>>, Folder} \cup {<<f>> : f \in File}

Blank == [file |-> Nothing, index |-> 0, count |-> 0]

Init ==
    /\ worker = Nothing
    /\ life = [g \in Gen |-> "new"] /\ current = [g \in Gen |-> Nothing]
    /\ calls = <<>>
    /\ lastOpened = Nothing /\ siblings = <<>> /\ index = 0 /\ indexing = <<>>
    /\ shown = Blank
    /\ saved = [name |-> Nothing, file |-> Nothing, sure |-> TRUE]
    /\ clicks = 0 /\ pace = "calm"

-----------------------------------------------------------------------------
(* Calls *)

(* What a request asks of the worker and what its caller remembers; sure:  *)
(* a step alone, a conversion made at rest.                                *)
Request(kind, file, prev, sure) ==
    [kind |-> kind, file |-> file, prev |-> prev, sure |-> sure,
     answer |-> "none", content |-> Nothing, gen |-> Nothing]

(* getWorker *)
GetWorker ==
    IF worker # Nothing THEN worker
    ELSE CHOOSE g \in Gen : life[g] = "new"

CanAsk == worker # Nothing \/ \E g \in Gen : life[g] = "new"

(* callWorker *)
Call(r) ==
    /\ CanAsk
    /\ worker' = GetWorker
    /\ life' = IF worker = Nothing THEN [life EXCEPT ![GetWorker] = "up"] ELSE life
    /\ calls' = Append(calls, [r EXCEPT !.gen = GetWorker])
    /\ UNCHANGED current

InFlight(kinds) == \E i \in DOMAIN calls : calls[i].kind \in kinds
Steps == {i \in DOMAIN calls : calls[i].kind = "step"}

Opening == indexing # <<>> \/ InFlight({"open", "step", "reset"})

(* A desk is rushed when something is opened or cleared while something is *)
(* being opened, when it is stepped during an open, or when one of several *)
(* overlapping steps fails.  It calms down with the next open, step or     *)
(* clear that is begun at rest and ends well and alone.                    *)
Begin(hasty) ==
    pace' = CASE hasty -> "rushed"
              [] ~hasty /\ pace = "calm" -> "calm"
              [] OTHER -> IF Opening THEN "rushed" ELSE "calming"

End(well) ==
    pace' = CASE ~well -> "rushed"
              [] well /\ pace = "calming" -> "calm"
              [] OTHER -> pace

-----------------------------------------------------------------------------
(* The window *)

Click == clicks < MaxClick /\ clicks' = clicks + 1

(* onOpen; nothing keeps it from opening another file meanwhile. *)
OpenClick(f) ==
    /\ Click
    /\ Call(Request("open", f, 0, TRUE))
    /\ Begin(Opening)
    /\ UNCHANGED <<main, shown, saved>>

Clamp(i) == IF i < 1 THEN 1 ELSE IF i > Len(siblings) THEN Len(siblings) ELSE i

(* navFile and openSiblingFile up to its await: the index goes ahead. *)
StepClick(d) ==
    LET to == Clamp(index + d) IN
    /\ Click /\ shown.file # Nothing
    /\ IF d < 0 THEN shown.index > 1 ELSE 0 < shown.index /\ shown.index < shown.count
    /\ siblings # <<>> /\ index > 0 /\ to # index
    /\ index' = to
    /\ Call(Request("step", siblings[to], index, Steps = {}))
    /\ Begin(indexing # <<>> \/ InFlight({"open", "reset"}))
    /\ UNCHANGED <<lastOpened, siblings, indexing, shown, saved>>

(* clearConverter and resetState *)
ClearClick ==
    /\ Click
    /\ Call(Request("reset", Nothing, 0, TRUE))
    /\ Begin(Opening)
    /\ UNCHANGED <<main, shown, saved>>

(* onConvert: the name is taken from the file on the screen. *)
ConvertClick ==
    /\ Click /\ shown.file # Nothing /\ ~InFlight({"convert"})
    /\ Call(Request("convert", shown.file, 0, ~Opening /\ pace = "calm"))
    /\ UNCHANGED <<main, shown, saved, pace>>

-----------------------------------------------------------------------------
(* The worker *)

First(i, S) == i \in S /\ \A j \in S : i <= j
Asked(g) == {i \in DOMAIN calls : calls[i].gen = g /\ calls[i].answer = "none"}
Answered(g) == {i \in DOMAIN calls : calls[i].gen = g /\ calls[i].answer # "none"}

\* Mutant: a file that cannot be read stays loaded as far as it was read.
HoldsUnread(r, ok, held) == IF r.kind \in {"open", "step"} THEN r.file
                            ELSE IF r.kind = "reset" THEN Nothing ELSE held

(* The file before is let go of first. *)
Holds(r, ok, held) ==
    CASE r.kind \in {"open", "step"} -> IF ok THEN r.file ELSE Nothing
      [] r.kind = "reset" -> Nothing
      [] OTHER -> held

(* Any file may turn out not to be readable; a conversion needs one. *)
Work(g, ok) == \E i \in DOMAIN calls : LET r == calls[i] IN
    /\ life[g] = "up" /\ First(i, Asked(g))
    /\ r.kind = "reset" => ok
    /\ r.kind = "convert" => ok = (current[g] # Nothing)
    /\ current' = [current EXCEPT ![g] = Holds(r, ok, @)]
    /\ calls' = [calls EXCEPT ![i].answer = IF ok THEN "ok" ELSE "bad",
                              ![i].content = current[g]]
    /\ UNCHANGED <<worker, life, main, shown, saved, clicks, pace>>

Crash(g) ==
    /\ life[g] = "up" /\ Asked(g) # {}
    /\ life' = [life EXCEPT ![g] = "dead"]
    /\ UNCHANGED <<worker, current, calls, main, shown, saved, clicks, pace>>

-----------------------------------------------------------------------------
(* The main process, when an answer or the end of a worker arrives *)

Finish(i) == calls' = RemoveAt(calls, i)

(* openAndParse goes on to read the folder. *)
OpenAnswer(r) ==
    /\ r.kind = "open"
    /\ IF r.answer = "ok"
       THEN lastOpened' = r.file /\ indexing' = Append(indexing, r.file) /\ UNCHANGED pace
       ELSE End(pace # "calming") /\ UNCHANGED <<lastOpened, indexing>>
    /\ UNCHANGED <<siblings, index, shown, saved>>

(* indexSiblings, openEnvelope, applyOpenedFile.  A folder that cannot be  *)
(* read leaves a list of the one file.                                     *)
Indexed(i) == LET f == indexing[i] IN
    /\ \/ siblings' = Folder /\ index' = f
       \/ siblings' = <<f>> /\ index' = 1
    /\ indexing' = RemoveAt(indexing, i)
    /\ shown' = [file |-> f, index |-> index', count |-> Len(siblings')]
    /\ End(TRUE)
    /\ UNCHANGED <<workers, calls, lastOpened, saved, clicks>>

\* Mutant: a step that fails leaves the index ahead.
BackToAhead(r) == index

(* The index is rolled back. *)
BackTo(r) == r.prev

StepAnswer(r) ==
    /\ r.kind = "step"
    /\ IF r.answer = "ok"
       THEN /\ lastOpened' = r.file
            /\ shown' = [file |-> r.file, index |-> index, count |-> Len(siblings)]
            /\ End(TRUE) /\ UNCHANGED index
       ELSE /\ index' = BackTo(r)
            /\ End(Cardinality(Steps) = 1 /\ r.sure /\ pace # "calming")
            /\ UNCHANGED <<lastOpened, shown>>
    /\ UNCHANGED <<siblings, indexing, saved>>

ResetAnswer(r) ==
    /\ r.kind = "reset"
    /\ lastOpened' = Nothing /\ siblings' = <<>> /\ index' = 0
    /\ shown' = Blank
    /\ End(TRUE)
    /\ UNCHANGED <<indexing, saved>>

(* The bytes of a conversion, with the name the window gave them. *)
ConvertAnswer(r) ==
    /\ r.kind = "convert"
    /\ saved' = IF r.answer = "ok" THEN [name |-> r.file, file |-> r.content, sure |-> r.sure]
                                   ELSE saved
    /\ UNCHANGED <<main, shown, pace>>

Answer(g) == \E i \in DOMAIN calls :
    /\ First(i, Answered(g))
    /\ OpenAnswer(calls[i]) \/ StepAnswer(calls[i]) \/ ResetAnswer(calls[i])
          \/ ConvertAnswer(calls[i])
    /\ Finish(i)
    /\ UNCHANGED <<workers, clicks>>

\* Mutant: a worker that failed is used until it has exited.
FailedKept == worker

FailedNoMore == Nothing

\* Mutant: only the request that killed the worker is rejected.
RejectedFirst == {i \in DOMAIN calls : First(i, DOMAIN calls)}

Rejected == DOMAIN calls

(* fail(): everything pending is rejected; a step rolls its index back,    *)
(* and the window clears itself however its reset ends.                    *)
WorkerError(g) ==
    LET steps == {i \in Steps : i \in Rejected} IN
    /\ life[g] = "dead" /\ Answered(g) = {}
    /\ life' = [life EXCEPT ![g] = "failed"]
    /\ worker' = FailedNoMore
    /\ calls' = IF DOMAIN calls = Rejected THEN <<>> ELSE Tail(calls)
    /\ \/ steps = {} /\ UNCHANGED index
       \/ \E i \in steps : (\A j \in steps : j <= i) /\ index' = BackTo(calls[i])
    /\ shown' = IF \E i \in Rejected : calls[i].kind = "reset"
                THEN Blank ELSE shown
    /\ pace' = IF \/ \E i \in steps : Cardinality(steps) > 1 \/ ~calls[i].sure
                  \/ pace = "calming" /\ InFlight({"open", "step", "reset"})
               THEN "rushed" ELSE pace
    /\ UNCHANGED <<current, lastOpened, siblings, indexing, saved, clicks>>

WorkerExit(g) ==
    /\ life[g] = "failed"
    /\ life' = [life EXCEPT ![g] = "gone"]
    /\ worker' = IF worker = g THEN Nothing ELSE worker
    /\ UNCHANGED <<current, calls, main, shown, saved, clicks, pace>>

-----------------------------------------------------------------------------
Events ==
    \/ \E i \in DOMAIN indexing : Indexed(i)
    \/ \E g \in Gen : Answer(g) \/ WorkerError(g) \/ WorkerExit(g)
Works == \E g \in Gen, ok \in BOOLEAN : Work(g, ok)

Next ==
    \/ \E f \in File : OpenClick(f)
    \/ \E d \in {-1, 1} : StepClick(d)
    \/ ClearClick \/ ConvertClick
    \/ Works \/ Events
    \/ \E g \in Gen : Crash(g)

(* The worker works, and the main process gets its events. *)
Fairness == WF_vars(Events) /\ WF_vars(Works)

Spec == Init /\ [][Next]_vars /\ Fairness

-----------------------------------------------------------------------------
Pending ==
    {r \in [kind : {"open", "step", "reset", "convert"}, file : File \cup {Nothing},
            prev : 0 .. MaxFile, sure : BOOLEAN, answer : {"none", "ok", "bad"},
            content : File \cup {Nothing}, gen : Gen] :
        r.kind \in {"open", "step"} => r.file # Nothing}

TypeOK ==
    /\ worker \in Gen \cup {Nothing}
    /\ life \in [Gen -> {"new", "up", "dead", "failed", "gone"}]
    /\ current \in [Gen -> File \cup {Nothing}]
    /\ calls \in Seq(Pending) /\ Len(calls) <= MaxClick
    /\ lastOpened \in File \cup {Nothing} /\ indexing \in Seq(File)
    /\ siblings \in Listings /\ index \in 0 .. MaxFile
    /\ pace \in {"calm", "rushed", "calming"}
    /\ shown \in [file : File \cup {Nothing}, index : 0 .. MaxFile, count : 0 .. MaxFile]
    /\ saved \in [name : File \cup {Nothing}, file : File \cup {Nothing}, sure : BOOLEAN]
    /\ clicks \in 0 .. MaxClick

(* No caller waits for a worker whose end has been handled. *)
NoOrphan == \A i \in DOMAIN calls : life[calls[i].gen] \in {"up", "dead"}

AtRest == calls = <<>> /\ indexing = <<>>

(* When nothing is under way, the window, the main process and the folder  *)
(* index agree on the open file, and the worker holds it or, after a       *)
(* failed step or its own end, none: never another.  After a rush, from    *)
(* the next open, step or clear on that ends well.                         *)
OneOpenFile ==
    AtRest /\ shown.file # Nothing /\ pace = "calm" =>
        /\ lastOpened = shown.file
        /\ index \in DOMAIN siblings /\ siblings[index] = shown.file
        /\ shown.index = index /\ shown.count = Len(siblings)
        /\ worker # Nothing => current[worker] \in {Nothing, shown.file}

(* A conversion that is begun at rest, on a desk that is not rushed, is of *)
(* the file whose name it gets, whatever is opened, stepped to, cleared or *)
(* dies before it is saved.                                                *)
ConvertsShown == saved.sure => saved.name = saved.file

(* Every call ends and every file that was opened gets listed. *)
EveryCallEnds == <>[]AtRest

(* "Roll back if the parse fails so a failed step doesn't leave the index  *)
(* advanced" (main.ts 1262-1263).                                          *)
IndexComesBack == AtRest /\ shown.file # Nothing => index <= shown.index

(* "Convert the CURRENTLY-OPEN file" (main.ts 1474): at rest the worker    *)
(* holds the file on the screen, whose name the conversion gets.           *)
HeldAtRest ==
    AtRest /\ shown.file # Nothing /\ worker # Nothing =>
        current[worker] \in {Nothing, shown.file}
=============================================================================
