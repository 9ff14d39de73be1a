------------------------------- MODULE ShotRows -------------------------------
(***************************************************************************)
(* Trigger Watch of the observer's log: from the shot and its file to the  *)
(* row.  The main process watches the acquisition folder and waits until a *)
(* file has settled (electron/main.ts 2802-2905, 3433-3455); the window    *)
(* adds a row on a trigger pulse and completes it when the file lands      *)
(* (renderer/src/app.ts 19503-20066).                                      *)
(*                                                                         *)
(* A tick is the 500 ms of TRIG_SETTLE_MS; a recorder that is writing a    *)
(* file makes it larger in every tick, unless it stalls.  What takes       *)
(* milliseconds happens between ticks.  A step runs from one await to the  *)
(* next.                                                                   *)
(***************************************************************************)
EXTENDS Integers, Sequences, FiniteSets

CONSTANTS
    MaxShot,    \* shots in a survey
    MaxSize,    \* the largest file, in ticks of writing
    MaxTimer,   \* timers and stats under way at once
    MaxQueue,   \* events the window has not handled yet
    MaxStarts,  \* how often the watch is switched on or configured
    Habits      \* what happens beyond a quiet survey, see below

(* "edit": the observer edits a row before its file has landed.            *)
(* "fast": a file is begun before the one before has settled.              *)
(* "burst": a folder event arrives while its file is being stat'ed.        *)
(* "live": the watch is switched on while a shot is under way.             *)
(* "save": the watch is configured while a shot is under way.              *)
(* "late": something touches a file that landed before the watch began.    *)
(* "stall": the recorder writes nothing for a tick or more.                *)
(* "fail": a stat is refused, or finds no file or an empty one.            *)
ASSUME ShotAssumption ==
    /\ MaxShot \in Nat /\ MaxSize \in Nat \ {0} /\ MaxTimer \in Nat
    /\ MaxQueue \in Nat /\ MaxStarts \in Nat
    /\ Habits \subseteq {"edit", "fast", "burst", "live", "save", "late", "stall", "fail"}

Shot == 1 .. MaxShot
Timer == 1 .. MaxTimer
Size == 0 .. MaxSize      \* 0 stands for no entry of a map, too

VARIABLES
    shot,     \* the shots: how far, the size of the file, was the pulse heard
    event,    \* files with a folder event not delivered yet
    still,    \* files being written that the last tick left as they were
    timer,    \* the timers and the settles under way
    slot,     \* trigTimers: the timer a name maps to, or 0
    sizes,    \* trigSizes
    emitted,  \* trigEmitted
    early,    \* files that were announced before they were closed
    failed,   \* files the last look at which failed
    watch,    \* trigWatchDir is set
    starts,   \* how often the watch was started
    queue,    \* the events before trigChain
    rows,     \* the rows of the log, in order
    mark,     \* lastMtimeMs
    catchup,  \* the scan at the start, and the files it offers or adds
    on        \* trigIsOn()

vars == <<shot, event, still, timer, slot, sizes, emitted, early, failed, watch,
          starts, queue, rows, mark, catchup, on>>
recorder == <<shot, event, still>>
settle == <<timer, slot, sizes, emitted, early, failed>>
window == <<queue, rows, mark, catchup, on>>

-----------------------------------------------------------------------------
NoTimer == [pc |-> "free", file |-> 0]
NoCatchup == [pc |-> "no", files |-> {}, skipped |-> {}]
Row(by, n, file) == [by |-> by, shot |-> n, file |-> file, awaiting |-> by = "pulse"]

Init ==
    /\ shot = [n \in Shot |-> [state |-> "no", size |-> 0, heard |-> FALSE]]
    /\ event = {} /\ still = {} /\ early = {} /\ failed = {}
    /\ timer = [i \in Timer |-> NoTimer]
    /\ slot = [n \in Shot |-> 0]
    /\ sizes = [n \in Shot |-> 0] /\ emitted = [n \in Shot |-> 0]
    /\ watch = FALSE /\ starts = 0
    /\ queue = <<>> /\ rows = <<>> /\ mark = 0
    /\ catchup = NoCatchup
    /\ on = FALSE

(* The mtime of a file: later with every write, and with every shot. *)
MtimeAt(n, size) == n * (MaxSize + 1) + size
Mtime(n) == MtimeAt(n, shot[n].size)

Landing == {n \in Shot : shot[n].state \in {"fired", "writing"}}
Settling == event \cup {timer[i].file : i \in {j \in Timer : timer[j].pc # "free"}}
Queued == {queue[k].shot : k \in {j \in 1 .. Len(queue) : queue[j].type = "file"}}
Logged == {rows[k].file : k \in 1 .. Len(rows)}
Quiet == Landing = {} /\ Settling = {} /\ queue = <<>>

-----------------------------------------------------------------------------
(* The survey.  Shots are fired and saved one after the other, but may be  *)
(* fired while earlier ones are still being saved.  A pulse may be lost,   *)
(* and a shot need not be saved.                                           *)

Fire(n, heard, saved) ==
    /\ shot[n].state = "no"
    /\ \A m \in 1 .. n - 1 : shot[m].state # "no"
    /\ "live" \notin Habits => catchup.pc # "scan"
    /\ Len(queue) < MaxQueue
    /\ heard => watch
    /\ shot' = [shot EXCEPT ![n].state = IF saved THEN "fired" ELSE "unsaved",
                            ![n].heard = heard]
    /\ queue' = IF heard THEN Append(queue, [type |-> "pulse", shot |-> n, size |-> 0]) ELSE queue
    /\ UNCHANGED <<event, still, settle, watch, starts, rows, mark, catchup, on>>

(* Only an open watcher sees a write. *)
Seen(n) == IF watch THEN event \cup {n} ELSE event

Create(n) ==
    /\ shot[n].state = "fired"
    /\ \A m \in 1 .. n - 1 : shot[m].state \in {"done", "unsaved"}
    /\ "fast" \notin Habits => Settling = {}
    /\ shot' = [shot EXCEPT ![n].state = "writing", ![n].size = 1]
    /\ event' = Seen(n)
    /\ UNCHANGED <<still, settle, watch, starts, window>>

(* One of the many events of a file that is being written, or a straggler. *)
Touch(n) ==
    /\ watch /\ n \notin event
    /\ \/ shot[n].state = "writing"
       \/ /\ shot[n].state = "done" /\ Settling = {}
          /\ \A m \in Shot : shot[m].state # "writing"
          /\ emitted[n] # 0 \/ "late" \in Habits
    /\ event' = event \cup {n}
    /\ UNCHANGED <<shot, still, settle, watch, starts, window>>

Close(n) ==
    /\ shot[n].state = "writing"
    /\ shot' = [shot EXCEPT ![n].state = "done"]
    /\ event' = Seen(n)
    /\ UNCHANGED <<still, settle, watch, starts, window>>

-----------------------------------------------------------------------------
(* The folder source *)

(* trigConsider: the debounce starts again. *)
Consider(n, i) ==
    /\ n \in event
    /\ "burst" \notin Habits =>
          \A j \in Timer : timer[j].pc = "stat" => timer[j].file # n
    /\ event' = event \ {n}
    /\ timer[i].pc = "free" /\ \A j \in 1 .. i - 1 : timer[j].pc # "free"
    /\ timer' = [j \in Timer |->
                    IF j = i THEN [pc |-> "armed", file |-> n]
                    ELSE IF j = slot[n] THEN NoTimer ELSE timer[j]]
    /\ slot' = [slot EXCEPT ![n] = i]
    /\ failed' = failed \ {n}
    /\ UNCHANGED <<shot, still, sizes, emitted, early, watch, starts, window>>

(* trigSettle up to its await *)
SettleBegins(i) ==
    /\ timer[i].pc = "due"
    /\ slot' = [slot EXCEPT ![timer[i].file] = 0]
    /\ timer' = [timer EXCEPT ![i] = IF watch THEN [@ EXCEPT !.pc = "stat"] ELSE NoTimer]
    /\ UNCHANGED <<recorder, sizes, emitted, early, failed, watch, starts, window>>

\* Mutant: a file that is there is taken for finished.
SettlesAtOnce(n) == TRUE

(* Two stats in a row agree on the size. *)
Settles(n) == sizes[n] = shot[n].size

\* Mutant: a file that is still growing is left to its next event.
LooksAgainNever(n, i) ==
    /\ sizes' = [sizes EXCEPT ![n] = shot[n].size]
    /\ timer' = [timer EXCEPT ![i] = NoTimer]
    /\ UNCHANGED <<slot, emitted, early, queue>>

(* The new timer takes the name's place in the map, whoever is there. *)
LooksAgain(n, i) ==
    /\ sizes' = [sizes EXCEPT ![n] = shot[n].size]
    /\ timer' = [timer EXCEPT ![i].pc = "armed"]
    /\ slot' = [slot EXCEPT ![n] = i]
    /\ UNCHANGED <<emitted, early, queue>>

Early(n) == IF shot[n].state = "writing" THEN early \cup {n} ELSE early
Announced(n) == Append(queue, [type |-> "file", shot |-> n, size |-> shot[n].size])

\* Mutant: the events of one landing are not told apart from a new one.
EmitsAlways(n, i) ==
    /\ sizes' = [sizes EXCEPT ![n] = 0]
    /\ timer' = [timer EXCEPT ![i] = NoTimer]
    /\ Len(queue) < MaxQueue
    /\ emitted' = [emitted EXCEPT ![n] = shot[n].size]
    /\ early' = Early(n) /\ queue' = Announced(n)
    /\ UNCHANGED slot

Emits(n, i) ==
    /\ sizes' = [sizes EXCEPT ![n] = 0]
    /\ timer' = [timer EXCEPT ![i] = NoTimer]
    /\ IF emitted[n] = shot[n].size
       THEN UNCHANGED <<emitted, early, queue>>
       ELSE /\ Len(queue) < MaxQueue
            /\ emitted' = [emitted EXCEPT ![n] = shot[n].size]
            /\ early' = Early(n) /\ queue' = Announced(n)
    /\ UNCHANGED slot

(* trigSettle after its await *)
SettleResumes(i) ==
    LET n == timer[i].file IN
    /\ timer[i].pc = "stat"
    /\ IF Settles(n) THEN Emits(n, i) ELSE LooksAgain(n, i)
    /\ UNCHANGED <<recorder, failed, watch, starts, rows, mark, catchup, on>>

(* It vanished, it is no file, it is empty: nothing looks at it again.     *)
SettleFails(i) ==
    LET n == timer[i].file IN
    /\ "fail" \in Habits /\ failed = {}
    /\ timer[i].pc = "stat"
    /\ sizes' = [sizes EXCEPT ![n] = 0]
    /\ timer' = [timer EXCEPT ![i] = NoTimer]
    /\ failed' = failed \cup {n}
    /\ UNCHANGED <<recorder, slot, emitted, early, watch, starts, window>>

Growing(pause) == {n \in Shot : shot[n].state = "writing"} \ pause

(* What is due runs, and what is quick is over, before time goes on. *)
Tick ==
    /\ event = {} /\ \A i \in Timer : timer[i].pc \in {"free", "armed"}
    /\ Landing # {} \/ Settling # {}
    /\ timer' = [i \in Timer |-> IF timer[i].pc = "armed" THEN [timer[i] EXCEPT !.pc = "due"]
                                                         ELSE timer[i]]
    /\ \E pause \in SUBSET {n \in Shot : shot[n].state = "writing"} :
          /\ "stall" \notin Habits => pause = {}
          /\ \A n \in Growing(pause) : shot[n].size < MaxSize
          /\ shot' = [n \in Shot |-> IF n \in Growing(pause)
                                     THEN [shot[n] EXCEPT !.size = @ + 1] ELSE shot[n]]
          /\ still' = pause
    /\ UNCHANGED <<event, slot, sizes, emitted, early, failed, watch, starts, window>>

-----------------------------------------------------------------------------
(* The window: events are handled one after the other. *)

Awaiting == {k \in 1 .. Len(rows) : rows[k].awaiting}
Oldest(S) == CHOOSE k \in S : \A l \in S : k <= l
Later(m) == IF m > mark THEN m ELSE mark

\* Mutant: an event the switched-off log ignores still counts as logged.
IgnoredButMarked(e) ==
    /\ mark' = IF e.type = "file" THEN Later(MtimeAt(e.shot, e.size)) ELSE mark
    /\ UNCHANGED rows

Ignored(e) == UNCHANGED <<rows, mark>>

(* trigCreateRow; a row of a pulse expects its file. *)
PulseRow(n) ==
    /\ rows' = Append(rows, Row("pulse", n, 0))
    /\ UNCHANGED mark

\* Mutant: the newest row that waits takes the file.
FileRowNewest(n, size) ==
    /\ rows' = IF Awaiting # {}
               THEN LET k == CHOOSE l \in Awaiting : \A j \in Awaiting : j <= l
                    IN  [rows EXCEPT ![k].file = n, ![k].awaiting = FALSE]
               ELSE Append(rows, Row("file", n, n))
    /\ mark' = Later(MtimeAt(n, size))

(* trigOldestAwaiting, trigEnrichRow, or a row of its own *)
FileRow(n, size) ==
    /\ rows' = IF Awaiting # {}
               THEN [rows EXCEPT ![Oldest(Awaiting)].file = n,
                                 ![Oldest(Awaiting)].awaiting = FALSE]
               ELSE Append(rows, Row("file", n, n))
    /\ mark' = Later(MtimeAt(n, size))

HandleEvent ==
    /\ queue # <<>>
    /\ queue' = Tail(queue)
    /\ LET e == Head(queue) IN
       IF ~on THEN Ignored(e)
       ELSE IF e.type = "pulse" THEN PulseRow(e.shot)
       ELSE FileRow(e.shot, e.size)
    /\ UNCHANGED <<recorder, settle, watch, starts, catchup, on>>

(* No file is on its way to the row. *)
Stray(k) == shot[rows[k].shot].state = "unsaved" \/ rows[k].shot \in Logged

(* 120 seconds: no file takes that long. *)
WindowPasses(k) ==
    /\ k \in Awaiting /\ Stray(k)
    /\ rows' = [rows EXCEPT ![k].awaiting = FALSE]
    /\ UNCHANGED <<recorder, settle, watch, starts, queue, mark, catchup, on>>

(* trigClearPending: a row the observer has edited is no longer pending. *)
EditRow(k) ==
    /\ k \in Awaiting /\ ("edit" \notin Habits => Stray(k))
    /\ rows' = [rows EXCEPT ![k].awaiting = FALSE]
    /\ UNCHANGED <<recorder, settle, watch, starts, queue, mark, catchup, on>>

-----------------------------------------------------------------------------
(* The switch, and the catch-up *)

(* stopTriggerFolder: timers the map does not know go on. *)
Cleared ==
    /\ event' = {}
    /\ timer' = [i \in Timer |-> IF \E n \in Shot : slot[n] = i THEN NoTimer ELSE timer[i]]
    /\ slot' = [n \in Shot |-> 0]
    /\ sizes' = [n \in Shot |-> 0] /\ emitted' = [n \in Shot |-> 0]

StopClick ==
    /\ on /\ watch
    /\ Cleared
    /\ watch' = FALSE
    /\ UNCHANGED <<shot, still, early, failed, starts, window>>

StopAnswers ==
    /\ on /\ ~watch
    /\ on' = FALSE
    /\ UNCHANGED <<recorder, settle, watch, starts, queue, rows, mark, catchup>>

StartClick ==
    /\ ~on /\ ~watch /\ starts < MaxStarts /\ catchup.pc = "no"
    /\ "live" \notin Habits => Quiet
    /\ Cleared
    /\ watch' = TRUE /\ on' = TRUE
    /\ starts' = starts + 1
    /\ catchup' = [catchup EXCEPT !.pc = "scan"]
    /\ UNCHANGED <<shot, still, early, failed, queue, rows, mark>>

(* Saving the configuration of a watch that is on: no catch-up. *)
SaveClick ==
    /\ on /\ watch /\ starts < MaxStarts
    /\ "save" \notin Habits => Quiet
    /\ Cleared
    /\ starts' = starts + 1
    /\ UNCHANGED <<shot, still, early, failed, watch, window>>

Offered == {n \in Shot : shot[n].size > 0 /\ Mtime(n) > mark}

Scan ==
    /\ catchup.pc = "scan"
    /\ catchup' = IF watch /\ Offered # {}
                  THEN [catchup EXCEPT !.pc = "ask", !.files = Offered]
                  ELSE [catchup EXCEPT !.pc = "no"]
    /\ UNCHANGED <<recorder, settle, watch, starts, queue, rows, mark, on>>

(* Add all, Add selected, Skip *)
Choose(add) ==
    /\ catchup.pc = "ask" /\ add \subseteq catchup.files
    /\ catchup' = [pc |-> IF add = {} THEN "no" ELSE "add", files |-> add,
                   skipped |-> catchup.skipped \cup (catchup.files \ add)]
    /\ UNCHANGED <<recorder, settle, watch, starts, queue, rows, mark, on>>

AddNext ==
    LET n == Oldest(catchup.files) IN
    /\ catchup.pc = "add"
    /\ rows' = Append(rows, Row("catchup", n, n))
    /\ mark' = Later(Mtime(n))
    /\ catchup' = [catchup EXCEPT !.files = @ \ {n},
                                  !.pc = IF @ = "add" /\ catchup.files = {n} THEN "no" ELSE @]
    /\ UNCHANGED <<recorder, settle, watch, starts, queue, on>>

-----------------------------------------------------------------------------
Recorder ==
    \E n \in Shot :
        \/ \E heard, saved \in BOOLEAN : Fire(n, heard, saved)
        \/ Create(n) \/ Touch(n) \/ Close(n)

FolderSource ==
    \E i \in Timer :
        \/ \E n \in Shot : Consider(n, i)
        \/ SettleBegins(i) \/ SettleResumes(i) \/ SettleFails(i)

User ==
    \/ StartClick \/ StopClick \/ SaveClick
    \/ \E add \in SUBSET catchup.files : Choose(add)
    \/ \E k \in 1 .. Len(rows) : EditRow(k)

Next ==
    \/ Recorder \/ FolderSource \/ User
    \/ Tick \/ HandleEvent
    \/ \E k \in 1 .. Len(rows) : WindowPasses(k)
    \/ StopAnswers \/ Scan \/ AddNext

(* Timers fire, stats and the window's handlers end; a file that is being  *)
(* written when all else waits is closed.                                  *)
Fairness ==
    /\ WF_vars(FolderSource) /\ WF_vars(Tick) /\ WF_vars(HandleEvent)
    /\ WF_vars(\E n \in Shot : Create(n) \/ Close(n))

Spec == Init /\ [][Next]_vars /\ Fairness

-----------------------------------------------------------------------------
TypeOK ==
    /\ shot \in [Shot -> [state : {"no", "fired", "unsaved", "writing", "done"},
                          size : Size, heard : BOOLEAN]]
    /\ event \subseteq Shot /\ still \subseteq Shot
    /\ early \subseteq Shot /\ failed \subseteq Shot
    /\ timer \in [Timer -> [pc : {"free", "armed", "due", "stat"}, file : Shot \cup {0}]]
    /\ slot \in [Shot -> 0 .. MaxTimer]
    /\ sizes \in [Shot -> Size] /\ emitted \in [Shot -> Size]
    /\ watch \in BOOLEAN /\ on \in BOOLEAN /\ starts \in 0 .. MaxStarts
    /\ queue \in Seq([type : {"pulse", "file"}, shot : Shot, size : Size])
    /\ Len(queue) <= MaxQueue
    /\ rows \in Seq([by : {"pulse", "file", "catchup"}, shot : Shot,
                     file : Shot \cup {0}, awaiting : BOOLEAN])
    /\ mark \in Nat
    /\ catchup \in [pc : {"no", "scan", "ask", "add"}, files : SUBSET Shot,
                    skipped : SUBSET Shot]

(* Unless a file was announced early, the log does not count a shot twice: *)
(* no file is in two rows, and the watch adds no more rows by itself than  *)
(* shots were fired.                                                       *)
OneRowPerShot ==
    /\ \A k, l \in 1 .. Len(rows) :
          rows[k].file = rows[l].file /\ k # l => rows[k].file \in {0} \cup early
    /\ early = {} =>
          Cardinality({k \in 1 .. Len(rows) : rows[k].by # "catchup"})
             <= Cardinality({n \in Shot : shot[n].state # "no"})

(* As long as every shot is heard and saved, every look succeeds, no file  *)
(* is announced early and the watch is not restarted, the file that        *)
(* completes a row is the one of the row's shot.                           *)
RightFile ==
    (/\ starts = 1 /\ on /\ early = {} /\ failed = {}
     /\ \A n \in Shot : shot[n].state # "no" => shot[n].heard /\ shot[n].state # "unsaved")
    => \A k \in 1 .. Len(rows) : rows[k].file \in {0, rows[k].shot}

(* A file that is announced is closed or has kept its size for a whole     *)
(* settle period: no order of its events, the debounce, the looks that     *)
(* fail and the stalls of the recorder lets one look stand for two.        *)
WholeFile ==
    [][\A n \in Shot : emitted'[n] \notin {0, emitted[n]} =>
          shot[n].state = "done" \/ n \in still]_vars

(* A file that is neither in the log nor on its way there is offered at    *)
(* the next start, unless the observer has skipped it or the last look at  *)
(* it failed: no order of stops, starts, live rows and catch-up rows moves *)
(* the mark past it.                                                       *)
NothingMissed ==
    \A n \in Shot :
        shot[n].state = "done" =>
            \/ n \in Logged \cup catchup.skipped \cup catchup.files \cup Settling \cup Queued
            \/ n \in failed
            \/ Mtime(n) > mark

(* Checked by hand and refuted, see the README: a file that stalls while   *)
(* it is written gets two rows, and one the last look at which failed is   *)
(* overtaken by the mark.                                                  *)
OneFileOneRow ==
    \A k, l \in 1 .. Len(rows) : rows[k].file = rows[l].file /\ k # l => rows[k].file = 0
NoneOvertaken ==
    \A n \in Shot :
        shot[n].state = "done" =>
            \/ n \in Logged \cup catchup.skipped \cup catchup.files \cup Settling \cup Queued
            \/ Mtime(n) > mark

(* A file that lands under a running watch is announced in its final size  *)
(* and gets its row, or completes one, unless the watch is stopped or the  *)
(* look after its last event fails.                                        *)
EveryLanding ==
    \A n \in Shot :
        (shot[n].state = "done" /\ watch /\ n \in Settling)
        ~> \/ emitted[n] = shot[n].size /\ n \in Logged \ Queued
           \/ n \in failed
           \/ ~watch
=============================================================================
