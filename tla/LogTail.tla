-------------------------------- MODULE LogTail --------------------------------
(***************************************************************************)
(* The tail of the SCS survey log, the trigger source that gives a row for *)
(* every line the recorder writes at a shot (electron/main.ts 3076-3184,   *)
(* core/trigger/parse.ts 130-210): the watcher, its debounce, the read     *)
(* that goes on from the last offset, and starts and stops around it.      *)
(*                                                                         *)
(* A line comes in two pieces, of which only the second ends it and which  *)
(* parse only together; a size counts pieces.  A step runs from one await  *)
(* to the next.                                                            *)
(***************************************************************************)
EXTENDS Integers, Sequences, SequencesExt

CONSTANTS
    MaxLine,     \* lines that are ever written
    MaxSeen,     \* TRIG_SCS_SEEN_MAX
    MaxStarts,   \* how often the source is started
    MaxFault,    \* reads that fail
    Habits       \* what happens beyond a quiet survey

(* "refill": the log is rotated before it was read to its end, or filled   *)
(*           again before the tail has noticed.                            *)
(* "slow":   a read takes longer than the debounce.                        *)
(* "hasty":  the source is started anew while a read is under way.         *)
(* "others": the window watches other sources, too, and so goes on taking  *)
(*           events when this one is stopped.                              *)
ASSUME TailAssumption ==
    /\ MaxLine \in Nat /\ MaxSeen \in Nat \ {0} /\ MaxStarts \in Nat /\ MaxFault \in Nat
    /\ Habits \subseteq {"refill", "slow", "hasty", "others"}

Line == 1 .. MaxLine
Piece == [line : Line, end : BOOLEAN]

VARIABLES
    log,      \* every line ever written: its shot, if it is a READ line, if it
              \* was begun under a running tail, and by: under which start
    file,     \* the pieces in the log file
    path,     \* trigScsPath is set, and the watcher is open
    offset,   \* trigScsOffset
    buf,      \* trigScsBuf
    seen,     \* trigScsSeen, oldest first
    timer,    \* trigScsTimer is set
    read,     \* trigScsRead: where it is, st.size and pos
    start,    \* startTriggerScsLog: where it is, and its size
    starts,   \* how often it was started
    sent,     \* the events accepted by the window: line and start
    faults    \* reads that failed, and did the last one

vars == <<log, file, path, offset, buf, seen, timer, read, start, starts,
          sent, faults>>
recorder == <<log, file>>
tail == <<offset, buf, seen>>
session == <<path, start, starts>>

-----------------------------------------------------------------------------
NotReading == [pc |-> "no", size |-> 0, pos |-> 0]
NotStarting == [pc |-> "no", size |-> 0]

Init ==
    /\ log = <<>> /\ file = <<>>
    /\ path = FALSE /\ offset = 0 /\ buf = <<>> /\ seen = <<>>
    /\ timer = FALSE
    /\ read = NotReading /\ start = NotStarting /\ starts = 0
    /\ sent = <<>>
    /\ faults = [count |-> 0, last |-> FALSE]

-----------------------------------------------------------------------------
(* The recorder *)

Whole == file # <<>> => Last(file).end
Shots == {log[k].shot : k \in DOMAIN log}
CaughtUp == offset = Len(file) /\ buf = <<>> /\ read.pc = "no"
Quiet == ~timer /\ read.pc = "no" /\ ~faults.last

(* trigScsSchedule: the watcher, if there is one, tells of every write. *)
Schedule == timer' = path

(* A new shot, the same line once more, or a note that a file was read. *)
BeginLine(shot, again, reread) ==
    /\ Whole /\ Len(log) < MaxLine
    /\ IF again \/ reread THEN shot \in Shots ELSE shot = Len(log) + 1
    /\ "refill" \notin Habits /\ path /\ file = <<>> => Quiet
    /\ log' = Append(log, [shot |-> shot, read |-> reread, live |-> path,
                           by |-> IF path \/ start.pc # "no" THEN starts ELSE 0])
    /\ file' = Append(file, [line |-> Len(log) + 1, end |-> FALSE])
    /\ Schedule
    /\ UNCHANGED <<session, tail, read, sent, faults>>

EndLine ==
    /\ ~Whole
    /\ file' = Append(file, [line |-> Len(log), end |-> TRUE])
    /\ Schedule
    /\ UNCHANGED <<log, session, tail, read, sent, faults>>

Rotate ==
    /\ Whole /\ file # <<>>
    /\ "refill" \notin Habits => (path => CaughtUp) /\ start.pc = "no"
    /\ file' = <<>>
    /\ Schedule
    /\ UNCHANGED <<log, session, tail, read, sent, faults>>

-----------------------------------------------------------------------------
(* The quiet time is over; a read under way turns the timer away. *)
TimerFires ==
    /\ timer
    /\ "slow" \notin Habits => read.pc = "no"
    /\ timer' = FALSE
    /\ IF read.pc = "no" /\ path
       THEN read' = [NotReading EXCEPT !.pc = "stat"] /\ faults' = [faults EXCEPT !.last = FALSE]
       ELSE UNCHANGED <<read, faults>>
    /\ UNCHANGED <<recorder, session, tail, sent>>

-----------------------------------------------------------------------------
(* trigScsRead *)

\* Mutant: a log that has become shorter is not noticed.
ShrunkNever == FALSE

Shrunk == Len(file) < offset

(* The stat: nothing to do without more of the file, nothing to open       *)
(* without a path.                                                         *)
ReadStats ==
    LET from == IF Shrunk THEN 0 ELSE offset IN
    /\ read.pc = "stat"
    /\ IF path
       THEN /\ offset' = from
            /\ buf' = IF Shrunk THEN <<>> ELSE buf
            /\ read' = IF Len(file) <= from THEN NotReading
                       ELSE [pc |-> "open", size |-> Len(file), pos |-> 0]
       ELSE read' = NotReading /\ UNCHANGED <<offset, buf>>
    /\ UNCHANGED <<recorder, session, seen, timer, sent, faults>>

(* From here the place is a local of the read. *)
ReadOpens ==
    /\ read.pc = "open"
    /\ read' = [read EXCEPT !.pc = "read", !.pos = offset]
    /\ UNCHANGED <<recorder, session, tail, timer, sent, faults>>

(* The file may be shorter by now. *)
Bytes == SubSeq(file, read.pos + 1, IF Len(file) < read.size THEN Len(file) ELSE read.size)

(* A read finds less than TRIG_SCS_BUF_MAX, some thousand lines: it is one *)
(* chunk, and the guard of the buffer has nothing to cut.                  *)
ReadReads ==
    /\ read.pc = "read"
    /\ buf' = buf \o Bytes
    /\ offset' = read.pos + Len(Bytes)
    /\ read' = [read EXCEPT !.pc = "close"]
    /\ UNCHANGED <<recorder, session, seen, timer, sent, faults>>

(* Any of its awaits may reject. *)
ReadFails ==
    /\ read.pc \in {"stat", "open", "read", "close"} /\ faults.count < MaxFault
    /\ faults' = [count |-> faults.count + 1, last |-> TRUE]
    /\ read' = NotReading
    /\ UNCHANGED <<recorder, session, tail, timer, sent>>

\* Mutant: the memory is one short.
EvictsEarly(s) == IF Len(s) >= MaxSeen THEN Tail(s) ELSE s

Evicts(s) == IF Len(s) > MaxSeen THEN Tail(s) ELSE s

(* parseScsLogLine: the two pieces of one line, and nothing else. *)
Parses(s) == Len(s) = 2 /\ s[1].line = s[2].line /\ ~s[1].end

(* trigIsOn of the window *)
TakesEvents == path \/ "others" \in Habits

(* trigScsHandleLine, and whether the window takes its event *)
HandleLine(acc, s) ==
    LET k == s[1].line IN
    IF ~Parses(s) \/ log[k].read \/ Contains(acc.seen, log[k].shot) THEN acc
    ELSE [acc EXCEPT !.seen = Evicts(Append(@, log[k].shot)),
                     !.sent = IF TakesEvents THEN Append(@, [line |-> k, start |-> starts])
                              ELSE @]

\* Mutant: what follows the last line end is thrown away.
RestDropped(acc) == <<>>

Rest(acc) == acc.cur

(* A piece joins the line that is read; its last one ends the line. *)
TakePiece(acc, p) ==
    IF p.end THEN [HandleLine(acc, Append(acc.cur, p)) EXCEPT !.cur = <<>>]
    ELSE [acc EXCEPT !.cur = Append(@, p)]

(* What is taken from the buffer up to its i-th piece *)
Taken[i \in 0 .. Len(buf)] ==
    IF i = 0 THEN [cur |-> <<>>, seen |-> seen, sent |-> sent]
    ELSE TakePiece(Taken[i - 1], buf[i])

ReadCloses ==
    LET all == Taken[Len(buf)] IN
    /\ read.pc = "close"
    /\ buf' = Rest(all) /\ seen' = all.seen /\ sent' = all.sent
    /\ read' = NotReading
    /\ UNCHANGED <<recorder, session, offset, timer, faults>>

-----------------------------------------------------------------------------
(* stopTriggerScsLog: a read under way goes on. *)
Stopped ==
    /\ timer' = FALSE /\ path' = FALSE
    /\ buf' = <<>> /\ offset' = 0 /\ seen' = <<>>

(* The switch, a reset, or an error of the watcher *)
Stop ==
    /\ path
    /\ Stopped
    /\ UNCHANGED <<recorder, read, start, starts, sent, faults>>

(* triggerWatch, of a source that is on or off *)
StartClick ==
    /\ start.pc = "no" /\ starts < MaxStarts
    /\ "hasty" \notin Habits => read.pc = "no"
    /\ Stopped
    /\ start' = [pc |-> "stat", size |-> 0] /\ starts' = starts + 1
    /\ UNCHANGED <<recorder, read, sent, faults>>

StartStats(ok) ==
    /\ start.pc = "stat"
    /\ start' = IF ok THEN [pc |-> "set", size |-> Len(file)] ELSE NotStarting
    /\ UNCHANGED <<recorder, path, starts, tail, timer, read, sent, faults>>

\* Mutant: the log is read from its beginning.
FromTheBeginning == 0

FromItsEnd == start.size

StartSets ==
    /\ start.pc = "set"
    /\ path' = TRUE /\ offset' = FromItsEnd /\ buf' = <<>> /\ seen' = <<>>
    /\ start' = NotStarting
    /\ UNCHANGED <<recorder, starts, timer, read, sent, faults>>

-----------------------------------------------------------------------------
Recorder ==
    \/ \E shot \in Line, again, reread \in BOOLEAN : BeginLine(shot, again, reread)
    \/ EndLine \/ Rotate

Read == ReadStats \/ ReadOpens \/ ReadReads \/ ReadCloses

User == Stop \/ StartClick \/ StartSets \/ \E ok \in BOOLEAN : StartStats(ok)

Next == Recorder \/ TimerFires \/ Read \/ ReadFails \/ User

(* Timers fire and reads go on. *)
Fairness == WF_vars(TimerFires) /\ WF_vars(Read \/ ReadFails)

Spec == Init /\ [][Next]_vars /\ Fairness

-----------------------------------------------------------------------------
TypeOK ==
    /\ log \in Seq([shot : Line, read : BOOLEAN, live : BOOLEAN, by : 0 .. MaxStarts]) /\ Len(log) <= MaxLine
    /\ file \in Seq(Piece) /\ buf \in Seq(Piece)
    /\ {path, timer} \subseteq BOOLEAN
    /\ offset \in Nat
    /\ seen \in Seq(Line) /\ Len(seen) <= MaxSeen
    /\ read \in [pc : {"no", "stat", "open", "read", "close"}, size : Nat, pos : Nat]
    /\ start \in [pc : {"no", "stat", "set"}, size : Nat]
    /\ starts \in 0 .. MaxStarts
    /\ sent \in Seq([line : Line, start : 0 .. MaxStarts])
    /\ faults \in [count : 0 .. MaxFault, last : BOOLEAN]

ShotOf(i) == log[sent[i].line].shot

(* One trigger is one row: in one session no line is taken twice, and no   *)
(* repetition of a line unless MaxSeen other shots were sent in between,   *)
(* whatever is read again after a failure.                                 *)
OnceEach ==
    \A i, j \in DOMAIN sent :
        i < j /\ sent[i].start = sent[j].start =>
            sent[i].line # sent[j].line /\ (ShotOf(i) = ShotOf(j) => j - i > MaxSeen)

(* Only new shots: what was logged before the start, or before another     *)
(* start, is not replayed, though the file is rotated and read again.      *)
NoHistory == \A i \in DOMAIN sent : log[sent[i].line].by = sent[i].start

(* A line that asks for a row of its own under a running tail. *)
Fresh(k) == ~log[k].read /\ \A j \in 1 .. k - 1 : log[j].shot # log[k].shot

(* No shot is passed over: rows come in the order of the shots, with every *)
(* shot in between, though lines come in pieces and reads fail.            *)
NothingSkipped ==
    \A i \in DOMAIN sent, k \in DOMAIN log :
        /\ Fresh(k) /\ k < sent[i].line
        /\ log[k].live /\ log[k].by = sent[i].start
        => \E j \in 1 .. i : sent[j].line = k

(* Every shot written under a running tail gets its row, unless the tail   *)
(* is stopped or the read that was to take it has failed.                  *)
Ends(k) == \E i \in DOMAIN file : file[i] = [line |-> k, end |-> TRUE]
Owed ==
    \E k \in DOMAIN log :
        /\ Ends(k) /\ Fresh(k) /\ log[k].live /\ log[k].by = starts
        /\ \A i \in DOMAIN sent : sent[i].line # k
EveryShot == path /\ timer ~> ~path \/ faults.last \/ ~Owed
=============================================================================
