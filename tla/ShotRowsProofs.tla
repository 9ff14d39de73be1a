---------------------------- MODULE ShotRowsProofs ----------------------------
(***************************************************************************)
(* That the watch announces no file before it is closed or has kept its    *)
(* size for a settle period, that no order of stops, starts, live rows and *)
(* catch-up rows moves the mark past a file the log has not seen, that a   *)
(* row gets the file of its own shot and that no shot is counted twice,    *)
(* for any number of shots, timers, events and starts.  Each part adds to  *)
(* the invariant of the one before: Types, Settled and Kept, then Single   *)
(* (what a file is in at most once), Coupled (pulses, rows and files in    *)
(* the order of the shots) and Counted (what a second row costs).          *)
(***************************************************************************)
EXTENDS ShotRows, SequenceTheorems, WellFoundedInduction, FiniteSetTheorems, TLAPS

Pc == {"free", "armed", "due", "stat"}
Timers == [pc : Pc, file : Shot \cup {0}]
ShotState == [state : {"no", "fired", "unsaved", "writing", "done"},
              size : Size, heard : BOOLEAN]
Event == [type : {"pulse", "file"}, shot : Shot, size : Size]
LogRow == [by : {"pulse", "file", "catchup"}, shot : Shot,
           file : Shot \cup {0}, awaiting : BOOLEAN]
Catchup == [pc : {"no", "scan", "ask", "add"}, files : SUBSET Shot,
            skipped : SUBSET Shot]

(* A timer that runs has a file, and who adds rows has files to add. *)
Busy ==
    /\ \A i \in Timer : timer[i].pc # "free" => timer[i].file \in Shot
    /\ catchup.pc = "add" => catchup.files # {}

Types == TypeOK /\ Busy

-----------------------------------------------------------------------------
LEMMA Bounds ==
  /\ MaxShot \in Nat /\ MaxSize \in Nat /\ MaxSize >= 1 /\ MaxTimer \in Nat
  /\ MaxQueue \in Nat /\ MaxStarts \in Nat
  /\ Shot = 1 .. MaxShot /\ Timer = 1 .. MaxTimer /\ Size = 0 .. MaxSize
  /\ 0 \in Size /\ 1 \in Size /\ 0 \in 0 .. MaxTimer /\ 0 \in 0 .. MaxStarts /\ 0 \notin Shot /\ 0 \notin Timer
BY ShotAssumption DEF Shot, Timer, Size

(* What is not empty has a first. *)
LEMMA First ==
  ASSUME NEW S, S \subseteq Nat, S # {}
  PROVE  /\ Oldest(S) \in S
         /\ \A l \in S : Oldest(S) <= l
<1> DEFINE R == OpToRel(<, Nat)
<1>1. IsWellFoundedOn(R, Nat)
  BY NatLessThanWellFounded
<1>2. \A x, y \in Nat : <<y, x>> \in R <=> y < x
  BY DEF OpToRel
<1> HIDE DEF R
<1>3. PICK x \in S : \A y \in S : <<y, x>> \notin R
  BY <1>1, WFMin
<1>4. ASSUME NEW l \in S PROVE x <= l
  <2>1. x \in Nat /\ l \in Nat /\ <<l, x>> \notin R
    BY <1>3
  <2>2. ~(l < x)
    BY <1>2, <2>1
  <2> QED BY <2>1, <2>2
<1> QED
  BY <1>3, <1>4 DEF Oldest

(* The mtimes of two files are in the order of their shots. *)
LEMMA Products ==
  ASSUME NEW m \in Nat, NEW n \in Nat
  PROVE  /\ m * (MaxSize + 1) \in Nat
         /\ m < n => m * (MaxSize + 1) + MaxSize < n * (MaxSize + 1)
<1>1. MaxSize \in Nat
  BY Bounds
<1> DEFINE k == MaxSize + 1
<1>2. k \in Nat /\ MaxSize < k
  BY <1>1
<1> HIDE DEF k
<1>3. m * k \in Nat /\ n * k \in Nat
  BY <1>2
<1>4. m < n => (n - m) * k >= k
  <2> SUFFICES ASSUME m < n PROVE (n - m) * k >= k
    OBVIOUS
  <2>1. PICK d \in Nat : n - m = d + 1
    <3>1. n - m - 1 \in Nat /\ n - m = (n - m - 1) + 1
      OBVIOUS
    <3> QED BY <3>1
  <2>2. (d + 1) * k = d * k + k /\ d * k \in Nat
    BY <1>2
  <2> QED BY <1>2, <2>1, <2>2
<1>5. (n - m) * k = n * k - m * k
  BY <1>2
<1>6. MaxSize + 1 = k
  BY DEF k
<1> QED
  BY <1>1, <1>2, <1>3, <1>4, <1>5, <1>6

LEMMA MtimeOrder ==
  ASSUME Types
  PROVE  /\ \A n \in Shot : Mtime(n) \in Nat
         /\ \A m, n \in Shot : m < n => Mtime(m) < Mtime(n)
         /\ \A n \in Shot, z \in Size : MtimeAt(n, z) \in Nat
         /\ \A m, n \in Shot, z \in Size : m < n => MtimeAt(m, z) < Mtime(n)
<1>1. \A n \in Shot : n \in Nat /\ shot[n].size \in 0 .. MaxSize /\ MaxSize \in Nat
  BY Bounds DEF Types, TypeOK
<1>2. \A n \in Shot : n * (MaxSize + 1) \in Nat
  BY <1>1, Products
<1>3. \A m, n \in Shot : m < n => m * (MaxSize + 1) + MaxSize < n * (MaxSize + 1)
  BY <1>1, Products
<1> DEFINE p == [n \in Shot |-> n * (MaxSize + 1)]
<1>4. /\ \A n \in Shot : p[n] \in Nat /\ Mtime(n) = p[n] + shot[n].size
      /\ \A n \in Shot, z \in Size : MtimeAt(n, z) = p[n] + z
      /\ \A m, n \in Shot : m < n => p[m] + MaxSize < p[n]
  BY <1>2, <1>3 DEF Mtime, MtimeAt
<1> HIDE DEF p
<1>5. \A n \in Shot, z \in Size : z \in 0 .. MaxSize /\ MtimeAt(n, z) \in Nat
  <2>1. \A z \in Size : z \in 0 .. MaxSize /\ z \in Nat
    BY Bounds
  <2> QED BY <1>4, <2>1
<1>6. \A m, n \in Shot, z \in Size : m < n => MtimeAt(m, z) < Mtime(n)
  <2> SUFFICES ASSUME NEW m \in Shot, NEW n \in Shot, NEW z \in Size, m < n
               PROVE  MtimeAt(m, z) < Mtime(n)
    OBVIOUS
  <2>1. p[m] \in Nat /\ p[n] \in Nat /\ p[m] + MaxSize < p[n]
    BY <1>4
  <2>2. MtimeAt(m, z) = p[m] + z /\ Mtime(n) = p[n] + shot[n].size
    BY <1>4
  <2>3. z \in 0 .. MaxSize /\ shot[n].size \in 0 .. MaxSize /\ MaxSize \in Nat
    BY <1>1, <1>5
  <2> QED BY <2>1, <2>2, <2>3
<1>7. /\ \A n \in Shot : Mtime(n) \in Nat
      /\ \A m, n \in Shot : m < n => Mtime(m) < Mtime(n)
  BY <1>1, <1>4
<1> QED
  BY <1>5, <1>6, <1>7

LEMMA LaterIs ==
  ASSUME Types, NEW n \in Shot, NEW z \in Size
  PROVE  /\ Later(MtimeAt(n, z)) \in Nat
         /\ Later(MtimeAt(n, z)) \in {mark, MtimeAt(n, z)}
         /\ Later(MtimeAt(n, z)) >= mark /\ Later(MtimeAt(n, z)) >= MtimeAt(n, z)
BY MtimeOrder DEF Later, Types, TypeOK

(* The mtime a file has is the one of its size. *)
LEMMA MtimeNow ==
  ASSUME Types, NEW n \in Shot
  PROVE  shot[n].size \in Size /\ Mtime(n) = MtimeAt(n, shot[n].size)
BY DEF Mtime, MtimeAt, Types, TypeOK
-----------------------------------------------------------------------------
(* Types *)

LEMMA InitTypes == Init => Types
<1> SUFFICES ASSUME Init PROVE Types
  OBVIOUS
<1>1. shot \in [Shot -> ShotState] /\ timer \in [Timer -> Timers]
  BY Bounds DEF Init, ShotState, Timers, Pc, NoTimer
<1>2. /\ event \subseteq Shot /\ slot \in [Shot -> 0 .. MaxTimer]
      /\ sizes \in [Shot -> Size] /\ emitted \in [Shot -> Size]
      /\ watch \in BOOLEAN /\ on \in BOOLEAN /\ starts \in 0 .. MaxStarts
  BY Bounds DEF Init
<1>0. still \subseteq Shot /\ early \subseteq Shot /\ failed \subseteq Shot
  BY DEF Init
<1>3. /\ queue \in Seq(Event) /\ Len(queue) <= MaxQueue /\ rows \in Seq(LogRow)
      /\ mark \in Nat /\ catchup \in Catchup
  BY Bounds DEF Init, Catchup, NoCatchup
<1>4. Busy
  BY DEF Init, Busy, NoTimer, NoCatchup
<1> QED
  BY <1>0, <1>1, <1>2, <1>3, <1>4 DEF Types, TypeOK, ShotState, Timers, Pc, Event, LogRow, Catchup

(* The named types, for the steps below. *)
LEMMA TypesMeans ==
  Types <=>
    /\ shot \in [Shot -> ShotState] /\ event \subseteq Shot /\ timer \in [Timer -> Timers]
    /\ still \subseteq Shot /\ early \subseteq Shot /\ failed \subseteq Shot
    /\ slot \in [Shot -> 0 .. MaxTimer]
    /\ sizes \in [Shot -> Size] /\ emitted \in [Shot -> Size]
    /\ watch \in BOOLEAN /\ on \in BOOLEAN /\ starts \in 0 .. MaxStarts
    /\ queue \in Seq(Event) /\ Len(queue) <= MaxQueue /\ rows \in Seq(LogRow)
    /\ mark \in Nat /\ catchup \in Catchup /\ Busy
BY DEF Types, TypeOK, ShotState, Timers, Pc, Event, LogRow, Catchup

LEMMA TypesNext ==
  ASSUME shot' \in [Shot -> ShotState], event' \subseteq Shot, timer' \in [Timer -> Timers],
         still' \subseteq Shot, early' \subseteq Shot, failed' \subseteq Shot,
         slot' \in [Shot -> 0 .. MaxTimer],
         sizes' \in [Shot -> Size], emitted' \in [Shot -> Size],
         watch' \in BOOLEAN, on' \in BOOLEAN, starts' \in 0 .. MaxStarts,
         queue' \in Seq(Event), Len(queue') <= MaxQueue, rows' \in Seq(LogRow),
         mark' \in Nat, catchup' \in Catchup, Busy'
  PROVE  Types'
BY DEF Types, TypeOK, ShotState, Timers, Pc, Event, LogRow, Catchup

LEMMA AppendEvent ==
  ASSUME Types, Len(queue) < MaxQueue, NEW e \in Event
  PROVE  Append(queue, e) \in Seq(Event) /\ Len(Append(queue, e)) <= MaxQueue
BY TypesMeans, Bounds, AppendProperties

LEMMA ClearedTypes ==
  ASSUME Types, Cleared
  PROVE  /\ event' \subseteq Shot /\ timer' \in [Timer -> Timers]
         /\ slot' \in [Shot -> 0 .. MaxTimer]
         /\ sizes' \in [Shot -> Size] /\ emitted' \in [Shot -> Size]
         /\ \A i \in Timer : timer'[i].pc # "free" => timer'[i].file \in Shot
<1>1. NoTimer \in Timers /\ NoTimer.pc = "free"
  BY DEF NoTimer, Timers, Pc
<1>2. /\ timer' \in [Timer -> Timers]
      /\ \A i \in Timer : timer'[i].pc # "free" => timer'[i].file \in Shot
  BY <1>1, TypesMeans DEF Cleared, Busy
<1> QED
  BY <1>2, Bounds DEF Cleared

LEMMA RecorderTypes ==
  ASSUME Types, NEW n \in Shot
  PROVE  /\ \A heard, saved \in BOOLEAN : (Fire(n, heard, saved) => Types')
         /\ (Create(n) => Types') /\ (Touch(n) => Types') /\ (Close(n) => Types')
<1>1. ASSUME NEW heard \in BOOLEAN, NEW saved \in BOOLEAN, Fire(n, heard, saved)
      PROVE  Types'
  <2>1. shot' \in [Shot -> ShotState]
    BY <1>1, TypesMeans DEF Fire, ShotState
  <2>2. [type |-> "pulse", shot |-> n, size |-> 0] \in Event
    BY Bounds DEF Event
  <2>3. queue' \in Seq(Event) /\ Len(queue') <= MaxQueue
    BY <1>1, <2>2, AppendEvent, TypesMeans DEF Fire
  <2> QED BY <1>1, <2>1, <2>3, TypesMeans, TypesNext DEF Fire, settle, Busy
<1>2. ASSUME Create(n) PROVE Types'
  <2>1. shot' \in [Shot -> ShotState] /\ event' \subseteq Shot
    BY <1>2, TypesMeans, Bounds DEF Create, Seen, ShotState
  <2> QED BY <1>2, <2>1, TypesMeans, TypesNext DEF Create, settle, window, Busy
<1>3. ASSUME Touch(n) PROVE Types'
  BY <1>3, TypesMeans, TypesNext DEF Touch, settle, window, Busy
<1>4. ASSUME Close(n) PROVE Types'
  <2>1. shot' \in [Shot -> ShotState] /\ event' \subseteq Shot
    BY <1>4, TypesMeans, Bounds DEF Close, Seen, ShotState
  <2> QED BY <1>4, <2>1, TypesMeans, TypesNext DEF Close, settle, window, Busy
<1> QED
  BY <1>1, <1>2, <1>3, <1>4

LEMMA FolderTypes ==
  ASSUME Types, NEW i \in Timer
  PROVE  /\ \A n \in Shot : (Consider(n, i) => Types')
         /\ (SettleBegins(i) => Types') /\ (SettleResumes(i) => Types')
         /\ (SettleFails(i) => Types')
<1>1. /\ NoTimer \in Timers /\ NoTimer.pc = "free" /\ Timer \subseteq 0 .. MaxTimer
      /\ \A n \in Shot, p \in Pc : [pc |-> p, file |-> n] \in Timers
      /\ \A t \in Timers, p \in Pc : [t EXCEPT !.pc = p] \in Timers
                                     /\ [t EXCEPT !.pc = p].file = t.file
  BY Bounds DEF NoTimer, Timers, Pc
<1>2. ASSUME NEW n \in Shot, Consider(n, i) PROVE Types'
  <2>1. timer' \in [Timer -> Timers]
    BY <1>1, <1>2, TypesMeans DEF Consider, Pc
  <2>2. Busy'
    BY <1>1, <1>2, TypesMeans DEF Consider, Busy, window
  <2>3. slot' \in [Shot -> 0 .. MaxTimer]
    BY <1>1, <1>2, TypesMeans DEF Consider
  <2> QED BY <1>2, <2>1, <2>2, <2>3, TypesMeans, TypesNext DEF Consider, window
<1>3. ASSUME SettleBegins(i) PROVE Types'
  <2>1. timer' \in [Timer -> Timers] /\ Busy'
    <3>1. CASE watch
      <4>1. timer' = [timer EXCEPT ![i] = [@ EXCEPT !.pc = "stat"]] /\ catchup' = catchup
        BY <1>3, <3>1 DEF SettleBegins, window
      <4>2. timer[i].pc = "due" /\ timer[i] \in Timers
        BY <1>3, TypesMeans DEF SettleBegins
      <4>3. [timer[i] EXCEPT !.pc = "stat"] \in Timers
            /\ [timer[i] EXCEPT !.pc = "stat"].file = timer[i].file
        BY <1>1, <4>2 DEF Pc
      <4> QED BY <4>1, <4>2, <4>3, TypesMeans DEF Busy
    <3>2. CASE ~watch
      BY <1>1, <1>3, <3>2, TypesMeans DEF SettleBegins, Busy, window
    <3> QED BY <3>1, <3>2
  <2>2. slot' \in [Shot -> 0 .. MaxTimer]
    BY <1>3, TypesMeans, Bounds DEF SettleBegins
  <2> QED BY <1>3, <2>1, <2>2, TypesMeans, TypesNext DEF SettleBegins, recorder, window
<1>4. ASSUME SettleResumes(i) PROVE Types'
  <2> DEFINE n == timer[i].file
  <2>1. n \in Shot /\ timer[i] \in Timers /\ shot[n].size \in Size
    BY <1>4, TypesMeans DEF SettleResumes, Busy, ShotState
  <2>2. /\ IF Settles(n) THEN Emits(n, i) ELSE LooksAgain(n, i)
        /\ UNCHANGED <<recorder, failed, watch, starts, rows, mark, catchup, on>>
    BY <1>4 DEF SettleResumes
  <2> HIDE DEF n
  <2>3. /\ sizes' \in [Shot -> Size] /\ emitted' \in [Shot -> Size]
        /\ slot' \in [Shot -> 0 .. MaxTimer]
    <3>1. CASE Emits(n, i)
      BY <1>1, <2>1, <3>1, TypesMeans, Bounds DEF Emits
    <3>2. CASE LooksAgain(n, i)
      BY <1>1, <2>1, <3>2, TypesMeans, Bounds DEF LooksAgain
    <3> QED BY <2>2, <3>1, <3>2
  <2>4. timer' \in [Timer -> Timers] /\ Busy'
    <3>1. CASE Emits(n, i)
      BY <1>1, <2>2, <3>1, TypesMeans DEF Emits, Busy
    <3>2. CASE LooksAgain(n, i)
      <4>1. timer' = [timer EXCEPT ![i] = [timer[i] EXCEPT !.pc = "armed"]] /\ "armed" \in Pc
        BY <3>2 DEF LooksAgain, Pc
      <4>2. [timer[i] EXCEPT !.pc = "armed"] \in Timers
            /\ [timer[i] EXCEPT !.pc = "armed"].file = n
        BY <1>1, <2>1, <4>1 DEF n
      <4> QED BY <2>1, <2>2, <4>1, <4>2, TypesMeans DEF Busy
    <3> QED BY <2>2, <3>1, <3>2
  <2>5. queue' \in Seq(Event) /\ Len(queue') <= MaxQueue
    <3>1. [type |-> "file", shot |-> n, size |-> shot[n].size] \in Event
      BY <2>1 DEF Event
    <3> QED BY <2>2, <3>1, AppendEvent, TypesMeans DEF Emits, LooksAgain, Announced
  <2>6. early' \subseteq Shot
    BY <2>1, <2>2, TypesMeans DEF Emits, LooksAgain, Early
  <2> QED BY <2>2, <2>3, <2>4, <2>5, <2>6, TypesMeans, TypesNext DEF recorder
<1>5. ASSUME SettleFails(i) PROVE Types'
  <2>1. timer[i].file \in Shot /\ failed' = failed \cup {timer[i].file}
    BY <1>5, TypesMeans DEF SettleFails, Busy
  <2>2. /\ sizes' \in [Shot -> Size] /\ failed' \subseteq Shot
        /\ timer' \in [Timer -> Timers]
    BY <1>1, <1>5, <2>1, TypesMeans, Bounds DEF SettleFails
  <2>3. Busy'
    BY <1>1, <1>5, TypesMeans DEF SettleFails, Busy, window
  <2> QED BY <1>5, <2>2, <2>3, TypesMeans, TypesNext DEF SettleFails, recorder, window
<1> QED
  BY <1>2, <1>3, <1>4, <1>5

(* What is being written grows, or the recorder pauses. *)
LEMMA TickIs ==
  ASSUME Types, Tick
  PROVE  /\ shot' \in [Shot -> ShotState] /\ still' \subseteq Shot
         /\ \A n \in Shot : shot[n].state # "writing" \/ n \in still' => shot'[n] = shot[n]
         /\ \A n \in Shot : shot[n].state = "writing" /\ n \notin still' =>
               /\ shot'[n] = [shot[n] EXCEPT !.size = @ + 1]
               /\ shot[n].size + 1 \in Size
         /\ "stall" \notin Habits => still' = {}
<1>1. PICK pause \in SUBSET {n \in Shot : shot[n].state = "writing"} :
          /\ "stall" \notin Habits => pause = {}
          /\ \A n \in Growing(pause) : shot[n].size < MaxSize
          /\ shot' = [n \in Shot |-> IF n \in Growing(pause)
                                     THEN [shot[n] EXCEPT !.size = @ + 1] ELSE shot[n]]
          /\ still' = pause
  BY DEF Tick
<1>2. \A n \in Shot : n \in Growing(pause) <=> shot[n].state = "writing" /\ n \notin pause
  BY DEF Growing
<1>3. ASSUME NEW n \in Shot, n \in Growing(pause)
      PROVE  shot[n].size + 1 \in Size /\ [shot[n] EXCEPT !.size = @ + 1] \in ShotState
  <2>1. shot[n] \in ShotState /\ shot[n].size + 1 \in Size
    BY <1>1, <1>3, TypesMeans, Bounds DEF ShotState
  <2> QED BY <2>1 DEF ShotState
<1>4. shot' \in [Shot -> ShotState]
  BY <1>1, <1>3, TypesMeans
<1> QED
  BY <1>1, <1>2, <1>3, <1>4

LEMMA TickTypes == Types /\ Tick => Types'
<1> SUFFICES ASSUME Types, Tick PROVE Types'
  OBVIOUS
<1>1. shot' \in [Shot -> ShotState] /\ still' \subseteq Shot
  BY TickIs
<1>2. timer' \in [Timer -> Timers]
      /\ \A i \in Timer : timer'[i].file = timer[i].file
                          /\ (timer'[i].pc = "free" <=> timer[i].pc = "free")
  <2>1. timer \in [Timer -> Timers] /\ \A i \in Timer : timer[i].pc \in {"free", "armed"}
    BY TypesMeans DEF Tick
  <2>2. timer' = [i \in Timer |-> IF timer[i].pc = "armed" THEN [timer[i] EXCEPT !.pc = "due"]
                                                            ELSE timer[i]]
    BY DEF Tick
  <2> QED BY <2>1, <2>2 DEF Timers, Pc
<1> QED
  BY <1>1, <1>2, TypesMeans, TypesNext DEF Tick, window, Busy

LEMMA AwaitingIs ==
  ASSUME Types, Awaiting # {}
  PROVE  /\ Oldest(Awaiting) \in 1 .. Len(rows) /\ rows[Oldest(Awaiting)].awaiting
         /\ \A k \in Awaiting : Oldest(Awaiting) <= k
<1>1. Len(rows) \in Nat
  BY TypesMeans, LenProperties
<1>2. Awaiting \subseteq Nat
  BY <1>1 DEF Awaiting
<1> QED
  BY <1>2, First DEF Awaiting

LEMMA FilesAre ==
  ASSUME Types, catchup.pc = "add"
  PROVE  /\ Oldest(catchup.files) \in catchup.files /\ Oldest(catchup.files) \in Shot
         /\ \A m \in catchup.files : Oldest(catchup.files) <= m
<1>1. catchup.files # {} /\ catchup.files \subseteq Nat /\ catchup.files \subseteq Shot
  BY TypesMeans, Bounds DEF Busy, Catchup
<1> QED
  BY <1>1, First

LEMMA AddNextIs ==
  ASSUME Types, AddNext
  PROVE  /\ catchup' \in Catchup /\ catchup'.skipped = catchup.skipped
         /\ catchup'.files = catchup.files \ {Oldest(catchup.files)}
         /\ catchup'.pc \in {"add", "no"}
         /\ (catchup'.pc = "add" <=> catchup'.files # {})
<1> DEFINE n == Oldest(catchup.files)
<1>1. n \in catchup.files /\ catchup \in Catchup /\ catchup.pc = "add"
  BY FilesAre, TypesMeans DEF AddNext
<1>2. catchup' = [catchup EXCEPT !.files = @ \ {n},
                                 !.pc = IF @ = "add" /\ catchup.files = {n} THEN "no" ELSE @]
  BY DEF AddNext
<1> HIDE DEF n
<1>3. catchup' \in Catchup
  BY <1>1, <1>2 DEF Catchup
<1>4. /\ catchup'.files = catchup.files \ {n} /\ catchup'.skipped = catchup.skipped
      /\ catchup'.pc = IF catchup.files = {n} THEN "no" ELSE "add"
  BY <1>1, <1>2 DEF Catchup
<1> QED
  BY <1>1, <1>3, <1>4 DEF n

LEMMA HeadIs ==
  ASSUME Types, queue # <<>>
  PROVE  /\ Head(queue) \in Event /\ Head(queue) = queue[1] /\ Len(queue) \in Nat \ {0}
         /\ Tail(queue) \in Seq(Event) /\ Len(Tail(queue)) = Len(queue) - 1
         /\ \A k \in 1 .. Len(Tail(queue)) : Tail(queue)[k] = queue[k + 1]
BY TypesMeans, HeadTailProperties, EmptySeq

(* A row whose file has come, or is no longer waited for, is a row. *)
LEMMA RowTypes ==
  ASSUME NEW r \in LogRow
  PROVE  /\ \A n \in Shot : [r EXCEPT !.file = n, !.awaiting = FALSE] \in LogRow
         /\ [r EXCEPT !.awaiting = FALSE] \in LogRow
BY DEF LogRow

LEMMA NewRowTypes ==
  ASSUME NEW n \in Shot
  PROVE  /\ Row("pulse", n, 0) \in LogRow /\ Row("file", n, n) \in LogRow
         /\ Row("catchup", n, n) \in LogRow
BY DEF Row, LogRow

(* What FileRow does to the rows, once for all the steps below. *)
LEMMA FileRowIs ==
  ASSUME Types, NEW n \in Shot, NEW z \in Size, FileRow(n, z)
  PROVE  /\ Awaiting # {} =>
              /\ rows' = [rows EXCEPT ![Oldest(Awaiting)] =
                            [rows[Oldest(Awaiting)] EXCEPT !.file = n, !.awaiting = FALSE]]
              /\ Len(rows') = Len(rows)
         /\ Awaiting = {} => rows' = Append(rows, Row("file", n, n))
         /\ rows' \in Seq(LogRow)
<1>1. CASE Awaiting # {}
  <2> DEFINE k == Oldest(Awaiting)
  <2>1. k \in 1 .. Len(rows) /\ rows \in Seq(LogRow)
    BY <1>1, AwaitingIs, TypesMeans
  <2>2. rows' = [rows EXCEPT ![k].file = n, ![k].awaiting = FALSE]
    BY <1>1 DEF FileRow
  <2> HIDE DEF k
  <2>3. rows[k] \in LogRow
    BY <2>1, ElementOfSeq
  <2>4. rows' = [rows EXCEPT ![k] = [rows[k] EXCEPT !.file = n, !.awaiting = FALSE]]
    <3>1. rows \in [1 .. Len(rows) -> LogRow]
      BY <2>1, LenProperties
    <3> QED BY <2>1, <2>2, <3>1
  <2>5. [rows[k] EXCEPT !.file = n, !.awaiting = FALSE] \in LogRow
    BY <2>3, RowTypes
  <2>6. rows' \in Seq(LogRow) /\ Len(rows') = Len(rows)
    BY <2>1, <2>4, <2>5, ExceptSeq
  <2> QED BY <1>1, <2>4, <2>6 DEF k
<1>2. CASE Awaiting = {}
  <2>1. rows' = Append(rows, Row("file", n, n)) /\ rows \in Seq(LogRow)
    BY <1>2, TypesMeans DEF FileRow
  <2> QED BY <1>2, <2>1, NewRowTypes, AppendProperties
<1> QED
  BY <1>1, <1>2

LEMMA WindowTypes ==
  ASSUME Types
  PROVE  /\ (HandleEvent => Types')
         /\ \A k \in 1 .. Len(rows) : ((WindowPasses(k) \/ EditRow(k)) => Types')
         /\ (StopAnswers => Types')
<1>1. ASSUME HandleEvent PROVE Types'
  <2>1. Head(queue) \in Event /\ queue' \in Seq(Event) /\ Len(queue') <= MaxQueue
    BY <1>1, HeadIs, TypesMeans, Bounds DEF HandleEvent
  <2>2. Head(queue).shot \in Shot /\ Head(queue).size \in Size
    BY <2>1 DEF Event
  <2>3. rows' \in Seq(LogRow) /\ mark' \in Nat
    <3> DEFINE e == Head(queue)
    <3>1. CASE ~on
      BY <1>1, <3>1, TypesMeans DEF HandleEvent, Ignored
    <3>2. CASE on /\ e.type = "pulse"
      <4>1. rows' = Append(rows, Row("pulse", e.shot, 0)) /\ mark' = mark
        BY <1>1, <3>2 DEF HandleEvent, PulseRow
      <4>2. Row("pulse", e.shot, 0) \in LogRow
        BY <2>2, NewRowTypes
      <4> QED BY <4>1, <4>2, TypesMeans, AppendProperties
    <3>3. CASE on /\ e.type # "pulse"
      <4>1. FileRow(e.shot, e.size)
        BY <1>1, <3>3 DEF HandleEvent
      <4>2. mark' = Later(MtimeAt(e.shot, e.size))
        BY <4>1 DEF FileRow
      <4> HIDE DEF e
      <4> QED BY <2>2, <4>1, <4>2, FileRowIs, LaterIs DEF e
    <3> QED BY <3>1, <3>2, <3>3
  <2> QED BY <1>1, <2>1, <2>3, TypesMeans, TypesNext DEF HandleEvent, recorder, settle, Busy
<1>2. ASSUME NEW k \in 1 .. Len(rows), WindowPasses(k) \/ EditRow(k) PROVE Types'
  <2>1. rows' = [rows EXCEPT ![k] = [rows[k] EXCEPT !.awaiting = FALSE]]
    BY <1>2 DEF WindowPasses, EditRow
  <2>2. rows \in Seq(LogRow) /\ rows[k] \in LogRow
    BY TypesMeans, ElementOfSeq
  <2>3. rows' \in Seq(LogRow)
    BY <2>1, <2>2, RowTypes, ExceptSeq
  <2> QED BY <1>2, <2>3, TypesMeans, TypesNext DEF WindowPasses, EditRow, recorder, settle, Busy
<1>3. ASSUME StopAnswers PROVE Types'
  BY <1>3, TypesMeans, TypesNext DEF StopAnswers, recorder, settle, Busy
<1> QED
  BY <1>1, <1>2, <1>3

LEMMA SwitchTypes ==
  ASSUME Types
  PROVE  /\ (StopClick => Types') /\ (StartClick => Types') /\ (SaveClick => Types')
         /\ (Scan => Types')
         /\ \A add \in SUBSET catchup.files : (Choose(add) => Types')
         /\ (AddNext => Types')
<1>1. ASSUME StopClick PROVE Types'
  BY <1>1, ClearedTypes, TypesMeans, TypesNext DEF StopClick, window, Busy
<1>2. ASSUME StartClick PROVE Types'
  <2>1. catchup' \in Catchup /\ catchup'.pc = "scan"
    BY <1>2, TypesMeans DEF StartClick, Catchup
  <2>2. starts' \in 0 .. MaxStarts
    BY <1>2, TypesMeans, Bounds DEF StartClick
  <2> QED BY <1>2, <2>1, <2>2, ClearedTypes, TypesMeans, TypesNext DEF StartClick, Busy
<1>3. ASSUME SaveClick PROVE Types'
  <2>1. starts' \in 0 .. MaxStarts
    BY <1>3, TypesMeans, Bounds DEF SaveClick
  <2> QED BY <1>3, <2>1, ClearedTypes, TypesMeans, TypesNext DEF SaveClick, window, Busy
<1>4. ASSUME Scan PROVE Types'
  <2>1. catchup' \in Catchup /\ catchup'.pc # "add"
    BY <1>4, TypesMeans DEF Scan, Catchup, Offered
  <2> QED BY <1>4, <2>1, TypesMeans, TypesNext DEF Scan, recorder, settle, Busy
<1>5. ASSUME NEW add \in SUBSET catchup.files, Choose(add) PROVE Types'
  <2>1. catchup' \in Catchup /\ (catchup'.pc = "add" => catchup'.files # {})
    BY <1>5, TypesMeans DEF Choose, Catchup
  <2> QED BY <1>5, <2>1, TypesMeans, TypesNext DEF Choose, recorder, settle, Busy
<1>6. ASSUME AddNext PROVE Types'
  <2> DEFINE n == Oldest(catchup.files)
  <2>1. n \in Shot
    BY <1>6, FilesAre DEF AddNext
  <2>2. rows' = Append(rows, Row("catchup", n, n)) /\ mark' = Later(Mtime(n))
    BY <1>6 DEF AddNext
  <2>3. catchup' \in Catchup /\ (catchup'.pc = "add" => catchup'.files # {})
    BY <1>6, AddNextIs DEF AddNext
  <2> HIDE DEF n
  <2>4. rows' \in Seq(LogRow) /\ mark' \in Nat
    BY <2>1, <2>2, TypesMeans, NewRowTypes, AppendProperties, LaterIs, MtimeNow
  <2> QED BY <1>6, <2>3, <2>4, TypesMeans, TypesNext DEF AddNext, recorder, settle, Busy
<1> QED
  BY <1>1, <1>2, <1>3, <1>4, <1>5, <1>6

LEMMA StepTypes == Types /\ [Next]_vars => Types'
<1> SUFFICES ASSUME Types, [Next]_vars PROVE Types'
  OBVIOUS
<1>1. CASE Recorder
  BY <1>1, RecorderTypes DEF Recorder
<1>2. CASE FolderSource
  BY <1>2, FolderTypes DEF FolderSource
<1>3. CASE User
  BY <1>3, SwitchTypes, WindowTypes DEF User
<1>4. CASE UNCHANGED vars
  BY <1>4, TypesMeans, TypesNext DEF vars, Busy
<1> QED
  BY <1>1, <1>2, <1>3, <1>4, TickTypes, WindowTypes, SwitchTypes DEF Next

(* Every variable has its type. *)
THEOREM ShotRowsTypes == Spec => []TypeOK
<1>1. Types => TypeOK
  BY DEF Types
<1> QED
  BY <1>1, InitTypes, StepTypes, PTL DEF Spec
-----------------------------------------------------------------------------
(* The file that is announced *)

(* A file has one timer, the one the map knows; a stat under way is known  *)
(* to no map.                                                              *)
OneTimer ==
    /\ \A i \in Timer : timer[i].pc \in {"armed", "due"} => slot[timer[i].file] = i
    /\ \A i, j \in Timer :
          timer[i].pc # "free" /\ timer[j].pc # "free" /\ timer[i].file = timer[j].file => i = j

(* A file has a size once it is begun, and what was seen of it is not more *)
(* than there is.                                                          *)
Landed ==
    \A n \in Shot :
        /\ shot[n].size > 0 <=> shot[n].state \in {"writing", "done"}
        /\ sizes[n] <= shot[n].size

(* A file that is written is as large as it was seen only until time goes  *)
(* on, unless its recorder stalled: no second look has begun.              *)
Fresh ==
    \A n \in Shot :
        shot[n].state = "writing" /\ sizes[n] = shot[n].size /\ n \notin still =>
            \A i \in Timer : timer[i].pc # "free" /\ timer[i].file = n => timer[i].pc = "armed"

Unstalled == "stall" \notin Habits => still = {}

Settled == Types /\ OneTimer /\ Landed /\ Fresh /\ Unstalled

LEMMA InitSettled == Init => Settled
<1> SUFFICES ASSUME Init PROVE OneTimer /\ Landed /\ Fresh
  BY InitTypes DEF Settled, Unstalled, Init
<1>1. \A i \in Timer : timer[i].pc = "free"
  BY DEF Init, NoTimer
<1> QED
  BY <1>1 DEF Init, OneTimer, Landed, Fresh

LEMMA RecorderSettled ==
  ASSUME Settled, Recorder
  PROVE  OneTimer' /\ Landed' /\ Fresh'
<1>1. PICK n \in Shot :
        \/ \E heard, saved \in BOOLEAN : Fire(n, heard, saved)
        \/ Create(n) \/ Touch(n) \/ Close(n)
  BY DEF Recorder
<1>2. /\ timer' = timer /\ slot' = slot /\ sizes' = sizes /\ still' = still
      /\ shot \in [Shot -> ShotState]
  BY <1>1, TypesMeans DEF Fire, Create, Touch, Close, settle, Settled
<1>3. OneTimer'
  BY <1>2 DEF Settled, OneTimer
<1>4. ASSUME NEW heard \in BOOLEAN, NEW saved \in BOOLEAN, Fire(n, heard, saved)
      PROVE  Landed' /\ Fresh'
  BY <1>2, <1>4 DEF Settled, Landed, Fresh, Fire, ShotState
<1>5. ASSUME Create(n) PROVE Landed' /\ Fresh'
  <2>1. \A m \in Shot : m # n => shot'[m] = shot[m]
    BY <1>2, <1>5 DEF Create
  <2>2. shot'[n].size = 1 /\ shot'[n].state = "writing" /\ shot[n].size = 0 /\ sizes[n] = 0
    <3>0. sizes[n] \in Nat /\ shot[n].size \in Nat
      BY <1>2, TypesMeans, Bounds DEF Settled, ShotState
    <3>1. ~(shot[n].size > 0) /\ sizes[n] <= shot[n].size
      BY <1>5 DEF Settled, Landed, Create
    <3> QED BY <1>2, <1>5, <3>0, <3>1 DEF Create, ShotState
  <2> QED BY <1>2, <2>1, <2>2 DEF Settled, Landed, Fresh
<1>6. ASSUME Touch(n) PROVE Landed' /\ Fresh'
  BY <1>2, <1>6 DEF Settled, Landed, Fresh, Touch
<1>7. ASSUME Close(n) PROVE Landed' /\ Fresh'
  <2>1. \A m \in Shot : m # n => shot'[m] = shot[m]
    BY <1>2, <1>7 DEF Close
  <2>2. shot'[n].size = shot[n].size /\ shot'[n].state = "done" /\ shot[n].state = "writing"
    BY <1>2, <1>7 DEF Close, ShotState
  <2> QED BY <1>2, <2>1, <2>2 DEF Settled, Landed, Fresh
<1> QED
  BY <1>1, <1>3, <1>4, <1>5, <1>6, <1>7

LEMMA ConsiderSettled ==
  ASSUME Settled, "burst" \notin Habits, NEW n \in Shot, NEW i \in Timer, Consider(n, i)
  PROVE  OneTimer' /\ Landed' /\ Fresh'
<1>1. /\ timer \in [Timer -> Timers] /\ slot \in [Shot -> 0 .. MaxTimer] /\ 0 \notin Timer
      /\ \A j \in Timer : timer[j].pc \in Pc
      /\ \A j \in Timer : timer[j].pc # "free" => timer[j].file \in Shot
  BY TypesMeans, Bounds DEF Settled, Timers, Busy
<1>2. /\ shot' = shot /\ still' = still /\ sizes' = sizes /\ slot' = [slot EXCEPT ![n] = i]
      /\ timer[i].pc = "free"
      /\ \A j \in Timer : timer[j].pc = "stat" => timer[j].file # n
  BY DEF Consider, window
<1>3. /\ timer'[i] = [pc |-> "armed", file |-> n]
      /\ \A j \in Timer : j # i => timer'[j] = IF j = slot[n] THEN NoTimer ELSE timer[j]
  BY DEF Consider
<1>4. \A j \in Timer : j # i /\ timer'[j].pc # "free" =>
        timer'[j] = timer[j] /\ timer[j].file # n
  <2> SUFFICES ASSUME NEW j \in Timer, j # i, timer'[j].pc # "free"
               PROVE  timer'[j] = timer[j] /\ timer[j].file # n
    OBVIOUS
  <2>1. timer'[j] = timer[j] /\ j # slot[n]
    BY <1>3 DEF NoTimer
  <2>2. timer[j].pc \in {"armed", "due", "stat"}
    BY <1>1, <2>1 DEF Pc
  <2> QED BY <1>2, <2>1, <2>2 DEF Settled, OneTimer
<1>5. OneTimer'
  <2>1. ASSUME NEW j \in Timer, timer'[j].pc \in {"armed", "due"}
        PROVE  slot'[timer'[j].file] = j
    <3>1. CASE j = i
      BY <1>1, <1>2, <1>3, <3>1
    <3>2. CASE j # i
      <4>1. timer'[j] = timer[j] /\ timer[j].file # n /\ timer[j].file \in Shot
        BY <1>1, <1>4, <2>1, <3>2
      <4>2. slot[timer[j].file] = j
        BY <2>1, <4>1 DEF Settled, OneTimer
      <4> QED BY <1>1, <1>2, <4>1, <4>2
    <3> QED BY <3>1, <3>2
  <2>2. ASSUME NEW j \in Timer, NEW k \in Timer, timer'[j].pc # "free", timer'[k].pc # "free",
               timer'[j].file = timer'[k].file
        PROVE  j = k
    BY <1>3, <1>4, <2>2 DEF Settled, OneTimer
  <2> QED BY <2>1, <2>2 DEF OneTimer
<1>6. Landed'
  BY <1>2 DEF Settled, Landed
<1>7. Fresh'
  BY <1>2, <1>3, <1>4 DEF Settled, Fresh
<1> QED
  BY <1>5, <1>6, <1>7

LEMMA SettleSettled ==
  ASSUME Settled, NEW i \in Timer, SettleBegins(i) \/ SettleResumes(i) \/ SettleFails(i)
  PROVE  OneTimer' /\ Landed' /\ Fresh'
<1> DEFINE n == timer[i].file
<1>1. /\ timer \in [Timer -> Timers] /\ slot \in [Shot -> 0 .. MaxTimer]
      /\ sizes \in [Shot -> Size] /\ shot \in [Shot -> ShotState]
      /\ \A j \in Timer : timer[j].pc # "free" => timer[j].file \in Shot
  BY TypesMeans DEF Settled, Busy
<1>2. timer[i].pc # "free" /\ n \in Shot /\ shot' = shot /\ still' = still
  BY <1>1 DEF SettleBegins, SettleResumes, SettleFails, recorder
<1>3. \A j \in Timer : j # i /\ timer[j].pc # "free" => timer[j].file # n
  BY <1>2 DEF Settled, OneTimer
<1>4. CASE SettleBegins(i)
  <2>1. /\ slot' = [slot EXCEPT ![n] = 0] /\ sizes' = sizes /\ timer[i].pc = "due"
        /\ \A j \in Timer : j # i => timer'[j] = timer[j]
        /\ timer'[i].pc \in {"stat", "free"}
        /\ timer'[i].pc = "stat" => timer'[i].file = n
    BY <1>1, <1>4 DEF SettleBegins, NoTimer, Timers
  <2> HIDE DEF n
  <2>2. OneTimer'
    BY <1>1, <1>3, <2>1 DEF Settled, OneTimer
  <2>3. Fresh'
    BY <1>2, <2>1 DEF Settled, Fresh, n
  <2>4. Landed'
    BY <1>2, <2>1 DEF Settled, Landed
  <2> QED BY <2>2, <2>3, <2>4
<1>5. ASSUME slot' = slot, sizes' = [sizes EXCEPT ![n] = 0],
             timer' = [timer EXCEPT ![i] = NoTimer]
      PROVE  OneTimer' /\ Landed' /\ Fresh'
  <2> HIDE DEF n
  <2>1. timer'[i].pc = "free" /\ \A j \in Timer : j # i => timer'[j] = timer[j]
    BY <1>1, <1>5 DEF NoTimer
  <2>2. OneTimer'
    BY <1>5, <2>1 DEF Settled, OneTimer
  <2>3. Landed'
    BY <1>1, <1>2, <1>5, Bounds DEF Settled, Landed, ShotState
  <2>4. Fresh'
    <3>1. \A m \in Shot : m # n => sizes'[m] = sizes[m]
      BY <1>1, <1>5
    <3>2. ASSUME shot[n].state = "writing" PROVE shot[n].size # 0
      BY <1>2, <3>2 DEF Settled, Landed
    <3>3. sizes'[n] = 0
      BY <1>1, <1>2, <1>5
    <3> QED BY <1>2, <2>1, <3>1, <3>2, <3>3 DEF Settled, Fresh
  <2> QED BY <2>2, <2>3, <2>4
<1>6. CASE SettleResumes(i)
  <2>1. IF Settles(n) THEN Emits(n, i) ELSE LooksAgain(n, i)
    BY <1>6 DEF SettleResumes
  <2>2. CASE Emits(n, i)
    BY <1>5, <2>2 DEF Emits
  <2>3. CASE LooksAgain(n, i)
    <3>1. /\ sizes' = [sizes EXCEPT ![n] = shot[n].size] /\ slot' = [slot EXCEPT ![n] = i]
          /\ \A j \in Timer : j # i => timer'[j] = timer[j]
          /\ timer'[i].pc = "armed" /\ timer'[i].file = n
      BY <1>1, <2>3 DEF LooksAgain, Timers
    <3> HIDE DEF n
    <3>2. OneTimer'
      BY <1>1, <1>2, <1>3, <3>1 DEF Settled, OneTimer
    <3>3. Landed'
      BY <1>1, <1>2, <3>1, Bounds DEF Settled, Landed, ShotState
    <3>4. Fresh'
      BY <1>1, <1>2, <1>3, <3>1 DEF Settled, Fresh
    <3> QED BY <3>2, <3>3, <3>4
  <2> QED BY <2>1, <2>2, <2>3
<1>7. CASE SettleFails(i)
  BY <1>5, <1>7 DEF SettleFails
<1> QED
  BY <1>4, <1>6, <1>7

LEMMA TickSettled ==
  ASSUME Settled, Tick
  PROVE  OneTimer' /\ Landed' /\ Fresh'
<1>1. /\ \A i \in Timer : timer'[i].file = timer[i].file
                          /\ (timer'[i].pc = "free" <=> timer[i].pc = "free")
                          /\ timer[i].pc \in {"free", "armed"}
      /\ slot' = slot /\ sizes' = sizes
  BY TypesMeans DEF Settled, Tick, Timers, Pc
<1>2. OneTimer'
  BY <1>1 DEF Settled, OneTimer
<1>3. /\ \A n \in Shot : shot[n].state # "writing" \/ n \in still' => shot'[n] = shot[n]
      /\ \A n \in Shot : shot[n].state = "writing" /\ n \notin still' =>
            shot'[n].state = "writing" /\ shot'[n].size = shot[n].size + 1
      /\ \A n \in Shot : shot[n].size \in Nat /\ sizes[n] \in Nat
  <2>1. Types /\ shot \in [Shot -> ShotState]
    BY TypesMeans DEF Settled
  <2> QED BY <2>1, TickIs, TypesMeans, Bounds DEF ShotState
<1>4. Landed'
  BY <1>1, <1>3 DEF Settled, Landed
<1>5. Fresh'
  BY <1>1, <1>3 DEF Settled, Landed, Fresh
<1> QED
  BY <1>2, <1>4, <1>5

LEMMA ClearedSettled ==
  ASSUME Settled, Cleared, shot' = shot, still' = still
  PROVE  OneTimer' /\ Landed' /\ Fresh'
<1>1. /\ \A i \in Timer : timer'[i].pc # "free" =>
            timer'[i] = timer[i] /\ ~ \E n \in Shot : slot[n] = i
      /\ sizes' = [n \in Shot |-> 0]
  BY DEF Cleared, NoTimer
<1>2. \A i \in Timer : timer'[i].pc # "free" =>
        timer'[i] = timer[i] /\ timer[i].pc \notin {"armed", "due"}
  BY <1>1, TypesMeans DEF Settled, OneTimer, Busy
<1>3. OneTimer'
  BY <1>2 DEF Settled, OneTimer
<1>4. Landed'
  BY <1>1, TypesMeans, Bounds DEF Settled, Landed, ShotState
<1>5. Fresh'
  BY <1>1 DEF Settled, Landed, Fresh
<1> QED
  BY <1>3, <1>4, <1>5

LEMMA UnstalledNext ==
  ASSUME Types, Unstalled, [Next]_vars
  PROVE  Unstalled'
<1>1. CASE Tick
  BY <1>1, TickIs DEF Unstalled
<1>2. CASE still' = still
  BY <1>2 DEF Unstalled
<1>3. CASE Recorder
  BY <1>2, <1>3 DEF Recorder, Fire, Create, Touch, Close
<1>4. CASE FolderSource
  BY <1>2, <1>4 DEF FolderSource, Consider, SettleBegins, SettleResumes, SettleFails, recorder
<1>5. CASE User
  BY <1>2, <1>5 DEF User, StartClick, StopClick, SaveClick, Choose, EditRow, recorder
<1>6. CASE \/ UNCHANGED vars \/ HandleEvent \/ StopAnswers \/ Scan \/ AddNext
           \/ \E k \in 1 .. Len(rows) : WindowPasses(k)
  BY <1>2, <1>6 DEF vars, HandleEvent, StopAnswers, Scan, AddNext, WindowPasses, recorder
<1> QED
  BY <1>1, <1>3, <1>4, <1>5, <1>6 DEF Next

LEMMA StepSettled ==
  ASSUME "burst" \notin Habits
  PROVE  Settled /\ [Next]_vars => Settled'
<1> SUFFICES ASSUME Settled, [Next]_vars PROVE OneTimer' /\ Landed' /\ Fresh'
  <2>1. ASSUME Settled, [Next]_vars PROVE Unstalled'
    BY <2>1, UnstalledNext DEF Settled
  <2> QED BY <2>1, StepTypes DEF Settled
<1>1. CASE Recorder
  BY <1>1, RecorderSettled
<1>2. CASE FolderSource
  BY <1>2, ConsiderSettled, SettleSettled DEF FolderSource
<1>3. CASE StartClick \/ StopClick \/ SaveClick
  <2>1. Cleared /\ shot' = shot /\ still' = still
    BY <1>3 DEF StartClick, StopClick, SaveClick
  <2> QED BY <2>1, ClearedSettled
<1>4. CASE Tick
  BY <1>4, TickSettled
<1>5. CASE UNCHANGED <<recorder, settle>>
  BY <1>5 DEF Settled, OneTimer, Landed, Fresh, recorder, settle
<1>6. CASE UNCHANGED vars \/ HandleEvent \/ StopAnswers \/ Scan \/ AddNext
  BY <1>5, <1>6 DEF vars, HandleEvent, StopAnswers, Scan, AddNext, recorder, settle
<1>7. ASSUME NEW k \in 1 .. Len(rows), WindowPasses(k) \/ EditRow(k)
      PROVE  OneTimer' /\ Landed' /\ Fresh'
  BY <1>5, <1>7 DEF WindowPasses, EditRow, recorder, settle
<1>8. ASSUME NEW add \in SUBSET catchup.files, Choose(add)
      PROVE  OneTimer' /\ Landed' /\ Fresh'
  BY <1>5, <1>8 DEF Choose, recorder, settle
<1>9. CASE User
  BY <1>3, <1>7, <1>8, <1>9 DEF User
<1> QED
  BY <1>1, <1>2, <1>4, <1>6, <1>7, <1>9 DEF Next

(* A file that is announced is closed or has kept its size for a whole     *)
(* settle period, whatever the order of its events, the debounce and the   *)
(* checks of its size, whichever of them fail, and however the watch is    *)
(* stopped, started and saved, as long as no event arrives while the file  *)
(* is being stat'ed.                                                       *)
THEOREM AnnouncedWhole ==
  ASSUME "burst" \notin Habits
  PROVE  Spec => WholeFile
<1> DEFINE Announces == \A n \in Shot : emitted'[n] \notin {0, emitted[n]} =>
                             shot[n].state = "done" \/ n \in still
<1>1. Settled /\ [Next]_vars => [Announces]_vars
  <2> SUFFICES ASSUME Settled, Next PROVE Announces
    OBVIOUS
  <2>1. emitted \in [Shot -> Size]
    BY TypesMeans DEF Settled
  <2>2. CASE emitted' = emitted
    BY <2>2
  <2>3. CASE Cleared
    BY <2>3 DEF Cleared
  <2>4. ASSUME NEW i \in Timer, SettleResumes(i) PROVE Announces
    <3> DEFINE n == timer[i].file
    <3>1. timer[i].pc = "stat" /\ n \in Shot
      BY <2>4, TypesMeans DEF SettleResumes, Settled, Busy
    <3>2. CASE ~Settles(n)
      BY <2>2, <2>4, <3>2 DEF SettleResumes, LooksAgain
    <3>3. CASE Settles(n)
      <4>1. Emits(n, i) /\ sizes[n] = shot[n].size
        BY <2>4, <3>3 DEF SettleResumes, Settles
      <4>2. shot[n].size # 0 => shot[n].state = "done" \/ n \in still
        <5>1. shot[n].size \in Nat
          BY <3>1, TypesMeans, Bounds DEF Settled, ShotState
        <5>2. shot[n].size > 0 => shot[n].state \in {"writing", "done"}
          BY <3>1 DEF Settled, Landed
        <5>3. shot[n].state # "writing" \/ n \in still
          BY <3>1, <4>1 DEF Settled, Fresh
        <5> QED BY <5>1, <5>2, <5>3
      <4>3. \A m \in Shot : m # n => emitted'[m] = emitted[m]
        BY <2>1, <4>1 DEF Emits
      <4>4. emitted'[n] \in {emitted[n], shot[n].size}
        BY <2>1, <3>1, <4>1 DEF Emits
      <4> HIDE DEF n
      <4> QED BY <4>2, <4>3, <4>4
    <3> QED BY <3>2, <3>3
  <2>5. CASE Recorder
    BY <2>2, <2>5 DEF Recorder, Fire, Create, Touch, Close, settle
  <2>6. ASSUME NEW i \in Timer,
               SettleBegins(i) \/ SettleFails(i) \/ \E n \in Shot : Consider(n, i)
        PROVE  Announces
    BY <2>2, <2>6 DEF SettleBegins, SettleFails, Consider
  <2>7. CASE User
    BY <2>2, <2>3, <2>7 DEF User, StartClick, StopClick, SaveClick, Choose, EditRow, settle
  <2>8. CASE \/ Tick \/ HandleEvent \/ StopAnswers \/ Scan \/ AddNext
             \/ \E k \in 1 .. Len(rows) : WindowPasses(k)
    BY <2>2, <2>8 DEF Tick, HandleEvent, StopAnswers, Scan, AddNext, WindowPasses, settle
  <2> QED BY <2>4, <2>5, <2>6, <2>7, <2>8 DEF Next, FolderSource
<1> QED
  BY <1>1, InitSettled, StepSettled, PTL DEF Spec, WholeFile
-----------------------------------------------------------------------------
(* The files the catch-up offers *)

Begun == {n \in Shot : shot[n].size > 0}
Writing == {n \in Shot : shot[n].state = "writing"}
Before(m) == {n \in Begun : n < m}

(* What the log has seen, and what is on its way there. *)
Covered == (Logged \ {0}) \cup catchup.skipped \cup catchup.files
Known == Covered \cup Queued

(* Files are begun one after the other. *)
InOrder ==
    /\ \A n \in Shot : shot[n].size > 0 <=> shot[n].state \in {"writing", "done"}
    /\ \A m \in Begun : \A n \in 1 .. m - 1 : shot[n].state \in {"done", "unsaved"}

(* The timer a name maps to is the name's and has not fired. *)
Slots ==
    \A n \in Shot : slot[n] # 0 =>
        timer[slot[n]].pc \in {"armed", "due"} /\ timer[slot[n]].file = n

(* Only a file there is settles, is announced or is offered. *)
Real == Queued \cup Settling \cup catchup.files \subseteq Begun

(* The mark is the mtime a file has, or has had. *)
MarkIs == mark = 0 \/ \E m \in Begun, z \in Size : mark <= MtimeAt(m, z)

(* A row that waits has no file. *)
Unfiled == \A k \in 1 .. Len(rows) : rows[k].awaiting => rows[k].file = 0

(* The folder is at rest until its scan is over. *)
Scanning ==
    /\ catchup.pc \in {"no", "scan"} => catchup.files = {}
    /\ catchup.pc = "scan" => Quiet /\ \A n \in Shot : emitted[n] = 0

Listens == watch => on

(* What the log has not seen is later than the mark: what NothingMissed    *)
(* says, without the files on their way.                                   *)
MarkKept == \A n \in Begun : n \in Covered \/ Mtime(n) > mark

(* What may raise the mark comes after what is earlier: an offer, an event *)
(* before the log, a file that settles, a file that is written.            *)
Offers == \A m \in catchup.files : Before(m) \subseteq Covered
QueueOrder ==
    on => \A k \in 1 .. Len(queue) : queue[k].type = "file" =>
        \A n \in Begun : n < queue[k].shot =>
            \/ n \in Covered
            \/ \E j \in 1 .. k - 1 : queue[j].type = "file" /\ queue[j].shot = n
SettleOrder ==
    /\ on => \A m \in Settling : Before(m) \subseteq Known
    /\ watch => \A m \in Writing : Before(m) \subseteq Known

(* A watch that runs loses no file. *)
Watched ==
    watch =>
        /\ catchup.pc # "scan" => Begun \subseteq Known \cup Settling \cup Writing
        /\ \A n \in Shot : emitted[n] # 0 => n \in Known

World == InOrder /\ Slots /\ Real /\ Unfiled /\ Scanning /\ Listens
Order == MarkIs /\ MarkKept /\ Offers /\ QueueOrder /\ SettleOrder /\ Watched
Kept == Types /\ World /\ Order

LEMMA InitKept == Init => Kept
<1> SUFFICES ASSUME Init PROVE World /\ Order
  BY InitTypes DEF Kept
<1>1. Begun = {} /\ Writing = {} /\ Landing = {}
  BY DEF Init, Begun, Writing, Landing
<1>2. Queued = {} /\ Settling = {} /\ queue = <<>>
  BY DEF Init, Queued, Settling, NoTimer
<1>3. catchup.files = {} /\ catchup.pc = "no" /\ mark = 0 /\ rows = <<>> /\ ~watch /\ ~on
  BY DEF Init, NoCatchup
<1>4. InOrder /\ Slots
  BY <1>1 DEF Init, InOrder, Slots
<1>5. Real /\ Unfiled /\ Scanning /\ Listens
  BY <1>1, <1>2, <1>3 DEF Real, Unfiled, Scanning, Listens, Quiet
<1>6. Order
  BY <1>1, <1>2, <1>3 DEF Order, MarkIs, MarkKept, Offers, QueueOrder, SettleOrder, Watched
<1> QED
  BY <1>4, <1>5, <1>6 DEF World

(* One by one, for the steps. *)
LEMMA KeptNext ==
  ASSUME InOrder', Slots', Real', Unfiled', Scanning', Listens',
         MarkIs', MarkKept', Offers', QueueOrder', SettleOrder', Watched'
  PROVE  World' /\ Order'
BY DEF World, Order

LEMMA KeptMeans ==
  Kept <=>
    /\ Types /\ InOrder /\ Slots /\ Real /\ Unfiled /\ Scanning /\ Listens
    /\ MarkIs /\ MarkKept /\ Offers /\ QueueOrder /\ SettleOrder /\ Watched
BY DEF Kept, World, Order

(* The files in the queue, by its last event. *)
LEMMA QueuedAppend ==
  ASSUME Types, NEW e \in Event, queue' = Append(queue, e)
  PROVE  Queued' = IF e.type = "file" THEN Queued \cup {e.shot} ELSE Queued
<1>1. /\ queue \in Seq(Event) /\ Len(queue') = Len(queue) + 1 /\ Len(queue) \in Nat
      /\ \A k \in 1 .. Len(queue) : queue'[k] = queue[k]
      /\ queue'[Len(queue) + 1] = e
  BY TypesMeans, AppendProperties, LenProperties
<1>2. 1 .. Len(queue') = (1 .. Len(queue)) \cup {Len(queue) + 1}
  BY <1>1
<1> QED
  BY <1>1, <1>2 DEF Queued

(* ... and by its first one. *)
LEMMA QueuedTail ==
  ASSUME Types, queue # <<>>, queue' = Tail(queue)
  PROVE  Queued = IF Head(queue).type = "file" THEN Queued' \cup {Head(queue).shot} ELSE Queued'
<1> DEFINE L == Len(queue)
<1>1. /\ L \in Nat \ {0} /\ Len(queue') = L - 1 /\ Head(queue) = queue[1]
      /\ \A k \in 1 .. L - 1 : queue'[k] = queue[k + 1]
  BY HeadIs
<1>2. \A k \in 2 .. L : k - 1 \in 1 .. L - 1 /\ queue'[k - 1] = queue[k]
  <2> SUFFICES ASSUME NEW k \in 2 .. L PROVE k - 1 \in 1 .. L - 1 /\ queue'[k - 1] = queue[k]
    OBVIOUS
  <2>1. k - 1 \in 1 .. L - 1 /\ (k - 1) + 1 = k
    BY <1>1
  <2> QED BY <1>1, <2>1
<1>3. 1 .. L = {1} \cup 2 .. L /\ \A k \in 1 .. L - 1 : k + 1 \in 2 .. L
  BY <1>1
<1>4. \A n : n \in Queued' <=> \E k \in 1 .. L - 1 : queue'[k].type = "file" /\ queue'[k].shot = n
  BY <1>1 DEF Queued
<1>5. \A n : n \in Queued <=> \E k \in 1 .. L : queue[k].type = "file" /\ queue[k].shot = n
  BY DEF Queued
<1> HIDE DEF L
<1>6. ASSUME NEW n \in Queued'
      PROVE  n \in Queued
  <2>1. PICK k \in 1 .. L - 1 : queue'[k].type = "file" /\ queue'[k].shot = n
    BY <1>4
  <2> QED BY <1>1, <1>3, <1>5, <2>1
<1>7. ASSUME NEW n \in Queued
      PROVE  n \in Queued' \/ (Head(queue).type = "file" /\ n = Head(queue).shot)
  <2>1. PICK k \in 1 .. L : queue[k].type = "file" /\ queue[k].shot = n
    BY <1>5
  <2>2. CASE k = 1
    BY <1>1, <2>1, <2>2
  <2>3. CASE k # 1
    <3> DEFINE l == k - 1
    <3>1. k \in 2 .. L
      BY <1>1, <2>1, <2>3
    <3>2. l \in 1 .. L - 1 /\ queue'[l] = queue[k]
      BY <1>2, <3>1
    <3> HIDE DEF l
    <3>3. queue'[l].type = "file" /\ queue'[l].shot = n
      BY <2>1, <3>2
    <3>4. n \in Queued'
      BY <1>4, <3>2, <3>3
    <3> QED BY <3>4
  <2> QED BY <2>2, <2>3
<1>8. Head(queue).type = "file" => Head(queue).shot \in Queued
  BY <1>1, <1>3, <1>5
<1> QED
  BY <1>6, <1>7, <1>8

(* Steps of the folder source, and what clears it. *)
LEMMA FolderFrame ==
  ASSUME Kept, Slots', UNCHANGED <<shot, rows, mark, catchup, on>>,
         watch' => watch, Settling' \subseteq Settling,
         \/ queue' = queue
         \/ \E n \in Settling, z \in Size :
              queue' = Append(queue, [type |-> "file", shot |-> n, size |-> z]),
         watch' => \A n \in Settling \ Settling' : n \in Known',
         watch' => \A n \in Shot : emitted'[n] # 0 => n \in Known',
         catchup.pc = "scan" => queue' = queue /\ \A n \in Shot : emitted'[n] = 0
  PROVE  World' /\ Order'
<1>1. /\ Begun' = Begun /\ Writing' = Writing /\ Covered' = Covered /\ Logged' = Logged
      /\ Landing' = Landing
      /\ \A n \in Shot : Mtime(n)' = Mtime(n)
  BY DEF Begun, Writing, Covered, Logged, Mtime, MtimeAt, Landing
<1>2. \A m \in Shot : Before(m)' = Before(m)
  BY <1>1 DEF Before
<1>3. Types /\ Settling \subseteq Begun /\ Begun \subseteq Shot /\ queue \in Seq(Event)
      /\ Queued \subseteq Begun
  BY KeptMeans, TypesMeans DEF Real, Begun
<1>4. Queued \subseteq Queued' /\ Queued' \subseteq Queued \cup Settling
  <2>1. CASE queue' = queue
    BY <2>1 DEF Queued
  <2>2. ASSUME NEW n \in Settling, NEW z \in Size,
               queue' = Append(queue, [type |-> "file", shot |-> n, size |-> z])
        PROVE  Queued' = Queued \cup {n}
    <3>1. [type |-> "file", shot |-> n, size |-> z] \in Event
      BY <1>3 DEF Event
    <3> QED BY <1>3, <2>2, <3>1, QueuedAppend
  <2> QED BY <2>1, <2>2
<1>5. Known \subseteq Known'
  BY <1>1, <1>4 DEF Known
<1>6. Real' /\ InOrder' /\ Unfiled' /\ Listens' /\ MarkIs' /\ MarkKept' /\ Offers'
  <2>1. Real'
    BY <1>1, <1>3, <1>4, KeptMeans DEF Real
  <2>2. InOrder' /\ Unfiled' /\ Listens'
    BY <1>1, KeptMeans DEF InOrder, Unfiled, Listens
  <2>3. MarkIs' /\ MarkKept'
    BY <1>1, <1>3, KeptMeans DEF MarkIs, MarkKept
  <2>4. Offers'
    BY <1>1, <1>2, KeptMeans, TypesMeans DEF Offers, Catchup
  <2> QED BY <2>1, <2>2, <2>3, <2>4
<1>7. Scanning'
  BY <1>1, KeptMeans DEF Scanning, Quiet
<1>8. QueueOrder'
  <2> SUFFICES ASSUME on, NEW k \in 1 .. Len(queue'), queue'[k].type = "file",
                      NEW n \in Begun, n < queue'[k].shot
               PROVE  \/ n \in Covered
                      \/ \E j \in 1 .. k - 1 : queue'[j].type = "file" /\ queue'[j].shot = n
    BY <1>1 DEF QueueOrder
  <2>1. CASE queue' = queue
    BY <2>1, KeptMeans DEF QueueOrder
  <2>2. ASSUME NEW m \in Settling, NEW z \in Size,
               queue' = Append(queue, [type |-> "file", shot |-> m, size |-> z])
        PROVE  \/ n \in Covered
               \/ \E j \in 1 .. k - 1 : queue'[j].type = "file" /\ queue'[j].shot = n
    <3> DEFINE e == [type |-> "file", shot |-> m, size |-> z]
    <3>1. e \in Event /\ e.shot = m
      BY <1>3 DEF Event
    <3> HIDE DEF e
    <3>2. /\ Len(queue') = Len(queue) + 1 /\ Len(queue) \in Nat
          /\ \A j \in 1 .. Len(queue) : queue'[j] = queue[j]
          /\ queue'[Len(queue) + 1] = e
      BY <1>3, <2>2, <3>1, AppendProperties, LenProperties DEF e
    <3>3. CASE k = Len(queue) + 1
      <4>1. n \in Before(m)
        BY <3>1, <3>2, <3>3 DEF Before
      <4>2. n \in Known
        BY <4>1, KeptMeans DEF SettleOrder
      <4> QED BY <3>2, <3>3, <4>2 DEF Known, Queued
    <3>4. CASE k # Len(queue) + 1
      <4>1. k \in 1 .. Len(queue) /\ queue'[k] = queue[k]
        BY <3>2, <3>4
      <4>2. n < queue[k].shot /\ queue[k].type = "file"
        BY <4>1
      <4>3. n \in Covered \/ \E j \in 1 .. k - 1 : queue[j].type = "file" /\ queue[j].shot = n
        BY <4>1, <4>2, KeptMeans DEF QueueOrder
      <4> QED BY <3>2, <4>1, <4>3
    <3> QED BY <3>3, <3>4
  <2> QED BY <2>1, <2>2
<1>9. SettleOrder'
  BY <1>1, <1>2, <1>3, <1>5, KeptMeans DEF SettleOrder, Writing
<1>10. Watched'
  BY <1>1, <1>5, KeptMeans DEF Watched
<1> QED
  BY <1>6, <1>7, <1>8, <1>9, <1>10, KeptNext

LEMMA SlotIs ==
  ASSUME Kept
  PROVE  /\ Types /\ Slots /\ slot \in [Shot -> 0 .. MaxTimer] /\ 0 \notin Timer
         /\ \A m \in Shot : slot[m] = 0 \/ slot[m] \in Timer
<1>1. Types /\ Slots
  BY KeptMeans
<1>2. slot \in [Shot -> 0 .. MaxTimer]
  BY <1>1, TypesMeans
<1>3. 0 \notin Timer /\ \A k \in 0 .. MaxTimer : k = 0 \/ k \in Timer
  BY Bounds
<1> QED
  BY <1>1, <1>2, <1>3

LEMMA ConsiderKept ==
  ASSUME Kept, NEW n \in Shot, NEW i \in Timer, Consider(n, i)
  PROVE  World' /\ Order'
<1>1. /\ UNCHANGED <<shot, sizes, emitted, watch, starts, queue, rows, mark, catchup, on>>
      /\ slot' = [slot EXCEPT ![n] = i] /\ timer[i].pc = "free"
      /\ n \in event /\ event' = event \ {n}
      /\ timer'[i] = [pc |-> "armed", file |-> n]
      /\ \A j \in Timer : j # i => timer'[j] = IF j = slot[n] THEN NoTimer ELSE timer[j]
  BY DEF Consider, window
<1>2. /\ slot \in [Shot -> 0 .. MaxTimer] /\ 0 \notin Timer /\ Slots
      /\ \A m \in Shot : slot[m] = 0 \/ slot[m] \in Timer
  BY SlotIs
<1>3. Slots'
  <2> SUFFICES ASSUME NEW m \in Shot, slot'[m] # 0
               PROVE  timer'[slot'[m]].pc \in {"armed", "due"} /\ timer'[slot'[m]].file = m
    BY DEF Slots
  <2>1. CASE m = n
    BY <1>1, <1>2, <2>1
  <2>2. CASE m # n
    <3>1. slot'[m] = slot[m] /\ slot[m] \in Timer
      BY <1>1, <1>2, <2>2
    <3>2. timer[slot[m]].pc \in {"armed", "due"} /\ timer[slot[m]].file = m
      BY <1>2, <3>1 DEF Slots
    <3>3. slot[m] # i /\ slot[m] # slot[n]
      BY <1>1, <1>2, <2>2, <3>1, <3>2 DEF Slots
    <3> QED BY <1>1, <3>1, <3>2, <3>3
  <2> QED BY <2>1, <2>2
<1>4. Settling' \subseteq Settling
  <2> SUFFICES ASSUME NEW m \in Settling' PROVE m \in Settling
    OBVIOUS
  <2>1. m \in event' \/ \E j \in Timer : timer'[j].pc # "free" /\ timer'[j].file = m
    BY DEF Settling
  <2> QED BY <1>1, <2>1 DEF Settling, NoTimer
<1>5. Settling \subseteq Settling'
  <2> SUFFICES ASSUME NEW m \in Settling PROVE m \in Settling'
    OBVIOUS
  <2>1. CASE m = n
    BY <1>1, <2>1 DEF Settling
  <2>2. CASE m # n /\ m \in event
    BY <1>1, <2>2 DEF Settling
  <2>3. CASE m # n /\ m \notin event
    <3>1. PICK j \in Timer : timer[j].pc # "free" /\ timer[j].file = m
      BY <2>3 DEF Settling
    <3>2. j # i /\ j # slot[n]
      BY <1>1, <1>2, <2>3, <3>1 DEF Slots
    <3> QED BY <1>1, <3>1, <3>2 DEF Settling
  <2> QED BY <2>1, <2>2, <2>3
<1>6. Known' = Known
  BY <1>1 DEF Known, Covered, Logged, Queued
<1> QED
  BY <1>1, <1>3, <1>4, <1>5, <1>6, FolderFrame, KeptMeans DEF Watched, Scanning

LEMMA SettleBeginsKept ==
  ASSUME Kept, NEW i \in Timer, SettleBegins(i)
  PROVE  World' /\ Order'
<1> DEFINE n == timer[i].file
<1>1. /\ UNCHANGED <<shot, event, sizes, emitted, watch, starts, queue, rows, mark, catchup, on>>
      /\ slot' = [slot EXCEPT ![n] = 0] /\ timer[i].pc = "due"
      /\ \A j \in Timer : j # i => timer'[j] = timer[j]
      /\ watch => timer'[i].pc = "stat" /\ timer'[i].file = n
      /\ ~watch => timer'[i].pc = "free"
  BY TypesMeans, KeptMeans DEF SettleBegins, recorder, window, NoTimer, Timers
<1>2. /\ slot \in [Shot -> 0 .. MaxTimer] /\ 0 \notin Timer /\ Slots
      /\ \A m \in Shot : slot[m] = 0 \/ slot[m] \in Timer
  BY SlotIs
<1> HIDE DEF n
<1>3. Slots'
  <2> SUFFICES ASSUME NEW m \in Shot, slot'[m] # 0
               PROVE  timer'[slot'[m]].pc \in {"armed", "due"} /\ timer'[slot'[m]].file = m
    BY DEF Slots
  <2>1. slot'[m] = slot[m] /\ m # n /\ slot[m] \in Timer
    BY <1>1, <1>2
  <2>2. slot[m] # i
    BY <1>2, <2>1 DEF Slots, n
  <2> QED BY <1>1, <1>2, <2>1, <2>2 DEF Slots
<1>4. Settling' \subseteq Settling
  <2> SUFFICES ASSUME NEW m \in Settling' PROVE m \in Settling
    OBVIOUS
  <2>1. m \in event' \/ \E j \in Timer : timer'[j].pc # "free" /\ timer'[j].file = m
    BY DEF Settling
  <2> QED BY <1>1, <2>1 DEF Settling, n
<1>5. watch => Settling \subseteq Settling'
  <2> SUFFICES ASSUME watch, NEW m \in Settling PROVE m \in Settling'
    OBVIOUS
  <2>1. m \in event \/ \E j \in Timer : timer[j].pc # "free" /\ timer[j].file = m
    BY DEF Settling
  <2> QED BY <1>1, <2>1 DEF Settling, n
<1>6. Known' = Known
  BY <1>1 DEF Known, Covered, Logged, Queued
<1> QED
  BY <1>1, <1>3, <1>4, <1>5, <1>6, FolderFrame, KeptMeans DEF Watched, Scanning

LEMMA SettleResumesKept ==
  ASSUME Kept, NEW i \in Timer, SettleResumes(i)
  PROVE  World' /\ Order'
<1> DEFINE n == timer[i].file
           e == [type |-> "file", shot |-> n, size |-> shot[n].size]
<1>1. /\ IF Settles(n) THEN Emits(n, i) ELSE LooksAgain(n, i)
      /\ UNCHANGED <<shot, event, watch, starts, rows, mark, catchup, on>>
      /\ timer[i].pc = "stat"
  BY DEF SettleResumes, recorder
<1>2. /\ slot \in [Shot -> 0 .. MaxTimer] /\ 0 \notin Timer /\ Slots
      /\ \A m \in Shot : slot[m] = 0 \/ slot[m] \in Timer
      /\ timer \in [Timer -> Timers] /\ n \in Shot /\ n \in Settling
      /\ emitted \in [Shot -> Size] /\ shot \in [Shot -> ShotState]
  BY <1>1, TypesMeans, SlotIs DEF Busy, Settling
<1>3. n \in Begun /\ shot[n].size # 0 /\ e \in Event /\ e.type = "file" /\ e.shot = n
  <2>1. n \in Begun /\ shot[n].size # 0 /\ shot[n].size \in Size
    BY <1>2, KeptMeans DEF Real, Begun, ShotState
  <2> QED BY <1>2, <2>1 DEF Event
<1>4. catchup.pc # "scan"
  BY <1>2, KeptMeans DEF Scanning, Quiet
<1>5. \A m \in Shot : slot[m] # i
  BY <1>1, <1>2 DEF Slots
<1>6. /\ \A j \in Timer : j # i => timer'[j] = timer[j]
      /\ timer'[i].pc # "free" => timer'[i].file = n
  <2>1. CASE Emits(n, i)
    BY <1>1, <2>1, <1>2 DEF Emits, NoTimer
  <2>2. CASE LooksAgain(n, i)
    BY <1>1, <2>2, <1>2 DEF LooksAgain, Timers
  <2> QED BY <1>1, <2>1, <2>2
<1> HIDE DEF n
<1>7. Settling' \subseteq Settling /\ \A m \in Settling \ Settling' : m = n
  <2>1. ASSUME NEW m \in Settling' PROVE m \in Settling
    <3>1. m \in event' \/ \E j \in Timer : timer'[j].pc # "free" /\ timer'[j].file = m
      BY DEF Settling
    <3> QED BY <1>1, <1>2, <1>6, <3>1 DEF Settling
  <2>2. ASSUME NEW m \in Settling, m # n PROVE m \in Settling'
    <3>1. m \in event \/ \E j \in Timer : timer[j].pc # "free" /\ timer[j].file = m
      BY DEF Settling
    <3> QED BY <1>1, <1>2, <1>6, <2>2, <3>1 DEF Settling, n
  <2> QED BY <2>1, <2>2
<1>8. CASE ~Settles(n)
  <2>1. /\ slot' = [slot EXCEPT ![n] = i] /\ queue' = queue /\ emitted' = emitted
        /\ timer'[i].pc = "armed" /\ timer'[i].file = n
    BY <1>1, <1>2, <1>8, <1>6 DEF LooksAgain, Timers
  <2>2. Slots'
    BY <1>2, <1>5, <1>6, <2>1 DEF Slots
  <2>3. n \in Settling'
    BY <2>1 DEF Settling
  <2>4. Known' = Known
    BY <1>1, <2>1 DEF Known, Covered, Logged, Queued
  <2> QED BY <1>1, <1>4, <1>7, <2>1, <2>2, <2>3, <2>4, FolderFrame, KeptMeans DEF Watched
<1>9. CASE Settles(n) /\ emitted[n] = shot[n].size
  <2>1. slot' = slot /\ queue' = queue /\ emitted' = emitted
    BY <1>1, <1>9 DEF Emits
  <2>2. Slots'
    BY <1>2, <1>5, <1>6, <2>1 DEF Slots
  <2>3. Known' = Known
    BY <1>1, <2>1 DEF Known, Covered, Logged, Queued
  <2>4. watch => n \in Known
    BY <1>2, <1>3, <1>9, KeptMeans DEF Watched
  <2> QED BY <1>1, <1>4, <1>7, <2>1, <2>2, <2>3, <2>4, FolderFrame, KeptMeans DEF Watched
<1>10. CASE Settles(n) /\ emitted[n] # shot[n].size
  <2>1. /\ slot' = slot /\ queue' = Append(queue, e)
        /\ emitted' = [emitted EXCEPT ![n] = shot[n].size]
    BY <1>1, <1>10 DEF Emits, Announced
  <2>2. Slots'
    BY <1>2, <1>5, <1>6, <2>1 DEF Slots
  <2>3. Queued' = Queued \cup {n}
    BY <1>3, <2>1, QueuedAppend, KeptMeans
  <2>4. Known' = Known \cup {n}
    BY <1>1, <2>3 DEF Known, Covered, Logged
  <2>5. watch => \A m \in Shot : emitted'[m] # 0 => m \in Known'
    BY <1>2, <2>1, <2>4, KeptMeans DEF Watched
  <2>6. \E m \in Settling, z \in Size :
           queue' = Append(queue, [type |-> "file", shot |-> m, size |-> z])
    BY <1>2, <2>1 DEF ShotState
  <2> QED BY <1>1, <1>4, <1>7, <2>2, <2>4, <2>5, <2>6, FolderFrame
<1> QED
  BY <1>8, <1>9, <1>10

(* Stopping the watch, and saving its configuration in a quiet folder.     *)
LEMMA ClearedKept ==
  ASSUME Kept, Cleared, UNCHANGED <<shot, queue, rows, mark, catchup, on>>,
         watch' => watch /\ Quiet
  PROVE  World' /\ Order'
<1>1. Slots' /\ \A n \in Shot : emitted'[n] = 0
  BY DEF Cleared, Slots
<1>2. Settling' \subseteq Settling
  <2>1. ASSUME NEW m \in Settling' PROVE m \in Settling
    <3>1. m \in event' \/ \E j \in Timer : timer'[j].pc # "free" /\ timer'[j].file = m
      BY DEF Settling
    <3>2. event' = {} /\ \A j \in Timer : timer'[j] = timer[j] \/ timer'[j].pc = "free"
      BY DEF Cleared, NoTimer
    <3> QED BY <3>1, <3>2 DEF Settling
  <2> QED BY <2>1
<1> QED
  BY <1>1, <1>2, FolderFrame DEF Quiet

LEMMA StutterKept == ASSUME Kept, UNCHANGED vars PROVE World' /\ Order'
<1>1. Slots' /\ Settling' = Settling /\ Known' = Known
  BY KeptMeans DEF vars, Slots, Settling, Known, Covered, Logged, Queued
<1> QED
  BY <1>1, FolderFrame, KeptMeans DEF vars, Watched, Scanning

(* Firing a shot touches no file. *)
LEMMA FireKept ==
  ASSUME Kept, "live" \notin Habits, NEW n \in Shot,
         NEW heard \in BOOLEAN, NEW saved \in BOOLEAN, Fire(n, heard, saved)
  PROVE  World' /\ Order'
<1> DEFINE e == [type |-> "pulse", shot |-> n, size |-> 0]
<1>1. /\ UNCHANGED <<event, timer, slot, sizes, emitted, watch, starts, rows, mark, catchup, on>>
      /\ shot[n].state = "no" /\ catchup.pc # "scan"
      /\ queue' = queue \/ queue' = Append(queue, e)
  BY DEF Fire, settle
<1>2. /\ \A m \in Shot : m # n => shot'[m] = shot[m]
      /\ shot'[n].state \in {"fired", "unsaved"} /\ shot'[n].size = shot[n].size
      /\ Types /\ Begun \subseteq Shot /\ e \in Event /\ e.type = "pulse"
  BY TypesMeans, KeptMeans, Bounds DEF Fire, ShotState, Begun, Event
<1> HIDE DEF e
<1>3. n \notin Begun
  BY <1>1, KeptMeans DEF InOrder, Begun
<1>4. /\ Begun' = Begun /\ Writing' = Writing /\ Covered' = Covered /\ Settling' = Settling
      /\ \A m \in Shot : Mtime(m)' = Mtime(m)
  BY <1>1, <1>2 DEF Begun, Writing, Covered, Logged, Settling, Mtime, MtimeAt
<1>5. Queued' = Queued
  BY <1>1, <1>2, QueuedAppend DEF Queued
<1>6. InOrder'
  <2>1. \A m \in Begun : m # n /\ shot'[m] = shot[m]
    BY <1>2, <1>3
  <2>2. ASSUME NEW m \in Begun, NEW l \in 1 .. m - 1 PROVE l # n /\ shot'[l] = shot[l]
    <3>1. shot[l].state \in {"done", "unsaved"} /\ l \in Shot
      BY <2>2, KeptMeans, Bounds DEF InOrder, Begun
    <3> QED BY <1>1, <1>2, <3>1
  <2>3. \A m \in Begun : \A l \in 1 .. m - 1 : shot'[l].state \in {"done", "unsaved"}
    BY <2>2, KeptMeans DEF InOrder
  <2>4. \A m \in Shot : shot'[m].size > 0 <=> shot'[m].state \in {"writing", "done"}
    BY <1>1, <1>2, <1>3, KeptMeans DEF InOrder, Begun
  <2> QED BY <1>4, <2>3, <2>4 DEF InOrder
<1>7. Slots' /\ Real' /\ Unfiled' /\ Listens' /\ Scanning'
  BY <1>1, <1>4, <1>5, KeptMeans DEF Slots, Real, Unfiled, Listens, Scanning
<1>8. MarkIs' /\ MarkKept' /\ Offers'
  BY <1>1, <1>2, <1>4, KeptMeans DEF MarkIs, MarkKept, Offers, Before
<1>9. QueueOrder'
  <2>1. CASE queue' = queue
    BY <1>1, <1>4, <2>1, KeptMeans DEF QueueOrder
  <2>2. CASE queue' = Append(queue, e)
    <3>1. /\ Len(queue') = Len(queue) + 1 /\ Len(queue) \in Nat
          /\ \A j \in 1 .. Len(queue) : queue'[j] = queue[j]
          /\ queue'[Len(queue) + 1] = e
      BY <1>2, <2>2, TypesMeans, AppendProperties, LenProperties
    <3> SUFFICES ASSUME on, NEW k \in 1 .. Len(queue'), queue'[k].type = "file",
                        NEW m \in Begun, m < queue'[k].shot
                 PROVE  \/ m \in Covered
                        \/ \E j \in 1 .. k - 1 : queue'[j].type = "file" /\ queue'[j].shot = m
      BY <1>1, <1>4 DEF QueueOrder
    <3>2. k # Len(queue) + 1
      BY <1>2, <3>1
    <3>3. k \in 1 .. Len(queue) /\ queue'[k] = queue[k]
      BY <3>1, <3>2
    <3>4. m \in Covered \/ \E j \in 1 .. k - 1 : queue[j].type = "file" /\ queue[j].shot = m
      BY <3>3, KeptMeans DEF QueueOrder
    <3> QED BY <3>1, <3>3, <3>4
  <2> QED BY <1>1, <2>1, <2>2
<1>10. SettleOrder' /\ Watched'
  BY <1>1, <1>4, <1>5, KeptMeans DEF SettleOrder, Watched, Known, Before
<1> QED
  BY <1>6, <1>7, <1>8, <1>9, <1>10, KeptNext

(* What is seen of a file, whoever writes it: an event for a file whose    *)
(* predecessors are known.                                                 *)
LEMMA SeenFrame ==
  ASSUME Kept, NEW n \in Shot, Begun' = Begun, Writing' \subseteq Writing,
         UNCHANGED <<timer, slot, sizes, emitted, watch, starts, queue, rows, mark, catchup, on>>,
         \A m \in Shot : shot'[m].size = shot[m].size,
         n \in Begun, catchup.pc # "scan", watch => Before(n) \subseteq Known,
         watch => event \subseteq event', event' \subseteq event \cup {n},
         event' # event => watch,
         watch => \A m \in Writing \ Writing' : m \in event',
         InOrder'
  PROVE  World' /\ Order'
<1>1. /\ Covered' = Covered /\ Known' = Known /\ Queued' = Queued
      /\ \A m \in Shot : Mtime(m)' = Mtime(m)
      /\ Begun \subseteq Shot
      /\ \A m \in Shot : Before(m)' = Before(m)
  BY DEF Covered, Known, Logged, Queued, Mtime, MtimeAt, Begun, Before
<1>2. Settling' \subseteq Settling \cup {n}
  BY DEF Settling
<1>3. watch => Settling \subseteq Settling' /\ event' \subseteq Settling'
  BY DEF Settling
<1>4. ~watch => Settling' = Settling
  BY DEF Settling
<1>5. Slots' /\ Real' /\ Unfiled' /\ Listens' /\ Scanning'
  BY <1>1, <1>2, KeptMeans DEF Slots, Real, Unfiled, Listens, Scanning
<1>6. MarkIs' /\ MarkKept' /\ Offers'
  <2>1. MarkIs' /\ MarkKept'
    BY <1>1, KeptMeans DEF MarkIs, MarkKept
  <2>2. Offers'
    BY <1>1, KeptMeans, TypesMeans DEF Offers, Catchup
  <2> QED BY <2>1, <2>2
<1>7. QueueOrder'
  BY <1>1, KeptMeans DEF QueueOrder
<1>8. SettleOrder'
  BY <1>1, <1>2, <1>4, KeptMeans DEF SettleOrder, Real, Writing
<1>9. Watched'
  BY <1>1, <1>3, KeptMeans DEF Watched
<1> QED
  BY <1>5, <1>6, <1>7, <1>8, <1>9, KeptNext

LEMMA TouchKept ==
  ASSUME Kept, "late" \notin Habits, NEW n \in Shot, Touch(n)
  PROVE  World' /\ Order'
<1>1. /\ UNCHANGED <<shot, timer, slot, sizes, emitted, watch, starts, queue, rows, mark, catchup, on>>
      /\ watch /\ event' = event \cup {n}
      /\ \/ shot[n].state = "writing"
         \/ shot[n].state = "done" /\ Settling = {} /\ emitted[n] # 0
  BY DEF Touch, settle, window
<1>2. Begun' = Begun /\ Writing' = Writing /\ InOrder'
  BY <1>1, KeptMeans DEF Begun, Writing, InOrder
<1>3. n \in Begun
  BY <1>1, KeptMeans DEF InOrder, Begun
<1>4. catchup.pc # "scan"
  BY <1>1, KeptMeans DEF Scanning, Quiet, Landing
<1>5. Before(n) \subseteq Known
  <2>1. CASE n \in Writing
    BY <1>1, <2>1, KeptMeans DEF SettleOrder
  <2>2. CASE n \notin Writing
    <3>1. Settling = {}
      BY <1>1, <2>2 DEF Writing
    <3>2. Before(n) \subseteq Begun /\ Before(n) \cap Writing = {}
      <4> SUFFICES ASSUME NEW m \in Before(n) PROVE m \in Begun /\ m \notin Writing
        OBVIOUS
      <4>1. m \in 1 .. n - 1 /\ m \in Begun
        BY Bounds DEF Before, Begun
      <4> QED BY <1>3, <4>1, KeptMeans DEF InOrder, Writing
    <3> QED BY <1>1, <1>4, <3>1, <3>2, KeptMeans DEF Watched
  <2> QED BY <2>1, <2>2
<1> QED
  BY <1>1, <1>2, <1>3, <1>4, <1>5, SeenFrame

LEMMA CloseKept ==
  ASSUME Kept, NEW n \in Shot, Close(n)
  PROVE  World' /\ Order'
<1>1. /\ UNCHANGED <<timer, slot, sizes, emitted, watch, starts, queue, rows, mark, catchup, on>>
      /\ event' = IF watch THEN event \cup {n} ELSE event
      /\ shot[n].state = "writing"
  BY DEF Close, settle, window, Seen
<1>2. /\ \A m \in Shot : m # n => shot'[m] = shot[m]
      /\ shot'[n].state = "done" /\ shot'[n].size = shot[n].size
  BY TypesMeans, KeptMeans DEF Close, ShotState
<1>3. Begun' = Begun /\ Writing' = Writing \ {n} /\ n \in Begun /\ Begun \subseteq Shot
  BY <1>1, <1>2, KeptMeans DEF Begun, Writing, InOrder
<1>4. catchup.pc # "scan"
  BY <1>1, KeptMeans DEF Scanning, Quiet, Landing
<1>5. InOrder'
  <2>1. \A m \in Shot : shot[m].state \in {"done", "unsaved"} => shot'[m].state \in {"done", "unsaved"}
    BY <1>1, <1>2
  <2>2. \A m \in Begun : \A l \in 1 .. m - 1 : l \in Shot
    BY <1>3, Bounds
  <2>3. \A m \in Begun : \A l \in 1 .. m - 1 : shot'[l].state \in {"done", "unsaved"}
    BY <2>1, <2>2, KeptMeans DEF InOrder
  <2>4. \A m \in Shot : shot'[m].size > 0 <=> shot'[m].state \in {"writing", "done"}
    BY <1>1, <1>2, KeptMeans DEF InOrder
  <2> QED BY <1>3, <2>3, <2>4 DEF InOrder
<1>6. watch => Before(n) \subseteq Known
  BY <1>1, KeptMeans DEF SettleOrder, Writing
<1> QED
  BY <1>1, <1>2, <1>3, <1>4, <1>5, <1>6, SeenFrame

LEMMA CreateKept ==
  ASSUME Kept, "fast" \notin Habits, NEW n \in Shot, Create(n)
  PROVE  World' /\ Order'
<1>1. /\ UNCHANGED <<timer, slot, sizes, emitted, watch, starts, queue, rows, mark, catchup, on>>
      /\ event' = IF watch THEN event \cup {n} ELSE event
      /\ shot[n].state = "fired" /\ Settling = {}
      /\ \A m \in 1 .. n - 1 : shot[m].state \in {"done", "unsaved"}
  BY DEF Create, settle, window, Seen
<1>2. /\ \A m \in Shot : m # n => shot'[m] = shot[m]
      /\ shot'[n].state = "writing" /\ shot'[n].size = 1
      /\ Types /\ Shot \subseteq Nat /\ Begun \subseteq Shot
  BY TypesMeans, KeptMeans, Bounds DEF Create, ShotState, Begun
<1>3. /\ n \notin Begun /\ Begun' = Begun \cup {n} /\ Writing' = Writing \cup {n}
  <2>1. n \notin Begun
    BY <1>1, KeptMeans DEF Begun, InOrder
  <2>2. Begun' = Begun \cup {n}
    <3>1. \A m \in Shot : (shot'[m].size > 0) <=> (m = n \/ shot[m].size > 0)
      <4>1. 1 > 0
        OBVIOUS
      <4> QED BY <1>2, <4>1
    <3> QED BY <3>1 DEF Begun
  <2>3. Writing' = Writing \cup {n}
    BY <1>2 DEF Writing
  <2> QED BY <2>1, <2>2, <2>3
<1>4. \A m \in Begun : m < n
  <2> SUFFICES ASSUME NEW m \in Begun, ~(m < n) PROVE FALSE
    OBVIOUS
  <2>1. n \in 1 .. m - 1
    BY <1>2, <1>3, Bounds
  <2> QED BY <1>1, <2>1, KeptMeans DEF InOrder
<1>5. catchup.pc # "scan"
  BY <1>1, KeptMeans DEF Scanning, Quiet, Landing
<1>6. /\ Covered' = Covered /\ Known' = Known /\ Queued' = Queued
      /\ \A m \in Shot : m # n => Mtime(m)' = Mtime(m)
      /\ Settling' = event'
  <2>1. Settling' = event'
    BY <1>1 DEF Settling
  <2> QED BY <1>1, <1>2, <2>1 DEF Covered, Known, Logged, Queued, Mtime, MtimeAt
<1>7. event' \subseteq {n} /\ (watch => n \in event')
  BY <1>1 DEF Settling
<1>8. \A m \in Begun : Before(m)' = Before(m)
  BY <1>2, <1>3, <1>4 DEF Before
<1>9. watch => Begun \subseteq Known
  <2>1. Begun \cap Writing = {}
    <3> SUFFICES ASSUME NEW m \in Begun PROVE m \notin Writing
      OBVIOUS
    <3>1. m \in 1 .. n - 1
      BY <1>2, <1>4, Bounds
    <3> QED BY <1>1, <3>1 DEF Writing
  <2>2. Writing \subseteq Begun
    BY KeptMeans DEF Writing, Begun, InOrder
  <2> QED BY <1>1, <1>5, <2>1, <2>2, KeptMeans DEF Watched
<1>10. Mtime(n)' > mark
  <2>1. Mtime(n)' = n * (MaxSize + 1) + 1
    BY <1>2 DEF Mtime, MtimeAt
  <2>2. /\ n \in Nat /\ n * (MaxSize + 1) \in Nat /\ mark \in Nat /\ MaxSize \in Nat
        /\ \A m \in Begun : m * (MaxSize + 1) + MaxSize < n * (MaxSize + 1)
                            /\ m * (MaxSize + 1) \in Nat
    BY <1>2, <1>4, Products, TypesMeans, Bounds
  <2>3. \A m \in Begun, z \in Size : MtimeAt(m, z) = m * (MaxSize + 1) + z /\ z \in 0 .. MaxSize
    BY Bounds DEF MtimeAt
  <2> DEFINE p == [m \in Shot |-> m * (MaxSize + 1)]
  <2>4. /\ Mtime(n)' = p[n] + 1 /\ p[n] \in Nat
        /\ \A m \in Begun : p[m] \in Nat /\ p[m] + MaxSize < p[n]
        /\ \A m \in Begun, z \in Size : MtimeAt(m, z) = p[m] + z
    BY <1>2, <2>1, <2>2, <2>3
  <2> HIDE DEF p
  <2>5. CASE mark = 0
    BY <2>4, <2>5
  <2>6. ASSUME NEW m \in Begun, NEW z \in Size, mark <= MtimeAt(m, z)
        PROVE  Mtime(n)' > mark
    <3>1. p[m] \in Nat /\ p[m] + MaxSize < p[n] /\ MtimeAt(m, z) = p[m] + z
      BY <2>4
    <3>2. z \in 0 .. MaxSize
      BY <2>3
    <3> QED BY <2>2, <2>4, <2>6, <3>1, <3>2
  <2> QED BY <2>5, <2>6, KeptMeans DEF MarkIs
<1>11. InOrder'
  <2>1. \A l \in 1 .. n - 1 : l \in Shot /\ l # n
    BY Bounds
  <2>2. \A l \in 1 .. n - 1 : shot'[l].state \in {"done", "unsaved"}
    BY <1>1, <1>2, <2>1
  <2>3. ASSUME NEW m \in Begun, NEW l \in 1 .. m - 1 PROVE l \in 1 .. n - 1
    BY <1>2, <1>4, Bounds
  <2>4. \A m \in Shot : shot'[m].size > 0 <=> shot'[m].state \in {"writing", "done"}
    BY <1>1, <1>2, KeptMeans DEF InOrder
  <2> QED BY <1>3, <2>2, <2>3, <2>4 DEF InOrder
<1>12. Slots' /\ Real' /\ Unfiled' /\ Listens' /\ Scanning'
  <2>1. Real'
    BY <1>1, <1>3, <1>6, <1>7, KeptMeans DEF Real
  <2> QED BY <1>1, <1>5, <2>1, KeptMeans DEF Slots, Unfiled, Listens, Scanning
<1>13. MarkIs' /\ MarkKept' /\ Offers'
  <2>1. MarkIs' /\ MarkKept'
    BY <1>1, <1>2, <1>3, <1>6, <1>10, KeptMeans DEF MarkIs, MarkKept
  <2>2. Offers'
    BY <1>1, <1>6, <1>8, KeptMeans DEF Offers, Real
  <2> QED BY <2>1, <2>2
<1>14. QueueOrder'
  <2> SUFFICES ASSUME on, NEW k \in 1 .. Len(queue), queue[k].type = "file",
                      NEW m \in Begun \cup {n}, m < queue[k].shot
               PROVE  \/ m \in Covered
                      \/ \E j \in 1 .. k - 1 : queue[j].type = "file" /\ queue[j].shot = m
    BY <1>1, <1>3, <1>6 DEF QueueOrder
  <2>1. queue[k].shot \in Begun
    BY KeptMeans DEF Real, Queued
  <2>2. queue[k].shot \in Nat /\ n \in Nat /\ queue[k].shot < n
    BY <1>2, <1>4, <2>1
  <2>3. m # n
    BY <2>2
  <2> QED BY <2>3, KeptMeans DEF QueueOrder
<1>15. SettleOrder'
  <2>0. n \in Nat /\ ~(n < n)
    BY <1>2
  <2>1. Before(n)' = Begun
    BY <2>0, <1>3, <1>4 DEF Before
  <2>2. Writing \subseteq Begun
    BY KeptMeans DEF Writing, Begun, InOrder
  <2>3. event' # {} => watch
    BY <1>1 DEF Settling
  <2> QED BY <1>1, <1>3, <1>6, <1>7, <1>8, <1>9, <2>1, <2>2, <2>3, KeptMeans DEF SettleOrder
<1>16. Watched'
  BY <1>1, <1>3, <1>6, <1>9, KeptMeans DEF Watched
<1> QED
  BY <1>11, <1>12, <1>13, <1>14, <1>15, <1>16, KeptNext

LEMMA TickKept ==
  ASSUME Kept, Tick
  PROVE  World' /\ Order'
<1>1. /\ UNCHANGED <<event, slot, sizes, emitted, watch, starts, queue, rows, mark, catchup, on>>
      /\ catchup.pc # "scan"
  BY KeptMeans DEF Tick, window, Scanning, Quiet
<1>2. \A i \in Timer : timer'[i].file = timer[i].file
                       /\ (timer'[i].pc = "free" <=> timer[i].pc = "free")
                       /\ (timer[i].pc = "armed" => timer'[i].pc = "due")
                       /\ timer[i].pc \in {"free", "armed"}
  <2>1. timer \in [Timer -> Timers]
        /\ timer' = [i \in Timer |-> IF timer[i].pc = "armed" THEN [timer[i] EXCEPT !.pc = "due"]
                                                               ELSE timer[i]]
        /\ \A i \in Timer : timer[i].pc \in {"free", "armed"}
    BY TypesMeans, KeptMeans DEF Tick
  <2> QED BY <2>1 DEF Timers
<1>3. \A n \in Shot : shot'[n].state = shot[n].state /\ shot'[n].size >= shot[n].size
                      /\ shot[n].size \in Nat /\ shot'[n].size \in Nat
                      /\ (shot[n].state # "writing" => shot'[n].size = shot[n].size)
  <2>1. shot \in [Shot -> ShotState] /\ Types
    BY TypesMeans, KeptMeans
  <2> QED BY <2>1, TickIs, Bounds DEF ShotState
<1>4. Begun' = Begun /\ Writing' = Writing /\ Begun \subseteq Shot /\ InOrder'
  BY <1>3, KeptMeans, Bounds DEF Begun, Writing, InOrder
<1>5. /\ Covered' = Covered /\ Known' = Known /\ Queued' = Queued /\ Settling' = Settling
      /\ \A m \in Shot : Before(m)' = Before(m)
  BY <1>1, <1>2, <1>4 DEF Covered, Known, Logged, Queued, Settling, Before
<1>6. mark \in Nat /\ \A m \in Shot : Mtime(m)' >= Mtime(m) /\ Mtime(m) \in Nat /\ Mtime(m)' \in Int
  <2>1. \A m \in Shot : m * (MaxSize + 1) \in Nat
    BY Products, Bounds
  <2> DEFINE p == [m \in Shot |-> m * (MaxSize + 1)]
  <2>2. \A m \in Shot : p[m] \in Nat /\ Mtime(m) = p[m] + shot[m].size
                        /\ Mtime(m)' = p[m] + shot'[m].size
    BY <2>1 DEF Mtime, MtimeAt
  <2> HIDE DEF p
  <2>3. mark \in Nat
    BY KeptMeans, TypesMeans
  <2>4. ASSUME NEW m \in Shot
        PROVE  Mtime(m)' >= Mtime(m) /\ Mtime(m) \in Nat /\ Mtime(m)' \in Int
    <3>1. p[m] \in Nat /\ shot[m].size \in Nat /\ shot'[m].size \in Nat
          /\ shot'[m].size >= shot[m].size
      BY <1>3, <2>2
    <3> QED BY <2>2, <3>1
  <2> QED BY <2>3, <2>4
<1>7. Slots'
  BY <1>1, <1>2, SlotIs DEF Slots
<1>8. Real' /\ Unfiled' /\ Listens' /\ Scanning'
  BY <1>1, <1>4, <1>5, KeptMeans DEF Real, Unfiled, Listens, Scanning
<1>9. MarkIs' /\ MarkKept'
  BY <1>1, <1>4, <1>5, <1>6, KeptMeans DEF MarkIs, MarkKept
<1>10. Offers' /\ QueueOrder'
  BY <1>1, <1>4, <1>5, KeptMeans DEF Offers, Real, QueueOrder
<1>11. SettleOrder' /\ Watched'
  BY <1>1, <1>4, <1>5, KeptMeans DEF SettleOrder, Real, Writing, Watched
<1> QED
  BY <1>4, <1>7, <1>8, <1>9, <1>10, <1>11, KeptNext

(* What the window does with an event, or with a row. *)
LEMMA WindowFrame ==
  ASSUME Kept, UNCHANGED <<shot, event, timer, slot, sizes, emitted, watch, catchup>>,
         on' => on, watch => on', Logged \ {0} \subseteq Logged', catchup.pc = "scan" => queue' = queue,
         \/ queue' = queue
         \/ /\ queue # <<>> /\ queue' = Tail(queue)
            /\ on /\ Head(queue).type = "file" => Head(queue).shot \in Logged',
         Unfiled', MarkIs', MarkKept'
  PROVE  World' /\ Order'
<1>1. /\ Begun' = Begun /\ Writing' = Writing /\ Settling' = Settling /\ Landing' = Landing
      /\ Covered \subseteq Covered' /\ Types
      /\ \A m \in Shot : Before(m)' = Before(m)
  BY KeptMeans DEF Begun, Writing, Settling, Landing, Covered, Before
<1>2. Queued' \subseteq Queued /\ (on => Queued \subseteq Queued' \cup (Logged' \ {0}))
  <2>0. 0 \notin Queued
    BY KeptMeans, Bounds DEF Real, Begun
  <2>1. CASE queue' = queue
    BY <2>1 DEF Queued
  <2>2. CASE queue' # queue
    BY <1>1, <2>0, <2>2, QueuedTail
  <2> QED BY <2>1, <2>2
<1>3. on => Known \subseteq Known'
  BY <1>1, <1>2 DEF Known, Covered
<1>4. InOrder' /\ Slots' /\ Real' /\ Listens' /\ Scanning'
  BY <1>1, <1>2, KeptMeans DEF InOrder, Slots, Real, Listens, Scanning, Quiet
<1>5. Offers'
  BY <1>1, KeptMeans DEF Offers, Real, Begun
<1>6. QueueOrder'
  <2>1. CASE queue' = queue
    BY <1>1, <2>1, KeptMeans DEF QueueOrder
  <2>2. CASE queue' # queue
    <3> SUFFICES ASSUME on, NEW k \in 1 .. Len(queue'), queue'[k].type = "file",
                        NEW n \in Begun, n < queue'[k].shot
                 PROVE  \/ n \in Covered'
                        \/ \E j \in 1 .. k - 1 : queue'[j].type = "file" /\ queue'[j].shot = n
      BY <1>1 DEF QueueOrder
    <3> DEFINE l == k + 1
    <3>1. /\ Len(queue) \in Nat /\ Len(queue') = Len(queue) - 1 /\ Head(queue) = queue[1]
          /\ \A j \in 1 .. Len(queue') : queue'[j] = queue[j + 1]
      BY <1>1, <2>2, HeadIs
    <3>2. l \in 1 .. Len(queue) /\ queue[l] = queue'[k]
      BY <3>1
    <3>3. n \in Covered \/ \E j \in 1 .. l - 1 : queue[j].type = "file" /\ queue[j].shot = n
      BY <3>2, KeptMeans DEF QueueOrder
    <3>4. ASSUME NEW j \in 1 .. l - 1, queue[j].type = "file", queue[j].shot = n
          PROVE  \/ n \in Covered'
                 \/ \E i \in 1 .. k - 1 : queue'[i].type = "file" /\ queue'[i].shot = n
      <4>1. CASE j = 1
        BY <2>2, <3>1, <3>4, <4>1, Bounds DEF Covered, Begun
      <4>2. CASE j # 1
        <5> DEFINE i == j - 1
        <5>1. i \in 1 .. k - 1 /\ i + 1 = j /\ i \in 1 .. Len(queue')
          BY <3>1, <4>2
        <5>2. queue'[i] = queue[j]
          BY <3>1, <5>1
        <5> HIDE DEF i
        <5> QED BY <3>4, <5>1, <5>2
      <4> QED BY <4>1, <4>2
    <3> HIDE DEF l
    <3> QED BY <1>1, <3>3, <3>4
  <2> QED BY <2>1, <2>2
<1>7. SettleOrder'
  BY <1>1, <1>3, KeptMeans DEF SettleOrder, Real, Begun, Writing, Listens
<1>8. Watched'
  BY <1>1, <1>3, KeptMeans DEF Watched, Listens
<1> QED
  BY <1>4, <1>5, <1>6, <1>7, <1>8, KeptNext

(* A row that waits, completed or appended, keeps what is logged. *)
LEMMA RowsAppend ==
  ASSUME Types, NEW r \in LogRow, rows' = Append(rows, r)
  PROVE  /\ Logged' = Logged \cup {r.file}
         /\ Unfiled /\ (r.awaiting => r.file = 0) => Unfiled'
<1>1. /\ Len(rows') = Len(rows) + 1 /\ Len(rows) \in Nat
      /\ \A k \in 1 .. Len(rows) : rows'[k] = rows[k]
      /\ rows'[Len(rows) + 1] = r
  BY TypesMeans, AppendProperties, LenProperties
<1>2. 1 .. Len(rows') = (1 .. Len(rows)) \cup {Len(rows) + 1}
  BY <1>1
<1> QED
  BY <1>1, <1>2 DEF Logged, Unfiled

LEMMA RowsExcept ==
  ASSUME Types, NEW k \in 1 .. Len(rows), NEW r \in LogRow, rows' = [rows EXCEPT ![k] = r],
         rows[k].awaiting, Unfiled, ~r.awaiting
  PROVE  /\ Logged \ {0} \subseteq Logged' /\ Logged' \subseteq Logged \cup {r.file}
         /\ r.file \in Logged' /\ Unfiled'
<1>1. /\ Len(rows') = Len(rows)
      /\ \A j \in 1 .. Len(rows) : rows'[j] = IF j = k THEN r ELSE rows[j]
  BY TypesMeans, ExceptSeq
<1>2. Logged' = {rows'[j].file : j \in 1 .. Len(rows)} /\ r.file \in Logged'
  BY <1>1 DEF Logged
<1>3. ASSUME NEW n \in Logged, n # 0 PROVE n \in Logged'
  <2>1. PICK j \in 1 .. Len(rows) : rows[j].file = n
    BY DEF Logged
  <2>2. j # k
    BY <1>3, <2>1 DEF Unfiled
  <2> QED BY <1>1, <1>2, <2>1, <2>2
<1>4. Logged' \subseteq Logged \cup {r.file}
  BY <1>1, <1>2 DEF Logged
<1> QED
  BY <1>1, <1>2, <1>3, <1>4 DEF Unfiled

LEMMA HandleEventKept ==
  ASSUME Kept, HandleEvent
  PROVE  World' /\ Order'
<1> DEFINE e == Head(queue)
<1>1. /\ UNCHANGED <<shot, event, timer, slot, sizes, emitted, watch, catchup, on>>
      /\ queue # <<>> /\ queue' = Tail(queue) /\ Types /\ Unfiled
  BY KeptMeans DEF HandleEvent, recorder, settle
<1>2. /\ e \in Event /\ e.shot \in Shot /\ e.size \in Size /\ catchup.pc # "scan"
  <2>1. e \in Event
    BY <1>1, HeadIs
  <2> QED BY <1>1, <2>1, KeptMeans DEF Event, Scanning, Quiet
<1>3. /\ ~on => UNCHANGED <<rows, mark>>
      /\ on /\ e.type = "pulse" => PulseRow(e.shot)
      /\ on /\ e.type # "pulse" => FileRow(e.shot, e.size)
  BY DEF HandleEvent, Ignored
<1>4. e.type = "file" => e.shot \in Begun
  <2>1. Len(queue) \in Nat \ {0} /\ e = queue[1]
    BY <1>1, HeadIs
  <2> QED BY <2>1, KeptMeans DEF Real, Queued
<1>5. \A m \in Shot : Mtime(m)' = Mtime(m)
  BY <1>1 DEF Mtime, MtimeAt
<1>6. ~(e.type = "pulse") => e.type = "file"
  BY <1>2 DEF Event
<1>7. on /\ e.type = "file" => \A n \in Begun : n < e.shot => n \in Covered
  <2>1. Len(queue) \in Nat \ {0} /\ e = queue[1] /\ 1 \in 1 .. Len(queue)
    BY <1>1, HeadIs
  <2> HIDE DEF e
  <2>2. on /\ e.type = "file" => \A n \in Begun : n < e.shot =>
             n \in Covered \/ \E j \in 1 .. 1 - 1 : queue[j].type = "file" /\ queue[j].shot = n
    BY <2>1, KeptMeans DEF QueueOrder
  <2>3. 1 .. 1 - 1 = {}
    OBVIOUS
  <2> QED BY <2>2, <2>3
<1> HIDE DEF e
<1>8. CASE ~on
  <2>1. UNCHANGED <<rows, mark>>
    BY <1>3, <1>8
  <2>2. Logged' = Logged /\ Unfiled'
    BY <1>1, <2>1 DEF Logged, Unfiled
  <2>3. MarkIs' /\ MarkKept'
    BY <1>1, <1>5, <2>1, <2>2, KeptMeans DEF MarkIs, MarkKept, Begun, Covered, MtimeAt
  <2> QED BY <1>1, <1>2, <1>8, <2>2, <2>3, WindowFrame, KeptMeans DEF Listens
<1>9. CASE on /\ e.type = "pulse"
  <2>1. rows' = Append(rows, Row("pulse", e.shot, 0)) /\ mark' = mark
    BY <1>3, <1>9 DEF PulseRow
  <2>2. Row("pulse", e.shot, 0) \in LogRow /\ Row("pulse", e.shot, 0).file = 0
    BY <1>2, NewRowTypes DEF Row
  <2>3. Logged' = Logged \cup {0} /\ Unfiled'
    BY <1>1, <2>1, <2>2, RowsAppend
  <2>4. MarkIs' /\ MarkKept'
    BY <1>1, <1>5, <2>1, <2>3, KeptMeans DEF MarkIs, MarkKept, Begun, Covered, MtimeAt
  <2>5. ~(e.type = "file")
    BY <1>9
  <2> QED BY <1>1, <1>2, <2>3, <2>4, <2>5, WindowFrame, KeptMeans DEF Listens, e
<1>10. CASE on /\ e.type = "file"
  <2>1. FileRow(e.shot, e.size) /\ e.shot \in Begun
    BY <1>3, <1>4, <1>10
  <2>2. Logged \ {0} \subseteq Logged' /\ e.shot \in Logged' /\ Unfiled'
    <3>1. CASE Awaiting = {}
      <4>1. /\ Row("file", e.shot, e.shot) \in LogRow
            /\ Row("file", e.shot, e.shot).file = e.shot /\ ~Row("file", e.shot, e.shot).awaiting
        BY <1>2, NewRowTypes DEF Row
      <4>2. rows' = Append(rows, Row("file", e.shot, e.shot))
        BY <1>1, <1>2, <2>1, <3>1, FileRowIs
      <4> QED BY <1>1, <4>1, <4>2, RowsAppend
    <3>2. CASE Awaiting # {}
      <4> DEFINE k == Oldest(Awaiting)
                 r == [rows[k] EXCEPT !.file = e.shot, !.awaiting = FALSE]
      <4>1. k \in 1 .. Len(rows) /\ rows[k].awaiting
        BY <1>1, <3>2, AwaitingIs
      <4>2. rows' = [rows EXCEPT ![k] = r]
        BY <1>1, <1>2, <2>1, <3>2, FileRowIs
      <4> HIDE DEF k
      <4>3. rows[k] \in LogRow
        BY <1>1, <4>1, TypesMeans, ElementOfSeq
      <4>4. r \in LogRow /\ r.file = e.shot /\ ~r.awaiting
        BY <1>2, <4>3, RowTypes DEF LogRow
      <4> HIDE DEF r
      <4> QED BY <1>1, <4>1, <4>2, <4>4, RowsExcept
    <3> QED BY <3>1, <3>2
  <2>3. mark' = Later(MtimeAt(e.shot, e.size))
    BY <2>1 DEF FileRow
  <2>4. /\ mark' \in {mark, MtimeAt(e.shot, e.size)} /\ MtimeAt(e.shot, e.size) \in Nat
        /\ mark \in Nat /\ \A m \in Shot : Mtime(m) \in Nat
        /\ \A n \in Shot : e.shot < n => MtimeAt(e.shot, e.size) < Mtime(n)
    BY <1>1, <1>2, <2>3, LaterIs, MtimeOrder, TypesMeans
  <2>5. MarkIs'
    <3>1. Begun' = Begun /\ \A m, z : MtimeAt(m, z)' = MtimeAt(m, z)
      BY <1>1 DEF Begun, MtimeAt
    <3>2. CASE mark' = mark
      BY <3>1, <3>2, KeptMeans DEF MarkIs
    <3>3. CASE mark' = MtimeAt(e.shot, e.size)
      BY <1>2, <2>1, <2>4, <3>1, <3>3 DEF MarkIs
    <3> QED BY <2>4, <3>2, <3>3
  <2>6. MarkKept'
    <3> SUFFICES ASSUME NEW n \in Begun, n \notin Covered' PROVE Mtime(n) > mark'
      BY <1>1, <1>5 DEF MarkKept, Begun
    <3>1. n \notin Covered /\ n # e.shot /\ n \in Shot /\ n \in Nat /\ e.shot \in Nat /\ n # 0
      BY <1>1, <1>2, <2>2, Bounds DEF Covered, Begun
    <3>2. Mtime(n) > mark
      BY <3>1, KeptMeans DEF MarkKept
    <3>3. e.shot < n
      BY <1>7, <1>10, <3>1
    <3>4. MtimeAt(e.shot, e.size) < Mtime(n)
      BY <1>2, <2>4, <3>1, <3>3
    <3> QED BY <2>4, <3>2, <3>4
  <2> QED BY <1>1, <1>2, <2>2, <2>5, <2>6, WindowFrame, KeptMeans DEF Listens, e
<1> QED
  BY <1>6, <1>8, <1>9, <1>10

LEMMA RowKept ==
  ASSUME Kept, NEW k \in 1 .. Len(rows), WindowPasses(k) \/ EditRow(k)
  PROVE  World' /\ Order'
<1> DEFINE r == [rows[k] EXCEPT !.awaiting = FALSE]
<1>1. /\ UNCHANGED <<shot, event, timer, slot, sizes, emitted, watch, queue, mark, catchup, on>>
      /\ rows[k].awaiting /\ rows' = [rows EXCEPT ![k] = r] /\ Types /\ Unfiled
  BY KeptMeans DEF WindowPasses, EditRow, Awaiting, recorder, settle
<1>2. r \in LogRow /\ ~r.awaiting
  <2>1. rows[k] \in LogRow
    BY <1>1, TypesMeans, ElementOfSeq
  <2> QED BY <2>1, RowTypes DEF LogRow
<1> HIDE DEF r
<1>3. Logged \ {0} \subseteq Logged' /\ Unfiled'
  BY <1>1, <1>2, RowsExcept
<1>4. MarkIs' /\ MarkKept'
  <2>1. \A m \in Shot : Mtime(m)' = Mtime(m)
    BY <1>1 DEF Mtime, MtimeAt
  <2>2. Begun' = Begun /\ Begun \subseteq Shot /\ Covered \subseteq Covered'
    BY <1>1, <1>3 DEF Begun, Covered
  <2> QED BY <1>1, <2>1, <2>2, KeptMeans DEF MarkIs, MarkKept
<1> QED
  BY <1>1, <1>3, <1>4, WindowFrame, KeptMeans DEF Listens

LEMMA StopAnswersKept ==
  ASSUME Kept, StopAnswers
  PROVE  World' /\ Order'
<1>1. /\ UNCHANGED <<shot, event, timer, slot, sizes, emitted, watch, queue, rows, mark, catchup>>
      /\ ~watch /\ ~on' /\ on
  BY DEF StopAnswers, recorder, settle
<1>2. Logged' = Logged /\ Unfiled'
  BY <1>1, KeptMeans DEF Logged, Unfiled
<1>3. MarkIs' /\ MarkKept'
  <2>1. \A m \in Shot : Mtime(m)' = Mtime(m)
    BY <1>1 DEF Mtime, MtimeAt
  <2>2. Begun' = Begun /\ Begun \subseteq Shot /\ Covered \subseteq Covered'
    BY <1>1, <1>2 DEF Begun, Covered
  <2> QED BY <1>1, <2>1, <2>2, KeptMeans DEF MarkIs, MarkKept
<1> QED
  BY <1>1, <1>2, <1>3, WindowFrame

(* The switch is turned on over a folder at rest. *)
LEMMA StartClickKept ==
  ASSUME Kept, "live" \notin Habits, StartClick
  PROVE  World' /\ Order'
<1>1. /\ UNCHANGED <<shot, queue, rows, mark>> /\ Cleared /\ watch' /\ on' /\ Quiet
      /\ catchup.pc = "no" /\ Types /\ catchup.files = {}
  BY KeptMeans DEF StartClick, Scanning
<1>2. /\ catchup'.pc = "scan" /\ catchup'.files = {} /\ catchup'.skipped = catchup.skipped
  BY <1>1, TypesMeans DEF StartClick, Catchup
<1>3. /\ Begun' = Begun /\ Writing' = Writing /\ Landing' = Landing /\ Queued' = Queued
      /\ Covered' = Covered /\ Begun \subseteq Shot
      /\ \A m \in Shot : Mtime(m)' = Mtime(m)
  BY <1>1, <1>2 DEF Begun, Writing, Landing, Queued, Covered, Logged, Mtime, MtimeAt
<1>4. Settling' = {}
  <2>1. ASSUME NEW m \in Settling' PROVE m \in Settling
    <3>1. m \in event' \/ \E j \in Timer : timer'[j].pc # "free" /\ timer'[j].file = m
      BY DEF Settling
    <3>2. event' = {} /\ \A j \in Timer : timer'[j] = timer[j] \/ timer'[j].pc = "free"
      BY <1>1 DEF Cleared, NoTimer
    <3> QED BY <3>1, <3>2 DEF Settling
  <2> QED BY <1>1, <2>1 DEF Quiet
<1>5. Slots' /\ \A n \in Shot : emitted'[n] = 0
  BY <1>1 DEF Cleared, Slots
<1>6. InOrder' /\ Real' /\ Unfiled' /\ Listens'
  BY <1>1, <1>2, <1>3, <1>4, KeptMeans DEF InOrder, Real, Unfiled, Listens
<1>7. Scanning'
  BY <1>1, <1>2, <1>3, <1>4, <1>5 DEF Scanning, Quiet
<1>8. MarkIs' /\ MarkKept' /\ Offers'
  BY <1>1, <1>2, <1>3, KeptMeans DEF MarkIs, MarkKept, Offers
<1>9. QueueOrder'
  BY <1>1 DEF QueueOrder, Quiet
<1>10. Writing' = {}
  BY <1>1, <1>3 DEF Quiet, Writing, Landing
<1>11. SettleOrder' /\ Watched'
  BY <1>2, <1>4, <1>5, <1>10 DEF SettleOrder, Watched
<1> QED
  BY <1>5, <1>6, <1>7, <1>8, <1>9, <1>11, KeptNext

(* What the catch-up does, which adds to what is covered. *)
LEMMA CatchupFrame ==
  ASSUME Kept, UNCHANGED <<shot, event, timer, slot, sizes, emitted, watch, queue, on>>,
         catchup'.files \subseteq Begun, Covered \subseteq Covered', catchup'.pc # "scan",
         catchup'.pc = "no" => catchup'.files = {},
         watch /\ catchup.pc = "scan" => Begun \subseteq Covered',
         Unfiled', MarkIs', MarkKept', Offers'
  PROVE  World' /\ Order'
<1>1. /\ Begun' = Begun /\ Writing' = Writing /\ Settling' = Settling /\ Queued' = Queued
      /\ \A m \in Shot : Before(m)' = Before(m)
      /\ Known \subseteq Known' /\ Begun \subseteq Shot /\ Covered' \subseteq Known'
  BY DEF Begun, Writing, Settling, Queued, Known, Before
<1>2. InOrder' /\ Slots' /\ Real' /\ Listens' /\ Scanning'
  BY <1>1, KeptMeans DEF InOrder, Slots, Real, Listens, Scanning
<1>3. QueueOrder'
  BY <1>1, KeptMeans DEF QueueOrder
<1>4. SettleOrder'
  BY <1>1, KeptMeans DEF SettleOrder, Real, Writing
<1>5. Watched'
  BY <1>1, KeptMeans DEF Watched
<1> QED
  BY <1>2, <1>3, <1>4, <1>5, KeptNext

LEMMA ScanKept ==
  ASSUME Kept, Scan
  PROVE  World' /\ Order'
<1>1. /\ UNCHANGED <<shot, event, timer, slot, sizes, emitted, watch, queue, rows, mark, on>>
      /\ catchup.pc = "scan" /\ catchup.files = {} /\ catchup \in Catchup /\ Unfiled
      /\ mark \in Nat
  BY KeptMeans, TypesMeans DEF Scan, Scanning, recorder, settle
<1>2. /\ catchup'.skipped = catchup.skipped /\ Offered \subseteq Begun
      /\ watch /\ Offered # {} => catchup'.pc = "ask" /\ catchup'.files = Offered
      /\ ~(watch /\ Offered # {}) => catchup'.pc = "no" /\ catchup'.files = {}
  BY <1>1 DEF Scan, Catchup, Offered, Begun
<1>3. /\ Begun' = Begun /\ Begun \subseteq Shot /\ Logged' = Logged /\ Unfiled'
      /\ Covered \subseteq Covered'
      /\ \A m \in Shot : Mtime(m)' = Mtime(m) /\ Before(m)' = Before(m)
  BY <1>1, <1>2 DEF Begun, Logged, Unfiled, Mtime, MtimeAt, Covered, Before
<1>4. MarkIs' /\ MarkKept'
  BY <1>1, <1>3, KeptMeans DEF MarkIs, MarkKept
<1>5. Begun \subseteq Covered \cup Offered
  BY <1>1, KeptMeans DEF MarkKept, Offered, Begun
<1>6. watch => Begun \subseteq Covered'
  BY <1>2, <1>3, <1>5 DEF Covered
<1>7. Offers'
  <2> SUFFICES ASSUME NEW m \in catchup'.files PROVE Before(m)' \subseteq Covered'
    BY DEF Offers
  <2>1. m \in Shot /\ watch
    BY <1>2, <1>3
  <2> QED BY <1>3, <1>6, <2>1 DEF Before
<1> QED
  BY <1>1, <1>2, <1>3, <1>4, <1>6, <1>7, CatchupFrame

LEMMA ChooseKept ==
  ASSUME Kept, NEW add \in SUBSET catchup.files, Choose(add)
  PROVE  World' /\ Order'
<1>1. /\ UNCHANGED <<shot, event, timer, slot, sizes, emitted, watch, queue, rows, mark, on>>
      /\ catchup.pc = "ask" /\ Unfiled
      /\ catchup'.files = add /\ catchup'.skipped = catchup.skipped \cup (catchup.files \ add)
      /\ catchup'.pc = IF add = {} THEN "no" ELSE "add"
  BY KeptMeans DEF Choose, recorder, settle
<1>2. /\ Begun' = Begun /\ Begun \subseteq Shot /\ Unfiled' /\ Covered' = Covered
      /\ \A m \in Shot : Mtime(m)' = Mtime(m) /\ Before(m)' = Before(m)
  BY <1>1 DEF Begun, Unfiled, Mtime, MtimeAt, Covered, Before, Logged
<1>3. MarkIs' /\ MarkKept'
  BY <1>1, <1>2, KeptMeans DEF MarkIs, MarkKept
<1>4. add \subseteq Begun
  BY KeptMeans DEF Real
<1>5. Offers'
  BY <1>1, <1>2, <1>4, KeptMeans DEF Offers
<1> QED
  BY <1>1, <1>2, <1>3, <1>4, <1>5, CatchupFrame

LEMMA AddNextKept ==
  ASSUME Kept, AddNext
  PROVE  World' /\ Order'
<1> DEFINE n == Oldest(catchup.files)
<1>1. /\ UNCHANGED <<shot, event, timer, slot, sizes, emitted, watch, queue, on>>
      /\ catchup.pc = "add" /\ Unfiled /\ Types
      /\ rows' = Append(rows, Row("catchup", n, n)) /\ mark' = Later(Mtime(n))
  BY KeptMeans DEF AddNext, recorder, settle
<1>2. n \in catchup.files /\ n \in Shot /\ \A m \in catchup.files : n <= m
  BY <1>1, FilesAre
<1>3. /\ catchup'.skipped = catchup.skipped /\ catchup'.files = catchup.files \ {n}
      /\ catchup'.pc \in {"add", "no"} /\ (catchup'.pc = "add" <=> catchup'.files # {})
  BY <1>1, AddNextIs
<1> HIDE DEF n
<1>4. Logged' = Logged \cup {n} /\ Unfiled'
  <2>1. /\ Row("catchup", n, n) \in LogRow /\ Row("catchup", n, n).file = n
        /\ ~Row("catchup", n, n).awaiting
    BY <1>2, NewRowTypes DEF Row
  <2> QED BY <1>1, <2>1, RowsAppend
<1>5. /\ Begun' = Begun /\ Begun \subseteq Shot /\ Covered' = Covered /\ n \in Begun /\ n # 0
      /\ \A m \in Shot : Mtime(m)' = Mtime(m) /\ Before(m)' = Before(m)
      /\ catchup'.files \subseteq Begun
  <2>1. n \in Begun /\ n # 0 /\ catchup.files \subseteq Begun
    BY <1>2, KeptMeans, Bounds DEF Real
  <2> QED BY <1>1, <1>2, <1>3, <1>4, <2>1 DEF Begun, Covered, Mtime, MtimeAt, Before
<1>6. /\ mark' \in {mark, Mtime(n)} /\ mark' >= mark /\ mark' >= Mtime(n)
      /\ mark \in Nat /\ \A m \in Shot : Mtime(m) \in Nat
      /\ \A m, l \in Shot : m < l => Mtime(m) < Mtime(l)
  BY <1>1, <1>2, LaterIs, MtimeNow, MtimeOrder, TypesMeans
<1>7. MarkIs'
  <2>1. n \in Begun' /\ shot[n].size \in Size /\ Mtime(n) = MtimeAt(n, shot[n].size)
    BY <1>1, <1>2, <1>5, MtimeNow, KeptMeans DEF Real
  <2>2. CASE mark' = mark
    BY <1>5, <2>2, KeptMeans DEF MarkIs
  <2>3. CASE mark' = Mtime(n)
    BY <1>6, <2>1, <2>3 DEF MarkIs
  <2> QED BY <1>6, <2>2, <2>3
<1>8. MarkKept'
  <2> SUFFICES ASSUME NEW m \in Begun, m \notin Covered PROVE Mtime(m) > mark'
    BY <1>5 DEF MarkKept
  <2>1. Mtime(m) > mark
    BY KeptMeans DEF MarkKept
  <2>2. m \in Shot /\ m \in Nat /\ n \in Nat /\ m # n /\ ~(m < n)
    <3>1. n \in Covered
      BY <1>2 DEF Covered
    <3>2. m < n => m \in Before(n)
      BY DEF Before
    <3>3. m \in Shot /\ m \in Nat /\ n \in Nat
      BY <1>2, <1>5, Bounds
    <3> QED BY <1>2, <3>1, <3>2, <3>3, KeptMeans DEF Offers
  <2>3. Mtime(n) < Mtime(m)
    BY <1>2, <1>6, <2>2
  <2> QED BY <1>6, <2>1, <2>3
<1>9. Offers'
  BY <1>3, <1>5, KeptMeans DEF Offers
<1> QED
  BY <1>1, <1>3, <1>4, <1>5, <1>7, <1>8, <1>9, CatchupFrame

LEMMA StepKept ==
  ASSUME Habits \subseteq {"edit", "burst", "stall"}
  PROVE  Kept /\ [Next]_vars => Kept'
<1> SUFFICES ASSUME Kept, [Next]_vars PROVE World' /\ Order'
  BY StepTypes DEF Kept
<1>1. /\ "fast" \notin Habits /\ "live" \notin Habits /\ "save" \notin Habits
      /\ "late" \notin Habits /\ "fail" \notin Habits
  OBVIOUS
<1>2. CASE Recorder
  BY <1>1, <1>2, FireKept, CreateKept, TouchKept, CloseKept DEF Recorder
<1>3. CASE FolderSource
  BY <1>1, <1>3, ConsiderKept, SettleBeginsKept, SettleResumesKept DEF FolderSource, SettleFails
<1>4. CASE StopClick
  BY <1>4, ClearedKept DEF StopClick, window
<1>5. CASE SaveClick
  BY <1>1, <1>5, ClearedKept DEF SaveClick, window
<1>6. CASE User
  BY <1>1, <1>4, <1>5, <1>6, StartClickKept, ChooseKept, RowKept DEF User
<1>7. CASE UNCHANGED vars
  BY <1>7, StutterKept
<1> QED
  BY <1>2, <1>3, <1>6, <1>7, TickKept, HandleEventKept, RowKept, StopAnswersKept, ScanKept,
     AddNextKept DEF Next

(* A file that is neither in the log nor on its way there is later than    *)
(* the mark, so the next start offers it: no order of stops, starts, live  *)
(* rows and catch-up rows moves the mark past a file, if the recorder      *)
(* writes its files one after the other (it may stall), the watch is       *)
(* switched on and configured between shots only and no look at a file     *)
(* fails.                                                                  *)
THEOREM NoFileMissed ==
  ASSUME Habits \subseteq {"edit", "burst", "stall"}
  PROVE  Spec => []NothingMissed
<1>1. Kept => NothingMissed
  <2> SUFFICES ASSUME Kept, NEW n \in Shot, shot[n].state = "done"
               PROVE  n \in Covered \/ Mtime(n) > mark
    BY DEF NothingMissed, Covered
  <2>1. n \in Begun
    BY KeptMeans DEF InOrder, Begun
  <2> QED BY <2>1, KeptMeans DEF MarkKept
<1> QED
  BY <1>1, InitKept, StepKept, PTL DEF Spec

-----------------------------------------------------------------------------
(* The rows of a quiet survey *)

Done == {n \in Shot : shot[n].state = "done"}

(* A file is announced once, and logged once. *)
Once ==
    /\ \A j, k \in 1 .. Len(queue) : queue[j].type = "file" /\ queue[k] = queue[j] => j = k
    /\ \A k, l \in 1 .. Len(rows) : rows[k].file = rows[l].file /\ rows[k].file # 0 => k = l
    /\ catchup.files \cap Logged = {}
    /\ Queued \cap Covered = {}

(* What is known is closed, what was announced has not changed, and what   *)
(* settles for the first time is not known.                                *)
Closed == Known \subseteq Done
Emitted == \A n \in Shot : emitted[n] # 0 => n \in Done /\ emitted[n] = shot[n].size
Unseen == watch => \A n \in Settling : emitted[n] = 0 => n \notin Known

(* Nothing is announced once the watch is stopped. *)
Stopped ==
    ~watch => event = {} /\ \A i \in Timer : timer[i].pc = "stat" => sizes[timer[i].file] = 0

Marked == \A n \in Logged \ {0} : Mtime(n) <= mark

(* An announced file still has the size it was announced with. *)
Carried == \A k \in 1 .. Len(queue) :
               queue[k].type = "file" => queue[k].size = shot[queue[k].shot].size

Apart == Once /\ Closed /\ Emitted /\ Unseen /\ Stopped /\ Marked /\ Carried
Single == Kept /\ Settled /\ Apart

LEMMA InitApart == Init => Apart
<1> SUFFICES ASSUME Init PROVE Apart
  OBVIOUS
<1>1. /\ queue = <<>> /\ rows = <<>> /\ catchup.files = {} /\ catchup.skipped = {} /\ ~watch
      /\ event = {} /\ \A i \in Timer : timer[i].pc = "free"
      /\ \A n \in Shot : emitted[n] = 0
  BY DEF Init, NoCatchup, NoTimer
<1>2. Queued = {} /\ Logged = {} /\ Covered = {} /\ Known = {}
  BY <1>1 DEF Queued, Logged, Covered, Known
<1> QED
  BY <1>1, <1>2 DEF Apart, Once, Closed, Emitted, Unseen, Stopped, Marked, Carried

LEMMA ApartMeans ==
  Single <=>
    /\ Kept /\ Settled /\ Types
    /\ Once /\ Closed /\ Emitted /\ Unseen /\ Stopped /\ Marked /\ Carried
BY DEF Single, Apart, Kept

LEMMA ApartNext ==
  ASSUME Once', Closed', Emitted', Unseen', Stopped', Marked', Carried'
  PROVE  Apart'
BY DEF Apart

(* A closed file does not grow, so no event is overtaken. *)
LEMMA StillCarried ==
  ASSUME Single, \A m \in Done : shot'[m].size = shot[m].size,
         \A k \in 1 .. Len(queue') :
            \/ \E j \in 1 .. Len(queue) : queue'[k] = queue[j]
            \/ queue'[k].type = "file" => queue'[k].size = shot'[queue'[k].shot].size
  PROVE  Carried'
<1> SUFFICES ASSUME NEW k \in 1 .. Len(queue'), queue'[k].type = "file",
                    NEW j \in 1 .. Len(queue), queue'[k] = queue[j]
             PROVE  queue'[k].size = shot'[queue'[k].shot].size
  BY DEF Carried
<1>1. queue[j].shot \in Done
  BY ApartMeans DEF Closed, Known, Queued
<1> QED
  BY <1>1, ApartMeans DEF Carried

LEMMA QueueGrows ==
  ASSUME Types, NEW e \in Event, queue' = Append(queue, e)
  PROVE  /\ Len(queue) \in Nat /\ Len(queue) + 1 \notin 1 .. Len(queue)
         /\ 1 .. Len(queue') = (1 .. Len(queue)) \cup {Len(queue) + 1}
         /\ \A k \in 1 .. Len(queue) : queue'[k] = queue[k] /\ k < Len(queue) + 1
         /\ queue'[Len(queue) + 1] = e
<1>1. /\ Len(queue') = Len(queue) + 1 /\ Len(queue) \in Nat
      /\ \A k \in 1 .. Len(queue) : queue'[k] = queue[k]
      /\ queue'[Len(queue) + 1] = e
  BY TypesMeans, AppendProperties, LenProperties
<1> QED
  BY <1>1

LEMMA RowsGrow ==
  ASSUME Types, NEW r \in LogRow, rows' = Append(rows, r)
  PROVE  /\ Len(rows) \in Nat /\ Len(rows) + 1 \notin 1 .. Len(rows)
         /\ 1 .. Len(rows') = (1 .. Len(rows)) \cup {Len(rows) + 1}
         /\ \A k \in 1 .. Len(rows) : rows'[k] = rows[k] /\ k < Len(rows) + 1
         /\ rows'[Len(rows) + 1] = r
<1>1. /\ Len(rows') = Len(rows) + 1 /\ Len(rows) \in Nat
      /\ \A k \in 1 .. Len(rows) : rows'[k] = rows[k]
      /\ rows'[Len(rows) + 1] = r
  BY TypesMeans, AppendProperties, LenProperties
<1> QED
  BY <1>1

LEMMA RowsChange ==
  ASSUME Types, NEW k \in 1 .. Len(rows), NEW r \in LogRow, rows' = [rows EXCEPT ![k] = r]
  PROVE  /\ Len(rows') = Len(rows) /\ rows'[k] = r
         /\ \A j \in 1 .. Len(rows) : j # k => rows'[j] = rows[j]
BY TypesMeans, ExceptSeq

LEMMA QueueShrinks ==
  ASSUME Types, queue # <<>>, queue' = Tail(queue)
  PROVE  /\ 1 \in 1 .. Len(queue) /\ queue[1] = Head(queue) /\ Head(queue) \in Event
         /\ \A k \in 1 .. Len(queue') : k + 1 \in 1 .. Len(queue) /\ k + 1 # 1
                                        /\ queue'[k] = queue[k + 1]
         /\ \A j, k \in 1 .. Len(queue') : (j + 1 = k + 1 => j = k) /\ (j < k => j + 1 < k + 1)
<1>1. /\ Len(queue) \in Nat \ {0} /\ Len(queue') = Len(queue) - 1 /\ queue[1] = Head(queue)
      /\ \A k \in 1 .. Len(queue') : queue'[k] = queue[k + 1] /\ Head(queue) \in Event
      /\ Head(queue) \in Event
  BY HeadIs
<1> QED
  BY <1>1

LEMMA FireApart ==
  ASSUME Single, NEW n \in Shot, NEW heard \in BOOLEAN, NEW saved \in BOOLEAN,
         Fire(n, heard, saved)
  PROVE  Apart'
<1> DEFINE e == [type |-> "pulse", shot |-> n, size |-> 0]
<1>1. /\ UNCHANGED <<event, timer, slot, sizes, emitted, watch, starts, rows, mark, catchup, on>>
      /\ shot[n].state = "no"
      /\ queue' = queue \/ queue' = Append(queue, e)
  BY DEF Fire, settle
<1>2. /\ \A m \in Shot : m # n => shot'[m] = shot[m]
      /\ shot'[n].state \in {"fired", "unsaved"} /\ shot'[n].size = shot[n].size
      /\ e \in Event /\ e.type = "pulse" /\ Types
  BY TypesMeans, ApartMeans, Bounds DEF Fire, ShotState, Event
<1> HIDE DEF e
<1>3. Queued' = Queued
  BY <1>1, <1>2, QueuedAppend DEF Queued
<1>4. /\ Known' = Known /\ Covered' = Covered /\ Logged' = Logged /\ Settling' = Settling
      /\ Done' = Done /\ \A m \in Shot : Mtime(m)' = Mtime(m) /\ shot'[m].size = shot[m].size
  BY <1>1, <1>2, <1>3 DEF Known, Covered, Logged, Settling, Done, Mtime, MtimeAt
<1>5. Once'
  <2>1. \A j, k \in 1 .. Len(queue') : queue'[j].type = "file" /\ queue'[k] = queue'[j] => j = k
    <3>1. CASE queue' = queue
      BY <3>1, ApartMeans DEF Once
    <3>2. CASE queue' = Append(queue, e)
      BY <1>2, <3>2, QueueGrows, ApartMeans DEF Once
    <3> QED BY <1>1, <3>1, <3>2
  <2> QED BY <1>1, <1>3, <1>4, <2>1, ApartMeans DEF Once
<1>6. Logged \ {0} \subseteq Shot
  BY <1>2, TypesMeans, ApartMeans DEF Closed, Known, Covered, Done
<1>7. Carried'
  <2>1. \A m \in Done : shot'[m].size = shot[m].size
    BY <1>4 DEF Done
  <2>2. CASE queue' = queue
    BY <2>1, <2>2, StillCarried
  <2>3. CASE queue' = Append(queue, e)
    BY <1>2, <2>1, <2>3, QueueGrows, StillCarried
  <2> QED BY <1>1, <2>2, <2>3
<1> QED
  BY <1>1, <1>4, <1>5, <1>6, <1>7, ApartMeans, ApartNext
     DEF Closed, Emitted, Unseen, Stopped, Marked

LEMMA LandApart ==
  ASSUME Single, "late" \notin Habits, NEW n \in Shot, Create(n) \/ Touch(n) \/ Close(n)
  PROVE  Apart'
<1>1. /\ UNCHANGED <<timer, slot, sizes, emitted, watch, starts, queue, rows, mark, catchup, on>>
      /\ event' \subseteq event \cup {n} /\ (~watch => event' = event)
      /\ shot[n].state = "done" => emitted[n] # 0
  BY DEF Create, Touch, Close, settle, window, Seen
<1>2. \A m \in Done : shot'[m] = shot[m]
  BY TypesMeans, ApartMeans DEF Create, Touch, Close, Done
<1>3. /\ Known' = Known /\ Covered' = Covered /\ Logged' = Logged /\ Queued' = Queued
      /\ Settling' \subseteq Settling \cup {n}
      /\ Done \subseteq Done' /\ \A m \in Done : Mtime(m)' = Mtime(m)
  BY <1>1, <1>2 DEF Known, Covered, Logged, Queued, Settling, Done, Mtime, MtimeAt
<1>4. Once' /\ Closed' /\ Emitted' /\ Stopped'
  BY <1>1, <1>2, <1>3, ApartMeans DEF Once, Closed, Emitted, Stopped
<1>5. Unseen'
  BY <1>1, <1>3, ApartMeans DEF Unseen, Closed, Done
<1>6. Logged \ {0} \subseteq Done
  BY ApartMeans DEF Closed, Known, Covered
<1>7. Marked'
  BY <1>1, <1>3, <1>6, ApartMeans DEF Marked
<1>8. Carried'
  BY <1>1, <1>2, StillCarried
<1> QED
  BY <1>4, <1>5, <1>7, <1>8, ApartNext

LEMMA SettlingFrom ==
  ASSUME event' \subseteq Settling,
         \A j \in Timer : timer'[j].pc # "free" => timer'[j].file \in Settling
  PROVE  Settling' \subseteq Settling
BY DEF Settling

(* Steps of the folder source that announce nothing. *)
LEMMA FolderApart ==
  ASSUME Single, UNCHANGED <<shot, queue, rows, mark, catchup>>,
         Settling' \subseteq Settling, Stopped',
         \/ emitted' = emitted /\ watch' = watch
         \/ (\A n \in Shot : emitted'[n] = 0) /\ (watch' => Settling' = {})
  PROVE  Apart'
<1>1. /\ Known' = Known /\ Covered' = Covered /\ Logged' = Logged /\ Queued' = Queued
      /\ Done' = Done /\ \A m \in Shot : Mtime(m)' = Mtime(m)
  BY DEF Known, Covered, Logged, Queued, Done, Mtime, MtimeAt
<1>2. Logged \ {0} \subseteq Shot
  BY ApartMeans DEF Closed, Known, Covered, Done
<1>3. Carried'
  BY StillCarried
<1> QED
  BY <1>1, <1>2, <1>3, ApartMeans, ApartNext DEF Once, Closed, Emitted, Unseen, Marked

LEMMA ConsiderApart ==
  ASSUME Single, NEW n \in Shot, NEW i \in Timer, Consider(n, i)
  PROVE  Apart'
<1>1. /\ UNCHANGED <<shot, sizes, emitted, watch, queue, rows, mark, catchup>>
      /\ event' \subseteq event /\ n \in event
      /\ timer'[i] = [pc |-> "armed", file |-> n]
      /\ \A j \in Timer : j # i => timer'[j] = NoTimer \/ timer'[j] = timer[j]
  BY DEF Consider, window
<1>2. Settling' \subseteq Settling
  <2>1. event \subseteq Settling
    BY DEF Settling
  <2>2. \A j \in Timer : timer[j].pc # "free" => timer[j].file \in Settling
    BY DEF Settling
  <2>3. \A j \in Timer : timer'[j].pc # "free" => timer'[j].file \in Settling
    BY <1>1, <2>1, <2>2 DEF NoTimer
  <2> QED BY <1>1, <2>1, <2>3, SettlingFrom
<1>3. Stopped'
  BY <1>1, ApartMeans DEF Stopped
<1> QED
  BY <1>1, <1>2, <1>3, FolderApart

LEMMA SettleBeginsApart ==
  ASSUME Single, NEW i \in Timer, SettleBegins(i)
  PROVE  Apart'
<1>1. /\ UNCHANGED <<shot, event, sizes, emitted, watch, queue, rows, mark, catchup>>
      /\ timer[i].pc = "due"
      /\ timer'[i].pc = "free" \/ (watch /\ timer'[i].file = timer[i].file)
      /\ \A j \in Timer : j # i => timer'[j] = timer[j]
  BY TypesMeans, ApartMeans DEF SettleBegins, recorder, window, NoTimer, Timers
<1>2. Settling' \subseteq Settling
  <2>1. event \subseteq Settling
    BY DEF Settling
  <2>2. \A j \in Timer : timer[j].pc # "free" => timer[j].file \in Settling
    BY DEF Settling
  <2> QED BY <1>1, <2>1, <2>2, SettlingFrom
<1>3. Stopped'
  <2> SUFFICES ASSUME ~watch, NEW j \in Timer, timer'[j].pc = "stat"
               PROVE  event = {} /\ sizes[timer'[j].file] = 0
    BY <1>1, ApartMeans DEF Stopped
  <2>1. j # i
    BY <1>1
  <2> QED BY <1>1, <2>1, ApartMeans DEF Stopped
<1> QED
  BY <1>1, <1>2, <1>3, FolderApart

(* A file whose size has settled is closed. *)
LEMMA SettlesClosed ==
  ASSUME Settled, "stall" \notin Habits, NEW i \in Timer, timer[i].pc = "stat",
         Settles(timer[i].file), shot[timer[i].file].size # 0
  PROVE  timer[i].file \in Shot /\ shot[timer[i].file].state = "done"
<1> DEFINE n == timer[i].file
<1>1. n \in Shot
  BY TypesMeans DEF Settled, Busy
<1>2. shot[n].size \in Nat
  BY <1>1, TypesMeans, Bounds DEF Settled, ShotState
<1>3. shot[n].size > 0 => shot[n].state \in {"writing", "done"}
  BY <1>1 DEF Settled, Landed
<1>4. shot[n].state # "writing"
  BY <1>1 DEF Settled, Fresh, Unstalled, Settles
<1> QED
  BY <1>1, <1>2, <1>3, <1>4

LEMMA SettleResumesApart ==
  ASSUME Single, "stall" \notin Habits, NEW i \in Timer, SettleResumes(i)
  PROVE  Apart'
<1> DEFINE n == timer[i].file
           e == [type |-> "file", shot |-> n, size |-> shot[n].size]
<1>1. /\ IF Settles(n) THEN Emits(n, i) ELSE LooksAgain(n, i)
      /\ UNCHANGED <<shot, event, watch, starts, rows, mark, catchup, on>>
      /\ timer[i].pc = "stat"
  BY DEF SettleResumes, recorder
<1>2. /\ timer \in [Timer -> Timers] /\ n \in Shot /\ n \in Settling
      /\ emitted \in [Shot -> Size] /\ sizes \in [Shot -> Size] /\ Types
  BY <1>1, TypesMeans, ApartMeans DEF Busy, Settling
<1>3. /\ n \in Begun /\ shot[n].size # 0 /\ e \in Event /\ e.type = "file" /\ e.shot = n
      /\ e.size = shot[n].size
  <2>1. shot[n].size \in Size
    BY <1>2, TypesMeans DEF ShotState
  <2> QED BY <1>2, <2>1, KeptMeans, ApartMeans DEF Real, Begun, Event
<1>4. /\ \A j \in Timer : j # i => timer'[j] = timer[j]
      /\ timer'[i].pc # "stat" /\ (timer'[i].pc # "free" => timer'[i].file = n)
      /\ \A m \in Shot : m # n => sizes'[m] = sizes[m]
  <2>1. CASE Emits(n, i)
    BY <1>2, <2>1 DEF Emits, NoTimer
  <2>2. CASE LooksAgain(n, i)
    BY <1>2, <2>2 DEF LooksAgain, Timers
  <2> QED BY <1>1, <2>1, <2>2
<1>5. \A j \in Timer : j # i /\ timer[j].pc # "free" => timer[j].file # n
  BY <1>1, ApartMeans DEF Settled, OneTimer
<1>6. \A j \in Timer : timer[j].pc # "free" => timer[j].file \in Shot
  BY <1>2 DEF Types, Busy
<1>7. Settles(n) => shot[n].state = "done" /\ sizes[n] # 0
  BY <1>1, <1>3, SettlesClosed, ApartMeans DEF Settles
<1>8. Settling' \subseteq Settling
  <2>1. event \subseteq Settling /\ \A j \in Timer : timer[j].pc # "free" => timer[j].file \in Settling
    BY DEF Settling
  <2> QED BY <1>1, <1>2, <1>4, <2>1, SettlingFrom
<1>9. Stopped'
  <2> SUFFICES ASSUME ~watch, NEW j \in Timer, timer'[j].pc = "stat"
               PROVE  event = {} /\ sizes'[timer'[j].file] = 0
    BY <1>1, ApartMeans DEF Stopped
  <2>1. j # i /\ timer'[j] = timer[j] /\ timer[j].file # n /\ timer[j].file \in Shot
    BY <1>4, <1>5, <1>6
  <2> QED BY <1>4, <2>1, ApartMeans DEF Stopped
<1> HIDE DEF n
<1>10. CASE ~Settles(n)
  BY <1>1, <1>8, <1>9, <1>10, FolderApart DEF LooksAgain
<1>11. CASE Settles(n) /\ emitted[n] = shot[n].size
  BY <1>1, <1>8, <1>9, <1>11, FolderApart DEF Emits
<1>12. CASE Settles(n) /\ emitted[n] # shot[n].size
  <2>1. /\ queue' = Append(queue, e) /\ emitted' = [emitted EXCEPT ![n] = shot[n].size]
    BY <1>1, <1>12 DEF Emits, Announced
  <2>2. watch
    BY <1>1, <1>7, <1>12, ApartMeans DEF Stopped, n
  <2>3. emitted[n] = 0 /\ n \notin Known /\ n \in Done
    BY <1>2, <1>7, <1>12, <2>2, ApartMeans DEF Emitted, Unseen, Done
  <2>4. /\ Queued' = Queued \cup {n} /\ Logged' = Logged /\ Covered' = Covered
        /\ Known' = Known \cup {n} /\ Done' = Done /\ \A m \in Shot : Mtime(m)' = Mtime(m)
    <3>1. Queued' = Queued \cup {n}
      BY <1>2, <1>3, <2>1, QueuedAppend
    <3> QED BY <1>1, <3>1 DEF Logged, Covered, Known, Done, Mtime, MtimeAt
  <2>5. \A k \in 1 .. Len(queue) : queue[k].type = "file" => queue[k].shot # n
    BY <2>3 DEF Known, Queued
  <2>6. Once'
    <3>1. \A j, k \in 1 .. Len(queue') : queue'[j].type = "file" /\ queue'[k] = queue'[j] => j = k
      BY <1>2, <1>3, <2>1, <2>5, QueueGrows, ApartMeans DEF Once
    <3> QED BY <1>1, <2>3, <2>4, <3>1, ApartMeans DEF Once, Known
  <2>7. Closed' /\ Emitted'
    BY <1>1, <1>2, <2>1, <2>3, <2>4, ApartMeans DEF Closed, Emitted
  <2>8. Unseen'
    BY <1>1, <1>2, <1>3, <1>8, <2>1, <2>4, ApartMeans, KeptMeans DEF Unseen, Real, Begun
  <2>9. Logged \ {0} \subseteq Shot
    BY ApartMeans DEF Closed, Known, Covered, Done
  <2>10. Marked'
    BY <1>1, <2>4, <2>9, ApartMeans DEF Marked
  <2>11. Carried'
    BY <1>1, <1>2, <1>3, <2>1, QueueGrows, StillCarried
  <2> QED BY <1>9, <2>6, <2>7, <2>8, <2>10, <2>11, ApartNext
<1> QED
  BY <1>10, <1>11, <1>12

LEMMA TickStates ==
  ASSUME Types, Tick
  PROVE  \A n \in Shot : /\ shot'[n].state = shot[n].state /\ shot'[n].heard = shot[n].heard
                         /\ shot[n].state # "writing" => shot'[n] = shot[n]
<1> SUFFICES ASSUME NEW n \in Shot
             PROVE  /\ shot'[n].state = shot[n].state /\ shot'[n].heard = shot[n].heard
                    /\ shot[n].state # "writing" => shot'[n] = shot[n]
  OBVIOUS
<1>1. shot'[n] = shot[n] \/ shot'[n] = [shot[n] EXCEPT !.size = @ + 1]
  BY TickIs
<1>2. shot[n] \in ShotState
  BY TypesMeans
<1> QED
  BY <1>1, <1>2, TickIs DEF ShotState

LEMMA TickApart ==
  ASSUME Single, Tick
  PROVE  Apart'
<1>1. UNCHANGED <<event, slot, sizes, emitted, watch, queue, rows, mark, catchup, on>>
  BY DEF Tick, window
<1>2. \A i \in Timer : timer'[i].file = timer[i].file
                       /\ (timer'[i].pc = "free" <=> timer[i].pc = "free") /\ timer'[i].pc # "stat"
  BY TypesMeans, ApartMeans DEF Tick, Timers
<1>3. /\ \A m \in Done : shot'[m] = shot[m] /\ m \in Shot
      /\ \A m \in Shot : shot'[m].state = shot[m].state
  BY TickStates, ApartMeans DEF Done
<1>4. /\ Known' = Known /\ Covered' = Covered /\ Logged' = Logged /\ Queued' = Queued
      /\ Settling' = Settling /\ Done' = Done /\ \A m \in Done : Mtime(m)' = Mtime(m)
  BY <1>1, <1>2, <1>3 DEF Known, Covered, Logged, Queued, Settling, Done, Mtime, MtimeAt
<1>5. Logged \ {0} \subseteq Done
  BY ApartMeans DEF Closed, Known, Covered
<1>6. Carried'
  BY <1>1, <1>3, StillCarried
<1> QED
  BY <1>1, <1>2, <1>3, <1>4, <1>5, <1>6, ApartMeans, ApartNext
     DEF Once, Closed, Emitted, Unseen, Stopped, Marked

LEMMA ClearedApart ==
  ASSUME Single, Cleared, UNCHANGED <<shot, queue, rows, mark>>,
         catchup'.files = catchup.files, catchup'.skipped = catchup.skipped, watch' => Quiet
  PROVE  Apart'
<1>1. Settling' \subseteq Settling
  <2>1. event \subseteq Settling /\ \A j \in Timer : timer[j].pc # "free" => timer[j].file \in Settling
    BY DEF Settling
  <2>2. event' = {} /\ \A j \in Timer : timer'[j] = timer[j] \/ timer'[j].pc = "free"
    BY DEF Cleared, NoTimer
  <2> QED BY <2>1, <2>2, SettlingFrom
<1>2. Stopped'
  <2>1. \A j \in Timer : timer'[j].pc # "free" => timer'[j].file \in Shot
    BY ClearedTypes, ApartMeans
  <2> QED BY <2>1 DEF Stopped, Cleared
<1>3. \A n \in Shot : emitted'[n] = 0
  BY DEF Cleared
<1>4. watch' => Settling' = {}
  BY <1>1 DEF Quiet
<1>5. /\ Known' = Known /\ Covered' = Covered /\ Logged' = Logged /\ Queued' = Queued
      /\ Done' = Done /\ \A m \in Shot : Mtime(m)' = Mtime(m)
  BY DEF Known, Covered, Logged, Queued, Done, Mtime, MtimeAt
<1>6. Logged \ {0} \subseteq Shot
  BY ApartMeans DEF Closed, Known, Covered, Done
<1> QED
  BY <1>2, <1>3, <1>4, <1>5, <1>6, StillCarried, ApartMeans, ApartNext
     DEF Once, Closed, Emitted, Unseen, Marked

LEMMA HeadOnce ==
  ASSUME Single, queue # <<>>, queue' = Tail(queue)
  PROVE  /\ \A j, k \in 1 .. Len(queue') : queue'[j].type = "file" /\ queue'[k] = queue'[j] => j = k
         /\ Queued' \subseteq Queued
         /\ Head(queue).type = "file" => Head(queue).shot \in Queued \ Queued'
<1>1. /\ 1 \in 1 .. Len(queue) /\ queue[1] = Head(queue) /\ Head(queue) \in Event
      /\ \A k \in 1 .. Len(queue') : k + 1 \in 1 .. Len(queue) /\ k + 1 # 1
                                     /\ queue'[k] = queue[k + 1]
      /\ \A j, k \in 1 .. Len(queue') : (j + 1 = k + 1 => j = k) /\ (j < k => j + 1 < k + 1)
  BY QueueShrinks, ApartMeans
<1>2. \A j, k \in 1 .. Len(queue') : queue'[j].type = "file" /\ queue'[k] = queue'[j] => j = k
  BY <1>1, ApartMeans DEF Once
<1>3. Queued' \subseteq Queued
  BY QueuedTail, ApartMeans
<1>4. ASSUME Head(queue).type = "file", Head(queue).shot \in Queued' PROVE FALSE
  <2>1. PICK k \in 1 .. Len(queue') : queue'[k].type = "file" /\ queue'[k].shot = Head(queue).shot
    BY <1>4 DEF Queued
  <2>2. /\ k + 1 \in 1 .. Len(queue) /\ k + 1 # 1 /\ queue'[k] = queue[k + 1]
    BY <1>1
  <2>3. queue[k + 1] \in Event
    BY <2>2, TypesMeans, ApartMeans, ElementOfSeq
  <2>4. queue[k + 1] = queue[1]
    <3>1. queue[k + 1].size = queue[1].size
      BY <1>1, <1>4, <2>1, <2>2, ApartMeans DEF Carried
    <3> QED BY <1>1, <1>4, <2>1, <2>2, <2>3, <3>1 DEF Event
  <2> QED BY <1>1, <1>4, <2>2, <2>4, ApartMeans DEF Once
<1>5. Head(queue).type = "file" => Head(queue).shot \in Queued
  BY <1>1 DEF Queued
<1> QED
  BY <1>2, <1>3, <1>4, <1>5

(* A file that is not in a row yet is put into one. *)
LEMMA FileAdded ==
  ASSUME Single, NEW n \in Shot, n \notin Logged, NEW r \in LogRow, r.file = n,
         \/ rows' = Append(rows, r)
         \/ \E k \in 1 .. Len(rows) : rows[k].awaiting /\ ~r.awaiting /\ rows' = [rows EXCEPT ![k] = r]
  PROVE  /\ \A k, l \in 1 .. Len(rows') : rows'[k].file = rows'[l].file /\ rows'[k].file # 0 => k = l
         /\ Logged' \ {0} = (Logged \ {0}) \cup {n}
<1>1. \A k \in 1 .. Len(rows) : rows[k].file # n
  BY DEF Logged
<1>2. CASE rows' = Append(rows, r)
  <2>1. Logged' = Logged \cup {n}
    BY <1>2, RowsAppend, ApartMeans
  <2>2. \A k, l \in 1 .. Len(rows') : rows'[k].file = rows'[l].file /\ rows'[k].file # 0 => k = l
    BY <1>1, <1>2, RowsGrow, ApartMeans DEF Once
  <2> QED BY <2>1, <2>2, Bounds
<1>3. ASSUME NEW k \in 1 .. Len(rows), rows[k].awaiting, ~r.awaiting, rows' = [rows EXCEPT ![k] = r]
      PROVE  /\ \A j, l \in 1 .. Len(rows') :
                    rows'[j].file = rows'[l].file /\ rows'[j].file # 0 => j = l
             /\ Logged' \ {0} = (Logged \ {0}) \cup {n}
  <2>1. /\ Len(rows') = Len(rows) /\ rows'[k] = r
        /\ \A j \in 1 .. Len(rows) : j # k => rows'[j] = rows[j]
    BY <1>3, RowsChange, ApartMeans
  <2>2. Logged \ {0} \subseteq Logged' /\ Logged' \subseteq Logged \cup {n} /\ n \in Logged'
    BY <1>3, RowsExcept, ApartMeans, KeptMeans
  <2>3. \A j, l \in 1 .. Len(rows') : rows'[j].file = rows'[l].file /\ rows'[j].file # 0 => j = l
    BY <1>1, <2>1, ApartMeans DEF Once
  <2> QED BY <2>2, <2>3, Bounds
<1> QED
  BY <1>2, <1>3

(* What FileRow makes of a file: the row that takes it. *)
LEMMA FileRowTakes ==
  ASSUME Types, NEW n \in Shot, NEW z \in Size, FileRow(n, z)
  PROVE  \/ /\ Awaiting = {} /\ rows' = Append(rows, Row("file", n, n))
            /\ Row("file", n, n) \in LogRow /\ Row("file", n, n).file = n
            /\ Row("file", n, n).shot = n /\ Row("file", n, n).by = "file"
            /\ ~Row("file", n, n).awaiting
         \/ \E k \in 1 .. Len(rows), r \in LogRow :
              /\ Awaiting # {} /\ k = Oldest(Awaiting) /\ rows[k].awaiting
              /\ \A l \in Awaiting : k <= l
              /\ rows' = [rows EXCEPT ![k] = r] /\ r.file = n /\ ~r.awaiting
              /\ r.by = rows[k].by /\ r.shot = rows[k].shot
<1>1. CASE Awaiting = {}
  <2>1. rows' = Append(rows, Row("file", n, n))
    BY <1>1, FileRowIs
  <2> QED BY <1>1, <2>1, NewRowTypes DEF Row
<1>2. CASE Awaiting # {}
  <2> DEFINE k == Oldest(Awaiting)
             r == [rows[k] EXCEPT !.file = n, !.awaiting = FALSE]
  <2>1. k \in 1 .. Len(rows) /\ rows[k].awaiting /\ \A l \in Awaiting : k <= l
    BY <1>2, AwaitingIs
  <2>2. rows' = [rows EXCEPT ![k] = r]
    BY <1>2, FileRowIs
  <2>3. k = Oldest(Awaiting)
    OBVIOUS
  <2> HIDE DEF k
  <2>4. rows[k] \in LogRow
    BY <2>1, TypesMeans, ElementOfSeq
  <2>5. r \in LogRow /\ r.file = n /\ ~r.awaiting /\ r.by = rows[k].by /\ r.shot = rows[k].shot
    BY <2>4, RowTypes DEF LogRow
  <2> HIDE DEF r
  <2> QED BY <1>2, <2>1, <2>2, <2>3, <2>5
<1> QED
  BY <1>1, <1>2

LEMMA HandleEventApart ==
  ASSUME Single, HandleEvent
  PROVE  Apart'
<1> DEFINE e == Head(queue)
<1>1. /\ UNCHANGED <<shot, event, timer, slot, sizes, emitted, watch, catchup, on>>
      /\ queue # <<>> /\ queue' = Tail(queue) /\ Types
      /\ ~on => UNCHANGED <<rows, mark>>
      /\ on /\ e.type = "pulse" => PulseRow(e.shot)
      /\ on /\ e.type # "pulse" => FileRow(e.shot, e.size)
  BY ApartMeans DEF HandleEvent, recorder, settle, Ignored
<1>2. /\ e \in Event /\ e.shot \in Shot /\ (e.type # "pulse" => e.type = "file")
      /\ e.size \in Size /\ (e.type = "file" => e.size = shot[e.shot].size)
  <2>1. e \in Event /\ e = queue[1] /\ 1 \in 1 .. Len(queue)
    BY <1>1, QueueShrinks
  <2>2. e.type = "file" => e.size = shot[e.shot].size
    BY <2>1, ApartMeans DEF Carried
  <2> QED BY <2>1, <2>2 DEF Event
<1>3. /\ \A j, k \in 1 .. Len(queue') : queue'[j].type = "file" /\ queue'[k] = queue'[j] => j = k
      /\ Queued' \subseteq Queued
      /\ e.type = "file" => e.shot \in Queued \ Queued'
  BY <1>1, HeadOnce
<1>4. /\ Settling' = Settling /\ Done' = Done /\ \A m \in Shot : Mtime(m)' = Mtime(m)
  BY <1>1 DEF Settling, Done, Mtime, MtimeAt
<1> HIDE DEF e
<1>5. Emitted' /\ Stopped' /\ Carried'
  <2>1. \A k \in 1 .. Len(queue') : k + 1 \in 1 .. Len(queue) /\ queue'[k] = queue[k + 1]
    BY <1>1, QueueShrinks
  <2>2. Carried'
    BY <1>1, <2>1, StillCarried
  <2> QED BY <1>1, <1>4, <2>2, ApartMeans DEF Emitted, Stopped
<1>6. /\ Queued \cap Covered = {} /\ Known \subseteq Shot /\ Logged \ {0} \subseteq Shot
      /\ catchup.files \cap Logged = {} /\ 0 \notin Shot /\ catchup.files \subseteq Shot
      /\ Known \subseteq Done
  BY ApartMeans, Bounds, TypesMeans DEF Once, Closed, Known, Covered, Done
<1>7. ASSUME \A k, l \in 1 .. Len(rows') : rows'[k].file = rows'[l].file /\ rows'[k].file # 0 => k = l,
             \/ Logged' \ {0} = Logged \ {0} /\ mark' = mark
             \/ /\ e.type = "file" /\ Logged' \ {0} = (Logged \ {0}) \cup {e.shot}
                /\ mark' >= mark /\ mark' >= Mtime(e.shot)
                /\ mark \in Nat /\ mark' \in Nat /\ \A m \in Shot : Mtime(m) \in Nat
      PROVE  Apart'
  <2>1. /\ Covered' = Covered \/ (e.type = "file" /\ Covered' = Covered \cup {e.shot})
        /\ Known' \subseteq Known
    BY <1>1, <1>3, <1>7 DEF Covered, Known
  <2>2. Once'
    <3>1. catchup.files \cap Logged' = {}
      BY <1>1, <1>3, <1>6, <1>7 DEF Covered
    <3>2. Queued' \cap Covered' = {}
      BY <1>3, <1>6, <2>1
    <3> QED BY <1>1, <1>3, <1>7, <3>1, <3>2 DEF Once
  <2>3. Closed' /\ Unseen'
    BY <1>1, <1>4, <2>1, ApartMeans DEF Closed, Unseen
  <2>4. Marked'
    BY <1>2, <1>4, <1>6, <1>7, ApartMeans DEF Marked
  <2> QED BY <1>5, <2>2, <2>3, <2>4, ApartNext
<1>8. CASE ~on
  <2>1. Logged' = Logged
    BY <1>1, <1>8 DEF Logged
  <2> QED BY <1>1, <1>7, <1>8, <2>1, ApartMeans DEF Once
<1>9. CASE on /\ e.type = "pulse"
  <2> DEFINE r == Row("pulse", e.shot, 0)
  <2>1. rows' = Append(rows, r) /\ mark' = mark
    BY <1>1, <1>9 DEF PulseRow
  <2>2. r \in LogRow /\ r.file = 0
    BY <1>2, NewRowTypes DEF Row
  <2> HIDE DEF r
  <2>3. Logged' = Logged \cup {0}
    BY <1>1, <2>1, <2>2, RowsAppend
  <2>4. \A k, l \in 1 .. Len(rows') : rows'[k].file = rows'[l].file /\ rows'[k].file # 0 => k = l
    BY <1>1, <2>1, <2>2, RowsGrow, ApartMeans DEF Once
  <2> QED BY <1>7, <2>1, <2>3, <2>4
<1>10. CASE on /\ e.type = "file"
  <2>1. FileRow(e.shot, e.size) /\ mark' = Later(Mtime(e.shot)) /\ e.type = "file"
    BY <1>1, <1>2, <1>10 DEF FileRow, Mtime
  <2>2. e.shot \notin Logged
    BY <1>2, <1>3, <1>6, <1>10 DEF Covered
  <2>3. mark' >= mark /\ mark' >= Mtime(e.shot) /\ mark \in Nat /\ mark' \in Nat
        /\ \A m \in Shot : Mtime(m) \in Nat
    BY <1>1, <1>2, <2>1, LaterIs, MtimeNow, MtimeOrder, TypesMeans
  <2>4. /\ \A k, l \in 1 .. Len(rows') : rows'[k].file = rows'[l].file /\ rows'[k].file # 0 => k = l
        /\ Logged' \ {0} = (Logged \ {0}) \cup {e.shot}
    <3>1. CASE Awaiting = {}
      BY <1>1, <1>2, <2>1, <2>2, <3>1, FileRowTakes, FileAdded
    <3>2. CASE Awaiting # {}
      <4>1. PICK k \in 1 .. Len(rows), r \in LogRow :
              /\ rows[k].awaiting /\ rows' = [rows EXCEPT ![k] = r] /\ r.file = e.shot /\ ~r.awaiting
        BY <1>1, <1>2, <2>1, <3>2, FileRowTakes
      <4> QED BY <1>2, <2>2, <4>1, FileAdded
    <3> QED BY <3>1, <3>2
  <2> QED BY <1>7, <2>1, <2>3, <2>4
<1> QED
  BY <1>2, <1>8, <1>9, <1>10

LEMMA RowApart ==
  ASSUME Single, NEW k \in 1 .. Len(rows), WindowPasses(k) \/ EditRow(k)
  PROVE  Apart'
<1> DEFINE r == [rows[k] EXCEPT !.awaiting = FALSE]
<1>1. /\ UNCHANGED <<shot, event, timer, slot, sizes, emitted, watch, queue, mark, catchup, on>>
      /\ rows[k].awaiting /\ rows' = [rows EXCEPT ![k] = r] /\ Types
  BY ApartMeans DEF WindowPasses, EditRow, Awaiting, recorder, settle
<1>2. r \in LogRow /\ r.file = rows[k].file
  <2>1. rows[k] \in LogRow
    BY <1>1, TypesMeans, ElementOfSeq
  <2> QED BY <2>1, RowTypes DEF LogRow
<1> HIDE DEF r
<1>3. /\ Len(rows') = Len(rows) /\ \A j \in 1 .. Len(rows) : rows'[j].file = rows[j].file
  BY <1>1, <1>2, RowsChange
<1>4. /\ Logged' = Logged /\ Covered' = Covered /\ Queued' = Queued /\ Known' = Known
      /\ Settling' = Settling /\ Done' = Done /\ \A m \in Shot : Mtime(m)' = Mtime(m)
  <2>1. Logged' = Logged
    BY <1>3 DEF Logged
  <2> QED BY <1>1, <2>1 DEF Covered, Queued, Known, Settling, Done, Mtime, MtimeAt
<1>5. Logged \ {0} \subseteq Shot
  BY ApartMeans DEF Closed, Known, Covered, Done
<1>6. Carried'
  BY <1>1, StillCarried
<1> QED
  BY <1>1, <1>3, <1>4, <1>5, <1>6, ApartMeans, ApartNext
     DEF Once, Closed, Emitted, Unseen, Stopped, Marked

(* Steps that change neither the folder nor the rows. *)
LEMMA CatchupApart ==
  ASSUME Single, UNCHANGED <<shot, event, timer, slot, sizes, emitted, watch, queue, rows, mark>>,
         Covered' = Covered, catchup'.files \subseteq catchup.files
  PROVE  Apart'
<1>1. /\ Logged' = Logged /\ Queued' = Queued /\ Known' = Known
      /\ Settling' = Settling /\ Done' = Done /\ \A m \in Shot : Mtime(m)' = Mtime(m)
  BY DEF Logged, Queued, Known, Settling, Done, Mtime, MtimeAt
<1>2. Logged \ {0} \subseteq Shot
  BY ApartMeans DEF Closed, Known, Covered, Done
<1> QED
  BY <1>1, <1>2, StillCarried, ApartMeans, ApartNext
     DEF Once, Closed, Emitted, Unseen, Stopped, Marked

LEMMA ScanApart ==
  ASSUME Single, Scan
  PROVE  Apart'
<1>1. /\ UNCHANGED <<shot, event, timer, slot, sizes, emitted, watch, queue, rows, mark, on>>
      /\ catchup.pc = "scan" /\ catchup.files = {} /\ catchup \in Catchup /\ Quiet /\ mark \in Nat
  BY KeptMeans, ApartMeans, TypesMeans DEF Scan, Scanning, recorder, settle
<1>2. /\ catchup'.skipped = catchup.skipped /\ Offered \subseteq Begun
      /\ catchup'.files \in {Offered, {}}
  BY <1>1 DEF Scan, Catchup, Offered, Begun
<1>3. Begun \subseteq Done
  BY <1>1, KeptMeans, ApartMeans DEF InOrder, Begun, Done, Quiet, Landing
<1>4. Queued' = {} /\ Queued = {} /\ Settling' = {} /\ Done' = Done /\ Logged' = Logged
      /\ \A m \in Shot : Mtime(m)' = Mtime(m)
  <2>1. queue = <<>> /\ Settling = {}
    BY <1>1 DEF Quiet
  <2>2. Len(queue) = 0
    BY <2>1
  <2>3. Queued = {}
    BY <2>2 DEF Queued
  <2>4. Queued' = Queued
    BY <1>1 DEF Queued
  <2>5. Settling' = Settling
    BY <1>1 DEF Settling
  <2>6. Done' = Done /\ Logged' = Logged /\ \A m \in Shot : Mtime(m)' = Mtime(m)
    BY <1>1 DEF Done, Logged, Mtime, MtimeAt
  <2> QED BY <2>1, <2>3, <2>4, <2>5, <2>6
<1>5. Logged \ {0} \subseteq Shot /\ \A m \in Shot : Mtime(m) \in Nat
  BY MtimeOrder, ApartMeans DEF Closed, Known, Covered, Done
<1>6. Offered \cap Logged = {}
  BY <1>1, <1>5, ApartMeans, Bounds DEF Offered, Marked
<1>7. Once'
  BY <1>1, <1>2, <1>4, <1>6, ApartMeans DEF Once
<1>8. Closed'
  BY <1>1, <1>2, <1>3, <1>4, ApartMeans DEF Closed, Known, Covered
<1>9. Emitted' /\ Unseen' /\ Stopped' /\ Marked'
  BY <1>1, <1>4, <1>5, ApartMeans DEF Emitted, Unseen, Stopped, Marked
<1>10. Carried'
  BY <1>1, StillCarried
<1> QED
  BY <1>7, <1>8, <1>9, <1>10, ApartNext

LEMMA AddNextApart ==
  ASSUME Single, AddNext
  PROVE  Apart'
<1> DEFINE n == Oldest(catchup.files)
           r == Row("catchup", n, n)
<1>1. /\ UNCHANGED <<shot, event, timer, slot, sizes, emitted, watch, queue, on>>
      /\ catchup.pc = "add" /\ Types
      /\ rows' = Append(rows, r) /\ mark' = Later(Mtime(n))
  BY ApartMeans DEF AddNext, recorder, settle
<1>2. n \in catchup.files /\ n \in Shot
  BY <1>1, FilesAre
<1>3. r \in LogRow /\ r.file = n
  BY <1>2, NewRowTypes DEF Row
<1>4. /\ catchup'.skipped = catchup.skipped /\ catchup'.files = catchup.files \ {n}
  BY <1>1, AddNextIs
<1> HIDE DEF n, r
<1>5. n \notin Logged /\ n # 0
  BY <1>2, ApartMeans, Bounds DEF Once
<1>6. /\ \A k, l \in 1 .. Len(rows') : rows'[k].file = rows'[l].file /\ rows'[k].file # 0 => k = l
      /\ Logged' \ {0} = (Logged \ {0}) \cup {n}
  BY <1>1, <1>2, <1>3, <1>5, FileAdded
<1>7. /\ Covered' = Covered /\ Queued' = Queued /\ Known' = Known
      /\ Settling' = Settling /\ Done' = Done /\ \A m \in Shot : Mtime(m)' = Mtime(m)
  <2>1. Covered' = Covered
    BY <1>2, <1>4, <1>5, <1>6 DEF Covered
  <2> QED BY <1>1, <2>1 DEF Queued, Known, Settling, Done, Mtime, MtimeAt
<1>8. Once'
  <2>1. catchup'.files \cap Logged' = {}
    <3>1. catchup.files \subseteq Shot /\ 0 \notin Shot
      BY <1>1, TypesMeans, Bounds DEF Catchup
    <3> QED BY <1>4, <1>6, <3>1, ApartMeans DEF Once
  <2> QED BY <1>1, <1>6, <1>7, <2>1, ApartMeans DEF Once
<1>9. Closed' /\ Emitted' /\ Unseen' /\ Stopped'
  BY <1>1, <1>7, ApartMeans DEF Closed, Emitted, Unseen, Stopped
<1>10. Marked'
  <2>1. mark' >= mark /\ mark' >= Mtime(n) /\ mark \in Nat /\ mark' \in Nat
        /\ \A m \in Shot : Mtime(m) \in Nat
    BY <1>1, <1>2, LaterIs, MtimeNow, MtimeOrder, TypesMeans
  <2>2. Logged \ {0} \subseteq Shot
    BY ApartMeans DEF Closed, Known, Covered, Done
  <2> QED BY <1>2, <1>6, <1>7, <2>1, <2>2, ApartMeans DEF Marked
<1>11. Carried'
  BY <1>1, StillCarried
<1> QED
  BY <1>8, <1>9, <1>10, <1>11, ApartNext

LEMMA StepSingle ==
  ASSUME Habits = {}
  PROVE  Single /\ [Next]_vars => Single'
<1> SUFFICES ASSUME Single, [Next]_vars PROVE Apart'
  BY StepKept, StepSettled DEF Single
<1>1. CASE Recorder
  BY <1>1, FireApart, LandApart DEF Recorder
<1>2. CASE FolderSource
  BY <1>2, ConsiderApart, SettleBeginsApart, SettleResumesApart DEF FolderSource, SettleFails
<1>3. CASE StopClick \/ SaveClick
  BY <1>3, ClearedApart DEF StopClick, SaveClick, window
<1>4. CASE StartClick
  <2>1. catchup'.files = catchup.files /\ catchup'.skipped = catchup.skipped
    BY <1>4, TypesMeans, ApartMeans DEF StartClick, Catchup
  <2> QED BY <1>4, <2>1, ClearedApart DEF StartClick
<1>5. ASSUME NEW add \in SUBSET catchup.files, Choose(add) PROVE Apart'
  <2>1. Covered' = Covered /\ catchup'.files \subseteq catchup.files
    BY <1>5 DEF Choose, Covered, Logged
  <2> QED BY <1>5, <2>1, CatchupApart DEF Choose, recorder, settle
<1>6. CASE StopAnswers
  <2>1. Covered' = Covered
    BY <1>6 DEF StopAnswers, Covered, Logged
  <2> QED BY <1>6, <2>1, CatchupApart DEF StopAnswers, recorder, settle
<1>7. CASE UNCHANGED vars
  <2>1. Covered' = Covered
    BY <1>7 DEF vars, Covered, Logged
  <2> QED BY <1>7, <2>1, CatchupApart DEF vars
<1>8. CASE User
  BY <1>3, <1>4, <1>5, <1>8, RowApart DEF User
<1> QED
  BY <1>1, <1>2, <1>6, <1>7, <1>8, TickApart, HandleEventApart, RowApart, ScanApart, AddNextApart
     DEF Next

-----------------------------------------------------------------------------
(* The file of a row *)

Fired == {n \in Shot : shot[n].state # "no"}
PulseRows == {k \in 1 .. Len(rows) : rows[k].by = "pulse"}
Pulses == {k \in 1 .. Len(queue) : queue[k].type = "pulse"}

(* A pulse is of a shot that was fired, and comes before the shot's file. *)
PulseShots ==
    /\ \A m \in Fired : \A l \in 1 .. m - 1 : l \in Fired
    /\ \A k \in PulseRows : rows[k].shot \in Fired
    /\ \A k \in Pulses : queue[k].shot \in Fired \ Covered
    /\ \A k \in Pulses, j \in 1 .. Len(queue) :
          j < k /\ queue[j].type = "file" => queue[j].shot # queue[k].shot

(* Only a pulse's row waits; any other has its own file. *)
RowKinds ==
    \A k \in 1 .. Len(rows) :
        /\ rows[k].awaiting => k \in PulseRows
        /\ k \in PulseRows \/ rows[k].file = rows[k].shot

(* Pulses are handled in the order of their shots. *)
PulseOrder ==
    /\ \A k, l \in PulseRows : k < l => rows[k].shot < rows[l].shot
    /\ \A k, l \in Pulses : k < l => queue[k].shot < queue[l].shot
    /\ \A k \in PulseRows, l \in Pulses : rows[k].shot < queue[l].shot

(* What the first start offers was fired before it, unheard. *)
FirstStart ==
    /\ starts = 0 => rows = <<>> /\ ~on /\ catchup.pc = "no"
                     /\ catchup.files \cup catchup.skipped = {}
    /\ starts = 0 \/ (starts = 1 /\ catchup.pc = "scan") => \A n \in Shot : ~shot[n].heard
    /\ starts = 1 => \A n \in catchup.files \cup catchup.skipped : ~shot[n].heard

(* The condition of RightFile, and what keeps it true: the rows that wait  *)
(* are those of the shots whose file has not been logged.                  *)
Ideal ==
    /\ starts = 1 /\ on
    /\ \A n \in Fired : shot[n].heard /\ shot[n].state # "unsaved"
Matched ==
    Ideal =>
        /\ catchup.files \cup catchup.skipped = {}
        /\ \A k \in 1 .. Len(rows) : rows[k].file \in {0, rows[k].shot}
        /\ \A k \in PulseRows : rows[k].awaiting <=> rows[k].shot \notin Logged
        /\ \A n \in Fired : \/ \E k \in PulseRows : rows[k].shot = n
                            \/ \E k \in Pulses : queue[k].shot = n

Paired == PulseShots /\ RowKinds /\ PulseOrder /\ FirstStart /\ Matched
Coupled == Single /\ Paired

LEMMA InitPaired == Init => Paired
<1> SUFFICES ASSUME Init PROVE Paired
  OBVIOUS
<1>1. /\ rows = <<>> /\ queue = <<>> /\ Len(rows) = 0 /\ Len(queue) = 0 /\ ~on
      /\ catchup.pc = "no" /\ catchup.files = {} /\ catchup.skipped = {}
      /\ \A n \in Shot : ~shot[n].heard
  BY DEF Init, NoCatchup
<1>2. Fired = {} /\ PulseRows = {} /\ Pulses = {}
  BY <1>1 DEF Init, Fired, PulseRows, Pulses
<1> QED
  BY <1>1, <1>2 DEF Paired, PulseShots, RowKinds, PulseOrder, FirstStart, Matched

LEMMA PairedMeans ==
  Coupled <=>
    /\ Single /\ Types
    /\ PulseShots /\ RowKinds /\ PulseOrder /\ FirstStart /\ Matched
BY ApartMeans DEF Coupled, Paired

LEMMA PairedNext ==
  ASSUME PulseShots', RowKinds', PulseOrder', FirstStart', Matched'
  PROVE  Paired'
BY DEF Paired

(* What is fired, heard and unsaved, as far as the rows are concerned. *)
SameShots == \A n \in Shot : /\ shot'[n].heard = shot[n].heard
                             /\ shot'[n].state = "no" <=> shot[n].state = "no"
                             /\ shot'[n].state = "unsaved" <=> shot[n].state = "unsaved"

(* Steps that leave the rows alone, and queue a file at most. *)
LEMMA StillPaired ==
  ASSUME Coupled, SameShots, UNCHANGED <<rows, starts, on>>,
         catchup'.pc = catchup.pc, catchup'.files \cup catchup'.skipped = catchup.files \cup catchup.skipped,
         \/ queue' = queue
         \/ \E n \in Shot, z \in Size : queue' = Append(queue, [type |-> "file", shot |-> n, size |-> z])
  PROVE  Paired'
<1>1. /\ Fired' = Fired /\ PulseRows' = PulseRows /\ Logged' = Logged /\ Fired \subseteq Shot
      /\ Covered' = Covered /\ (Ideal' <=> Ideal)
  BY DEF SameShots, Fired, PulseRows, Logged, Covered, Ideal
<1>2. /\ Pulses' = Pulses /\ \A k \in Pulses : queue'[k] = queue[k] /\ k \in 1 .. Len(queue)
      /\ \A k \in Pulses, j \in 1 .. Len(queue') : j < k => j \in 1 .. Len(queue) /\ queue'[j] = queue[j]
  <2>1. CASE queue' = queue
    BY <2>1 DEF Pulses
  <2>2. ASSUME NEW n \in Shot, NEW z \in Size,
               queue' = Append(queue, [type |-> "file", shot |-> n, size |-> z])
        PROVE  /\ Pulses' = Pulses /\ \A k \in Pulses : queue'[k] = queue[k] /\ k \in 1 .. Len(queue)
               /\ \A k \in Pulses, j \in 1 .. Len(queue') :
                     j < k => j \in 1 .. Len(queue) /\ queue'[j] = queue[j]
    <3> DEFINE e == [type |-> "file", shot |-> n, size |-> z]
    <3>1. e \in Event /\ e.type # "pulse" /\ Types
      BY PairedMeans DEF Event
    <3> HIDE DEF e
    <3>2. /\ Len(queue) \in Nat /\ Len(queue) + 1 \notin 1 .. Len(queue)
          /\ 1 .. Len(queue') = (1 .. Len(queue)) \cup {Len(queue) + 1}
          /\ \A k \in 1 .. Len(queue) : queue'[k] = queue[k] /\ k < Len(queue) + 1
          /\ queue'[Len(queue) + 1] = e
      BY <2>2, <3>1, QueueGrows DEF e
    <3>3. Pulses' = Pulses
      BY <3>1, <3>2 DEF Pulses
    <3>4. \A k \in Pulses, j \in 1 .. Len(queue') : j < k => j \in 1 .. Len(queue)
      BY <3>2 DEF Pulses
    <3> QED BY <3>2, <3>3, <3>4 DEF Pulses
  <2> QED BY <2>1, <2>2
<1>3. PulseShots'
  BY <1>1, <1>2, PairedMeans DEF PulseShots
<1>4. RowKinds' /\ PulseOrder'
  BY <1>1, <1>2, PairedMeans DEF RowKinds, PulseOrder
<1>5. FirstStart'
  <2>1. starts' = starts /\ catchup'.pc = catchup.pc /\ rows' = rows /\ on' = on
    OBVIOUS
  <2>2. \A n \in Shot : shot'[n].heard = shot[n].heard
    BY DEF SameShots
  <2>3. catchup.files \cup catchup.skipped \subseteq Shot
    BY PairedMeans, TypesMeans DEF Catchup
  <2> QED BY <2>1, <2>2, <2>3, PairedMeans DEF FirstStart
<1>6. Matched'
  BY <1>1, <1>2, PairedMeans DEF Matched
<1> QED
  BY <1>3, <1>4, <1>5, <1>6, PairedNext

LEMMA FirePaired ==
  ASSUME Coupled, Habits = {}, NEW n \in Shot, NEW heard \in BOOLEAN, NEW saved \in BOOLEAN,
         Fire(n, heard, saved)
  PROVE  Paired'
<1> DEFINE e == [type |-> "pulse", shot |-> n, size |-> 0]
<1>1. /\ UNCHANGED <<watch, starts, rows, mark, catchup, on>>
      /\ shot[n].state = "no" /\ catchup.pc # "scan" /\ (heard => watch)
      /\ \A m \in 1 .. n - 1 : shot[m].state # "no"
      /\ queue' = IF heard THEN Append(queue, e) ELSE queue
  BY DEF Fire, settle
<1>2. /\ \A m \in Shot : m # n => shot'[m] = shot[m]
      /\ shot'[n].state = IF saved THEN "fired" ELSE "unsaved"
      /\ shot'[n].heard = heard
      /\ e \in Event /\ e.type = "pulse" /\ e.shot = n /\ Types
  BY TypesMeans, PairedMeans, Bounds DEF Fire, ShotState, Event
<1> HIDE DEF e
<1>3. /\ Fired' = Fired \cup {n} /\ n \notin Fired /\ PulseRows' = PulseRows
      /\ Logged' = Logged /\ Covered' = Covered /\ Fired \subseteq Shot
  BY <1>1, <1>2 DEF Fired, PulseRows, Logged, Covered
<1>4. n \notin Known /\ n \notin Covered
  BY <1>1, PairedMeans, ApartMeans DEF Closed, Done, Known
<1>5. \A m \in Fired : m < n
  <2> SUFFICES ASSUME NEW m \in Fired, ~(m < n) PROVE FALSE
    OBVIOUS
  <2>1. m \in Nat /\ n \in Nat /\ n \in 1 .. m - 1
    BY <1>3, Bounds
  <2> QED BY <1>3, <2>1, PairedMeans DEF PulseShots
<1>6. /\ heard => Pulses' = Pulses \cup {Len(queue) + 1} /\ queue'[Len(queue) + 1] = e
      /\ ~heard => Pulses' = Pulses
      /\ \A k \in Pulses : queue'[k] = queue[k] /\ k \in 1 .. Len(queue)
                           /\ k < Len(queue) + 1 /\ ~(Len(queue) + 1 < k)
      /\ \A j \in 1 .. Len(queue') : j \in 1 .. Len(queue) \/ (heard /\ j = Len(queue) + 1)
      /\ \A j \in 1 .. Len(queue) : queue'[j] = queue[j]
      /\ Len(queue) \in Nat
  <2>1. CASE ~heard
    <3>1. queue' = queue /\ Len(queue) \in Nat
      BY <1>1, <1>2, <2>1, TypesMeans, LenProperties
    <3> QED BY <2>1, <3>1 DEF Pulses
  <2>2. CASE heard
    <3>1. queue' = Append(queue, e)
      BY <1>1, <2>2
    <3>2. /\ Len(queue) \in Nat /\ Len(queue) + 1 \notin 1 .. Len(queue)
          /\ 1 .. Len(queue') = (1 .. Len(queue)) \cup {Len(queue) + 1}
          /\ \A k \in 1 .. Len(queue) : queue'[k] = queue[k] /\ k < Len(queue) + 1
          /\ queue'[Len(queue) + 1] = e
      BY <1>2, <3>1, QueueGrows
    <3>3. Pulses' = Pulses \cup {Len(queue) + 1}
      BY <1>2, <3>2 DEF Pulses
    <3> QED BY <2>2, <3>2, <3>3 DEF Pulses
  <2> QED BY <2>1, <2>2
<1>7. \A j \in 1 .. Len(queue) : queue[j].type = "file" => queue[j].shot # n
  BY <1>4 DEF Known, Queued
<1>8. PulseShots'
  <2>1. \A m \in Fired' : \A l \in 1 .. m - 1 : l \in Fired'
    <3>1. \A l \in 1 .. n - 1 : l \in Fired
      BY <1>1, Bounds DEF Fired
    <3> QED BY <1>3, <3>1, PairedMeans DEF PulseShots
  <2>2. \A k \in PulseRows' : rows'[k].shot \in Fired'
    BY <1>1, <1>3, PairedMeans DEF PulseShots
  <2>3. \A k \in Pulses' : queue'[k].shot \in Fired' \ Covered'
    BY <1>2, <1>3, <1>4, <1>6, PairedMeans DEF PulseShots
  <2>4. ASSUME NEW k \in Pulses', NEW j \in 1 .. Len(queue'), j < k, queue'[j].type = "file"
        PROVE  queue'[j].shot # queue'[k].shot
    <3>1. j \in 1 .. Len(queue) /\ queue'[j] = queue[j]
      BY <1>2, <1>6, <2>4
    <3> QED BY <1>2, <1>6, <1>7, <2>4, <3>1, PairedMeans DEF PulseShots
  <2> QED BY <2>1, <2>2, <2>3, <2>4 DEF PulseShots
<1>9. RowKinds'
  BY <1>1, <1>3, PairedMeans DEF RowKinds
<1>10. PulseOrder'
  <2>1. \A k \in Pulses : queue[k].shot \in Fired
    BY PairedMeans DEF PulseShots
  <2>2. \A k, l \in Pulses' : k < l => queue'[k].shot < queue'[l].shot
    BY <1>2, <1>5, <1>6, <2>1, PairedMeans DEF PulseOrder
  <2>3. \A k \in PulseRows, l \in Pulses' : rows[k].shot < queue'[l].shot
    BY <1>2, <1>5, <1>6, PairedMeans DEF PulseOrder, PulseShots
  <2> QED BY <1>1, <1>3, <2>2, <2>3, PairedMeans DEF PulseOrder
<1>11. FirstStart'
  <2>1. starts = 0 => ~heard
    BY <1>1, PairedMeans, ApartMeans, KeptMeans DEF FirstStart, Listens
  <2>2. n \notin catchup.files \cup catchup.skipped /\ catchup.files \cup catchup.skipped \subseteq Shot
    BY <1>2, <1>4, TypesMeans DEF Covered, Catchup
  <2>3. starts = 0 => \A m \in Shot : ~shot'[m].heard
    BY <1>2, <2>1, PairedMeans DEF FirstStart
  <2>4. starts = 1 => \A m \in catchup.files \cup catchup.skipped : ~shot'[m].heard
    BY <1>2, <2>2, PairedMeans DEF FirstStart
  <2> QED BY <1>1, <2>3, <2>4, PairedMeans DEF FirstStart
<1>12. Matched'
  <2> SUFFICES ASSUME Ideal' PROVE Matched'
    BY DEF Matched
  <2>1. Ideal /\ heard
    <3>1. starts = 1 /\ on
      BY <1>1 DEF Ideal
    <3>2. \A m \in Fired \cup {n} : shot'[m].heard /\ shot'[m].state # "unsaved"
      BY <1>3 DEF Ideal
    <3>3. heard
      BY <1>2, <3>2
    <3>4. \A m \in Fired : shot[m].heard /\ shot[m].state # "unsaved"
      BY <1>2, <1>3, <3>2
    <3> QED BY <3>1, <3>3, <3>4 DEF Ideal
  <2>2. \A m \in Fired \cup {n} : \/ \E k \in PulseRows : rows[k].shot = m
                                  \/ \E k \in Pulses' : queue'[k].shot = m
    BY <1>2, <1>6, <2>1, PairedMeans DEF Matched
  <2> QED BY <1>1, <1>3, <2>1, <2>2, PairedMeans DEF Matched
<1> QED
  BY <1>8, <1>9, <1>10, <1>11, <1>12, PairedNext

(* Steps that leave the events, the rows and what the log knows alone. *)
LEMMA PairsFrame ==
  ASSUME Coupled, UNCHANGED <<shot, queue, rows>>,
         catchup'.files \cup catchup'.skipped = catchup.files \cup catchup.skipped
  PROVE  /\ PulseShots' /\ RowKinds' /\ PulseOrder'
         /\ Fired' = Fired /\ PulseRows' = PulseRows /\ Pulses' = Pulses /\ Logged' = Logged
<1>1. /\ Fired' = Fired /\ PulseRows' = PulseRows /\ Logged' = Logged /\ Pulses' = Pulses
      /\ Covered' = Covered
  BY DEF Fired, PulseRows, Logged, Covered, Pulses
<1> QED
  BY <1>1, PairedMeans DEF PulseShots, RowKinds, PulseOrder

LEMMA SwitchPaired ==
  ASSUME Coupled, SaveClick \/ StartClick \/ StopAnswers
  PROVE  Paired'
<1>1. /\ UNCHANGED <<shot, queue, rows>>
      /\ catchup'.files = catchup.files /\ catchup'.skipped = catchup.skipped
      /\ starts \in Nat /\ catchup \in Catchup
  <2>1. catchup \in Catchup /\ starts \in Nat
    BY PairedMeans, TypesMeans, Bounds
  <2>2. CASE SaveClick \/ StopAnswers
    BY <2>1, <2>2 DEF SaveClick, StopAnswers, window, recorder
  <2>3. CASE StartClick
    BY <2>1, <2>3 DEF StartClick, Catchup, recorder
  <2> QED BY <2>2, <2>3
<1>2. /\ PulseShots' /\ RowKinds' /\ PulseOrder'
      /\ Fired' = Fired /\ PulseRows' = PulseRows /\ Pulses' = Pulses /\ Logged' = Logged
  BY <1>1, PairsFrame
<1>3. CASE SaveClick \/ (StartClick /\ starts # 0)
  <2>1. starts' = starts + 1 /\ starts # 0
    BY <1>3, PairedMeans DEF SaveClick, StartClick, FirstStart
  <2>2. starts' # 0 /\ starts' # 1
    BY <1>1, <2>1
  <2> QED BY <1>2, <2>2, PairedNext DEF FirstStart, Matched, Ideal
<1>4. CASE StartClick /\ starts = 0
  <2>1. /\ starts' = 1 /\ rows = <<>> /\ Len(rows) = 0
        /\ catchup.files \cup catchup.skipped = {} /\ \A n \in Shot : ~shot[n].heard
    BY <1>4, PairedMeans DEF StartClick, FirstStart
  <2>2. FirstStart'
    BY <1>1, <2>1 DEF FirstStart
  <2>3. PulseRows = {}
    BY <2>1 DEF PulseRows
  <2>4. ASSUME Ideal' PROVE Fired = {}
    BY <1>1, <1>2, <2>1, <2>4 DEF Ideal, Fired
  <2>5. Matched'
    BY <1>1, <1>2, <2>1, <2>3, <2>4 DEF Matched
  <2> QED BY <1>2, <2>2, <2>5, PairedNext
<1>5. CASE StopAnswers
  <2>1. starts # 0 /\ starts' = starts /\ ~on' /\ catchup' = catchup
    BY <1>5, PairedMeans DEF StopAnswers, FirstStart
  <2>2. FirstStart'
    BY <1>1, <2>1, PairedMeans DEF FirstStart
  <2> QED BY <1>2, <2>1, <2>2, PairedNext DEF Matched, Ideal
<1> QED
  BY <1>3, <1>4, <1>5

LEMMA ChoosePaired ==
  ASSUME Coupled, NEW add \in SUBSET catchup.files, Choose(add)
  PROVE  Paired'
<1>1. /\ UNCHANGED <<shot, queue, rows, starts, on>> /\ catchup.pc = "ask"
      /\ catchup'.pc \in {"no", "add"}
      /\ catchup'.files \cup catchup'.skipped = catchup.files \cup catchup.skipped
  BY DEF Choose, recorder
<1>2. /\ PulseShots' /\ RowKinds' /\ PulseOrder'
      /\ Fired' = Fired /\ PulseRows' = PulseRows /\ Pulses' = Pulses /\ Logged' = Logged
  BY <1>1, PairsFrame
<1>3. FirstStart'
  BY <1>1, PairedMeans DEF FirstStart
<1>4. Matched'
  <2>1. Ideal' <=> Ideal
    BY <1>1, <1>2 DEF Ideal
  <2> QED BY <1>1, <1>2, <2>1, PairedMeans DEF Matched
<1> QED
  BY <1>2, <1>3, <1>4, PairedNext

LEMMA ScanPaired ==
  ASSUME Coupled, Scan
  PROVE  Paired'
<1>1. /\ UNCHANGED <<shot, queue, rows, starts, on>> /\ catchup.pc = "scan"
      /\ catchup.files = {} /\ catchup \in Catchup /\ queue = <<>> /\ Len(queue) = 0
  BY PairedMeans, ApartMeans, KeptMeans, TypesMeans DEF Scan, recorder, Scanning, Quiet
<1>2. /\ catchup'.skipped = catchup.skipped /\ catchup'.files \in {Offered, {}}
      /\ catchup'.pc \in {"ask", "no"}
  BY <1>1 DEF Scan, Catchup
<1>3. /\ Pulses = {} /\ Pulses' = {} /\ Fired' = Fired /\ PulseRows' = PulseRows /\ Logged' = Logged
  BY <1>1 DEF Pulses, Fired, PulseRows, Logged
<1>4. PulseShots' /\ RowKinds' /\ PulseOrder'
  BY <1>1, <1>3, PairedMeans DEF PulseShots, RowKinds, PulseOrder
<1>5. starts # 0 /\ (starts = 1 => \A n \in Shot : ~shot[n].heard)
  BY <1>1, PairedMeans DEF FirstStart
<1>6. FirstStart'
  <2>1. catchup'.files \cup catchup'.skipped \subseteq Shot
    BY <1>1, <1>2 DEF Catchup, Offered
  <2> QED BY <1>1, <1>2, <1>5, <2>1 DEF FirstStart
<1>7. Matched'
  <2> SUFFICES ASSUME Ideal' PROVE Matched'
    BY DEF Matched
  <2>1. Ideal /\ starts = 1
    BY <1>1, <1>3 DEF Ideal
  <2>2. Fired = {}
    BY <1>5, <2>1 DEF Ideal, Fired
  <2>3. Offered = {}
    <3> SUFFICES ASSUME NEW n \in Offered PROVE FALSE
      OBVIOUS
    <3>1. n \in Shot /\ shot[n].state \in {"writing", "done"}
      BY PairedMeans, ApartMeans, KeptMeans DEF Offered, InOrder
    <3> QED BY <2>2, <3>1 DEF Fired
  <2> QED BY <1>1, <1>2, <1>3, <2>1, <2>2, <2>3, PairedMeans DEF Matched
<1> QED
  BY <1>4, <1>6, <1>7, PairedNext

LEMMA AddNextPaired ==
  ASSUME Coupled, AddNext
  PROVE  Paired'
<1> DEFINE n == Oldest(catchup.files)
           r == Row("catchup", n, n)
<1>1. /\ UNCHANGED <<shot, queue, starts, on>>
      /\ catchup.pc = "add" /\ Types /\ Single /\ rows' = Append(rows, r)
  BY PairedMeans DEF AddNext, recorder
<1>2. n \in catchup.files /\ n \in Shot
  BY <1>1, FilesAre
<1>3. /\ r \in LogRow /\ r.file = n /\ r.shot = n /\ r.by = "catchup" /\ ~r.awaiting
  BY <1>2, NewRowTypes DEF Row
<1>4. /\ catchup'.skipped = catchup.skipped /\ catchup'.files = catchup.files \ {n}
      /\ catchup'.pc \in {"add", "no"}
  BY <1>1, AddNextIs
<1> HIDE DEF n, r
<1>5. n \notin Logged /\ n # 0
  BY <1>2, PairedMeans, ApartMeans, Bounds DEF Once
<1>6. Logged' \ {0} = (Logged \ {0}) \cup {n}
  BY <1>1, <1>2, <1>3, <1>5, FileAdded
<1>7. Covered' = Covered /\ Fired' = Fired /\ Pulses' = Pulses
  BY <1>1, <1>2, <1>4, <1>5, <1>6 DEF Covered, Fired, Pulses
<1>8. /\ 1 .. Len(rows') = (1 .. Len(rows)) \cup {Len(rows) + 1}
      /\ \A k \in 1 .. Len(rows) : rows'[k] = rows[k]
      /\ rows'[Len(rows) + 1] = r
  BY <1>1, <1>3, RowsGrow
<1>9. PulseRows' = PulseRows /\ \A k \in PulseRows : rows'[k] = rows[k]
  BY <1>3, <1>8 DEF PulseRows
<1>10. PulseShots' /\ PulseOrder'
  BY <1>1, <1>7, <1>9, PairedMeans DEF PulseShots, PulseOrder
<1>11. RowKinds'
  BY <1>3, <1>8, <1>9, PairedMeans DEF RowKinds
<1>12. FirstStart'
  BY <1>1, <1>4, PairedMeans DEF FirstStart
<1>13. Matched'
  <2>1. Ideal' <=> Ideal
    BY <1>1, <1>7 DEF Ideal
  <2> QED BY <1>2, <2>1, PairedMeans DEF Matched
<1> QED
  BY <1>10, <1>11, <1>12, <1>13, PairedNext

LEMMA RowPaired ==
  ASSUME Coupled, Habits = {}, NEW k \in 1 .. Len(rows), WindowPasses(k) \/ EditRow(k)
  PROVE  Paired'
<1> DEFINE r == [rows[k] EXCEPT !.awaiting = FALSE]
<1>1. /\ UNCHANGED <<shot, starts, queue, catchup, on>> /\ Stray(k)
      /\ rows[k].awaiting /\ rows' = [rows EXCEPT ![k] = r] /\ Types
  BY PairedMeans DEF WindowPasses, EditRow, Awaiting, recorder
<1>2. r \in LogRow /\ r.file = rows[k].file /\ r.shot = rows[k].shot /\ r.by = rows[k].by
      /\ ~r.awaiting
  <2>1. rows[k] \in LogRow
    BY <1>1, TypesMeans, ElementOfSeq
  <2> QED BY <2>1, RowTypes DEF LogRow
<1> HIDE DEF r
<1>3. /\ Len(rows') = Len(rows)
      /\ \A j \in 1 .. Len(rows) : /\ rows'[j].file = rows[j].file /\ rows'[j].shot = rows[j].shot
                                   /\ rows'[j].by = rows[j].by
                                   /\ rows'[j].awaiting => rows[j].awaiting
  BY <1>1, <1>2, RowsChange
<1>4. /\ Logged' = Logged /\ PulseRows' = PulseRows /\ Fired' = Fired /\ Pulses' = Pulses
  BY <1>1, <1>3 DEF Logged, PulseRows, Fired, Pulses
<1>5. Covered' = Covered
  BY <1>1, <1>4 DEF Covered
<1>6. PulseShots' /\ PulseOrder'
  <2>1. \A j \in PulseRows : rows'[j].shot = rows[j].shot
    BY <1>3 DEF PulseRows
  <2> QED BY <1>1, <1>4, <1>5, <2>1, PairedMeans DEF PulseShots, PulseOrder
<1>7. RowKinds'
  BY <1>3, <1>4, PairedMeans DEF RowKinds
<1>8. FirstStart'
  <2>1. starts # 0
    BY PairedMeans DEF FirstStart
  <2> QED BY <1>1, <2>1, PairedMeans DEF FirstStart
<1>9. Matched'
  <2>1. Ideal' <=> Ideal
    BY <1>1, <1>4 DEF Ideal
  <2>2. ASSUME Ideal PROVE FALSE
    <3>1. k \in PulseRows /\ rows[k].shot \in Fired
      BY <1>1, PairedMeans DEF RowKinds, PulseShots
    <3>2. rows[k].shot \in Logged
      BY <1>1, <2>2, <3>1 DEF Stray, Ideal
    <3> QED BY <1>1, <2>2, <3>1, <3>2, PairedMeans DEF Matched
  <2> QED BY <2>1, <2>2 DEF Matched
<1> QED
  BY <1>6, <1>7, <1>8, <1>9, PairedNext

(* The pulses that remain when the first event has been handled. *)
LEMMA PulsesShrink ==
  ASSUME Coupled, queue # <<>>, queue' = Tail(queue)
  PROVE  /\ 1 \in 1 .. Len(queue) /\ queue[1] = Head(queue)
         /\ \A k \in 1 .. Len(queue') : k + 1 \in 1 .. Len(queue) /\ 1 < k + 1
                                        /\ queue'[k] = queue[k + 1]
         /\ \A k \in Pulses' : queue'[k].shot \in Fired \ Covered
         /\ \A k \in PulseRows, l \in Pulses' : rows[k].shot < queue'[l].shot
         /\ Head(queue).type = "pulse" => \A l \in Pulses' : Head(queue).shot < queue'[l].shot
         /\ Head(queue).type = "file" => \A l \in Pulses' : queue'[l].shot # Head(queue).shot
         /\ \A k \in Pulses : k # 1 => \E l \in Pulses' : queue'[l] = queue[k]
         /\ \A k, l \in Pulses' : k < l => queue'[k].shot < queue'[l].shot
         /\ \A k \in Pulses', j \in 1 .. Len(queue') :
               j < k /\ queue'[j].type = "file" => queue'[j].shot # queue'[k].shot
<1>1. /\ Len(queue) \in Nat \ {0} /\ Len(queue') = Len(queue) - 1 /\ queue[1] = Head(queue)
      /\ \A k \in 1 .. Len(queue') : queue'[k] = queue[k + 1]
  BY HeadIs, PairedMeans
<1>2. /\ 1 \in 1 .. Len(queue)
      /\ \A k \in 1 .. Len(queue') : k + 1 \in 1 .. Len(queue) /\ 1 < k + 1
      /\ \A j, k \in 1 .. Len(queue') : j < k => j + 1 < k + 1
  BY <1>1
<1>3. \A k \in Pulses' : k + 1 \in Pulses /\ queue'[k] = queue[k + 1] /\ 1 < k + 1
  BY <1>1, <1>2 DEF Pulses
<1>4. ASSUME NEW k \in Pulses, k # 1 PROVE \E l \in Pulses' : queue'[l] = queue[k]
  <2>1. k \in 1 .. Len(queue) /\ queue[k].type = "pulse"
    BY DEF Pulses
  <2>2. k - 1 \in 1 .. Len(queue') /\ (k - 1) + 1 = k
    BY <1>1, <1>4, <2>1
  <2>3. queue'[k - 1] = queue[k]
    BY <1>1, <2>2
  <2>4. k - 1 \in Pulses'
    BY <2>1, <2>2, <2>3 DEF Pulses
  <2> QED BY <2>3, <2>4
<1>5. \A k \in Pulses' : k \in 1 .. Len(queue')
  BY DEF Pulses
<1>6. \A k, l \in Pulses' : k < l => queue'[k].shot < queue'[l].shot
  BY <1>2, <1>3, <1>5, PairedMeans DEF PulseOrder
<1>7. ASSUME NEW k \in Pulses', NEW j \in 1 .. Len(queue'), j < k, queue'[j].type = "file"
      PROVE  queue'[j].shot # queue'[k].shot
  <2>1. /\ j + 1 \in 1 .. Len(queue) /\ j + 1 < k + 1 /\ k + 1 \in Pulses
        /\ queue'[j] = queue[j + 1] /\ queue'[k] = queue[k + 1]
    BY <1>1, <1>2, <1>3, <1>5, <1>7
  <2> QED BY <1>7, <2>1, PairedMeans DEF PulseShots
<1>8. ASSUME NEW l \in Pulses'
      PROVE  /\ queue'[l].shot \in Fired \ Covered
             /\ \A k \in PulseRows : rows[k].shot < queue'[l].shot
             /\ Head(queue).type = "pulse" => Head(queue).shot < queue'[l].shot
             /\ Head(queue).type = "file" => queue'[l].shot # Head(queue).shot
  <2>1. PICK p \in Pulses : queue'[l] = queue[p] /\ 1 < p
    BY <1>3
  <2>2. Head(queue).type = "pulse" => 1 \in Pulses
    BY <1>1, <1>2 DEF Pulses
  <2>3. queue[p].shot \in Fired \ Covered /\ \A k \in PulseRows : rows[k].shot < queue[p].shot
    BY PairedMeans DEF PulseShots, PulseOrder
  <2>4. Head(queue).type = "pulse" => Head(queue).shot < queue[p].shot
    BY <1>1, <2>1, <2>2, PairedMeans DEF PulseOrder
  <2>5. Head(queue).type = "file" => queue[p].shot # Head(queue).shot
    BY <1>1, <1>2, <2>1, PairedMeans DEF PulseShots
  <2> QED BY <2>1, <2>3, <2>4, <2>5
<1> QED
  BY <1>1, <1>2, <1>4, <1>6, <1>7, <1>8

LEMMA IgnoredPaired ==
  ASSUME Coupled, queue # <<>>, queue' = Tail(queue), ~on,
         UNCHANGED <<shot, starts, rows, catchup, on>>
  PROVE  Paired'
<1>1. /\ Fired' = Fired /\ PulseRows' = PulseRows /\ Covered' = Covered
  BY DEF Fired, PulseRows, Covered, Logged
<1>2. PulseShots' /\ PulseOrder'
  BY <1>1, PulsesShrink, PairedMeans DEF PulseShots, PulseOrder
<1>3. RowKinds' /\ FirstStart' /\ Matched'
  BY <1>1, PairedMeans DEF RowKinds, FirstStart, Matched, Ideal
<1> QED
  BY <1>2, <1>3, PairedNext

LEMMA PulseRowPaired ==
  ASSUME Coupled, queue # <<>>, queue' = Tail(queue), on,
         Head(queue).type = "pulse", PulseRow(Head(queue).shot),
         UNCHANGED <<shot, starts, catchup, on>>
  PROVE  Paired'
<1> DEFINE n == Head(queue).shot
           r == Row("pulse", n, 0)
<1>1. rows' = Append(rows, r) /\ Types /\ Single /\ starts # 0
  BY PairedMeans DEF PulseRow, FirstStart
<1>2. n \in Shot /\ n # 0 /\ 0 \notin Shot
  <2>1. Head(queue) \in Event
    BY <1>1, HeadIs
  <2> QED BY <2>1, Bounds DEF Event
<1>3. r \in LogRow /\ r.file = 0 /\ r.shot = n /\ r.by = "pulse" /\ r.awaiting
  BY <1>2, NewRowTypes DEF Row
<1>4. 1 \in Pulses /\ queue[1].shot = n /\ \A l \in Pulses' : n < queue'[l].shot
  BY PulsesShrink DEF Pulses
<1> HIDE DEF n, r
<1>5. /\ 1 .. Len(rows') = (1 .. Len(rows)) \cup {Len(rows) + 1}
      /\ \A k \in 1 .. Len(rows) : rows'[k] = rows[k] /\ k < Len(rows) + 1
      /\ rows'[Len(rows) + 1] = r /\ Len(rows) \in Nat
  BY <1>1, <1>3, RowsGrow
<1>6. /\ PulseRows' = PulseRows \cup {Len(rows) + 1} /\ PulseRows \subseteq 1 .. Len(rows)
      /\ \A k \in PulseRows : rows'[k] = rows[k]
  BY <1>3, <1>5 DEF PulseRows
<1>7. Logged' = Logged \cup {0}
  BY <1>1, <1>3, RowsAppend
<1>8. Covered' = Covered /\ Fired' = Fired
  BY <1>7 DEF Covered, Fired
<1>9. n \in Fired /\ n \notin Covered
  BY <1>4, PairedMeans DEF PulseShots
<1>10. PulseShots'
  <2>1. \A k \in PulseRows' : rows'[k].shot \in Fired'
    BY <1>3, <1>5, <1>6, <1>8, <1>9, PairedMeans DEF PulseShots
  <2>2. \A k \in Pulses' : queue'[k].shot \in Fired' \ Covered'
    BY <1>8, PulsesShrink, PairedMeans DEF PulseShots
  <2> QED BY <1>8, <2>1, <2>2, PulsesShrink, PairedMeans DEF PulseShots
<1>11. PulseOrder'
  <2>1. \A k \in PulseRows : rows[k].shot < n
    BY <1>4, PairedMeans DEF PulseOrder
  <2>2. \A k, l \in PulseRows' : k < l => rows'[k].shot < rows'[l].shot
    <3> SUFFICES ASSUME NEW k \in PulseRows', NEW l \in PulseRows', k < l
                 PROVE  rows'[k].shot < rows'[l].shot
      OBVIOUS
    <3>1. k \in PulseRows
      BY <1>5, <1>6
    <3>2. CASE l \in PulseRows
      BY <1>6, <3>1, <3>2, PairedMeans DEF PulseOrder
    <3>3. CASE l = Len(rows) + 1
      BY <1>3, <1>5, <1>6, <2>1, <3>1, <3>3
    <3> QED BY <1>6, <3>2, <3>3
  <2>4. \A k \in PulseRows', l \in Pulses' : rows'[k].shot < queue'[l].shot
    <3> SUFFICES ASSUME NEW k \in PulseRows', NEW l \in Pulses'
                 PROVE  rows'[k].shot < queue'[l].shot
      OBVIOUS
    <3>1. CASE k \in PulseRows
      <4>1. rows[k].shot < queue'[l].shot
        BY <3>1, PulsesShrink
      <4> QED BY <1>6, <3>1, <4>1
    <3>2. CASE k = Len(rows) + 1
      BY <1>3, <1>4, <1>5, <3>2
    <3> QED BY <1>6, <3>1, <3>2
  <2> QED BY <2>2, <2>4, PulsesShrink DEF PulseOrder
<1>12. RowKinds'
  BY <1>3, <1>5, <1>6, PairedMeans DEF RowKinds
<1>13. FirstStart'
  BY <1>1, PairedMeans DEF FirstStart
<1>14. Matched'
  <2> SUFFICES ASSUME Ideal' PROVE Matched'
    BY DEF Matched
  <2>1. Ideal
    BY <1>8 DEF Ideal
  <2>2. \A k \in PulseRows : rows[k].shot # 0
    BY <1>2, PairedMeans DEF PulseShots, Fired
  <2>3. \A k \in 1 .. Len(rows') : rows'[k].file \in {0, rows'[k].shot}
    BY <1>3, <1>5, <2>1, PairedMeans DEF Matched
  <2>4. \A k \in PulseRows' : rows'[k].awaiting <=> rows'[k].shot \notin Logged'
    <3>1. n \notin Logged'
      BY <1>2, <1>7, <1>9 DEF Covered
    <3> QED BY <1>3, <1>5, <1>6, <1>7, <2>1, <2>2, <3>1, PairedMeans DEF Matched
  <2>5. ASSUME NEW m \in Fired
        PROVE  (\E k \in PulseRows' : rows'[k].shot = m) \/ (\E k \in Pulses' : queue'[k].shot = m)
    <3>1. CASE m = n
      BY <1>3, <1>5, <1>6, <3>1
    <3>2. CASE \E k \in PulseRows : rows[k].shot = m
      BY <1>6, <3>2
    <3>3. CASE m # n /\ \E k \in Pulses : queue[k].shot = m
      <4>1. PICK k \in Pulses : queue[k].shot = m
        BY <3>3
      <4>2. PICK l \in Pulses' : queue'[l] = queue[k]
        BY <1>4, <3>3, <4>1, PulsesShrink
      <4> QED BY <4>1, <4>2
    <3> QED BY <2>1, <3>1, <3>2, <3>3, PairedMeans DEF Matched
  <2> QED BY <1>8, <2>1, <2>3, <2>4, <2>5, PairedMeans DEF Matched
<1> QED
  BY <1>10, <1>11, <1>12, <1>13, <1>14, PairedNext

(* The oldest row that waits is the row of the file that lands: every      *)
(* earlier shot has its file in the log.                                   *)
LEMMA OldestIsRight ==
  ASSUME Coupled, Ideal, queue # <<>>, Head(queue).type = "file",
         NEW k \in Awaiting, \A l \in Awaiting : k <= l
  PROVE  rows[k].shot = Head(queue).shot
<1> DEFINE n == Head(queue).shot
<1>1. /\ Types /\ Single /\ on /\ queue[1] = Head(queue) /\ 1 \in 1 .. Len(queue) /\ n \in Shot
      /\ 0 \notin Shot /\ Shot \subseteq Nat
  <2>1. Head(queue) \in Event /\ queue[1] = Head(queue) /\ Len(queue) \in Nat \ {0}
    BY HeadIs, PairedMeans
  <2> QED BY <2>1, PairedMeans, Bounds DEF Event, Ideal
<1>2. /\ n \in Begun /\ n \notin Logged /\ n \in Fired
  <2>1. n \in Queued
    BY <1>1 DEF Queued
  <2>2. n \in Begun /\ n \notin Covered
    BY <1>1, <2>1, ApartMeans, KeptMeans DEF Real, Once
  <2>3. n \in Fired
    BY <1>1, <2>2, ApartMeans, KeptMeans DEF InOrder, Begun, Fired
  <2> QED BY <1>1, <2>2, <2>3 DEF Covered
<1>3. queue[1].type = "file" /\ queue[1].shot = n
  BY <1>1
<1> HIDE DEF n
<1>4. ~ \E l \in Pulses : queue[l].shot = n
  <2> SUFFICES ASSUME NEW l \in Pulses, queue[l].shot = n PROVE FALSE
    OBVIOUS
  <2>1. l \in 1 .. Len(queue) /\ l # 1 /\ Len(queue) \in Nat
    BY <1>1, <1>3, TypesMeans, LenProperties DEF Pulses
  <2>2. 1 < l
    BY <2>1
  <2> QED BY <1>1, <1>3, <2>2, PairedMeans DEF PulseShots
<1>5. PICK j \in PulseRows : rows[j].shot = n
  BY <1>2, <1>4, PairedMeans DEF Matched
<1>6. rows[j].awaiting
  BY <1>2, <1>5, PairedMeans DEF Matched
<1>7. k <= j /\ k \in PulseRows /\ j \in Nat /\ k \in Nat
  BY <1>1, <1>5, <1>6, PairedMeans, TypesMeans, LenProperties DEF Awaiting, PulseRows, RowKinds
<1>8. CASE k = j
  BY <1>5, <1>8 DEF n
<1>9. CASE k < j
  <2> DEFINE m == rows[k].shot
  <2>1. m \in Fired /\ m < n /\ m \notin Logged /\ m \in Shot
    BY <1>5, <1>7, <1>9, PairedMeans DEF PulseOrder, PulseShots, Matched, Awaiting, Fired
  <2> HIDE DEF m
  <2>2. m \in 1 .. n - 1
    BY <1>1, <1>2, <2>1, Bounds DEF Begun
  <2>3. shot[m].state = "done"
    BY <1>1, <1>2, <2>1, <2>2, ApartMeans, KeptMeans DEF InOrder, Ideal
  <2>4. m \in Begun
    BY <1>1, <2>1, <2>3, ApartMeans, KeptMeans DEF InOrder, Begun
  <2>5. m \in Covered \/ \E i \in 1 .. 1 - 1 : queue[i].type = "file" /\ queue[i].shot = m
    BY <1>1, <1>3, <2>1, <2>4, ApartMeans, KeptMeans DEF QueueOrder
  <2>6. m \in Covered
    BY <2>5
  <2> QED BY <2>1, <2>6, PairedMeans DEF Matched, Covered
<1> QED
  BY <1>7, <1>8, <1>9

LEMMA FileRowPaired ==
  ASSUME Coupled, queue # <<>>, queue' = Tail(queue), on,
         Head(queue).type = "file", FileRow(Head(queue).shot, Head(queue).size),
         UNCHANGED <<shot, starts, catchup, on>>
  PROVE  Paired'
<1> DEFINE n == Head(queue).shot
           z == Head(queue).size
<1>1. /\ Types /\ Single /\ starts # 0 /\ n \in Shot /\ 0 \notin Shot /\ FileRow(n, z) /\ z \in Size
      /\ queue[1].shot = n /\ queue[1].type = "file" /\ 1 \in 1 .. Len(queue)
  <2>1. Head(queue) \in Event /\ queue[1] = Head(queue) /\ Len(queue) \in Nat \ {0}
    BY HeadIs, PairedMeans
  <2> QED BY <2>1, PairedMeans, Bounds DEF Event, FirstStart
<1>2. n \notin Logged
  <2>1. n \in Queued
    BY <1>1 DEF Queued
  <2> QED BY <1>1, <2>1, ApartMeans DEF Once, Covered
<1>3. /\ Fired' = Fired /\ (Ideal' <=> Ideal) /\ FirstStart'
  BY <1>1, PairedMeans DEF Fired, Ideal, FirstStart
<1>4. \A k \in Awaiting : Ideal /\ (\A l \in Awaiting : k <= l) => rows[k].shot = n
  BY OldestIsRight
<1> HIDE DEF n, z
<1>5. /\ Logged' \ {0} = (Logged \ {0}) \cup {n}
      /\ PulseRows' = PulseRows
      /\ \A k \in PulseRows : rows'[k].shot = rows[k].shot
      /\ RowKinds'
      /\ Ideal => \A k \in 1 .. Len(rows') : rows'[k].file \in {0, rows'[k].shot}
      /\ Ideal => \A k \in PulseRows : rows'[k].awaiting <=> (rows[k].awaiting /\ rows[k].shot # n)
  <2>1. CASE Awaiting = {}
    <3> DEFINE r == Row("file", n, n)
    <3>1. /\ rows' = Append(rows, r) /\ r \in LogRow /\ r.file = n
          /\ r.shot = n /\ r.by = "file" /\ ~r.awaiting
      BY <1>1, <2>1, FileRowTakes
    <3> HIDE DEF r
    <3>2. /\ 1 .. Len(rows') = (1 .. Len(rows)) \cup {Len(rows) + 1}
          /\ \A k \in 1 .. Len(rows) : rows'[k] = rows[k]
          /\ rows'[Len(rows) + 1] = r
      BY <1>1, <3>1, RowsGrow
    <3>3. Logged' \ {0} = (Logged \ {0}) \cup {n}
      BY <1>1, <1>2, <3>1, FileAdded
    <3>4. PulseRows' = PulseRows /\ \A k \in PulseRows : rows'[k] = rows[k] /\ ~rows[k].awaiting
      BY <2>1, <3>1, <3>2 DEF PulseRows, Awaiting
    <3>5. RowKinds'
      BY <3>1, <3>2, <3>4, PairedMeans DEF RowKinds
    <3>6. Ideal => \A k \in 1 .. Len(rows') : rows'[k].file \in {0, rows'[k].shot}
      BY <3>1, <3>2, PairedMeans DEF Matched
    <3> QED BY <3>3, <3>4, <3>5, <3>6
  <2>2. CASE Awaiting # {}
    <3>1. PICK k \in 1 .. Len(rows), r \in LogRow :
            /\ rows[k].awaiting /\ \A l \in Awaiting : k <= l
            /\ rows' = [rows EXCEPT ![k] = r] /\ r.file = n /\ ~r.awaiting
            /\ r.by = rows[k].by /\ r.shot = rows[k].shot
      BY <1>1, <2>2, FileRowTakes
    <3>2. /\ Len(rows') = Len(rows) /\ rows'[k] = r
          /\ \A j \in 1 .. Len(rows) : j # k => rows'[j] = rows[j]
      BY <1>1, <3>1, RowsChange
    <3>3. Logged' \ {0} = (Logged \ {0}) \cup {n}
      BY <1>1, <1>2, <3>1, FileAdded
    <3>4. k \in Awaiting /\ k \in PulseRows
      BY <3>1, PairedMeans DEF Awaiting, RowKinds
    <3>5. PulseRows' = PulseRows /\ \A j \in PulseRows : rows'[j].shot = rows[j].shot
      BY <3>1, <3>2 DEF PulseRows
    <3>6. RowKinds'
      BY <3>1, <3>2, <3>4, <3>5, PairedMeans DEF RowKinds
    <3>7. Ideal => rows[k].shot = n
      BY <1>4, <3>1, <3>4
    <3>8. Ideal => \A j \in 1 .. Len(rows') : rows'[j].file \in {0, rows'[j].shot}
      BY <3>1, <3>2, <3>7, PairedMeans DEF Matched
    <3>9. ASSUME Ideal, NEW j \in PulseRows
          PROVE  rows'[j].awaiting <=> (rows[j].awaiting /\ rows[j].shot # n)
      <4>1. CASE j = k
        BY <3>1, <3>2, <3>7, <3>9, <4>1
      <4>2. CASE j # k
        <5>1. j \in 1 .. Len(rows) /\ rows'[j] = rows[j] /\ k \in Nat /\ j \in Nat
          BY <1>1, <3>2, <4>2, TypesMeans, LenProperties DEF PulseRows
        <5>2. rows[j].shot # rows[k].shot
          <6>1. k < j \/ j < k
            BY <4>2, <5>1
          <6>2. rows[j].shot \in Nat /\ rows[k].shot \in Nat
            BY <3>4, PairedMeans, Bounds DEF PulseShots, Fired
          <6> QED BY <3>4, <6>1, <6>2, PairedMeans DEF PulseOrder
        <5> QED BY <3>7, <3>9, <5>1, <5>2
      <4> QED BY <4>1, <4>2
    <3> QED BY <3>3, <3>5, <3>6, <3>8, <3>9
  <2> QED BY <2>1, <2>2
<1>6. Covered' = Covered \cup {n}
  BY <1>5 DEF Covered
<1>7. \A k \in Pulses' : queue'[k].shot # n
  BY PulsesShrink DEF n
<1>8. PulseShots'
  <2>1. \A k \in PulseRows' : rows'[k].shot \in Fired'
    BY <1>3, <1>5, PairedMeans DEF PulseShots
  <2>2. \A k \in Pulses' : queue'[k].shot \in Fired' \ Covered'
    BY <1>3, <1>6, <1>7, PulsesShrink, PairedMeans DEF PulseShots
  <2> QED BY <1>3, <2>1, <2>2, PulsesShrink, PairedMeans DEF PulseShots
<1>9. PulseOrder'
  BY <1>5, PulsesShrink, PairedMeans DEF PulseOrder
<1>10. Matched'
  <2> SUFFICES ASSUME Ideal' PROVE Matched'
    BY DEF Matched
  <2>1. Ideal
    BY <1>3
  <2>2. ASSUME NEW k \in PulseRows
        PROVE  rows'[k].awaiting <=> rows[k].shot \notin Logged'
    <3>1. rows[k].shot \in Shot
      BY PairedMeans DEF PulseShots, Fired
    <3> QED BY <1>1, <1>5, <2>1, <3>1, PairedMeans DEF Matched
  <2>3. ASSUME NEW m \in Fired
        PROVE  (\E k \in PulseRows : rows[k].shot = m) \/ (\E k \in Pulses' : queue'[k].shot = m)
    <3>1. CASE \E k \in Pulses : queue[k].shot = m
      <4>1. PICK k \in Pulses : queue[k].shot = m
        BY <3>1
      <4>2. k # 1
        BY <1>1 DEF Pulses
      <4>3. PICK l \in Pulses' : queue'[l] = queue[k]
        BY <4>2, PulsesShrink
      <4> QED BY <4>1, <4>3
    <3> QED BY <2>1, <3>1, PairedMeans DEF Matched
  <2>4. catchup'.files \cup catchup'.skipped = {}
    BY <2>1, PairedMeans DEF Matched
  <2>5. \A k \in 1 .. Len(rows') : rows'[k].file \in {0, rows'[k].shot}
    BY <1>5, <2>1
  <2>6. \A k \in PulseRows' : rows'[k].awaiting <=> rows'[k].shot \notin Logged'
    BY <1>5, <2>2
  <2>7. \A m \in Fired' : \/ \E k \in PulseRows' : rows'[k].shot = m
                          \/ \E k \in Pulses' : queue'[k].shot = m
    <3> SUFFICES ASSUME NEW m \in Fired
                 PROVE  (\E k \in PulseRows' : rows'[k].shot = m)
                        \/ (\E k \in Pulses' : queue'[k].shot = m)
      BY <1>3
    <3>1. CASE \E k \in PulseRows : rows[k].shot = m
      <4>1. PICK k \in PulseRows : rows[k].shot = m
        BY <3>1
      <4>2. k \in PulseRows' /\ rows'[k].shot = m
        BY <1>5, <4>1
      <4> QED BY <4>2
    <3> QED BY <2>3, <3>1
  <2> QED BY <2>4, <2>5, <2>6, <2>7 DEF Matched
<1> QED
  BY <1>3, <1>5, <1>8, <1>9, <1>10, PairedNext

LEMMA HandleEventPaired ==
  ASSUME Coupled, HandleEvent
  PROVE  Paired'
<1>1. /\ UNCHANGED <<shot, starts, catchup, on>> /\ queue # <<>> /\ queue' = Tail(queue)
      /\ ~on => rows' = rows
      /\ on /\ Head(queue).type = "pulse" => PulseRow(Head(queue).shot)
      /\ on /\ Head(queue).type # "pulse" => FileRow(Head(queue).shot, Head(queue).size)
  BY DEF HandleEvent, recorder, Ignored
<1>2. Head(queue).type \in {"pulse", "file"}
  <2>1. Head(queue) \in Event
    BY <1>1, HeadIs, PairedMeans
  <2> QED BY <2>1 DEF Event
<1> QED
  BY <1>1, <1>2, IgnoredPaired, PulseRowPaired, FileRowPaired

(* Steps of the recorder and of the folder source. *)
LEMMA FolderPaired ==
  ASSUME Coupled,
         \/ \E n \in Shot : Create(n) \/ Touch(n) \/ Close(n)
         \/ FolderSource \/ Tick \/ StopClick \/ UNCHANGED vars
  PROVE  Paired'
<1>1. shot \in [Shot -> ShotState] /\ timer \in [Timer -> Timers] /\ Busy
  BY PairedMeans, TypesMeans
<1>2. UNCHANGED <<rows, starts, on, catchup>>
  BY DEF Create, Touch, Close, FolderSource, Consider, SettleBegins, SettleResumes, SettleFails,
         Tick, StopClick, vars, window
<1>3. SameShots
  <2>1. CASE shot' = shot
    BY <2>1 DEF SameShots
  <2>2. ASSUME NEW n \in Shot, Create(n) \/ Close(n) PROVE SameShots
    BY <1>1, <2>2 DEF Create, Close, SameShots, ShotState
  <2>3. CASE Tick
    BY <2>3, TickStates, PairedMeans DEF SameShots
  <2> QED BY <2>1, <2>2, <2>3 DEF Touch, FolderSource, Consider, SettleBegins, SettleResumes,
                                  SettleFails, StopClick, vars, recorder
<1>4. \/ queue' = queue
      \/ \E n \in Shot, z \in Size : queue' = Append(queue, [type |-> "file", shot |-> n, size |-> z])
  <2>1. ASSUME NEW i \in Timer, SettleResumes(i)
        PROVE  \/ queue' = queue
               \/ \E n \in Shot, z \in Size :
                     queue' = Append(queue, [type |-> "file", shot |-> n, size |-> z])
    <3>1. timer[i].file \in Shot
      BY <1>1, <2>1 DEF SettleResumes, Busy
    <3>2. shot[timer[i].file].size \in Size
      BY <1>1, <3>1 DEF ShotState
    <3> QED BY <2>1, <3>1, <3>2 DEF SettleResumes, Emits, LooksAgain, Announced
  <2> QED BY <2>1 DEF Create, Touch, Close, FolderSource, Consider, SettleBegins, SettleFails,
                      Tick, StopClick, vars, window
<1> QED
  BY <1>2, <1>3, <1>4, StillPaired

LEMMA StepCoupled ==
  ASSUME Habits = {}
  PROVE  Coupled /\ [Next]_vars => Coupled'
<1> SUFFICES ASSUME Coupled, [Next]_vars PROVE Paired'
  BY StepSingle DEF Coupled
<1>1. CASE Recorder
  BY <1>1, FirePaired, FolderPaired DEF Recorder
<1>2. CASE FolderSource \/ Tick \/ UNCHANGED vars
  BY <1>2, FolderPaired
<1>3. CASE User
  BY <1>3, SwitchPaired, FolderPaired, ChoosePaired, RowPaired DEF User
<1> QED
  BY <1>1, <1>2, <1>3, HandleEventPaired, RowPaired, SwitchPaired, ScanPaired, AddNextPaired
     DEF Next

(* While every shot is heard and saved, a row gets the file of its shot:   *)
(* the file of a landing goes to the oldest row that waits, and that row   *)
(* is the shot's, whatever pulses and files are on their way, in a survey  *)
(* without a stall, a failing look, a save or a start between two shots.   *)
THEOREM RightFileInRow ==
  ASSUME Habits = {}
  PROVE  Spec => []RightFile
<1>1. Coupled => RightFile
  BY PairedMeans DEF RightFile, Matched, Ideal, Fired
<1>2. Init => Coupled
  BY InitKept, InitSettled, InitApart, InitPaired DEF Coupled, Single
<1> QED
  BY <1>1, <1>2, StepCoupled, PTL DEF Spec

-----------------------------------------------------------------------------
(* The number of rows *)

FileRows == {k \in 1 .. Len(rows) : rows[k].by = "file"}
Pulsed == {rows[k].shot : k \in PulseRows}   \* shots with a row of their pulse
Filed == {rows[k].shot : k \in FileRows}     \* shots with a row of their file
Taken == {rows[k].file : k \in PulseRows} \ {0}
Passed == {rows[k].shot : k \in {j \in PulseRows : ~rows[j].awaiting}}

(* Shots whose file has gone to the row of another shot and that have no   *)
(* row themselves, and shots that have two rows, or may get a second one:  *)
(* their row does not wait and their file is still to come.  A second row  *)
(* is paid for by a shot without one.                                      *)
Spare == Taken \ Pulsed
Twice == {n \in Pulsed : n \in Filed \/ (n \in Passed \ Covered /\ shot[n].state # "unsaved")}
Paid == Cardinality(Twice) <= Cardinality(Spare)

Counted == Coupled /\ Paid

LEMMA OneToOne ==
  ASSUME NEW S, NEW T, IsFiniteSet(S), IsFiniteSet(T), NEW f \in [S -> T],
         \A x, y \in S : f[x] = f[y] => x = y
  PROVE  Cardinality(S) <= Cardinality(T)
<1>1. Cardinality(S) \in Nat /\ Cardinality(T) \in Nat
  BY FS_CardinalityType
<1>2. ASSUME Cardinality(T) < Cardinality(S) PROVE FALSE
  <2>1. \E x, y \in S : x # y /\ f[x] = f[y]
    BY <1>2, FS_PigeonHole
  <2> QED BY <2>1
<1> QED
  BY <1>1, <1>2

LEMMA ShotsFinite ==
  /\ IsFiniteSet(Shot)
  /\ \A S \in SUBSET Shot : IsFiniteSet(S) /\ Cardinality(S) \in Nat
  /\ \A S, T \in SUBSET Shot : S \subseteq T => Cardinality(S) <= Cardinality(T)
  /\ \A S \in SUBSET Shot, n \in Shot : n \notin S => Cardinality(S \cup {n}) = Cardinality(S) + 1
<1>1. IsFiniteSet(Shot)
  BY Bounds, FS_Interval DEF Shot
<1>2. \A S \in SUBSET Shot : IsFiniteSet(S) /\ Cardinality(S) \in Nat
  BY <1>1, FS_Subset, FS_CardinalityType
<1>3. \A S, T \in SUBSET Shot : S \subseteq T => Cardinality(S) <= Cardinality(T)
  BY <1>2, FS_Subset
<1>4. \A S \in SUBSET Shot, n \in Shot : n \notin S => Cardinality(S \cup {n}) = Cardinality(S) + 1
  BY <1>2, FS_AddElement
<1> QED
  BY <1>1, <1>2, <1>3, <1>4

LEMMA CountedMeans ==
  ASSUME Coupled
  PROVE  /\ Pulsed \subseteq Fired /\ Fired \subseteq Shot
         /\ Taken \subseteq Covered /\ Taken \subseteq Shot
         /\ Filed \subseteq Covered /\ Filed \subseteq Shot
         /\ Covered \subseteq Done /\ Done \subseteq Fired
         /\ Twice \subseteq Shot /\ Spare \subseteq Shot /\ Passed \subseteq Pulsed
         /\ Cardinality(Twice) \in Nat /\ Cardinality(Spare) \in Nat
<1>1. Pulsed \subseteq Fired /\ Fired \subseteq Shot
  BY PairedMeans DEF Pulsed, PulseShots, Fired
<1>2. Covered \subseteq Done /\ Done \subseteq Fired
  BY PairedMeans, ApartMeans DEF Closed, Known, Done, Fired
<1>3. Taken \subseteq Covered
  BY DEF Taken, PulseRows, Logged, Covered
<1>4. Filed \subseteq Covered
  <2> SUFFICES ASSUME NEW k \in FileRows PROVE rows[k].shot \in Covered
    BY DEF Filed
  <2>1. k \in 1 .. Len(rows) /\ k \notin PulseRows
    BY DEF FileRows, PulseRows
  <2>2. rows[k].file = rows[k].shot
    BY <2>1, PairedMeans DEF RowKinds
  <2>3. rows[k].shot \in Shot
    <3>1. rows[k] \in LogRow
      BY <2>1, PairedMeans, TypesMeans, ElementOfSeq
    <3> QED BY <3>1 DEF LogRow
  <2> QED BY <2>1, <2>2, <2>3, Bounds DEF Covered, Logged
<1>5. Twice \subseteq Shot /\ Spare \subseteq Shot /\ Passed \subseteq Pulsed
  BY <1>1, <1>2, <1>3 DEF Twice, Spare, Passed, Pulsed
<1> QED
  BY <1>1, <1>2, <1>3, <1>4, <1>5, ShotsFinite

(* Nothing new is paid for. *)
LEMMA StillPaid ==
  ASSUME Counted, Twice' \subseteq Twice, Spare \subseteq Spare', Spare' \subseteq Shot
  PROVE  Paid'
<1>1. /\ Twice \subseteq Shot /\ Spare \subseteq Shot
      /\ Cardinality(Twice) \in Nat /\ Cardinality(Spare) \in Nat
      /\ Cardinality(Twice) <= Cardinality(Spare)
  BY CountedMeans DEF Counted, Paid
<1>2. /\ Twice' \subseteq Shot
  BY <1>1
<1>3. /\ Cardinality(Twice') \in Nat /\ Cardinality(Spare') \in Nat
      /\ Cardinality(Twice') <= Cardinality(Twice) /\ Cardinality(Spare) <= Cardinality(Spare')
  BY <1>1, <1>2, ShotsFinite
<1>4. Cardinality(Twice') <= Cardinality(Spare')
  BY <1>1, <1>3
<1> QED
  BY <1>4 DEF Paid

(* The rows stay as they are, or wait for less; the log knows no less. *)
LEMMA RowsPaid ==
  ASSUME Counted, PulseRows' = PulseRows, FileRows' = FileRows,
         \A k \in 1 .. Len(rows) : rows'[k].shot = rows[k].shot /\ rows'[k].file = rows[k].file,
         \A n \in Pulsed : shot[n].state = "unsaved" => shot'[n].state = "unsaved",
         Covered \subseteq Covered', Passed' \subseteq Passed \cup Covered \cup {n \in Pulsed : shot[n].state = "unsaved"}
  PROVE  Paid'
<1>1. /\ Pulsed' = Pulsed /\ Filed' = Filed /\ Taken' = Taken
  BY DEF Pulsed, Filed, Taken, PulseRows, FileRows
<1>2. Spare' = Spare
  BY <1>1 DEF Spare
<1>3. Twice' \subseteq Twice
  BY <1>1 DEF Twice
<1> QED
  BY <1>2, <1>3, StillPaid, CountedMeans DEF Counted

(* Steps that leave the rows alone. *)
LEMMA QuietPaid ==
  ASSUME Counted, UNCHANGED rows, catchup \in Catchup,
         catchup.files \cup catchup.skipped \subseteq catchup'.files \cup catchup'.skipped,
         \A n \in Shot : shot[n].state = "unsaved" => shot'[n].state = "unsaved"
  PROVE  Paid'
<1>1. PulseRows' = PulseRows /\ FileRows' = FileRows /\ Passed' = Passed /\ Logged' = Logged
  BY DEF PulseRows, FileRows, Passed, Logged
<1>2. Covered \subseteq Covered'
  BY <1>1 DEF Covered
<1>3. Pulsed \subseteq Shot
  BY CountedMeans DEF Counted
<1> QED
  BY <1>1, <1>2, <1>3, RowsPaid

LEMMA RecorderPaid ==
  ASSUME Counted, Recorder \/ FolderSource \/ Tick \/ StopClick \/ UNCHANGED vars
  PROVE  Paid'
<1>1. shot \in [Shot -> ShotState] /\ catchup \in Catchup
  BY PairedMeans, TypesMeans DEF Counted
<1>2. UNCHANGED <<rows, catchup>>
  BY DEF Recorder, Fire, Create, Touch, Close, FolderSource, Consider, SettleBegins,
         SettleResumes, SettleFails, Tick, StopClick, vars, window
<1>3. \A n \in Shot : shot[n].state = "unsaved" => shot'[n].state = "unsaved"
  <2>1. CASE shot' = shot
    BY <2>1
  <2>2. ASSUME NEW n \in Shot, Create(n) \/ Close(n)
        PROVE  \A m \in Shot : shot[m].state = "unsaved" => shot'[m].state = "unsaved"
    BY <1>1, <2>2 DEF Create, Close, ShotState
  <2>3. ASSUME NEW n \in Shot, NEW heard \in BOOLEAN, NEW saved \in BOOLEAN, Fire(n, heard, saved)
        PROVE  \A m \in Shot : shot[m].state = "unsaved" => shot'[m].state = "unsaved"
    BY <1>1, <2>3 DEF Fire, ShotState
  <2>4. CASE Tick
    BY <2>4, TickStates, PairedMeans DEF Counted
  <2> QED BY <2>1, <2>2, <2>3, <2>4 DEF Recorder, Touch, FolderSource, Consider, SettleBegins,
                                        SettleResumes, SettleFails, StopClick, vars, recorder
<1> QED
  BY <1>1, <1>2, <1>3, QuietPaid

LEMMA SwitchPaid ==
  ASSUME Counted, \/ SaveClick \/ StartClick \/ StopAnswers \/ Scan
                  \/ \E add \in SUBSET catchup.files : Choose(add)
  PROVE  Paid'
<1>1. /\ catchup \in Catchup /\ (catchup.pc = "scan" => catchup.files = {})
  BY PairedMeans, TypesMeans, ApartMeans, KeptMeans DEF Counted, Scanning
<1>2. CASE SaveClick \/ StopAnswers
  BY <1>1, <1>2, QuietPaid DEF SaveClick, StopAnswers, window, recorder
<1>3. CASE StartClick
  <2>1. catchup'.files = catchup.files /\ catchup'.skipped = catchup.skipped
    BY <1>1, <1>3 DEF StartClick, Catchup
  <2> QED BY <1>1, <1>3, <2>1, QuietPaid DEF StartClick
<1>4. CASE Scan
  <2>1. catchup.files = {} /\ catchup'.skipped = catchup.skipped
    BY <1>1, <1>4 DEF Scan, Catchup
  <2> QED BY <1>1, <1>4, <2>1, QuietPaid DEF Scan, recorder
<1>5. ASSUME NEW add \in SUBSET catchup.files, Choose(add) PROVE Paid'
  <2>1. catchup.files \cup catchup.skipped \subseteq catchup'.files \cup catchup'.skipped
    BY <1>5 DEF Choose
  <2> QED BY <1>1, <1>5, <2>1, QuietPaid DEF Choose, recorder
<1> QED
  BY <1>2, <1>3, <1>4, <1>5

LEMMA AddNextPaid ==
  ASSUME Counted, AddNext
  PROVE  Paid'
<1> DEFINE n == Oldest(catchup.files)
           r == Row("catchup", n, n)
<1>1. /\ shot' = shot /\ catchup.pc = "add" /\ Types /\ Single /\ rows' = Append(rows, r)
  BY PairedMeans DEF AddNext, recorder, Counted
<1>2. n \in catchup.files /\ n \in Shot
  BY <1>1, FilesAre
<1>3. /\ r \in LogRow /\ r.file = n /\ r.by = "catchup"
  BY <1>2, NewRowTypes DEF Row
<1>4. /\ catchup'.skipped = catchup.skipped /\ catchup'.files = catchup.files \ {n}
  BY <1>1, AddNextIs
<1> HIDE DEF n, r
<1>5. n \notin Logged /\ n # 0
  BY <1>1, <1>2, ApartMeans, Bounds DEF Once
<1>6. Logged' \ {0} = (Logged \ {0}) \cup {n}
  BY <1>1, <1>2, <1>3, <1>5, FileAdded
<1>7. Covered \subseteq Covered'
  BY <1>4, <1>6 DEF Covered
<1>8. /\ 1 .. Len(rows') = (1 .. Len(rows)) \cup {Len(rows) + 1}
      /\ \A k \in 1 .. Len(rows) : rows'[k] = rows[k]
      /\ rows'[Len(rows) + 1] = r
  BY <1>1, <1>3, RowsGrow
<1>9. PulseRows' = PulseRows /\ FileRows' = FileRows
  BY <1>3, <1>8 DEF PulseRows, FileRows
<1>10. \A k \in PulseRows : rows'[k] = rows[k]
  BY <1>8 DEF PulseRows
<1>11. Passed' = Passed
  BY <1>9, <1>10 DEF Passed
<1> QED
  BY <1>1, <1>7, <1>8, <1>9, <1>11, RowsPaid

LEMMA RowPaid ==
  ASSUME Counted, Habits = {}, NEW k \in 1 .. Len(rows), WindowPasses(k) \/ EditRow(k)
  PROVE  Paid'
<1> DEFINE r == [rows[k] EXCEPT !.awaiting = FALSE]
<1>1. /\ UNCHANGED <<shot, catchup>> /\ Stray(k)
      /\ rows[k].awaiting /\ rows' = [rows EXCEPT ![k] = r] /\ Types /\ Coupled
  BY PairedMeans DEF WindowPasses, EditRow, Awaiting, recorder, Counted
<1>2. /\ r \in LogRow /\ r.file = rows[k].file /\ r.shot = rows[k].shot /\ r.by = rows[k].by
  <2>1. rows[k] \in LogRow
    BY <1>1, TypesMeans, ElementOfSeq
  <2> QED BY <2>1, RowTypes DEF LogRow
<1> HIDE DEF r
<1>3. /\ Len(rows') = Len(rows)
      /\ \A j \in 1 .. Len(rows) : /\ rows'[j].file = rows[j].file /\ rows'[j].shot = rows[j].shot
                                   /\ rows'[j].by = rows[j].by
                                   /\ j # k => rows'[j] = rows[j]
  BY <1>1, <1>2, RowsChange
<1>4. /\ Logged' = Logged /\ PulseRows' = PulseRows /\ FileRows' = FileRows
  BY <1>3 DEF Logged, PulseRows, FileRows
<1>5. Covered' = Covered
  BY <1>1, <1>4 DEF Covered
<1>6. k \in PulseRows /\ rows[k].shot \in Pulsed /\ rows[k].shot \in Shot
  BY <1>1, PairedMeans DEF RowKinds, Pulsed, PulseShots, Fired
<1>7. rows[k].shot \in Covered \cup {n \in Pulsed : shot[n].state = "unsaved"}
  BY <1>1, <1>6, Bounds DEF Stray, Covered
<1>8. Passed' \subseteq Passed \cup {rows[k].shot}
  <2> SUFFICES ASSUME NEW j \in PulseRows, ~rows'[j].awaiting, j # k PROVE rows'[j].shot \in Passed
    BY <1>3, <1>4, <1>6 DEF Passed
  <2>1. rows'[j] = rows[j]
    BY <1>3 DEF PulseRows
  <2> QED BY <2>1 DEF Passed
<1> QED
  BY <1>1, <1>3, <1>4, <1>5, <1>7, <1>8, RowsPaid

LEMMA IgnoredPaid ==
  ASSUME Counted, HandleEvent, ~on
  PROVE  Paid'
<1>1. UNCHANGED <<shot, catchup, rows>> /\ catchup \in Catchup
  BY PairedMeans, TypesMeans DEF HandleEvent, Ignored, recorder, Counted
<1> QED
  BY <1>1, QuietPaid

LEMMA PulseRowPaid ==
  ASSUME Counted, queue # <<>>, Head(queue).type = "pulse", PulseRow(Head(queue).shot),
         UNCHANGED <<shot, catchup>>
  PROVE  Paid'
<1> DEFINE n == Head(queue).shot
           r == Row("pulse", n, 0)
<1>1. rows' = Append(rows, r) /\ Types /\ Coupled
  BY PairedMeans DEF PulseRow, Counted
<1>2. n \in Shot /\ 1 \in Pulses /\ queue[1].shot = n
  <2>1. Head(queue) \in Event /\ Head(queue) = queue[1] /\ Len(queue) \in Nat \ {0}
    BY <1>1, HeadIs
  <2> QED BY <2>1 DEF Event, Pulses
<1>3. r \in LogRow /\ r.file = 0 /\ r.shot = n /\ r.by = "pulse" /\ r.awaiting
  BY <1>2, NewRowTypes DEF Row
<1> HIDE DEF n, r
<1>4. n \notin Covered
  BY <1>1, <1>2, PairedMeans DEF PulseShots
<1>5. /\ 1 .. Len(rows') = (1 .. Len(rows)) \cup {Len(rows) + 1}
      /\ \A k \in 1 .. Len(rows) : rows'[k] = rows[k]
      /\ rows'[Len(rows) + 1] = r
  BY <1>1, <1>3, RowsGrow
<1>6. /\ PulseRows' = PulseRows \cup {Len(rows) + 1} /\ FileRows' = FileRows
      /\ \A k \in PulseRows \cup FileRows : rows'[k] = rows[k]
  BY <1>3, <1>5 DEF PulseRows, FileRows
<1>7. Logged' = Logged \cup {0}
  BY <1>1, <1>3, RowsAppend
<1>8. Covered' = Covered
  BY <1>7 DEF Covered
<1>9. Pulsed' = Pulsed \cup {n} /\ Filed' = Filed
  BY <1>3, <1>5, <1>6 DEF Pulsed, Filed
<1>10. Taken' = Taken
  BY <1>3, <1>5, <1>6 DEF Taken
<1>11. Passed' = Passed
  BY <1>3, <1>5, <1>6 DEF Passed
<1>12. n \notin Taken /\ n \notin Filed
  BY <1>1, <1>4, CountedMeans
<1>13. n \notin Passed
  <2> SUFFICES ASSUME NEW k \in PulseRows, rows[k].shot = n PROVE FALSE
    BY DEF Passed
  <2>1. rows[k].shot < queue[1].shot
    BY <1>1, <1>2, PairedMeans DEF PulseOrder
  <2> QED BY <1>2, <2>1, Bounds
<1>14. Spare' = Spare
  BY <1>9, <1>10, <1>12 DEF Spare
<1>15. Twice' \subseteq Twice
  BY <1>8, <1>9, <1>11, <1>12, <1>13 DEF Twice
<1> QED
  BY <1>1, <1>14, <1>15, StillPaid, CountedMeans

(* A file that lands: the row it goes to and what that costs. *)
LEMMA FileRowPaid ==
  ASSUME Counted, queue # <<>>, on, Head(queue).type = "file",
         FileRow(Head(queue).shot, Head(queue).size), UNCHANGED <<shot, catchup>>
  PROVE  Paid'
<1> DEFINE m == Head(queue).shot
           z == Head(queue).size
<1>1. /\ Types /\ Coupled /\ Single /\ FileRow(m, z) /\ z \in Size /\ m \in Shot /\ 1 \in 1 .. Len(queue)
      /\ queue[1].type = "file" /\ queue[1].shot = m
  <2>1. Head(queue) \in Event /\ Head(queue) = queue[1] /\ Len(queue) \in Nat \ {0} /\ Coupled
    BY HeadIs, PairedMeans DEF Counted
  <2> QED BY <2>1, PairedMeans DEF Event
<1> HIDE DEF m, z
<1>2. m \notin Covered /\ m \notin Logged /\ shot[m].state = "done" /\ m \in Begun
  <2>1. m \in Queued
    BY <1>1 DEF Queued
  <2>2. m \notin Covered /\ shot[m].state = "done" /\ m \in Begun
    BY <1>1, <2>1, ApartMeans, KeptMeans DEF Once, Closed, Known, Done, Real
  <2> QED BY <1>1, <2>2, Bounds DEF Covered
<1>3. m \notin Taken /\ m \notin Filed /\ Taken \subseteq Shot
  BY <1>1, <1>2, CountedMeans
<1>4. CASE Awaiting = {}
  <2> DEFINE r == Row("file", m, m)
  <2>1. /\ rows' = Append(rows, r) /\ r \in LogRow /\ r.file = m /\ r.shot = m
        /\ r.by = "file" /\ ~r.awaiting
    BY <1>1, <1>4, FileRowTakes
  <2> HIDE DEF r
  <2>2. /\ 1 .. Len(rows') = (1 .. Len(rows)) \cup {Len(rows) + 1}
        /\ \A k \in 1 .. Len(rows) : rows'[k] = rows[k]
        /\ rows'[Len(rows) + 1] = r
    BY <1>1, <2>1, RowsGrow
  <2>3. Logged' \ {0} = (Logged \ {0}) \cup {m}
    BY <1>1, <1>2, <2>1, FileAdded
  <2>4. Covered \subseteq Covered'
    BY <2>3 DEF Covered
  <2>5. /\ PulseRows' = PulseRows /\ FileRows' = FileRows \cup {Len(rows) + 1}
        /\ \A k \in PulseRows \cup FileRows : rows'[k] = rows[k]
    BY <2>1, <2>2 DEF PulseRows, FileRows
  <2>6. Pulsed' = Pulsed /\ Taken' = Taken /\ Passed' = Passed
    BY <2>5 DEF Pulsed, Taken, Passed
  <2>7. Filed' = Filed \cup {m}
    BY <2>1, <2>2, <2>5 DEF Filed
  <2>8. m \in Pulsed => m \in Passed
    BY <1>4 DEF Pulsed, Passed, Awaiting, PulseRows
  <2>9. Twice' \subseteq Twice
    BY <1>2, <2>4, <2>6, <2>7, <2>8 DEF Twice
  <2> QED BY <1>1, <2>6, <2>9, StillPaid, CountedMeans DEF Spare
<1>5. CASE Awaiting # {}
  <2>1. PICK k \in 1 .. Len(rows), r \in LogRow :
          /\ rows[k].awaiting /\ \A l \in Awaiting : k <= l
          /\ rows' = [rows EXCEPT ![k] = r] /\ r.file = m /\ ~r.awaiting
          /\ r.by = rows[k].by /\ r.shot = rows[k].shot
    BY <1>1, <1>5, FileRowTakes
  <2> DEFINE n == rows[k].shot
  <2>2. /\ Len(rows') = Len(rows) /\ rows'[k] = r
        /\ \A j \in 1 .. Len(rows) : j # k => rows'[j] = rows[j]
    BY <1>1, <2>1, RowsChange
  <2>3. Logged' \ {0} = (Logged \ {0}) \cup {m}
    BY <1>1, <1>2, <2>1, FileAdded
  <2>4. Covered' = Covered \cup {m}
    BY <2>3 DEF Covered
  <2>5. k \in PulseRows /\ n \in Pulsed /\ n \in Shot /\ rows[k].file = 0
    BY <1>1, <2>1, PairedMeans, ApartMeans, KeptMeans
       DEF RowKinds, Pulsed, PulseShots, Fired, Unfiled
  <2>6. PulseRows' = PulseRows /\ FileRows' = FileRows /\ k \notin FileRows
    BY <2>1, <2>2, <2>5 DEF PulseRows, FileRows
  <2>7. \A j \in 1 .. Len(rows) : rows'[j].shot = rows[j].shot
    BY <2>1, <2>2
  <2>8. Pulsed' = Pulsed /\ Filed' = Filed
    BY <2>6, <2>7 DEF Pulsed, Filed, PulseRows, FileRows
  <2>9. Taken' = Taken \cup {m}
    <3>1. \A j \in PulseRows : j # k => rows'[j] = rows[j]
      BY <2>2 DEF PulseRows
    <3>2. 0 \notin Shot
      BY Bounds
    <3>3. Taken' \subseteq Taken \cup {m}
      BY <2>1, <2>2, <2>6, <3>1 DEF Taken
    <3>4. ASSUME NEW f \in Taken PROVE f \in Taken'
      <4>1. PICK j \in PulseRows : rows[j].file = f /\ f # 0
        BY DEF Taken
      <4>2. j # k
        BY <2>5, <4>1
      <4> QED BY <2>6, <3>1, <4>1, <4>2 DEF Taken
    <3>5. m \in Taken'
      BY <1>1, <2>1, <2>2, <2>5, <2>6, <3>2 DEF Taken
    <3> QED BY <3>3, <3>4, <3>5
  <2>10. Passed' \subseteq Passed \cup {n}
    <3> SUFFICES ASSUME NEW j \in PulseRows, ~rows'[j].awaiting, j # k PROVE rows'[j].shot \in Passed
      BY <2>6, <2>7 DEF Passed, PulseRows
    <3>1. rows'[j] = rows[j]
      BY <2>2 DEF PulseRows
    <3> QED BY <3>1 DEF Passed
  <2>11. m \notin Twice'
    BY <1>3, <2>4, <2>8 DEF Twice
  <2>12. Twice' \subseteq Twice \cup {n}
    BY <2>4, <2>8, <2>10 DEF Twice
  <2>13. Spare' = IF m \in Pulsed THEN Spare ELSE Spare \cup {m}
    BY <2>8, <2>9 DEF Spare
  <2>14. /\ Twice \subseteq Shot /\ Spare \subseteq Shot
         /\ Cardinality(Twice) \in Nat /\ Cardinality(Spare) \in Nat
         /\ Cardinality(Twice) <= Cardinality(Spare) /\ Counted
    BY <1>1, CountedMeans DEF Counted, Paid
  <2> HIDE DEF n
  <2>15. CASE n \notin Twice'
    <3>1. Twice' \subseteq Twice /\ Spare \subseteq Spare' /\ Spare' \subseteq Shot
      BY <1>1, <2>12, <2>13, <2>14, <2>15
    <3> QED BY <2>14, <3>1, StillPaid
  <2>16. CASE n \in Twice /\ n \in Twice'
    <3>1. Twice' \subseteq Twice /\ Spare \subseteq Spare' /\ Spare' \subseteq Shot
      BY <1>1, <2>12, <2>13, <2>14, <2>16
    <3> QED BY <2>14, <3>1, StillPaid
  <2>17. CASE n \in Twice' /\ n \notin Twice /\ m \notin Pulsed
    <3>1. m \notin Spare /\ Spare' = Spare \cup {m} /\ Spare' \subseteq Shot
      BY <1>1, <1>3, <2>13, <2>14, <2>17 DEF Spare
    <3>2. Cardinality(Spare') = Cardinality(Spare) + 1
      BY <1>1, <2>14, <3>1, ShotsFinite
    <3>3. Cardinality(Twice \cup {n}) = Cardinality(Twice) + 1
      BY <2>5, <2>14, <2>17, ShotsFinite
    <3>4. /\ Twice' \subseteq Shot /\ Twice \cup {n} \subseteq Shot
      BY <2>5, <2>12, <2>14
    <3>5. Cardinality(Twice') <= Cardinality(Twice \cup {n})
      BY <2>12, <3>4, ShotsFinite
    <3>6. Cardinality(Twice') \in Nat
      BY <3>4, ShotsFinite
    <3>7. Cardinality(Twice') <= Cardinality(Spare')
      BY <2>14, <3>2, <3>3, <3>5, <3>6
    <3> QED BY <3>7 DEF Paid
  <2>18. CASE n \in Twice' /\ n \notin Twice /\ m \in Pulsed
    <3>1. n # m /\ Spare' = Spare
      BY <2>11, <2>13, <2>18
    <3>2. /\ n \notin Filed /\ n \notin Covered /\ shot[n].state # "unsaved"
      BY <2>4, <2>5, <2>8, <2>18, <3>1 DEF Twice
    <3>3. ~(n < m)
      <4> SUFFICES ASSUME n < m PROVE FALSE
        OBVIOUS
      <4>1. n \in 1 .. m - 1
        BY <1>1, <2>5, Bounds
      <4>2. shot[n].state = "done"
        BY <1>1, <1>2, <3>2, <4>1, ApartMeans, KeptMeans DEF InOrder
      <4>3. n \in Begun
        BY <1>1, <2>5, <4>2, ApartMeans, KeptMeans DEF InOrder, Begun
      <4>4. n \in Covered \/ \E i \in 1 .. 1 - 1 : queue[i].type = "file" /\ queue[i].shot = n
        BY <1>1, <4>3, ApartMeans, KeptMeans DEF QueueOrder
      <4> QED BY <3>2, <4>4
    <3>4. PICK j \in PulseRows : rows[j].shot = m
      BY <2>18 DEF Pulsed
    <3>5. j # k /\ ~(k < j) /\ j \in Nat /\ k \in Nat
      BY <1>1, <2>5, <3>1, <3>3, <3>4, PairedMeans, TypesMeans, LenProperties
         DEF PulseOrder, PulseRows, n
    <3>6. ~rows[j].awaiting
      <4>1. j \in 1 .. Len(rows) /\ ~(k <= j)
        BY <3>5 DEF PulseRows
      <4> QED BY <2>1, <4>1 DEF Awaiting
    <3>7. m \in Twice
      BY <1>2, <2>18, <3>4, <3>6 DEF Twice, Passed
    <3> DEFINE A == Twice \ {m}
    <3>8. m \notin A /\ n \notin A /\ A \subseteq Shot /\ Twice = A \cup {m}
          /\ Twice' \subseteq A \cup {n} /\ A \cup {n} \subseteq Shot
      BY <2>5, <2>11, <2>12, <2>14, <2>18, <3>7
    <3> HIDE DEF A
    <3>9. Cardinality(Twice) = Cardinality(A) + 1 /\ Cardinality(A \cup {n}) = Cardinality(A) + 1
      BY <1>1, <2>5, <3>8, ShotsFinite
    <3>10. Twice' \subseteq Shot
      BY <3>8
    <3>11. Cardinality(Twice') <= Cardinality(A \cup {n}) /\ Cardinality(Twice') \in Nat
      BY <3>8, <3>10, ShotsFinite
    <3>12. Cardinality(Twice') <= Cardinality(Spare')
      BY <2>14, <3>1, <3>9, <3>11
    <3> QED BY <3>12 DEF Paid
  <2> QED BY <2>15, <2>16, <2>17, <2>18
<1> QED
  BY <1>4, <1>5

LEMMA StepCounted ==
  ASSUME Habits = {}
  PROVE  Counted /\ [Next]_vars => Counted'
<1> SUFFICES ASSUME Counted, [Next]_vars PROVE Paid'
  BY StepCoupled DEF Counted
<1>1. CASE Recorder \/ FolderSource \/ Tick \/ UNCHANGED vars
  BY <1>1, RecorderPaid
<1>2. CASE User
  BY <1>2, SwitchPaid, RecorderPaid, RowPaid DEF User
<1>3. CASE HandleEvent
  <2>1. Head(queue).type \in {"pulse", "file"} /\ queue # <<>>
    <3>1. queue # <<>> /\ Head(queue) \in Event
      BY <1>3, HeadIs, PairedMeans DEF HandleEvent, Counted
    <3> QED BY <3>1 DEF Event
  <2>2. /\ UNCHANGED <<shot, catchup>>
        /\ on /\ Head(queue).type = "pulse" => PulseRow(Head(queue).shot)
        /\ on /\ Head(queue).type # "pulse" => FileRow(Head(queue).shot, Head(queue).size)
    BY <1>3 DEF HandleEvent, recorder
  <2> QED BY <1>3, <2>1, <2>2, IgnoredPaid, PulseRowPaid, FileRowPaid
<1> QED
  BY <1>1, <1>2, <1>3, RowPaid, SwitchPaid, AddNextPaid DEF Next

(* The rows the watch has added are not more than the shots: the pulses'   *)
(* rows are of different shots, so are the files' rows, and whoever has    *)
(* one of each is paid for.                                                *)
LEMMA RowsAreFew ==
  ASSUME Counted
  PROVE  Cardinality({k \in 1 .. Len(rows) : rows[k].by # "catchup"}) <= Cardinality(Fired)
<1>1. /\ Coupled /\ Types /\ Single /\ Len(rows) \in Nat
      /\ \A k \in 1 .. Len(rows) : rows[k].by \in {"pulse", "file", "catchup"} /\ rows[k].shot \in Shot
  <2>1. Coupled /\ Types /\ Single /\ rows \in Seq(LogRow)
    BY PairedMeans, TypesMeans DEF Counted
  <2>2. \A k \in 1 .. Len(rows) : rows[k] \in LogRow
    BY <2>1, ElementOfSeq
  <2> QED BY <2>1, <2>2, LenProperties DEF LogRow
<1>2. /\ IsFiniteSet(1 .. Len(rows)) /\ IsFiniteSet(PulseRows) /\ IsFiniteSet(FileRows)
      /\ {k \in 1 .. Len(rows) : rows[k].by # "catchup"} = PulseRows \cup FileRows
      /\ PulseRows \cap FileRows = {}
  <2>1. IsFiniteSet(1 .. Len(rows))
    <3>1. 1 \in Int /\ Len(rows) \in Int
      BY <1>1
    <3> QED BY <3>1, FS_Interval
  <2>2. PulseRows \in SUBSET (1 .. Len(rows)) /\ FileRows \in SUBSET (1 .. Len(rows))
    BY DEF PulseRows, FileRows
  <2>3. IsFiniteSet(PulseRows) /\ IsFiniteSet(FileRows)
    BY <2>1, <2>2, FS_Subset
  <2> QED BY <1>1, <2>1, <2>3 DEF PulseRows, FileRows
<1>3. /\ Pulsed \subseteq Fired /\ Filed \subseteq Fired /\ Spare \subseteq Fired
      /\ Fired \subseteq Shot /\ Twice \subseteq Shot
      /\ Pulsed \subseteq Shot /\ Filed \subseteq Shot /\ Spare \subseteq Shot
      /\ Cardinality(Twice) <= Cardinality(Spare)
  BY <1>1, CountedMeans DEF Counted, Paid, Spare
<1>4. /\ IsFiniteSet(Pulsed) /\ IsFiniteSet(Filed) /\ IsFiniteSet(Pulsed \cap Filed)
      /\ IsFiniteSet(Pulsed \cup Filed) /\ IsFiniteSet(Spare)
      /\ Cardinality(Pulsed) \in Nat /\ Cardinality(Filed) \in Nat
      /\ Cardinality(Pulsed \cap Filed) \in Nat /\ Cardinality(Spare) \in Nat
      /\ Cardinality(Pulsed \cup Filed) \in Nat /\ Cardinality(Twice) \in Nat
      /\ Cardinality(Fired) \in Nat
  <2>1. Pulsed \cap Filed \subseteq Shot /\ Pulsed \cup Filed \subseteq Shot
    BY <1>3
  <2> QED BY <1>3, <2>1, ShotsFinite
<1>5. Cardinality(PulseRows) <= Cardinality(Pulsed)
  <2> DEFINE f == [k \in PulseRows |-> rows[k].shot]
  <2>1. f \in [PulseRows -> Pulsed]
    BY DEF Pulsed
  <2>2. ASSUME NEW k \in PulseRows, NEW l \in PulseRows, f[k] = f[l] PROVE k = l
    <3>1. k \in Nat /\ l \in Nat /\ rows[k].shot = rows[l].shot /\ rows[k].shot \in Nat
      BY <1>1, <2>2, Bounds DEF PulseRows
    <3> QED BY <1>1, <3>1, PairedMeans DEF PulseOrder
  <2> HIDE DEF f
  <2> QED BY <1>2, <1>4, <2>1, <2>2, OneToOne
<1>6. Cardinality(FileRows) <= Cardinality(Filed)
  <2> DEFINE f == [k \in FileRows |-> rows[k].shot]
  <2>1. f \in [FileRows -> Filed]
    BY DEF Filed
  <2>2. \A k \in FileRows : k \in 1 .. Len(rows) /\ rows[k].file = rows[k].shot /\ rows[k].file # 0
    BY <1>1, Bounds, PairedMeans DEF FileRows, PulseRows, RowKinds
  <2>3. ASSUME NEW k \in FileRows, NEW l \in FileRows, f[k] = f[l] PROVE k = l
    BY <1>1, <2>2, <2>3, ApartMeans DEF Once
  <2> HIDE DEF f
  <2> QED BY <1>2, <1>4, <2>1, <2>3, OneToOne
<1>7. Cardinality(PulseRows \cup FileRows) = Cardinality(PulseRows) + Cardinality(FileRows)
      /\ Cardinality(PulseRows) \in Nat /\ Cardinality(FileRows) \in Nat
  <2>1. /\ Cardinality(PulseRows \cup FileRows)
             = Cardinality(PulseRows) + Cardinality(FileRows) - Cardinality(PulseRows \cap FileRows)
        /\ Cardinality(PulseRows) \in Nat /\ Cardinality(FileRows) \in Nat
    BY <1>2, FS_Union, FS_CardinalityType
  <2>2. Cardinality(PulseRows \cap FileRows) = 0
    BY <1>2, FS_EmptySet
  <2> QED BY <2>1, <2>2
<1>8. Cardinality(Pulsed) + Cardinality(Filed)
         = Cardinality(Pulsed \cup Filed) + Cardinality(Pulsed \cap Filed)
  <2>1. Cardinality(Pulsed \cup Filed)
          = Cardinality(Pulsed) + Cardinality(Filed) - Cardinality(Pulsed \cap Filed)
    BY <1>4, FS_Union
  <2> QED BY <1>4, <2>1
<1>9. Cardinality(Pulsed \cap Filed) <= Cardinality(Spare)
  <2>1. Pulsed \cap Filed \subseteq Twice /\ Pulsed \cap Filed \subseteq Shot
    BY <1>3 DEF Twice
  <2>2. Cardinality(Pulsed \cap Filed) <= Cardinality(Twice)
    BY <1>3, <2>1, ShotsFinite
  <2> QED BY <1>3, <1>4, <2>2
<1>10. Spare \cap (Pulsed \cup Filed) = {}
  <2> SUFFICES ASSUME NEW n \in Spare, n \in Filed PROVE FALSE
    BY DEF Spare
  <2>1. PICK k \in PulseRows : rows[k].file = n /\ n # 0
    BY DEF Spare, Taken
  <2>2. PICK l \in FileRows : rows[l].shot = n
    BY DEF Filed
  <2>3. /\ k \in 1 .. Len(rows) /\ l \in 1 .. Len(rows) /\ k # l /\ rows[l].file = n
    BY <1>1, <2>1, <2>2, PairedMeans DEF FileRows, PulseRows, RowKinds
  <2> QED BY <1>1, <2>1, <2>3, ApartMeans DEF Once
<1>11. Cardinality((Pulsed \cup Filed) \cup Spare) = Cardinality(Pulsed \cup Filed) + Cardinality(Spare)
  <2>1. Cardinality((Pulsed \cup Filed) \cup Spare)
          = Cardinality(Pulsed \cup Filed) + Cardinality(Spare) - Cardinality((Pulsed \cup Filed) \cap Spare)
    BY <1>4, FS_Union
  <2>2. (Pulsed \cup Filed) \cap Spare = {}
    BY <1>10
  <2>3. Cardinality((Pulsed \cup Filed) \cap Spare) = 0
    BY <2>2, FS_EmptySet
  <2> QED BY <1>4, <2>1, <2>3
<1>12. Cardinality((Pulsed \cup Filed) \cup Spare) <= Cardinality(Fired)
  <2>1. (Pulsed \cup Filed) \cup Spare \subseteq Fired /\ (Pulsed \cup Filed) \cup Spare \subseteq Shot
    BY <1>3
  <2> QED BY <1>3, <2>1, ShotsFinite
<1>13. Cardinality(PulseRows \cup FileRows) <= Cardinality(Fired)
  BY <1>4, <1>5, <1>6, <1>7, <1>8, <1>9, <1>11, <1>12
<1> QED
  BY <1>2, <1>13

(* The log does not count a shot twice, in a survey whose shots are fired  *)
(* and saved one after the other without a stall or a failing look, and    *)
(* whose watch is switched on and configured between shots only.           *)
THEOREM NoShotTwice ==
  ASSUME Habits = {}
  PROVE  Spec => []OneRowPerShot
<1>1. Counted => OneRowPerShot
  <2> SUFFICES ASSUME Counted PROVE OneRowPerShot
    OBVIOUS
  <2>1. Once
    BY PairedMeans, ApartMeans DEF Counted
  <2> QED BY <2>1, RowsAreFew DEF OneRowPerShot, Once, Fired
<1>2. Init => Counted
  <2> SUFFICES ASSUME Init PROVE Paid
    BY InitKept, InitSettled, InitApart, InitPaired DEF Counted, Coupled, Single
  <2>1. PulseRows = {}
    BY DEF Init, PulseRows
  <2>2. Twice = {} /\ Spare = {}
    BY <2>1 DEF Twice, Spare, Taken, Pulsed
  <2>3. Cardinality(Twice) = 0 /\ Cardinality(Spare) = 0
    BY <2>2, FS_EmptySet
  <2> QED BY <2>3 DEF Paid
<1> QED
  BY <1>1, <1>2, StepCounted, PTL DEF Spec

===============================================================================
