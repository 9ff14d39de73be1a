------------------------------ MODULE DeskProofs ------------------------------
(***************************************************************************)
(* That no caller waits for a worker whose end has been handled, for any   *)
(* number of files, clicks and workers, however workers die and whatever   *)
(* is asked between the two events of a death.  And that at rest, on a     *)
(* desk that is not rushed, the window, the main process and the worker    *)
(* agree on the open file, and that what is converted then is saved under  *)
(* its own name.                                                           *)
(***************************************************************************)
EXTENDS Desk, SequenceTheorems, FiniteSetTheorems, TLAPS

(* The worker requests go to is the only one that may still have calls: it *)
(* lives, or its death is not yet known.                                   *)
OneWorker ==
    \A g \in Gen : life[g] \in {"up", "dead"} <=> g = worker

DeskInv == TypeOK /\ OneWorker /\ NoOrphan /\ Len(calls) <= clicks

-----------------------------------------------------------------------------
LEMMA Bounds ==
  /\ Nothing \notin Gen /\ Nothing \notin File
  /\ File = 1 .. MaxFile /\ 0 \in 0 .. MaxFile /\ File \subseteq 0 .. MaxFile
  /\ MaxFile \in Nat
BY DeskAssumption DEF Nothing, Gen, File

Paces == {"calm", "rushed", "calming"}

LEMMA Lists ==
  ASSUME NEW s \in Listings
  PROVE  /\ s \in Seq(File) /\ Len(s) \in 0 .. MaxFile /\ DOMAIN s = 1 .. Len(s)
         /\ \A i \in 1 .. Len(s) : s[i] \in File
         /\ Folder \in Listings /\ <<>> \in Listings
<1>1. MaxFile \in Nat \ {0} /\ File = 1 .. MaxFile
  BY DeskAssumption DEF File
<1>2. Folder \in Seq(File) /\ Len(Folder) = MaxFile
  BY <1>1 DEF Folder
<1>3. s \in Seq(File) /\ Len(s) \in 0 .. MaxFile
  <2>1. CASE s = Folder
    BY <1>1, <1>2, <2>1
  <2>2. CASE s = <<>>
    BY <1>1, <2>2
  <2>3. CASE \E f \in File : s = <<f>>
    BY <1>1, <2>3
  <2> QED
    BY <2>1, <2>2, <2>3 DEF Listings
<1> QED
  BY <1>3 DEF Listings

LEMMA BeginType ==
  ASSUME pace \in Paces, NEW hasty \in BOOLEAN, Begin(hasty)
  PROVE  pace' \in Paces
BY DEF Begin, Paces

LEMMA EndType ==
  ASSUME pace \in Paces, NEW well \in BOOLEAN, End(well)
  PROVE  pace' \in Paces
BY DEF End, Paces

(* A request of a right kind, once it is given a worker, is a pending call. *)
LEMMA RequestType ==
  ASSUME NEW kind \in {"open", "step", "reset", "convert"},
         NEW file \in File \cup {Nothing}, NEW prev \in 0 .. MaxFile,
         NEW sure \in BOOLEAN, NEW g \in Gen,
         kind \in {"open", "step"} => file # Nothing
  PROVE  /\ [Request(kind, file, prev, sure) EXCEPT !.gen = g] \in Pending
         /\ [Request(kind, file, prev, sure) EXCEPT !.gen = g].gen = g
BY DEF Request, Pending, Nothing

(* A call goes to a worker that lives. *)
LEMMA CallKeeps ==
  ASSUME DeskInv, NEW r, Call(r), \A g \in Gen : [r EXCEPT !.gen = g] \in Pending
                                         /\ [r EXCEPT !.gen = g].gen = g
  PROVE  /\ worker' \in Gen /\ life' \in [Gen -> {"new", "up", "dead", "failed", "gone"}]
         /\ calls' \in Seq(Pending) /\ Len(calls') = Len(calls) + 1
         /\ OneWorker' /\ NoOrphan' /\ current' = current
<1> DEFINE g == GetWorker
<1>1. /\ worker \in Gen \cup {Nothing}
      /\ life \in [Gen -> {"new", "up", "dead", "failed", "gone"}]
      /\ calls \in Seq(Pending) /\ Nothing \notin Gen
  BY Bounds DEF DeskInv, TypeOK
<1>2. g \in Gen /\ (worker = Nothing => life[g] = "new") /\ (worker # Nothing => g = worker)
  BY <1>1 DEF Call, CanAsk, GetWorker
<1>3. /\ worker' = g /\ calls' = Append(calls, [r EXCEPT !.gen = g]) /\ current' = current
      /\ life' = IF worker = Nothing THEN [life EXCEPT ![g] = "up"] ELSE life
  BY DEF Call
<1> HIDE DEF g
<1>4. life' \in [Gen -> {"new", "up", "dead", "failed", "gone"}]
  BY <1>1, <1>2, <1>3
<1>5. OneWorker'
  BY <1>1, <1>2, <1>3 DEF DeskInv, OneWorker
<1> DEFINE c == [r EXCEPT !.gen = g]
<1>6. c \in Pending /\ c.gen = g /\ calls' = Append(calls, c)
  BY <1>2, <1>3
<1> HIDE DEF c
<1>7. /\ calls' \in Seq(Pending) /\ Len(calls') = Len(calls) + 1
      /\ Len(calls) \in Nat /\ DOMAIN calls = 1 .. Len(calls)
      /\ DOMAIN calls' = 1 .. Len(calls) + 1
      /\ \A i \in 1 .. Len(calls) : calls'[i] = calls[i]
      /\ calls'[Len(calls) + 1] = c
  BY <1>1, <1>6
<1>8. \A h \in Gen : life[h] \in {"up", "dead"} => life'[h] \in {"up", "dead"}
  BY <1>1, <1>2, <1>3
<1>9. NoOrphan'
  <2> SUFFICES ASSUME NEW i \in DOMAIN calls'
               PROVE  life'[calls'[i].gen] \in {"up", "dead"}
    BY DEF NoOrphan
  <2>1. CASE i \in DOMAIN calls
    <3>1. calls'[i] = calls[i] /\ calls[i] \in Pending
      BY <1>1, <1>7, <2>1
    <3>2. calls[i].gen \in Gen
      BY <3>1 DEF Pending
    <3> QED
      BY <1>8, <2>1, <3>1, <3>2 DEF DeskInv, NoOrphan
  <2>2. CASE i = Len(calls) + 1
    BY <1>2, <1>3, <1>5, <1>6, <1>7, <2>2 DEF OneWorker
  <2> QED
    BY <1>7, <2>1, <2>2
<1> QED
  BY <1>2, <1>3, <1>4, <1>5, <1>7, <1>9

(* What is taken out of a list leaves the others. *)
LEMMA Removed ==
  ASSUME NEW S, NEW s \in Seq(S), NEW i \in DOMAIN s
  PROVE  /\ RemoveAt(s, i) \in Seq(S) /\ Len(RemoveAt(s, i)) = Len(s) - 1
         /\ \A j \in DOMAIN RemoveAt(s, i) : \E k \in DOMAIN s : RemoveAt(s, i)[j] = s[k]
<1> DEFINE n == Len(s) t == RemoveAt(s, i)
<1>1. n \in Nat /\ i \in 1 .. n /\ DOMAIN s = 1 .. n
  OBVIOUS
<1> DEFINE a == SubSeq(s, 1, i - 1) b == SubSeq(s, i + 1, n)
<1>2. a \in Seq(S) /\ Len(a) = i - 1 /\ \A j \in 1 .. i - 1 : a[j] = s[j]
  BY <1>1
<1>3. b \in Seq(S) /\ Len(b) = n - i /\ \A j \in 1 .. n - i : b[j] = s[i + j]
  BY <1>1
<1>4. t = a \o b
  BY DEF RemoveAt
<1> HIDE DEF a, b, n, t
<1>5. /\ t \in Seq(S) /\ Len(t) = n - 1 /\ DOMAIN t = 1 .. n - 1
      /\ \A j \in 1 .. n - 1 : t[j] = IF j <= Len(a) THEN a[j] ELSE b[j - Len(a)]
  <2>1. Len(a) + Len(b) = n - 1
    BY <1>1, <1>2, <1>3
  <2>2. /\ a \o b \in Seq(S)
        /\ Len(a \o b) = Len(a) + Len(b)
        /\ \A j \in 1 .. Len(a) + Len(b) :
              (a \o b)[j] = IF j <= Len(a) THEN a[j] ELSE b[j - Len(a)]
    BY <1>2, <1>3, ConcatProperties
  <2>3. /\ t \in Seq(S) /\ Len(t) = n - 1
        /\ \A j \in 1 .. n - 1 : t[j] = IF j <= Len(a) THEN a[j] ELSE b[j - Len(a)]
    BY <1>4, <2>1, <2>2, Zenon
  <2>4. DOMAIN t = 1 .. n - 1
    BY <2>3
  <2> QED
    BY <2>3, <2>4
<1>6. ASSUME NEW j \in 1 .. n - 1
      PROVE  \E k \in 1 .. n : t[j] = s[k]
  <2>1. CASE j \in 1 .. i - 1
    <3>1. t[j] = a[j]
      BY <1>1, <1>2, <1>5, <2>1
    <3> QED
      BY <1>1, <1>2, <2>1, <3>1
  <2>2. CASE j \in i .. n - 1
    <3> DEFINE m == j - (i - 1)
    <3>1. m \in 1 .. n - i /\ i + m \in 1 .. n /\ j = Len(a) + m
      BY <1>1, <1>2, <2>2
    <3>2. t[j] = b[j - Len(a)]
      BY <1>1, <1>2, <1>5, <2>2
    <3>3. j - Len(a) = m
      BY <1>1, <1>2, <2>2
    <3> HIDE DEF m
    <3> QED
      BY <1>3, <3>1, <3>2, <3>3
  <2> QED
    BY <1>1, <2>1, <2>2
<1> QED
  BY <1>1, <1>5, <1>6 DEF n, t
-----------------------------------------------------------------------------
(* What is left of the calls still goes to a worker that may answer, or    *)
(* whose death is yet to be handled.                                       *)
LEMMA NoneOrphaned ==
  ASSUME DeskInv,
         \A j \in DOMAIN calls' : \E k \in DOMAIN calls : calls'[j].gen = calls[k].gen,
         \A g \in Gen : life[g] \in {"up", "dead"} => life'[g] \in {"up", "dead"}
  PROVE  NoOrphan'
<1> SUFFICES ASSUME NEW j \in DOMAIN calls'
             PROVE  life'[calls'[j].gen] \in {"up", "dead"}
  BY DEF NoOrphan
<1>1. PICK k \in DOMAIN calls : calls'[j].gen = calls[k].gen
  OBVIOUS
<1>2. calls[k] \in Pending
  BY DEF DeskInv, TypeOK
<1>3. calls[k].gen \in Gen
  BY <1>2 DEF Pending
<1> QED
  BY <1>1, <1>3 DEF DeskInv, NoOrphan

(* What the user does: at most one more call. *)
LEMMA ClickInv ==
  ASSUME DeskInv, Click,
         NEW kind \in {"open", "step", "reset", "convert"}, NEW file \in File \cup {Nothing},
         NEW prev \in 0 .. MaxFile, NEW sure \in BOOLEAN, Call(Request(kind, file, prev, sure)),
         kind \in {"open", "step"} => file # Nothing,
         index' \in 0 .. MaxFile, pace' \in Paces,
         UNCHANGED <<lastOpened, siblings, indexing, shown, saved>>
  PROVE  DeskInv'
<1> DEFINE r == Request(kind, file, prev, sure)
<1>1. \A g \in Gen : [r EXCEPT !.gen = g] \in Pending /\ [r EXCEPT !.gen = g].gen = g
  BY RequestType
<1>2. Call(r)
  OBVIOUS
<1> HIDE DEF r
<1>3. /\ worker' \in Gen /\ life' \in [Gen -> {"new", "up", "dead", "failed", "gone"}]
      /\ calls' \in Seq(Pending) /\ Len(calls') = Len(calls) + 1
      /\ OneWorker' /\ NoOrphan' /\ current' = current
  BY <1>1, <1>2, CallKeeps
<1>4. clicks' \in 0 .. MaxClick /\ Len(calls') <= clicks' /\ Len(calls') <= MaxClick
  <2>1. clicks \in 0 .. MaxClick /\ Len(calls) <= clicks /\ clicks < MaxClick
        /\ clicks' = clicks + 1 /\ MaxClick \in Nat /\ Len(calls) \in Nat
    BY DeskAssumption DEF DeskInv, TypeOK, Click
  <2> QED
    BY <1>3, <2>1
<1>5. TypeOK'
  BY <1>3, <1>4 DEF DeskInv, TypeOK, Paces
<1> QED
  BY <1>3, <1>4, <1>5 DEF DeskInv

LEMMA OpenClickInv ==
  ASSUME DeskInv, NEW f \in File, OpenClick(f)
  PROVE  DeskInv'
<1>1. Opening \in BOOLEAN /\ pace \in Paces
  BY DEF Opening, DeskInv, TypeOK, Paces
<1>2. /\ Click /\ Call(Request("open", f, 0, TRUE))
      /\ Begin(Opening)
      /\ UNCHANGED <<lastOpened, siblings, index, indexing, shown, saved>>
  BY DEF OpenClick, main
<1>3. pace' \in Paces /\ index' \in 0 .. MaxFile
  BY <1>1, <1>2, BeginType DEF DeskInv, TypeOK
<1> QED
  BY <1>2, <1>3, ClickInv, Bounds

LEMMA StepClickInv ==
  ASSUME DeskInv, NEW d \in {-1, 1}, StepClick(d)
  PROVE  DeskInv'
<1> DEFINE to == Clamp(index + d)
<1>1. index \in 0 .. MaxFile /\ pace \in Paces /\ siblings \in Listings
  BY DEF DeskInv, TypeOK, Paces
<1>2. /\ Click /\ siblings # <<>>
      /\ Call(Request("step", siblings[to], index, Steps = {}))
      /\ Begin(indexing # <<>> \/ InFlight({"open", "reset"}))
      /\ index' = to
      /\ UNCHANGED <<lastOpened, siblings, indexing, shown, saved>>
  BY DEF StepClick
<1>3. /\ Len(siblings) \in 0 .. MaxFile /\ Len(siblings) # 0
      /\ \A i \in 1 .. Len(siblings) : siblings[i] \in File
      /\ MaxFile \in Nat
  BY <1>1, <1>2, Lists, DeskAssumption
<1>4. to \in 1 .. Len(siblings)
  BY <1>1, <1>3 DEF Clamp
<1> HIDE DEF to
<1>5. /\ siblings[to] \in File \cup {Nothing} /\ siblings[to] # Nothing
      /\ to \in 0 .. MaxFile
  BY <1>3, <1>4, Bounds
<1>6. (indexing # <<>> \/ InFlight({"open", "reset"})) \in BOOLEAN
  OBVIOUS
<1>7. pace' \in Paces /\ index' \in 0 .. MaxFile
  BY <1>1, <1>2, <1>5, <1>6, BeginType
<1>8. (Steps = {}) \in BOOLEAN
  OBVIOUS
<1> DEFINE file == siblings[to]
<1>9. /\ Click /\ Call(Request("step", file, index, Steps = {}))
      /\ file \in File \cup {Nothing} /\ file # Nothing
      /\ UNCHANGED <<lastOpened, siblings, indexing, shown, saved>>
  BY <1>2, <1>5
<1> HIDE DEF file
<1> QED
  BY <1>1, <1>7, <1>8, <1>9, ClickInv

LEMMA ClearClickInv ==
  ASSUME DeskInv, ClearClick
  PROVE  DeskInv'
<1>1. Opening \in BOOLEAN /\ pace \in Paces
  BY DEF Opening, DeskInv, TypeOK, Paces
<1>2. /\ Click /\ Call(Request("reset", Nothing, 0, TRUE))
      /\ Begin(Opening)
      /\ UNCHANGED <<lastOpened, siblings, index, indexing, shown, saved>>
  BY DEF ClearClick, main
<1>3. pace' \in Paces /\ index' \in 0 .. MaxFile
  BY <1>1, <1>2, BeginType DEF DeskInv, TypeOK
<1> QED
  BY <1>2, <1>3, ClickInv, Bounds

LEMMA ConvertClickInv ==
  ASSUME DeskInv, ConvertClick
  PROVE  DeskInv'
<1>1. shown.file \in File \cup {Nothing} /\ (~Opening /\ pace = "calm") \in BOOLEAN
  BY DEF Opening, DeskInv, TypeOK
<1>2. /\ Click /\ Call(Request("convert", shown.file, 0, ~Opening /\ pace = "calm"))
      /\ UNCHANGED <<lastOpened, siblings, index, indexing, shown, saved, pace>>
  BY DEF ConvertClick, main
<1>3. pace' \in Paces /\ index' \in 0 .. MaxFile
  BY <1>2 DEF DeskInv, TypeOK, Paces
<1> QED
  BY <1>1, <1>2, <1>3, ClickInv, Bounds

-----------------------------------------------------------------------------
(* What the worker does. *)
LEMMA WorkInv ==
  ASSUME DeskInv, NEW g \in Gen, NEW ok \in BOOLEAN, Work(g, ok)
  PROVE  DeskInv'
<1>1. PICK i \in DOMAIN calls :
        /\ current' = [current EXCEPT ![g] = Holds(calls[i], ok, @)]
        /\ calls' = [calls EXCEPT ![i].answer = IF ok THEN "ok" ELSE "bad",
                                  ![i].content = current[g]]
  BY DEF Work
<1>2. UNCHANGED <<worker, life, lastOpened, siblings, index, indexing, shown, saved,
                  clicks, pace>>
  BY DEF Work, main
<1>3. /\ calls \in Seq(Pending) /\ calls[i] \in Pending
      /\ current \in [Gen -> File \cup {Nothing}]
  BY DEF DeskInv, TypeOK
<1> DEFINE r == calls[i]
           c == [r EXCEPT !.answer = IF ok THEN "ok" ELSE "bad", !.content = current[g]]
<1>4. c \in Pending /\ c.gen = r.gen
  BY <1>3 DEF Pending
<1>5. Holds(r, ok, current[g]) \in File \cup {Nothing}
  BY <1>3 DEF Holds, Pending
<1>6. current' \in [Gen -> File \cup {Nothing}]
  BY <1>1, <1>3, <1>5
<1>7. calls' = [calls EXCEPT ![i] = c]
  BY <1>1
<1> HIDE DEF c
<1>8. /\ calls' \in Seq(Pending) /\ Len(calls') = Len(calls)
      /\ DOMAIN calls' = DOMAIN calls
      /\ \A j \in DOMAIN calls : calls'[j] = IF j = i THEN c ELSE calls[j]
  BY <1>3, <1>4, <1>7
<1>9. \A j \in DOMAIN calls' : \E k \in DOMAIN calls : calls'[j].gen = calls[k].gen
  BY <1>4, <1>8
<1>10. NoOrphan'
  BY <1>2, <1>9, NoneOrphaned
<1>11. TypeOK'
  BY <1>2, <1>6, <1>8 DEF DeskInv, TypeOK
<1> QED
  BY <1>2, <1>8, <1>10, <1>11 DEF DeskInv, OneWorker

LEMMA CrashInv ==
  ASSUME DeskInv, NEW g \in Gen, Crash(g)
  PROVE  DeskInv'
<1>1. /\ life[g] = "up" /\ life' = [life EXCEPT ![g] = "dead"]
      /\ UNCHANGED <<worker, current, calls, lastOpened, siblings, index, indexing, shown,
                     saved, clicks, pace>>
  BY DEF Crash, main
<1>2. life \in [Gen -> {"new", "up", "dead", "failed", "gone"}]
  BY DEF DeskInv, TypeOK
<1>3. OneWorker' /\ \A h \in Gen : life[h] \in {"up", "dead"} => life'[h] \in {"up", "dead"}
  BY <1>1, <1>2 DEF DeskInv, OneWorker
<1>4. NoOrphan'
  BY <1>1, <1>3, NoneOrphaned
<1>5. TypeOK'
  BY <1>1, <1>2 DEF DeskInv, TypeOK
<1> QED
  BY <1>1, <1>3, <1>4, <1>5 DEF DeskInv

-----------------------------------------------------------------------------
(* What the main process does. *)
LEMMA IndexedInv ==
  ASSUME DeskInv, NEW i \in DOMAIN indexing, Indexed(i)
  PROVE  DeskInv'
<1> DEFINE f == indexing[i]
<1>1. /\ \/ siblings' = Folder /\ index' = f
         \/ siblings' = <<f>> /\ index' = 1
      /\ indexing' = RemoveAt(indexing, i)
      /\ shown' = [file |-> f, index |-> index', count |-> Len(siblings')]
      /\ End(TRUE)
      /\ UNCHANGED <<worker, life, current, calls, lastOpened, saved, clicks>>
  BY DEF Indexed, workers
<1>2. indexing \in Seq(File) /\ f \in File /\ pace \in Paces
  BY DEF DeskInv, TypeOK, Paces
<1> HIDE DEF f
<1>3. indexing' \in Seq(File)
  BY <1>1, <1>2, Removed
<1>4. siblings' \in Listings /\ index' \in 0 .. MaxFile
  <2>1. f \in 0 .. MaxFile /\ 1 \in 0 .. MaxFile
    BY <1>2, DeskAssumption DEF File
  <2>2. Folder \in Listings /\ <<f>> \in Listings
    BY <1>2 DEF Listings
  <2> QED
    BY <1>1, <2>1, <2>2
<1>5. Len(siblings') \in 0 .. MaxFile
  BY <1>4, Lists
<1>6. shown' \in [file : File \cup {Nothing}, index : 0 .. MaxFile, count : 0 .. MaxFile]
  BY <1>1, <1>2, <1>4, <1>5
<1>7. pace' \in Paces
  BY <1>1, <1>2, EndType
<1>8. TypeOK'
  BY <1>1, <1>3, <1>4, <1>6, <1>7 DEF DeskInv, TypeOK, Paces
<1> QED
  BY <1>1, <1>8 DEF DeskInv, OneWorker, NoOrphan

(* An answer, of whatever kind, leaves every variable its type. *)
LEMMA AnswerTypes ==
  ASSUME DeskInv, NEW r \in Pending,
         OpenAnswer(r) \/ StepAnswer(r) \/ ResetAnswer(r) \/ ConvertAnswer(r)
  PROVE  /\ lastOpened' \in File \cup {Nothing} /\ indexing' \in Seq(File)
         /\ siblings' \in Listings /\ pace' \in Paces /\ index' \in 0 .. MaxFile
         /\ shown' \in [file : File \cup {Nothing}, index : 0 .. MaxFile,
                        count : 0 .. MaxFile]
         /\ saved' \in [name : File \cup {Nothing}, file : File \cup {Nothing},
                        sure : BOOLEAN]
<1>1. /\ lastOpened \in File \cup {Nothing} /\ indexing \in Seq(File)
      /\ siblings \in Listings /\ pace \in Paces /\ index \in 0 .. MaxFile
      /\ shown \in [file : File \cup {Nothing}, index : 0 .. MaxFile, count : 0 .. MaxFile]
      /\ saved \in [name : File \cup {Nothing}, file : File \cup {Nothing}, sure : BOOLEAN]
  BY DEF DeskInv, TypeOK, Paces
<1>2. /\ r.file \in File \cup {Nothing} /\ r.content \in File \cup {Nothing}
      /\ r.prev \in 0 .. MaxFile /\ r.sure \in BOOLEAN
  BY DEF Pending
<1>3. CASE OpenAnswer(r)
  <2>1. UNCHANGED <<siblings, index, shown, saved>>
    BY <1>3 DEF OpenAnswer
  <2>2. CASE r.answer = "ok"
    <3>1. lastOpened' = r.file /\ indexing' = Append(indexing, r.file) /\ pace' = pace
      BY <1>3, <2>2 DEF OpenAnswer
    <3>2. r.file \in File
      BY <1>2, <1>3 DEF OpenAnswer, Pending, Nothing
    <3> QED
      BY <1>1, <2>1, <3>1, <3>2
  <2>3. CASE r.answer # "ok"
    <3>1. End(pace # "calming") /\ UNCHANGED <<lastOpened, indexing>>
      BY <1>3, <2>3 DEF OpenAnswer
    <3>2. pace' \in Paces
      BY <1>1, <3>1 DEF End, Paces
    <3> QED
      BY <1>1, <2>1, <3>1, <3>2
  <2> QED
    BY <2>2, <2>3
<1>4. CASE StepAnswer(r)
  <2>1. UNCHANGED <<siblings, indexing, saved>> /\ Len(siblings) \in 0 .. MaxFile
    BY <1>1, <1>4, Lists DEF StepAnswer
  <2>2. CASE r.answer = "ok"
    <3>1. /\ lastOpened' = r.file /\ index' = index /\ End(TRUE)
          /\ shown' = [file |-> r.file, index |-> index, count |-> Len(siblings)]
      BY <1>4, <2>2 DEF StepAnswer
    <3>2. pace' \in Paces
      BY <1>1, <3>1, EndType
    <3> QED
      BY <1>1, <1>2, <2>1, <3>1, <3>2
  <2>3. CASE r.answer # "ok"
    <3>1. /\ End(Cardinality(Steps) = 1 /\ r.sure /\ pace # "calming") /\ index' = r.prev
          /\ UNCHANGED <<lastOpened, shown>>
      BY <1>4, <2>3 DEF StepAnswer, BackTo
    <3>2. (Cardinality(Steps) = 1 /\ r.sure /\ pace # "calming") \in BOOLEAN
      BY <1>2
    <3>3. pace' \in Paces
      BY <1>1, <3>1, <3>2, EndType
    <3> QED
      BY <1>1, <1>2, <2>1, <3>1, <3>3
  <2> QED
    BY <2>2, <2>3
<1>5. CASE ResetAnswer(r)
  <2>1. /\ lastOpened' = Nothing /\ siblings' = <<>> /\ index' = 0 /\ shown' = Blank
        /\ End(TRUE) /\ UNCHANGED <<indexing, saved>>
    BY <1>5 DEF ResetAnswer
  <2>2. pace' \in Paces /\ siblings' \in Listings
    BY <1>1, <2>1, EndType, Lists
  <2> QED
    BY <1>1, <2>1, <2>2, Bounds DEF Blank
<1>6. CASE ConvertAnswer(r)
  BY <1>1, <1>2, <1>6 DEF ConvertAnswer, main
<1> QED
  BY <1>3, <1>4, <1>5, <1>6

LEMMA AnswerInv ==
  ASSUME DeskInv, NEW g \in Gen, Answer(g)
  PROVE  DeskInv'
<1>1. PICK i \in DOMAIN calls :
        /\ OpenAnswer(calls[i]) \/ StepAnswer(calls[i]) \/ ResetAnswer(calls[i])
              \/ ConvertAnswer(calls[i])
        /\ calls' = RemoveAt(calls, i)
  BY DEF Answer, Finish
<1>2. UNCHANGED <<worker, life, current, clicks>>
  BY DEF Answer, workers
<1>3. /\ calls \in Seq(Pending) /\ calls[i] \in Pending /\ Len(calls) \in Nat
      /\ Len(calls) <= clicks /\ clicks \in 0 .. MaxClick /\ MaxClick \in Nat
  BY DeskAssumption DEF DeskInv, TypeOK
<1>4. /\ calls' \in Seq(Pending) /\ Len(calls') = Len(calls) - 1
      /\ \A j \in DOMAIN calls' : \E k \in DOMAIN calls : calls'[j] = calls[k]
  BY <1>1, <1>3, Removed
<1>5. NoOrphan'
  <2>1. \A j \in DOMAIN calls' : \E k \in DOMAIN calls : calls'[j].gen = calls[k].gen
    BY <1>4
  <2> QED
    BY <1>2, <2>1, NoneOrphaned
<1>6. /\ lastOpened' \in File \cup {Nothing} /\ indexing' \in Seq(File)
      /\ siblings' \in Listings /\ pace' \in Paces /\ index' \in 0 .. MaxFile
      /\ shown' \in [file : File \cup {Nothing}, index : 0 .. MaxFile, count : 0 .. MaxFile]
      /\ saved' \in [name : File \cup {Nothing}, file : File \cup {Nothing},
                     sure : BOOLEAN]
  BY <1>1, <1>3, AnswerTypes
<1>7. Len(calls') <= clicks' /\ Len(calls') <= MaxClick
  BY <1>2, <1>3, <1>4
<1>8. TypeOK'
  BY <1>2, <1>4, <1>6, <1>7 DEF DeskInv, TypeOK, Paces
<1> QED
  BY <1>2, <1>5, <1>7, <1>8 DEF DeskInv, OneWorker

(* Everything pending is rejected: whoever waits, waits for this worker.   *)
LEMMA WorkerErrorInv ==
  ASSUME DeskInv, NEW g \in Gen, WorkerError(g)
  PROVE  DeskInv'
<1> DEFINE steps == {i \in Steps : i \in Rejected}
<1>1. /\ life[g] = "dead" /\ life' = [life EXCEPT ![g] = "failed"]
      /\ worker' = Nothing /\ calls' = <<>>
      /\ UNCHANGED <<current, lastOpened, siblings, indexing, saved, clicks>>
  BY DEF WorkerError, Rejected, FailedNoMore
<1>2. \/ steps = {} /\ index' = index
      \/ \E i \in steps : index' = calls[i].prev
  BY DEF WorkerError, BackTo
<1>3. \/ shown' = Blank
      \/ shown' = shown
  BY DEF WorkerError
<1>4. pace' \in {"rushed", pace}
  BY DEF WorkerError
<1>5. /\ worker \in Gen \cup {Nothing} /\ pace \in Paces
      /\ life \in [Gen -> {"new", "up", "dead", "failed", "gone"}]
      /\ calls \in Seq(Pending) /\ clicks \in 0 .. MaxClick /\ MaxClick \in Nat
      /\ shown \in [file : File \cup {Nothing}, index : 0 .. MaxFile, count : 0 .. MaxFile]
      /\ index \in 0 .. MaxFile
  BY DeskAssumption DEF DeskInv, TypeOK, Paces
<1>6. \A i \in steps : i \in DOMAIN calls
  BY DEF Steps
<1> HIDE DEF steps
<1>7. index' \in 0 .. MaxFile
  <2>1. \A i \in DOMAIN calls : calls[i].prev \in 0 .. MaxFile
    <3> SUFFICES ASSUME NEW i \in DOMAIN calls
                 PROVE  calls[i].prev \in 0 .. MaxFile
      OBVIOUS
    <3>1. calls[i] \in Pending
      BY <1>5
    <3> QED
      BY <3>1 DEF Pending
  <2> QED
    BY <1>2, <1>5, <1>6, <2>1
<1>8. shown' \in [file : File \cup {Nothing}, index : 0 .. MaxFile, count : 0 .. MaxFile]
  BY <1>3, <1>5, Bounds DEF Blank
<1>9. pace' \in Paces
  BY <1>4, <1>5 DEF Paces
<1>10. life' \in [Gen -> {"new", "up", "dead", "failed", "gone"}]
  BY <1>1, <1>5
<1>11. calls' \in Seq(Pending) /\ Len(calls') = 0 /\ DOMAIN calls' = {}
  BY <1>1
<1>12. TypeOK'
  BY <1>1, <1>5, <1>7, <1>8, <1>9, <1>10, <1>11 DEF DeskInv, TypeOK, Paces
<1>13. OneWorker'
  BY <1>1, <1>5, Bounds DEF DeskInv, OneWorker
<1>14. NoOrphan'
  BY <1>11 DEF NoOrphan
<1> QED
  BY <1>1, <1>5, <1>11, <1>12, <1>13, <1>14 DEF DeskInv

(* The exit of a worker that has failed: requests go to another by now, if *)
(* to any.                                                                 *)
LEMMA WorkerExitInv ==
  ASSUME DeskInv, NEW g \in Gen, WorkerExit(g)
  PROVE  DeskInv'
<1>1. /\ life[g] = "failed" /\ life' = [life EXCEPT ![g] = "gone"]
      /\ worker' = IF worker = g THEN Nothing ELSE worker
      /\ UNCHANGED <<current, calls, lastOpened, siblings, index, indexing, shown, saved,
                     clicks, pace>>
  BY DEF WorkerExit, main
<1>2. life \in [Gen -> {"new", "up", "dead", "failed", "gone"}]
  BY DEF DeskInv, TypeOK
<1>3. worker # g /\ worker' = worker
  BY <1>1 DEF DeskInv, OneWorker
<1>4. OneWorker' /\ \A h \in Gen : life[h] \in {"up", "dead"} => life'[h] \in {"up", "dead"}
  BY <1>1, <1>2, <1>3 DEF DeskInv, OneWorker
<1>5. NoOrphan'
  BY <1>1, <1>4, NoneOrphaned
<1>6. TypeOK'
  BY <1>1, <1>2, <1>3 DEF DeskInv, TypeOK
<1> QED
  BY <1>1, <1>4, <1>5, <1>6 DEF DeskInv

-----------------------------------------------------------------------------
LEMMA InitInv == Init => DeskInv
<1> SUFFICES ASSUME Init PROVE DeskInv
  OBVIOUS
<1>1. /\ worker \in Gen \cup {Nothing}
      /\ life \in [Gen -> {"new", "up", "dead", "failed", "gone"}]
      /\ current \in [Gen -> File \cup {Nothing}]
  BY DEF Init
<1>2. calls \in Seq(Pending) /\ Len(calls) <= MaxClick /\ Len(calls) <= clicks
      /\ clicks \in 0 .. MaxClick
  BY DeskAssumption DEF Init
<1>3. /\ shown \in [file : File \cup {Nothing}, index : 0 .. MaxFile, count : 0 .. MaxFile]
      /\ saved \in [name : File \cup {Nothing}, file : File \cup {Nothing}, sure : BOOLEAN]
      /\ lastOpened \in File \cup {Nothing} /\ indexing \in Seq(File)
      /\ siblings \in Listings /\ pace \in {"calm", "rushed", "calming"}
      /\ index \in 0 .. MaxFile
  BY Bounds DEF Init, Blank, Listings
<1>4. TypeOK
  BY <1>1, <1>2, <1>3 DEF TypeOK
<1>5. OneWorker
  BY Bounds DEF Init, OneWorker
<1>6. NoOrphan
  BY DEF Init, NoOrphan
<1> QED
  BY <1>2, <1>4, <1>5, <1>6 DEF DeskInv

LEMMA StepInv == DeskInv /\ [Next]_vars => DeskInv'
<1> SUFFICES ASSUME DeskInv, [Next]_vars PROVE DeskInv'
  OBVIOUS
<1>1. CASE \E f \in File : OpenClick(f)
  BY <1>1, OpenClickInv
<1>2. CASE \E d \in {-1, 1} : StepClick(d)
  BY <1>2, StepClickInv
<1>3. CASE ClearClick \/ ConvertClick
  BY <1>3, ClearClickInv, ConvertClickInv
<1>4. CASE Works
  BY <1>4, WorkInv DEF Works
<1>5. CASE Events
  BY <1>5, IndexedInv, AnswerInv, WorkerErrorInv, WorkerExitInv DEF Events
<1>6. CASE \E g \in Gen : Crash(g)
  BY <1>6, CrashInv
<1>7. CASE UNCHANGED vars
  BY <1>7 DEF DeskInv, TypeOK, OneWorker, NoOrphan, vars
<1> QED
  BY <1>1, <1>2, <1>3, <1>4, <1>5, <1>6, <1>7 DEF Next

LEMMA InvAlways == Spec => []DeskInv
BY InitInv, StepInv, PTL DEF Spec

(* Every variable has its type. *)
THEOREM DeskTypes == Spec => []TypeOK
<1>1. DeskInv => TypeOK
  BY DEF DeskInv
<1> QED
  BY <1>1, InvAlways, PTL

(* No caller waits for a worker whose end has been handled: main.ts 184-220 *)
(* rejects what is pending and lets no request reach that worker.          *)
THEOREM NoneWaits == Spec => []NoOrphan
<1>1. DeskInv => NoOrphan
  BY DEF DeskInv
<1> QED
  BY <1>1, InvAlways, PTL

-----------------------------------------------------------------------------
(* The open file, on a desk that is not rushed. *)

(* The calls that change what the worker holds. *)
Openers == {i \in DOMAIN calls : calls[i].kind \in {"open", "step", "reset"}}

(* Requests go to one worker and are answered in their order; a worker     *)
(* that is new holds nothing.                                              *)
OneQueue ==
    /\ \A i, j \in DOMAIN calls :
          i < j /\ calls[j].answer # "none" => calls[i].answer # "none"
    /\ \A g \in Gen : life[g] = "new" => current[g] = Nothing

(* A conversion begun at rest comes before whatever is opened later: this  *)
(* holds of a rushed desk too.                                             *)
Conversions ==
    \A i \in DOMAIN calls : calls[i].kind = "convert" /\ calls[i].sure =>
        /\ calls[i].answer = "none" => /\ current[worker] \in {Nothing, calls[i].file}
                                       /\ \A j \in Openers : i < j
        /\ calls[i].answer = "ok" => calls[i].content = calls[i].file

(* What is opened is opened alone, but for overlapping steps. *)
OpensAlone ==
    /\ \A i, j \in Openers : i # j => calls[i].kind = "step" /\ calls[j].kind = "step"
    /\ indexing # <<>> => /\ Openers = {} /\ Len(indexing) = 1
                          /\ lastOpened = indexing[1]

(* With steps under way, the index is at the last of them. *)
Ahead ==
    \A i \in Steps : (\A j \in Steps : j <= i) =>
        index \in DOMAIN siblings /\ siblings[index] = calls[i].file

(* What the worker holds once it has answered the opener r. *)
Loaded(r) == IF r.kind # "reset" /\ r.answer = "ok" THEN r.file ELSE Nothing

(* The worker holds what the last of its answers says. *)
AnswerHeld ==
    \A i \in Openers :
        (calls[i].answer # "none" /\ \A j \in Openers : calls[j].answer # "none" => j <= i)
        => current[worker] = Loaded(calls[i])

(* The worker holds the file that is being listed. *)
ListedHeld ==
    indexing # <<>> /\ worker # Nothing => current[worker] \in {Nothing, indexing[1]}

Quiet == OpensAlone /\ Ahead /\ AnswerHeld /\ ListedHeld

(* What the window shows is what the main process opened last, and the     *)
(* index is there too.                                                     *)
Agree ==
    /\ shown.file # Nothing =>
          /\ shown.count = Len(siblings)
          /\ indexing = <<>> => lastOpened = shown.file
          /\ Steps = {} => /\ index \in DOMAIN siblings /\ siblings[index] = shown.file
                           /\ shown.index = index
    /\ Steps # {} => shown.file # Nothing

(* A step made when there was no other goes back to the file shown. *)
FirstStep ==
    \A i \in Steps : calls[i].sure =>
        /\ calls[i].prev = shown.index
        /\ shown.index \in DOMAIN siblings /\ siblings[shown.index] = shown.file
        /\ \A j \in Steps : i <= j

(* Without an answer under way, the worker holds the file shown. *)
ShownHeld ==
    /\ indexing = <<>> /\ \A i \in Openers : calls[i].answer = "none"
    /\ worker # Nothing /\ shown.file # Nothing
    => current[worker] \in {Nothing, shown.file}

Calm == Agree /\ FirstStep /\ ShownHeld

(* What calms a desk down is alone. *)
Alone == \A i, j \in Openers : i = j

OpenInv ==
    /\ OneQueue /\ Conversions /\ (saved.sure => saved.name = saved.file)
    /\ pace # "rushed" => Quiet
    /\ pace = "calm" => Calm
    /\ pace = "calming" => Alone

-----------------------------------------------------------------------------
LEMMA BeginCases ==
  ASSUME NEW hasty \in BOOLEAN, Begin(hasty)
  PROVE  /\ hasty => pace' = "rushed"
         /\ ~hasty /\ pace = "calm" => pace' = "calm"
         /\ ~hasty /\ pace # "calm" => pace' = IF Opening THEN "rushed" ELSE "calming"
BY DEF Begin

LEMMA EndCases ==
  ASSUME NEW well \in BOOLEAN, End(well)
  PROVE  /\ ~well => pace' = "rushed"
         /\ well /\ pace = "calming" => pace' = "calm"
         /\ well /\ pace # "calming" => pace' = pace
BY DEF End

LEMMA Queue ==
  ASSUME DeskInv
  PROVE  /\ Len(calls) \in Nat /\ DOMAIN calls = 1 .. Len(calls)
         /\ \A i \in DOMAIN calls : calls[i] \in Pending /\ calls[i].gen = worker
         /\ worker = Nothing => DOMAIN calls = {}
         /\ \A g \in Gen : life[g] = "up" => g = worker
<1>1. calls \in Seq(Pending)
  BY DEF DeskInv, TypeOK
<1>2. \A i \in DOMAIN calls : calls[i] \in Pending
  BY <1>1
<1>3. \A i \in DOMAIN calls : calls[i].gen \in Gen
  BY <1>2 DEF Pending
<1>4. \A i \in DOMAIN calls : calls[i].gen = worker
  BY <1>3 DEF DeskInv, NoOrphan, OneWorker
<1>5. Nothing \notin Gen
  BY Bounds
<1> QED
  BY <1>1, <1>2, <1>3, <1>4, <1>5 DEF DeskInv, OneWorker

(* One more request, at the end; a worker that is made for it is empty. *)
LEMMA Called ==
  ASSUME DeskInv, OneQueue,
         NEW kind \in {"open", "step", "reset", "convert"}, NEW file, NEW prev, NEW sure,
         Call(Request(kind, file, prev, sure)), NEW n, n = Len(calls) + 1
  PROVE  /\ Len(calls) \in Nat /\ DOMAIN calls = 1 .. Len(calls) /\ n \in Nat
         /\ DOMAIN calls' = 1 .. n
         /\ \A i \in DOMAIN calls : i < n /\ calls'[i] = calls[i]
         /\ calls'[n].kind = kind /\ calls'[n].file = file /\ calls'[n].prev = prev
         /\ calls'[n].sure = sure /\ calls'[n].answer = "none"
         /\ current' = current
         /\ worker # Nothing => worker' = worker
         /\ worker = Nothing => DOMAIN calls = {} /\ current[worker'] = Nothing
         /\ Openers' = IF kind = "convert" THEN Openers ELSE Openers \cup {n}
         /\ Steps' = IF kind = "step" THEN Steps \cup {n} ELSE Steps
<1> DEFINE r == Request(kind, file, prev, sure)
           c == [r EXCEPT !.gen = GetWorker]
<1>1. /\ Len(calls) \in Nat /\ DOMAIN calls = 1 .. Len(calls)
      /\ worker = Nothing => DOMAIN calls = {}
  BY Queue
<1>2. calls \in Seq(Pending) /\ worker \in Gen \cup {Nothing}
  BY DEF DeskInv, TypeOK
<1>3. calls' = Append(calls, c) /\ worker' = GetWorker /\ current' = current
  BY DEF Call
<1>4. /\ c.kind = kind /\ c.file = file /\ c.prev = prev /\ c.sure = sure
      /\ c.answer = "none"
  BY DEF Request
<1> HIDE DEF r, c
<1>5. /\ DOMAIN calls' = 1 .. n /\ calls'[n] = c
      /\ \A i \in DOMAIN calls : i < n /\ calls'[i] = calls[i]
  BY <1>1, <1>2, <1>3
<1>6. worker = Nothing => current[worker'] = Nothing
  BY <1>2, <1>3 DEF OneQueue, Call, CanAsk, GetWorker
<1>7. worker # Nothing => worker' = worker
  BY <1>3 DEF GetWorker
<1>8. DOMAIN calls' = DOMAIN calls \cup {n} /\ n \notin DOMAIN calls
  BY <1>1, <1>5
<1>9. Openers' = IF kind = "convert" THEN Openers ELSE Openers \cup {n}
  BY <1>4, <1>5, <1>8 DEF Openers
<1>10. Steps' = IF kind = "step" THEN Steps \cup {n} ELSE Steps
  BY <1>4, <1>5, <1>8 DEF Steps
<1> QED
  BY <1>1, <1>3, <1>4, <1>5, <1>6, <1>7, <1>9, <1>10

LEMMA CalledQueue ==
  ASSUME DeskInv, OneQueue,
         NEW kind \in {"open", "step", "reset", "convert"}, NEW file, NEW prev, NEW sure,
         Call(Request(kind, file, prev, sure))
  PROVE  OneQueue'
<1> DEFINE n == Len(calls) + 1
<1>1. /\ Len(calls) \in Nat /\ DOMAIN calls = 1 .. Len(calls) /\ n \in Nat
      /\ DOMAIN calls' = 1 .. n
      /\ \A i \in DOMAIN calls : i < n /\ calls'[i] = calls[i]
      /\ calls'[n].kind = kind /\ calls'[n].file = file /\ calls'[n].answer = "none"
  BY Called
<1>0. n = Len(calls) + 1
  OBVIOUS
<1> HIDE DEF n
<1>2. n \notin DOMAIN calls /\ \A i \in DOMAIN calls' : i = n \/ (i \in DOMAIN calls /\ i < n)
  BY <1>0, <1>1
<1>3. ASSUME NEW i \in DOMAIN calls', NEW j \in DOMAIN calls', i < j,
             calls'[j].answer # "none"
      PROVE  calls'[i].answer # "none"
  <2>1. j # n /\ j \in DOMAIN calls /\ i \in DOMAIN calls
    BY <1>1, <1>2, <1>3
  <2> QED
    BY <1>1, <1>3, <2>1 DEF OneQueue
<1>5. \A g \in Gen : life'[g] = "new" => life[g] = "new"
  BY DEF Call, DeskInv, TypeOK
<1>6. current' = current
  BY DEF Call
<1> QED
  BY <1>3, <1>5, <1>6 DEF OneQueue

(* One more request leaves what the worker holds, and what was answered.   *)
LEMMA CalledHeld ==
  ASSUME DeskInv, OneQueue, Conversions,
         NEW kind \in {"open", "step", "reset", "convert"}, NEW file, NEW prev, NEW sure,
         kind = "convert" /\ sure => Openers = {} /\ (worker # Nothing =>
                                        current[worker] \in {Nothing, file}),
         Call(Request(kind, file, prev, sure)),
         UNCHANGED <<indexing, shown>>
  PROVE  /\ Conversions'
         /\ AnswerHeld => AnswerHeld'
         /\ ListedHeld => ListedHeld'
         /\ ShownHeld => ShownHeld'
<1> DEFINE n == Len(calls) + 1
<1>1. /\ Len(calls) \in Nat /\ DOMAIN calls = 1 .. Len(calls) /\ n \in Nat
      /\ DOMAIN calls' = 1 .. n
      /\ \A i \in DOMAIN calls : i < n /\ calls'[i] = calls[i]
      /\ calls'[n].kind = kind /\ calls'[n].file = file /\ calls'[n].sure = sure
      /\ calls'[n].answer = "none" /\ current' = current
      /\ worker # Nothing => worker' = worker
      /\ worker = Nothing => DOMAIN calls = {} /\ current[worker'] = Nothing
      /\ Openers' = IF kind = "convert" THEN Openers ELSE Openers \cup {n}
  BY Called
<1>0. n = Len(calls) + 1
  OBVIOUS
<1> HIDE DEF n
<1>2. n \notin DOMAIN calls /\ \A i \in DOMAIN calls' : i = n \/ (i \in DOMAIN calls /\ i < n)
  BY <1>0, <1>1
<1>3. Openers \subseteq DOMAIN calls
  BY DEF Openers
<1>5. /\ \A i \in Openers' : i = n \/ i \in Openers
      /\ \A i \in Openers : i \in Openers'
      /\ \A i \in Openers : calls'[i] = calls[i]
  BY <1>1, <1>3
<1>6. ASSUME AnswerHeld, NEW i \in Openers', calls'[i].answer # "none",
             \A j \in Openers' : calls'[j].answer # "none" => j <= i
      PROVE  current'[worker'] = Loaded(calls'[i])
  <2>1. i \in Openers /\ calls'[i] = calls[i] /\ DOMAIN calls # {}
    BY <1>1, <1>3, <1>5, <1>6
  <2>2. \A j \in Openers : calls[j].answer # "none" => j <= i
    BY <1>5, <1>6
  <2> QED
    BY <1>1, <1>6, <2>1, <2>2 DEF AnswerHeld
<1>7. AnswerHeld => AnswerHeld'
  BY <1>6 DEF AnswerHeld
<1>8. ListedHeld => ListedHeld'
  BY <1>1 DEF ListedHeld
<1>9. ASSUME ShownHeld, \A i \in Openers' : calls'[i].answer = "none", indexing = <<>>,
             shown.file # Nothing, worker' # Nothing
      PROVE  current'[worker'] \in {Nothing, shown.file}
  <2>1. \A i \in Openers : calls[i].answer = "none"
    BY <1>5, <1>9
  <2> QED
    BY <1>1, <1>9, <2>1 DEF ShownHeld
<1>10. ShownHeld => ShownHeld'
  BY <1>9 DEF ShownHeld
<1>11. Conversions'
  <2> SUFFICES ASSUME NEW i \in DOMAIN calls', calls'[i].kind = "convert", calls'[i].sure
               PROVE  /\ calls'[i].answer = "none" =>
                            /\ current'[worker'] \in {Nothing, calls'[i].file}
                            /\ \A j \in Openers' : i < j
                      /\ calls'[i].answer = "ok" => calls'[i].content = calls'[i].file
    BY DEF Conversions
  <2>1. CASE i = n
    <3>1. /\ kind = "convert" /\ sure /\ Openers = {} /\ Openers' = {}
          /\ worker # Nothing => current[worker] \in {Nothing, file}
      BY <1>1, <2>1
    <3> QED
      BY <1>1, <2>1, <3>1
  <2>2. CASE i # n
    <3>1. i \in DOMAIN calls /\ i < n /\ calls'[i] = calls[i] /\ DOMAIN calls # {}
      BY <1>1, <1>2, <2>2
    <3> QED
      BY <1>1, <1>5, <3>1 DEF Conversions
  <2> QED
    BY <2>1, <2>2
<1> QED
  BY <1>7, <1>8, <1>10, <1>11

(* Something is opened or cleared: at rest, or the desk is rushed.         *)
LEMMA OpenOrClearOpen ==
  ASSUME DeskInv, OpenInv, NEW kind \in {"open", "reset"}, NEW file,
         Call(Request(kind, file, 0, TRUE)), Begin(Opening),
         UNCHANGED <<lastOpened, siblings, index, indexing, shown, saved>>
  PROVE  OpenInv'
<1> DEFINE sure == TRUE
           n == Len(calls) + 1
<1>1. /\ Call(Request(kind, file, 0, sure)) /\ n = Len(calls) + 1
      /\ kind \in {"open", "step", "reset", "convert"}
      /\ ~(kind = "convert" /\ sure)
  OBVIOUS
<1> HIDE DEF sure, n
<1>2. OneQueue'
  BY <1>1, CalledQueue DEF OpenInv
<1>3. /\ Conversions'
      /\ AnswerHeld => AnswerHeld'
      /\ ListedHeld => ListedHeld'
      /\ ShownHeld => ShownHeld'
  BY <1>1, CalledHeld DEF OpenInv
<1>4. /\ n \in Nat
      /\ Openers' = IF kind = "convert" THEN Openers ELSE Openers \cup {n}
      /\ Steps' = IF kind = "step" THEN Steps \cup {n} ELSE Steps
      /\ calls'[n].answer = "none"
  BY <1>1, Called DEF OpenInv
<1>5. Opening \in BOOLEAN
  BY DEF Opening
<1>6. CASE Opening
  <2>1. pace' = "rushed"
    BY <1>5, <1>6, BeginCases
  <2> QED
    BY <1>2, <1>3, <2>1 DEF OpenInv
<1>7. CASE ~Opening
  <2>1. Openers = {} /\ Steps = {} /\ indexing = <<>>
    BY <1>7 DEF Opening, InFlight, Openers, Steps
  <2>2. Openers' = {n} /\ Steps' = {}
    BY <1>4, <2>1
  <2>3. Quiet'
    BY <1>4, <2>1, <2>2 DEF Quiet, OpensAlone, Ahead, AnswerHeld, ListedHeld
  <2>4. Alone'
    BY <2>2 DEF Alone
  <2>5. pace' = "calm" => pace = "calm"
    BY <1>5, <1>7, BeginCases
  <2>6. Agree => Agree'
    BY <2>1, <2>2 DEF Agree
  <2>7. FirstStep'
    BY <2>2 DEF FirstStep
  <2> QED
    BY <1>2, <1>3, <2>3, <2>4, <2>5, <2>6, <2>7 DEF OpenInv, Calm
<1> QED
  BY <1>6, <1>7

LEMMA StepClickOpen ==
  ASSUME DeskInv, OpenInv, NEW d \in {-1, 1}, StepClick(d)
  PROVE  OpenInv'
<1> DEFINE to == Clamp(index + d)
           file == siblings[to]
           n == Len(calls) + 1
           hasty == indexing # <<>> \/ InFlight({"open", "reset"})
<1>1. /\ shown.file # Nothing /\ index > 0 /\ index' = to /\ siblings # <<>>
      /\ Call(Request("step", file, index, Steps = {}))
      /\ Begin(hasty)
      /\ UNCHANGED <<lastOpened, siblings, indexing, shown, saved>>
  BY DEF StepClick
<1>2. to \in DOMAIN siblings
  <2>1. index \in 0 .. MaxFile /\ siblings \in Listings /\ MaxFile \in Nat
    BY DeskAssumption DEF DeskInv, TypeOK
  <2>2. Len(siblings) \in 0 .. MaxFile /\ Len(siblings) # 0 /\ DOMAIN siblings = 1 .. Len(siblings)
    BY <1>1, <2>1, Lists
  <2> QED
    BY <2>1, <2>2 DEF Clamp
<1>3. file = siblings[to] /\ n = Len(calls) + 1 /\ hasty \in BOOLEAN
  OBVIOUS
<1>4. ~hasty => indexing = <<>> /\ ~InFlight({"open", "reset"})
  OBVIOUS
<1>5. ~hasty /\ ~Opening => Openers = {} /\ Steps = {}
  BY DEF Opening, InFlight, Openers, Steps
<1> HIDE DEF to, file, n, hasty
<1>6. OneQueue'
  BY <1>1, CalledQueue DEF OpenInv
<1>7. /\ Conversions'
      /\ AnswerHeld => AnswerHeld'
      /\ ListedHeld => ListedHeld'
      /\ ShownHeld => ShownHeld'
  BY <1>1, CalledHeld DEF OpenInv
<1>8. /\ n \in Nat /\ DOMAIN calls = 1 .. Len(calls) /\ Len(calls) \in Nat
      /\ \A i \in DOMAIN calls : i < n /\ calls'[i] = calls[i]
      /\ calls'[n].kind = "step" /\ calls'[n].file = file /\ calls'[n].prev = index
      /\ calls'[n].sure = (Steps = {}) /\ calls'[n].answer = "none"
      /\ Openers' = Openers \cup {n} /\ Steps' = Steps \cup {n}
  BY <1>1, <1>3, Called DEF OpenInv
<1>9. /\ \A i \in Steps : i \in DOMAIN calls /\ i \in Nat /\ i < n /\ calls'[i] = calls[i]
      /\ \A i \in Steps : calls[i].kind = "step"
  BY <1>8 DEF Steps
<1>10. ASSUME ~hasty
       PROVE  OpensAlone' /\ Ahead'
  <2>1. Openers = Steps
    BY <1>4, <1>10 DEF Openers, Steps, InFlight
  <2>2. OpensAlone'
    BY <1>1, <1>4, <1>8, <1>9, <1>10, <2>1 DEF OpensAlone
  <2>3. ASSUME NEW i \in Steps', \A j \in Steps' : j <= i
        PROVE  i = n
    <3>1. n <= i /\ (i = n \/ i \in Steps)
      BY <1>8, <2>3
    <3> QED
      BY <1>8, <1>9, <3>1
  <2>4. Ahead'
    BY <1>1, <1>2, <1>3, <1>8, <2>3 DEF Ahead
  <2> QED
    BY <2>2, <2>4
<1>11. CASE pace' = "rushed"
  BY <1>1, <1>6, <1>7, <1>11 DEF OpenInv
<1>12. CASE pace = "calm" /\ ~hasty
  <2>1. pace' = "calm" /\ Quiet /\ Calm
    BY <1>1, <1>3, <1>12, BeginCases DEF OpenInv
  <2>2. Quiet'
    BY <1>7, <1>10, <1>12, <2>1 DEF Quiet
  <2>3. Agree'
    BY <1>1, <1>8, <2>1 DEF Agree, Calm
  <2>4. FirstStep'
    <3>1. \A i \in Steps' : i = n \/ i \in Steps
      BY <1>8
    <3>2. CASE Steps = {}
      <4>1. /\ Steps' = {n} /\ index \in DOMAIN siblings /\ siblings[index] = shown.file
            /\ shown.index = index
        BY <1>1, <2>1, <1>8, <3>2 DEF Calm, Agree
      <4> QED
        BY <1>1, <1>8, <4>1 DEF FirstStep
    <3>3. CASE Steps # {}
      <4> SUFFICES ASSUME NEW i \in Steps', calls'[i].sure
                   PROVE  /\ calls'[i].prev = shown'.index
                          /\ shown'.index \in DOMAIN siblings'
                          /\ siblings'[shown'.index] = shown'.file
                          /\ \A j \in Steps' : i <= j
        BY DEF FirstStep
      <4>1. i \in Steps /\ calls'[i] = calls[i] /\ i < n /\ i \in Nat
        <5>1. ~calls'[n].sure
          BY <1>8, <3>3
        <5> QED
          BY <1>9, <1>8, <3>1, <5>1
      <4>2. /\ calls[i].prev = shown.index
            /\ shown.index \in DOMAIN siblings /\ siblings[shown.index] = shown.file
            /\ \A j \in Steps : i <= j
        BY <2>1, <4>1 DEF Calm, FirstStep
      <4> QED
        BY <1>1, <1>8, <3>1, <4>1, <4>2
    <3> QED
      BY <3>2, <3>3
  <2> QED
    BY <1>1, <1>6, <1>7, <2>1, <2>2, <2>3, <2>4 DEF OpenInv, Calm
<1>13. CASE pace # "calm" /\ ~hasty /\ ~Opening
  <2>1. pace' = "calming"
    BY <1>1, <1>3, <1>13, BeginCases
  <2>2. Openers' = {n} /\ Openers = {}
    BY <1>5, <1>8, <1>13
  <2>3. AnswerHeld' /\ ListedHeld'
    BY <1>1, <1>4, <1>8, <1>13, <2>2 DEF AnswerHeld, ListedHeld
  <2> QED
    BY <1>1, <1>6, <1>7, <1>10, <1>13, <2>1, <2>2, <2>3 DEF OpenInv, Quiet, Alone
<1>14. hasty \/ (pace # "calm" /\ Opening) => pace' = "rushed"
  BY <1>1, <1>3, BeginCases
<1> QED
  BY <1>11, <1>12, <1>13, <1>14

LEMMA ConvertClickOpen ==
  ASSUME DeskInv, OpenInv, ConvertClick
  PROVE  OpenInv'
<1> DEFINE sure == ~Opening /\ pace = "calm"
           file == shown.file
<1>1. /\ file # Nothing /\ Call(Request("convert", file, 0, sure)) /\ file = shown.file
      /\ UNCHANGED <<lastOpened, siblings, index, indexing, shown, saved, pace>>
  BY DEF ConvertClick, main
<1>2. sure => Openers = {} /\ indexing = <<>> /\ pace = "calm"
  BY DEF Opening, InFlight, Openers
<1> HIDE DEF sure, file
<1>3. sure => Openers = {} /\ (worker # Nothing => current[worker] \in {Nothing, file})
  BY <1>1, <1>2 DEF OpenInv, Calm, ShownHeld
<1>4. OneQueue'
  BY <1>1, CalledQueue DEF OpenInv
<1>5. /\ Conversions'
      /\ AnswerHeld => AnswerHeld'
      /\ ListedHeld => ListedHeld'
      /\ ShownHeld => ShownHeld'
  BY <1>1, <1>3, CalledHeld DEF OpenInv
<1>6. /\ \A i \in DOMAIN calls : calls'[i] = calls[i]
      /\ Openers' = Openers /\ Steps' = Steps
  BY <1>1, Called DEF OpenInv
<1>7. Openers \subseteq DOMAIN calls /\ Steps \subseteq DOMAIN calls
  BY DEF Openers, Steps
<1>8. /\ OpensAlone => OpensAlone'
      /\ Ahead => Ahead'
      /\ Agree => Agree'
      /\ FirstStep => FirstStep'
      /\ Alone => Alone'
  BY <1>1, <1>6, <1>7 DEF OpensAlone, Ahead, Agree, FirstStep, Alone
<1> QED
  BY <1>1, <1>4, <1>5, <1>8 DEF OpenInv, Quiet, Calm

-----------------------------------------------------------------------------
(* The worker answers the first request that it has not answered. *)
LEMMA WorkOpen ==
  ASSUME DeskInv, OpenInv, NEW g \in Gen, NEW ok \in BOOLEAN, Work(g, ok)
  PROVE  OpenInv'
<1>1. PICK i \in DOMAIN calls :
        /\ life[g] = "up" /\ First(i, Asked(g))
        /\ calls[i].kind = "reset" => ok
        /\ calls[i].kind = "convert" => ok = (current[g] # Nothing)
        /\ current' = [current EXCEPT ![g] = Holds(calls[i], ok, @)]
        /\ calls' = [calls EXCEPT ![i].answer = IF ok THEN "ok" ELSE "bad",
                                  ![i].content = current[g]]
  BY DEF Work
<1>2. UNCHANGED <<worker, life, lastOpened, siblings, index, indexing, shown, saved, pace>>
  BY DEF Work, main
<1> DEFINE r == calls[i]
           c == calls'[i]
<1>3. /\ Len(calls) \in Nat /\ DOMAIN calls = 1 .. Len(calls)
      /\ r \in Pending /\ calls \in Seq(Pending)
      /\ \A j \in DOMAIN calls : calls[j].gen = g
      /\ g = worker
  BY <1>1, Queue DEF DeskInv, TypeOK
<1>4. /\ DOMAIN calls' = DOMAIN calls
      /\ \A j \in DOMAIN calls : j # i => calls'[j] = calls[j]
      /\ c.kind = r.kind /\ c.file = r.file /\ c.prev = r.prev /\ c.sure = r.sure
      /\ c.answer = (IF ok THEN "ok" ELSE "bad") /\ c.content = current[g]
  BY <1>1, <1>3 DEF Pending
<1>5. /\ current'[g] = Holds(r, ok, current[g])
      /\ \A h \in Gen : h # g => current'[h] = current[h]
  BY <1>1 DEF DeskInv, TypeOK
<1>6. /\ \A j \in DOMAIN calls : calls[j].answer = "none" => i <= j
      /\ r.answer = "none"
  BY <1>1, <1>3 DEF First, Asked
<1> HIDE DEF c, r
<1>7. c.answer # "none" /\ (c.answer = "ok" => ok) /\ (ok => c.answer = "ok")
  BY <1>4
<1>8. Openers' = Openers /\ Steps' = Steps
  BY <1>4 DEF Openers, Steps, c, r
<1>9. OneQueue'
  <2>1. \A j, k \in DOMAIN calls :
           j < k /\ calls'[k].answer # "none" => calls'[j].answer # "none"
    <3> SUFFICES ASSUME NEW j \in DOMAIN calls, NEW k \in DOMAIN calls, j < k,
                        calls'[k].answer # "none", calls'[j].answer = "none"
                 PROVE  FALSE
      OBVIOUS
    <3>1. j # i /\ calls[j].answer = "none" /\ i <= j
      BY <1>4, <1>6, <1>7 DEF c
    <3>2. k # i /\ calls[k].answer # "none"
      BY <1>3, <1>4, <3>1
    <3> QED
      BY <3>1, <3>2 DEF OpenInv, OneQueue
  <2>3. \A h \in Gen : life'[h] = "new" => current'[h] = Nothing
    BY <1>1, <1>2, <1>5 DEF OpenInv, OneQueue
  <2> QED
    BY <1>4, <2>1, <2>3 DEF OneQueue
<1>10. /\ Openers \subseteq DOMAIN calls /\ Steps \subseteq DOMAIN calls
       /\ \A j \in Openers : calls[j].kind \in {"open", "step", "reset"}
  BY DEF Openers, Steps
<1>11. /\ OpensAlone => OpensAlone'
       /\ Ahead => Ahead'
       /\ Agree => Agree'
       /\ FirstStep => FirstStep'
       /\ Alone => Alone'
  <2>1. \A j \in DOMAIN calls : /\ calls'[j].kind = calls[j].kind
                                /\ calls'[j].file = calls[j].file
                                /\ calls'[j].prev = calls[j].prev
                                /\ calls'[j].sure = calls[j].sure
    BY <1>4 DEF c, r
  <2> QED
    BY <1>2, <1>8, <1>10, <2>1 DEF OpensAlone, Ahead, Agree, FirstStep, Alone
<1>12. ASSUME AnswerHeld
       PROVE  AnswerHeld'
  <2> SUFFICES ASSUME NEW k \in Openers, calls'[k].answer # "none",
                      \A j \in Openers : calls'[j].answer # "none" => j <= k
               PROVE  current'[worker] = Loaded(calls'[k])
    BY <1>2, <1>8 DEF AnswerHeld
  <2>1. CASE k = i
    <3>1. r.kind \in {"open", "step", "reset"} /\ (r.kind = "reset" => ok)
      BY <1>1, <1>10, <2>1 DEF r
    <3> QED
      BY <1>3, <1>4, <1>5, <1>7, <2>1, <3>1 DEF Loaded, Holds, c
  <2>2. CASE k # i
    <3>1. calls'[k] = calls[k] /\ k \in DOMAIN calls
      BY <1>4, <1>10, <2>2
    <3>2. k < i
      BY <1>3, <1>6, <2>2, <3>1 DEF OpenInv, OneQueue, r
    <3>3. i \notin Openers
      BY <1>3, <1>7, <3>1, <3>2 DEF c
    <3>4. current'[worker] = current[worker]
      BY <1>3, <1>5, <3>3 DEF Holds, Openers, r
    <3>5. \A j \in Openers : calls[j].answer # "none" => j <= k
      BY <1>4, <1>10, <3>3
    <3> QED
      BY <1>12, <3>1, <3>4, <3>5 DEF AnswerHeld
  <2> QED
    BY <2>1, <2>2
<1>13. ASSUME ShownHeld
       PROVE  ShownHeld'
  <2> SUFFICES ASSUME \A j \in Openers : calls'[j].answer = "none", worker # Nothing,
                      indexing = <<>>, shown.file # Nothing
               PROVE  current'[worker] \in {Nothing, shown.file}
    BY <1>2, <1>8 DEF ShownHeld
  <2>1. i \notin Openers
    BY <1>7 DEF c
  <2>2. \A j \in Openers : calls[j].answer = "none"
    BY <1>4, <1>10, <2>1
  <2>3. current'[worker] = current[worker]
    BY <1>3, <1>5, <2>1 DEF Holds, Openers, r
  <2> QED
    BY <1>13, <2>2, <2>3 DEF ShownHeld
<1>14. ASSUME ListedHeld, OpensAlone
       PROVE  ListedHeld'
  <2> SUFFICES ASSUME indexing # <<>>, worker # Nothing
               PROVE  current'[worker] \in {Nothing, indexing[1]}
    BY <1>2 DEF ListedHeld
  <2>1. i \notin Openers
    BY <1>14 DEF OpensAlone
  <2>2. current'[worker] = current[worker]
    BY <1>3, <1>5, <2>1 DEF Holds, Openers, r
  <2> QED
    BY <1>14, <2>2 DEF ListedHeld
<1>15. Conversions'
  <2> SUFFICES ASSUME NEW k \in DOMAIN calls, calls'[k].kind = "convert", calls'[k].sure
               PROVE  /\ calls'[k].answer = "none" =>
                            /\ current'[worker] \in {Nothing, calls'[k].file}
                            /\ \A j \in Openers : k < j
                      /\ calls'[k].answer = "ok" => calls'[k].content = calls'[k].file
    BY <1>2, <1>4, <1>8 DEF Conversions
  <2>1. CASE k = i
    <3>1. r.kind = "convert" /\ r.sure /\ current[worker] \in {Nothing, r.file}
      BY <1>4, <1>6, <2>1 DEF OpenInv, Conversions, c, r
    <3>2. c.answer = "ok" => current[g] # Nothing
      BY <1>1, <1>7, <3>1 DEF r
    <3> QED
      BY <1>3, <1>4, <1>7, <2>1, <3>1, <3>2 DEF c
  <2>2. CASE k # i
    <3>1. calls'[k] = calls[k]
      BY <1>4, <2>2
    <3>2. ASSUME calls[k].answer = "none"
          PROVE  current'[worker] \in {Nothing, calls[k].file} /\ \A j \in Openers : k < j
      <4>1. /\ current[worker] \in {Nothing, calls[k].file}
            /\ \A j \in Openers : k < j
        BY <3>1, <3>2 DEF OpenInv, Conversions
      <4>2. i < k
        BY <1>3, <1>6, <2>2, <3>2
      <4>3. i \notin Openers
        BY <1>3, <4>1, <4>2
      <4>4. current'[worker] = current[worker]
        BY <1>3, <1>5, <4>3 DEF Holds, Openers, r
      <4> QED
        BY <4>1, <4>4
    <3> QED
      BY <3>1, <3>2 DEF OpenInv, Conversions
  <2> QED
    BY <2>1, <2>2
<1> QED
  BY <1>2, <1>9, <1>11, <1>12, <1>13, <1>14, <1>15 DEF OpenInv, Quiet, Calm

(* A worker that dies or exits holds no less than before. *)
LEMMA EndOpen ==
  ASSUME DeskInv, OpenInv, NEW g \in Gen, Crash(g) \/ WorkerExit(g)
  PROVE  OpenInv'
<1>1. /\ UNCHANGED <<worker, current, calls, lastOpened, siblings, index, indexing, shown, saved,
                     pace>>
      /\ \A h \in Gen : life'[h] = "new" => life[h] = "new"
  <2>1. CASE Crash(g)
    BY <2>1 DEF Crash, main, DeskInv, TypeOK
  <2>2. CASE WorkerExit(g)
    BY <2>2 DEF WorkerExit, main, DeskInv, TypeOK, OneWorker
  <2> QED
    BY <2>1, <2>2
<1>2. OneQueue'
  BY <1>1 DEF OpenInv, OneQueue
<1>3. Openers' = Openers /\ Steps' = Steps
  BY <1>1 DEF Openers, Steps
<1>4. /\ Conversions => Conversions'
      /\ Quiet => Quiet'
      /\ Calm => Calm'
      /\ Alone => Alone'
  BY <1>1, <1>3 DEF Quiet, Calm, OpensAlone, Ahead, AnswerHeld, ListedHeld, Agree, FirstStep,
     ShownHeld, Alone, Conversions
<1> QED
  BY <1>1, <1>2, <1>4 DEF OpenInv

(* The folder of the file just opened has been read. *)
LEMMA IndexedOpen ==
  ASSUME DeskInv, OpenInv, NEW i \in DOMAIN indexing, Indexed(i)
  PROVE  OpenInv'
<1> DEFINE f == indexing[i]
<1>1. /\ \/ siblings' = Folder /\ index' = f
         \/ siblings' = <<f>> /\ index' = 1
      /\ indexing' = RemoveAt(indexing, i)
      /\ shown' = [file |-> f, index |-> index', count |-> Len(siblings')]
      /\ End(TRUE)
      /\ UNCHANGED <<worker, life, current, calls, lastOpened, saved>>
  BY DEF Indexed, workers
<1>2. indexing \in Seq(File) /\ f \in File
  BY DEF DeskInv, TypeOK
<1>3. Openers' = Openers /\ Steps' = Steps /\ Steps \subseteq Openers
  BY <1>1 DEF Openers, Steps
<1>4. OneQueue' /\ Conversions'
  BY <1>1, <1>3 DEF OpenInv, OneQueue, Conversions
<1>5. /\ pace = "rushed" => pace' = "rushed"
      /\ pace # "rushed" => pace' \in {"calm", pace} /\ pace' # "calming"
  BY <1>1, EndCases DEF DeskInv, TypeOK
<1>6. ASSUME pace # "rushed"
      PROVE  Quiet' /\ Calm'
  <2>1. /\ Openers = {} /\ Steps = {} /\ Len(indexing) = 1 /\ indexing # <<>>
        /\ lastOpened = indexing[1] /\ ListedHeld
    BY <1>2, <1>3, <1>6 DEF OpenInv, Quiet, OpensAlone
  <2>2. i = 1 /\ f = lastOpened
    BY <1>2, <2>1
  <2>3. indexing' = <<>>
    <3>1. indexing' \in Seq(File) /\ Len(indexing') = Len(indexing) - 1
      BY <1>1, <1>2, Removed
    <3> QED
      BY <2>1, <3>1
  <2>4. index' \in DOMAIN siblings' /\ siblings'[index'] = f
    BY <1>1, <1>2 DEF Folder
  <2>5. worker # Nothing => current[worker] \in {Nothing, f}
    BY <2>1, <2>2 DEF ListedHeld
  <2> HIDE DEF f
  <2>6. Quiet'
    BY <1>3, <2>1, <2>3 DEF Quiet, OpensAlone, Ahead, AnswerHeld, ListedHeld
  <2>7. Agree' /\ FirstStep'
    BY <1>1, <1>3, <2>1, <2>2, <2>3, <2>4 DEF Agree, FirstStep
  <2>8. ShownHeld'
    BY <1>1, <2>5 DEF ShownHeld
  <2> QED
    BY <2>6, <2>7, <2>8 DEF Calm
<1> QED
  BY <1>1, <1>4, <1>5, <1>6 DEF OpenInv

-----------------------------------------------------------------------------
(* The answer that arrives is that of the first request. *)
LEMMA Shifted ==
  ASSUME DeskInv, OneQueue, NEW g \in Gen, NEW i \in DOMAIN calls, First(i, Answered(g)),
         calls' = RemoveAt(calls, i)
  PROVE  /\ i = 1 /\ 1 \in DOMAIN calls /\ calls[1].answer # "none"
         /\ Len(calls) \in Nat /\ DOMAIN calls = 1 .. Len(calls)
         /\ DOMAIN calls' = 1 .. Len(calls) - 1
         /\ \A j \in DOMAIN calls' : j + 1 \in DOMAIN calls /\ calls'[j] = calls[j + 1]
<1>1. /\ Len(calls) \in Nat /\ DOMAIN calls = 1 .. Len(calls)
      /\ \A j \in DOMAIN calls : calls[j].gen = worker
  BY Queue
<1>2. calls \in Seq(Pending)
  BY DEF DeskInv, TypeOK
<1>3. calls[i].answer # "none" /\ calls[i].gen = g /\ \A j \in Answered(g) : i <= j
  BY DEF First, Answered
<1>4. 1 \in DOMAIN calls /\ calls[1].answer # "none"
  BY <1>1, <1>3 DEF OneQueue
<1>5. i = 1
  BY <1>1, <1>3, <1>4 DEF Answered
<1>6. calls' = Tail(calls)
  <2> DEFINE t == Tail(calls)
  <2>1. SubSeq(calls, 2, Len(calls)) = t /\ t \in Seq(Pending)
    BY <1>1, <1>2, <1>4
  <2>2. SubSeq(calls, 1, 0) = <<>>
    BY <1>2
  <2>3. calls' = <<>> \o t
    BY <1>5, <2>1, <2>2 DEF RemoveAt
  <2> HIDE DEF t
  <2>4. <<>> \o t = t
    BY <2>1
  <2> QED
    BY <2>3, <2>4 DEF t
<1>7. DOMAIN calls' = 1 .. Len(calls) - 1 /\ \A j \in DOMAIN calls' : calls'[j] = calls[j + 1]
  BY <1>1, <1>2, <1>4, <1>6
<1> QED
  BY <1>1, <1>4, <1>5, <1>7

(* What holds of the requests that remain, whatever the answer does to the *)
(* window and to the main process.                                         *)
LEMMA ShiftedSets ==
  ASSUME DeskInv, NEW n \in Nat, DOMAIN calls = 1 .. n, DOMAIN calls' = 1 .. n - 1,
         1 \in DOMAIN calls,
         \A j \in DOMAIN calls' : j + 1 \in DOMAIN calls /\ calls'[j] = calls[j + 1]
  PROVE  /\ \A j \in Openers' : j + 1 \in Openers /\ j \in Nat \ {0} /\ calls'[j] = calls[j + 1]
         /\ \A j \in Openers : j # 1 => j - 1 \in Openers' /\ calls'[j - 1] = calls[j]
         /\ \A j \in Steps' : j + 1 \in Steps /\ j \in Nat \ {0} /\ calls'[j] = calls[j + 1]
         /\ \A j \in Steps : j # 1 => j - 1 \in Steps' /\ calls'[j - 1] = calls[j]
         /\ Openers \subseteq Nat /\ Steps \subseteq Nat /\ Steps \subseteq Openers
<1>1. \A j \in DOMAIN calls : j # 1 => j - 1 \in DOMAIN calls' /\ calls'[j - 1] = calls[j]
  <2> SUFFICES ASSUME NEW j \in DOMAIN calls, j # 1
               PROVE  j - 1 \in DOMAIN calls' /\ calls'[j - 1] = calls[j]
    OBVIOUS
  <2>1. j - 1 \in 1 .. n - 1 /\ (j - 1) + 1 = j
    OBVIOUS
  <2> QED
    BY <2>1
<1> QED
  BY <1>1 DEF Openers, Steps

(* The requests that remain, after an answer. *)
LEMMA AnswerRest ==
  ASSUME DeskInv, OneQueue, Conversions, NEW n \in Nat, DOMAIN calls = 1 .. n,
         DOMAIN calls' = 1 .. n - 1, 1 \in DOMAIN calls, calls[1].answer # "none",
         \A j \in DOMAIN calls' : j + 1 \in DOMAIN calls /\ calls'[j] = calls[j + 1],
         UNCHANGED <<worker, current>>
  PROVE  /\ Conversions'
         /\ AnswerHeld => AnswerHeld'
         /\ AnswerHeld /\ 1 \in Openers /\ (\A i \in Openers' : calls'[i].answer = "none")
               => current[worker] = Loaded(calls[1])
<1>1. /\ \A j \in Openers' : j + 1 \in Openers /\ j \in Nat /\ calls'[j] = calls[j + 1]
      /\ \A j \in Openers : j # 1 => j - 1 \in Openers' /\ calls'[j - 1] = calls[j]
      /\ Openers \subseteq Nat
  BY ShiftedSets
<1>2. ASSUME AnswerHeld, NEW k \in Openers', calls'[k].answer # "none",
             \A j \in Openers' : calls'[j].answer # "none" => j <= k
      PROVE  current[worker] = Loaded(calls'[k])
  <2>1. k + 1 \in Openers /\ calls'[k] = calls[k + 1] /\ k \in Nat
    BY <1>1
  <2>2. \A j \in Openers : calls[j].answer # "none" => j <= k + 1
    <3> SUFFICES ASSUME NEW j \in Openers, calls[j].answer # "none", j # 1
                 PROVE  j <= k + 1
      BY <2>1
    <3>1. j - 1 \in Openers' /\ calls'[j - 1].answer # "none"
      BY <1>1
    <3>2. j - 1 <= k /\ j \in Nat
      BY <1>1, <1>2, <3>1
    <3> QED
      BY <2>1, <3>2
  <2> QED
    BY <1>2, <2>1, <2>2 DEF AnswerHeld
<1>3. AnswerHeld => AnswerHeld'
  BY <1>2 DEF AnswerHeld
<1>4. ASSUME AnswerHeld, 1 \in Openers, \A i \in Openers' : calls'[i].answer = "none"
      PROVE  current[worker] = Loaded(calls[1])
  <2>1. \A j \in Openers : j # 1 => calls[j].answer = "none"
    BY <1>1, <1>4
  <2>2. \A j \in Openers : calls[j].answer # "none" => j <= 1
    BY <2>1
  <2> QED
    BY <1>4, <2>2 DEF AnswerHeld
<1>5. Conversions'
  <2> SUFFICES ASSUME NEW k \in DOMAIN calls', calls'[k].kind = "convert", calls'[k].sure
               PROVE  /\ calls'[k].answer = "none" =>
                            /\ current[worker] \in {Nothing, calls'[k].file}
                            /\ \A j \in Openers' : k < j
                      /\ calls'[k].answer = "ok" => calls'[k].content = calls'[k].file
    BY DEF Conversions
  <2>1. k + 1 \in DOMAIN calls /\ calls'[k] = calls[k + 1] /\ k \in Nat
    OBVIOUS
  <2>2. ASSUME calls'[k].answer = "none"
        PROVE  current[worker] \in {Nothing, calls'[k].file} /\ \A j \in Openers' : k < j
    <3>1. /\ current[worker] \in {Nothing, calls[k + 1].file}
          /\ \A j \in Openers : k + 1 < j
      BY <2>1, <2>2 DEF Conversions
    <3>2. ASSUME NEW j \in Openers'
          PROVE  k < j
      <4>1. j + 1 \in Openers /\ j \in Nat
        BY <1>1
      <4>2. k + 1 < j + 1
        BY <3>1, <4>1
      <4> QED
        BY <2>1, <4>1, <4>2
    <3> QED
      BY <2>1, <3>1, <3>2
  <2>3. calls'[k].answer = "ok" => calls'[k].content = calls'[k].file
    BY <2>1 DEF Conversions
  <2> QED
    BY <2>2, <2>3
<1> QED
  BY <1>3, <1>4, <1>5

LEMMA AnswerQueue ==
  ASSUME DeskInv, OneQueue, NEW n \in Nat, DOMAIN calls = 1 .. n,
         DOMAIN calls' = 1 .. n - 1,
         \A j \in DOMAIN calls' : j + 1 \in DOMAIN calls /\ calls'[j] = calls[j + 1],
         UNCHANGED <<life, current>>
  PROVE  OneQueue'
<1>1. ASSUME NEW i \in DOMAIN calls', NEW j \in DOMAIN calls', i < j,
             calls'[j].answer # "none"
      PROVE  calls'[i].answer # "none"
  <2>1. /\ i + 1 \in DOMAIN calls /\ j + 1 \in DOMAIN calls /\ i + 1 < j + 1
        /\ calls[j + 1].answer # "none" /\ calls'[i] = calls[i + 1]
    BY <1>1
  <2> QED
    BY <2>1 DEF OneQueue
<1> QED
  BY <1>1 DEF OneQueue

LEMMA OpenAnswerOpen ==
  ASSUME DeskInv, OpenInv, OneQueue', NEW n \in Nat, DOMAIN calls = 1 .. n,
         DOMAIN calls' = 1 .. n - 1, 1 \in DOMAIN calls, calls[1].answer # "none",
         \A j \in DOMAIN calls' : j + 1 \in DOMAIN calls /\ calls'[j] = calls[j + 1],
         UNCHANGED <<worker, current>>, OpenAnswer(calls[1])
  PROVE  OpenInv'
<1>1. /\ calls[1].kind = "open" /\ 1 \in Openers /\ indexing \in Seq(File)
      /\ calls[1] \in Pending
      /\ UNCHANGED <<siblings, index, shown, saved>>
  BY DEF OpenAnswer, Openers, DeskInv, TypeOK
<1>2. calls[1].file \in File
  BY <1>1 DEF Pending, Nothing
<1>3. Conversions' /\ (AnswerHeld /\ (\A i \in Openers' : calls'[i].answer = "none")
                          => current[worker] = Loaded(calls[1]))
  BY <1>1, AnswerRest DEF OpenInv
<1>4. ASSUME pace # "rushed"
      PROVE  Openers = {1} /\ Openers' = {} /\ Steps' = {} /\ Steps = {} /\ indexing = <<>>
             /\ current[worker] = Loaded(calls[1])
  <2>1. Openers = {1} /\ indexing = <<>> /\ AnswerHeld
    BY <1>1, <1>4 DEF OpenInv, Quiet, OpensAlone
  <2>2. \A j \in Openers' : j + 1 \in {1} /\ j \in Nat \ {0}
    BY <2>1, ShiftedSets
  <2>3. Openers' = {}
    BY <2>2
  <2>4. Steps = {} /\ Steps' = {}
    BY <1>1, <2>1, <2>3 DEF Steps, Openers
  <2> QED
    BY <1>3, <2>1, <2>3, <2>4
<1>5. CASE calls[1].answer = "ok"
  <2> DEFINE f == calls[1].file
  <2>1. lastOpened' = f /\ indexing' = Append(indexing, f) /\ pace' = pace
    BY <1>5 DEF OpenAnswer
  <2>2. ASSUME pace # "rushed"
        PROVE  /\ indexing' # <<>> /\ Len(indexing') = 1 /\ indexing'[1] = f
               /\ current[worker] = f
    <3>1. indexing = <<>> /\ current[worker] = f
      BY <1>1, <1>4, <1>5, <2>2 DEF Loaded
    <3>2. indexing' = <<f>>
      BY <2>1, <3>1
    <3> QED
      BY <3>1, <3>2
  <2> HIDE DEF f
  <2>3. pace # "rushed" => Quiet' /\ Alone'
    BY <1>4, <2>1, <2>2 DEF Quiet, OpensAlone, Ahead, AnswerHeld, ListedHeld, Alone
  <2>4. pace = "calm" => Calm'
    BY <1>1, <1>4, <2>2 DEF OpenInv, Calm, Agree, FirstStep, ShownHeld
  <2> QED
    BY <1>1, <1>3, <2>1, <2>3, <2>4 DEF OpenInv
<1>6. CASE calls[1].answer # "ok"
  <2>1. /\ UNCHANGED <<lastOpened, indexing>>
        /\ pace' # "rushed" => pace = "calm" /\ pace' = "calm"
    <3>1. End(pace # "calming") /\ UNCHANGED <<lastOpened, indexing>> /\ pace \in Paces
      BY <1>6 DEF OpenAnswer, DeskInv, TypeOK, Paces
    <3>2. pace # "calming" => pace' = pace
      BY <3>1 DEF End
    <3>3. pace = "calming" => pace' = "rushed"
      BY <3>1 DEF End
    <3> QED
      BY <3>1, <3>2, <3>3 DEF Paces
  <2>2. pace = "calm" => current[worker] = Nothing
    BY <1>4, <1>6 DEF Loaded
  <2>3. pace = "calm" => Quiet'
    BY <1>4, <2>1 DEF Quiet, OpensAlone, Ahead, AnswerHeld, ListedHeld
  <2>4. pace = "calm" => Calm'
    BY <1>1, <1>4, <2>1, <2>2 DEF OpenInv, Calm, Agree, FirstStep, ShownHeld
  <2> QED
    BY <1>1, <1>3, <2>1, <2>3, <2>4 DEF OpenInv
<1> QED
  BY <1>5, <1>6

LEMMA ResetAnswerOpen ==
  ASSUME DeskInv, OpenInv, OneQueue', NEW n \in Nat, DOMAIN calls = 1 .. n,
         DOMAIN calls' = 1 .. n - 1, 1 \in DOMAIN calls, calls[1].answer # "none",
         \A j \in DOMAIN calls' : j + 1 \in DOMAIN calls /\ calls'[j] = calls[j + 1],
         UNCHANGED <<worker, current>>, ResetAnswer(calls[1])
  PROVE  OpenInv'
<1>1. /\ calls[1].kind = "reset" /\ 1 \in Openers /\ End(TRUE)
      /\ UNCHANGED <<indexing, saved>> /\ shown' = Blank
  BY DEF ResetAnswer, Openers
<1>2. Conversions'
  BY AnswerRest DEF OpenInv
<1>3. pace' # "rushed" => pace # "rushed" /\ pace' = "calm"
  BY <1>1, EndCases DEF DeskInv, TypeOK
<1>4. ASSUME pace # "rushed"
      PROVE  Quiet' /\ Calm'
  <2>1. Openers = {1} /\ indexing = <<>>
    BY <1>1, <1>4 DEF OpenInv, Quiet, OpensAlone
  <2>2. \A j \in Openers' : j + 1 \in {1} /\ j \in Nat \ {0}
    BY <2>1, ShiftedSets
  <2>3. Openers' = {}
    BY <2>2
  <2>4. Steps' = {}
    BY <2>3 DEF Steps, Openers
  <2>5. Quiet'
    BY <1>1, <2>1, <2>3, <2>4 DEF Quiet, OpensAlone, Ahead, AnswerHeld, ListedHeld
  <2>6. Calm'
    BY <1>1, <2>4 DEF Calm, Agree, FirstStep, ShownHeld, Blank
  <2> QED
    BY <2>5, <2>6
<1> QED
  BY <1>1, <1>2, <1>3, <1>4 DEF OpenInv

(* What is said of the last of the steps is said of the last that remains. *)
LEMMA AheadRest ==
  ASSUME DeskInv, Ahead, NEW n \in Nat, DOMAIN calls = 1 .. n,
         DOMAIN calls' = 1 .. n - 1, 1 \in DOMAIN calls,
         \A j \in DOMAIN calls' : j + 1 \in DOMAIN calls /\ calls'[j] = calls[j + 1],
         UNCHANGED <<index, siblings>>
  PROVE  Ahead'
<1>1. /\ \A j \in Steps' : j + 1 \in Steps /\ j \in Nat \ {0} /\ calls'[j] = calls[j + 1]
      /\ \A j \in Steps : j # 1 => j - 1 \in Steps' /\ calls'[j - 1] = calls[j]
      /\ Steps \subseteq Nat
  BY ShiftedSets
<1> SUFFICES ASSUME NEW i \in Steps', \A j \in Steps' : j <= i
             PROVE  index \in DOMAIN siblings /\ siblings[index] = calls'[i].file
  BY DEF Ahead
<1>2. i + 1 \in Steps /\ calls'[i] = calls[i + 1] /\ i \in Nat \ {0}
  BY <1>1
<1>3. ASSUME NEW j \in Steps
      PROVE  j <= i + 1
  <2>1. CASE j = 1
    BY <1>2, <2>1
  <2>2. CASE j # 1
    <3>1. j - 1 \in Steps' /\ j \in Nat
      BY <1>1, <2>2
    <3>2. j - 1 <= i
      BY <3>1
    <3> QED
      BY <1>2, <3>1, <3>2
  <2> QED
    BY <2>1, <2>2
<1> QED
  BY <1>2, <1>3 DEF Ahead

LEMMA ConvertAnswerOpen ==
  ASSUME DeskInv, OpenInv, OneQueue', NEW n \in Nat, DOMAIN calls = 1 .. n,
         DOMAIN calls' = 1 .. n - 1, 1 \in DOMAIN calls, calls[1].answer # "none",
         \A j \in DOMAIN calls' : j + 1 \in DOMAIN calls /\ calls'[j] = calls[j + 1],
         UNCHANGED <<worker, current>>, ConvertAnswer(calls[1])
  PROVE  OpenInv'
<1>1. calls[1].kind = "convert" /\ 1 \notin Openers /\ 1 \notin Steps
  BY DEF ConvertAnswer, Openers, Steps
<1>2. /\ UNCHANGED <<lastOpened, siblings, index, indexing, shown, pace>>
      /\ \/ /\ calls[1].answer = "ok"
            /\ saved' = [name |-> calls[1].file, file |-> calls[1].content,
                         sure |-> calls[1].sure]
         \/ saved' = saved
  BY DEF ConvertAnswer, main
<1>3. /\ \A j \in Openers' : j + 1 \in Openers /\ j \in Nat /\ calls'[j] = calls[j + 1]
      /\ \A j \in Openers : j # 1 => j - 1 \in Openers' /\ calls'[j - 1] = calls[j]
      /\ \A j \in Steps' : j + 1 \in Steps /\ j \in Nat /\ calls'[j] = calls[j + 1]
      /\ \A j \in Steps : j # 1 => j - 1 \in Steps' /\ calls'[j - 1] = calls[j]
      /\ Openers \subseteq Nat /\ Steps \subseteq Nat
  BY ShiftedSets
<1>4. Conversions' /\ (AnswerHeld => AnswerHeld')
  BY AnswerRest DEF OpenInv
<1>6. saved'.sure => saved'.name = saved'.file
  BY <1>1, <1>2 DEF OpenInv, Conversions
<1>7. ASSUME OpensAlone
      PROVE  OpensAlone'
  <2>1. ASSUME NEW i \in Openers', NEW j \in Openers', i # j
        PROVE  calls'[i].kind = "step" /\ calls'[j].kind = "step"
    <3>1. i + 1 \in Openers /\ j + 1 \in Openers /\ i + 1 # j + 1
      BY <1>3, <2>1
    <3> QED
      BY <1>3, <1>7, <3>1 DEF OpensAlone
  <2>2. indexing' # <<>> => Openers' = {} /\ Len(indexing') = 1 /\ lastOpened' = indexing'[1]
    BY <1>2, <1>3, <1>7 DEF OpensAlone
  <2> QED
    BY <2>1, <2>2 DEF OpensAlone
<1>8. Ahead => Ahead'
  BY <1>2, AheadRest
<1>9. ListedHeld => ListedHeld'
  BY <1>2 DEF ListedHeld
<1>10. Agree => Agree'
  <2>1. Steps' = {} => Steps = {}
    BY <1>1, <1>3
  <2>2. Steps' # {} => Steps # {}
    BY <1>3
  <2> QED
    BY <1>2, <2>1, <2>2 DEF Agree
<1>11. ASSUME FirstStep
       PROVE  FirstStep'
  <2> SUFFICES ASSUME NEW i \in Steps', calls'[i].sure
               PROVE  /\ calls'[i].prev = shown'.index
                      /\ shown'.index \in DOMAIN siblings'
                      /\ siblings'[shown'.index] = shown'.file
                      /\ \A j \in Steps' : i <= j
    BY DEF FirstStep
  <2>1. i + 1 \in Steps /\ calls'[i] = calls[i + 1] /\ i \in Nat
    BY <1>3
  <2>2. /\ calls[i + 1].prev = shown.index
        /\ shown.index \in DOMAIN siblings /\ siblings[shown.index] = shown.file
        /\ \A j \in Steps : i + 1 <= j
    BY <1>11, <2>1 DEF FirstStep
  <2>3. ASSUME NEW j \in Steps'
        PROVE  i <= j
    <3>1. j + 1 \in Steps /\ j \in Nat
      BY <1>3
    <3>2. i + 1 <= j + 1
      BY <2>2, <3>1
    <3> QED
      BY <2>1, <3>1, <3>2
  <2> QED
    BY <1>2, <2>1, <2>2, <2>3
<1>12. ASSUME ShownHeld
       PROVE  ShownHeld'
  <2>1. (\A i \in Openers' : calls'[i].answer = "none")
           => \A i \in Openers : calls[i].answer = "none"
    BY <1>1, <1>3
  <2> QED
    BY <1>2, <1>12, <2>1 DEF ShownHeld
<1>13. ASSUME Alone
       PROVE  Alone'
  <2> SUFFICES ASSUME NEW i \in Openers', NEW j \in Openers' PROVE i = j
    BY DEF Alone
  <2>1. i + 1 \in Openers /\ j + 1 \in Openers /\ i \in Nat /\ j \in Nat
    BY <1>3
  <2>2. i + 1 = j + 1
    BY <1>13, <2>1 DEF Alone
  <2> QED
    BY <2>1, <2>2
<1> QED
  BY <1>2, <1>4, <1>6, <1>7, <1>8, <1>9, <1>10, <1>11, <1>12, <1>13 DEF OpenInv, Quiet, Calm

LEMMA StepsFinite == ASSUME DeskInv PROVE IsFiniteSet(Steps)
<1>1. DOMAIN calls = 1 .. Len(calls) /\ Len(calls) \in Nat
  BY Queue
<1>2. IsFiniteSet(DOMAIN calls)
  BY <1>1, FS_Interval
<1> QED
  BY <1>2, FS_Subset DEF Steps

(* A step that is not one of several is the only one. *)
LEMMA OnlyStep ==
  ASSUME NEW S, IsFiniteSet(S), NEW i \in S, ~(Cardinality(S) > 1)
  PROVE  S = {i}
<1> SUFFICES ASSUME NEW j \in S, j # i PROVE FALSE
  OBVIOUS
<1>1. {i, j} \subseteq S /\ IsFiniteSet({i, j}) /\ Cardinality({i, j}) = 2
  <2>1. IsFiniteSet({i}) /\ Cardinality({i}) = 1
    BY FS_Singleton
  <2>2. {i, j} = {i} \cup {j}
    OBVIOUS
  <2> QED
    BY <2>1, <2>2, FS_AddElement
<1>2. Cardinality({i, j}) <= Cardinality(S) /\ Cardinality(S) \in Nat
  BY <1>1, FS_Subset, FS_CardinalityType
<1> QED
  BY <1>1, <1>2

LEMMA StepAnswerOpen ==
  ASSUME DeskInv, OpenInv, OneQueue', NEW n \in Nat, DOMAIN calls = 1 .. n,
         DOMAIN calls' = 1 .. n - 1, 1 \in DOMAIN calls, calls[1].answer # "none",
         \A j \in DOMAIN calls' : j + 1 \in DOMAIN calls /\ calls'[j] = calls[j + 1],
         UNCHANGED <<worker, current>>, StepAnswer(calls[1])
  PROVE  OpenInv'
<1>1. /\ calls[1].kind = "step" /\ 1 \in Openers /\ 1 \in Steps /\ calls[1] \in Pending
      /\ UNCHANGED <<siblings, indexing, saved>> /\ pace \in Paces
  BY DEF StepAnswer, Openers, Steps, DeskInv, TypeOK, Paces
<1>2. calls[1].file # Nothing /\ calls[1].sure \in BOOLEAN
  BY <1>1 DEF Pending
<1>3. /\ \A j \in Openers' : j + 1 \in Openers /\ j \in Nat \ {0} /\ calls'[j] = calls[j + 1]
      /\ \A j \in Steps' : j + 1 \in Steps /\ j \in Nat \ {0} /\ calls'[j] = calls[j + 1]
      /\ \A j \in Steps : j # 1 => j - 1 \in Steps' /\ calls'[j - 1] = calls[j]
      /\ Steps \subseteq Nat /\ Steps \subseteq Openers
  BY ShiftedSets
<1>4. /\ Conversions'
      /\ AnswerHeld => AnswerHeld'
      /\ AnswerHeld /\ (\A i \in Openers' : calls'[i].answer = "none")
            => current[worker] = Loaded(calls[1])
  BY <1>1, AnswerRest DEF OpenInv
<1>5. ASSUME pace # "rushed"
      PROVE  /\ Quiet /\ indexing = <<>> /\ OpensAlone' /\ AnswerHeld' /\ ListedHeld'
             /\ \A j \in Openers : calls[j].kind = "step"
  <2>1. /\ Quiet /\ indexing = <<>> /\ \A j \in Openers : calls[j].kind = "step"
    BY <1>1, <1>5 DEF OpenInv, Quiet, OpensAlone
  <2>2. \A i \in Openers' : calls'[i].kind = "step"
    BY <1>3, <2>1
  <2> QED
    BY <1>1, <1>4, <2>1, <2>2 DEF OpensAlone, Quiet, ListedHeld
<1>6. CASE calls[1].answer = "ok"
  <2>1. /\ lastOpened' = calls[1].file /\ index' = index /\ End(TRUE)
        /\ shown' = [file |-> calls[1].file, index |-> index, count |-> Len(siblings)]
    BY <1>6 DEF StepAnswer
  <2>2. pace' # "rushed" => pace # "rushed" /\ pace' = "calm"
    BY <1>1, <2>1, EndCases DEF Paces
  <2>3. ASSUME pace # "rushed"
        PROVE  Quiet' /\ Calm'
    <3>1. Ahead /\ AnswerHeld
      BY <1>5, <2>3 DEF Quiet
    <3>2. Ahead'
      BY <1>1, <2>1, <3>1, AheadRest
    <3>3. ASSUME Steps' = {}
          PROVE  index \in DOMAIN siblings /\ siblings[index] = calls[1].file
      <4>1. Steps = {1}
        BY <1>1, <1>3, <3>3
      <4> QED
        BY <3>1, <4>1 DEF Ahead
    <3>4. Agree'
      BY <1>1, <1>2, <2>1, <3>3 DEF Agree
    <3>5. FirstStep'
      <4> SUFFICES ASSUME NEW i \in Steps', calls'[i].sure PROVE FALSE
        BY DEF FirstStep
      <4>1. i + 1 \in Steps /\ calls[i + 1].sure /\ i \in Nat \ {0} /\ i + 1 # 1
        BY <1>3
      <4>2. CASE pace = "calm"
        <5>1. i + 1 <= 1
          BY <1>1, <4>1, <4>2 DEF OpenInv, Calm, FirstStep
        <5> QED
          BY <4>1, <5>1
      <4>3. CASE pace = "calming"
        BY <1>1, <1>3, <4>1, <4>3 DEF OpenInv, Alone
      <4> QED
        BY <1>1, <2>3, <4>2, <4>3 DEF Paces
    <3>6. ShownHeld'
      BY <1>1, <1>4, <1>6, <2>1, <3>1 DEF ShownHeld, Loaded
    <3> QED
      BY <1>5, <2>3, <3>2, <3>4, <3>5, <3>6 DEF Quiet, Calm
  <2> QED
    BY <1>1, <1>4, <2>2, <2>3 DEF OpenInv
<1>7. CASE calls[1].answer # "ok"
  <2> DEFINE well == Cardinality(Steps) = 1 /\ calls[1].sure /\ pace # "calming"
  <2>1. /\ index' = calls[1].prev /\ UNCHANGED <<lastOpened, shown>> /\ End(well)
    BY <1>7 DEF StepAnswer, BackTo
  <2>2. well \in BOOLEAN
    BY <1>2
  <2>3. well => ~(Cardinality(Steps) > 1) /\ calls[1].sure /\ pace # "calming"
    OBVIOUS
  <2> HIDE DEF well
  <2>4. pace' # "rushed" => well /\ pace = "calm" /\ pace' = "calm"
    BY <1>1, <2>1, <2>2, <2>3, EndCases DEF Paces
  <2>5. ASSUME well, pace = "calm"
        PROVE  Quiet' /\ Calm'
    <3>1. Calm /\ Quiet /\ pace # "rushed"
      BY <2>5 DEF OpenInv
    <3>2. Steps = {1}
      BY <1>1, <2>3, <2>5, StepsFinite, OnlyStep
    <3>3. Steps' = {}
      BY <1>3, <3>2
    <3>4. /\ calls[1].prev = shown.index
          /\ shown.index \in DOMAIN siblings /\ siblings[shown.index] = shown.file
      BY <1>1, <2>3, <2>5, <3>1 DEF Calm, FirstStep
    <3>5. Ahead' /\ FirstStep'
      BY <3>3 DEF Ahead, FirstStep
    <3>6. Agree'
      BY <1>1, <1>5, <2>1, <3>1, <3>3, <3>4 DEF Agree, Calm
    <3>7. ShownHeld'
      BY <1>4, <1>7, <2>1, <3>1 DEF ShownHeld, Loaded, Quiet
    <3> QED
      BY <1>5, <3>1, <3>5, <3>6, <3>7 DEF Quiet, Calm
  <2> QED
    BY <1>1, <1>4, <2>4, <2>5 DEF OpenInv
<1> QED
  BY <1>6, <1>7

LEMMA AnswerOpen ==
  ASSUME DeskInv, OpenInv, NEW g \in Gen, Answer(g)
  PROVE  OpenInv'
<1>1. PICK i \in DOMAIN calls :
        /\ First(i, Answered(g))
        /\ OpenAnswer(calls[i]) \/ StepAnswer(calls[i]) \/ ResetAnswer(calls[i])
              \/ ConvertAnswer(calls[i])
        /\ calls' = RemoveAt(calls, i)
  BY DEF Answer, Finish
<1>2. UNCHANGED <<worker, life, current>>
  BY DEF Answer, workers
<1> DEFINE n == Len(calls)
<1>3. /\ i = 1 /\ 1 \in DOMAIN calls /\ calls[1].answer # "none"
      /\ n \in Nat /\ DOMAIN calls = 1 .. n /\ DOMAIN calls' = 1 .. n - 1
      /\ \A j \in DOMAIN calls' : j + 1 \in DOMAIN calls /\ calls'[j] = calls[j + 1]
  BY <1>1, Shifted DEF OpenInv
<1> HIDE DEF n
<1>4. OneQueue'
  BY <1>2, <1>3, AnswerQueue DEF OpenInv
<1> QED
  BY <1>1, <1>2, <1>3, <1>4, OpenAnswerOpen, StepAnswerOpen, ResetAnswerOpen,
     ConvertAnswerOpen

-----------------------------------------------------------------------------
(* The worker's end rejects everything: a step alone goes back, a reset    *)
(* clears the window all the same.                                         *)
LEMMA WorkerErrorOpen ==
  ASSUME DeskInv, OpenInv, NEW g \in Gen, WorkerError(g)
  PROVE  OpenInv'
<1>1. /\ life[g] = "dead" /\ life' = [life EXCEPT ![g] = "failed"]
      /\ worker' = Nothing /\ calls' = <<>>
      /\ UNCHANGED <<current, lastOpened, siblings, indexing, saved>>
  BY DEF WorkerError, Rejected, FailedNoMore
<1>2. {i \in Steps : i \in Rejected} = Steps
  BY DEF Steps, Rejected
<1>3. /\ \/ Steps = {} /\ index' = index
         \/ \E i \in Steps : index' = calls[i].prev
      /\ shown'.file # Nothing => shown' = shown
  BY <1>2 DEF WorkerError, BackTo, Blank
<1>4. /\ pace' # "rushed" => /\ pace' = pace
                             /\ \A i \in Steps : calls[i].sure
                             /\ pace = "calming" => Steps = {}
  <2>1. (\E i \in Steps : TRUE) => InFlight({"open", "step", "reset"})
    BY DEF Steps, InFlight
  <2> QED
    BY <1>2, <2>1 DEF WorkerError
<1>5. DOMAIN calls' = {} /\ Openers' = {} /\ Steps' = {}
  BY <1>1 DEF Openers, Steps
<1>6. OneQueue' /\ Conversions'
  <2>1. \A h \in Gen : life'[h] = "new" => life[h] = "new"
    BY <1>1 DEF DeskInv, TypeOK
  <2> QED
    BY <1>1, <1>5, <2>1 DEF OpenInv, OneQueue, Conversions
<1>7. ASSUME Quiet
      PROVE  Quiet'
  BY <1>1, <1>5, <1>7 DEF Quiet, OpensAlone, Ahead, AnswerHeld, ListedHeld
<1>8. ASSUME Calm, \A i \in Steps : calls[i].sure
      PROVE  Calm'
  <2>1. FirstStep' /\ ShownHeld'
    BY <1>1, <1>5 DEF FirstStep, ShownHeld
  <2>2. Agree'
    <3>1. CASE Steps = {}
      BY <1>1, <1>3, <1>5, <1>8, <3>1 DEF Calm, Agree
    <3>2. CASE Steps # {}
      <4>1. PICK i \in Steps : index' = calls[i].prev
        BY <1>3, <3>2
      <4>2. /\ calls[i].prev = shown.index
            /\ shown.index \in DOMAIN siblings /\ siblings[shown.index] = shown.file
        BY <1>8 DEF Calm, FirstStep
      <4> QED
        BY <1>1, <1>3, <1>5, <1>8, <4>1, <4>2 DEF Calm, Agree
    <3> QED
      BY <3>1, <3>2
  <2> QED
    BY <2>1, <2>2 DEF Calm
<1>9. Alone'
  BY <1>5 DEF Alone
<1> QED
  BY <1>1, <1>4, <1>6, <1>7, <1>8, <1>9 DEF OpenInv

LEMMA InitOpen == Init => OpenInv
<1> SUFFICES ASSUME Init PROVE OpenInv
  OBVIOUS
<1>1. DOMAIN calls = {} /\ Openers = {} /\ Steps = {} /\ worker = Nothing
  BY DEF Init, Openers, Steps
<1>2. OneQueue /\ Conversions
  BY <1>1 DEF Init, OneQueue, Conversions
<1>3. Quiet
  BY <1>1 DEF Init, Quiet, OpensAlone, Ahead, AnswerHeld, ListedHeld
<1>4. Calm
  BY <1>1 DEF Init, Blank, Calm, Agree, FirstStep, ShownHeld
<1> QED
  BY <1>2, <1>3, <1>4 DEF OpenInv, Init

LEMMA StepOpen == DeskInv /\ OpenInv /\ [Next]_vars => OpenInv'
<1> SUFFICES ASSUME DeskInv, OpenInv, [Next]_vars PROVE OpenInv'
  OBVIOUS
<1>1. ASSUME NEW f \in File, OpenClick(f)
      PROVE  OpenInv'
  <2>1. UNCHANGED <<lastOpened, siblings, index, indexing, shown, saved>>
    BY <1>1 DEF OpenClick, main
  <2> QED
    BY <1>1, <2>1, OpenOrClearOpen DEF OpenClick
<1>2. CASE ClearClick
  <2>1. UNCHANGED <<lastOpened, siblings, index, indexing, shown, saved>>
    BY <1>2 DEF ClearClick, main
  <2> QED
    BY <1>2, <2>1, OpenOrClearOpen DEF ClearClick
<1>3. CASE Works
  BY <1>3, WorkOpen DEF Works
<1>4. CASE Events
  BY <1>4, IndexedOpen, AnswerOpen, WorkerErrorOpen, EndOpen DEF Events
<1>5. CASE UNCHANGED vars
  <2>1. Openers' = Openers /\ Steps' = Steps
    BY <1>5 DEF vars, Openers, Steps
  <2>2. OneQueue' /\ Conversions'
    BY <1>5, <2>1 DEF vars, OpenInv, OneQueue, Conversions
  <2>3. /\ Quiet => Quiet'
        /\ Calm => Calm'
        /\ Alone => Alone'
    BY <1>5, <2>1 DEF vars, Quiet, Calm, OpensAlone, Ahead, AnswerHeld, ListedHeld, Agree,
       FirstStep, ShownHeld, Alone
  <2> QED
    BY <1>5, <2>2, <2>3 DEF vars, OpenInv
<1> QED
  BY <1>1, <1>2, <1>3, <1>4, <1>5, StepClickOpen, ConvertClickOpen, EndOpen DEF Next

LEMMA OpenAlways == Spec => []OpenInv
BY InitOpen, StepOpen, InvAlways, PTL DEF Spec

(* At rest the window, the main process, the index of the folder and the   *)
(* worker speak of one file, however its worker died and whatever steps    *)
(* overlapped - on a desk that is not rushed: since the last time that     *)
(* something was opened, stepped to or cleared at rest, alone and well,    *)
(* nothing was opened or cleared while something was being opened, and no  *)
(* step was made during an open or failed among others (main.ts 1234-1275, *)
(* 1730-1749, app.ts 2655-2677).                                           *)
THEOREM OneFileIsOpen == Spec => []OneOpenFile
<1>1. OpenInv => OneOpenFile
  <2> SUFFICES ASSUME OpenInv, calls = <<>>, indexing = <<>>, shown.file # Nothing,
                      pace = "calm"
               PROVE  /\ lastOpened = shown.file
                      /\ index \in DOMAIN siblings /\ siblings[index] = shown.file
                      /\ shown.index = index /\ shown.count = Len(siblings)
                      /\ worker # Nothing => current[worker] \in {Nothing, shown.file}
    BY DEF OneOpenFile, AtRest
  <2>1. Openers = {} /\ Steps = {}
    BY DEF Openers, Steps
  <2> QED
    BY <2>1 DEF OpenInv, Calm, Agree, ShownHeld
<1> QED
  BY <1>1, OpenAlways, PTL

(* What is saved under the name of the file on the screen was converted    *)
(* from that file, if the conversion was begun at rest on a desk that was  *)
(* not rushed: whatever was opened, stepped to, cleared or died from then  *)
(* on, in whatever haste.                                                  *)
THEOREM ConvertedIsShown == Spec => []ConvertsShown
<1>1. OpenInv => ConvertsShown
  BY DEF OpenInv, ConvertsShown
<1> QED
  BY <1>1, OpenAlways, PTL
=============================================================================
