----------------------------- MODULE LogTailProofs -----------------------------
(***************************************************************************)
(* What the tail of the survey log promises, for any number of lines,      *)
(* rotations, starts and failed reads.                                     *)
(*                                                                         *)
(* One invariant, Orderly, says in which order the pieces of the file, of  *)
(* the buffer and of the rows stand, and whose they are; it gives OnceEach *)
(* and NoHistory.  A second, Full, says where the buffer lies in the file, *)
(* and that every shot without a row is still ahead; it gives              *)
(* NothingSkipped.  A buffer is taken by a recursive function, Taken: what *)
(* it keeps is proved of one piece (OnceStep, FullStep) and of all by an   *)
(* induction over the set of pieces up to which it is kept (UpTo).         *)
(***************************************************************************)
EXTENDS LogTail, WellFoundedInduction, TLAPS

-----------------------------------------------------------------------------
(* Types                                                                   *)

Entry == [line : Line, start : 0 .. MaxStarts]

Known ==
    /\ \A i \in DOMAIN file : file[i].line <= Len(log)
    /\ \A i \in DOMAIN buf : buf[i].line <= Len(log)
    /\ \A i \in DOMAIN sent : sent[i].line <= Len(log) /\ sent[i].start <= starts
    /\ \A k \in DOMAIN log : log[k].by <= starts
    /\ path \/ start.pc # "no" => starts >= 1

Types == TypeOK /\ Known

LEMMA Bounds ==
  /\ MaxLine \in Nat /\ MaxSeen \in Nat /\ MaxSeen >= 1 /\ MaxStarts \in Nat /\ MaxFault \in Nat
  /\ Line = 1 .. MaxLine
BY TailAssumption DEF Line

LEMMA TypesAre ==
  ASSUME Types
  PROVE  /\ log \in Seq([shot : Line, read : BOOLEAN, live : BOOLEAN, by : 0 .. MaxStarts])
         /\ Len(log) \in Nat /\ DOMAIN log = 1 .. Len(log) /\ Len(log) <= MaxLine
         /\ \A k \in DOMAIN log : /\ log[k].shot \in Line /\ log[k].read \in BOOLEAN
                                  /\ log[k].live \in BOOLEAN /\ log[k].by \in 0 .. MaxStarts
         /\ file \in Seq(Piece) /\ Len(file) \in Nat /\ DOMAIN file = 1 .. Len(file)
         /\ buf \in Seq(Piece) /\ Len(buf) \in Nat /\ DOMAIN buf = 1 .. Len(buf)
         /\ \A i \in DOMAIN file : file[i] \in Piece /\ file[i].line \in DOMAIN log
                                   /\ file[i].line \in Nat /\ file[i].end \in BOOLEAN
         /\ \A i \in DOMAIN buf : buf[i] \in Piece /\ buf[i].line \in DOMAIN log
         /\ path \in BOOLEAN /\ timer \in BOOLEAN /\ offset \in Nat
         /\ seen \in Seq(Line) /\ Len(seen) \in Nat /\ Len(seen) <= MaxSeen
         /\ sent \in Seq(Entry) /\ Len(sent) \in Nat /\ DOMAIN sent = 1 .. Len(sent)
         /\ \A i \in DOMAIN sent : /\ sent[i] \in Entry /\ sent[i].start \in 0 .. MaxStarts
                                   /\ sent[i].start <= starts /\ sent[i].line \in DOMAIN log
         /\ starts \in 0 .. MaxStarts /\ starts \in Nat
         /\ \A k \in DOMAIN log : k \in Line /\ k \in Nat
<1>1. /\ log \in Seq([shot : Line, read : BOOLEAN, live : BOOLEAN, by : 0 .. MaxStarts])
      /\ Len(log) <= MaxLine
      /\ file \in Seq(Piece) /\ buf \in Seq(Piece) /\ sent \in Seq(Entry)
      /\ seen \in Seq(Line) /\ Len(seen) <= MaxSeen /\ offset \in Nat
      /\ {path, timer} \subseteq BOOLEAN /\ starts \in 0 .. MaxStarts
  BY DEF Types, TypeOK, Entry
<1> DEFINE R == [shot : Line, read : BOOLEAN, live : BOOLEAN, by : 0 .. MaxStarts]
<1>2. Len(log) \in Nat /\ DOMAIN log = 1 .. Len(log) /\ \A k \in DOMAIN log : log[k] \in R
  <2>1. log \in Seq(R)
    BY <1>1
  <2> HIDE DEF R
  <2> QED BY <2>1
<1>3. Len(file) \in Nat /\ DOMAIN file = 1 .. Len(file) /\ \A i \in DOMAIN file : file[i] \in Piece
  BY <1>1
<1>4. Len(buf) \in Nat /\ DOMAIN buf = 1 .. Len(buf) /\ \A i \in DOMAIN buf : buf[i] \in Piece
  BY <1>1
<1>5. Len(sent) \in Nat /\ DOMAIN sent = 1 .. Len(sent) /\ \A i \in DOMAIN sent : sent[i] \in Entry
  BY <1>1
<1>6. /\ \A i \in DOMAIN file : file[i].line <= Len(log)
      /\ \A i \in DOMAIN buf : buf[i].line <= Len(log)
      /\ \A i \in DOMAIN sent : sent[i].line <= Len(log) /\ sent[i].start <= starts
  BY DEF Types, Known
<1>7. \A i \in DOMAIN file : file[i].line \in DOMAIN log
                               /\ file[i].line \in Nat /\ file[i].end \in BOOLEAN
  BY <1>2, <1>3, <1>6, Bounds DEF Piece
<1>8. \A i \in DOMAIN buf : buf[i].line \in DOMAIN log
  BY <1>2, <1>4, <1>6, Bounds DEF Piece
<1>9. \A i \in DOMAIN sent : sent[i].line \in DOMAIN log /\ sent[i].start \in 0 .. MaxStarts
  BY <1>2, <1>5, <1>6, Bounds DEF Entry
<1>10. Len(seen) \in Nat
  BY <1>1
<1>11. starts \in Nat /\ \A k \in DOMAIN log : k \in Line /\ k \in Nat
  BY <1>1, <1>2, Bounds
<1> HIDE DEF R
<1> QED BY <1>1, <1>2, <1>3, <1>4, <1>5, <1>6, <1>7, <1>8, <1>9, <1>10, <1>11 DEF R

LEMMA AppendIs ==
  ASSUME NEW T, NEW s \in Seq(T), NEW x \in T
  PROVE  /\ Append(s, x) \in Seq(T) /\ Len(Append(s, x)) = Len(s) + 1
         /\ DOMAIN s = 1 .. Len(s) /\ DOMAIN Append(s, x) = 1 .. Len(s) + 1 /\ Len(s) \in Nat
         /\ Append(s, x)[Len(s) + 1] = x
         /\ \A i \in DOMAIN s : i \in DOMAIN Append(s, x) /\ Append(s, x)[i] = s[i]
         /\ \A i \in DOMAIN Append(s, x) :
               (i = Len(s) + 1 /\ Append(s, x)[i] = x) \/ (i \in DOMAIN s /\ Append(s, x)[i] = s[i])
OBVIOUS

LEMMA EmptyIs == /\ \A T : <<>> \in Seq(T)
                 /\ Len(<<>>) = 0 /\ DOMAIN <<>> = {}
OBVIOUS

(* Induction up to n, for a set rather than a predicate. *)
LEMMA UpTo ==
  ASSUME NEW n \in Nat, NEW S, 0 \in S, \A i \in 0 .. n - 1 : i \in S => i + 1 \in S
  PROVE  0 .. n \subseteq S
<1> DEFINE R == OpToRel(<, Nat)
           B == {i \in 0 .. n : i \notin S}
<1>1. IsWellFoundedOn(R, Nat)
  BY NatLessThanWellFounded
<1>2. \A x, y \in Nat : <<y, x>> \in R <=> y < x
  BY DEF OpToRel
<1> HIDE DEF R
<1> SUFFICES ASSUME B # {} PROVE FALSE
  OBVIOUS
<1>3. B \subseteq Nat
  OBVIOUS
<1>4. PICK x \in B : \A y \in B : <<y, x>> \notin R
  BY <1>1, <1>3, WFMin
<1>5. x \in 0 .. n /\ x # 0 /\ x \notin S
  OBVIOUS
<1>6. x - 1 \in 0 .. n - 1 /\ x - 1 \in Nat /\ x - 1 < x /\ x - 1 \in 0 .. n /\ (x - 1) + 1 = x /\ x \in Nat
  BY <1>5
<1>7. x - 1 \notin B
  BY <1>2, <1>4, <1>6
<1> QED
  BY <1>5, <1>6, <1>7

(* What the buffer is taken to, piece by piece. *)
LEMMA TakenIs ==
  ASSUME buf \in Seq(Piece)
  PROVE  /\ Taken[0] = [cur |-> <<>>, seen |-> seen, sent |-> sent]
         /\ \A i \in 1 .. Len(buf) : Taken[i] = TakePiece(Taken[i - 1], buf[i])
<1> DEFINE base == [cur |-> <<>>, seen |-> seen, sent |-> sent]
           n == Len(buf)
           step(a, i) == TakePiece(a, buf[i])
           Is(g, m) == g = [i \in 0 .. m |-> IF i = 0 THEN base ELSE step(g[i - 1], i)]
           S == {m \in 0 .. n : \E g : Is(g, m)}
<1>0. n \in Nat
  OBVIOUS
<1> HIDE DEF base, step
<1>1. 0 \in S
  <2> DEFINE g == [i \in 0 .. 0 |-> base]
  <2>1. g = [i \in 0 .. 0 |-> IF i = 0 THEN base ELSE step(g[i - 1], i)]
    OBVIOUS
  <2>2. Is(g, 0)
    BY <2>1
  <2> HIDE DEF g, Is
  <2>3. \E f : Is(f, 0)
    BY <2>2
  <2> QED BY <1>0, <2>3
<1>2. ASSUME NEW m \in 0 .. n - 1, m \in S PROVE m + 1 \in S
  <2>1. PICK g : Is(g, m)
    BY <1>2
  <2> DEFINE h == [i \in 0 .. m + 1 |-> IF i <= m THEN g[i] ELSE step(g[m], m + 1)]
  <2>2. ASSUME NEW i \in 0 .. m + 1 PROVE h[i] = IF i = 0 THEN base ELSE step(h[i - 1], i)
    <3>1. CASE i = 0
      BY <2>1, <3>1, <1>0
    <3>2. CASE i # 0 /\ i <= m
      <4>1. h[i] = g[i] /\ h[i - 1] = g[i - 1] /\ i \in 0 .. m
        BY <3>2, <1>0
      <4> QED BY <2>1, <4>1, <3>2
    <3>3. CASE i = m + 1
      <4>1. h[i] = step(g[m], m + 1) /\ h[i - 1] = g[m] /\ i # 0
        BY <3>3, <1>0
      <4> QED BY <4>1, <3>3
    <3> QED BY <3>1, <3>2, <3>3, <1>0
  <2>3. Is(h, m + 1)
    BY <2>2, Zenon
  <2> HIDE DEF h
  <2> QED BY <2>3, <1>0
<1>3. n \in S
  <2> HIDE DEF S, n
  <2>1. 0 .. n \subseteq S
    BY <1>0, <1>1, <1>2, UpTo
  <2> QED BY <2>1, <1>0
<1>4. PICK g : Is(g, n)
  BY <1>3
<1>5. Taken = CHOOSE h : Is(h, n)
  BY Zenon DEF Taken, base, step
<1>6. Is(Taken, n)
  <2> HIDE DEF n, Is
  <2> QED BY <1>4, <1>5, Zenon
<1> HIDE DEF n
<1>7. Taken[0] = base
  BY <1>6, <1>0
<1>8. ASSUME NEW i \in 1 .. n PROVE Taken[i] = step(Taken[i - 1], i)
  <2>1. i \in 0 .. n /\ i # 0
    BY <1>0
  <2>2. Taken[i] = IF i = 0 THEN base ELSE step(Taken[i - 1], i)
    BY <1>6, <2>1
  <2> QED BY <2>1, <2>2
<1> QED
  BY <1>7, <1>8 DEF base, step, n

-----------------------------------------------------------------------------
(* One piece.                                                              *)

(* What is joined, remembered and given so far, of lines that are in the log. *)
Acc == [cur : Seq(Piece), seen : Seq(Line), sent : Seq(Entry)]
Good(acc) ==
    /\ acc \in Acc /\ Len(acc.seen) <= MaxSeen
    /\ \A i \in DOMAIN acc.cur : acc.cur[i].line <= Len(log)
    /\ \A i \in DOMAIN acc.sent : acc.sent[i].line <= Len(log) /\ acc.sent[i].start <= starts

(* The memory after a shot: the last of what it was, and the shot. *)
LEMMA EvictsIs ==
  ASSUME NEW s \in Seq(Line), Len(s) <= MaxSeen, NEW x \in Line
  PROVE  LET e == Evicts(Append(s, x)) IN
         /\ e \in Seq(Line) /\ Len(e) <= MaxSeen /\ Len(e) >= 1
         /\ Len(e) = Len(s) + 1 \/ (Len(e) = Len(s) /\ Len(e) = MaxSeen)
         /\ e[Len(e)] = x
         /\ \A i \in 1 .. Len(e) - 1 : e[i] = s[Len(s) - Len(e) + 1 + i]
<1>0. MaxSeen \in Nat /\ MaxSeen >= 1 /\ Len(s) \in Nat
  BY Bounds
<1> DEFINE a == Append(s, x)
<1>1. a \in Seq(Line) /\ Len(a) = Len(s) + 1 /\ a[Len(s) + 1] = x
      /\ \A i \in 1 .. Len(s) : a[i] = s[i]
  OBVIOUS
<1> HIDE DEF a
<1> DEFINE e == Evicts(a)
<1> SUFFICES /\ e \in Seq(Line) /\ Len(e) <= MaxSeen /\ Len(e) >= 1
             /\ Len(e) = Len(s) + 1 \/ (Len(e) = Len(s) /\ Len(e) = MaxSeen)
             /\ e[Len(e)] = x
             /\ \A i \in 1 .. Len(e) - 1 : e[i] = s[Len(s) - Len(e) + 1 + i]
  BY DEF a
<1>2. CASE Len(a) > MaxSeen
  <2>1. Evicts(a) = Tail(a) /\ Len(s) = MaxSeen
    BY <1>0, <1>1, <1>2 DEF Evicts
  <2>2. Tail(a) \in Seq(Line) /\ Len(Tail(a)) = Len(s)
        /\ \A i \in 1 .. Len(s) : Tail(a)[i] = a[i + 1]
    BY <1>0, <1>1, <2>1
  <2>3. e = Tail(a)
    BY <2>1
  <2> HIDE DEF e
  <2> QED BY <1>0, <1>1, <2>1, <2>2, <2>3
<1>3. CASE Len(a) <= MaxSeen
  <2>1. Evicts(a) = a
    BY <1>0, <1>1, <1>3 DEF Evicts
  <2> HIDE DEF e
  <2> QED BY <1>0, <1>1, <1>3, <2>1 DEF e
<1> QED BY <1>0, <1>1, <1>2, <1>3

(* A piece is joined, or ends a line that is dropped, or one that is given. *)
Dropped(acc, k) == log[k].read \/ Contains(acc.seen, log[k].shot)
LEMMA PieceIs ==
  ASSUME NEW acc \in Acc, NEW p \in Piece
  PROVE  LET s == Append(acc.cur, p)
             k == s[1].line
             a == TakePiece(acc, p) IN
         /\ ~p.end => a = [cur |-> s, seen |-> acc.seen, sent |-> acc.sent]
         /\ p.end /\ (~Parses(s) \/ Dropped(acc, k)) =>
               a = [cur |-> <<>>, seen |-> acc.seen, sent |-> acc.sent]
         /\ p.end /\ Parses(s) /\ ~Dropped(acc, k) =>
               a = [cur |-> <<>>, seen |-> Evicts(Append(acc.seen, log[k].shot)),
                    sent |-> IF TakesEvents THEN Append(acc.sent, [line |-> k, start |-> starts])
                             ELSE acc.sent]
<1> DEFINE s == Append(acc.cur, p)
           k == s[1].line
           a == TakePiece(acc, p)
<1> HIDE DEF s, k
<1>1. ASSUME ~p.end PROVE a = [cur |-> s, seen |-> acc.seen, sent |-> acc.sent]
  BY <1>1 DEF TakePiece, Acc, s
<1>2. ASSUME p.end PROVE a = [HandleLine(acc, s) EXCEPT !.cur = <<>>]
  BY <1>2 DEF TakePiece, s
<1>3. ASSUME p.end, ~Parses(s) \/ Dropped(acc, k)
      PROVE  a = [cur |-> <<>>, seen |-> acc.seen, sent |-> acc.sent]
  <2>1. HandleLine(acc, s) = acc
    BY <1>3 DEF HandleLine, Dropped, k
  <2> QED BY <1>2, <1>3, <2>1 DEF Acc
<1>4. ASSUME p.end, Parses(s), ~Dropped(acc, k)
      PROVE  a = [cur |-> <<>>, seen |-> Evicts(Append(acc.seen, log[k].shot)),
                  sent |-> IF TakesEvents THEN Append(acc.sent, [line |-> k, start |-> starts])
                           ELSE acc.sent]
  <2>1. HandleLine(acc, s) = [acc EXCEPT !.seen = Evicts(Append(@, log[k].shot)),
                     !.sent = IF TakesEvents THEN Append(@, [line |-> k, start |-> starts])
                              ELSE @]
    BY <1>4 DEF HandleLine, Dropped, k
  <2> QED BY <1>2, <1>4, <2>1 DEF Acc
<1> QED
  BY <1>1, <1>3, <1>4 DEF s, k

LEMMA PieceGood ==
  ASSUME Types, NEW acc, Good(acc), NEW p \in Piece, p.line <= Len(log)
  PROVE  Good(TakePiece(acc, p))
<1> DEFINE s == Append(acc.cur, p)
           k == s[1].line
<1>0. acc \in Acc /\ acc.cur \in Seq(Piece) /\ acc.seen \in Seq(Line) /\ acc.sent \in Seq(Entry)
  BY DEF Good, Acc
<1>1. s \in Seq(Piece) /\ s # <<>> /\ \A i \in DOMAIN s : s[i].line <= Len(log)
  BY <1>0 DEF Good
<1> HIDE DEF s
<1>2. k \in DOMAIN log /\ k \in Line
  <2>1. s[1] \in Piece /\ 1 \in DOMAIN s
    BY <1>1
  <2>2. k \in Line /\ k <= Len(log) /\ k >= 1
    BY <1>1, <2>1, Bounds DEF Piece
  <2> QED BY <2>2, TypesAre, Bounds
<1>3. log[k].shot \in Line
  BY <1>2, TypesAre
<1> HIDE DEF k
<1> DEFINE e == Evicts(Append(acc.seen, log[k].shot))
<1>4. e \in Seq(Line) /\ Len(e) <= MaxSeen
  BY <1>0, <1>3, EvictsIs DEF Good
<1> HIDE DEF e
<1>5. [line |-> k, start |-> starts] \in Entry /\ k <= Len(log)
  <2>1. starts \in 0 .. MaxStarts
    BY Bounds, TypesAre DEF Types, Known
  <2> QED BY <1>2, <2>1, TypesAre DEF Entry
<1> DEFINE o == IF TakesEvents THEN Append(acc.sent, [line |-> k, start |-> starts]) ELSE acc.sent
<1>6. o \in Seq(Entry)
      /\ \A i \in DOMAIN o : o[i].line <= Len(log) /\ o[i].start <= starts
  <2>1. CASE ~TakesEvents
    BY <2>1, <1>0 DEF Good
  <2>2. CASE TakesEvents
    <3> DEFINE x == [line |-> k, start |-> starts]
    <3>1. x \in Entry /\ x.line <= Len(log) /\ x.start <= starts
      BY <1>5, <2>2, TypesAre
    <3>2. o = Append(acc.sent, x)
      BY <2>2
    <3> HIDE DEF x, o
    <3>3. \A i \in DOMAIN o : o[i] = x \/ (i \in DOMAIN acc.sent /\ o[i] = acc.sent[i])
      BY <1>0, <3>1, <3>2
    <3>4. o \in Seq(Entry)
      BY <1>0, <3>1, <3>2
    <3> QED BY <3>1, <3>3, <3>4 DEF Good
  <2> QED BY <2>1, <2>2
<1> HIDE DEF o
<1>7. <<>> \in Seq(Piece) /\ DOMAIN <<>> = {}
  OBVIOUS
<1> DEFINE a == TakePiece(acc, p)
<1>8. \/ a = [cur |-> s, seen |-> acc.seen, sent |-> acc.sent]
      \/ a = [cur |-> <<>>, seen |-> acc.seen, sent |-> acc.sent]
      \/ a = [cur |-> <<>>, seen |-> e, sent |-> o]
  BY <1>0, PieceIs DEF s, k, e, o
<1> SUFFICES Good(a)
  OBVIOUS
<1> HIDE DEF a
<1>9. CASE a = [cur |-> s, seen |-> acc.seen, sent |-> acc.sent]
  BY <1>9, <1>0, <1>1 DEF Good, Acc
<1>10. CASE a = [cur |-> <<>>, seen |-> acc.seen, sent |-> acc.sent]
  BY <1>10, <1>0, <1>7 DEF Good, Acc
<1>11. CASE a = [cur |-> <<>>, seen |-> e, sent |-> o]
  BY <1>11, <1>4, <1>6, <1>7 DEF Good, Acc
<1> QED
  BY <1>8, <1>9, <1>10, <1>11

(* The whole buffer; when the window is off nothing is given. *)
LEMMA TakenGood ==
  ASSUME Types
  PROVE  \A i \in 0 .. Len(buf) : Good(Taken[i]) /\ (~TakesEvents => Taken[i].sent = sent)
<1>0. buf \in Seq(Piece) /\ Len(buf) \in Nat
  BY DEF Types, TypeOK
<1> DEFINE S == {i \in 0 .. Len(buf) : Good(Taken[i]) /\ (~TakesEvents => Taken[i].sent = sent)}
<1>1. 0 \in S
  <2>1. Good(Taken[0])
    <3>1. Taken[0] = [cur |-> <<>>, seen |-> seen, sent |-> sent]
      BY <1>0, TakenIs
    <3>2. <<>> \in Seq(Piece) /\ DOMAIN <<>> = {}
      OBVIOUS
    <3>3. \A i \in DOMAIN sent : sent[i].line <= Len(log) /\ sent[i].start <= starts
      BY DEF Types, Known
    <3> QED BY <3>1, <3>2, <3>3, TypesAre DEF Good, Acc
  <2>2. Taken[0].sent = sent
    BY <1>0, TakenIs
  <2> QED BY <1>0, <2>1, <2>2
<1>2. ASSUME NEW i \in 0 .. Len(buf) - 1, i \in S PROVE i + 1 \in S
  <2>1. i + 1 \in 1 .. Len(buf) /\ (i + 1) - 1 = i
    BY <1>0
  <2>2. Taken[i + 1] = TakePiece(Taken[i], buf[i + 1])
    BY <1>0, <2>1, TakenIs
  <2>3. buf[i + 1] \in Piece /\ buf[i + 1].line <= Len(log)
    BY <1>0, <2>1 DEF Types, Known
  <2>4. Good(Taken[i + 1])
    BY <1>2, <2>2, <2>3, PieceGood
  <2>5. ASSUME ~TakesEvents PROVE Taken[i + 1].sent = sent
    <3>1. Taken[i] \in Acc /\ Taken[i].sent = sent
      BY <1>2, <2>5 DEF Good
    <3> QED BY <2>2, <2>3, <2>5, <3>1, PieceIs
  <2> QED BY <2>1, <2>4, <2>5
<1>3. 0 .. Len(buf) \subseteq S
  <2> HIDE DEF S
  <2> QED BY <1>0, <1>1, <1>2, UpTo
<1> QED BY <1>3

-----------------------------------------------------------------------------
(* Types.                                                                  *)

LogLine == [shot : Line, read : BOOLEAN, live : BOOLEAN, by : 0 .. MaxStarts]
ReadState == [pc : {"no", "stat", "open", "read", "close"}, size : Nat, pos : Nat]
StartState == [pc : {"no", "stat", "set"}, size : Nat]

OfLog ==
    /\ log \in Seq(LogLine) /\ Len(log) <= MaxLine
    /\ \A k \in DOMAIN log : log[k].by <= starts
OfFile == file \in Seq(Piece) /\ \A i \in DOMAIN file : file[i].line <= Len(log)
OfBuf == buf \in Seq(Piece) /\ \A i \in DOMAIN buf : buf[i].line <= Len(log)
OfSent ==
    /\ sent \in Seq(Entry)
    /\ \A i \in DOMAIN sent : sent[i].line <= Len(log) /\ sent[i].start <= starts
OfRest ==
    /\ path \in BOOLEAN /\ timer \in BOOLEAN
    /\ offset \in Nat
    /\ seen \in Seq(Line) /\ Len(seen) <= MaxSeen
    /\ read \in ReadState /\ start \in StartState
    /\ starts \in 0 .. MaxStarts /\ (path \/ start.pc # "no" => starts >= 1)
    /\ faults \in [count : 0 .. MaxFault, last : BOOLEAN]
AllOf == OfLog /\ OfFile /\ OfBuf /\ OfSent /\ OfRest

LEMMA TypesMeans == Types <=> AllOf
<1>1. {path, timer} \subseteq BOOLEAN
      <=> path \in BOOLEAN /\ timer \in BOOLEAN
  OBVIOUS
<1> QED BY <1>1, Zenon DEF Types, TypeOK, Known, LogLine, Entry, ReadState, StartState,
                      AllOf, OfLog, OfFile, OfBuf, OfSent, OfRest

LEMMA TypesNext == AllOf' => Types'
<1>1. {path', timer'} \subseteq BOOLEAN
      <=> path' \in BOOLEAN /\ timer' \in BOOLEAN
  OBVIOUS
<1> QED BY <1>1, Zenon DEF Types, TypeOK, Known, LogLine, Entry, ReadState, StartState,
                      AllOf, OfLog, OfFile, OfBuf, OfSent, OfRest

LEMMA InitTypes == Init => Types
<1> SUFFICES ASSUME Init PROVE AllOf
  BY TypesMeans
<1>1. OfLog /\ OfFile /\ OfBuf /\ OfSent
  BY EmptyIs, Bounds DEF Init, OfLog, OfFile, OfBuf, OfSent
<1>2. seen \in Seq(Line) /\ Len(seen) <= MaxSeen
  BY EmptyIs, Bounds DEF Init
<1>3. /\ read \in ReadState /\ start \in StartState /\ start.pc = "no"
      /\ faults \in [count : 0 .. MaxFault, last : BOOLEAN]
  BY Bounds DEF Init, ReadState, StartState, NotReading, NotStarting
<1>4. OfRest
  <2>1. ~path /\ ~timer /\ offset = 0 /\ starts = 0
        /\ path \in BOOLEAN /\ timer \in BOOLEAN
    BY DEF Init
  <2> QED BY <1>2, <1>3, <2>1, Bounds DEF OfRest
<1> QED BY <1>1, <1>4 DEF AllOf

(* What the recorder has written grows or is emptied; what is read stays.  *)
LEMMA RecorderTypes == Types /\ Recorder => Types'
<1> SUFFICES ASSUME Types, Recorder PROVE AllOf'
  BY TypesNext
<1>0. OfLog /\ OfFile /\ OfBuf /\ OfSent /\ OfRest
  BY TypesMeans DEF AllOf
<1>1. ASSUME NEW shot \in Line, NEW again \in BOOLEAN, NEW reread \in BOOLEAN,
             BeginLine(shot, again, reread)
      PROVE  AllOf'
  <2> DEFINE r == [shot |-> shot, read |-> reread, live |-> path,
                   by |-> IF path \/ start.pc # "no" THEN starts ELSE 0]
             p == [line |-> Len(log) + 1, end |-> FALSE]
  <2>1. /\ log' = Append(log, r) /\ file' = Append(file, p) /\ timer' = path
        /\ Len(log) < MaxLine
        /\ UNCHANGED <<path, start, starts, offset, buf, seen, read, sent, faults>>
    BY <1>1 DEF BeginLine, Schedule, session, tail
  <2>2. r \in LogLine /\ r.by <= starts
    BY <1>0, Bounds DEF LogLine, OfRest
  <2>3. p \in Piece /\ p.line = Len(log) + 1
    BY <2>1, TypesAre, Bounds DEF Piece
  <2> HIDE DEF r, p
  <2>4. log' \in Seq(LogLine) /\ Len(log') = Len(log) + 1 /\ Len(log) \in Nat
        /\ \A k \in DOMAIN log' : log'[k] = r \/ (k \in DOMAIN log /\ log'[k] = log[k])
    BY <1>0, <2>1, <2>2, AppendIs DEF OfLog
  <2>5. OfLog'
    BY <1>0, <2>1, <2>2, <2>4, Bounds DEF OfLog
  <2>6. file' \in Seq(Piece)
        /\ \A i \in DOMAIN file' : file'[i] = p \/ (i \in DOMAIN file /\ file'[i] = file[i])
    BY <1>0, <2>1, <2>3, AppendIs DEF OfFile
  <2>7. \A n \in Line : n <= Len(log) => n <= Len(log')
    BY <2>4, Bounds
  <2>8. OfFile'
    <3>1. \A i \in DOMAIN file : file[i].line <= Len(log')
      BY <2>7, TypesAre, Bounds
    <3> QED BY <2>3, <2>4, <2>6, <3>1 DEF OfFile
  <2>9. OfBuf' /\ OfSent'
    <3>1. \A i \in DOMAIN buf : buf[i].line <= Len(log')
      BY <2>7, TypesAre, Bounds
    <3>2. \A i \in DOMAIN sent : sent[i].line <= Len(log')
      BY <2>7, TypesAre, Bounds
    <3> QED BY <1>0, <2>1, <3>1, <3>2 DEF OfBuf, OfSent
  <2>10. OfRest'
    BY <1>0, <2>1 DEF OfRest
  <2> QED BY <2>5, <2>8, <2>9, <2>10 DEF AllOf
<1>2. ASSUME EndLine PROVE AllOf'
  <2> DEFINE p == [line |-> Len(log), end |-> TRUE]
  <2>1. /\ ~Whole /\ file' = Append(file, p) /\ timer' = path
        /\ UNCHANGED <<log, path, start, starts, offset, buf, seen, read, sent, faults>>
    BY <1>2 DEF EndLine, Schedule, session, tail
  <2>2. p \in Piece /\ p.line = Len(log)
    <3>1. Len(file) \in DOMAIN file
      BY <2>1, TypesAre DEF Whole
    <3>2. file[Len(file)].line \in DOMAIN log
      BY <3>1, TypesAre
    <3> QED BY <3>2, TypesAre, Bounds DEF Piece
  <2> HIDE DEF p
  <2>3. file' \in Seq(Piece)
        /\ \A i \in DOMAIN file' : file'[i] = p \/ (i \in DOMAIN file /\ file'[i] = file[i])
    BY <1>0, <2>1, <2>2, AppendIs DEF OfFile
  <2>4. OfFile'
    BY <1>0, <2>1, <2>2, <2>3, TypesAre DEF OfFile
  <2>5. OfLog' /\ OfBuf' /\ OfSent' /\ OfRest'
    BY <1>0, <2>1 DEF OfLog, OfBuf, OfSent, OfRest
  <2> QED BY <2>4, <2>5 DEF AllOf
<1>3. ASSUME Rotate PROVE AllOf'
  <2>1. /\ file' = <<>> /\ timer' = path
        /\ UNCHANGED <<log, path, start, starts, offset, buf, seen, read, sent, faults>>
    BY <1>3 DEF Rotate, Schedule, session, tail
  <2>2. OfFile'
    BY <2>1, EmptyIs DEF OfFile
  <2>3. OfLog' /\ OfBuf' /\ OfSent' /\ OfRest'
    BY <1>0, <2>1 DEF OfLog, OfBuf, OfSent, OfRest
  <2> QED BY <2>2, <2>3 DEF AllOf
<1> QED BY <1>1, <1>2, <1>3 DEF Recorder

LEMMA ReaderTypes == Types /\ (TimerFires \/ Read \/ ReadFails) => Types'
<1> SUFFICES ASSUME Types PROVE TimerFires \/ Read \/ ReadFails => AllOf'
  BY TypesNext
<1>0. OfLog /\ OfFile /\ OfBuf /\ OfSent /\ OfRest
  BY TypesMeans DEF AllOf
<1> USE DEF recorder, session, tail
<1>1. ASSUME TimerFires PROVE AllOf'
  <2>1. OfLog' /\ OfFile' /\ OfBuf' /\ OfSent'
    BY <1>0, <1>1 DEF TimerFires, OfLog, OfFile, OfBuf, OfSent
  <2>2. read' \in ReadState /\ faults' \in [count : 0 .. MaxFault, last : BOOLEAN]
    <3>1. read \in ReadState /\ [NotReading EXCEPT !.pc = "stat"] \in ReadState
      BY <1>0 DEF OfRest, ReadState, NotReading
    <3>2. faults \in [count : 0 .. MaxFault, last : BOOLEAN]
          /\ [faults EXCEPT !.last = FALSE] \in [count : 0 .. MaxFault, last : BOOLEAN]
      BY <1>0 DEF OfRest
    <3> QED BY <1>1, <3>1, <3>2 DEF TimerFires
  <2>3. OfRest'
    BY <1>0, <1>1, <2>2 DEF TimerFires, OfRest
  <2> QED BY <2>1, <2>3 DEF AllOf
<1>2. ASSUME ReadFails PROVE AllOf'
  <2>1. OfLog' /\ OfFile' /\ OfBuf' /\ OfSent'
    BY <1>0, <1>2 DEF ReadFails, OfLog, OfFile, OfBuf, OfSent
  <2>2. read' \in ReadState /\ faults' \in [count : 0 .. MaxFault, last : BOOLEAN]
    BY <1>0, <1>2, Bounds DEF ReadFails, OfRest, ReadState, NotReading
  <2>3. OfRest'
    BY <1>0, <1>2, <2>2 DEF ReadFails, OfRest
  <2> QED BY <2>1, <2>3 DEF AllOf
<1>3. ASSUME ReadStats PROVE AllOf'
  <2>1. OfLog' /\ OfFile' /\ OfSent'
    BY <1>0, <1>3 DEF ReadStats, OfLog, OfFile, OfSent
  <2>2. OfBuf'
    BY <1>0, <1>3, EmptyIs DEF ReadStats, OfBuf
  <2>3. read' \in ReadState /\ offset' \in Nat
    BY <1>0, <1>3, TypesAre DEF ReadStats, OfRest, ReadState, NotReading
  <2>4. OfRest'
    BY <1>0, <1>3, <2>3 DEF ReadStats, OfRest
  <2> QED BY <2>1, <2>2, <2>4 DEF AllOf
<1>4. ASSUME ReadOpens PROVE AllOf'
  <2>1. OfLog' /\ OfFile' /\ OfBuf' /\ OfSent'
    BY <1>0, <1>4 DEF ReadOpens, OfLog, OfFile, OfBuf, OfSent
  <2>2. read' \in ReadState
    BY <1>0, <1>4 DEF ReadOpens, OfRest, ReadState
  <2>3. OfRest'
    BY <1>0, <1>4, <2>2 DEF ReadOpens, OfRest
  <2> QED BY <2>1, <2>3 DEF AllOf
<1>5. ASSUME ReadReads PROVE AllOf'
  <2> DEFINE n == IF Len(file) < read.size THEN Len(file) ELSE read.size
  <2>1. n \in Nat /\ n <= Len(file) /\ read.pos \in Nat /\ read.size \in Nat
    BY <1>0, TypesAre DEF OfRest, ReadState
  <2>2. Bytes = SubSeq(file, read.pos + 1, n)
    BY DEF Bytes
  <2> HIDE DEF n
  <2>3. /\ Bytes \in Seq(Piece) /\ Len(Bytes) \in Nat /\ DOMAIN Bytes = 1 .. Len(Bytes)
        /\ \A i \in DOMAIN Bytes : read.pos + i \in DOMAIN file /\ Bytes[i] = file[read.pos + i]
    <3>1. file \in Seq(Piece) /\ Len(file) \in Nat /\ DOMAIN file = 1 .. Len(file)
      BY TypesAre
    <3> QED BY <2>1, <2>2, <3>1
  <2>4. buf \o Bytes \in Seq(Piece)
        /\ \A i \in DOMAIN (buf \o Bytes) :
              \/ i \in DOMAIN buf /\ (buf \o Bytes)[i] = buf[i]
              \/ i - Len(buf) \in DOMAIN Bytes /\ (buf \o Bytes)[i] = Bytes[i - Len(buf)]
    <3>1. buf \in Seq(Piece) /\ Len(buf) \in Nat /\ DOMAIN buf = 1 .. Len(buf)
      BY TypesAre
    <3> QED BY <2>3, <3>1
  <2>5. /\ buf' = buf \o Bytes /\ offset' = read.pos + Len(Bytes)
        /\ read' = [read EXCEPT !.pc = "close"]
        /\ UNCHANGED <<log, file, path, start, starts, seen, timer, sent, faults>>
    BY <1>5 DEF ReadReads
  <2>6. OfBuf'
    <3> DEFINE b == buf \o Bytes
    <3>1. \A i \in DOMAIN buf : buf[i].line <= Len(log)
      BY <1>0 DEF OfBuf
    <3>2. \A i \in DOMAIN file : file[i].line <= Len(log)
      BY <1>0 DEF OfFile
    <3> HIDE DEF b
    <3>3. \A i \in DOMAIN b : b[i].line <= Len(log)
      BY <2>3, <2>4, <3>1, <3>2 DEF b
    <3> QED BY <2>4, <2>5, <3>3 DEF OfBuf, b
  <2>7. OfLog' /\ OfFile' /\ OfSent'
    BY <1>0, <2>5 DEF OfLog, OfFile, OfSent
  <2>8. read' \in ReadState /\ offset' \in Nat
    <3>1. [read EXCEPT !.pc = "close"] \in ReadState
      BY <1>0 DEF OfRest, ReadState
    <3>2. read.pos + Len(Bytes) \in Nat
      BY <2>1, <2>3
    <3> QED BY <2>5, <3>1, <3>2
  <2>9. OfRest'
    BY <1>0, <2>5, <2>8 DEF OfRest
  <2> QED BY <2>6, <2>7, <2>9 DEF AllOf
<1>6. ASSUME ReadCloses PROVE AllOf'
  <2> DEFINE a == Taken[Len(buf)]
  <2>1. Good(a)
    BY TakenGood, TypesAre
  <2>2. /\ buf' = a.cur /\ seen' = a.seen /\ sent' = a.sent /\ read' = NotReading
        /\ UNCHANGED <<log, file, path, start, starts, offset, timer, faults>>
    BY <1>6 DEF ReadCloses, Rest
  <2> HIDE DEF a
  <2>3. OfBuf' /\ OfSent' /\ seen' \in Seq(Line) /\ Len(seen') <= MaxSeen
    BY <2>1, <2>2 DEF OfBuf, OfSent, Good, Acc
  <2>4. OfLog' /\ OfFile'
    BY <1>0, <2>2 DEF OfLog, OfFile
  <2>5. OfRest'
    BY <1>0, <2>2, <2>3 DEF OfRest, ReadState, NotReading
  <2> QED BY <2>3, <2>4, <2>5 DEF AllOf
<1> QED BY <1>1, <1>2, <1>3, <1>4, <1>5, <1>6 DEF Read

LEMMA UserTypes == Types /\ User => Types'
<1> SUFFICES ASSUME Types, User PROVE AllOf'
  BY TypesNext
<1>0. OfLog /\ OfFile /\ OfBuf /\ OfSent /\ OfRest
  BY TypesMeans DEF AllOf
<1> USE DEF recorder, tail
<1>1. ASSUME Stop PROVE AllOf'
  <2>1. /\ timer' = FALSE /\ path' = FALSE /\ buf' = <<>> /\ offset' = 0 /\ seen' = <<>>
        /\ UNCHANGED <<log, file, read, start, starts, sent, faults>>
        /\ path
    BY <1>1 DEF Stop, Stopped
  <2>2. OfLog' /\ OfFile' /\ OfSent' /\ OfBuf'
    BY <1>0, <2>1, EmptyIs DEF OfLog, OfFile, OfBuf, OfSent
  <2>3. seen' \in Seq(Line) /\ Len(seen') <= MaxSeen
    BY <2>1, EmptyIs, Bounds
  <2>4. OfRest'
    BY <1>0, <2>1, <2>3 DEF OfRest
  <2> QED BY <2>2, <2>4 DEF AllOf
<1>2. ASSUME StartClick PROVE AllOf'
  <2>1. /\ timer' = FALSE /\ path' = FALSE /\ buf' = <<>> /\ offset' = 0 /\ seen' = <<>>
        /\ start' = [pc |-> "stat", size |-> 0] /\ starts' = starts + 1 /\ starts < MaxStarts
        /\ UNCHANGED <<log, file, read, sent, faults>>
    BY <1>2 DEF StartClick, Stopped
  <2>2. OfFile' /\ OfBuf'
    BY <1>0, <2>1, EmptyIs DEF OfFile, OfBuf
  <2>3. OfLog'
    BY <1>0, <2>1, TypesAre DEF OfLog
  <2>4. OfSent'
    BY <1>0, <2>1, TypesAre DEF OfSent
  <2>5. seen' \in Seq(Line) /\ Len(seen') <= MaxSeen
    BY <2>1, EmptyIs, Bounds
  <2>6. start' \in StartState /\ starts' \in 0 .. MaxStarts /\ starts' >= 1
    BY <1>0, <2>1, Bounds DEF OfRest, StartState
  <2>7. OfRest'
    BY <1>0, <2>1, <2>5, <2>6 DEF OfRest
  <2> QED BY <2>2, <2>3, <2>4, <2>7 DEF AllOf
<1>3. ASSUME NEW ok \in BOOLEAN, StartStats(ok) PROVE AllOf'
  <2>1. OfLog' /\ OfFile' /\ OfSent' /\ OfBuf'
    BY <1>0, <1>3 DEF StartStats, OfLog, OfFile, OfBuf, OfSent
  <2>2. start' \in StartState
    BY <1>3, TypesAre DEF StartStats, StartState, NotStarting
  <2>3. OfRest'
    BY <1>0, <1>3, <2>2 DEF StartStats, OfRest
  <2> QED BY <2>1, <2>3 DEF AllOf
<1>4. ASSUME StartSets PROVE AllOf'
  <2>1. OfLog' /\ OfFile' /\ OfSent' /\ OfBuf'
    BY <1>0, <1>4, EmptyIs DEF StartSets, OfLog, OfFile, OfBuf, OfSent
  <2>2. OfRest'
    BY <1>0, <1>4, EmptyIs, Bounds DEF StartSets, FromItsEnd, OfRest, StartState, NotStarting
  <2> QED BY <2>1, <2>2 DEF AllOf
<1> QED BY <1>1, <1>2, <1>3, <1>4 DEF User

LEMMA StepTypes == Types /\ [Next]_vars => Types'
<1> SUFFICES ASSUME Types, [Next]_vars PROVE Types'
  OBVIOUS
<1>1. CASE UNCHANGED vars
  BY <1>1, TypesMeans, TypesNext
     DEF vars, AllOf, OfLog, OfFile, OfBuf, OfSent, OfRest
<1> QED
  BY <1>1, RecorderTypes, ReaderTypes, UserTypes DEF Next

(* Every variable has its type.                                            *)
THEOREM LogTailTypes == Spec => []TypeOK
<1>1. Spec => []Types
  BY InitTypes, StepTypes, PTL DEF Spec
<1>2. Types => TypeOK
  BY DEF Types
<1> QED
  BY <1>1, <1>2, PTL

-----------------------------------------------------------------------------
(* The order of the file, and of what is given.                            *)

Before(p, q) == p.line < q.line \/ (p.line = q.line /\ ~p.end /\ q.end)

(* The file: pieces in their order, the second piece of a line after its   *)
(* first, the last line of all at the end.                                 *)
Written ==
    /\ \A i, j \in DOMAIN file : i < j => Before(file[i], file[j])
    /\ \A i \in DOMAIN file :
          ~file[i].end /\ i < Len(file) => file[i + 1] = [line |-> file[i].line, end |-> TRUE]
    /\ file # <<>> => file[Len(file)].line = Len(log)

InOrder(out) ==
    \A i, j \in DOMAIN out :
        i < j => /\ out[i].start <= out[j].start
                 /\ out[i].start = out[j].start => out[i].line < out[j].line

(* What is remembered are the last rows of this start, all of them or as   *)
(* many as fit.                                                            *)
Remembers(mem, out) ==
    /\ Len(mem) <= Len(out)
    /\ \A i \in DOMAIN mem :
          /\ out[Len(out) - Len(mem) + i].start = starts
          /\ mem[i] = log[out[Len(out) - Len(mem) + i].line].shot
    /\ Len(mem) < MaxSeen /\ Len(mem) < Len(out) => out[Len(out) - Len(mem)].start < starts

Apart(out) ==
    \A i, j \in DOMAIN out :
        /\ i < j /\ out[i].start = out[j].start
        /\ log[out[i].line].shot = log[out[j].line].shot
        => j - i > MaxSeen
Ours(out) == \A i \in DOMAIN out : log[out[i].line].by = out[i].start

(* What may be assumed of what is given and remembered *)
LEMMA GoodIs ==
  ASSUME Types, NEW acc, Good(acc)
  PROVE  /\ acc.cur \in Seq(Piece) /\ acc.seen \in Seq(Line) /\ acc.sent \in Seq(Entry)
         /\ Len(acc.seen) \in Nat /\ Len(acc.seen) <= MaxSeen /\ DOMAIN acc.seen = 1 .. Len(acc.seen)
         /\ Len(acc.sent) \in Nat /\ DOMAIN acc.sent = 1 .. Len(acc.sent)
         /\ \A i \in DOMAIN acc.sent :
               /\ acc.sent[i].line \in DOMAIN log /\ acc.sent[i].line \in Nat
               /\ acc.sent[i].start \in Nat /\ acc.sent[i].start <= starts
<1>1. acc.cur \in Seq(Piece) /\ acc.seen \in Seq(Line) /\ acc.sent \in Seq(Entry)
      /\ Len(acc.seen) <= MaxSeen
  BY DEF Good, Acc
<1>2. Len(acc.seen) \in Nat /\ DOMAIN acc.seen = 1 .. Len(acc.seen)
  BY <1>1
<1>3. Len(acc.sent) \in Nat /\ DOMAIN acc.sent = 1 .. Len(acc.sent)
      /\ \A i \in DOMAIN acc.sent : acc.sent[i] \in Entry
  BY <1>1
<1>4. \A i \in DOMAIN acc.sent : acc.sent[i].line <= Len(log) /\ acc.sent[i].start <= starts
  BY DEF Good
<1>5. \A i \in DOMAIN acc.sent :
               /\ acc.sent[i].line \in DOMAIN log /\ acc.sent[i].line \in Nat
               /\ acc.sent[i].start \in Nat /\ acc.sent[i].start <= starts
  <2>1. DOMAIN log = 1 .. Len(log) /\ Len(log) \in Nat
    BY TypesAre
  <2>2. Line = 1 .. MaxLine /\ MaxLine \in Nat /\ MaxStarts \in Nat
    BY Bounds
  <2> QED BY <1>3, <1>4, <2>1, <2>2 DEF Entry
<1> QED BY <1>1, <1>2, <1>3, <1>5

(* A row for a line behind those of this start: what is given, as a        *)
(* sequence of its own.                                                    *)
LEMMA GivenIs ==
  ASSUME Types, path, NEW acc, Good(acc), NEW k \in DOMAIN log,
         NEW out, out = Append(acc.sent, [line |-> k, start |-> starts])
  PROVE  LET m == Len(acc.sent) IN
         /\ m \in Nat /\ DOMAIN acc.sent = 1 .. m
         /\ Len(out) = m + 1 /\ DOMAIN out = 1 .. m + 1
         /\ out[m + 1].line = k /\ out[m + 1].start = starts
         /\ \A i \in DOMAIN acc.sent : i \in DOMAIN out /\ out[i] = acc.sent[i]
<1> DEFINE e == [line |-> k, start |-> starts]
           s == acc.sent
<1>1. k \in Line /\ starts \in 1 .. MaxStarts
  <2>1. k \in Line /\ starts \in 0 .. MaxStarts /\ MaxStarts \in Nat
    BY TypesAre, Bounds
  <2>2. starts >= 1
    BY DEF Types, Known
  <2> QED BY <2>1, <2>2
<1>2. e \in Entry /\ e.line = k /\ e.start = starts
  BY <1>1 DEF Entry
<1>3. s \in Seq(Entry) /\ out = Append(s, e)
  BY GoodIs
<1> HIDE DEF e, s
<1> QED BY <1>2, <1>3, AppendIs DEF s

(* It keeps the rows in order, apart from their repetitions, and the       *)
(* memory the last of them.                                                *)
LEMMA GiveOnce ==
  ASSUME Types, path, NEW acc, Good(acc), NEW k \in DOMAIN log,
         Remembers(acc.seen, acc.sent), InOrder(acc.sent),
         \A i \in DOMAIN acc.sent : acc.sent[i].start = starts => acc.sent[i].line < k,
         ~Dropped(acc, k),
         NEW mem, mem = Evicts(Append(acc.seen, log[k].shot)),
         NEW out, out = Append(acc.sent, [line |-> k, start |-> starts])
  PROVE  Remembers(mem, out) /\ InOrder(out) /\ (Apart(acc.sent) => Apart(out))
<1> DEFINE s == acc.sent
           m == Len(s)
<1>1. k \in Nat /\ log[k].shot \in Line /\ starts \in Nat
  BY TypesAre
<1>2. /\ m \in Nat /\ DOMAIN s = 1 .. m
      /\ \A i \in DOMAIN s : s[i].line \in DOMAIN log /\ s[i].line \in Nat
                             /\ s[i].start \in Nat /\ s[i].start <= starts
  BY GoodIs
<1>3. /\ Len(out) = m + 1 /\ DOMAIN out = 1 .. m + 1
      /\ out[m + 1].line = k /\ out[m + 1].start = starts
      /\ \A i \in DOMAIN s : out[i] = s[i]
  BY GivenIs
<1> HIDE DEF m
<1>4. ASSUME NEW i \in DOMAIN s, s[i].start = starts PROVE s[i].line < k
  BY <1>4
<1>5. InOrder(out)
  <2> SUFFICES ASSUME NEW i \in DOMAIN out, NEW j \in DOMAIN out, i < j
               PROVE  /\ out[i].start <= out[j].start
                      /\ out[i].start = out[j].start => out[i].line < out[j].line
    BY DEF InOrder
  <2>1. CASE j = m + 1
    <3>1. i \in DOMAIN s /\ out[i] = s[i] /\ out[j] = out[m + 1]
      BY <1>2, <1>3, <2>1
    <3> QED BY <3>1, <1>1, <1>2, <1>3, <1>4
  <2>2. CASE j # m + 1
    <3>1. i \in DOMAIN s /\ j \in DOMAIN s /\ out[i] = s[i] /\ out[j] = s[j]
      BY <1>2, <1>3, <2>2
    <3> QED BY <3>1 DEF InOrder
  <2> QED BY <2>1, <2>2
<1> DEFINE q == Len(acc.seen)
<1>7. q \in Nat /\ q <= MaxSeen /\ q <= m /\ DOMAIN acc.seen = 1 .. q /\ MaxSeen \in Nat
  BY GoodIs, Bounds DEF Remembers, m
<1>8. \A i \in 1 .. q : s[m - q + i].start = starts /\ acc.seen[i] = log[s[m - q + i].line].shot
  BY <1>7 DEF Remembers, m
<1>9. q < MaxSeen /\ q < m => s[m - q].start < starts
  BY DEF Remembers, m
<1>10. \A i \in 1 .. q : acc.seen[i] # log[k].shot
  BY DEF Dropped, Contains
<1> HIDE DEF q
<1>11. ASSUME Apart(s) PROVE Apart(out)
  <2> SUFFICES ASSUME NEW i \in DOMAIN out, NEW j \in DOMAIN out, i < j,
                      out[i].start = out[j].start,
                      log[out[i].line].shot = log[out[j].line].shot
               PROVE  j - i > MaxSeen
    BY DEF Apart
  <2>1. CASE j = m + 1
    <3>1. i \in DOMAIN s /\ out[i] = s[i] /\ out[j] = out[m + 1] /\ i \in 1 .. m
      BY <1>2, <1>3, <2>1
    <3>2. s[i].start = starts /\ log[s[i].line].shot = log[k].shot
      BY <1>3, <3>1
    <3>3. ~(i > m - q)
      <4> SUFFICES ASSUME i > m - q PROVE FALSE
        OBVIOUS
      <4>1. i - (m - q) \in 1 .. q /\ m - q + (i - (m - q)) = i
        BY <1>2, <1>7, <3>1
      <4>2. acc.seen[i - (m - q)] = log[s[i].line].shot
        BY <1>8, <4>1
      <4> QED BY <1>10, <3>2, <4>1, <4>2
    <3>4. q = MaxSeen
      <4> SUFFICES ASSUME q # MaxSeen PROVE FALSE
        OBVIOUS
      <4>1. q < MaxSeen /\ q < m /\ m - q \in DOMAIN s /\ i <= m - q
        BY <1>2, <1>7, <3>1, <3>3
      <4>2. s[m - q].start < starts
        BY <1>9, <4>1
      <4>3. s[i].start <= s[m - q].start
        <5>1. s[i].start \in Nat /\ i \in Int /\ m - q \in Int
          BY <1>2, <1>7, <3>1
        <5>2. i = m - q \/ i < m - q
          BY <4>1, <5>1
        <5>3. i < m - q => s[i].start <= s[m - q].start
          BY <3>1, <4>1 DEF InOrder
        <5> QED BY <5>1, <5>2, <5>3
      <4> QED BY <1>1, <1>2, <3>1, <3>2, <4>1, <4>2, <4>3
    <3> QED BY <1>2, <1>7, <2>1, <3>1, <3>3, <3>4
  <2>2. CASE j # m + 1
    <3>1. i \in DOMAIN s /\ j \in DOMAIN s /\ out[i] = s[i] /\ out[j] = s[j]
      BY <1>2, <1>3, <2>2
    <3> QED BY <1>11, <3>1 DEF Apart
  <2> QED BY <2>1, <2>2
<1>12. Remembers(mem, out)
  <2> DEFINE r == Len(mem)
  <2>1. /\ r \in Nat /\ r <= MaxSeen /\ r >= 1
        /\ r = q + 1 \/ (r = q /\ r = MaxSeen)
        /\ mem[r] = log[k].shot /\ DOMAIN mem = 1 .. r
        /\ \A i \in 1 .. r - 1 : mem[i] = acc.seen[q - r + 1 + i]
    <3>1. acc.seen \in Seq(Line)
      BY GoodIs
    <3>2. mem \in Seq(Line)
      BY <1>1, <1>7, <3>1, EvictsIs DEF q
    <3>3. r \in Nat /\ DOMAIN mem = 1 .. r
      BY <3>2
    <3>4. /\ Len(mem) <= MaxSeen /\ Len(mem) >= 1
          /\ Len(mem) = Len(acc.seen) + 1 \/ (Len(mem) = Len(acc.seen) /\ Len(mem) = MaxSeen)
          /\ mem[Len(mem)] = log[k].shot
          /\ \A i \in 1 .. Len(mem) - 1 : mem[i] = acc.seen[Len(acc.seen) - Len(mem) + 1 + i]
      <4>1. Len(acc.seen) <= MaxSeen /\ log[k].shot \in Line
        BY <1>1, <1>7 DEF q
      <4> DEFINE x == log[k].shot
      <4>2. mem = Evicts(Append(acc.seen, x))
        OBVIOUS
      <4> HIDE DEF x
      <4>3. LET w == Evicts(Append(acc.seen, x)) IN
            /\ Len(w) <= MaxSeen /\ Len(w) >= 1
            /\ Len(w) = Len(acc.seen) + 1 \/ (Len(w) = Len(acc.seen) /\ Len(w) = MaxSeen)
            /\ w[Len(w)] = x
            /\ \A i \in 1 .. Len(w) - 1 : w[i] = acc.seen[Len(acc.seen) - Len(w) + 1 + i]
        BY <3>1, <4>1, EvictsIs, Zenon DEF x
      <4> QED BY <4>2, <4>3, Zenon DEF x
    <3> QED BY <3>3, <3>4 DEF q
  <2> HIDE DEF r
  <2>2. r <= m + 1
    BY <1>2, <1>7, <2>1
  <2>3. ASSUME NEW i \in 1 .. r
        PROVE  out[(m + 1) - r + i].start = starts
               /\ mem[i] = log[out[(m + 1) - r + i].line].shot
    <3>1. CASE i = r
      <4>1. (m + 1) - r + i = m + 1
        BY <1>2, <2>1, <3>1
      <4> QED BY <1>1, <1>3, <2>1, <3>1, <4>1
    <3>2. CASE i # r
      <4> DEFINE x == q - r + 1 + i
      <4>1. i \in 1 .. r - 1 /\ x \in 1 .. q /\ m - q + x = (m + 1) - r + i
            /\ (m + 1) - r + i \in DOMAIN s
        <5>1. i \in 1 .. r
          OBVIOUS
        <5>2. r = q + 1 \/ r = q
          BY <2>1
        <5>3. i \in Int /\ i >= 1 /\ i <= r - 1 /\ r \in Int /\ m \in Int /\ q \in Int /\ q <= m
          BY <1>2, <1>7, <2>1, <3>2, <5>1
        <5>4. x \in Int /\ x >= 1 /\ x <= q
          BY <5>2, <5>3
        <5>5. m - q + x = (m + 1) - r + i
          BY <5>3
        <5>6. (m + 1) - r + i >= 1 /\ (m + 1) - r + i <= m
          BY <5>2, <5>3
        <5> HIDE DEF x
        <5> QED BY <1>2, <5>3, <5>4, <5>5, <5>6
      <4>2. mem[i] = acc.seen[x] /\ out[(m + 1) - r + i] = s[(m + 1) - r + i]
        BY <1>3, <2>1, <4>1
      <4> QED BY <1>8, <4>1, <4>2
    <3> QED BY <3>1, <3>2
  <2>4. ASSUME r < MaxSeen, r < m + 1 PROVE out[(m + 1) - r].start < starts
    <3>1. r = q + 1 /\ (m + 1) - r = m - q /\ q < MaxSeen /\ q < m /\ m - q \in DOMAIN s
      BY <1>2, <1>7, <2>1, <2>4
    <3> QED BY <1>3, <1>9, <3>1
  <2>5. \A i \in DOMAIN mem : /\ out[Len(out) - r + i].start = starts
                              /\ mem[i] = log[out[Len(out) - r + i].line].shot
    <3>1. Len(out) = m + 1 /\ DOMAIN mem = 1 .. r
      BY <1>3, <2>1
    <3> QED BY <2>3, <3>1
  <2> QED BY <1>3, <2>2, <2>4, <2>5 DEF Remembers, r
<1> QED
  BY <1>5, <1>11, <1>12

-----------------------------------------------------------------------------
(* The recorder writes on: a piece more in the file, and perhaps a line    *)
(* more in the log.                                                        *)
Grown ==
    /\ Len(file') = Len(file) + 1 /\ DOMAIN file' = 1 .. Len(file) + 1
    /\ \A i \in DOMAIN file : i \in DOMAIN file' /\ file'[i] = file[i]
    /\ \A k \in DOMAIN log : k \in DOMAIN log' /\ log'[k] = log[k]
    /\ Len(log) <= Len(log') /\ DOMAIN log' = 1 .. Len(log') /\ Len(log') \in Nat
    /\ UNCHANGED <<path, offset, buf, seen, sent, starts, start, read>>

NewPiece == file'[Len(file) + 1]

LEMMA BeginGrows ==
  ASSUME Types, Written,
         NEW shot \in Line, NEW again \in BOOLEAN, NEW reread \in BOOLEAN,
         BeginLine(shot, again, reread)
  PROVE  /\ Grown /\ Written' /\ Whole /\ Len(log') = Len(log) + 1
         /\ NewPiece.line = Len(log) + 1 /\ NewPiece.end = FALSE
         /\ log'[Len(log) + 1].live = path
         /\ path \/ start.pc # "no" => log'[Len(log) + 1].by = starts
<1> DEFINE n == Len(log)
           f == Len(file)
           by == IF path \/ start.pc # "no" THEN starts ELSE 0
           r == [shot |-> shot, read |-> reread, live |-> path, by |-> by]
           x == [line |-> n + 1, end |-> FALSE]
<1>0. Types /\ Written
  OBVIOUS
<1>1. /\ Whole /\ n < MaxLine /\ log' = Append(log, r) /\ file' = Append(file, x)
      /\ UNCHANGED <<path, start, starts, offset, buf, seen, sent, read>>
  BY DEF BeginLine, session, tail
<1>2. /\ n \in Nat /\ f \in Nat /\ DOMAIN log = 1 .. n /\ DOMAIN file = 1 .. f
      /\ \A i \in DOMAIN file : file[i].line \in DOMAIN log
      /\ \A i \in DOMAIN sent : sent[i].line \in DOMAIN log
  BY <1>0, TypesAre
<1>3. /\ x \in Piece /\ r.live = path /\ r.by = by /\ r.live \in BOOLEAN
      /\ r \in [shot : Line, read : BOOLEAN, live : BOOLEAN, by : 0 .. MaxStarts]
  <2>1. starts \in 0 .. MaxStarts /\ path \in BOOLEAN /\ 0 \in 0 .. MaxStarts
    BY <1>0, TypesAre, Bounds
  <2>2. by \in 0 .. MaxStarts
    BY <2>1
  <2>3. n + 1 \in Line
    BY <1>1, <1>2, Bounds
  <2> HIDE DEF by, n
  <2> QED BY <2>1, <2>2, <2>3 DEF Piece
<1>4. by = IF path \/ start.pc # "no" THEN starts ELSE 0
  OBVIOUS
<1> HIDE DEF r, by
<1>5. /\ Len(log') = n + 1 /\ DOMAIN log' = 1 .. n + 1 /\ log'[n + 1] = r
      /\ \A k \in DOMAIN log : k \in DOMAIN log' /\ log'[k] = log[k]
  <2>1. log \in Seq([shot : Line, read : BOOLEAN, live : BOOLEAN, by : 0 .. MaxStarts])
    BY <1>0, TypesAre
  <2> DEFINE R == [shot : Line, read : BOOLEAN, live : BOOLEAN, by : 0 .. MaxStarts]
  <2>2. log \in Seq(R) /\ r \in R
    BY <1>3, <2>1
  <2> HIDE DEF R
  <2> QED BY <1>1, <2>2, AppendIs
<1>6. x.line = n + 1 /\ x.end = FALSE
  OBVIOUS
<1> HIDE DEF x
<1>7. /\ Len(file') = f + 1 /\ DOMAIN file' = 1 .. f + 1 /\ file'[f + 1] = x
      /\ \A i \in DOMAIN file : i \in DOMAIN file' /\ file'[i] = file[i]
  <2>1. file \in Seq(Piece)
    BY <1>0, TypesAre
  <2> QED BY <1>1, <1>3, <2>1, AppendIs
<1>8. Grown
  BY <1>1, <1>2, <1>5, <1>7 DEF Grown
<1> HIDE DEF n, f
<1>9. Written'
  <2>1. \A i, j \in DOMAIN file' : i < j => Before(file'[i], file'[j])
    <3> SUFFICES ASSUME NEW i \in DOMAIN file', NEW j \in DOMAIN file', i < j
                 PROVE  Before(file'[i], file'[j])
      OBVIOUS
    <3>1. i \in DOMAIN file /\ file'[i] = file[i]
      BY <1>2, <1>7
    <3>2. CASE j = f + 1
      <4>1. file[i].line \in 1 .. n
        BY <1>2, <3>1
      <4> QED BY <1>2, <1>6, <1>7, <3>1, <3>2, <4>1 DEF Before
    <3>3. CASE j # f + 1
      <4>1. j \in DOMAIN file /\ file'[j] = file[j]
        BY <1>2, <1>7, <3>3
      <4> QED BY <1>0, <3>1, <4>1 DEF Written
    <3> QED BY <3>2, <3>3
  <2>2. ASSUME NEW i \in DOMAIN file', ~file'[i].end, i < Len(file')
        PROVE  file'[i + 1] = [line |-> file'[i].line, end |-> TRUE]
    <3>1. i \in DOMAIN file /\ file'[i] = file[i]
      BY <1>2, <1>7, <2>2
    <3>2. i # f
      <4>1. file # <<>>
        BY <3>1, EmptyIs
      <4>2. file[f].end
        BY <1>1, <4>1 DEF Whole, Last, f
      <4> QED BY <2>2, <3>1, <4>2
    <3>3. i < f /\ i + 1 \in DOMAIN file
      BY <1>2, <3>1, <3>2
    <3> QED BY <1>0, <1>7, <2>2, <3>1, <3>3 DEF Written, f
  <2>3. file'[Len(file')].line = Len(log')
    BY <1>5, <1>6, <1>7
  <2> QED BY <2>1, <2>2, <2>3 DEF Written
<1>10. path \/ start.pc # "no" => log'[n + 1].by = starts
  BY <1>3, <1>4, <1>5
<1> QED BY <1>1, <1>3, <1>5, <1>6, <1>7, <1>8, <1>9, <1>10 DEF NewPiece, n, f

LEMMA EndGrows ==
  ASSUME Types, Written, EndLine
  PROVE  /\ Grown /\ Written' /\ file # <<>> /\ ~Whole /\ log' = log
         /\ NewPiece.line = Len(log) /\ NewPiece.end = TRUE
<1> DEFINE n == Len(log)
           f == Len(file)
           x == [line |-> n, end |-> TRUE]
<1>0. Types /\ Written
  OBVIOUS
<1>1. /\ ~Whole /\ file' = Append(file, x)
      /\ UNCHANGED <<log, path, start, starts, offset, buf, seen, sent, read>>
  BY DEF EndLine, session, tail
<1>2. /\ n \in Nat /\ f \in Nat /\ DOMAIN log = 1 .. n /\ DOMAIN file = 1 .. f
      /\ \A i \in DOMAIN file : file[i].line \in DOMAIN log
  BY <1>0, TypesAre
<1>3. file # <<>> /\ ~file[f].end /\ f \in DOMAIN file /\ file[f].line = n
  <2>1. file # <<>> /\ ~file[f].end
    BY <1>1 DEF Whole, Last
  <2>2. f # 0
    <3>1. file \in Seq(Piece)
      BY <1>0, TypesAre
    <3> QED BY <2>1, <3>1
  <2>3. file[f].line = n
    BY <1>0, <2>1 DEF Written
  <2> HIDE DEF f, n
  <2> QED BY <1>2, <2>1, <2>2, <2>3
<1>4. x \in Piece /\ x.line = n /\ x.end = TRUE
  <2>1. n \in Line
    BY <1>0, <1>2, <1>3, TypesAre
  <2> HIDE DEF n
  <2> QED BY <2>1 DEF Piece
<1>5. x = [line |-> file[f].line, end |-> TRUE]
  BY <1>3
<1> HIDE DEF x
<1>6. /\ Len(file') = f + 1 /\ DOMAIN file' = 1 .. f + 1 /\ file'[f + 1] = x
      /\ \A i \in DOMAIN file : i \in DOMAIN file' /\ file'[i] = file[i]
  <2>1. file \in Seq(Piece)
    BY <1>0, TypesAre
  <2> QED BY <1>1, <1>4, <2>1, AppendIs
<1>7. Grown
  BY <1>1, <1>2, <1>6 DEF Grown
<1> HIDE DEF n, f
<1>8. Written'
  <2>1. \A i, j \in DOMAIN file' : i < j => Before(file'[i], file'[j])
    <3> SUFFICES ASSUME NEW i \in DOMAIN file', NEW j \in DOMAIN file', i < j
                 PROVE  Before(file'[i], file'[j])
      OBVIOUS
    <3>1. i \in DOMAIN file /\ file'[i] = file[i]
      BY <1>2, <1>6
    <3>2. CASE j = f + 1
      <4>1. file'[j] = x
        BY <1>6, <3>2
      <4>2. CASE i = f
        BY <1>3, <1>4, <3>1, <4>1, <4>2 DEF Before
      <4>3. CASE i # f
        <5>1. Before(file[i], file[f])
          BY <1>0, <1>2, <1>3, <3>1, <4>3 DEF Written
        <5> QED BY <1>3, <1>4, <3>1, <4>1, <5>1 DEF Before
      <4> QED BY <4>2, <4>3
    <3>3. CASE j # f + 1
      <4>1. j \in DOMAIN file /\ file'[j] = file[j]
        BY <1>2, <1>6, <3>3
      <4> QED BY <1>0, <3>1, <4>1 DEF Written
    <3> QED BY <3>2, <3>3
  <2>2. ASSUME NEW i \in DOMAIN file', ~file'[i].end, i < Len(file')
        PROVE  file'[i + 1] = [line |-> file'[i].line, end |-> TRUE]
    <3>1. i \in DOMAIN file /\ file'[i] = file[i]
      BY <1>2, <1>6, <2>2
    <3>2. CASE i = f
      BY <1>5, <1>6, <3>1, <3>2
    <3>3. CASE i # f
      <4>1. i < f /\ i + 1 \in DOMAIN file
        BY <1>2, <3>1, <3>3
      <4> QED BY <1>0, <1>6, <2>2, <3>1, <4>1 DEF Written, f
    <3> QED BY <3>2, <3>3
  <2>3. file'[Len(file')].line = Len(log')
    BY <1>1, <1>4, <1>6 DEF n
  <2> QED BY <2>1, <2>2, <2>3 DEF Written
<1> QED BY <1>1, <1>3, <1>4, <1>6, <1>7, <1>8 DEF NewPiece, n, f

LEMMA WrittenFrame == Written /\ UNCHANGED <<log, file>> => Written'
BY DEF Written, Before

LEMMA RotateWritten == Rotate => Written'
BY EmptyIs DEF Rotate, Written

-----------------------------------------------------------------------------
(* One row per shot, and none of another start.                            *)

(* The window watches no other source, so a stopped one gives no row. *)
Alone == "others" \notin Habits

Tame == "hasty" \notin Habits

Behind(out, p) == ~p.end => \A i \in DOMAIN out : out[i].start = starts => out[i].line < p.line
Mine(p) == ~p.end => log[p.line].by = starts

(* A place in the file that comes after all that was taken and is joined,  *)
(* and belongs to this start                                               *)
Later(p) ==
    /\ Behind(sent, file[p])
    /\ \A i \in DOMAIN buf : Before(buf[i], file[p])
    /\ Tame => Mine(file[p])

(* The tail may stand in a file that has been rotated since: then all of   *)
(* the file is to be read, which the next stat sees.                       *)
From(at) == IF Len(file) < at THEN 0 ELSE at
Unread(at) == \A p \in DOMAIN file : p > From(at) => Later(p)

Joining ==
    /\ \A i, j \in DOMAIN buf : i < j => Before(buf[i], buf[j])
    /\ \A j \in DOMAIN buf :
          /\ Behind(sent, buf[j]) /\ (Tame => Mine(buf[j]))
          /\ ~Whole /\ buf[j].line = Len(log) => ~buf[j].end

Tailed ==
    /\ Joining /\ Remembers(seen, sent)
    /\ Unread(offset) /\ (read.pc = "read" => Unread(read.pos))

(* A start under way: nothing is tailed, and nothing given yet. *)
Starting ==
    start.pc # "no" =>
        /\ ~path /\ \A i \in DOMAIN sent : sent[i].start < starts
        /\ Tame => /\ read.pc = "no"
                   /\ start.pc = "set" =>
                        \A p \in DOMAIN file : p > From(start.size) => Mine(file[p])

Rows == InOrder(sent) /\ Apart(sent) /\ (Tame => Ours(sent))

Orderly == Types /\ Written /\ Starting /\ (path => Tailed) /\ Rows

LEMMA RowsMean == Orderly => OnceEach /\ (Tame => NoHistory)
<1> SUFFICES ASSUME Orderly PROVE OnceEach /\ (Tame => NoHistory)
  OBVIOUS
<1>1. OnceEach
  <2> SUFFICES ASSUME NEW i \in DOMAIN sent, NEW j \in DOMAIN sent, i < j, sent[i].start = sent[j].start
               PROVE  sent[i].line # sent[j].line /\ (ShotOf(i) = ShotOf(j) => j - i > MaxSeen)
    BY DEF OnceEach
  <2>1. sent[i].line < sent[j].line
    BY DEF Orderly, Rows, InOrder
  <2>2. ShotOf(i) = ShotOf(j) => j - i > MaxSeen
    BY DEF Orderly, Rows, Apart, ShotOf
  <2>3. sent[i].line \in Nat /\ sent[j].line \in Nat
    <3>1. Types
      BY DEF Orderly
    <3> QED BY <3>1, TypesAre
  <2> QED BY <2>1, <2>2, <2>3
<1>2. Tame => NoHistory
  BY DEF NoHistory, Orderly, Rows, Ours
<1> QED BY <1>1, <1>2

LEMMA InitOrderly == Init => Orderly
<1> SUFFICES ASSUME Init PROVE Orderly
  OBVIOUS
<1>1. Types
  BY InitTypes
<1>2. log = <<>> /\ file = <<>> /\ sent = <<>> /\ ~path /\ start.pc = "no"
  BY DEF Init, NotStarting
<1>3. Written /\ Starting /\ Rows
  BY <1>2, EmptyIs DEF Written, Starting, Rows, InOrder, Apart, Ours
<1> QED BY <1>1, <1>2, <1>3 DEF Orderly

LEMMA RowsFrame == Rows /\ UNCHANGED <<log, sent>> => Rows'
BY DEF Rows, InOrder, Apart, Ours, Tame

LEMMA StartingFrame ==
  Starting /\ UNCHANGED <<log, file, path, start, starts, sent>> /\ (read.pc = "no" /\ ~path => read'.pc = "no")
     => Starting'
BY DEF Starting, Tame, Mine, From

LEMMA RemembersFrame ==
  Remembers(seen, sent) /\ UNCHANGED <<log, seen, sent, starts>> => Remembers(seen, sent)'
BY DEF Remembers

(* Nothing but the place of a read moves. *)
LEMMA TimedOrderly ==
  ASSUME Orderly, UNCHANGED <<log, file, path, start, starts, sent, seen, offset, buf>>, Types',
         read.pc = "no" /\ ~path => read'.pc = "no",
         path /\ read'.pc = "read" => \/ read'.pos = offset
                                      \/ read.pc = "read" /\ read'.pos = read.pos
  PROVE  Orderly'
<1>1. Written' /\ Rows' /\ Starting'
  BY WrittenFrame, RowsFrame, StartingFrame DEF Orderly
<1>2. Tailed'
      \/ ~path'
  <2> SUFFICES ASSUME path PROVE Tailed'
    OBVIOUS
  <2>1. Tailed
    BY DEF Orderly
  <2>2. Joining' /\ Remembers(seen, sent)'
    BY <2>1, RemembersFrame DEF Tailed, Joining, Behind, Mine, Before, Whole, Last, Tame
  <2>3. ASSUME NEW at, Unread(at) PROVE \A p \in DOMAIN file' : p > From(at)' => Later(p)'
    BY <2>3 DEF Unread, From, Later, Behind, Mine, Before, Tame
  <2>4. Unread(offset)'
    <3>1. Unread(offset)
      BY <2>1 DEF Tailed
    <3> QED BY <2>3, <3>1 DEF Unread, From
  <2>5. (read.pc = "read" => Unread(read.pos))'
    <3> SUFFICES ASSUME read'.pc = "read" PROVE Unread(read.pos)'
      OBVIOUS
    <3>1. Unread(read'.pos)
      BY <2>1 DEF Tailed
    <3> QED BY <2>3, <3>1 DEF Unread, From
  <2> QED BY <2>2, <2>4, <2>5 DEF Tailed
<1> QED BY <1>1, <1>2 DEF Orderly

LEMMA FiresOrderly == ASSUME Orderly, TimerFires, Types' PROVE Orderly'
<1>1. /\ UNCHANGED <<log, file, path, start, starts, sent, seen, offset, buf>>
      /\ IF read.pc = "no" /\ path THEN read' = [NotReading EXCEPT !.pc = "stat"] ELSE UNCHANGED read
  BY DEF TimerFires, recorder, session, tail
<1>2. read.pc = "no" /\ path => read'.pc = "stat"
  BY <1>1 DEF NotReading
<1> QED BY <1>1, <1>2, TimedOrderly

LEMMA FailsOrderly == ASSUME Orderly, ReadFails, Types' PROVE Orderly'
<1>1. /\ UNCHANGED <<log, file, path, start, starts, sent, seen, offset, buf>>
      /\ read'.pc = "no"
  BY DEF ReadFails, recorder, session, tail, NotReading
<1> QED BY <1>1, TimedOrderly

LEMMA OpensOrderly == ASSUME Orderly, ReadOpens, Types' PROVE Orderly'
<1>1. /\ UNCHANGED <<log, file, path, start, starts, sent, seen, offset, buf>>
      /\ read.pc = "open" /\ read'.pc = "read" /\ read'.pos = offset
  <2>1. read \in ReadState
    BY TypesMeans DEF Orderly, AllOf, OfRest
  <2> QED BY <2>1 DEF ReadOpens, recorder, session, tail, ReadState
<1> QED BY <1>1, TimedOrderly

(* A log that has become shorter is read from its beginning, which is      *)
(* where From has it.                                                      *)
LEMMA StatsOrderly == ASSUME Orderly, ReadStats, Types' PROVE Orderly'
<1>1. /\ UNCHANGED <<log, file, path, start, starts, sent, seen>> /\ read.pc = "stat"
      /\ ~path => UNCHANGED <<offset, buf>>
      /\ path => /\ offset' = IF Shrunk THEN 0 ELSE offset
                 /\ buf' = IF Shrunk THEN <<>> ELSE buf
      /\ read'.pc \in {"no", "open"}
  BY DEF ReadStats, recorder, session, tail, NotReading
<1>2. Written' /\ Rows'
  BY <1>1, WrittenFrame, RowsFrame DEF Orderly
<1>3. Starting'
  BY <1>1, StartingFrame DEF Orderly
<1>4. ASSUME path PROVE Tailed'
  <2>0. Tailed /\ offset \in Nat /\ Len(file) \in Nat /\ DOMAIN file = 1 .. Len(file)
    BY <1>4, TypesAre DEF Orderly
  <2>1. buf' = <<>> \/ buf' = buf
    BY <1>1, <1>4
  <2>2. \A i \in DOMAIN buf' : i \in DOMAIN buf /\ buf'[i] = buf[i]
    BY <2>1, EmptyIs
  <2>3. Joining'
    BY <1>1, <2>0, <2>2 DEF Tailed, Joining, Behind, Mine, Before, Whole, Last, Tame
  <2>4. Remembers(seen, sent)'
    BY <1>1, <2>0, RemembersFrame DEF Tailed
  <2>5. ASSUME NEW p \in DOMAIN file, Later(p) PROVE Later(p)'
    BY <1>1, <2>2, <2>5 DEF Later, Behind, Mine, Before, Tame
  <2>6. Unread(offset)'
    <3>1. From(offset)' = From(offset)
      BY <1>1, <1>4, <2>0 DEF From, Shrunk
    <3> QED BY <1>1, <2>0, <2>5, <3>1 DEF Tailed, Unread
  <2> QED BY <1>1, <2>3, <2>4, <2>6 DEF Tailed
<1> QED BY <1>1, <1>2, <1>3, <1>4 DEF Orderly

LEMMA PartIs ==
  ASSUME NEW s \in Seq(Piece), NEW a \in Nat, NEW b \in Nat, b <= Len(s)
  PROVE  LET t == SubSeq(s, a + 1, b) IN
         /\ t \in Seq(Piece) /\ Len(t) \in Nat /\ (Len(t) > 0 => a + Len(t) <= Len(s))
         /\ \A i \in 1 .. Len(t) : t[i] = s[a + i]
<1> DEFINE t == SubSeq(s, a + 1, b)
<1>1. t \in Seq(Piece) /\ Len(t) = IF a + 1 <= b THEN b - a ELSE 0
  OBVIOUS
<1>2. \A i \in 1 .. Len(t) : t[i] = s[a + i]
  OBVIOUS
<1>3. Len(s) \in Nat
  OBVIOUS
<1> HIDE DEF t
<1> QED BY <1>1, <1>2, <1>3 DEF t

(* What is read comes after what is joined already, and what is left comes *)
(* after it.                                                               *)
LEMMA ReadsOrderly == ASSUME Orderly, ReadReads, Types' PROVE Orderly'
<1>1. /\ UNCHANGED <<log, file, path, start, starts, sent, seen, timer>> /\ read.pc = "read"
      /\ buf' = buf \o Bytes /\ offset' = read.pos + Len(Bytes)
  BY DEF ReadReads, recorder, session, tail
<1>2. read'.pc = "close" /\ read.size \in Nat /\ read.pos \in Nat
  <2>1. read \in ReadState
    BY TypesMeans DEF Orderly, AllOf, OfRest
  <2> QED BY <2>1 DEF ReadReads, ReadState
<1>3. Written' /\ Rows'
  BY <1>1, WrittenFrame, RowsFrame DEF Orderly
<1>4. Starting'
  BY <1>1, StartingFrame DEF Orderly
<1>5. ASSUME path PROVE Tailed'
  <2>0. Tailed /\ Written /\ Types
    BY <1>5 DEF Orderly
  <2>1. /\ Len(file) \in Nat /\ file \in Seq(Piece) /\ DOMAIN file = 1 .. Len(file)
        /\ buf \in Seq(Piece) /\ Len(buf) \in Nat /\ DOMAIN buf = 1 .. Len(buf)
    BY <2>0, TypesAre
  <2> DEFINE n == IF Len(file) < read.size THEN Len(file) ELSE read.size
             l == Len(Bytes)
             pos == read.pos
  <2>2. Bytes = SubSeq(file, pos + 1, n) /\ n \in Nat /\ n <= Len(file)
    BY <1>2, <2>1 DEF Bytes
  <2> HIDE DEF n, pos
  <2>3. /\ Bytes \in Seq(Piece) /\ l \in Nat /\ (l > 0 => pos + l <= Len(file))
        /\ \A i \in 1 .. l : Bytes[i] = file[pos + i]
    <3>1. pos \in Nat
      BY <1>2 DEF pos
    <3> QED BY <2>1, <2>2, <3>1, PartIs
  <2> DEFINE t == Bytes
  <2>4. t \in Seq(Piece) /\ l = Len(t)
    BY <2>3
  <2> HIDE DEF t, l
  <2>5. /\ DOMAIN (buf \o t) = 1 .. Len(buf) + l
        /\ \A i \in 1 .. Len(buf) : (buf \o t)[i] = buf[i]
        /\ \A i \in 1 .. l : (buf \o t)[Len(buf) + i] = t[i]
    <3>1. DOMAIN (buf \o t) = 1 .. Len(buf) + Len(t)
      BY <2>1, <2>4
    <3>2. \A i \in 1 .. Len(buf) : (buf \o t)[i] = buf[i]
      BY <2>1, <2>4
    <3>3. \A i \in 1 .. Len(t) : (buf \o t)[Len(buf) + i] = t[i]
      BY <2>1, <2>4
    <3> QED BY <2>4, <3>1, <3>2, <3>3
  (* A piece was there, or comes from the file. *)
  <2>6. ASSUME NEW i \in DOMAIN buf'
        PROVE  \/ i \in DOMAIN buf /\ buf'[i] = buf[i]
               \/ /\ i - Len(buf) \in 1 .. l /\ pos + (i - Len(buf)) \in DOMAIN file
                  /\ buf'[i] = file[pos + (i - Len(buf))]
    <3>1. i \in 1 .. Len(buf) + l /\ buf' = buf \o t
      BY <1>1, <2>5 DEF t
    <3>2. CASE i <= Len(buf)
      BY <2>1, <2>5, <3>1, <3>2
    <3>3. CASE i > Len(buf)
      <4> DEFINE j == i - Len(buf)
      <4>1. j \in 1 .. l /\ Len(buf) + j = i
        BY <2>1, <2>3, <3>1, <3>3
      <4>2. pos + j \in DOMAIN file
        BY <1>2, <2>1, <2>3, <4>1 DEF pos
      <4> HIDE DEF j
      <4>3. buf'[i] = file[pos + j]
        BY <2>3, <2>5, <3>1, <4>1 DEF t
      <4> QED BY <4>1, <4>2, <4>3 DEF j
    <3> QED BY <2>1, <3>1, <3>2, <3>3
  <2>7. Unread(pos)
    BY <1>1, <2>0 DEF Tailed, pos
  <2>8. ASSUME NEW j \in 1 .. l PROVE pos + j > From(pos) /\ From(pos) = pos
    <3>1. l > 0 /\ pos <= Len(file)
      BY <1>2, <2>1, <2>3 DEF pos
    <3> QED BY <1>2, <2>1, <3>1 DEF From, pos
  <2>9. ASSUME NEW i \in DOMAIN buf', i \notin DOMAIN buf \/ buf'[i] # buf[i]
        PROVE  \E p \in DOMAIN file : /\ buf'[i] = file[p] /\ Later(p)
                                      /\ p = pos + (i - Len(buf)) /\ i - Len(buf) \in 1 .. l
    BY <2>6, <2>7, <2>8, <2>9 DEF Unread
  <2>10. Joining'
    <3>1. ASSUME NEW i \in DOMAIN buf', NEW j \in DOMAIN buf', i < j
          PROVE  Before(buf'[i], buf'[j])
      <4>1. CASE j \in DOMAIN buf /\ buf'[j] = buf[j]
        <5>1. i \in DOMAIN buf
          BY <1>1, <2>1, <2>5, <3>1, <4>1 DEF t
        <5>2. buf'[i] = buf[i]
          BY <1>1, <2>1, <2>5, <5>1 DEF t
        <5> QED BY <2>0, <3>1, <4>1, <5>1, <5>2 DEF Tailed, Joining
      <4>2. CASE ~(j \in DOMAIN buf /\ buf'[j] = buf[j])
        <5>1. PICK p \in DOMAIN file : /\ buf'[j] = file[p] /\ Later(p)
                                       /\ p = pos + (j - Len(buf)) /\ j - Len(buf) \in 1 .. l
          BY <2>9, <4>2
        <5>2. CASE i \in DOMAIN buf /\ buf'[i] = buf[i]
          BY <5>1, <5>2 DEF Later
        <5>3. CASE ~(i \in DOMAIN buf /\ buf'[i] = buf[i])
          <6>1. PICK q \in DOMAIN file : /\ buf'[i] = file[q]
                                         /\ q = pos + (i - Len(buf)) /\ i - Len(buf) \in 1 .. l
            BY <2>9, <5>3
          <6>2. q < p
            <7>1. i \in Int /\ j \in Int /\ pos \in Int
              BY <1>1, <1>2, <2>1, <2>3, <2>5 DEF pos, t
            <7> QED BY <2>1, <3>1, <5>1, <6>1, <7>1
          <6> QED BY <2>0, <5>1, <6>1, <6>2 DEF Written
        <5> QED BY <5>2, <5>3
      <4> QED BY <4>1, <4>2
    <3>2. ASSUME NEW j \in DOMAIN buf'
          PROVE  /\ Behind(sent, buf'[j]) /\ (Tame => Mine(buf'[j]))
                 /\ ~Whole /\ buf'[j].line = Len(log) => ~buf'[j].end
      <4>1. CASE j \in DOMAIN buf /\ buf'[j] = buf[j]
        BY <2>0, <4>1 DEF Tailed, Joining
      <4>2. CASE ~(j \in DOMAIN buf /\ buf'[j] = buf[j])
        <5>1. PICK p \in DOMAIN file : buf'[j] = file[p] /\ Later(p)
          BY <2>9, <4>2
        <5>2. ASSUME ~Whole, file[p].line = Len(log) PROVE ~file[p].end
          <6> DEFINE f == Len(file)
          <6>1. ~file[f].end
            BY <5>2 DEF Whole, Last
          <6>2. p # f => Before(file[p], file[f])
            <7>1. f \in DOMAIN file /\ (p # f => p < f)
              BY <2>1
            <7> QED BY <2>0, <7>1 DEF Written
          <6>3. file[f].line = Len(log) /\ Len(log) \in Nat
            <7>1. file # <<>>
              BY EmptyIs
            <7> QED BY <2>0, <7>1, TypesAre DEF Written
          <6> QED BY <5>2, <6>1, <6>2, <6>3 DEF Before
        <5> QED BY <5>1, <5>2 DEF Later
      <4> QED BY <4>1, <4>2
    <3> QED BY <1>1, <3>1, <3>2 DEF Joining, Behind, Mine, Whole, Last, Tame
  <2>11. Remembers(seen, sent)'
    BY <1>1, <2>0, RemembersFrame DEF Tailed
  <2>12. Unread(offset)'
    <3> SUFFICES ASSUME NEW p \in DOMAIN file, p > From(offset)' PROVE Later(p)'
      BY <1>1 DEF Unread
    <3>1. p > From(pos) /\ (l > 0 => p > pos + l)
      <4>1. offset' = pos + l /\ Len(file') = Len(file)
        BY <1>1 DEF pos, l
      <4>2. From(offset)' = IF Len(file) < pos + l THEN 0 ELSE pos + l
        BY <4>1 DEF From
      <4>3. l = 0 => From(offset)' = From(pos)
        BY <1>2, <2>1, <4>2 DEF From, pos
      <4>4. l > 0 => From(offset)' = pos + l /\ From(pos) = pos
        BY <1>2, <2>1, <2>3, <4>2 DEF From, pos
      <4> QED BY <1>2, <2>1, <2>3, <4>3, <4>4 DEF pos
    <3>2. Later(p)
      BY <2>7, <3>1 DEF Unread
    <3>3. ASSUME NEW i \in DOMAIN buf' PROVE Before(buf'[i], file[p])
      <4>1. CASE i \in DOMAIN buf /\ buf'[i] = buf[i]
        BY <3>2, <4>1 DEF Later
      <4>2. CASE ~(i \in DOMAIN buf /\ buf'[i] = buf[i])
        <5>1. PICK q \in DOMAIN file : /\ buf'[i] = file[q]
                                       /\ q = pos + (i - Len(buf)) /\ i - Len(buf) \in 1 .. l
          BY <2>9, <4>2
        <5>2. q < p
          BY <1>2, <2>1, <2>3, <3>1, <5>1 DEF pos
        <5> QED BY <2>0, <5>1, <5>2 DEF Written
      <4> QED BY <4>1, <4>2
    <3> QED BY <1>1, <3>2, <3>3 DEF Later, Behind, Mine, Tame
  <2> QED BY <1>2, <2>10, <2>11, <2>12 DEF Tailed
<1> QED BY <1>1, <1>3, <1>4, <1>5 DEF Orderly

(* What is taken up to piece i: the line that is joined is the end of it,  *)
(* and everything behind that line, in the buffer and in the file, comes   *)
(* after the rows.                                                         *)
OnceAt(i) ==
    LET a == Taken[i] IN
    /\ Len(a.cur) <= i /\ \A j \in DOMAIN a.cur : a.cur[j] = buf[i - Len(a.cur) + j]
    /\ Remembers(a.seen, a.sent) /\ InOrder(a.sent) /\ Apart(a.sent) /\ (Tame => Ours(a.sent))
    /\ \A j \in DOMAIN buf : j > i - Len(a.cur) => Behind(a.sent, buf[j])
    /\ \A p \in DOMAIN file : Later(p) => Behind(a.sent, file[p])

LEMMA OnceStep ==
  ASSUME Types, path, Joining, NEW i \in 0 .. Len(buf) - 1, OnceAt(i)
  PROVE  OnceAt(i + 1)
<1> DEFINE p == buf[i + 1]
           a == Taken[i]
           n == Taken[i + 1]
           s == Append(a.cur, p)
           c == Len(a.cur)
<1>1. /\ i \in Nat /\ i + 1 \in 1 .. Len(buf) /\ i \in 0 .. Len(buf) /\ (i + 1) - 1 = i
      /\ buf \in Seq(Piece) /\ i + 1 \in DOMAIN buf /\ DOMAIN buf = 1 .. Len(buf) /\ Len(buf) \in Nat
  BY TypesAre
<1>2. p \in Piece
  BY <1>1
<1>3. Good(a) /\ n = TakePiece(a, p)
  BY <1>1, TakenGood, TakenIs
<1>4. a \in Acc /\ a.cur \in Seq(Piece) /\ c \in Nat /\ DOMAIN a.cur = 1 .. c
  <2>1. a.cur \in Seq(Piece)
    BY <1>3, GoodIs
  <2> QED BY <1>3, <2>1 DEF Good
<1>5. /\ c <= i /\ \A j \in DOMAIN a.cur : a.cur[j] = buf[i - c + j]
      /\ Remembers(a.seen, a.sent) /\ InOrder(a.sent) /\ Apart(a.sent) /\ (Tame => Ours(a.sent))
      /\ \A j \in DOMAIN buf : j > i - c => Behind(a.sent, buf[j])
      /\ \A q \in DOMAIN file : Later(q) => Behind(a.sent, file[q])
  BY DEF OnceAt
<1>6. /\ ~p.end => n = [cur |-> s, seen |-> a.seen, sent |-> a.sent]
      /\ p.end /\ (~Parses(s) \/ Dropped(a, s[1].line)) =>
               n = [cur |-> <<>>, seen |-> a.seen, sent |-> a.sent]
      /\ p.end /\ Parses(s) /\ ~Dropped(a, s[1].line) =>
               n = [cur |-> <<>>, seen |-> Evicts(Append(a.seen, log[s[1].line].shot)),
                    sent |-> Append(a.sent, [line |-> s[1].line, start |-> starts])]
  BY <1>2, <1>3, <1>4, PieceIs DEF TakesEvents
<1>7. /\ s \in Seq(Piece) /\ Len(s) = c + 1 /\ DOMAIN s = 1 .. c + 1 /\ s[c + 1] = p
      /\ \A j \in DOMAIN a.cur : s[j] = a.cur[j]
  <2> DEFINE u == a.cur
  <2>1. u \in Seq(Piece) /\ c = Len(u) /\ s = Append(u, p)
    BY <1>4
  <2> HIDE DEF u, p, s, c, a
  <2>2. /\ s \in Seq(Piece) /\ Len(s) = c + 1 /\ DOMAIN s = 1 .. c + 1 /\ s[c + 1] = p
        /\ \A j \in DOMAIN u : s[j] = u[j]
    BY <1>2, <2>1, AppendIs
  <2> QED BY <2>2 DEF u
<1>8. OnceAt(i + 1) <=>
        /\ Len(n.cur) <= i + 1 /\ \A j \in DOMAIN n.cur : n.cur[j] = buf[(i + 1) - Len(n.cur) + j]
        /\ Remembers(n.seen, n.sent) /\ InOrder(n.sent) /\ Apart(n.sent) /\ (Tame => Ours(n.sent))
        /\ \A j \in DOMAIN buf : j > (i + 1) - Len(n.cur) => Behind(n.sent, buf[j])
        /\ \A q \in DOMAIN file : Later(q) => Behind(n.sent, file[q])
  BY DEF OnceAt
<1> HIDE DEF s, c, n, a, p
<1>9. CASE ~p.end
  <2>1. n.cur = s /\ n.seen = a.seen /\ n.sent = a.sent
    BY <1>6, <1>9
  <2>2. \A j \in DOMAIN s : s[j] = buf[(i + 1) - (c + 1) + j]
    <3> SUFFICES ASSUME NEW j \in DOMAIN s PROVE s[j] = buf[(i + 1) - (c + 1) + j]
      OBVIOUS
    <3>1. CASE j \in DOMAIN a.cur
      <4>1. (i + 1) - (c + 1) + j = i - c + j
        BY <1>1, <1>4, <3>1
      <4> QED BY <1>5, <1>7, <3>1, <4>1
    <3>2. CASE j = c + 1
      <4>1. (i + 1) - (c + 1) + j = i + 1
        BY <1>1, <1>4, <3>2
      <4> QED BY <1>7, <3>2, <4>1 DEF p
    <3> QED BY <1>4, <1>7, <3>1, <3>2
  <2>3. (i + 1) - (c + 1) = i - c /\ c + 1 <= i + 1
    BY <1>1, <1>4, <1>5
  <2> QED BY <1>5, <1>7, <1>8, <2>1, <2>2, <2>3
<1>10. CASE p.end /\ (~Parses(s) \/ Dropped(a, s[1].line))
  <2>1. n.cur = <<>> /\ n.seen = a.seen /\ n.sent = a.sent
    BY <1>6, <1>10
  <2>2. Len(n.cur) = 0 /\ DOMAIN n.cur = {}
    BY <2>1, EmptyIs
  <2>3. \A j \in DOMAIN buf : j > (i + 1) - 0 => j > i - c
    BY <1>1, <1>4
  <2> QED BY <1>1, <1>5, <1>8, <2>1, <2>2, <2>3
<1>11. CASE p.end /\ Parses(s) /\ ~Dropped(a, s[1].line)
  <2> DEFINE b == buf[i]
             k == b.line
             out == Append(a.sent, [line |-> k, start |-> starts])
             mem == Evicts(Append(a.seen, log[k].shot))
  <2>1. c = 1 /\ s[1] = b /\ i \in DOMAIN buf
    <3>1. c = 1
      BY <1>4, <1>7, <1>11 DEF Parses
    <3>2. 1 \in DOMAIN a.cur /\ i - c + 1 = i /\ i \in 1 .. Len(buf)
      BY <1>1, <1>4, <1>5, <3>1
    <3> QED BY <1>1, <1>5, <1>7, <3>1, <3>2
  <2>2. ~b.end /\ k \in DOMAIN log
    BY <1>11, <2>1, TypesAre DEF Parses
  <2>3. n.cur = <<>> /\ n.seen = mem /\ n.sent = out
    BY <1>6, <1>11, <2>1
  <2>4. Len(n.cur) = 0 /\ DOMAIN n.cur = {}
    BY <2>3, EmptyIs
  <2>5. \A j \in DOMAIN a.sent : a.sent[j].start = starts => a.sent[j].line < k
    <3>1. i > i - c
      BY <1>1, <2>1
    <3> QED BY <1>5, <2>1, <2>2, <3>1 DEF Behind
  <2>6. ~Dropped(a, k)
    BY <1>11, <2>1
  <2>7. Tame => log[k].by = starts
    BY <2>1, <2>2 DEF Joining, Mine
  <2> HIDE DEF k, out, mem
  <2>8. Remembers(mem, out) /\ InOrder(out) /\ Apart(out)
    BY <1>3, <1>5, <2>2, <2>5, <2>6, GiveOnce DEF mem, out
  <2> DEFINE m == Len(a.sent)
  <2>9. /\ m \in Nat /\ DOMAIN a.sent = 1 .. m /\ DOMAIN out = 1 .. m + 1
        /\ out[m + 1].line = k /\ out[m + 1].start = starts
        /\ \A j \in DOMAIN a.sent : out[j] = a.sent[j]
    BY <1>3, <2>2, GivenIs DEF out
  <2> HIDE DEF m
  <2>10. ASSUME NEW j \in DOMAIN out
         PROVE  \/ j \in DOMAIN a.sent /\ out[j] = a.sent[j]
                \/ out[j].line = k /\ out[j].start = starts
    BY <2>9
  <2>11. Tame => Ours(out)
    BY <1>5, <2>7, <2>10 DEF Ours
  <2>12. ASSUME NEW q, Before(b, q), Behind(a.sent, q) PROVE Behind(out, q)
    BY <2>2, <2>10, <2>12 DEF Behind, Before, k
  <2>13. ASSUME NEW j \in DOMAIN buf, j > i + 1 PROVE Behind(out, buf[j])
    <3>1. i < j /\ j > i - c
      BY <1>1, <1>4, <2>13
    <3>2. Before(b, buf[j])
      BY <2>1, <3>1 DEF Joining
    <3> QED BY <1>5, <2>12, <3>1, <3>2
  <2>14. ASSUME NEW q \in DOMAIN file, Later(q) PROVE Behind(out, file[q])
    <3>1. Before(b, file[q])
      BY <2>1, <2>14 DEF Later
    <3> QED BY <1>5, <2>12, <2>14, <3>1
  <2>15. (i + 1) - 0 = i + 1 /\ 0 <= i + 1
    BY <1>1
  <2> QED BY <1>8, <2>3, <2>4, <2>8, <2>11, <2>13, <2>14, <2>15
<1> QED
  BY <1>9, <1>10, <1>11

LEMMA OnceFirst ==
  ASSUME Types, Joining, Remembers(seen, sent), Rows
  PROVE  OnceAt(0)
<1>1. Taken[0] = [cur |-> <<>>, seen |-> seen, sent |-> sent] /\ Len(<<>>) = 0 /\ DOMAIN <<>> = {}
  BY TypesAre, TakenIs, EmptyIs
<1>2. \A j \in DOMAIN buf : Behind(sent, buf[j])
  BY DEF Joining
<1>3. \A p \in DOMAIN file : Later(p) => Behind(sent, file[p])
  BY DEF Later
<1> QED BY <1>1, <1>2, <1>3 DEF OnceAt, Rows

LEMMA OnceAll ==
  ASSUME Types, path, Joining, Remembers(seen, sent), Rows
  PROVE  OnceAt(Len(buf))
<1> DEFINE S == {i \in 0 .. Len(buf) : OnceAt(i)}
<1>0. Len(buf) \in Nat
  BY TypesAre
<1>1. 0 \in S
  BY <1>0, OnceFirst
<1>2. ASSUME NEW i \in 0 .. Len(buf) - 1, i \in S PROVE i + 1 \in S
  <2>1. OnceAt(i + 1)
    BY <1>2, OnceStep
  <2> QED BY <1>0, <2>1
<1>3. 0 .. Len(buf) \subseteq S
  <2> HIDE DEF S
  <2> QED BY <1>0, <1>1, <1>2, UpTo
<1> QED BY <1>0, <1>3

LEMMA ClosesOrderly == ASSUME Alone, Orderly, ReadCloses, Types' PROVE Orderly'
<1> DEFINE a == Taken[Len(buf)]
           L == Len(buf)
           c == Len(a.cur)
<1>1. /\ UNCHANGED <<log, file, path, start, starts, offset, timer>> /\ read.pc = "close"
      /\ read'.pc = "no" /\ buf' = a.cur /\ seen' = a.seen /\ sent' = a.sent
  BY DEF ReadCloses, Rest, recorder, session, NotReading
<1>2. Written' /\ Types
  BY <1>1, WrittenFrame DEF Orderly
<1>3. CASE ~path
  <2>1. sent' = sent
    BY <1>1, <1>2, <1>3, TakenGood, TypesAre DEF TakesEvents, Alone
  <2>2. Rows' /\ Starting'
    BY <1>1, <2>1, RowsFrame, StartingFrame DEF Orderly
  <2> QED BY <1>1, <1>2, <1>3, <2>2 DEF Orderly
<1>4. CASE path
  <2>0. Tailed /\ Rows
    BY <1>4 DEF Orderly
  <2>1. OnceAt(L)
    BY <1>2, <1>4, <2>0, OnceAll DEF Tailed
  <2>2. /\ c <= L /\ \A j \in DOMAIN a.cur : a.cur[j] = buf[L - c + j]
        /\ Remembers(a.seen, a.sent) /\ InOrder(a.sent) /\ Apart(a.sent) /\ (Tame => Ours(a.sent))
        /\ \A j \in DOMAIN buf : j > L - c => Behind(a.sent, buf[j])
        /\ \A p \in DOMAIN file : Later(p) => Behind(a.sent, file[p])
    BY <2>1 DEF OnceAt
  <2>3. /\ L \in Nat /\ DOMAIN buf = 1 .. L /\ c \in Nat /\ DOMAIN a.cur = 1 .. c
    <3>1. L \in Nat /\ DOMAIN buf = 1 .. L
      BY <1>2, TypesAre
    <3>2. a.cur \in Seq(Piece)
      <4>1. Good(a)
        BY <1>2, <3>1, TakenGood
      <4> QED BY <1>2, <4>1, GoodIs
    <3> QED BY <3>1, <3>2
  <2> HIDE DEF a, L, c
  <2>4. ASSUME NEW j \in DOMAIN buf'
        PROVE  /\ L - c + j \in DOMAIN buf /\ buf'[j] = buf[L - c + j] /\ L - c + j > L - c
               /\ j \in Int
    <3>1. j \in 1 .. c
      BY <1>1, <2>3
    <3> QED BY <1>1, <2>2, <2>3, <3>1
  <2>5. Joining'
    <3>1. ASSUME NEW i \in DOMAIN buf', NEW j \in DOMAIN buf', i < j
          PROVE  Before(buf'[i], buf'[j])
      <4>1. L - c + i < L - c + j
        BY <2>3, <2>4, <3>1
      <4> QED BY <2>0, <2>4, <4>1 DEF Tailed, Joining
    <3>2. ASSUME NEW j \in DOMAIN buf'
          PROVE  /\ Behind(sent', buf'[j]) /\ (Tame => Mine(buf'[j]))
                 /\ ~Whole /\ buf'[j].line = Len(log) => ~buf'[j].end
      <4>1. Behind(sent', buf'[j])
        BY <1>1, <2>2, <2>4
      <4> QED BY <2>0, <2>4, <4>1 DEF Tailed, Joining
    <3> QED BY <1>1, <3>1, <3>2 DEF Joining, Behind, Mine, Whole, Last, Tame
  <2>6. Unread(offset)'
    <3> SUFFICES ASSUME NEW p \in DOMAIN file, p > From(offset)' PROVE Later(p)'
      BY <1>1 DEF Unread
    <3>1. Later(p)
      BY <1>1, <2>0 DEF Tailed, Unread, From
    <3>2. \A i \in DOMAIN buf' : Before(buf'[i], file[p])
      BY <2>4, <3>1 DEF Later
    <3>3. Behind(sent', file[p])
      BY <1>1, <2>2, <3>1
    <3> QED BY <1>1, <3>1, <3>2, <3>3 DEF Later, Behind, Mine, Tame
  <2>7. Tailed'
    BY <1>1, <2>2, <2>5, <2>6 DEF Tailed, Remembers
  <2>8. Rows'
    BY <1>1, <2>2 DEF Rows, InOrder, Apart, Ours, Tame
  <2>9. Starting'
    BY <1>1, <1>4 DEF Orderly, Starting
  <2> QED BY <1>2, <2>7, <2>8, <2>9 DEF Orderly
<1> QED BY <1>3, <1>4

(* A new piece comes after all there is, and a new line belongs to the     *)
(* start that is on its way or under which the tail runs.                  *)
LEMMA GrownOrderly ==
  ASSUME Orderly, Grown, Written', Types',
         \/ /\ NewPiece.line = Len(log) + 1 /\ ~NewPiece.end /\ Len(log') = Len(log) + 1
            /\ path \/ start.pc # "no" => log'[Len(log) + 1].by = starts
         \/ NewPiece.line = Len(log) /\ NewPiece.end /\ ~Whole /\ log' = log
  PROVE  Orderly'
<1> DEFINE x == NewPiece
           f == Len(file)
<1>0. Types /\ Written /\ Starting /\ Rows /\ (path => Tailed)
  BY DEF Orderly
<1>1. /\ DOMAIN file = 1 .. f /\ f \in Nat /\ DOMAIN log = 1 .. Len(log) /\ Len(log) \in Nat
      /\ \A i \in DOMAIN file : file[i].line \in DOMAIN log
      /\ \A i \in DOMAIN buf : buf[i].line \in DOMAIN log
      /\ \A i \in DOMAIN sent : sent[i].line \in DOMAIN log
      /\ offset \in Nat
  BY <1>0, TypesAre
<1>2. /\ UNCHANGED <<path, offset, buf, seen, sent, starts, start, read>>
      /\ \A k \in DOMAIN log : log'[k] = log[k]
      /\ \A p \in DOMAIN file : file'[p] = file[p]
      /\ DOMAIN file' = 1 .. f + 1 /\ Len(file') = f + 1 /\ file'[f + 1] = x
  BY DEF Grown, NewPiece
<1>3. path \/ start.pc # "no" => (~x.end => log'[x.line].by = starts)
  OBVIOUS
<1>4. \A k \in DOMAIN log : k < x.line \/ (k = x.line /\ x.end /\ ~Whole /\ x.line = Len(log))
  BY <1>1
<1>5. Len(log') \in Nat /\ (~x.end => x.line = Len(log') /\ Len(log') > Len(log))
  BY <1>1
<1>6. Whole' <=> x.end
  <2>1. file' # <<>>
    BY <1>1, <1>2, EmptyIs
  <2> QED BY <1>2, <2>1 DEF Whole, Last
<1> HIDE DEF x, f
<1>7. ASSUME NEW at \in Nat, NEW p \in DOMAIN file', p > From(at)'
      PROVE  p = f + 1 \/ (p \in DOMAIN file /\ p > From(at))
  <2>1. p \in DOMAIN file => p > From(at)
    <3>1. From(at)' = IF f + 1 < at THEN 0 ELSE at
      BY <1>2 DEF From
    <3>2. From(at) = IF f < at THEN 0 ELSE at
      BY DEF From, f
    <3> QED BY <1>1, <1>7, <3>1, <3>2
  <2> QED BY <1>1, <1>2, <2>1
<1>8. Rows'
  BY <1>0, <1>1, <1>2 DEF Rows, InOrder, Apart, Ours, Tame
<1>9. Starting'
  <2> SUFFICES ASSUME start.pc # "no" PROVE Starting'
    BY <1>2 DEF Starting
  <2>1. /\ ~path /\ \A i \in DOMAIN sent : sent[i].start < starts
        /\ Tame => read.pc = "no"
    BY <1>0 DEF Starting
  <2>2. start.size \in Nat
    BY <1>0, TypesMeans DEF AllOf, OfRest, StartState
  <2>3. ASSUME Tame, start.pc = "set", NEW p \in DOMAIN file', p > From(start.size)'
        PROVE  ~file'[p].end => log'[file'[p].line].by = starts
    <3>1. From(start.size)' = IF Len(file') < start.size THEN 0 ELSE start.size
      BY <1>2 DEF From
    <3>2. p = f + 1 \/ (p \in DOMAIN file /\ p > From(start.size))
      BY <1>7, <2>2, <2>3, <3>1 DEF From
    <3>3. CASE p = f + 1
      BY <1>2, <1>3, <3>3
    <3>4. CASE p \in DOMAIN file /\ p > From(start.size)
      <4>1. Mine(file[p])
        BY <1>0, <2>3, <3>4 DEF Starting
      <4> QED BY <1>1, <1>2, <3>4, <4>1 DEF Mine
    <3> QED BY <3>2, <3>3, <3>4
  <2> QED BY <1>2, <2>1, <2>3 DEF Starting, Tame, Mine
<1>10. ASSUME path PROVE Tailed'
  <2>0. Tailed
    BY <1>0, <1>10
  <2>1. ASSUME NEW j \in DOMAIN buf PROVE Before(buf[j], x)
    <3>1. ~Whole /\ buf[j].line = Len(log) => ~buf[j].end
      BY <2>0 DEF Tailed, Joining
    <3> QED BY <1>1, <1>4, <3>1 DEF Before
  <2>2. Joining'
    <3>1. \A j \in DOMAIN buf : Tame => (~buf[j].end => log'[buf[j].line].by = starts)
      BY <1>1, <1>2, <2>0 DEF Tailed, Joining, Mine
    <3>2. \A j \in DOMAIN buf : ~Whole' => buf[j].line # Len(log')
      BY <1>1, <1>5, <1>6
    <3>3. \A i, j \in DOMAIN buf : i < j => Before(buf[i], buf[j])
      BY <2>0 DEF Tailed, Joining
    <3>4. \A j \in DOMAIN buf : Behind(sent, buf[j])
      BY <2>0 DEF Tailed, Joining
    <3> QED BY <1>2, <3>1, <3>2, <3>3, <3>4 DEF Joining, Behind, Mine, Before, Tame
  <2>3. Remembers(seen, sent)'
    <3>1. \A i \in DOMAIN seen : Len(sent) - Len(seen) + i \in DOMAIN sent
      <4>1. Len(seen) <= Len(sent)
        BY <2>0 DEF Tailed, Remembers
      <4>2. /\ Len(seen) \in Nat /\ DOMAIN seen = 1 .. Len(seen)
            /\ Len(sent) \in Nat /\ DOMAIN sent = 1 .. Len(sent)
        <5>1. seen \in Seq(Line)
          BY <1>0, TypesAre
        <5> QED BY <1>0, <5>1, TypesAre
      <4> QED BY <4>1, <4>2
    <3> QED BY <1>1, <1>2, <2>0, <3>1 DEF Tailed, Remembers
  <2>4. ASSUME NEW at \in Nat, Unread(at), NEW p \in DOMAIN file', p > From(at)'
        PROVE  Later(p)'
    <3>1. CASE p = f + 1
      <4>1. ~x.end => \A i \in DOMAIN sent : sent[i].line < x.line
        BY <1>1, <1>4
      <4>2. file'[p] = x
        BY <1>2, <3>1
      <4> QED BY <1>2, <1>3, <1>10, <2>1, <4>1, <4>2 DEF Later, Behind, Mine
    <3>2. CASE p \in DOMAIN file /\ p > From(at)
      <4>1. Later(p)
        BY <2>4, <3>2 DEF Unread
      <4> QED BY <1>1, <1>2, <3>2, <4>1 DEF Later, Behind, Mine, Before, Tame
    <3> QED BY <1>7, <2>4, <3>1, <3>2
  <2>5. Unread(offset)'
    <3>1. Unread(offset) /\ offset' = offset
      BY <1>2, <2>0 DEF Tailed
    <3> QED BY <1>1, <2>4, <3>1 DEF Unread, From
  <2>6. (read.pc = "read" => Unread(read.pos))'
    <3> SUFFICES ASSUME read.pc = "read" PROVE Unread(read.pos)'
      BY <1>2
    <3>1. Unread(read.pos) /\ read' = read
      BY <1>2, <2>0 DEF Tailed
    <3>2. read.pos \in Nat
      BY <1>0, TypesMeans DEF AllOf, OfRest, ReadState
    <3> QED BY <2>4, <3>1, <3>2 DEF Unread, From
  <2> QED BY <2>2, <2>3, <2>5, <2>6 DEF Tailed
<1> QED BY <1>2, <1>8, <1>9, <1>10 DEF Orderly

LEMMA BeginOrderly ==
  ASSUME Orderly, Types', NEW shot \in Line, NEW again \in BOOLEAN, NEW reread \in BOOLEAN,
         BeginLine(shot, again, reread)
  PROVE  Orderly'
<1>1. Types /\ Written
  BY DEF Orderly
<1> QED BY <1>1, BeginGrows, GrownOrderly

LEMMA EndOrderly == ASSUME Orderly, EndLine, Types' PROVE Orderly'
<1>1. Types /\ Written
  BY DEF Orderly
<1> QED BY <1>1, EndGrows, GrownOrderly

LEMMA RotateOrderly == ASSUME Orderly, Rotate, Types' PROVE Orderly'
<1>1. /\ UNCHANGED <<log, path, start, starts, offset, buf, seen, sent, read>> /\ file' = <<>>
      /\ Whole
  BY DEF Rotate, session, tail
<1>2. DOMAIN file' = {} /\ Whole'
  BY <1>1, EmptyIs DEF Whole
<1>3. Written' /\ Rows'
  BY <1>1, RotateWritten, RowsFrame DEF Orderly
<1>4. Starting'
  BY <1>1, <1>2 DEF Orderly, Starting, Tame
<1>5. ASSUME path PROVE Tailed'
  <2>0. Tailed
    BY <1>5 DEF Orderly
  <2>1. Joining'
    BY <1>1, <1>2, <2>0 DEF Tailed, Joining, Behind, Mine, Before, Tame
  <2>2. Remembers(seen, sent)'
    BY <1>1, <2>0, RemembersFrame DEF Tailed
  <2> QED BY <1>2, <2>1, <2>2 DEF Tailed, Unread
<1> QED BY <1>1, <1>3, <1>4, <1>5 DEF Orderly

LEMMA StopOrderly == ASSUME Orderly, Stop, Types' PROVE Orderly'
<1>1. /\ UNCHANGED <<log, file, start, starts, sent, read>> /\ path /\ ~path'
  BY DEF Stop, Stopped, recorder
<1>2. Written' /\ Rows'
  BY <1>1, WrittenFrame, RowsFrame DEF Orderly
<1>3. Starting'
  BY <1>1 DEF Orderly, Starting
<1> QED BY <1>1, <1>2, <1>3 DEF Orderly

(* What there is belongs to earlier starts.                                *)
LEMMA ClickOrderly == ASSUME Orderly, StartClick, Types' PROVE Orderly'
<1>1. /\ UNCHANGED <<log, file, sent, read>> /\ ~path' /\ start'.pc = "stat"
      /\ starts' = starts + 1 /\ (Tame => read.pc = "no")
  BY DEF StartClick, Stopped, recorder, Tame
<1>2. Written' /\ Rows'
  BY <1>1, WrittenFrame, RowsFrame DEF Orderly
<1>3. Starting'
  <2>1. starts \in Nat /\ \A i \in DOMAIN sent : sent[i].start <= starts /\ sent[i].start \in Int
    <3>1. Types
      BY DEF Orderly
    <3> QED BY <3>1, TypesAre
  <2>2. \A i \in DOMAIN sent : sent[i].start < starts'
    BY <1>1, <2>1
  <2> QED BY <1>1, <2>2 DEF Starting, Tame
<1> QED BY <1>1, <1>2, <1>3 DEF Orderly

(* Nothing stands behind the end of the file.                              *)
LEMMA LooksOrderly ==
  ASSUME Orderly, Types', NEW ok \in BOOLEAN, StartStats(ok) PROVE Orderly'
<1>1. /\ UNCHANGED <<log, file, path, starts, sent, read>> /\ start.pc = "stat"
      /\ start'.pc = "no" \/ (start'.pc = "set" /\ start'.size = Len(file))
  BY DEF StartStats, recorder, NotStarting
<1>2. Written' /\ Rows'
  BY <1>1, WrittenFrame, RowsFrame DEF Orderly
<1>3. DOMAIN file = 1 .. Len(file) /\ Len(file) \in Nat
  BY TypesAre DEF Orderly
<1>4. start'.pc = "set" => \A p \in DOMAIN file : ~(p > From(start.size)')
  <2>1. start'.pc = "set" => From(start.size)' = Len(file)
    BY <1>1, <1>3 DEF From
  <2> QED BY <1>3, <2>1
<1>5. ~path /\ (\A i \in DOMAIN sent : sent[i].start < starts) /\ (Tame => read.pc = "no")
  BY <1>1 DEF Orderly, Starting
<1>6. Starting'
  BY <1>1, <1>4, <1>5 DEF Starting, Tame
<1> QED BY <1>1, <1>2, <1>5, <1>6 DEF Orderly

(* The tail is placed behind what was there when its start looked; a read  *)
(* that is still under way may be anywhere, for nothing is given yet.      *)
LEMMA SetsOrderly == ASSUME Orderly, StartSets, Types' PROVE Orderly'
<1>0. Types /\ Starting
  BY DEF Orderly
<1>1. /\ UNCHANGED <<log, file, starts, sent, read>> /\ start.pc = "set" /\ start'.pc = "no"
      /\ offset' = start.size /\ buf' = <<>> /\ seen' = <<>>
  BY DEF StartSets, FromItsEnd, recorder, NotStarting
<1>2. Written' /\ Rows'
  BY <1>1, WrittenFrame, RowsFrame DEF Orderly
<1>3. Starting'
  BY <1>1 DEF Starting
<1>4. /\ \A i \in DOMAIN sent : sent[i].start < starts
      /\ Tame => /\ read.pc = "no"
                 /\ \A p \in DOMAIN file : p > From(start.size) => Mine(file[p])
  BY <1>0, <1>1 DEF Starting
<1>5. \A i \in DOMAIN sent : sent[i].start # starts
  <2>1. starts \in Nat
    BY <1>0, TypesAre
  <2> QED BY <1>4, <2>1
<1>6. Joining'
  BY <1>1, EmptyIs DEF Joining
<1>7. Remembers(seen, sent)'
  <2>1. Len(sent) \in Nat /\ DOMAIN sent = 1 .. Len(sent)
    BY <1>0, TypesAre
  <2>2. 0 < Len(sent) => sent[Len(sent) - 0].start < starts
    BY <1>4, <2>1
  <2>3. Remembers(<<>>, sent)
    BY <2>1, <2>2, EmptyIs DEF Remembers
  <2> QED BY <1>1, <2>3 DEF Remembers
<1>8. ASSUME NEW p \in DOMAIN file, Tame => Mine(file[p]) PROVE Later(p)'
  BY <1>1, <1>5, <1>8, EmptyIs DEF Later, Behind, Mine, Tame
<1>9. Unread(offset)'
  BY <1>1, <1>4, <1>8 DEF Unread, From
<1>10. (read.pc = "read" => Unread(read.pos))'
  BY <1>1, <1>4, <1>8 DEF Unread
<1> QED BY <1>2, <1>3, <1>6, <1>7, <1>9, <1>10 DEF Orderly, Tailed

LEMMA StutterOrderly == ASSUME Orderly, UNCHANGED vars, Types' PROVE Orderly'
<1>1. UNCHANGED <<log, file, path, start, starts, sent, seen, offset, buf, read>>
  BY DEF vars
<1> QED BY <1>1, TimedOrderly

LEMMA StepOrderly == Alone /\ Orderly /\ [Next]_vars => Orderly'
<1> SUFFICES ASSUME Alone, Orderly, [Next]_vars PROVE Orderly'
  OBVIOUS
<1>0. Types'
  BY StepTypes DEF Orderly
<1>1. CASE \E shot \in Line, again, reread \in BOOLEAN : BeginLine(shot, again, reread)
  BY <1>0, <1>1, BeginOrderly
<1>2. CASE EndLine
  BY <1>0, <1>2, EndOrderly
<1>3. CASE Rotate
  BY <1>0, <1>3, RotateOrderly
<1>4. CASE TimerFires
  BY <1>0, <1>4, FiresOrderly
<1>5. CASE ReadStats
  BY <1>0, <1>5, StatsOrderly
<1>6. CASE ReadOpens
  BY <1>0, <1>6, OpensOrderly
<1>7. CASE ReadReads
  BY <1>0, <1>7, ReadsOrderly
<1>8. CASE ReadCloses
  BY <1>0, <1>8, ClosesOrderly
<1>9. CASE ReadFails
  BY <1>0, <1>9, FailsOrderly
<1>10. CASE Stop
  BY <1>0, <1>10, StopOrderly
<1>11. CASE StartClick
  BY <1>0, <1>11, ClickOrderly
<1>12. CASE \E ok \in BOOLEAN : StartStats(ok)
  BY <1>0, <1>12, LooksOrderly
<1>13. CASE StartSets
  BY <1>0, <1>13, SetsOrderly
<1>14. CASE UNCHANGED vars
  BY <1>0, <1>14, StutterOrderly
<1> QED
  BY <1>1, <1>2, <1>3, <1>4, <1>5, <1>6, <1>7, <1>8, <1>9, <1>10, <1>11, <1>12, <1>13, <1>14
     DEF Next, Recorder, Read, User

(* One trigger is one row: in one session no line is taken twice, and no   *)
(* repetition of a line before MaxSeen other shots, however the log is     *)
(* rotated and read again, reads fail or overlap stops and starts, if the  *)
(* window watches no other source.                                         *)
THEOREM LogTailOnceEach ==
  ASSUME "others" \notin Habits
  PROVE  Spec => []OnceEach
<1>1. Orderly => OnceEach
  BY RowsMean
<1>2. Orderly /\ [Next]_vars => Orderly'
  BY StepOrderly DEF Alone
<1> QED BY <1>1, <1>2, InitOrderly, PTL DEF Spec

(* What was logged before a start, or for another, gets no row under it,   *)
(* however the log is rotated, if the source is not started anew while a   *)
(* read is under way and the window watches no other source.               *)
THEOREM LogTailNoHistory ==
  ASSUME "hasty" \notin Habits, "others" \notin Habits
  PROVE  Spec => []NoHistory
<1>1. Orderly => NoHistory
  BY RowsMean DEF Tame
<1>2. Orderly /\ [Next]_vars => Orderly'
  BY StepOrderly DEF Alone
<1> QED BY <1>1, <1>2, InitOrderly, PTL DEF Spec

-----------------------------------------------------------------------------
(* No shot passed over.                                                    *)

Calm == Habits \subseteq {"slow"}

(* Lines of this start that ask for a row have it, or stand in the file    *)
(* behind what is taken.                                                   *)
Pending(from, k) == \E p \in DOMAIN file : p > from /\ file[p].line = k /\ ~file[p].end
Given(out, k) == \E i \in DOMAIN out : out[i].line = k
Complete(from, out) ==
    \A k \in DOMAIN log :
        Fresh(k) /\ log[k].live /\ log[k].by = starts => Given(out, k) \/ Pending(from, k)

NoneSkipped(out) ==
    \A i \in DOMAIN out, k \in DOMAIN log :
        /\ Fresh(k) /\ k < out[i].line
        /\ log[k].live /\ log[k].by = out[i].start
        => \E j \in 1 .. i : out[j].line = k

(* The buffer is the part of the file before the offset, from the first    *)
(* piece that is not taken yet.                                            *)
Window(at, b) ==
    /\ at <= Len(file) /\ Len(b) <= at
    /\ \A i \in DOMAIN b : b[i] = file[at - Len(b) + i]

(* A rotation the tail has still to notice, before the recorder goes on *)
Unnoticed == file = <<>> /\ buf = <<>> /\ read.pc \in {"no", "stat"} /\ ~Quiet

(* A read goes on from the offset, to a size the file has. *)
Reading ==
    /\ read.pc \in {"open", "read"} => offset <= read.size /\ read.size <= Len(file)
    /\ read.pc = "read" => read.pos = offset

Placed == Unnoticed \/ (Window(offset, buf) /\ Reading)

(* A start under way reads nothing, and no line is live under it yet. *)
Looking ==
    /\ start.pc # "no" =>
          read.pc = "no" /\ \A k \in DOMAIN log : log[k].by = starts => ~log[k].live
    /\ start.pc = "set" => start.size <= Len(file)

Ongoing == Complete(offset - Len(buf), sent)

Full == Orderly /\ Looking /\ (path => Placed /\ Ongoing) /\ NoneSkipped(sent)

-----------------------------------------------------------------------------
(* What the taking of a buffer keeps                                       *)

(* The tail moves on over pieces that need no row or have got one. *)
LEMMA AdvanceComplete ==
  ASSUME Types, NEW from \in Int, NEW to \in Int, from <= to, NEW out, Complete(from, out),
         \A p \in DOMAIN file : from < p /\ p <= to /\ ~file[p].end =>
                                   ~Fresh(file[p].line) \/ Given(out, file[p].line)
  PROVE  Complete(to, out)
<1>0. DOMAIN file \subseteq Int
  BY TypesAre
<1> SUFFICES ASSUME NEW k \in DOMAIN log, Fresh(k), log[k].live, log[k].by = starts,
                    ~Given(out, k)
             PROVE  Pending(to, k)
  BY DEF Complete
<1>1. PICK p \in DOMAIN file : p > from /\ file[p].line = k /\ ~file[p].end
  BY DEF Complete, Pending
<1>2. ~(p <= to)
  BY <1>1
<1>3. p > to
  BY <1>0, <1>2
<1> QED BY <1>1, <1>3 DEF Pending

(* A line that is dropped needs no row of its own. *)
LEMMA DroppedIsStale ==
  ASSUME Types, NEW acc, Good(acc), NEW k \in DOMAIN log, Remembers(acc.seen, acc.sent),
         \A i \in DOMAIN acc.sent : acc.sent[i].start = starts => acc.sent[i].line < k,
         Dropped(acc, k)
  PROVE  ~Fresh(k)
<1>1. k \in Nat
  BY TypesAre
<1>2. CASE log[k].read
  BY <1>2 DEF Fresh
<1>3. CASE Contains(acc.seen, log[k].shot)
  <2>1. PICK i \in 1 .. Len(acc.seen) : acc.seen[i] = log[k].shot
    BY <1>3 DEF Contains
  <2> DEFINE j == Len(acc.sent) - Len(acc.seen) + i
  <2>2. i \in DOMAIN acc.seen /\ j \in DOMAIN acc.sent
    <3>1. Len(acc.seen) <= Len(acc.sent)
      BY DEF Remembers
    <3>2. /\ Len(acc.seen) \in Nat /\ DOMAIN acc.seen = 1 .. Len(acc.seen)
          /\ Len(acc.sent) \in Nat /\ DOMAIN acc.sent = 1 .. Len(acc.sent)
      BY GoodIs
    <3> DEFINE a == Len(acc.seen)
               b == Len(acc.sent)
    <3> SUFFICES i \in 1 .. a /\ b - a + i \in 1 .. b
      BY <3>2
    <3>3. a \in Nat /\ b \in Nat /\ a <= b /\ i \in 1 .. a
      BY <2>1, <3>1, <3>2
    <3> HIDE DEF a, b
    <3> QED BY <3>3
  <2>3. acc.sent[j].start = starts /\ log[k].shot = log[acc.sent[j].line].shot
    BY <2>1, <2>2 DEF Remembers
  <2>4. acc.sent[j].line < k
    BY <2>2, <2>3
  <2>5. acc.sent[j].line \in 1 .. k - 1
    <3>1. acc.sent[j].line \in DOMAIN log /\ acc.sent[j].line \in Nat
      BY <2>2, GoodIs
    <3>2. DOMAIN log = 1 .. Len(log) /\ Len(log) \in Nat
      BY TypesAre
    <3> HIDE DEF j
    <3> QED BY <1>1, <2>4, <3>1, <3>2
  <2> QED BY <2>3, <2>5 DEF Fresh
<1> QED BY <1>2, <1>3 DEF Dropped

(* A line that is given is the next one: none before it still stands in    *)
(* the file.                                                               *)
LEMMA GiveNext ==
  ASSUME Types, path, Written, NEW acc, Good(acc), NEW from \in Nat,
         from + 1 \in DOMAIN file, from + 2 \in DOMAIN file, file[from + 2].end,
         Complete(from, acc.sent), NoneSkipped(acc.sent),
         NEW k, k = file[from + 1].line,
         NEW out, out = Append(acc.sent, [line |-> k, start |-> starts])
  PROVE  Complete(from + 2, out) /\ NoneSkipped(out)
<1> DEFINE s == acc.sent
           m == Len(s)
<1>1. k \in DOMAIN log /\ k \in Nat
  BY TypesAre
<1>2. /\ m \in Nat /\ DOMAIN s = 1 .. m
      /\ Len(out) = m + 1 /\ DOMAIN out = 1 .. m + 1
      /\ out[m + 1].line = k /\ out[m + 1].start = starts
      /\ \A i \in DOMAIN s : i \in DOMAIN out /\ out[i] = s[i]
  BY <1>1, GivenIs
<1> HIDE DEF m
<1>3. NoneSkipped(out)
  <2> SUFFICES ASSUME NEW i \in DOMAIN out, NEW l \in DOMAIN log, Fresh(l), l < out[i].line,
                      log[l].live, log[l].by = out[i].start
               PROVE  \E j \in 1 .. i : out[j].line = l
    BY DEF NoneSkipped
  <2>1. CASE i = m + 1
    <3>1. l < k /\ log[l].by = starts
      BY <1>2, <2>1
    <3>2. ~Pending(from, l)
      <4> SUFFICES ASSUME NEW p \in DOMAIN file, p > from, file[p].line = l, ~file[p].end
                   PROVE  FALSE
        BY DEF Pending
      <4>1. p = from + 1 \/ p > from + 1
        <5>1. p \in Int
          BY TypesAre
        <5> QED BY <5>1
      <4>2. CASE p > from + 1
        <5>1. Before(file[from + 1], file[p])
          BY <4>2, TypesAre DEF Written
        <5> QED BY <1>1, <3>1, <5>1, TypesAre DEF Before
      <4> QED BY <1>1, <3>1, <4>1, <4>2, TypesAre
    <3>3. PICK j \in DOMAIN s : s[j].line = l
      BY <3>1, <3>2 DEF Complete, Given
    <3>4. j \in 1 .. i /\ out[j].line = l
      BY <1>2, <2>1, <3>3
    <3> QED BY <3>4
  <2>2. CASE i # m + 1
    <3>1. i \in DOMAIN s /\ out[i] = s[i]
      BY <1>2, <2>2
    <3>2. PICK j \in 1 .. i : s[j].line = l
      BY <3>1 DEF NoneSkipped
    <3>3. out[j].line = l
      BY <1>2, <3>1, <3>2
    <3> QED BY <3>2, <3>3
  <2> QED BY <2>1, <2>2
<1>4. Complete(from + 2, out)
  <2> SUFFICES ASSUME NEW l \in DOMAIN log, Fresh(l), log[l].live, log[l].by = starts,
                      ~Given(out, l)
               PROVE  Pending(from + 2, l)
    BY DEF Complete
  <2>1. ~Given(s, l) /\ l # k
    <3>1. m + 1 \in DOMAIN out /\ out[m + 1].line = k
      BY <1>2
    <3> QED BY <1>2, <3>1 DEF Given
  <2>2. PICK p \in DOMAIN file : p > from /\ file[p].line = l /\ ~file[p].end
    BY <2>1 DEF Complete, Pending
  <2>3. p # from + 1 /\ p # from + 2
    BY <2>1, <2>2
  <2>4. p > from + 2
    <3>1. p \in Int
      BY TypesAre
    <3> QED BY <2>2, <2>3, <3>1
  <2> QED BY <2>2, <2>4 DEF Pending
<1> QED BY <1>3, <1>4

LEMMA Joined ==
  ASSUME NEW p \in Piece, NEW q \in Piece
  PROVE  /\ Append(<<>>, p) = <<p>> /\ ~Parses(<<p>>)
         /\ Len(<<p>>) = 1 /\ DOMAIN <<p>> = {1} /\ <<p>>[1] = p
         /\ Append(<<p>>, q)[1] = p
         /\ Parses(Append(<<p>>, q)) <=> p.line = q.line /\ ~p.end
<1>1. /\ Append(<<>>, p) = <<p>> /\ Len(<<p>>) = 1 /\ DOMAIN <<p>> = {1} /\ <<p>>[1] = p
  OBVIOUS
<1>2. ~Parses(<<p>>)
  BY <1>1 DEF Parses
<1> DEFINE s == Append(<<p>>, q)
<1>3. Len(s) = 2 /\ s[1] = p /\ s[2] = q
  <2>1. <<p>> \in Seq(Piece)
    OBVIOUS
  <2> QED BY <1>1, <2>1, AppendIs
<1> HIDE DEF s
<1>4. Parses(s) <=> p.line = q.line /\ ~p.end
  BY <1>3 DEF Parses
<1> QED BY <1>1, <1>2, <1>3, <1>4 DEF s

(* What is taken up to piece i of a buffer whose first piece is base + 1:  *)
(* every piece, or every one but the beginning of a line.                  *)
FullAt(base, i) ==
    /\ \/ Taken[i].cur = <<>> /\ Complete(base + i, Taken[i].sent)
       \/ /\ i >= 1 /\ Taken[i].cur = <<buf[i]>> /\ ~buf[i].end
          /\ Complete(base + i - 1, Taken[i].sent)
    /\ NoneSkipped(Taken[i].sent)

LEMMA FullStep ==
  ASSUME Types, path, Written, Window(offset, buf), NEW base, base = offset - Len(buf),
         NEW i \in 0 .. Len(buf) - 1, OnceAt(i), FullAt(base, i)
  PROVE  FullAt(base, i + 1)
<1> DEFINE p == buf[i + 1]
           a == Taken[i]
           n == Taken[i + 1]
           x == base + i
<1>1. /\ i \in Nat /\ i + 1 \in 1 .. Len(buf) /\ i \in 0 .. Len(buf) /\ (i + 1) - 1 = i
      /\ buf \in Seq(Piece) /\ i + 1 \in DOMAIN buf
  BY TypesAre
<1>2. x \in Nat /\ x + 1 \in DOMAIN file /\ p = file[x + 1] /\ p \in Piece /\ base \in Nat
  <2>1. offset <= Len(file) /\ Len(buf) <= offset /\ buf[i + 1] = file[offset - Len(buf) + (i + 1)]
    BY <1>1 DEF Window
  <2>2. offset - Len(buf) + (i + 1) = x + 1 /\ x \in Nat /\ x + 1 \in 1 .. Len(file) /\ base \in Nat
    <3>1. Len(buf) \in Nat /\ offset \in Nat /\ Len(file) \in Nat /\ i \in 0 .. Len(buf) - 1
      BY TypesAre
    <3> QED BY <2>1, <3>1
  <2> QED BY <1>1, <2>1, <2>2, TypesAre
<1>3. Good(a) /\ n = TakePiece(a, p)
  BY <1>1, TakenGood, TakenIs
<1>4. a \in Acc
  BY <1>3 DEF Good
<1>5. NoneSkipped(a.sent) /\ Remembers(a.seen, a.sent)
  BY DEF FullAt, OnceAt
<1>6. SUFFICES
      /\ \/ n.cur = <<>> /\ Complete(x + 1, n.sent)
         \/ n.cur = <<p>> /\ ~p.end /\ Complete(x, n.sent)
      /\ NoneSkipped(n.sent)
  <2>1. base + (i + 1) = x + 1 /\ base + (i + 1) - 1 = x /\ i + 1 >= 1
    BY <1>1, <1>2
  <2> HIDE DEF x
  <2> QED BY <2>1 DEF FullAt
<1> DEFINE s == Append(a.cur, p)
<1>7. /\ ~p.end => n = [cur |-> s, seen |-> a.seen, sent |-> a.sent]
      /\ p.end /\ (~Parses(s) \/ Dropped(a, s[1].line)) =>
               n = [cur |-> <<>>, seen |-> a.seen, sent |-> a.sent]
      /\ p.end /\ Parses(s) /\ ~Dropped(a, s[1].line) =>
               n = [cur |-> <<>>, seen |-> Evicts(Append(a.seen, log[s[1].line].shot)),
                    sent |-> Append(a.sent, [line |-> s[1].line, start |-> starts])]
  BY <1>2, <1>3, <1>4, PieceIs DEF TakesEvents
<1>8. \/ a.cur = <<>> /\ Complete(x, a.sent)
      \/ /\ i >= 1 /\ a.cur = <<buf[i]>> /\ ~buf[i].end /\ Complete(x - 1, a.sent)
  BY DEF FullAt
<1>9. \A j \in DOMAIN buf : j > i - Len(a.cur) => Behind(a.sent, buf[j])
  BY DEF OnceAt
<1> HIDE DEF a, n, p, x
<1>10. CASE a.cur = <<>> /\ Complete(x, a.sent)
  <2>1. s = <<p>> /\ ~Parses(s)
    BY <1>2, <1>10, Joined
  <2>2. CASE ~p.end
    BY <1>5, <1>7, <1>10, <2>1, <2>2
  <2>3. CASE p.end
    <3>1. n = [cur |-> <<>>, seen |-> a.seen, sent |-> a.sent]
      BY <1>7, <2>1, <2>3
    <3>2. Complete(x + 1, a.sent)
      <4>1. \A y \in DOMAIN file : x < y /\ y <= x + 1 => file[y].end
        BY <1>2, <2>3, TypesAre
      <4> QED BY <1>2, <1>10, <4>1, AdvanceComplete
    <3> QED BY <1>5, <3>1, <3>2
  <2> QED BY <2>2, <2>3
<1>11. CASE i >= 1 /\ a.cur = <<buf[i]>> /\ ~buf[i].end /\ Complete(x - 1, a.sent)
  <2> DEFINE q == file[x]
             k == q.line
  <2>1. x \in DOMAIN file /\ buf[i] = q /\ x >= 1 /\ x - 1 \in Nat /\ (x - 1) + 1 = x /\ (x - 1) + 2 = x + 1
        /\ i \in DOMAIN buf
    <3>1. i \in DOMAIN buf /\ offset - Len(buf) + i = x
      <4>1. i \in 1 .. Len(buf) /\ DOMAIN buf = 1 .. Len(buf)
        BY <1>1, <1>11, TypesAre
      <4>2. Len(buf) \in Nat /\ offset \in Nat /\ i \in Nat
        BY <1>1, TypesAre
      <4> QED BY <4>1, <4>2 DEF x
    <3>2. x >= 1
      BY <1>1, <1>2, <1>11 DEF x
    <3>3. buf[i] = q
      BY <3>1 DEF Window
    <3>4. DOMAIN file = 1 .. Len(file) /\ Len(file) \in Nat
      BY TypesAre
    <3>5. x \in DOMAIN file /\ x - 1 \in Nat /\ (x - 1) + 1 = x /\ (x - 1) + 2 = x + 1
      BY <1>2, <3>2, <3>4
    <3> QED BY <3>1, <3>2, <3>3, <3>5
  <2>2. ~q.end /\ p = [line |-> k, end |-> TRUE]
    <3>1. x < Len(file)
      BY <1>2, TypesAre
    <3> QED BY <1>2, <1>11, <2>1, <3>1 DEF Written
  <2>3. Parses(s) /\ s[1].line = k /\ p.end /\ Len(a.cur) = 1
    <3>1. q \in Piece
      BY <2>1, TypesAre
    <3>2. a.cur = <<q>> /\ p.line = k /\ p.end
      BY <1>11, <2>1, <2>2
    <3> HIDE DEF q
    <3>3. s = Append(<<q>>, p) /\ p \in Piece /\ ~q.end
      BY <1>2, <2>2, <3>2
    <3> QED BY <3>1, <3>2, <3>3, Joined
  <2>4. k \in DOMAIN log
    BY <2>1, TypesAre
  <2>5. \A j \in DOMAIN a.sent : a.sent[j].start = starts => a.sent[j].line < k
    <3>1. i > i - 1
      BY <1>1
    <3> QED BY <1>9, <2>1, <2>2, <2>3, <3>1 DEF Behind
  <2> HIDE DEF s, q
  <2>6. CASE Dropped(a, k)
    <3>1. n = [cur |-> <<>>, seen |-> a.seen, sent |-> a.sent]
      BY <1>7, <2>3, <2>6
    <3>2. ~Fresh(k)
      <4> HIDE DEF k
      <4> QED BY <1>3, <1>5, <2>4, <2>5, <2>6, DroppedIsStale
    <3>3. Complete(x + 1, a.sent)
      <4>1. \A y \in DOMAIN file : x - 1 < y /\ y <= x + 1 /\ ~file[y].end => file[y].line = k
        <5> SUFFICES ASSUME NEW y \in DOMAIN file, x - 1 < y, y <= x + 1, ~file[y].end
                     PROVE  file[y].line = k
          OBVIOUS
        <5>1. y = x \/ y = x + 1
          BY <1>2, TypesAre
        <5> QED BY <1>2, <2>3, <5>1 DEF q
      <4>2. x - 1 \in Int /\ x + 1 \in Int /\ x - 1 <= x + 1
        BY <1>2
      <4> HIDE DEF k
      <4> QED BY <1>11, <3>2, <4>1, <4>2, AdvanceComplete
    <3> QED BY <1>5, <3>1, <3>3
  <2>7. CASE ~Dropped(a, k)
    <3> DEFINE mem == Evicts(Append(a.seen, log[k].shot))
               out == Append(a.sent, [line |-> k, start |-> starts])
    <3>1. n = [cur |-> <<>>, seen |-> mem, sent |-> out]
      BY <1>7, <2>3, <2>7
    <3>2. Complete(x + 1, out) /\ NoneSkipped(out)
      <4>1. /\ (x - 1) + 1 \in DOMAIN file /\ (x - 1) + 2 \in DOMAIN file
            /\ file[(x - 1) + 2].end /\ k = file[(x - 1) + 1].line
        BY <1>2, <2>1, <2>3 DEF q
      <4> HIDE DEF out, k
      <4>2. Complete((x - 1) + 2, out) /\ NoneSkipped(out)
        BY <1>3, <1>5, <1>11, <2>1, <4>1, GiveNext DEF out
      <4> QED BY <2>1, <4>2
    <3> QED BY <3>1, <3>2
  <2> QED BY <2>6, <2>7
<1> QED
  BY <1>8, <1>10, <1>11

(* After the whole buffer                                                  *)
LEMMA FullAll ==
  ASSUME Types, path, Written, Joining, Remembers(seen, sent), Rows, Window(offset, buf),
         Ongoing, NoneSkipped(sent)
  PROVE  LET a == Taken[Len(buf)] IN
         /\ Window(offset, a.cur) /\ Complete(offset - Len(a.cur), a.sent)
         /\ NoneSkipped(a.sent)
<1> DEFINE base == offset - Len(buf)
           S == {i \in 0 .. Len(buf) : OnceAt(i) /\ FullAt(base, i)}
<1>0. /\ Len(buf) \in Nat /\ buf \in Seq(Piece) /\ offset \in Nat /\ Len(buf) <= offset
      /\ offset <= Len(file) /\ base \in Nat
  BY TypesAre DEF Window
<1>1. 0 \in S
  <2>1. Taken[0] = [cur |-> <<>>, seen |-> seen, sent |-> sent] /\ base + 0 = base
    BY <1>0, TakenIs
  <2>2. Complete(base, sent)
    BY DEF Ongoing
  <2> HIDE DEF base
  <2>3. FullAt(base, 0)
    BY <2>1, <2>2 DEF FullAt
  <2>4. OnceAt(0)
    BY OnceFirst
  <2> QED BY <1>0, <2>3, <2>4
<1>2. ASSUME NEW i \in 0 .. Len(buf) - 1, i \in S PROVE i + 1 \in S
  <2>1. OnceAt(i + 1) /\ FullAt(base, i + 1)
    BY <1>2, OnceStep, FullStep
  <2> QED BY <1>0, <2>1
<1>3. 0 .. Len(buf) \subseteq S
  <2> HIDE DEF S
  <2> QED BY <1>0, <1>1, <1>2, UpTo
<1>4. FullAt(base, Len(buf))
  BY <1>0, <1>3
<1> DEFINE a == Taken[Len(buf)]
<1>5. NoneSkipped(a.sent)
  BY <1>4 DEF FullAt
<1>6. CASE a.cur = <<>> /\ Complete(base + Len(buf), a.sent)
  <2>1. Len(a.cur) = 0 /\ DOMAIN a.cur = {} /\ base + Len(buf) = offset /\ offset - 0 = offset
    BY <1>0, <1>6, EmptyIs
  <2> HIDE DEF base, a
  <2>2. Window(offset, a.cur)
    BY <1>0, <2>1 DEF Window
  <2> QED BY <1>5, <1>6, <2>1, <2>2 DEF a
<1>7. CASE /\ Len(buf) >= 1 /\ a.cur = <<buf[Len(buf)]>>
           /\ Complete(base + Len(buf) - 1, a.sent)
  <2>1. Len(a.cur) = 1 /\ DOMAIN a.cur = {1} /\ a.cur[1] = buf[Len(buf)]
        /\ base + Len(buf) - 1 = offset - 1
    BY <1>0, <1>7, Joined
  <2>2. Len(buf) \in DOMAIN buf
    BY <1>0, <1>7
  <2>3. buf[Len(buf)] = file[offset - Len(buf) + Len(buf)]
    BY <2>2 DEF Window
  <2>4. offset - Len(buf) + Len(buf) = offset - 1 + 1 /\ 1 <= offset
    BY <1>0, <1>7
  <2> HIDE DEF base, a
  <2>5. Window(offset, a.cur)
    BY <1>0, <2>1, <2>3, <2>4 DEF Window
  <2> QED BY <1>5, <1>7, <2>1, <2>5 DEF a
<1> QED
  BY <1>4, <1>6, <1>7 DEF FullAt

-----------------------------------------------------------------------------
(* The steps                                                               *)

LEMMA NoneFrame == NoneSkipped(sent) /\ UNCHANGED <<log, sent>> => NoneSkipped(sent)'
BY DEF NoneSkipped, Fresh

LEMMA OngoingFrame ==
  ASSUME UNCHANGED <<log, file, starts>>, NEW from, NEW out, Complete(from, out),
         offset' - Len(buf') = from, sent' = out
  PROVE  Ongoing'
BY DEF Ongoing, Complete, Fresh, Given, Pending

LEMMA InitFull == Init => Full
<1> SUFFICES ASSUME Init PROVE Full
  OBVIOUS
<1>1. sent = <<>> /\ ~path /\ start.pc = "no"
  BY DEF Init, NotStarting
<1> QED BY <1>1, InitOrderly, EmptyIs DEF Full, Looking, NoneSkipped

(* Nothing but the place of a read moves. *)
LEMMA TimedFull ==
  ASSUME Full, UNCHANGED <<log, file, path, start, starts, sent, seen, offset, buf>>,
         Orderly', read.pc = "no" /\ ~path => read'.pc = "no",
         path /\ Unnoticed => read'.pc \in {"no", "stat"} /\ ~Quiet',
         path /\ Window(offset, buf) /\ Reading => Reading'
  PROVE  Full'
<1>1. NoneSkipped(sent)'
  BY NoneFrame DEF Full
<1>2. Looking'
  BY DEF Full, Looking, Orderly, Starting
<1>3. ASSUME path PROVE Placed' /\ Ongoing'
  <2>1. Placed /\ Ongoing
    BY <1>3 DEF Full
  <2>2. Ongoing'
    BY <2>1, OngoingFrame DEF Ongoing
  <2>3. Placed'
    BY <1>3, <2>1 DEF Placed, Unnoticed, Window
  <2> QED BY <2>2, <2>3
<1> QED BY <1>1, <1>2, <1>3 DEF Full

LEMMA FiresFull == ASSUME Full, TimerFires, Orderly' PROVE Full'
<1>1. /\ UNCHANGED <<log, file, path, start, starts, sent, seen, offset, buf>> /\ timer' = FALSE
      /\ IF read.pc = "no" /\ path THEN read' = [NotReading EXCEPT !.pc = "stat"] ELSE UNCHANGED read
  BY DEF TimerFires, recorder, session, tail
<1>2. read.pc = "no" /\ path => read'.pc = "stat"
  BY <1>1 DEF NotReading
<1>3. read.pc = "no" /\ ~path => read'.pc = "no"
  BY <1>1
<1>4. path /\ Unnoticed => read'.pc \in {"no", "stat"} /\ ~Quiet'
  BY <1>1, <1>2 DEF Unnoticed, Quiet
<1>5. path /\ Window(offset, buf) /\ Reading => Reading'
  BY <1>1, <1>2 DEF Reading
<1> QED BY <1>1, <1>3, <1>4, <1>5, TimedFull

LEMMA FailsFull == ASSUME Full, ReadFails, Orderly' PROVE Full'
<1>1. /\ UNCHANGED <<log, file, path, start, starts, sent, seen, offset, buf, timer>>
      /\ read'.pc = "no" /\ faults'.last
  BY DEF ReadFails, recorder, session, tail, NotReading
<1>2. path /\ Unnoticed => read'.pc \in {"no", "stat"} /\ ~Quiet'
  BY <1>1 DEF Quiet
<1>3. path /\ Window(offset, buf) /\ Reading => Reading'
  BY <1>1 DEF Reading
<1> QED BY <1>1, <1>2, <1>3, TimedFull

LEMMA OpensFull == ASSUME Full, ReadOpens, Orderly' PROVE Full'
<1>1. /\ UNCHANGED <<log, file, path, start, starts, sent, seen, offset, buf, timer>>
      /\ read.pc = "open" /\ read'.pc = "read" /\ read'.pos = offset /\ read'.size = read.size
  <2>1. read \in ReadState
    BY TypesMeans DEF Full, Orderly, AllOf, OfRest
  <2> QED BY <2>1 DEF ReadOpens, recorder, session, tail, ReadState
<1>2. ~Unnoticed
  BY <1>1 DEF Unnoticed
<1>3. path /\ Window(offset, buf) /\ Reading => Reading'
  BY <1>1 DEF Reading
<1> QED BY <1>1, <1>2, <1>3, TimedFull

LEMMA StutterFull == ASSUME Full, UNCHANGED vars, Orderly' PROVE Full'
<1>1. UNCHANGED <<log, file, path, start, starts, sent, seen, offset, buf, read, timer, faults>>
  BY DEF vars
<1>2. path /\ Unnoticed => read'.pc \in {"no", "stat"} /\ ~Quiet'
  BY <1>1 DEF Unnoticed, Quiet
<1>3. path /\ Window(offset, buf) /\ Reading => Reading'
  BY <1>1 DEF Reading
<1> QED BY <1>1, <1>2, <1>3, TimedFull

(* With nothing in the file every place in it is as good.                  *)
LEMMA StatsFull == ASSUME Full, ReadStats, Orderly' PROVE Full'
<1>1. /\ UNCHANGED <<log, file, path, start, starts, sent, seen, timer>> /\ read.pc = "stat"
      /\ path => /\ offset' = IF Shrunk THEN 0 ELSE offset
                 /\ buf' = IF Shrunk THEN <<>> ELSE buf
                 /\ read' = IF Len(file) <= offset' THEN NotReading
                            ELSE [pc |-> "open", size |-> Len(file), pos |-> 0]
  BY DEF ReadStats, recorder, session, tail, NotReading
<1>2. NoneSkipped(sent)' /\ Looking'
  BY <1>1, NoneFrame DEF Full, Looking
<1>3. ASSUME path PROVE Placed' /\ Ongoing'
  <2>0. Ongoing /\ Placed /\ offset \in Nat /\ Len(buf) \in Nat /\ Len(file) \in Nat
    BY <1>3, TypesAre DEF Full, Orderly
  <2>1. CASE Unnoticed
    <3>1. file = <<>> /\ buf = <<>> /\ Len(file) = 0 /\ DOMAIN file = {}
      BY <2>1, EmptyIs DEF Unnoticed
    <3>2. offset' = 0 /\ buf' = <<>> /\ read'.pc = "no"
      BY <1>1, <1>3, <2>0, <3>1 DEF Shrunk, NotReading
    <3>3. Placed'
      BY <1>1, <3>1, <3>2, EmptyIs DEF Placed, Window, Reading
    <3>4. Complete(0, sent)
      BY <2>0, <3>1 DEF Ongoing, Complete, Pending
    <3>5. offset' - Len(buf') = 0
      <4>1. Len(buf') = 0
        BY <3>2, EmptyIs
      <4>2. offset' = 0 /\ 0 - 0 = 0
        BY <3>2
      <4> QED BY <4>1, <4>2, Zenon
    <3>6. Ongoing'
      BY <1>1, <3>4, <3>5, OngoingFrame
    <3> QED BY <3>3, <3>6
  <2>2. CASE Window(offset, buf) /\ Reading
    <3>1. offset' = offset /\ buf' = buf
      BY <1>1, <1>3, <2>0, <2>2 DEF Window, Shrunk
    <3>2. Window(offset, buf)'
      BY <1>1, <2>2, <3>1 DEF Window
    <3>3. read'.pc = "no" \/ (read'.pc = "open" /\ read'.size = Len(file) /\ offset <= Len(file))
      BY <1>1, <1>3, <2>0, <3>1 DEF NotReading
    <3>4. Reading'
      BY <1>1, <2>0, <3>1, <3>3 DEF Reading
    <3>5. Ongoing'
      BY <1>1, <2>0, <3>1, OngoingFrame DEF Ongoing
    <3> QED BY <3>2, <3>4, <3>5 DEF Placed
  <2> QED BY <2>0, <2>1, <2>2 DEF Placed
<1> QED BY <1>1, <1>2, <1>3 DEF Full

(* What is read is what follows in the file.                               *)
LEMMA ReadsFull == ASSUME Full, ReadReads, Orderly' PROVE Full'
<1>1. /\ UNCHANGED <<log, file, path, start, starts, sent, seen, timer>> /\ read.pc = "read"
      /\ buf' = buf \o Bytes /\ offset' = read.pos + Len(Bytes)
  BY DEF ReadReads, recorder, session, tail
<1>2. read'.pc = "close" /\ read.size \in Nat
  <2>1. read \in ReadState
    BY TypesMeans DEF Full, Orderly, AllOf, OfRest
  <2> QED BY <2>1 DEF ReadReads, ReadState
<1>3. NoneSkipped(sent)' /\ Looking'
  BY <1>1, NoneFrame DEF Full, Looking
<1>4. ASSUME path PROVE Placed' /\ Ongoing'
  <2>0. Ongoing /\ Window(offset, buf) /\ Reading
    BY <1>1, <1>4 DEF Full, Placed, Unnoticed
  <2>1. /\ offset \in Nat /\ Len(buf) \in Nat /\ Len(file) \in Nat /\ file \in Seq(Piece)
        /\ DOMAIN file = 1 .. Len(file) /\ buf \in Seq(Piece) /\ DOMAIN buf = 1 .. Len(buf)
    BY TypesAre DEF Full, Orderly
  <2>2. read.pos = offset /\ offset <= read.size /\ read.size <= Len(file)
    BY <1>1, <2>0 DEF Reading
  <2> DEFINE n == read.size
             t == Bytes
             l == n - offset
  <2>3. Bytes = SubSeq(file, offset + 1, n) /\ n \in Nat /\ n <= Len(file) /\ offset <= n
    BY <1>2, <2>1, <2>2 DEF Bytes
  <2> HIDE DEF n
  <2>4. t \in Seq(Piece) /\ Len(t) = l /\ l \in Nat /\ \A i \in 1 .. l : t[i] = file[offset + i]
    <3>1. t \in Seq(Piece) /\ Len(t) = l /\ l \in Nat
      BY <2>1, <2>3
    <3>2. \A i \in 1 .. Len(t) : t[i] = file[offset + i]
      BY <2>1, <2>3, PartIs
    <3> HIDE DEF t, l
    <3> QED BY <3>1, <3>2
  <2>5. l = n - offset /\ buf' = buf \o t /\ offset' = offset + Len(t)
    BY <1>1, <2>2
  <2> HIDE DEF t, l
  <2>6. /\ Len(buf \o t) = Len(buf) + l /\ DOMAIN (buf \o t) = 1 .. Len(buf) + l
        /\ \A i \in 1 .. Len(buf) : (buf \o t)[i] = buf[i]
        /\ \A i \in 1 .. l : (buf \o t)[Len(buf) + i] = t[i]
    <3>1. Len(buf \o t) = Len(buf) + Len(t)
      BY <2>1, <2>4
    <3>4. DOMAIN (buf \o t) = 1 .. Len(buf) + Len(t)
      BY <2>1, <2>4
    <3>2. \A i \in 1 .. Len(buf) : (buf \o t)[i] = buf[i]
      BY <2>1, <2>4
    <3>3. \A i \in 1 .. Len(t) : (buf \o t)[Len(buf) + i] = t[i]
      BY <2>1, <2>4
    <3> QED BY <2>4, <3>1, <3>2, <3>3, <3>4
  <2>7. offset' = n /\ offset' - Len(buf') = offset - Len(buf)
    BY <2>1, <2>3, <2>4, <2>5, <2>6
  <2>8. Ongoing'
    BY <1>1, <2>0, <2>7, OngoingFrame DEF Ongoing
  <2>9. ASSUME NEW i \in DOMAIN buf' PROVE buf'[i] = file[offset - Len(buf) + i]
    <3>0. i \in 1 .. Len(buf) + l
      BY <2>5, <2>6
    <3>1. CASE i <= Len(buf)
      <4>1. i \in 1 .. Len(buf) /\ i \in DOMAIN buf
        BY <2>1, <3>0, <3>1
      <4> QED BY <2>0, <2>5, <2>6, <4>1 DEF Window
    <3>2. CASE i > Len(buf)
      <4> DEFINE j == i - Len(buf)
      <4>1. j \in 1 .. l /\ Len(buf) + j = i /\ offset + j = offset - Len(buf) + i
        BY <2>1, <2>4, <3>0, <3>2
      <4> HIDE DEF j
      <4> QED BY <2>4, <2>5, <2>6, <4>1
    <3> QED BY <2>1, <2>4, <3>0, <3>1, <3>2
  <2>10. Window(offset, buf)'
    <3>1. n <= Len(file) /\ Len(buf') <= n
      BY <2>0, <2>1, <2>3, <2>4, <2>5, <2>6 DEF Window
    <3> QED BY <1>1, <2>7, <2>9, <3>1 DEF Window
  <2>11. Reading'
    BY <1>2 DEF Reading
  <2> QED BY <2>8, <2>10, <2>11 DEF Placed
<1> QED BY <1>1, <1>3, <1>4 DEF Full

LEMMA ClosesFull == ASSUME Calm, Full, ReadCloses, Orderly' PROVE Full'
<1> DEFINE a == Taken[Len(buf)]
<1>1. /\ UNCHANGED <<log, file, path, start, starts, offset, timer>> /\ read.pc = "close"
      /\ read'.pc = "no" /\ buf' = a.cur /\ seen' = a.seen /\ sent' = a.sent
  BY DEF ReadCloses, Rest, recorder, session, NotReading
<1>2. Looking'
  BY <1>1 DEF Full, Looking
<1>3. CASE ~path
  <2>1. a.sent = sent
    BY <1>3, TakenGood, TypesAre DEF Full, Orderly, TakesEvents, Calm
  <2>2. NoneSkipped(sent)'
    BY <1>1, <2>1, NoneFrame DEF Full
  <2> QED BY <1>1, <1>2, <1>3, <2>2 DEF Full
<1>4. CASE path
  <2>1. /\ Types /\ Written /\ Rows /\ Joining /\ Remembers(seen, sent)
        /\ Window(offset, buf) /\ Ongoing /\ NoneSkipped(sent)
    BY <1>1, <1>4 DEF Full, Orderly, Tailed, Placed, Unnoticed
  <2>2. Window(offset, a.cur) /\ Complete(offset - Len(a.cur), a.sent) /\ NoneSkipped(a.sent)
    BY <1>4, <2>1, FullAll
  <2> HIDE DEF a
  <2>3. Window(offset, buf)' /\ Reading'
    BY <1>1, <2>2 DEF Window, Reading
  <2>4. Ongoing'
    BY <1>1, <2>2, OngoingFrame
  <2>5. NoneSkipped(sent)'
    BY <1>1, <2>2 DEF NoneSkipped, Fresh
  <2> QED BY <1>2, <2>3, <2>4, <2>5 DEF Full, Placed
<1> QED BY <1>3, <1>4

LEMMA GrownFresh ==
  ASSUME Types, Grown, NEW k \in DOMAIN log
  PROVE  Fresh(k) <=> Fresh(k)'
<1>1. \A j \in 1 .. k - 1 : j \in DOMAIN log
  <2>1. DOMAIN log = 1 .. Len(log) /\ Len(log) \in Nat
    BY TypesAre
  <2> QED BY <2>1
<1>2. \A j \in 1 .. k - 1 : log'[j] = log[j]
  BY <1>1 DEF Grown
<1>3. log'[k] = log[k]
  BY DEF Grown
<1> QED BY <1>2, <1>3 DEF Fresh

(* A new line is behind the tail, and its beginning still to be read.      *)
LEMMA GrownFull ==
  ASSUME Full, Grown, Orderly',
         path /\ file = <<>> => Quiet,
         \/ /\ NewPiece.line = Len(log) + 1 /\ ~NewPiece.end /\ Len(log') = Len(log) + 1
            /\ log'[Len(log) + 1].live = path
         \/ log' = log
  PROVE  Full'
<1> DEFINE f == Len(file)
           n == Len(log)
           b == offset - Len(buf)
<1>0. Types /\ Looking /\ NoneSkipped(sent) /\ Starting
  BY DEF Full, Orderly
<1>1. DOMAIN file = 1 .. f /\ f \in Nat /\ DOMAIN log = 1 .. n /\ n \in Nat
  BY <1>0, TypesAre
<1>2. offset \in Nat /\ Len(buf) \in Nat /\ DOMAIN buf = 1 .. Len(buf) /\ b \in Int
  BY <1>0, TypesAre
<1>3. UNCHANGED <<path, offset, buf, seen, sent, starts, start, read>>
  BY DEF Grown
<1>4. \A k \in DOMAIN log : log'[k] = log[k]
  BY DEF Grown
<1>5. DOMAIN file' = 1 .. f + 1 /\ Len(file') = f + 1 /\ file'[f + 1] = NewPiece
  BY DEF Grown, NewPiece
<1>6. \A p \in DOMAIN file : p \in DOMAIN file' /\ file'[p] = file[p]
  BY DEF Grown
<1>7. ASSUME NEW k \in DOMAIN log', k \notin DOMAIN log
      PROVE  k = n + 1 /\ log'[k].live = path /\ NewPiece.line = k /\ ~NewPiece.end
  <2>1. log' # log
    BY <1>7
  <2>2. /\ NewPiece.line = n + 1 /\ ~NewPiece.end /\ Len(log') = n + 1
        /\ log'[n + 1].live = path
    BY <2>1
  <2>3. DOMAIN log' = 1 .. Len(log')
    BY DEF Grown
  <2>4. k = n + 1
    <3> HIDE DEF n
    <3> QED BY <1>1, <1>7, <2>2, <2>3
  <2> QED BY <2>2, <2>4
<1> HIDE DEF f, n, b
<1>8. NoneSkipped(sent)'
  <2> SUFFICES ASSUME NEW i \in DOMAIN sent, NEW k \in DOMAIN log', Fresh(k)', k < sent[i].line,
                      log'[k].live, log'[k].by = sent[i].start
               PROVE  \E j \in 1 .. i : sent[j].line = k
    BY <1>3 DEF NoneSkipped
  <2>1. k \in DOMAIN log
    <3>1. sent[i].line \in 1 .. n
      BY <1>0, <1>1, TypesAre
    <3>2. k \notin DOMAIN log => k = n + 1
      BY <1>7
    <3> QED BY <1>1, <3>1, <3>2
  <2>2. Fresh(k) /\ log[k].live /\ log[k].by = sent[i].start
    BY <1>0, <1>4, <2>1, GrownFresh
  <2> QED BY <1>0, <2>1, <2>2 DEF NoneSkipped
<1>9. Looking'
  <2>1. ASSUME start.pc # "no", NEW k \in DOMAIN log', log'[k].by = starts PROVE ~log'[k].live
    <3>1. CASE k \in DOMAIN log
      BY <1>0, <1>4, <2>1, <3>1 DEF Looking
    <3>2. CASE k \notin DOMAIN log
      BY <1>0, <1>7, <2>1, <3>2 DEF Starting
    <3> QED BY <3>1, <3>2
  <2>2. start.pc = "set" => start.size <= Len(file')
    <3>1. start.size \in Nat
      BY <1>0, TypesMeans DEF AllOf, OfRest, StartState
    <3>2. start.pc = "set" => start.size <= f
      BY <1>0 DEF Looking, f
    <3> QED BY <1>1, <1>5, <3>1, <3>2
  <2> QED BY <1>0, <1>3, <2>1, <2>2 DEF Looking
<1>10. ASSUME path PROVE Placed' /\ Ongoing'
  <2>1. Window(offset, buf) /\ Reading /\ Ongoing
    <3>1. ~Unnoticed
      BY <1>10 DEF Unnoticed
    <3> QED BY <1>10, <3>1 DEF Full, Placed
  <2>2. offset <= f /\ Len(buf) <= offset
    BY <2>1 DEF Window, f
  <2>3. Window(offset, buf)'
    <3>1. ASSUME NEW i \in DOMAIN buf PROVE buf[i] = file'[offset - Len(buf) + i]
      <4>1. buf[i] = file[offset - Len(buf) + i]
        BY <2>1 DEF Window
      <4>2. offset - Len(buf) + i \in DOMAIN file
        BY <1>1, <1>2, <2>2
      <4> QED BY <1>6, <4>1, <4>2
    <3>2. offset <= Len(file')
      BY <1>1, <1>2, <1>5, <2>2
    <3> QED BY <1>3, <2>2, <3>1, <3>2 DEF Window
  <2>4. Reading'
    <3>1. ASSUME read.pc \in {"open", "read"} PROVE read.size <= Len(file')
      <4>1. read.size \in Int
        BY <1>0, <3>1, TypesMeans DEF AllOf, OfRest, ReadState
      <4>2. read.size <= f
        BY <2>1, <3>1 DEF Reading, f
      <4> QED BY <1>1, <1>5, <4>1, <4>2
    <3> QED BY <1>3, <2>1, <3>1 DEF Reading
  <2>5. b < f + 1
    BY <1>1, <1>2, <2>2 DEF b
  <2>6. Complete(b, sent)
    BY <2>1 DEF Ongoing, b
  <2>7. ASSUME NEW k \in DOMAIN log', Fresh(k)', log'[k].live, log'[k].by = starts, ~Given(sent, k)
        PROVE  \E p \in DOMAIN file' : p > b /\ file'[p].line = k /\ ~file'[p].end
    <3>1. CASE k \in DOMAIN log
      <4>1. Fresh(k) /\ log[k].live /\ log[k].by = starts
        BY <1>0, <1>4, <2>7, <3>1, GrownFresh
      <4>2. Pending(b, k)
        BY <2>6, <2>7, <3>1, <4>1 DEF Complete
      <4>3. PICK p \in DOMAIN file : p > b /\ file[p].line = k /\ ~file[p].end
        BY <4>2 DEF Pending
      <4> QED BY <1>6, <4>3
    <3>2. CASE k \notin DOMAIN log
      <4>1. NewPiece.line = k /\ ~NewPiece.end
        BY <1>7, <3>2
      <4>2. f + 1 \in DOMAIN file' /\ f + 1 > b
        BY <1>1, <1>2, <1>5, <2>5
      <4> QED BY <1>5, <4>1, <4>2
    <3> QED BY <3>1, <3>2
  <2>8. Ongoing'
    <3>1. b' = b
      BY <1>3 DEF b
    <3> QED BY <1>3, <2>7, <3>1 DEF Ongoing, Complete, Pending, Given, b
  <2> QED BY <2>3, <2>4, <2>8 DEF Placed
<1> QED BY <1>3, <1>8, <1>9, <1>10 DEF Full

LEMMA BeginFull ==
  ASSUME Calm, Full, Orderly', NEW shot \in Line, NEW again \in BOOLEAN, NEW reread \in BOOLEAN,
         BeginLine(shot, again, reread)
  PROVE  Full'
<1>1. Types /\ Written
  BY DEF Full, Orderly
<1>2. path /\ file = <<>> => Quiet
  BY DEF BeginLine, Calm
<1> QED BY <1>1, <1>2, BeginGrows, GrownFull

LEMMA EndFull == ASSUME Full, EndLine, Orderly' PROVE Full'
<1>1. Types /\ Written
  BY DEF Full, Orderly
<1> QED BY <1>1, EndGrows, GrownFull

(* What a rotated file held has been taken; the watcher tells of it.       *)
LEMMA RotateFull == ASSUME Calm, Full, Rotate, Orderly' PROVE Full'
<1>1. /\ UNCHANGED <<log, path, start, starts, offset, buf, seen, sent, read>>
      /\ file' = <<>> /\ timer' = path /\ start.pc = "no"
      /\ path => offset = Len(file) /\ buf = <<>> /\ read.pc = "no"
  BY DEF Rotate, session, tail, Calm, Schedule, CaughtUp
<1>2. DOMAIN file' = {} /\ Len(file') = 0
  BY <1>1, EmptyIs
<1>3. NoneSkipped(sent)'
  BY <1>1, NoneFrame DEF Full
<1>4. Looking'
  BY <1>1 DEF Looking
<1>5. ASSUME path PROVE Placed' /\ Ongoing'
  <2>0. Types /\ Ongoing
    BY <1>5 DEF Full, Orderly
  <2>1. Placed'
    BY <1>1, <1>5 DEF Placed, Unnoticed, Quiet
  <2>2. \A k \in DOMAIN log : ~Pending(offset - Len(buf), k)
    <3>1. offset - Len(buf) = Len(file)
      <4>1. Len(buf) = 0 /\ offset = Len(file) /\ Len(file) \in Nat
        BY <1>1, <1>5, <2>0, EmptyIs, TypesAre
      <4> QED BY <4>1
    <3>2. DOMAIN file = 1 .. Len(file) /\ Len(file) \in Nat
      BY <2>0, TypesAre
    <3> QED BY <3>1, <3>2 DEF Pending
  <2>3. \A k \in DOMAIN log : Fresh(k) /\ log[k].live /\ log[k].by = starts => Given(sent, k)
    BY <2>0, <2>2 DEF Ongoing, Complete
  <2>4. Ongoing'
    BY <1>1, <2>3 DEF Ongoing, Complete, Fresh, Given
  <2> QED BY <2>1, <2>4
<1> QED BY <1>1, <1>3, <1>4, <1>5 DEF Full

LEMMA StopFull == ASSUME Full, Stop, Orderly' PROVE Full'
<1>1. /\ UNCHANGED <<log, file, start, starts, sent, read>> /\ path /\ ~path'
  BY DEF Stop, Stopped, recorder
<1>2. NoneSkipped(sent)'
  BY <1>1, NoneFrame DEF Full
<1>3. Looking'
  BY <1>1 DEF Full, Looking
<1> QED BY <1>1, <1>2, <1>3 DEF Full

LEMMA ClickFull == ASSUME Calm, Full, StartClick, Orderly' PROVE Full'
<1>1. /\ UNCHANGED <<log, file, sent, read>> /\ ~path' /\ start'.pc = "stat"
      /\ starts' = starts + 1 /\ read.pc = "no"
  BY DEF StartClick, Stopped, recorder, Calm
<1>2. NoneSkipped(sent)'
  BY <1>1, NoneFrame DEF Full
<1>3. \A k \in DOMAIN log : log[k].by # starts'
  <2>1. starts \in Nat /\ \A k \in DOMAIN log : log[k].by <= starts
    BY TypesAre DEF Full, Orderly, Types, Known
  <2> QED BY <1>1, <2>1
<1>4. Looking'
  BY <1>1, <1>3 DEF Looking
<1> QED BY <1>1, <1>2, <1>4 DEF Full

LEMMA LooksFull == ASSUME Full, Orderly', NEW ok \in BOOLEAN, StartStats(ok) PROVE Full'
<1>1. /\ UNCHANGED <<log, file, path, starts, sent, read>> /\ start.pc = "stat"
      /\ start'.pc = "no" \/ (start'.pc = "set" /\ start'.size = Len(file))
  BY DEF StartStats, recorder, NotStarting
<1>2. NoneSkipped(sent)'
  BY <1>1, NoneFrame DEF Full
<1>3. ~path /\ Len(file) \in Nat
  BY <1>1, TypesAre DEF Full, Orderly, Starting
<1>4. read.pc = "no" /\ \A k \in DOMAIN log : log[k].by = starts => ~log[k].live
  BY <1>1 DEF Full, Looking
<1>5. Looking'
  BY <1>1, <1>3, <1>4 DEF Looking
<1> QED BY <1>1, <1>2, <1>3, <1>5 DEF Full

LEMMA SetsFull == ASSUME Full, StartSets, Orderly' PROVE Full'
<1>1. /\ UNCHANGED <<log, file, starts, sent, read>> /\ start.pc = "set" /\ start'.pc = "no"
      /\ offset' = start.size /\ buf' = <<>> /\ seen' = <<>>
  BY DEF StartSets, FromItsEnd, recorder, NotStarting
<1>2. NoneSkipped(sent)'
  BY <1>1, NoneFrame DEF Full
<1>3. Looking'
  BY <1>1 DEF Looking
<1>4. /\ read.pc = "no" /\ start.size <= Len(file)
      /\ \A k \in DOMAIN log : log[k].by = starts => ~log[k].live
  BY <1>1 DEF Full, Looking
<1>5. start.size \in Nat /\ Len(buf') = 0 /\ DOMAIN buf' = {}
  <2>1. start.size \in Nat
    BY TypesMeans DEF Full, Orderly, AllOf, OfRest, StartState
  <2> QED BY <1>1, <2>1, EmptyIs
<1>6. Placed'
  BY <1>1, <1>4, <1>5 DEF Placed, Window, Reading
<1>7. Ongoing'
  BY <1>1, <1>4 DEF Ongoing, Complete
<1> QED BY <1>2, <1>3, <1>6, <1>7 DEF Full

LEMMA StepFull == Calm /\ Full /\ [Next]_vars => Full'
<1> SUFFICES ASSUME Calm, Full, [Next]_vars PROVE Full'
  OBVIOUS
<1>0. Orderly'
  BY StepOrderly DEF Full, Calm, Alone
<1>1. CASE \E shot \in Line, again, reread \in BOOLEAN : BeginLine(shot, again, reread)
  BY <1>0, <1>1, BeginFull
<1>2. CASE EndLine
  BY <1>0, <1>2, EndFull
<1>3. CASE Rotate
  BY <1>0, <1>3, RotateFull
<1>4. CASE TimerFires
  BY <1>0, <1>4, FiresFull
<1>5. CASE ReadStats
  BY <1>0, <1>5, StatsFull
<1>6. CASE ReadOpens
  BY <1>0, <1>6, OpensFull
<1>7. CASE ReadReads
  BY <1>0, <1>7, ReadsFull
<1>8. CASE ReadCloses
  BY <1>0, <1>8, ClosesFull
<1>9. CASE ReadFails
  BY <1>0, <1>9, FailsFull
<1>10. CASE Stop
  BY <1>0, <1>10, StopFull
<1>11. CASE StartClick
  BY <1>0, <1>11, ClickFull
<1>12. CASE \E ok \in BOOLEAN : StartStats(ok)
  BY <1>0, <1>12, LooksFull
<1>13. CASE StartSets
  BY <1>0, <1>13, SetsFull
<1>14. CASE UNCHANGED vars
  BY <1>0, <1>14, StutterFull
<1> QED
  BY <1>1, <1>2, <1>3, <1>4, <1>5, <1>6, <1>7, <1>8, <1>9, <1>10, <1>11, <1>12, <1>13, <1>14
     DEF Next, Recorder, Read, User

(* No shot is passed over: rows come in the order of the shots, with every *)
(* shot in between, whatever reads fail, take long or overlap stops, if    *)
(* the log is rotated only when it was read to its end and the source not  *)
(* started anew while a read is under way.                                 *)
THEOREM LogTailNothingSkipped ==
  ASSUME Habits \subseteq {"slow"}
  PROVE  Spec => []NothingSkipped
<1>1. Full => NothingSkipped
  BY DEF Full, NoneSkipped, NothingSkipped
<1> QED BY <1>1, InitFull, StepFull, PTL DEF Spec, Calm
=============================================================================
