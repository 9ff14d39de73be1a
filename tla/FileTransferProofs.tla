-------------------------- MODULE FileTransferProofs --------------------------
(***************************************************************************)
(* What is proved of FileTransfer for all constants: the marks of          *)
(* SocketReader do their work, a fetch that is alone with its temp file    *)
(* never installs a part of a file, and the one number that stands for the *)
(* token bucket follows the bucket.                                        *)
(***************************************************************************)
EXTENDS FileTransfer, TLAPS

\* A socket that is not paused has not passed the high mark, one that is paused
\* has not been read below the low mark.
Marks ==
    \A f \in Fetch :
        /\ ~paused[f] => buffered[f] <= SOCKET_HIGH_WATER
        /\ paused[f] => buffered[f] >= SOCKET_LOW_WATER

\* A read waits only for what is not there.
Waits == \A f \in Fetch : Waiting(f) => buffered[f] < Asked(f)

\* Where the function is tells how much it has yet to read.
Left ==
    \A f \in Fetch :
        /\ step[f] \in {"header", "open"} => remaining[f] = Size
        /\ step[f] \in {"write", "read"} => remaining[f] > 0
        /\ step[f] \in {"close", "rename", "stamp"} => remaining[f] = 0

IInv == TypeOK /\ Marks /\ Waits /\ Left /\ Backpressure

USE DEF HEADER, Inode, Steps, RanOut

\* What one read asks for.
LEMMA AskedRange ==
    ASSUME TypeOK, NEW f \in Fetch
    PROVE  /\ Asked(f) \in Nat
           /\ Asked(f) <= BUFFER_SIZE
           /\ step[f] # "header" => Asked(f) <= remaining[f]
           /\ step[f] = "header" \/ remaining[f] > 0 => Asked(f) > 0
BY TransferAssumption DEF TypeOK, Asked

LEMMA InitIInv == Init => IInv
BY TransferAssumption, MarksAssumption, BurstAssumption
   DEF Init, IInv, TypeOK, Marks, Waits, Left, Backpressure, Waiting, Asked, Whole, Nothing, Old

\* take(n) keeps the marks.
LEMMA TakeStep ==
    ASSUME TypeOK, NEW f \in Fetch, NEW b \in Nat, NEW p \in BOOLEAN,
           NEW n \in 0..b, p => b >= SOCKET_LOW_WATER, ~p => b <= SOCKET_HIGH_WATER,
           b <= SOCKET_HIGH_WATER + Window, Take(f, b, p, n)
    PROVE  /\ buffered' \in [Fetch -> Nat] /\ paused' \in [Fetch -> BOOLEAN]
           /\ buffered'[f] = b - n
           /\ ~paused'[f] => buffered'[f] <= SOCKET_HIGH_WATER
           /\ paused'[f] => buffered'[f] >= SOCKET_LOW_WATER
           /\ buffered'[f] <= SOCKET_HIGH_WATER + Window
           /\ \A g \in Fetch \ {f} :
                 buffered'[g] = buffered[g] /\ paused'[g] = paused[g]
<1>1. b - n \in Nat /\ b - n <= b
  OBVIOUS
<1>2. (p /\ b - n >= SOCKET_LOW_WATER) \in BOOLEAN
  OBVIOUS
<1>3. /\ buffered'[f] = b - n
      /\ paused'[f] = (p /\ b - n >= SOCKET_LOW_WATER)
      /\ \A g \in Fetch \ {f} : buffered'[g] = buffered[g] /\ paused'[g] = paused[g]
  BY DEF TypeOK, Take
<1>4. buffered' \in [Fetch -> Nat] /\ paused' \in [Fetch -> BOOLEAN]
  BY <1>1, <1>2 DEF TypeOK, Take
<1> QED
  BY <1>1, <1>3, <1>4, TransferAssumption, MarksAssumption

\* The loop's next read, from `rest` bytes that are yet to come.
LEMMA NextReadStep ==
    ASSUME TypeOK, Marks, Backpressure, NEW f \in Fetch, NEW rest \in 0..Size,
           NextRead(f, rest)
    PROVE  /\ buffered' \in [Fetch -> Nat] /\ paused' \in [Fetch -> BOOLEAN]
           /\ step' \in [Fetch -> Steps]
           /\ failing' \in [Fetch -> {"no", "close", "unlink", "over"}]
           /\ step'[f] \in {"close", "write", "over", "read"}
           /\ step'[f] = "close" => rest = 0
           /\ step'[f] \in {"write", "read"} => rest > 0
           /\ step'[f] = "read" =>
                 buffered'[f] < IF rest < BUFFER_SIZE THEN rest ELSE BUFFER_SIZE
           /\ ~paused'[f] => buffered'[f] <= SOCKET_HIGH_WATER
           /\ paused'[f] => buffered'[f] >= SOCKET_LOW_WATER
           /\ buffered'[f] <= SOCKET_HIGH_WATER + Window
           /\ \A g \in Fetch \ {f} : /\ buffered'[g] = buffered[g]
                                     /\ paused'[g] = paused[g]
                                     /\ step'[g] = step[g]
<1> DEFINE n == IF rest < BUFFER_SIZE THEN rest ELSE BUFFER_SIZE
<1>1. n \in Nat /\ (rest > 0 => n > 0)
  BY TransferAssumption
<1>2. CASE rest > 0 /\ buffered[f] >= n /\ Take(f, buffered[f], paused[f], n)
             /\ step' = [step EXCEPT ![f] = "write"] /\ UNCHANGED failing
  <2>1. n \in 0..buffered[f]
    BY <1>1, <1>2 DEF TypeOK
  <2> HIDE DEF n
  <2> QED
    BY <1>2, <2>1, TakeStep DEF TypeOK, Marks, Backpressure
<1>3. CASE /\ UNCHANGED <<buffered, paused>>
           /\ \/ /\ rest = 0
                 /\ step' = [step EXCEPT ![f] = "close"]
                 /\ UNCHANGED failing
              \/ rest > 0 /\ Throw(f)
              \/ /\ rest > 0 /\ buffered[f] < n
                 /\ step' = [step EXCEPT ![f] = "read"]
                 /\ UNCHANGED failing
  <2>1. failing' \in [Fetch -> {"no", "close", "unlink", "over"}]
    BY <1>3 DEF TypeOK, Throw, StartFail
  <2>2. /\ buffered' \in [Fetch -> Nat] /\ paused' \in [Fetch -> BOOLEAN]
        /\ ~paused'[f] => buffered'[f] <= SOCKET_HIGH_WATER
        /\ paused'[f] => buffered'[f] >= SOCKET_LOW_WATER
        /\ buffered'[f] <= SOCKET_HIGH_WATER + Window
    BY <1>3 DEF TypeOK, Marks, Backpressure
  <2>3. /\ step' \in [Fetch -> Steps]
        /\ step'[f] \in {"close", "over", "read"}
        /\ step'[f] = "close" => rest = 0
        /\ step'[f] = "read" => rest > 0 /\ buffered[f] < n
        /\ \A g \in Fetch \ {f} : step'[g] = step[g]
    BY <1>3 DEF TypeOK, Throw
  <2> QED
    BY <1>3, <2>1, <2>2, <2>3
<1> QED
  BY <1>2, <1>3 DEF NextRead

USE DEF callVars, sockVars, connVars, fileVars

LEMMA DeliverStep ==
    ASSUME IInv, NEW f \in Fetch, NEW k \in 1..Window, Deliver(f, k)
    PROVE  IInv'
<1> DEFINE b == buffered[f] + k
           p == Pauses(paused[f], b)
<1>1. /\ b \in Nat /\ p \in BOOLEAN /\ ~paused[f]
      /\ p => b >= SOCKET_LOW_WATER
      /\ ~p => b <= SOCKET_HIGH_WATER
      /\ b <= SOCKET_HIGH_WATER + Window
  BY TransferAssumption, MarksAssumption DEF IInv, TypeOK, Marks, Deliver, Pauses
<1>2. /\ flight' \in [Fetch -> 0..Window] /\ idle' \in [Fetch -> 0..Timeout]
      /\ UNCHANGED <<left, alive, intact, remaining, wake, result, fileVars, credit>>
  BY TransferAssumption DEF IInv, TypeOK, Deliver
<1>3. CASE /\ b > SOCKET_MAX_BUFFER
           /\ buffered' = [buffered EXCEPT ![f] = 0]
           /\ sock' = [sock EXCEPT ![f] = "broken"]
           /\ IF Waiting(f) THEN Throw(f) ELSE UNCHANGED <<step, failing>>
           /\ UNCHANGED paused
  <2>1. TypeOK'
    BY <1>2, <1>3 DEF IInv, TypeOK, Throw, StartFail
  <2>2. \A g \in Fetch : step'[g] = step[g] \/ (step'[g] = "over" /\ g = f)
    BY <1>3 DEF IInv, TypeOK, Throw
  <2>3. ~Waiting(f)'
    BY <1>3, <2>2 DEF IInv, TypeOK, Throw, Waiting
  <2>4. Marks' /\ Backpressure'
    BY <1>1, <1>3, TransferAssumption DEF IInv, TypeOK, Marks, Backpressure
  <2>5. Waits' /\ Left'
    BY <1>2, <1>3, <2>2, <2>3 DEF IInv, TypeOK, Waits, Left, Waiting, Asked
  <2> QED
    BY <2>1, <2>4, <2>5 DEF IInv
<1>4. CASE /\ Waiting(f) /\ b >= Asked(f)
           /\ Take(f, b, p, Asked(f)) /\ Received(f)
           /\ UNCHANGED <<sock, failing>>
  <2>1. Asked(f) \in 0..b
    BY <1>1, <1>4, AskedRange DEF IInv
  <2> HIDE DEF b, p
  <2>2. /\ buffered' \in [Fetch -> Nat] /\ paused' \in [Fetch -> BOOLEAN]
        /\ ~paused'[f] => buffered'[f] <= SOCKET_HIGH_WATER
        /\ paused'[f] => buffered'[f] >= SOCKET_LOW_WATER
        /\ buffered'[f] <= SOCKET_HIGH_WATER + Window
        /\ \A g \in Fetch \ {f} :
              buffered'[g] = buffered[g] /\ paused'[g] = paused[g]
    BY <1>1, <1>4, <2>1, TakeStep DEF IInv
  <2>3. /\ step' \in [Fetch -> Steps]
        /\ \A g \in Fetch \ {f} : step'[g] = step[g]
        /\ \/ step[f] = "header" /\ step'[f] = "open"
           \/ step[f] = "read" /\ step'[f] = "write"
    BY <1>4 DEF IInv, TypeOK, Received, Waiting
  <2>4. TypeOK'
    BY <1>2, <1>4, <2>2, <2>3 DEF IInv, TypeOK
  <2>5. Marks' /\ Backpressure'
    BY <2>2 DEF IInv, Marks, Backpressure
  <2>6. Waits' /\ Left'
    BY <1>2, <2>2, <2>3 DEF IInv, Waits, Left, Waiting, Asked
  <2> QED
    BY <2>4, <2>5, <2>6 DEF IInv
<1>5. CASE /\ ~(Waiting(f) /\ b >= Asked(f))
           /\ buffered' = [buffered EXCEPT ![f] = b]
           /\ paused' = [paused EXCEPT ![f] = p]
           /\ UNCHANGED step
           /\ UNCHANGED <<sock, failing>>
  <2>1. /\ buffered' \in [Fetch -> Nat] /\ paused' \in [Fetch -> BOOLEAN]
        /\ buffered'[f] = b /\ paused'[f] = p
        /\ \A g \in Fetch \ {f} :
              buffered'[g] = buffered[g] /\ paused'[g] = paused[g]
    BY <1>1, <1>5 DEF IInv, TypeOK
  <2>2. TypeOK'
    BY <1>2, <1>5, <2>1 DEF IInv, TypeOK
  <2>3. Asked(f) \in Nat
    BY AskedRange DEF IInv
  <2> HIDE DEF b, p
  <2>4. Marks' /\ Backpressure'
    BY <1>1, <2>1 DEF IInv, Marks, Backpressure
  <2>5. Waits' /\ Left'
    BY <1>1, <1>2, <1>5, <2>1, <2>3 DEF IInv, Waits, Left, Waiting, Asked
  <2> QED
    BY <2>2, <2>4, <2>5 DEF IInv
<1> QED
  BY <1>3, <1>4, <1>5 DEF Deliver

\* A step that throws or settles and leaves the buffers alone.
LEMMA QuietStep ==
    ASSUME IInv, TypeOK', NEW f \in Fetch,
           UNCHANGED <<buffered, paused, remaining>>,
           \A g \in Fetch : step'[g] = step[g] \/ step'[g] = "over"
    PROVE  IInv'
<1>1. Marks' /\ Backpressure'
  BY DEF IInv, Marks, Backpressure
<1>2. Waits' /\ Left'
  BY DEF IInv, Waits, Left, Waiting, Asked
<1> QED
  BY <1>1, <1>2 DEF IInv

\* A step that goes on with the loop.
LEMMA LoopStep ==
    ASSUME IInv, NEW f \in Fetch, NEW rest \in 0..Size, NextRead(f, rest),
           remaining' = [remaining EXCEPT ![f] = rest],
           UNCHANGED <<connVars, sock, idle, result, dest>>,
           wake' \in [Fetch -> Nat],
           handle' \in [Fetch -> {"none", "open", "closed"}],
           inode' \in [Fetch -> Inode], bytes' \in [Inode -> SUBSET Whole],
           tmp' \in Inode \union {Nothing}, credit' \in Int, credit' <= Burst
    PROVE  IInv'
<1>1. /\ buffered' \in [Fetch -> Nat] /\ paused' \in [Fetch -> BOOLEAN]
      /\ step' \in [Fetch -> Steps]
      /\ failing' \in [Fetch -> {"no", "close", "unlink", "over"}]
      /\ step'[f] \in {"close", "write", "over", "read"}
      /\ step'[f] = "close" => rest = 0
      /\ step'[f] \in {"write", "read"} => rest > 0
      /\ step'[f] = "read" =>
            buffered'[f] < IF rest < BUFFER_SIZE THEN rest ELSE BUFFER_SIZE
      /\ ~paused'[f] => buffered'[f] <= SOCKET_HIGH_WATER
      /\ paused'[f] => buffered'[f] >= SOCKET_LOW_WATER
      /\ buffered'[f] <= SOCKET_HIGH_WATER + Window
      /\ \A g \in Fetch \ {f} : /\ buffered'[g] = buffered[g]
                                /\ paused'[g] = paused[g]
                                /\ step'[g] = step[g]
  BY NextReadStep DEF IInv
<1>2. /\ remaining' \in [Fetch -> 0..Size] /\ remaining'[f] = rest
      /\ \A g \in Fetch \ {f} : remaining'[g] = remaining[g]
  BY DEF IInv, TypeOK
<1>3. TypeOK'
  BY <1>1, <1>2 DEF IInv, TypeOK
<1>4. Marks' /\ Backpressure'
  BY <1>1 DEF IInv, Marks, Backpressure
<1>5. Waits' /\ Left'
  BY <1>1, <1>2 DEF IInv, Waits, Left, Waiting, Asked
<1> QED
  BY <1>3, <1>4, <1>5 DEF IInv

LEMMA OpenStep ==
    ASSUME IInv, NEW f \in Fetch, OpenTmp(f)
    PROVE  IInv'
<1>1. remaining' = [remaining EXCEPT ![f] = remaining[f]] /\ remaining[f] \in 0..Size
  BY DEF IInv, TypeOK, OpenTmp
<1>2. /\ handle' \in [Fetch -> {"none", "open", "closed"}]
      /\ inode' \in [Fetch -> Inode] /\ bytes' \in [Inode -> SUBSET Whole]
      /\ tmp' \in Inode \union {Nothing}
      /\ UNCHANGED <<connVars, sock, idle, result, dest, wake, credit>>
  BY DEF IInv, TypeOK, OpenTmp
<1>3. NextRead(f, remaining[f])
  BY DEF OpenTmp
<1> QED
  BY <1>1, <1>2, <1>3, LoopStep DEF IInv, TypeOK

LEMMA WriteStep ==
    ASSUME IInv, NEW f \in Fetch, WriteChunk(f)
    PROVE  IInv'
<1> DEFINE n == Asked(f)
           rest == remaining[f] - n
           debt == Debt(Spend(credit, n))
<1>1. /\ n \in Nat /\ n > 0 /\ rest \in 0..Size
  <2>1. step[f] = "write" /\ remaining[f] > 0 /\ remaining[f] \in 0..Size
    BY DEF IInv, TypeOK, Left, WriteChunk
  <2>2. n \in Nat /\ n > 0 /\ n <= remaining[f]
    BY <2>1, AskedRange DEF IInv
  <2> HIDE DEF n
  <2> QED
    BY <2>1, <2>2, TransferAssumption
<1>2. /\ UNCHANGED <<connVars, sock, idle, result, handle, inode, tmp, dest>>
      /\ step[f] = "write"
  BY DEF WriteChunk
<1>3. CASE /\ Throw(f)
           /\ UNCHANGED <<bytes, remaining, credit, wake, buffered, paused>>
  <2>1. TypeOK'
    BY <1>2, <1>3 DEF IInv, TypeOK, Throw, StartFail
  <2>2. \A g \in Fetch : step'[g] = step[g] \/ step'[g] = "over"
    BY <1>3 DEF IInv, TypeOK, Throw
  <2> QED
    BY <1>3, <2>1, <2>2, QuietStep
<1>4. CASE /\ bytes' = [bytes EXCEPT ![inode[f]] =
                           @ \union ((Size - remaining[f] + 1)..(Size - rest))]
           /\ remaining' = [remaining EXCEPT ![f] = rest]
           /\ credit' = Spend(credit, n)
           /\ wake' = [wake EXCEPT ![f] = debt]
           /\ IF debt > 0
              THEN /\ step' = [step EXCEPT ![f] = "sleep"]
                   /\ UNCHANGED <<buffered, paused, failing>>
              ELSE NextRead(f, rest)
  <2>1. /\ credit' \in Int /\ credit' <= Burst
        /\ debt \in Nat
    BY <1>1, <1>4, BurstAssumption DEF IInv, TypeOK, Spend, Debt
  <2>2. wake' \in [Fetch -> Nat]
    BY <1>4, <2>1 DEF IInv, TypeOK
  <2>3. ((Size - remaining[f] + 1)..(Size - rest)) \subseteq Whole
    BY <1>1, TransferAssumption DEF IInv, TypeOK, Whole
  <2>4. bytes' \in [Inode -> SUBSET Whole]
    BY <1>4, <2>3 DEF IInv, TypeOK
  <2>5. CASE debt > 0
    <3> HIDE DEF n, rest, debt
    <3>1. /\ remaining' \in [Fetch -> 0..Size]
          /\ step' \in [Fetch -> Steps] /\ step'[f] = "sleep"
          /\ \A g \in Fetch \ {f} :
                step'[g] = step[g] /\ remaining'[g] = remaining[g]
      BY <1>1, <1>4, <2>5 DEF IInv, TypeOK
    <3>2. TypeOK'
      BY <1>2, <1>4, <2>1, <2>2, <2>4, <2>5, <3>1 DEF IInv, TypeOK
    <3>3. Marks' /\ Backpressure'
      BY <1>4, <2>5 DEF IInv, Marks, Backpressure
    <3>4. Waits' /\ Left'
      BY <1>4, <2>5, <3>1 DEF IInv, Waits, Left, Waiting, Asked
    <3> QED
      BY <3>2, <3>3, <3>4 DEF IInv
  <2>6. CASE ~(debt > 0)
    <3>1. NextRead(f, rest)
      BY <1>4, <2>6
    <3> HIDE DEF n, rest, debt
    <3>2. /\ handle' \in [Fetch -> {"none", "open", "closed"}]
          /\ inode' \in [Fetch -> Inode] /\ tmp' \in Inode \union {Nothing}
      BY <1>2 DEF IInv, TypeOK
    <3> QED
      BY <1>1, <1>2, <1>4, <2>1, <2>2, <2>4, <3>1, <3>2, LoopStep
  <2> QED
    BY <2>5, <2>6
<1> QED
  BY <1>3, <1>4 DEF WriteChunk

LEMMA WakeStep ==
    ASSUME IInv, NEW f \in Fetch, Wake(f)
    PROVE  IInv'
<1>1. remaining' = [remaining EXCEPT ![f] = remaining[f]] /\ remaining[f] \in 0..Size
  BY DEF IInv, TypeOK, Wake
<1>2. NextRead(f, remaining[f])
  BY DEF Wake
<1> QED
  BY <1>1, <1>2, LoopStep DEF IInv, TypeOK, Wake

\* The steps that neither read nor fill the buffer.
LEMMA OtherStep ==
    ASSUME IInv, NEW f \in Fetch,
           \/ CloseTmp(f) \/ RenameTmp(f) \/ Stamp(f) \/ FailStep(f)
           \/ DeliverEnd(f) \/ IdleTimeout(f) \/ ConnectionFail(f) \/ PeerStops(f)
           \/ DiskFail(f)
    PROVE  IInv'
<1>1. CASE CloseTmp(f)
  <2>1. TypeOK'
    BY <1>1 DEF IInv, TypeOK, CloseTmp
  <2>2. /\ step[f] = "close" /\ step'[f] = "rename"
        /\ \A g \in Fetch \ {f} : step'[g] = step[g]
        /\ UNCHANGED <<buffered, paused, remaining>>
    BY <1>1 DEF IInv, TypeOK, CloseTmp
  <2> QED
    BY <2>1, <2>2 DEF IInv, Marks, Backpressure, Waits, Left, Waiting, Asked
<1>2. CASE RenameTmp(f)
  <2>1. TypeOK'
    BY <1>2 DEF IInv, TypeOK, RenameTmp, Throw, StartFail
  <2>2. /\ step[f] = "rename" /\ step'[f] \in {"stamp", "over"}
        /\ \A g \in Fetch \ {f} : step'[g] = step[g]
        /\ UNCHANGED <<buffered, paused, remaining>>
    BY <1>2 DEF IInv, TypeOK, RenameTmp, Throw
  <2> QED
    BY <2>1, <2>2 DEF IInv, Marks, Backpressure, Waits, Left, Waiting, Asked
<1>3. CASE Stamp(f)
  <2>1. TypeOK'
    BY <1>3 DEF IInv, TypeOK, Stamp
  <2> QED
    BY <1>3, <2>1, QuietStep DEF IInv, TypeOK, Stamp
<1>4. CASE FailClose(f)
  <2>1. TypeOK'
    BY <1>4 DEF IInv, TypeOK, FailClose
  <2> QED
    BY <1>4, <2>1, QuietStep DEF IInv, TypeOK, FailClose
<1>5. CASE FailUnlink(f)
  <2>1. TypeOK'
    BY <1>5 DEF IInv, TypeOK, FailUnlink
  <2> QED
    BY <1>5, <2>1, QuietStep DEF IInv, TypeOK, FailUnlink
<1>6. CASE DeliverEnd(f)
  <2>1. TypeOK'
    BY <1>6 DEF IInv, TypeOK, DeliverEnd, Throw, StartFail
  <2> QED
    BY <1>6, <2>1, QuietStep DEF IInv, TypeOK, DeliverEnd, Throw
<1>7. CASE IdleTimeout(f)
  <2>1. TypeOK'
    BY <1>7 DEF IInv, TypeOK, IdleTimeout, StartFail
  <2> QED
    BY <1>7, <2>1, QuietStep DEF IInv, TypeOK, IdleTimeout
<1>8. CASE ConnectionFail(f)
  <2>1. TypeOK'
    BY <1>8 DEF IInv, TypeOK, ConnectionFail, StartFail
  <2> QED
    BY <1>8, <2>1, QuietStep DEF IInv, TypeOK, ConnectionFail
<1>9. CASE PeerStops(f)
  <2>1. TypeOK'
    BY <1>9 DEF IInv, TypeOK, PeerStops
  <2> QED
    BY <1>9, <2>1, QuietStep DEF IInv, TypeOK, PeerStops
<1>10. CASE DiskFail(f)
  <2>1. TypeOK'
    BY <1>10 DEF IInv, TypeOK, DiskFail, Throw, StartFail
  <2> QED
    BY <1>10, <2>1, QuietStep DEF IInv, TypeOK, DiskFail, Throw
<1> QED
  BY <1>1, <1>2, <1>3, <1>4, <1>5, <1>6, <1>7, <1>8, <1>9, <1>10 DEF FailStep

LEMMA SendStep ==
    ASSUME IInv, NEW f \in Fetch, NEW k \in 1..Window, ServerSend(f, k)
    PROVE  IInv'
<1>1. TypeOK'
  BY TransferAssumption DEF IInv, TypeOK, ServerSend
<1> QED
  BY <1>1, QuietStep DEF IInv, TypeOK, ServerSend

LEMMA TickStep ==
    ASSUME IInv, Tick
    PROVE  IInv'
<1>1. credit' \in Int /\ credit' <= Burst
  BY BurstAssumption DEF IInv, TypeOK, Tick, Capped
<1>2. idle' \in [Fetch -> 0..Timeout]
  <2>1. \A f \in Fetch : sock[f] = "open" => idle[f] + 1 \in 0..Timeout
    <3> SUFFICES ASSUME NEW f \in Fetch, sock[f] = "open"
                 PROVE  idle[f] + 1 \in 0..Timeout
      OBVIOUS
    <3>1. idle[f] # Timeout
      BY DEF Tick, Ready
    <3>2. idle[f] \in 0..Timeout
      BY DEF IInv, TypeOK
    <3> QED
      BY <3>1, <3>2, TransferAssumption
  <2> QED
    BY <2>1 DEF IInv, TypeOK, Tick
<1>3. wake' \in [Fetch -> Nat]
  BY DEF IInv, TypeOK, Tick
<1>4. TypeOK'
  BY <1>1, <1>2, <1>3 DEF IInv, TypeOK, Tick
<1> QED
  BY <1>4 DEF IInv, Tick, Marks, Backpressure, Waits, Left, Waiting, Asked

LEMMA NextIInv ==
    ASSUME IInv, [Next]_vars
    PROVE  IInv'
<1>1. CASE UNCHANGED vars
  BY <1>1 DEF vars, IInv, TypeOK, Marks, Backpressure, Waits, Left, Waiting, Asked
<1>2. ASSUME NEW f \in Fetch, FetchStep(f) PROVE IInv'
  BY <1>2, OpenStep, WriteStep, WakeStep, OtherStep DEF FetchStep
<1>3. ASSUME NEW f \in Fetch, NetStep(f) PROVE IInv'
  BY <1>3, DeliverStep, SendStep, OtherStep DEF NetStep
<1>4. ASSUME NEW f \in Fetch,
             \/ FailStep(f) \/ IdleTimeout(f) \/ ConnectionFail(f) \/ PeerStops(f)
             \/ DiskFail(f)
      PROVE  IInv'
  BY <1>4, OtherStep
<1> QED
  BY <1>1, <1>2, <1>3, <1>4, TickStep DEF Next

THEOREM Inductive == Spec => []IInv
BY InitIInv, NextIInv, PTL DEF Spec

\* A waiting read asks for less than the low mark, below which the socket is never
\* left paused.
LEMMA IInvNoStall == IInv => NoStall
<1> SUFFICES ASSUME IInv, NEW f \in Fetch, Waiting(f), paused[f]
             PROVE  FALSE
  BY DEF NoStall
<1>1. buffered[f] >= SOCKET_LOW_WATER /\ buffered[f] < Asked(f) /\ buffered[f] \in Nat
  BY DEF IInv, TypeOK, Marks, Waits
<1>2. Asked(f) \in Nat /\ Asked(f) <= BUFFER_SIZE
  BY AskedRange DEF IInv
<1> QED
  BY <1>1, <1>2, MarksAssumption, TransferAssumption

\* The variables of a transfer have their types.
THEOREM TransferTypes == Spec => []TypeOK
BY Inductive, PTL DEF IInv

\* Whatever the limiter, the disk and the peer do, the unread bytes of a connection
\* stay below the high mark and one delivery.
THEOREM BoundedBuffer == Spec => []Backpressure
BY Inductive, PTL DEF IInv

\* fetchFile never waits for bytes from a socket it has paused itself.
THEOREM NeverStalls == Spec => []NoStall
BY Inductive, IInvNoStall, PTL

-----------------------------------------------------------------------------
(* One fetch at a time.                                                    *)

\* A fetch has written what it has read, from the first byte on, and the file is
\* left alone once it is at the destination.
Content ==
    \A f \in Fetch :
        /\ inode[f] = f
        /\ step[f] \in {"write", "read", "sleep", "close", "rename", "stamp"} =>
              bytes[f] = 1..(Size - remaining[f])
        /\ dest # Old => step[f] \in {"stamp", "over"} /\ bytes[f] = Whole

LEMMA InitContent == Init => Content
BY DEF Init, Content

\* Where the loop's next read takes the function.
LEMMA NextReadGoes ==
    ASSUME IInv, NEW f \in Fetch, NEW rest, NextRead(f, rest)
    PROVE  step'[f] \in {"close", "write", "over", "read"}
BY DEF NextRead, Throw, IInv, TypeOK

LEMMA NextContent ==
    ASSUME NEW f, Fetch = {f}, IInv, Content, [Next]_vars
    PROVE  Content'
<1>1. CASE OpenTmp(f)
  <2>1. (IF tmp = Nothing THEN f ELSE tmp) = f
    BY DEF IInv, TypeOK
  <2>2. /\ inode'[f] = f /\ bytes'[f] = {} /\ remaining' = remaining /\ dest' = dest
        /\ step[f] = "open" /\ NextRead(f, remaining[f])
    BY <1>1, <2>1 DEF OpenTmp, IInv, TypeOK
  <2>3. step'[f] \in {"close", "write", "over", "read"}
    BY <2>2, NextReadGoes
  <2>4. remaining[f] = Size /\ 1..(Size - Size) = {}
    BY <2>2, TransferAssumption DEF IInv, Left
  <2> QED
    BY <2>2, <2>3, <2>4 DEF Content
<1>2. CASE WriteChunk(f)
  <2>1. step[f] = "write" /\ UNCHANGED <<inode, dest>> /\ dest = Old
    BY <1>2 DEF WriteChunk, Content
  <2>2. CASE Throw(f)
    BY <2>1, <2>2 DEF Content, Throw, IInv, TypeOK
  <2>3. CASE /\ bytes' = [bytes EXCEPT ![inode[f]] =
                    @ \union ((Size - remaining[f] + 1)..(Size - (remaining[f] - Asked(f))))]
             /\ remaining' = [remaining EXCEPT ![f] = remaining[f] - Asked(f)]
    <3>1. /\ bytes'[f] = bytes[f] \union
                ((Size - remaining[f] + 1)..(Size - (remaining[f] - Asked(f))))
          /\ remaining'[f] = remaining[f] - Asked(f)
          /\ bytes[f] = 1..(Size - remaining[f])
      BY <2>1, <2>3 DEF Content, IInv, TypeOK
    <3>2. /\ Asked(f) \in Nat /\ Asked(f) <= remaining[f]
          /\ remaining[f] \in 0..Size /\ Size \in Nat
      BY <2>1, AskedRange, TransferAssumption DEF IInv, TypeOK
    <3> DEFINE r == remaining[f]
               n == Asked(f)
    <3>3. \A x \in 0..Size, y \in Nat : y <= x =>
             (1..(Size - x)) \union ((Size - x + 1)..(Size - (x - y))) = 1..(Size - (x - y))
      BY <3>2
    <3>4. bytes'[f] = 1..(Size - remaining'[f])
      BY <3>1, <3>2, <3>3
    <3> QED
      BY <2>1, <3>4 DEF Content
  <2> QED
    BY <1>2, <2>2, <2>3 DEF WriteChunk
<1>3. CASE Wake(f)
  <2>1. step'[f] \in {"close", "write", "over", "read"}
    BY <1>3, NextReadGoes DEF Wake
  <2> QED
    BY <1>3, <2>1 DEF Content, Wake
<1>4. CASE CloseTmp(f)
  BY <1>4 DEF Content, CloseTmp, IInv, TypeOK
<1>5. CASE RenameTmp(f)
  <2>1. step[f] = "rename" /\ remaining[f] = 0 /\ 1..(Size - 0) = Whole
    BY <1>5, TransferAssumption DEF RenameTmp, IInv, Left, Whole
  <2>2. step'[f] \in {"stamp", "over"} /\ UNCHANGED <<inode, bytes, remaining>>
    BY <1>5 DEF RenameTmp, Throw, IInv, TypeOK
  <2> QED
    BY <2>1, <2>2 DEF Content
<1>6. CASE Stamp(f)
  BY <1>6 DEF Content, Stamp, IInv, TypeOK
<1>7. CASE \E k \in 1..Window : Deliver(f, k)
  <2> PICK k \in 1..Window : Deliver(f, k)
    BY <1>7
  <2>1. UNCHANGED <<inode, bytes, remaining, dest>>
    BY DEF Deliver
  <2>2. \/ step'[f] = step[f] \/ step'[f] = "over"
        \/ step[f] = "header" /\ step'[f] = "open"
        \/ step[f] = "read" /\ step'[f] = "write"
    BY DEF Deliver, Received, Waiting, Throw, IInv, TypeOK
  <2> QED
    BY <2>1, <2>2 DEF Content
<1>8. CASE \/ FailStep(f) \/ DeliverEnd(f) \/ IdleTimeout(f) \/ ConnectionFail(f)
           \/ PeerStops(f) \/ DiskFail(f) \/ \E k \in 1..Window : ServerSend(f, k)
  <2>1. UNCHANGED <<inode, bytes, remaining, dest>>
    BY <1>8 DEF FailStep, FailClose, FailUnlink, DeliverEnd, IdleTimeout, ConnectionFail,
                PeerStops, DiskFail, ServerSend
  <2>2. step'[f] = step[f] \/ step'[f] = "over"
    BY <1>8 DEF FailStep, FailClose, FailUnlink, DeliverEnd, IdleTimeout, ConnectionFail,
                PeerStops, DiskFail, ServerSend, Throw, IInv, TypeOK
  <2> QED
    BY <2>1, <2>2 DEF Content
<1>9. CASE Tick \/ UNCHANGED vars
  BY <1>9 DEF Content, Tick, vars
<1> QED
  BY <1>1, <1>2, <1>3, <1>4, <1>5, <1>6, <1>7, <1>8, <1>9
     DEF Next, FetchStep, NetStep

\* With one fetch at a time under a name, what is renamed over the destination is
\* whole, whatever the network, the peer, the disk, the timer and fail() do: the engine may
\* take a transfer for one step.
THEOREM WholeFiles ==
    ASSUME NEW f, Fetch = {f}
    PROVE  Spec => []InstalledWhole
<1>1. Spec => [](IInv /\ Content)
  <2>1. Init => IInv /\ Content
    BY InitIInv, InitContent
  <2>2. IInv /\ Content /\ [Next]_vars => (IInv /\ Content)'
    BY NextIInv, NextContent
  <2> QED
    BY <2>1, <2>2, PTL DEF Spec
<1>2. IInv /\ Content => InstalledWhole
  BY DEF IInv, TypeOK, Content, InstalledWhole
<1> QED
  BY <1>1, <1>2, PTL

-----------------------------------------------------------------------------
(* The token bucket.                                                       *)

\* The one number kept for the bucket follows it: a call of consume() spends n from
\* it and sleeps off what it then owes, and a unit of time adds a unit, up to the
\* burst.  A debt is therefore slept off once, although `last` is set ahead.
THEOREM BucketIsCredit ==
    ASSUME NEW bucket \in [allowance : Int, last : Int], NEW n \in Nat, NEW now \in Int
    PROVE  /\ Credit(Consume(bucket, n, now).bucket, now) = Spend(Credit(bucket, now), n)
           /\ Consume(bucket, n, now).sleep = Debt(Spend(Credit(bucket, now), n))
           /\ Credit(bucket, now + 1) = Capped(Credit(bucket, now) + 1)
<1> DEFINE a == Capped(bucket.allowance + (now - bucket.last)) - n
<1>1. a \in Int /\ a <= Burst - n /\ Burst \in Nat
  BY BurstAssumption DEF Capped
<1>2. CASE a < 0
  BY <1>1, <1>2 DEF Consume, Credit, Spend, Debt, Capped
<1>3. CASE ~(a < 0)
  BY <1>1, <1>3 DEF Consume, Credit, Spend, Debt, Capped
<1>4. Credit(bucket, now + 1) = Capped(Credit(bucket, now) + 1)
  BY BurstAssumption DEF Credit, Capped
<1> QED
  BY <1>2, <1>3, <1>4
=============================================================================
