---------------------------- MODULE FileTransfer ----------------------------
(***************************************************************************)
(* Pulling one file (electron/field/transport.ts): fetchFile on this       *)
(* machine, SocketReader's buffer with its backpressure, the rate limiter  *)
(* the fetches of an engine share, the temp file they share as well, and   *)
(* the peer's sendFile at the other end of each connection.                *)
(*                                                                         *)
(* Two things happen at once in a fetch: the function that reads, writes   *)
(* and renames, and fail(), which an error or the idle timer of the socket *)
(* may start at any of its awaits.                                         *)
(***************************************************************************)
EXTENDS RateLimiter

CONSTANTS
    Fetch,                \* calls of fetchFile for this file
    Size,                 \* its announced size, in units of data
    Grown,                \* how much more the peer may find when it reads it
    BUFFER_SIZE,          \* what one read asks for at most
    SOCKET_HIGH_WATER, SOCKET_LOW_WATER, SOCKET_MAX_BUFFER,
    Window,               \* what a connection holds between the machines
    Timeout,              \* the idle time after which a fetch fails
    Faults                \* which of "net", "silent", "shrink", "disk" may happen

ASSUME TransferAssumption ==
    /\ Size \in Nat /\ Grown \in Nat
    /\ BUFFER_SIZE \in Nat \ {0}
    /\ SOCKET_LOW_WATER \in Nat /\ SOCKET_HIGH_WATER \in Nat
    /\ SOCKET_MAX_BUFFER \in Nat
    /\ Window \in Nat \ {0}
    /\ Timeout \in Nat \ {0}

\* The marks of constants.ts: 64 KiB, 1 MiB, 4 MiB.
ASSUME MarksAssumption ==
    /\ BUFFER_SIZE <= SOCKET_LOW_WATER
    /\ SOCKET_LOW_WATER <= SOCKET_HIGH_WATER

VARIABLES
    left,      \* left[f]: what the peer has yet to send on f's connection
    flight,    \* flight[f]: sent and not received
    alive,     \* alive[f]: the peer sends all it announced, the network works
    intact,    \* intact[f]: this machine's disk has not failed f
    buffered,  \* buffered[f]: received and not read
    paused,    \* paused[f]: the socket is paused
    sock,      \* sock[f]: "open", "ended" (by the peer) or "broken"
    idle,      \* idle[f]: time since the last activity on the socket
    step,      \* step[f]: where the function is
    remaining, \* remaining[f]: what it has yet to read
    wake,      \* wake[f]: how long it has yet to sleep
    failing,   \* failing[f]: where fail() is
    result,    \* result[f]: what became of the promise
    handle,    \* handle[f]: "none", "open" or "closed"
    inode,     \* inode[f]: the file behind the handle
    bytes,     \* bytes[i]: the units of file i that have been written
    tmp, dest, \* the files under the temp name and the destination
    credit     \* the limiter

connVars == <<left, flight, alive, intact>>
sockVars == <<buffered, paused, sock, idle>>
callVars == <<step, remaining, wake, failing, result>>
fileVars == <<handle, inode, bytes, tmp, dest>>
vars == <<connVars, sockVars, callVars, fileVars, credit>>

Nothing == "nothing"  \* no such file
Old == "old"          \* what was at the destination before
Inode == Fetch        \* a fetch that finds no temp file creates one of its own
Whole == 1..Size

HEADER == 1           \* status, mtime and size

Init ==
    /\ \E more \in 0..Grown : left = [f \in Fetch |-> HEADER + Size + more]
    /\ flight = [f \in Fetch |-> 0]
    /\ alive = [f \in Fetch |-> TRUE]
    /\ intact = [f \in Fetch |-> TRUE]
    /\ buffered = [f \in Fetch |-> 0]
    /\ paused = [f \in Fetch |-> FALSE]
    /\ sock = [f \in Fetch |-> "open"]
    /\ idle = [f \in Fetch |-> 0]
    /\ step = [f \in Fetch |-> "header"]
    /\ remaining = [f \in Fetch |-> Size]
    /\ wake = [f \in Fetch |-> 0]
    /\ failing = [f \in Fetch |-> "no"]
    /\ result = [f \in Fetch |-> "pending"]
    /\ handle = [f \in Fetch |-> "none"]
    /\ inode = [f \in Fetch |-> f]
    /\ bytes = [i \in Inode |-> {}]
    /\ tmp = Nothing
    /\ dest = Old
    /\ credit = Burst

-----------------------------------------------------------------------------
(* SocketReader.                                                           *)

\* A read the function is waiting for, and how much it asks for.
Waiting(f) == step[f] \in {"header", "read"}
Asked(f) == IF step[f] = "header" THEN HEADER
            ELSE IF remaining[f] < BUFFER_SIZE THEN remaining[f] ELSE BUFFER_SIZE

\* Mutant: the socket is resumed when nothing is left to read.
TakeResumesWhenEmpty(f, b, p, n) ==
    /\ buffered' = [buffered EXCEPT ![f] = b - n]
    /\ paused' = [paused EXCEPT ![f] = p /\ b - n > 0]

\* take(n) out of b buffered units: the socket is resumed below the low mark.
Take(f, b, p, n) ==
    /\ buffered' = [buffered EXCEPT ![f] = b - n]
    /\ paused' = [paused EXCEPT ![f] = p /\ b - n >= SOCKET_LOW_WATER]

\* Mutant: the mark at which the socket is paused is the one at which it fails.
PausesLate(p, b) == p \/ b > SOCKET_MAX_BUFFER

\* A socket pauses above the high mark.
Pauses(p, b) == p \/ b > SOCKET_HIGH_WATER

\* fail(): nothing if the promise is settled or fail has run.
StartFail(f) ==
    failing' = IF failing[f] = "no" /\ result[f] = "pending"
               THEN [failing EXCEPT ![f] =
                        IF handle[f] = "none" THEN "unlink" ELSE "close"]
               ELSE failing

\* The function throws; its catch calls fail().
Throw(f) ==
    /\ step' = [step EXCEPT ![f] = "over"]
    /\ StartFail(f)

\* Mutant: a connection that is over is taken for the end of the file.
EndOfFile(f) ==
    /\ step' = [step EXCEPT ![f] = "close"]
    /\ UNCHANGED failing

\* A read that the connection can no longer serve is rejected.
RanOut(f) == Throw(f)

\* A chunk is here: on to the step that handles it.
Received(f) ==
    step' = [step EXCEPT ![f] = IF @ = "header" THEN "open" ELSE "write"]

\* 'data': k units come in.
Deliver(f, k) ==
    LET b == buffered[f] + k
        p == Pauses(paused[f], b)
    IN  /\ sock[f] = "open" /\ ~paused[f]
        /\ k \in 1..flight[f]
        /\ flight' = [flight EXCEPT ![f] = @ - k]
        /\ idle' = [idle EXCEPT ![f] = 0]
        /\ IF b > SOCKET_MAX_BUFFER
           THEN /\ buffered' = [buffered EXCEPT ![f] = 0]
                /\ sock' = [sock EXCEPT ![f] = "broken"]
                /\ IF Waiting(f) THEN Throw(f) ELSE UNCHANGED <<step, failing>>
                /\ UNCHANGED paused
           ELSE /\ IF Waiting(f) /\ b >= Asked(f)
                   THEN Take(f, b, p, Asked(f)) /\ Received(f)
                   ELSE /\ buffered' = [buffered EXCEPT ![f] = b]
                        /\ paused' = [paused EXCEPT ![f] = p]
                        /\ UNCHANGED step
                /\ UNCHANGED <<sock, failing>>
        /\ UNCHANGED <<left, alive, intact, remaining, wake, result, fileVars, credit>>

\* 'end': the peer has sent everything, and it has arrived.
DeliverEnd(f) ==
    /\ sock[f] = "open" /\ ~paused[f]
    /\ left[f] = 0 /\ flight[f] = 0
    /\ sock' = [sock EXCEPT ![f] = "ended"]
    /\ IF Waiting(f) THEN Throw(f) ELSE UNCHANGED <<step, failing>>
    /\ UNCHANGED <<connVars, buffered, paused, idle, remaining, wake, result,
                   fileVars, credit>>

\* The peer writes what the connection takes.
ServerSend(f, k) ==
    /\ sock[f] = "open" /\ alive[f]
    /\ k \in 1..left[f] /\ flight[f] + k <= Window
    /\ left' = [left EXCEPT ![f] = @ - k]
    /\ flight' = [flight EXCEPT ![f] = @ + k]
    /\ UNCHANGED <<alive, intact, sockVars, callVars, fileVars, credit>>

-----------------------------------------------------------------------------
(* The function.                                                           *)

\* The loop's next read, or its end.
NextRead(f, rest) ==
    LET n == IF rest < BUFFER_SIZE THEN rest ELSE BUFFER_SIZE
    IN  \/ /\ rest = 0
           /\ step' = [step EXCEPT ![f] = "close"]
           /\ UNCHANGED <<buffered, paused, failing>>
        \/ /\ rest > 0 /\ buffered[f] >= n
           /\ Take(f, buffered[f], paused[f], n)
           /\ step' = [step EXCEPT ![f] = "write"]
           /\ UNCHANGED failing
        \/ /\ rest > 0 /\ buffered[f] < n /\ sock[f] # "open"
           /\ RanOut(f)
           /\ UNCHANGED <<buffered, paused>>
        \/ /\ rest > 0 /\ buffered[f] < n /\ sock[f] = "open"
           /\ step' = [step EXCEPT ![f] = "read"]
           /\ UNCHANGED <<buffered, paused, failing>>

\* open(tmp, 'w'): the file under the temp name is truncated, if there is one.
OpenTmp(f) ==
    LET i == IF tmp = Nothing THEN f ELSE tmp
    IN  /\ step[f] = "open"
        /\ handle' = [handle EXCEPT ![f] = "open"]
        /\ inode' = [inode EXCEPT ![f] = i]
        /\ bytes' = [bytes EXCEPT ![i] = {}]
        /\ tmp' = i
        /\ NextRead(f, remaining[f])
        /\ UNCHANGED <<connVars, sock, idle, remaining, wake, result, dest, credit>>

\* One chunk is written and accounted for; the limiter may order a sleep.
WriteChunk(f) ==
    LET n == Asked(f)
        rest == remaining[f] - n
        debt == Debt(Spend(credit, n))
    IN  /\ step[f] = "write"
        /\ \/ /\ handle[f] = "closed"
              /\ Throw(f)
              /\ UNCHANGED <<bytes, remaining, credit, wake, buffered, paused>>
           \/ /\ handle[f] = "open"
              /\ bytes' = [bytes EXCEPT ![inode[f]] =
                              @ \union ((Size - remaining[f] + 1)..(Size - rest))]
              /\ remaining' = [remaining EXCEPT ![f] = rest]
              /\ credit' = Spend(credit, n)
              /\ wake' = [wake EXCEPT ![f] = debt]
              /\ IF debt > 0
                 THEN /\ step' = [step EXCEPT ![f] = "sleep"]
                      /\ UNCHANGED <<buffered, paused, failing>>
                 ELSE NextRead(f, rest)
        /\ UNCHANGED <<connVars, sock, idle, result, handle, inode, tmp, dest>>

Wake(f) ==
    /\ step[f] = "sleep" /\ wake[f] = 0
    /\ NextRead(f, remaining[f])
    /\ UNCHANGED <<connVars, sock, idle, remaining, wake, result, fileVars, credit>>

CloseTmp(f) ==
    /\ step[f] = "close"
    /\ handle' = [handle EXCEPT ![f] = "none"]
    /\ step' = [step EXCEPT ![f] = "rename"]
    /\ UNCHANGED <<connVars, sockVars, remaining, wake, failing, result, inode,
                   bytes, tmp, dest, credit>>

RenameTmp(f) ==
    /\ step[f] = "rename"
    /\ \/ /\ tmp = Nothing
          /\ Throw(f)
          /\ UNCHANGED <<tmp, dest>>
       \/ /\ tmp # Nothing
          /\ dest' = tmp
          /\ tmp' = Nothing
          /\ step' = [step EXCEPT ![f] = "stamp"]
          /\ UNCHANGED failing
    /\ UNCHANGED <<connVars, sockVars, remaining, wake, result, handle, inode,
                   bytes, credit>>

\* utimes; then the promise is resolved, unless fail() has come first.
Stamp(f) ==
    /\ step[f] = "stamp"
    /\ step' = [step EXCEPT ![f] = "over"]
    /\ result' = IF failing[f] = "no"
                 THEN [result EXCEPT ![f] = "resolved"] ELSE result
    /\ sock' = IF failing[f] = "no"
               THEN [sock EXCEPT ![f] = "ended"] ELSE sock
    /\ UNCHANGED <<connVars, buffered, paused, idle, remaining, wake, failing,
                   fileVars, credit>>

-----------------------------------------------------------------------------
(* fail().                                                                 *)

FailClose(f) ==
    /\ failing[f] = "close"
    /\ failing' = [failing EXCEPT ![f] = "unlink"]
    /\ handle' = [handle EXCEPT ![f] = IF @ = "none" THEN @ ELSE "closed"]
    /\ UNCHANGED <<connVars, sockVars, step, remaining, wake, result, inode, bytes,
                   tmp, dest, credit>>

\* Mutant: the socket is left to itself, and so is a read that waits for it.
FailKeepsSocket(f) ==
    /\ failing[f] = "unlink"
    /\ failing' = [failing EXCEPT ![f] = "over"]
    /\ tmp' = Nothing
    /\ result' = [result EXCEPT ![f] = "rejected"]
    /\ UNCHANGED <<connVars, sockVars, step, remaining, wake, handle, inode, bytes,
                   dest, credit>>

\* The temp file goes, if it can be removed; then the socket is destroyed, which
\* ends a read the function waits for, and the promise rejected.
FailUnlink(f) ==
    /\ failing[f] = "unlink"
    /\ failing' = [failing EXCEPT ![f] = "over"]
    /\ tmp' = Nothing \/ ("disk" \in Faults /\ UNCHANGED tmp)
    /\ sock' = [sock EXCEPT ![f] = "broken"]
    /\ result' = [result EXCEPT ![f] = "rejected"]
    /\ step' = IF Waiting(f) THEN [step EXCEPT ![f] = "over"] ELSE step
    /\ UNCHANGED <<connVars, buffered, paused, idle, remaining, wake, handle,
                   inode, bytes, dest, credit>>

-----------------------------------------------------------------------------
(* Time and faults.                                                        *)

IdleTimeout(f) ==
    /\ sock[f] = "open" /\ idle[f] = Timeout
    /\ failing[f] = "no" /\ result[f] = "pending"
    /\ StartFail(f)
    /\ UNCHANGED <<connVars, sockVars, step, remaining, wake, result, fileVars,
                   credit>>

\* 'error': the connection breaks.
ConnectionFail(f) ==
    /\ "net" \in Faults
    /\ sock[f] = "open"
    /\ alive' = [alive EXCEPT ![f] = FALSE]
    /\ sock' = [sock EXCEPT ![f] = "broken"]
    /\ StartFail(f)
    /\ step' = IF Waiting(f) THEN [step EXCEPT ![f] = "over"] ELSE step
    /\ UNCHANGED <<left, flight, intact, buffered, paused, idle, remaining, wake,
                   result, fileVars, credit>>

\* The disk fails what the function asks of it: to make the folder and open the
\* temp file, to write, close or rename it, to stamp what it has become.
DiskFail(f) ==
    /\ "disk" \in Faults
    /\ step[f] \in {"open", "write", "close", "rename", "stamp"}
    /\ intact' = [intact EXCEPT ![f] = FALSE]
    /\ Throw(f)
    /\ UNCHANGED <<left, flight, alive, sockVars, remaining, wake, result, fileVars,
                   credit>>

\* The peer goes silent for good, or finds less in the file than it announced
\* and ends the connection early.
PeerStops(f) ==
    /\ sock[f] = "open" /\ alive[f] /\ left[f] > 0
    /\ alive' = [alive EXCEPT ![f] = FALSE]
    /\ \/ "silent" \in Faults /\ UNCHANGED left
       \/ "shrink" \in Faults /\ left' = [left EXCEPT ![f] = 0]
    /\ UNCHANGED <<flight, intact, sockVars, callVars, fileVars, credit>>

\* Steps of this machine that take no time.
Ready(f) ==
    \/ step[f] \in {"open", "write", "close", "rename", "stamp"}
    \/ step[f] = "sleep" /\ wake[f] = 0
    \/ failing[f] \in {"close", "unlink"}
    \/ sock[f] = "open" /\ idle[f] = Timeout

\* What a connection that works owes a socket that is not paused: data, or the end.
Moving(f) ==
    /\ sock[f] = "open" /\ ~paused[f]
    /\ alive[f] \/ flight[f] > 0

\* This machine is faster than the clock, and a peer that is alive is never
\* silent until the timer expires.
Tick ==
    /\ \E f \in Fetch : step[f] # "over"
    /\ \A f \in Fetch : ~Ready(f) /\ (Moving(f) => idle[f] + 1 < Timeout)
    /\ idle' = [f \in Fetch |->
                    IF sock[f] = "open" THEN idle[f] + 1 ELSE idle[f]]
    /\ wake' = [f \in Fetch |-> IF wake[f] > 0 THEN wake[f] - 1 ELSE 0]
    /\ credit' = Capped(credit + 1)
    /\ UNCHANGED <<connVars, buffered, paused, sock, step, remaining, failing,
                   result, fileVars>>

-----------------------------------------------------------------------------
FetchStep(f) ==
    OpenTmp(f) \/ WriteChunk(f) \/ Wake(f) \/ CloseTmp(f) \/ RenameTmp(f) \/ Stamp(f)
FailStep(f) == FailClose(f) \/ FailUnlink(f)
NetStep(f) ==
    \/ \E k \in 1..Window : Deliver(f, k) \/ ServerSend(f, k)
    \/ DeliverEnd(f)

Next ==
    \/ \E f \in Fetch :
          \/ FetchStep(f) \/ FailStep(f) \/ NetStep(f)
          \/ IdleTimeout(f) \/ ConnectionFail(f) \/ PeerStops(f) \/ DiskFail(f)
    \/ Tick

Spec == Init /\ [][Next]_vars

\* The event loop runs what is ready, time passes, and a peer that is alive sends.
FairSpec ==
    /\ Spec
    /\ WF_vars(Tick)
    /\ \A f \in Fetch : /\ WF_vars(FetchStep(f)) /\ WF_vars(FailStep(f))
                        /\ WF_vars(NetStep(f)) /\ WF_vars(IdleTimeout(f))

-----------------------------------------------------------------------------
(* Properties.                                                             *)

Steps == {"header", "open", "read", "write", "sleep", "close", "rename", "stamp",
          "over"}

\* The types of the variables.
TypeOK ==
    /\ left \in [Fetch -> Nat] /\ flight \in [Fetch -> 0..Window]
    /\ alive \in [Fetch -> BOOLEAN] /\ intact \in [Fetch -> BOOLEAN]
    /\ buffered \in [Fetch -> Nat] /\ paused \in [Fetch -> BOOLEAN]
    /\ sock \in [Fetch -> {"open", "ended", "broken"}]
    /\ idle \in [Fetch -> 0..Timeout]
    /\ step \in [Fetch -> Steps]
    /\ remaining \in [Fetch -> 0..Size]
    /\ wake \in [Fetch -> Nat]
    /\ failing \in [Fetch -> {"no", "close", "unlink", "over"}]
    /\ result \in [Fetch -> {"pending", "resolved", "rejected"}]
    /\ handle \in [Fetch -> {"none", "open", "closed"}]
    /\ inode \in [Fetch -> Inode]
    /\ bytes \in [Inode -> SUBSET Whole]
    /\ tmp \in Inode \union {Nothing}
    /\ dest \in Inode \union {Old}
    /\ credit \in Int /\ credit <= Burst

\* Backpressure holds the unread bytes to the high mark and what one delivery
\* brings, so a peer never runs into SOCKET_MAX_BUFFER, however slow the limiter
\* or the disk (transport.ts, SocketReader's 'data' handler and take).
Backpressure == \A f \in Fetch : buffered[f] <= SOCKET_HIGH_WATER + Window

\* Nobody waits for ever: while fetchFile waits for bytes, the socket that is to
\* bring them is not paused (transport.ts, readExact, pump and take).
NoStall == \A f \in Fetch : Waiting(f) => ~paused[f]

\* What has been renamed over the destination has all its bytes, whatever fail(),
\* the timer, the network and the disk do meanwhile (transport.ts, fetchFile).
InstalledWhole == dest # Old => bytes[dest] = Whole

\* Every fetch comes to an end, also with a peer that has gone silent
\* (transport.ts, the timer of fetchFile and fail).
FetchEnds == \A f \in Fetch : <>(result[f] # "pending" /\ step[f] = "over")

\* With a network, peers and a disk that work, every fetch succeeds; a rate limit
\* only makes it slower (transport.ts, the limiter in fetchFile's loop).
Completes ==
    [](\A f \in Fetch : alive[f] /\ intact[f])
        => \A f \in Fetch : <>(result[f] = "resolved")
=============================================================================
