------------------------------- MODULE FieldHub -------------------------------
(***************************************************************************)
(* The hub of WiFiSync in the main process of one machine                  *)
(* (electron/main.ts, class FieldHub) with what it drives: the engine's    *)
(* loop, the file server, the discovery service (electron/field), and the  *)
(* panel of buttons in the window (renderer/src/app.ts).                   *)
(*                                                                         *)
(* Every start makes a new engine and a new server, numbered together by   *)
(* the session; 0 is the hub's null.  A step runs from one await to the    *)
(* next; an await of something already settled is no boundary.             *)
(***************************************************************************)
EXTENDS Integers, FiniteSets

CONSTANTS
    Peer,        \* the other machines, by address
    NoPeer,      \* no manual peer: discover them
    Caller,      \* invocations of the hub that may be under way at once
    MaxStarts,   \* how often Start is pressed
    DoubleClick  \* is Start or Stop pressed again before the first answer

ASSUME HubAssumption ==
    /\ NoPeer \notin Peer
    /\ MaxStarts \in Nat
    /\ DoubleClick \in BOOLEAN

Session == 1 .. MaxStarts
Role == {"both", "master", "slave"}

VARIABLES
    hub,     \* the fields of the hub
    eng,     \* the engines made so far
    srv,     \* the file servers made so far
    conns,   \* conns[s]: the peers server s has accepted and not yet let go
    calls,   \* the invocations under way, each at its await
    starts,  \* how many starts there were
    ui,      \* the panel: running as displayed, the role, whether it is locked
    alive    \* the peers that are up

vars == <<hub, eng, srv, conns, calls, starts, ui, alive>>

-----------------------------------------------------------------------------
(* State *)

Hub == [role : Role, negotiated : BOOLEAN, manual : Peer \cup {NoPeer},
        running : BOOLEAN, trusted : SUBSET Peer, peers : SUBSET Peer,
        pending : SUBSET Peer, engine : Session \cup {0},
        server : Session \cup {0}, discovery : BOOLEAN, seen : SUBSET Peer]
Engine == [loop : {"new", "on", "ending", "over"}, mode : Role,
           peers : SUBSET Peer, todo : SUBSET Peer]
Server == {"none", "opening", "open", "closing", "closed"}
Call == [op : {"none", "start", "fail", "stop", "connect"},
         pc : {"idle", "engine", "server", "stat", "listen", "probe"},
         peer : Peer \cup {NoPeer}, role : Role, s : Session \cup {0}]

Idle == [op |-> "none", pc |-> "idle", peer |-> NoPeer, role |-> "both", s |-> 0]
NewEngine(mode) == [loop |-> "new", mode |-> mode, peers |-> {}, todo |-> {}]

Init ==
    /\ hub = [role |-> "both", negotiated |-> FALSE, manual |-> NoPeer,
              running |-> FALSE, trusted |-> {}, peers |-> {}, pending |-> {},
              engine |-> 0, server |-> 0, discovery |-> FALSE, seen |-> {}]
    /\ eng = [s \in Session |-> NewEngine("both")]
    /\ srv = [s \in Session |-> "none"]
    /\ conns = [s \in Session |-> {}]
    /\ calls = [c \in Caller |-> Idle]
    /\ starts = 0
    /\ ui = [running |-> FALSE, role |-> "both", locked |-> FALSE]
    /\ alive \in SUBSET Peer

PowerBusy == \E c \in Caller : calls[c].op \in {"start", "fail", "stop"}
MayPress == DoubleClick \/ ~PowerBusy

\* Mutant: the engine keeps a peer it is told to remove.
WithPeersKept(h, add, drop) ==
    IF h.engine = 0 THEN eng ELSE [eng EXCEPT ![h.engine].peers = @ \cup add]

(* addPeer() and removePeer() on the engine the hub holds, if any. *)
WithPeers(h, add, drop) ==
    IF h.engine = 0 THEN eng
    ELSE [eng EXCEPT ![h.engine].peers = (@ \cup add) \ drop]

\* Mutant: the panel waits for the answer and ignores status events.
ShowNothing(on) == UNCHANGED ui

ShowRunning(on) == ui' = [ui EXCEPT !.running = on]

-----------------------------------------------------------------------------
(* stop(), which start() also begins with and falls back on.  h is the hub *)
(* as the code before has left it.                                         *)

Stopped(c, k, h) ==
    /\ hub' = [h EXCEPT !.server = 0, !.peers = {}, !.pending = {},
                        !.negotiated = FALSE, !.running = FALSE]
    /\ calls' = [calls EXCEPT ![c] =
                    IF k.op = "start" THEN [k EXCEPT !.pc = "stat", !.s = 0]
                    ELSE Idle]
    /\ ShowRunning(ui.running /\ k.op # "stop" /\ ~h.running)

LeaveServer(c, k, h) ==
    IF h.server # 0 /\ srv[h.server] = "open"
    THEN /\ srv' = [srv EXCEPT ![h.server] = "closing"]
         /\ calls' = [calls EXCEPT ![c] = [k EXCEPT !.pc = "server", !.s = h.server]]
         /\ hub' = h
         /\ UNCHANGED ui
    ELSE Stopped(c, k, h) /\ UNCHANGED srv

(* An engine that is let go and is not running reads its peers no more. *)
LetGo(e) ==
    IF e = 0 \/ eng[e].loop = "on" THEN eng
    ELSE [eng EXCEPT ![e].mode = "both", ![e].peers = {}]

(* An engine whose loop never started stops at once. *)
LeaveEngine(c, k) ==
    LET h == [hub EXCEPT !.discovery = FALSE, !.seen = {}]
        e == hub.engine
    IN  IF e # 0 /\ eng[e].loop \in {"on", "ending"}
        THEN /\ eng' = [eng EXCEPT ![e].loop = "ending"]
             /\ hub' = h
             /\ calls' = [calls EXCEPT ![c] = [k EXCEPT !.pc = "engine"]]
             /\ UNCHANGED <<srv, ui>>
        ELSE LeaveServer(c, k, [h EXCEPT !.engine = 0]) /\ eng' = LetGo(e)

(* The loop has ended, or three seconds have passed. *)
EngineLeft(c) ==
    /\ calls[c].pc = "engine"
    /\ LeaveServer(c, calls[c], [hub EXCEPT !.engine = 0])
    /\ eng' = LetGo(hub.engine)
    /\ UNCHANGED <<conns, starts, alive>>

(* close() calls back once the last connection is gone. *)
ServerLeft(c) ==
    /\ calls[c].pc = "server"
    /\ conns[calls[c].s] = {}
    /\ srv' = [srv EXCEPT ![calls[c].s] = "closed"]
    /\ Stopped(c, calls[c], hub)
    /\ UNCHANGED <<eng, conns, starts, alive>>

StopClick(c) ==
    /\ ui.running /\ MayPress
    /\ calls[c] = Idle
    /\ LeaveEngine(c, [Idle EXCEPT !.op = "stop"])
    /\ UNCHANGED <<conns, starts, alive>>

-----------------------------------------------------------------------------
(* start() *)

(* The Start button stays enabled until a start has succeeded. *)
StartClick(c, m) ==
    /\ ~ui.running /\ MayPress
    /\ calls[c] = Idle
    /\ starts + Cardinality({d \in Caller : calls[d].op = "start"}) < MaxStarts
    /\ LeaveEngine(c, [Idle EXCEPT !.op = "start", !.peer = m, !.role = ui.role])
    /\ UNCHANGED <<conns, starts, alive>>

(* The folder is not there, or not one the user picked. *)
BadFolder(c) ==
    /\ calls[c].pc = "stat"
    /\ calls' = [calls EXCEPT ![c] = Idle]
    /\ UNCHANGED <<hub, eng, srv, conns, starts, ui, alive>>

\* Mutant: what a call of the session before left in the lists stays there.
FreshButLists(k, s) ==
    [hub EXCEPT !.role = k.role, !.negotiated = FALSE, !.manual = k.peer,
                !.engine = s, !.server = s]

Fresh(k, s) ==
    [hub EXCEPT !.role = k.role, !.negotiated = FALSE, !.manual = k.peer,
                !.peers = {}, !.pending = {}, !.engine = s, !.server = s]

MakeSession(c) ==
    LET s == starts + 1
        k == calls[c]
    IN  /\ k.pc = "stat"
        /\ starts' = s
        /\ hub' = Fresh(k, s)
        /\ eng' = [eng EXCEPT ![s] = NewEngine(k.role)]
        /\ srv' = [srv EXCEPT ![s] = "opening"]
        /\ calls' = [calls EXCEPT ![c].pc = "listen", ![c].s = s]
        /\ UNCHANGED <<conns, ui, alive>>

PortFree == \A s \in Session : srv[s] # "open"

(* The server listens; a hub that lost its engine meanwhile throws here. *)
Listening(c) ==
    LET k == calls[c] IN
    /\ k.pc = "listen" /\ PortFree
    /\ srv' = [srv EXCEPT ![k.s] = "open"]
    /\ IF hub.engine = 0
       THEN /\ calls' = [calls EXCEPT ![c] = Idle]
            /\ UNCHANGED <<hub, eng, ui>>
       ELSE /\ eng' = [eng EXCEPT ![hub.engine].loop = "on"]
            /\ IF k.peer # NoPeer
               THEN /\ hub' = [hub EXCEPT !.running = TRUE]
                    /\ calls' = [calls EXCEPT ![c].pc = "probe"]
                    /\ UNCHANGED ui
               ELSE /\ hub' = [hub EXCEPT !.running = TRUE, !.discovery = TRUE,
                                          !.seen = {}]
                    /\ calls' = [calls EXCEPT ![c] = Idle]
                    /\ ShowRunning(TRUE)
    /\ UNCHANGED <<conns, starts, alive>>

\* Mutant: a start that cannot listen returns its error without stop().
CannotListenReturns(c) ==
    /\ calls[c].pc = "listen"
    /\ calls' = [calls EXCEPT ![c] = Idle]
    /\ UNCHANGED <<hub, eng, srv, conns, starts, ui, alive>>

(* The port is taken, or the adapter is gone. *)
CannotListen(c) ==
    LET k == calls[c] IN
    /\ k.pc = "listen"
    /\ LeaveEngine(c, [k EXCEPT !.op = "fail", !.s = 0])
    /\ UNCHANGED <<conns, starts, alive>>

-----------------------------------------------------------------------------
(* Peers named by hand: the end of start(), and connectPeer().  Whoever    *)
(* answers at the address counts as reachable.                             *)

Probed(c) ==
    LET k == calls[c]
        p == k.peer
        trusted == p \in hub.trusted
    IN  /\ k.pc = "probe"
        /\ calls' = [calls EXCEPT ![c] = Idle]
        /\ IF p \in alive
           THEN /\ hub' = IF trusted THEN [hub EXCEPT !.peers = @ \cup {p}]
                                     ELSE [hub EXCEPT !.pending = @ \cup {p}]
                /\ eng' = WithPeers(hub, IF trusted THEN {p} ELSE {}, {})
           ELSE UNCHANGED <<hub, eng>>
           \* with its engine gone the start throws instead of answering
        /\ IF k.op = "start" /\ ~(p \in alive /\ trusted /\ hub.engine = 0)
           THEN ShowRunning(TRUE)
           ELSE UNCHANGED ui
        /\ UNCHANGED <<srv, conns, starts, alive>>

ConnectClick(c, p) ==
    /\ ui.running /\ calls[c] = Idle
    /\ hub.engine # 0
    /\ calls' = [calls EXCEPT ![c] = [Idle EXCEPT !.op = "connect", !.pc = "probe",
                                                  !.peer = p]]
    /\ UNCHANGED <<hub, eng, srv, conns, starts, ui, alive>>

-----------------------------------------------------------------------------
(* Approval, role, the deletion switch.  Each ends in a status event. *)

(* trustPeer(ip, true), for a machine listed as pending *)
Approve(p) ==
    /\ p \in hub.pending
    /\ hub' = [hub EXCEPT !.trusted = @ \cup {p}, !.pending = @ \ {p},
                          !.peers = IF hub.running THEN @ \cup {p} ELSE @]
    /\ eng' = IF hub.running THEN WithPeers(hub, {p}, {}) ELSE eng
    /\ ShowRunning(hub.running)
    /\ UNCHANGED <<srv, conns, calls, starts, alive>>

(* trustPeer(ip, false), for a machine listed as approved *)
Revoke(p) ==
    /\ p \in hub.trusted /\ p \in hub.peers
    /\ hub' = [hub EXCEPT !.trusted = @ \ {p}, !.peers = @ \ {p}]
    /\ eng' = WithPeers(hub, {}, {p})
    /\ ShowRunning(hub.running)
    /\ UNCHANGED <<srv, conns, calls, starts, alive>>

SetAllowRemoteDelete ==
    /\ ShowRunning(hub.running)
    /\ UNCHANGED <<hub, eng, srv, conns, calls, starts, alive>>

(* setRole(): discovery starts afresh, having seen nobody. *)
WithRole(h, r) == [h EXCEPT !.role = r, !.seen = {}]
EngineMode(es, h, r) ==
    IF h.engine = 0 THEN es ELSE [es EXCEPT ![h.engine].mode = r]

RoleClick(r) ==
    /\ ~ui.locked
    /\ IF ui.running
       THEN /\ hub' = WithRole(hub, r)
            /\ eng' = EngineMode(eng, hub, r)
            /\ ui' = [ui EXCEPT !.role = r, !.running = hub.running]
       ELSE /\ ui' = [ui EXCEPT !.role = r]
            /\ UNCHANGED <<hub, eng>>
    /\ UNCHANGED <<srv, conns, calls, starts, alive>>

-----------------------------------------------------------------------------
(* Discovery *)

ComplementRole(r) ==
    CASE r = "master" -> "slave" [] r = "slave" -> "master" [] OTHER -> "none"

Negotiates(r) ==
    ~hub.negotiated /\ hub.role = "both" /\ ComplementRole(r) # "none"

(* A beacon with the sender's role; only the first of a sender says more   *)
(* than that it is there.                                                  *)
Beacon(p, r) ==
    LET h == [hub EXCEPT !.peers = @ \cup {p}, !.seen = @ \cup {p}]
        c == ComplementRole(r)
    IN  /\ hub.discovery /\ p \in alive /\ p \notin hub.seen
        /\ IF p \notin hub.trusted
           THEN /\ hub' = [hub EXCEPT !.pending = @ \cup {p}, !.seen = @ \cup {p}]
                /\ UNCHANGED <<eng, ui>>
           ELSE IF Negotiates(r)
           THEN /\ hub' = [WithRole(h, c) EXCEPT !.negotiated = TRUE]
                /\ eng' = EngineMode(WithPeers(hub, {p}, {}), hub, c)
                /\ ui' = [running |-> hub.running, role |-> c, locked |-> TRUE]
           ELSE /\ hub' = h
                /\ eng' = WithPeers(hub, {p}, {})
                /\ UNCHANGED ui
        /\ UNCHANGED <<srv, conns, calls, starts, alive>>

(* Fifteen seconds without a beacon. *)
PeerLost(p) ==
    LET left == hub.peers \ {p} IN
    /\ hub.discovery /\ p \in hub.seen /\ p \notin alive
    /\ hub' = [hub EXCEPT !.seen = @ \ {p}, !.pending = @ \ {p}, !.peers = left,
                          !.negotiated = @ /\ left # {}]
    /\ eng' = WithPeers(hub, {}, {p})
    /\ ui' = [ui EXCEPT !.locked = @ /\ left # {}]
    /\ UNCHANGED <<srv, conns, calls, starts, alive>>

-----------------------------------------------------------------------------
(* The engine and the server *)

(* syncNow of the engine e, for its loop or for the button: the peers it   *)
(* lists at this moment are the ones the pass will visit.                  *)
Snapshot(e, todo) ==
    /\ todo # {} /\ todo \subseteq eng[e].peers
    /\ CASE eng[e].mode = "slave" -> Cardinality(todo) = 1
         [] eng[e].mode = "both" -> todo = eng[e].peers
         [] OTHER -> FALSE
    /\ eng' = [eng EXCEPT ![e].todo = todo]

BeginPass(e) ==
    /\ eng[e].loop = "on" /\ eng[e].todo = {}
    /\ \E todo \in SUBSET Peer : Snapshot(e, todo)
    /\ UNCHANGED <<hub, srv, conns, calls, starts, ui, alive>>

(* The hub's syncNow first walks its own peers when the engine has none;   *)
(* by PeersAgree there is then nobody to walk.                             *)
SyncNowClick ==
    /\ ui.running /\ hub.engine # 0
    /\ eng[hub.engine].todo = {}
    /\ \E todo \in SUBSET Peer : Snapshot(hub.engine, todo)
    /\ UNCHANGED <<hub, srv, conns, calls, starts, ui, alive>>

(* The round with a peer ends, well or with an error. *)
RoundEnds(e, p) ==
    /\ p \in eng[e].todo
    /\ eng' = [eng EXCEPT ![e].todo = @ \ {p}]
    /\ UNCHANGED <<hub, srv, conns, calls, starts, ui, alive>>

(* The loop looks at its stop flag between passes only. *)
LoopEnds(e) ==
    /\ eng[e].loop = "ending" /\ eng[e].todo = {}
    /\ eng' = [eng EXCEPT ![e].loop = "over"]
    /\ UNCHANGED <<hub, srv, conns, calls, starts, ui, alive>>

(* One connection at a time: a server closes when it has none. *)
Accept(s, p) ==
    /\ srv[s] = "open"
    /\ \A t \in Session : conns[t] = {}
    /\ p \in alive \cap hub.trusted
    /\ conns' = [conns EXCEPT ![s] = @ \cup {p}]
    /\ UNCHANGED <<hub, eng, srv, calls, starts, ui, alive>>

(* The answer is sent, the peer hangs up, or two idle minutes pass. *)
Disconnect(s, p) ==
    /\ p \in conns[s]
    /\ conns' = [conns EXCEPT ![s] = @ \ {p}]
    /\ UNCHANGED <<hub, eng, srv, calls, starts, ui, alive>>

PeerUpOrDown(p) ==
    /\ alive' = IF p \in alive THEN alive \ {p} ELSE alive \cup {p}
    /\ UNCHANGED <<hub, eng, srv, conns, calls, starts, ui>>

-----------------------------------------------------------------------------
User ==
    \/ \E c \in Caller :
          \/ \E m \in Peer \cup {NoPeer} : StartClick(c, m)
          \/ StopClick(c)
          \/ \E p \in Peer : ConnectClick(c, p)
    \/ \E p \in Peer : Approve(p) \/ Revoke(p)
    \/ \E r \in Role : RoleClick(r)
    \/ SetAllowRemoteDelete
    \/ SyncNowClick

Resume(c) ==
    \/ EngineLeft(c) \/ ServerLeft(c)
    \/ BadFolder(c) \/ MakeSession(c)
    \/ Listening(c) \/ CannotListen(c)
    \/ Probed(c)

Passes(e) ==
    \/ BeginPass(e) \/ LoopEnds(e)
    \/ \E p \in Peer : RoundEnds(e, p)

Serving(s) == \E p \in Peer : Accept(s, p) \/ Disconnect(s, p)

Discovery ==
    \E p \in Peer : PeerLost(p) \/ \E r \in Role : Beacon(p, r)

Next ==
    \/ User
    \/ \E c \in Caller : Resume(c)
    \/ \E s \in Session : Passes(s) \/ Serving(s)
    \/ Discovery
    \/ \E p \in Peer : PeerUpOrDown(p)

Spec == Init /\ [][Next]_vars

-----------------------------------------------------------------------------
(* Properties *)

TypeOK ==
    /\ hub \in Hub
    /\ eng \in [Session -> Engine]
    /\ srv \in [Session -> Server]
    /\ conns \in [Session -> SUBSET Peer]
    /\ calls \in [Caller -> Call]
    /\ starts \in 0 .. MaxStarts
    /\ ui \in [running : BOOLEAN, role : Role, locked : BOOLEAN]
    /\ alive \subseteq Peer

(* "Revoking removes it from the engine at once" (main.ts 3608): whatever  *)
(* was under way when approval was withdrawn - a probe, a stop, another    *)
(* start - no pass that begins later visits the peer.                      *)
NewPassTrusted ==
    [][\A e \in Session : eng'[e].todo \ eng[e].todo \subseteq hub.trusted]_vars

(* The list on the screen is the engine's list, through all the callbacks  *)
(* and calls that change one and the other.                                *)
PeersAgree == hub.engine # 0 => hub.peers = eng[hub.engine].peers

(* stop() waits three seconds for the loop and goes on, with a pass still  *)
(* under way.  When WiFiSync is off and nobody is switching it, no loop,   *)
(* no server and no discovery of any session is on; and an engine the hub  *)
(* has let go, off or next to the engine of a new session, begins no pass: *)
(* at most it finishes the one it was in.                                  *)
NothingLeft ==
    [][/\ ~hub.running /\ ~PowerBusy =>
             /\ ~hub.discovery /\ hub.engine = 0 /\ hub.server = 0
             /\ \A s \in Session : eng[s].loop # "on" /\ srv[s] # "open"
       /\ \A s \in Session : s # hub.engine =>
             eng'[s].todo \subseteq eng[s].todo /\ eng'[s].loop # "on"]_vars

(* For a run made by hand only: a WiFiSync that is off pulls and deletes   *)
(* no more, as the manual has it of stopping.  The pass under way refutes. *)
NoPassLeft ==
    ~hub.running /\ ~PowerBusy => \A s \in Session : eng[s].todo = {}

(* The panel shows On exactly when WiFiSync is on. *)
PanelTruthful == ~PowerBusy => ui.running = hub.running
=============================================================================
