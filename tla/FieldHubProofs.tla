---------------------------- MODULE FieldHubProofs ----------------------------
(***************************************************************************)
(* That a revoked peer is in no later pass, that the list shown is the     *)
(* engine's, that nothing is left behind by a stop and that the panel      *)
(* shows what the hub is, for any peers, any calls and any number of       *)
(* starts - if Start and Stop are not pressed again before the first       *)
(* answer.                                                                 *)
(***************************************************************************)
EXTENDS FieldHub, FiniteSetTheorems, TLAPS

(* A call of start() or stop(). *)
Power(k) == k.op \in {"start", "fail", "stop"}

OnePower ==
    \A c, d \in Caller : Power(calls[c]) /\ Power(calls[d]) => c = d

(* What a start or stop finds at each of its awaits. *)
Stage(k) ==
    /\ k.pc = "engine" => /\ hub.engine # 0 /\ ~hub.discovery
                          /\ eng[hub.engine].loop \in {"ending", "over"}
    /\ k.pc = "server" => /\ hub.engine = 0 /\ ~hub.discovery
                          /\ hub.server = k.s /\ k.s # 0
                          /\ srv[k.s] = "closing"
    /\ k.pc = "stat" => hub.engine = 0 /\ hub.server = 0 /\ ~hub.discovery
    /\ k.pc = "listen" => /\ hub.engine = k.s /\ hub.server = k.s /\ k.s # 0
                          /\ ~hub.discovery
    /\ k.pc = "probe" => hub.running
    /\ k.pc \in {"stat", "listen", "probe"} => k.op = "start"
    /\ k.pc # "idle"
    /\ k.op = "start" /\ k.pc \in {"engine", "server", "stat"} => starts < MaxStarts

Stages == \A c \in Caller : Power(calls[c]) => Stage(calls[c])
Others == \A c \in Caller : ~Power(calls[c]) => calls[c].pc \in {"idle", "probe"}

OnlyTheHubs ==
    \A s \in Session : /\ eng[s].loop = "on" => s = hub.engine
                       /\ srv[s] = "open" => s = hub.server

EngineTrusted == hub.engine # 0 => eng[hub.engine].peers \subseteq hub.trusted

OffMeansOff ==
    ~hub.running /\ ~PowerBusy => ~hub.discovery /\ hub.engine = 0 /\ hub.server = 0

HubInv == /\ TypeOK /\ OnePower /\ Stages /\ Others /\ OnlyTheHubs
          /\ EngineTrusted /\ PeersAgree /\ OffMeansOff

-----------------------------------------------------------------------------
(* At the beginning nothing runs. *)
LEMMA InitHub == Init => HubInv
  BY HubAssumption
  DEF Init, HubInv, TypeOK, OnePower, Stages, Others, OnlyTheHubs, EngineTrusted,
      PeersAgree, OffMeansOff, PowerBusy, Power, Hub, Engine, Server, Call, Idle,
      NewEngine, Role, Session

(* The caller c is the only one that starts or stops, and k is its call. *)
Alone(c, k) ==
    /\ k \in Call /\ Power(k)
    /\ \A d \in Caller \ {c} : ~Power(calls[d])
    /\ k.op = "start" => starts < MaxStarts

(* What stop() has achieved once the engine is let go. *)
Quiet(h) ==
    /\ h \in Hub /\ h.engine = 0 /\ ~h.discovery
    /\ eng' \in [Session -> Engine] /\ \A s \in Session : eng'[s].loop # "on"
    /\ UNCHANGED <<conns, starts, alive>>

LEMMA StoppedHub ==
  ASSUME HubInv, NEW c \in Caller, NEW k, NEW h, Alone(c, k), Quiet(h), Stopped(c, k, h),
         srv' \in [Session -> Server], \A s \in Session : srv'[s] # "open"
  PROVE  HubInv'
<1>1. calls' \in [Caller -> Call] /\ ui' \in [running : BOOLEAN, role : Role, locked : BOOLEAN]
  BY DEF HubInv, TypeOK, Alone, Stopped, Call, Idle, Hub, Session, ShowRunning, Role
<1>2. hub' \in Hub /\ hub'.engine = 0 /\ hub'.server = 0 /\ ~hub'.discovery
  BY DEF Quiet, Stopped, Hub
<1>3. TypeOK'
  BY <1>1, <1>2 DEF HubInv, TypeOK, Quiet
<1>4. /\ calls'[c].op \in {"start", "none"}
      /\ calls'[c].op = "start" => calls'[c].pc = "stat" /\ starts < MaxStarts
      /\ calls'[c].op = "none" => calls'[c].pc = "idle"
      /\ \A d \in Caller \ {c} : calls'[d] = calls[d]
  BY DEF Stopped, Alone, HubInv, TypeOK, Call, Idle, Power
<1>5. OnePower' /\ Stages' /\ Others'
  BY <1>2, <1>4 DEF OnePower, Stages, Stage, Others, Power, HubInv, Quiet, Alone
<1>6. OnlyTheHubs' /\ EngineTrusted' /\ PeersAgree' /\ OffMeansOff'
  BY <1>2 DEF OnlyTheHubs, EngineTrusted, PeersAgree, OffMeansOff, Quiet
<1>7. QED
  BY <1>3, <1>5, <1>6 DEF HubInv

LEMMA LeaveServerHub ==
  ASSUME HubInv, NEW c \in Caller, NEW k, NEW h, Alone(c, k), Quiet(h),
         h.server = hub.server, LeaveServer(c, k, h)
  PROVE  HubInv'
<1>1. CASE h.server # 0 /\ srv[h.server] = "open"
  <2>1. /\ srv' = [srv EXCEPT ![h.server] = "closing"] /\ hub' = h /\ UNCHANGED ui
        /\ calls' = [calls EXCEPT ![c] = [k EXCEPT !.pc = "server", !.s = h.server]]
    BY <1>1 DEF LeaveServer
  <2>2. h.server \in Session
    BY <1>1 DEF Quiet, Hub
  <2>3. TypeOK'
    BY <2>1, <2>2 DEF HubInv, TypeOK, Quiet, Alone, Call, Server, Session
  <2>4. /\ calls'[c].op = k.op /\ calls'[c].pc = "server" /\ calls'[c].s = h.server
        /\ \A d \in Caller \ {c} : calls'[d] = calls[d]
        /\ srv'[h.server] = "closing"
        /\ \A s \in Session : srv'[s] # "open"
    BY <2>1, <2>2 DEF Alone, HubInv, TypeOK, Call, OnlyTheHubs
  <2>5. OnePower' /\ Stages' /\ Others'
    BY <1>1, <2>1, <2>4 DEF OnePower, Stages, Stage, Others, Power, HubInv, Quiet, Alone
  <2>6. OnlyTheHubs' /\ EngineTrusted' /\ PeersAgree' /\ OffMeansOff'
    BY <2>1, <2>4 DEF OnlyTheHubs, EngineTrusted, PeersAgree, OffMeansOff, PowerBusy,
       Power, Quiet, Alone
  <2>7. QED
    BY <2>3, <2>5, <2>6 DEF HubInv
<1>2. CASE ~(h.server # 0 /\ srv[h.server] = "open")
  <2>1. Stopped(c, k, h) /\ UNCHANGED srv
    BY <1>2 DEF LeaveServer
  <2>2. srv' \in [Session -> Server] /\ \A s \in Session : srv'[s] # "open"
    BY <1>2, <2>1 DEF HubInv, TypeOK, OnlyTheHubs, Session
  <2>3. QED
    BY <2>1, <2>2, StoppedHub
<1>3. QED
  BY <1>1, <1>2

LEMMA LeaveEngineHub ==
  ASSUME HubInv, NEW c \in Caller, NEW k, Alone(c, k), LeaveEngine(c, k),
         UNCHANGED <<conns, starts, alive>>
  PROVE  HubInv'
<1> DEFINE h == [hub EXCEPT !.discovery = FALSE, !.seen = {}]
<1>0. /\ h \in Hub /\ ~h.discovery /\ h.engine = hub.engine /\ h.server = hub.server
      /\ h.trusted = hub.trusted /\ h.peers = hub.peers /\ h.running = hub.running
  BY DEF HubInv, TypeOK, Hub
<1>1. CASE hub.engine # 0 /\ eng[hub.engine].loop \in {"on", "ending"}
  <2>1. /\ eng' = [eng EXCEPT ![hub.engine].loop = "ending"] /\ hub' = h
        /\ calls' = [calls EXCEPT ![c] = [k EXCEPT !.pc = "engine"]]
        /\ UNCHANGED <<srv, ui>>
    BY <1>1 DEF LeaveEngine
  <2>2. hub.engine \in Session
    BY <1>1 DEF HubInv, TypeOK, Hub
  <2>3. TypeOK'
    <3>1. calls' \in [Caller -> Call]
      BY <2>1 DEF HubInv, TypeOK, Alone, Call
    <3>2. eng' \in [Session -> Engine]
      BY <2>1, <2>2 DEF HubInv, TypeOK, Engine
    <3>3. hub' \in Hub /\ UNCHANGED <<srv, ui, conns, starts, alive>>
      BY <1>0, <2>1
    <3>4. QED
      BY <3>1, <3>2, <3>3 DEF HubInv, TypeOK
  <2>4. /\ calls'[c].op = k.op /\ calls'[c].pc = "engine"
        /\ \A d \in Caller \ {c} : calls'[d] = calls[d]
        /\ eng'[hub.engine].loop = "ending" /\ eng'[hub.engine].peers = eng[hub.engine].peers
        /\ \A s \in Session : eng'[s].loop # "on"
    BY <2>1, <2>2 DEF Alone, HubInv, TypeOK, Call, Engine, OnlyTheHubs
  <2>5. OnePower' /\ Stages' /\ Others'
    BY <1>0, <1>1, <2>1, <2>4 DEF OnePower, Stages, Stage, Others, Power, HubInv, Alone
  <2>6. OnlyTheHubs' /\ EngineTrusted' /\ PeersAgree' /\ OffMeansOff'
    BY <1>0, <1>1, <2>1, <2>4 DEF OnlyTheHubs, EngineTrusted, PeersAgree, OffMeansOff,
       PowerBusy, Power, HubInv, Alone
  <2>7. QED
    BY <2>3, <2>5, <2>6 DEF HubInv
<1>2. CASE ~(hub.engine # 0 /\ eng[hub.engine].loop \in {"on", "ending"})
  <2>1. LeaveServer(c, k, [h EXCEPT !.engine = 0]) /\ eng' = LetGo(hub.engine)
    BY <1>2 DEF LeaveEngine
  <2>2. [h EXCEPT !.engine = 0].server = hub.server
    BY <1>0 DEF Hub
  <2>3. Quiet([h EXCEPT !.engine = 0])
    <3>1. [h EXCEPT !.engine = 0] \in Hub /\ [h EXCEPT !.engine = 0].engine = 0
          /\ ~[h EXCEPT !.engine = 0].discovery
      BY <1>0 DEF Hub
    <3>2. eng' \in [Session -> Engine] /\ \A s \in Session : eng'[s].loop # "on"
      BY <1>2, <2>1 DEF HubInv, TypeOK, Hub, LetGo, Engine, Role, OnlyTheHubs, Session
    <3>3. QED
      BY <3>1, <3>2 DEF Quiet
  <2>4. QED
    BY <2>1, <2>2, <2>3, LeaveServerHub
<1>3. QED
  BY <1>1, <1>2

-----------------------------------------------------------------------------
(* The calls of start() and stop() *)

LEMMA StopClickHub ==
  ASSUME HubInv, ~DoubleClick, NEW c \in Caller, StopClick(c)
  PROVE  HubInv'
<1>1. Alone(c, [Idle EXCEPT !.op = "stop"])
  BY DEF StopClick, MayPress, PowerBusy, Alone, Power, Idle, Call, Role, Session
<1>2. QED
  BY <1>1, LeaveEngineHub DEF StopClick

LEMMA StartClickHub ==
  ASSUME HubInv, ~DoubleClick, NEW c \in Caller, NEW m \in Peer \cup {NoPeer},
         StartClick(c, m)
  PROVE  HubInv'
<1> DEFINE k == [Idle EXCEPT !.op = "start", !.peer = m, !.role = ui.role]
<1>1. starts < MaxStarts
  <2>1. {d \in Caller : calls[d].op = "start"} = {}
    BY DEF StartClick, MayPress, PowerBusy
  <2>2. Cardinality({d \in Caller : calls[d].op = "start"}) = 0
    BY <2>1, FS_EmptySet
  <2>3. QED
    BY <2>2, HubAssumption DEF StartClick, HubInv, TypeOK
<1>2. Alone(c, k)
  BY <1>1 DEF StartClick, MayPress, PowerBusy, Alone, Power, Idle, Call, Role, Session,
     HubInv, TypeOK
<1>3. QED
  BY <1>2, LeaveEngineHub DEF StartClick

LEMMA EngineLeftHub ==
  ASSUME HubInv, NEW c \in Caller, EngineLeft(c)
  PROVE  HubInv'
<1> DEFINE h == [hub EXCEPT !.engine = 0]
<1>1. Power(calls[c]) /\ Stage(calls[c])
  BY DEF HubInv, Others, Stages, EngineLeft
<1>2. Alone(c, calls[c])
  BY <1>1 DEF Alone, HubInv, TypeOK, OnePower, Stage, EngineLeft
<1>3. h.server = hub.server /\ h \in Hub /\ h.engine = 0 /\ ~h.discovery
  BY <1>1 DEF HubInv, TypeOK, Hub, Stage, EngineLeft
<1>4. eng' \in [Session -> Engine] /\ \A s \in Session : eng'[s].loop # "on"
  BY <1>1 DEF EngineLeft, LetGo, HubInv, TypeOK, Hub, Engine, Role, OnlyTheHubs, Stage, Session
<1>5. Quiet(h)
  BY <1>3, <1>4 DEF Quiet, EngineLeft
<1>6. QED
  BY <1>2, <1>3, <1>5, LeaveServerHub DEF EngineLeft

LEMMA ServerLeftHub ==
  ASSUME HubInv, NEW c \in Caller, ServerLeft(c)
  PROVE  HubInv'
<1>1. Power(calls[c]) /\ Stage(calls[c])
  BY DEF HubInv, Others, Stages, ServerLeft
<1>2. Alone(c, calls[c])
  BY <1>1 DEF Alone, HubInv, TypeOK, OnePower, Stage, ServerLeft
<1>3. Quiet(hub)
  BY <1>1 DEF Quiet, HubInv, TypeOK, Hub, Engine, Stage, ServerLeft, OnlyTheHubs, Session
<1>4. srv' \in [Session -> Server] /\ \A s \in Session : srv'[s] # "open"
  BY <1>1 DEF HubInv, TypeOK, Server, Stage, ServerLeft, OnlyTheHubs
<1>5. QED
  BY <1>2, <1>3, <1>4, StoppedHub DEF ServerLeft

LEMMA BadFolderHub ==
  ASSUME HubInv, NEW c \in Caller, BadFolder(c)
  PROVE  HubInv'
<1>1. Power(calls[c]) /\ Stage(calls[c])
  BY DEF HubInv, Others, Stages, BadFolder
<1>2. /\ calls'[c] = Idle /\ \A d \in Caller \ {c} : calls'[d] = calls[d]
      /\ calls' \in [Caller -> Call]
  BY DEF BadFolder, HubInv, TypeOK, Call, Idle, Role, Session
<1>3. OnePower' /\ Stages' /\ Others'
  BY <1>2 DEF OnePower, Stages, Stage, Others, Power, HubInv, BadFolder, Idle
<1>4. TypeOK' /\ OnlyTheHubs' /\ EngineTrusted' /\ PeersAgree' /\ OffMeansOff'
  BY <1>1, <1>2 DEF TypeOK, OnlyTheHubs, EngineTrusted, PeersAgree, OffMeansOff, HubInv,
     BadFolder, Stage
<1>5. QED
  BY <1>3, <1>4 DEF HubInv

LEMMA MakeSessionHub ==
  ASSUME HubInv, NEW c \in Caller, MakeSession(c)
  PROVE  HubInv'
<1> DEFINE s == starts + 1
           k == calls[c]
<1>1. Power(k) /\ Stage(k)
  BY DEF HubInv, Others, Stages, MakeSession
<1>2. k.op = "start" /\ k \in Call /\ s \in Session /\ s # 0 /\ s \in 0 .. MaxStarts
  BY <1>1, HubAssumption DEF HubInv, TypeOK, Call, Stage, MakeSession, Session, Power
<1>3. /\ hub' = Fresh(k, s) /\ hub' \in Hub /\ hub'.engine = s /\ hub'.server = s
      /\ hub'.peers = {} /\ ~hub'.discovery /\ hub'.running = hub.running
  BY <1>1, <1>2 DEF MakeSession, Fresh, HubInv, TypeOK, Hub, Call, Stage
<1>4. /\ eng'[s] = NewEngine(k.role) /\ \A t \in Session \ {s} : eng'[t] = eng[t]
      /\ eng' \in [Session -> Engine]
  BY <1>2 DEF MakeSession, HubInv, TypeOK, Engine, NewEngine, Call
<1>5. /\ srv'[s] = "opening" /\ \A t \in Session \ {s} : srv'[t] = srv[t]
      /\ srv' \in [Session -> Server]
  BY <1>2 DEF MakeSession, HubInv, TypeOK, Server
<1>6. /\ calls'[c].op = "start" /\ calls'[c].pc = "listen" /\ calls'[c].s = s
      /\ \A d \in Caller \ {c} : calls'[d] = calls[d]
      /\ calls' \in [Caller -> Call]
  BY <1>2 DEF MakeSession, HubInv, TypeOK, Call
<1>7. TypeOK'
  BY <1>2, <1>3, <1>4, <1>5, <1>6 DEF TypeOK, HubInv, MakeSession
<1>8. OnePower' /\ Stages' /\ Others'
  <2>1. \A d \in Caller \ {c} : ~Power(calls[d])
    BY <1>1 DEF HubInv, OnePower
  <2>2. Stage(calls[c])'
    BY <1>2, <1>3, <1>6 DEF Stage
  <2>3. QED
    BY <1>6, <2>1, <2>2 DEF OnePower, Stages, Others, Power, HubInv
<1>9. OnlyTheHubs' /\ EngineTrusted' /\ PeersAgree' /\ OffMeansOff'
  <2>1. \A t \in Session : eng[t].loop # "on" /\ srv[t] # "open"
    BY <1>1 DEF HubInv, OnlyTheHubs, Stage, MakeSession, Session
  <2>2. OnlyTheHubs'
    BY <1>4, <1>5, <2>1 DEF OnlyTheHubs, NewEngine
  <2>3. EngineTrusted' /\ PeersAgree'
    BY <1>3, <1>4 DEF EngineTrusted, PeersAgree, NewEngine
  <2>4. OffMeansOff'
    BY <1>6 DEF OffMeansOff, PowerBusy
  <2>5. QED
    BY <2>2, <2>3, <2>4
<1>10. QED
  BY <1>7, <1>8, <1>9 DEF HubInv

LEMMA ListeningHub ==
  ASSUME HubInv, NEW c \in Caller, Listening(c)
  PROVE  HubInv'
<1> DEFINE k == calls[c]
<1>1. Power(k) /\ Stage(k) /\ k \in Call
  BY DEF HubInv, Others, Stages, Listening, TypeOK
<1>2. /\ hub.engine = k.s /\ hub.server = k.s /\ k.s \in Session /\ hub.engine # 0
      /\ k.op = "start"
  BY <1>1 DEF Stage, Listening, Call
<1>3. /\ eng'[k.s].loop = "on" /\ eng'[k.s].peers = eng[k.s].peers
      /\ \A t \in Session \ {k.s} : eng'[t] = eng[t]
      /\ eng' \in [Session -> Engine]
  BY <1>2 DEF Listening, HubInv, TypeOK, Engine
<1>4. /\ \A t \in Session \ {k.s} : srv'[t] = srv[t]
      /\ srv' \in [Session -> Server]
  BY <1>2 DEF Listening, HubInv, TypeOK, Server
<1>5. /\ hub' \in Hub /\ hub'.engine = hub.engine /\ hub'.server = hub.server
      /\ hub'.running /\ hub'.peers = hub.peers /\ hub'.trusted = hub.trusted
  <2>1. hub \in Hub
    BY DEF HubInv, TypeOK
  <2>2. \/ hub' = [hub EXCEPT !.running = TRUE]
        \/ hub' = [hub EXCEPT !.running = TRUE, !.discovery = TRUE, !.seen = {}]
    BY <1>2 DEF Listening
  <2>3. QED
    BY <2>1, <2>2 DEF Hub
<1>6. /\ calls'[c] = Idle \/ (calls'[c].op = k.op /\ calls'[c].pc = "probe")
      /\ \A d \in Caller \ {c} : calls'[d] = calls[d]
      /\ calls' \in [Caller -> Call]
  <2>1. calls \in [Caller -> Call] /\ Idle \in Call /\ [k EXCEPT !.pc = "probe"] \in Call
    BY <1>1 DEF HubInv, TypeOK, Call, Idle, Role, Session
  <2>2. \/ calls' = [calls EXCEPT ![c].pc = "probe"]
        \/ calls' = [calls EXCEPT ![c] = Idle]
    BY <1>2 DEF Listening
  <2>3. QED
    BY <1>1, <2>1, <2>2 DEF Call
<1>7. TypeOK'
  <2>1. ui' \in [running : BOOLEAN, role : Role, locked : BOOLEAN]
    BY DEF Listening, ShowRunning, HubInv, TypeOK
  <2>2. QED
    BY <1>3, <1>4, <1>5, <1>6, <2>1 DEF TypeOK, HubInv, Listening
<1>8. OnePower' /\ Stages' /\ Others'
  <2>1. \A d \in Caller \ {c} : ~Power(calls[d])
    BY <1>1 DEF HubInv, OnePower
  <2>2. Power(calls'[c]) => Stage(calls[c])'
    BY <1>2, <1>5, <1>6 DEF Stage, Power, Idle
  <2>3. QED
    BY <1>1, <1>6, <2>1, <2>2 DEF OnePower, Stages, Others, Power, HubInv, Idle
<1>9. OnlyTheHubs' /\ EngineTrusted' /\ PeersAgree' /\ OffMeansOff'
  BY <1>2, <1>3, <1>4, <1>5 DEF OnlyTheHubs, EngineTrusted, PeersAgree, OffMeansOff, HubInv
<1>10. QED
  BY <1>7, <1>8, <1>9 DEF HubInv

LEMMA CannotListenHub ==
  ASSUME HubInv, NEW c \in Caller, CannotListen(c)
  PROVE  HubInv'
<1>1. Power(calls[c]) /\ calls[c] \in Call
  BY DEF HubInv, Others, CannotListen, TypeOK
<1>2. Alone(c, [calls[c] EXCEPT !.op = "fail", !.s = 0])
  BY <1>1 DEF Alone, Power, Call, HubInv, OnePower, Session
<1>3. QED
  BY <1>2, LeaveEngineHub DEF CannotListen

-----------------------------------------------------------------------------
(* Everything else leaves starts and stops where they are. *)

LEMMA Undisturbed ==
  ASSUME HubInv, TypeOK', EngineTrusted', PeersAgree',
         hub'.engine = hub.engine, hub'.server = hub.server,
         hub'.running = hub.running, hub'.discovery = hub.discovery,
         UNCHANGED <<srv, starts>>,
         \A s \in Session : \/ eng'[s].loop = eng[s].loop
                            \/ eng[s].loop = "ending" /\ eng'[s].loop = "over",
         \A c \in Caller : \/ calls'[c] = calls[c]
                           \/ /\ calls'[c] = Idle /\ calls[c].pc = "probe"
                           \/ /\ ~Power(calls'[c]) /\ calls'[c].pc = "probe"
                              /\ ~Power(calls[c])
  PROVE  HubInv'
<1>1. \A c \in Caller : Power(calls'[c]) => calls'[c] = calls[c]
  BY DEF Power, Idle
<1>2. OnePower'
  BY <1>1 DEF HubInv, OnePower
<1>3. Stages'
  <2>1. SUFFICES ASSUME NEW c \in Caller, Power(calls'[c])
                 PROVE  Stage(calls[c])'
    BY DEF Stages
  <2>2. calls'[c] = calls[c] /\ Stage(calls[c])
    BY <1>1, <2>1 DEF HubInv, Stages
  <2>3. hub.engine # 0 => hub.engine \in Session
    BY DEF HubInv, TypeOK, Hub
  <2>4. QED
    BY <2>2, <2>3 DEF Stage
<1>4. Others'
  BY DEF HubInv, Others, Idle
<1>5. OnlyTheHubs'
  BY DEF HubInv, OnlyTheHubs
<1>6. OffMeansOff'
  <2>1. SUFFICES ASSUME ~hub.running, ~PowerBusy'
                 PROVE  ~hub.discovery /\ hub.engine = 0 /\ hub.server = 0
    BY DEF OffMeansOff
  <2>2. \A c \in Caller : ~Power(calls[c])
    BY <2>1 DEF HubInv, Stages, Stage, Power, PowerBusy, Idle
  <2>3. QED
    BY <2>1, <2>2 DEF HubInv, OffMeansOff, PowerBusy, Power
<1>7. QED
  BY <1>2, <1>3, <1>4, <1>5, <1>6 DEF HubInv

(* The hub and its engine add or drop peers together. *)
LEMMA WithPeersHub ==
  ASSUME HubInv, NEW add \in SUBSET Peer, NEW drop \in SUBSET Peer,
         eng' = WithPeers(hub, add, drop), hub' \in Hub, hub'.engine = hub.engine,
         hub'.peers = (hub.peers \cup add) \ drop,
         ((hub.trusted \cup add) \ drop) \subseteq hub'.trusted \/ hub.engine = 0
  PROVE  /\ eng' \in [Session -> Engine] /\ EngineTrusted' /\ PeersAgree'
         /\ \A s \in Session : eng'[s].loop = eng[s].loop
<1>1. CASE hub.engine = 0
  BY <1>1 DEF WithPeers, HubInv, TypeOK, EngineTrusted, PeersAgree
<1>2. CASE hub.engine # 0
  <2>1. hub.engine \in Session
    BY <1>2 DEF HubInv, TypeOK, Hub
  <2>2. /\ eng'[hub.engine].peers = (eng[hub.engine].peers \cup add) \ drop
        /\ \A s \in Session : eng'[s].loop = eng[s].loop
        /\ eng' \in [Session -> Engine]
    BY <1>2, <2>1 DEF WithPeers, HubInv, TypeOK, Engine
  <2>3. QED
    BY <1>2, <2>1, <2>2 DEF EngineTrusted, PeersAgree, HubInv
<1>3. QED
  BY <1>1, <1>2

LEMMA ProbedHub ==
  ASSUME HubInv, NEW c \in Caller, Probed(c)
  PROVE  HubInv'
<1> DEFINE p == calls[c].peer
<1>1. hub \in Hub /\ eng \in [Session -> Engine] /\ calls[c].pc = "probe"
  BY DEF HubInv, TypeOK, Probed
<1>2. /\ calls' \in [Caller -> Call] /\ calls'[c] = Idle
      /\ \A d \in Caller \ {c} : calls'[d] = calls[d]
  BY DEF Probed, HubInv, TypeOK, Call, Idle, Role, Session
<1>3. ui' \in [running : BOOLEAN, role : Role, locked : BOOLEAN]
  BY DEF Probed, ShowRunning, HubInv, TypeOK
<1>4. CASE p \in alive /\ p \in hub.trusted
  <2>1. p \in Peer /\ {p} \in SUBSET Peer /\ {} \in SUBSET Peer
    BY <1>1, <1>4 DEF Hub
  <2>2. hub' = [hub EXCEPT !.peers = @ \cup {p}] /\ eng' = WithPeers(hub, {p}, {})
    BY <1>4 DEF Probed
  <2>3. /\ hub' \in Hub /\ hub'.engine = hub.engine /\ hub'.server = hub.server
        /\ hub'.running = hub.running /\ hub'.discovery = hub.discovery
        /\ hub'.peers = (hub.peers \cup {p}) \ {} /\ hub'.trusted = hub.trusted
    BY <1>1, <2>1, <2>2 DEF Hub
  <2>4. ((hub.trusted \cup {p}) \ {}) \subseteq hub'.trusted
    BY <1>4, <2>3
  <2>5. /\ eng' \in [Session -> Engine] /\ EngineTrusted' /\ PeersAgree'
        /\ \A s \in Session : eng'[s].loop = eng[s].loop
    BY <2>1, <2>2, <2>3, <2>4, WithPeersHub
  <2>6. TypeOK'
    BY <1>2, <1>3, <2>3, <2>5 DEF TypeOK, HubInv, Probed
  <2>7. QED
    BY <1>1, <1>2, <2>3, <2>5, <2>6, Undisturbed DEF Probed
<1>5. CASE ~(p \in alive /\ p \in hub.trusted)
  <2>1. /\ hub' \in Hub /\ hub'.engine = hub.engine /\ hub'.server = hub.server
        /\ hub'.running = hub.running /\ hub'.discovery = hub.discovery
        /\ hub'.peers = hub.peers /\ hub'.trusted = hub.trusted
    <3>1. CASE p \in alive
      <4>1. hub' = [hub EXCEPT !.pending = @ \cup {p}] /\ p \in Peer
        BY <1>5, <3>1 DEF Probed, HubInv, TypeOK
      <4>2. QED
        BY <1>1, <4>1 DEF Hub
    <3>2. CASE p \notin alive
      BY <1>1, <3>2 DEF Probed
    <3>3. QED
      BY <3>1, <3>2
  <2>2. /\ eng' \in [Session -> Engine]
        /\ \A s \in Session : eng'[s].loop = eng[s].loop /\ eng'[s].peers = eng[s].peers
    <3>1. eng' = WithPeers(hub, {}, {}) \/ eng' = eng
      BY <1>5 DEF Probed
    <3>2. hub.engine # 0 => hub.engine \in Session
      BY <1>1 DEF Hub
    <3>3. CASE eng' = [eng EXCEPT ![hub.engine].peers = (@ \cup {}) \ {}] /\ hub.engine # 0
      <4>1. eng[hub.engine] \in Engine
        BY <1>1, <3>2, <3>3
      <4>2. eng'[hub.engine] = [eng[hub.engine] EXCEPT !.peers = (@ \cup {}) \ {}]
        BY <1>1, <3>2, <3>3
      <4>3. eng'[hub.engine] = eng[hub.engine]
        BY <4>1, <4>2 DEF Engine
      <4>4. QED
        BY <1>1, <3>2, <3>3, <4>3
    <3>4. CASE eng' = eng
      BY <1>1, <3>4
    <3>5. QED
      BY <3>1, <3>3, <3>4 DEF WithPeers
  <2>3. EngineTrusted' /\ PeersAgree'
    BY <1>1, <2>1, <2>2 DEF EngineTrusted, PeersAgree, HubInv, Hub
  <2>4. TypeOK'
    BY <1>2, <1>3, <2>1, <2>2 DEF TypeOK, HubInv, Probed
  <2>5. QED
    BY <1>1, <1>2, <2>1, <2>2, <2>3, <2>4, Undisturbed DEF Probed
<1>6. QED
  BY <1>4, <1>5

LEMMA ConnectClickHub ==
  ASSUME HubInv, NEW c \in Caller, NEW p \in Peer, ConnectClick(c, p)
  PROVE  HubInv'
<1>1. /\ calls' \in [Caller -> Call] /\ calls'[c].op = "connect"
      /\ calls'[c].pc = "probe" /\ calls[c] = Idle
      /\ \A d \in Caller \ {c} : calls'[d] = calls[d]
  BY DEF ConnectClick, HubInv, TypeOK, Call, Idle, Role, Session
<1>2. TypeOK' /\ EngineTrusted' /\ PeersAgree'
  BY <1>1 DEF TypeOK, EngineTrusted, PeersAgree, HubInv, ConnectClick
<1>3. QED
  BY <1>1, <1>2, Undisturbed DEF ConnectClick, Power, Idle

LEMMA ApproveHub ==
  ASSUME HubInv, NEW p \in Peer, Approve(p)
  PROVE  HubInv'
<1>1. hub \in Hub /\ eng \in [Session -> Engine]
  BY DEF HubInv, TypeOK
<1>2. /\ hub' \in Hub /\ hub'.engine = hub.engine /\ hub'.server = hub.server
      /\ hub'.running = hub.running /\ hub'.discovery = hub.discovery
      /\ hub'.trusted = hub.trusted \cup {p}
      /\ hub'.peers = IF hub.running THEN hub.peers \cup {p} ELSE hub.peers
  BY <1>1 DEF Approve, Hub
<1>3. /\ eng' \in [Session -> Engine] /\ EngineTrusted' /\ PeersAgree'
      /\ \A s \in Session : eng'[s].loop = eng[s].loop
  <2>1. CASE hub.running
    <3>1. /\ {p} \in SUBSET Peer /\ {} \in SUBSET Peer
          /\ eng' = WithPeers(hub, {p}, {})
          /\ hub'.peers = (hub.peers \cup {p}) \ {}
          /\ ((hub.trusted \cup {p}) \ {}) \subseteq hub'.trusted
      BY <1>2, <2>1 DEF Approve
    <3>2. QED
      BY <1>2, <3>1, WithPeersHub
  <2>2. CASE ~hub.running
    BY <1>1, <1>2, <2>2 DEF Approve, EngineTrusted, PeersAgree, HubInv
  <2>3. QED
    BY <2>1, <2>2
<1>4. TypeOK'
  BY <1>2, <1>3 DEF TypeOK, HubInv, Approve, ShowRunning, Hub
<1>5. QED
  BY <1>2, <1>3, <1>4, Undisturbed DEF Approve

LEMMA RevokeHub ==
  ASSUME HubInv, NEW p \in Peer, Revoke(p)
  PROVE  HubInv'
<1>1. hub \in Hub
  BY DEF HubInv, TypeOK
<1>2. /\ hub' \in Hub /\ hub'.engine = hub.engine /\ hub'.server = hub.server
      /\ hub'.running = hub.running /\ hub'.discovery = hub.discovery
      /\ hub'.trusted = hub.trusted \ {p}
      /\ hub'.peers = (hub.peers \cup {}) \ {p}
  BY <1>1 DEF Revoke, Hub
<1>3. /\ {p} \in SUBSET Peer /\ {} \in SUBSET Peer
      /\ eng' = WithPeers(hub, {}, {p})
      /\ ((hub.trusted \cup {}) \ {p}) \subseteq hub'.trusted
  BY <1>2 DEF Revoke
<1>4. /\ eng' \in [Session -> Engine] /\ EngineTrusted' /\ PeersAgree'
      /\ \A s \in Session : eng'[s].loop = eng[s].loop
  BY <1>2, <1>3, WithPeersHub
<1>5. TypeOK'
  BY <1>1, <1>2, <1>4 DEF TypeOK, HubInv, Revoke, ShowRunning, Hub
<1>6. QED
  BY <1>2, <1>4, <1>5, Undisturbed DEF Revoke

(* setRole touches the engine's mode only. *)
LEMMA ModeHub ==
  ASSUME HubInv, NEW es \in [Session -> Engine], NEW r \in Role,
         eng' = EngineMode(es, hub, r)
  PROVE  /\ eng' \in [Session -> Engine]
         /\ \A s \in Session : eng'[s].loop = es[s].loop /\ eng'[s].peers = es[s].peers
<1>1. hub.engine # 0 => hub.engine \in Session
  BY DEF HubInv, TypeOK, Hub
<1>2. QED
  BY <1>1 DEF EngineMode, Engine

LEMMA RoleClickHub ==
  ASSUME HubInv, NEW r \in Role, RoleClick(r)
  PROVE  HubInv'
<1>1. hub \in Hub /\ eng \in [Session -> Engine]
  BY DEF HubInv, TypeOK
<1>2. /\ hub' \in Hub /\ hub'.engine = hub.engine /\ hub'.server = hub.server
      /\ hub'.running = hub.running /\ hub'.discovery = hub.discovery
      /\ hub'.trusted = hub.trusted /\ hub'.peers = hub.peers
  BY <1>1 DEF RoleClick, WithRole, Hub
<1>3. /\ eng' \in [Session -> Engine]
      /\ \A s \in Session : eng'[s].loop = eng[s].loop /\ eng'[s].peers = eng[s].peers
  BY <1>1, ModeHub DEF RoleClick
<1>4. EngineTrusted' /\ PeersAgree'
  BY <1>1, <1>2, <1>3 DEF EngineTrusted, PeersAgree, HubInv, Hub
<1>5. TypeOK'
  BY <1>1, <1>2, <1>3 DEF TypeOK, HubInv, RoleClick, Hub
<1>6. QED
  BY <1>2, <1>3, <1>4, <1>5, Undisturbed DEF RoleClick

LEMMA BeaconHub ==
  ASSUME HubInv, NEW p \in Peer, NEW r \in Role, Beacon(p, r)
  PROVE  HubInv'
<1> DEFINE h == [hub EXCEPT !.peers = @ \cup {p}, !.seen = @ \cup {p}]
<1>1. hub \in Hub /\ eng \in [Session -> Engine]
  BY DEF HubInv, TypeOK
<1>2. CASE p \notin hub.trusted
  <2>1. /\ hub' \in Hub /\ hub'.engine = hub.engine /\ hub'.server = hub.server
        /\ hub'.running = hub.running /\ hub'.discovery = hub.discovery
        /\ hub'.trusted = hub.trusted /\ hub'.peers = hub.peers
        /\ eng' = eng /\ ui' = ui
    <3>1. /\ hub' = [hub EXCEPT !.pending = @ \cup {p}, !.seen = @ \cup {p}]
          /\ eng' = eng /\ ui' = ui
      BY <1>2 DEF Beacon
    <3>2. QED
      BY <1>1, <3>1 DEF Hub
  <2>2. TypeOK' /\ EngineTrusted' /\ PeersAgree'
    BY <2>1 DEF TypeOK, EngineTrusted, PeersAgree, HubInv, Beacon
  <2>3. QED
    BY <2>1, <2>2, Undisturbed DEF Beacon
<1>3. CASE p \in hub.trusted
  <2>1. /\ {p} \in SUBSET Peer /\ {} \in SUBSET Peer
        /\ h \in Hub /\ h.engine = hub.engine /\ h.server = hub.server
        /\ h.running = hub.running /\ h.discovery = hub.discovery
        /\ h.trusted = hub.trusted /\ h.peers = (hub.peers \cup {p}) \ {}
        /\ ((hub.trusted \cup {p}) \ {}) \subseteq hub.trusted
    BY <1>1, <1>3 DEF Hub
  <2>2. CASE Negotiates(r)
    <3> DEFINE c == ComplementRole(r)
               es == WithPeers(hub, {p}, {})
    <3>1. c \in Role
      BY <2>2 DEF Negotiates, ComplementRole, Role
    <3>2. hub' = [WithRole(h, c) EXCEPT !.negotiated = TRUE]
      BY <1>3, <2>2 DEF Beacon
    <3>3. /\ hub' \in Hub /\ hub'.engine = hub.engine /\ hub'.server = hub.server
          /\ hub'.running = hub.running /\ hub'.discovery = hub.discovery
          /\ hub'.trusted = hub.trusted /\ hub'.peers = hub.peers \cup {p}
      BY <2>1, <3>1, <3>2 DEF WithRole, Hub
    <3>4. eng' = EngineMode(es, hub, c)
          /\ ui' = [running |-> hub.running, role |-> c, locked |-> TRUE]
      BY <1>3, <2>2 DEF Beacon
    <3>5. hub.engine # 0 => hub.engine \in Session
      BY <1>1 DEF Hub
    <3>6. /\ es \in [Session -> Engine]
          /\ \A s \in Session : es[s].loop = eng[s].loop
          /\ hub.engine # 0 => es[hub.engine].peers = eng[hub.engine].peers \cup {p}
      BY <1>1, <3>5 DEF WithPeers, Engine
    <3>7. /\ eng' \in [Session -> Engine]
          /\ \A s \in Session : eng'[s].loop = es[s].loop /\ eng'[s].peers = es[s].peers
      BY <3>1, <3>4, <3>6, ModeHub
    <3>8. EngineTrusted' /\ PeersAgree'
      <4>1. CASE hub.engine = 0
        BY <3>3, <4>1 DEF EngineTrusted, PeersAgree
      <4>2. CASE hub.engine # 0
        <5>1. /\ eng'[hub'.engine].peers = eng[hub.engine].peers \cup {p}
              /\ eng[hub.engine].peers \subseteq hub.trusted
              /\ hub.peers = eng[hub.engine].peers
          BY <3>3, <3>5, <3>6, <3>7, <4>2 DEF HubInv, EngineTrusted, PeersAgree
        <5>2. QED
          BY <1>3, <3>3, <5>1 DEF EngineTrusted, PeersAgree
      <4>3. QED
        BY <4>1, <4>2
    <3>9. TypeOK'
      BY <1>1, <3>1, <3>3, <3>4, <3>7 DEF TypeOK, HubInv, Beacon, Hub
    <3>10. QED
      BY <3>3, <3>6, <3>7, <3>8, <3>9, Undisturbed DEF Beacon
  <2>3. CASE ~Negotiates(r)
    <3>1. hub' = h /\ eng' = WithPeers(hub, {p}, {}) /\ ui' = ui
      BY <1>3, <2>3 DEF Beacon
    <3>2. /\ eng' \in [Session -> Engine] /\ EngineTrusted' /\ PeersAgree'
          /\ \A s \in Session : eng'[s].loop = eng[s].loop
      BY <2>1, <3>1, WithPeersHub
    <3>3. TypeOK'
      BY <2>1, <3>1, <3>2 DEF TypeOK, HubInv, Beacon
    <3>4. QED
      BY <2>1, <3>1, <3>2, <3>3, Undisturbed DEF Beacon
  <2>4. QED
    BY <2>2, <2>3
<1>4. QED
  BY <1>2, <1>3

LEMMA PeerLostHub ==
  ASSUME HubInv, NEW p \in Peer, PeerLost(p)
  PROVE  HubInv'
<1>1. hub \in Hub
  BY DEF HubInv, TypeOK
<1>2. /\ hub' \in Hub /\ hub'.engine = hub.engine /\ hub'.server = hub.server
      /\ hub'.running = hub.running /\ hub'.discovery = hub.discovery
      /\ hub'.trusted = hub.trusted /\ hub'.peers = (hub.peers \cup {}) \ {p}
  BY <1>1 DEF PeerLost, Hub
<1>3. /\ {p} \in SUBSET Peer /\ {} \in SUBSET Peer /\ eng' = WithPeers(hub, {}, {p})
      /\ ((hub.trusted \cup {}) \ {p}) \subseteq hub'.trusted
  BY <1>2 DEF PeerLost
<1>4. /\ eng' \in [Session -> Engine] /\ EngineTrusted' /\ PeersAgree'
      /\ \A s \in Session : eng'[s].loop = eng[s].loop
  BY <1>2, <1>3, WithPeersHub
<1>5. TypeOK'
  BY <1>2, <1>4 DEF TypeOK, HubInv, PeerLost
<1>6. QED
  BY <1>2, <1>4, <1>5, Undisturbed DEF PeerLost

(* Passes, rounds and the end of a loop leave every list of peers alone. *)
LEMMA PassesHub ==
  ASSUME HubInv, NEW e \in Session, Passes(e) \/ (SyncNowClick /\ e = hub.engine)
  PROVE  HubInv'
<1>1. eng \in [Session -> Engine] /\ hub \in Hub
  BY DEF HubInv, TypeOK
<1>2. /\ eng' \in [Session -> Engine]
      /\ \A s \in Session : eng'[s].peers = eng[s].peers
      /\ \A s \in Session : \/ eng'[s].loop = eng[s].loop
                            \/ eng[s].loop = "ending" /\ eng'[s].loop = "over"
      /\ UNCHANGED <<hub, srv, conns, calls, starts, ui, alive>>
  <2>1. CASE LoopEnds(e)
    BY <1>1, <2>1 DEF LoopEnds, Engine
  <2>2. CASE \E p \in Peer : RoundEnds(e, p)
    BY <1>1, <2>2 DEF RoundEnds, Engine
  <2>3. ASSUME NEW todo \in SUBSET Peer, eng' = [eng EXCEPT ![e].todo = todo],
               UNCHANGED <<hub, srv, conns, calls, starts, ui, alive>>
        PROVE  <1>2!:
    BY <1>1, <2>3 DEF Engine
  <2>4. CASE BeginPass(e) \/ (SyncNowClick /\ e = hub.engine)
    <3>1. PICK todo \in SUBSET Peer : Snapshot(e, todo)
      BY <2>4 DEF BeginPass, SyncNowClick
    <3>2. QED
      BY <2>3, <2>4, <3>1 DEF BeginPass, SyncNowClick, Snapshot
  <2>5. QED
    BY <2>1, <2>2, <2>4 DEF Passes
<1>3. TypeOK' /\ EngineTrusted' /\ PeersAgree'
  BY <1>1, <1>2 DEF TypeOK, EngineTrusted, PeersAgree, HubInv, Hub
<1>4. QED
  BY <1>2, <1>3, Undisturbed

LEMMA ServingHub ==
  ASSUME HubInv, NEW s \in Session, Serving(s)
  PROVE  HubInv'
<1>1. conns' \in [Session -> SUBSET Peer] /\ UNCHANGED <<hub, eng, srv, calls, starts, ui, alive>>
  BY DEF HubInv, TypeOK, Serving, Accept, Disconnect
<1>2. TypeOK' /\ EngineTrusted' /\ PeersAgree'
  BY <1>1 DEF TypeOK, EngineTrusted, PeersAgree, HubInv
<1>3. QED
  BY <1>1, <1>2, Undisturbed

-----------------------------------------------------------------------------
LEMMA StepHub == ~DoubleClick /\ HubInv /\ [Next]_vars => HubInv'
<1> SUFFICES ASSUME ~DoubleClick, HubInv, [Next]_vars
             PROVE  HubInv'
  OBVIOUS
<1>1. CASE User
  <2>1. CASE SetAllowRemoteDelete
    <3>1. TypeOK' /\ EngineTrusted' /\ PeersAgree'
      BY <2>1 DEF SetAllowRemoteDelete, ShowRunning, TypeOK, EngineTrusted, PeersAgree,
         HubInv, Hub
    <3>2. QED
      BY <2>1, <3>1, Undisturbed DEF SetAllowRemoteDelete
  <2>2. CASE SyncNowClick
    <3>1. hub.engine \in Session
      BY <2>2 DEF SyncNowClick, HubInv, TypeOK, Hub
    <3>2. QED
      BY <2>2, <3>1, PassesHub
  <2>3. QED
    BY <1>1, <2>1, <2>2, StartClickHub, StopClickHub, ConnectClickHub, ApproveHub,
       RevokeHub, RoleClickHub DEF User
<1>2. CASE \E c \in Caller : Resume(c)
  BY <1>2, EngineLeftHub, ServerLeftHub, BadFolderHub, MakeSessionHub, ListeningHub,
     CannotListenHub, ProbedHub DEF Resume
<1>3. CASE \E s \in Session : Passes(s) \/ Serving(s)
  BY <1>3, PassesHub, ServingHub
<1>4. CASE Discovery
  BY <1>4, PeerLostHub, BeaconHub DEF Discovery
<1>5. CASE \E p \in Peer : PeerUpOrDown(p)
  <2>1. alive' \subseteq Peer /\ UNCHANGED <<hub, eng, srv, conns, calls, starts, ui>>
    BY <1>5 DEF PeerUpOrDown, HubInv, TypeOK
  <2>2. TypeOK' /\ EngineTrusted' /\ PeersAgree'
    BY <2>1 DEF TypeOK, EngineTrusted, PeersAgree, HubInv
  <2>3. QED
    BY <2>1, <2>2, Undisturbed
<1>6. CASE UNCHANGED vars
  <2>1. TypeOK' /\ EngineTrusted' /\ PeersAgree'
    BY <1>6 DEF vars, TypeOK, EngineTrusted, PeersAgree, HubInv
  <2>2. QED
    BY <1>6, <2>1, Undisturbed DEF vars
<1>7. QED
  BY <1>1, <1>2, <1>3, <1>4, <1>5, <1>6 DEF Next

LEMMA TodoTrusted ==
  ASSUME HubInv, Next
  PROVE  \A e \in Session : eng'[e].todo \ eng[e].todo \subseteq hub.trusted
<1> SUFFICES ASSUME NEW e \in Session,
                    ~(eng'[e].todo \ eng[e].todo \subseteq hub.trusted)
             PROVE  FALSE
  OBVIOUS
<1>0. eng \in [Session -> Engine] /\ hub \in Hub /\ hub.engine \in Session \cup {0}
  BY DEF HubInv, TypeOK, Hub
<1>1. ASSUME NEW d \in Session, NEW T \in SUBSET Peer, Snapshot(d, T),
             d = hub.engine
      PROVE  FALSE
  <2>1. T \subseteq hub.trusted
    BY <1>1 DEF Snapshot, HubInv, EngineTrusted, Session
  <2>2. eng'[e].todo = (IF e = d THEN T ELSE eng[e].todo)
    BY <1>0, <1>1 DEF Snapshot, Engine
  <2>3. QED
    BY <2>1, <2>2
<1>2. ASSUME NEW h, NEW add, NEW drop, eng' = WithPeers(h, add, drop)
      PROVE  FALSE
  BY <1>0, <1>2 DEF WithPeers, Engine
<1>3. ASSUME NEW d, eng' = LetGo(d)
      PROVE  FALSE
  BY <1>0, <1>3 DEF LetGo, Engine
<1>4. ASSUME NEW c, NEW k, LeaveEngine(c, k)
      PROVE  FALSE
  <2>1. \/ eng' = [eng EXCEPT ![hub.engine].loop = "ending"]
        \/ eng' = LetGo(hub.engine)
    BY <1>4 DEF LeaveEngine
  <2>2. QED
    BY <2>1, <1>0, <1>3 DEF Engine
<1>5. CASE User
  <2>1. CASE SyncNowClick
    BY <2>1, <1>0, <1>1 DEF SyncNowClick, Session
  <2>2. CASE \E r \in Role : RoleClick(r)
    BY <2>2, <1>0 DEF RoleClick, EngineMode, Engine
  <2>3. CASE \E p \in Peer : Approve(p) \/ Revoke(p)
    BY <2>3, <1>0, <1>2 DEF Approve, Revoke
  <2>4. CASE SetAllowRemoteDelete
    BY <2>4 DEF SetAllowRemoteDelete
  <2>5. CASE \E c \in Caller : \/ \E m \in Peer \cup {NoPeer} : StartClick(c, m)
                               \/ StopClick(c)
                               \/ \E p \in Peer : ConnectClick(c, p)
    <3>1. CASE \E c \in Caller, p \in Peer : ConnectClick(c, p)
      BY <3>1 DEF ConnectClick
    <3>2. QED
      BY <2>5, <3>1, <1>4 DEF StartClick, StopClick
  <2>6. QED
    BY <1>5, <2>1, <2>2, <2>3, <2>4, <2>5 DEF User
<1>6. CASE \E c \in Caller : Resume(c)
  <2>1. PICK c \in Caller : Resume(c)
    BY <1>6
  <2>2. CASE EngineLeft(c)
    BY <2>2, <1>3 DEF EngineLeft
  <2>3. CASE ServerLeft(c) \/ BadFolder(c)
    BY <2>3 DEF ServerLeft, BadFolder
  <2>4. CASE MakeSession(c)
    BY <2>4, <1>0 DEF MakeSession, NewEngine, Engine
  <2>5. CASE Listening(c)
    <3>1. eng' = eng \/ eng' = [eng EXCEPT ![hub.engine].loop = "on"]
      BY <2>5 DEF Listening
    <3>2. QED
      BY <3>1, <1>0 DEF Engine
  <2>6. CASE CannotListen(c)
    BY <2>6, <1>4 DEF CannotListen
  <2>7. CASE Probed(c)
    BY <2>7, <1>2 DEF Probed
  <2>8. QED
    BY <2>1, <2>2, <2>3, <2>4, <2>5, <2>6, <2>7 DEF Resume
<1>7. CASE \E s \in Session : Passes(s) \/ Serving(s)
  <2>1. PICK s \in Session : Passes(s) \/ Serving(s)
    BY <1>7
  <2>2. CASE BeginPass(s)
    <3>1. s = hub.engine
      BY <2>2 DEF BeginPass, HubInv, OnlyTheHubs
    <3>2. QED
      BY <2>2, <3>1, <1>1 DEF BeginPass
  <2>3. CASE Serving(s)
    BY <2>3 DEF Serving, Accept, Disconnect
  <2>4. CASE LoopEnds(s) \/ \E p \in Peer : RoundEnds(s, p)
    BY <2>4, <1>0 DEF LoopEnds, RoundEnds, Engine
  <2>5. QED
    BY <2>1, <2>2, <2>3, <2>4 DEF Passes
<1>8. CASE Discovery
  <2>1. PICK p \in Peer : PeerLost(p) \/ \E r \in Role : Beacon(p, r)
    BY <1>8 DEF Discovery
  <2>2. CASE PeerLost(p)
    BY <2>2, <1>2 DEF PeerLost
  <2>3. ASSUME NEW r \in Role, Beacon(p, r)
        PROVE  FALSE
    <3>1. CASE eng' = eng
      BY <3>1
    <3>2. CASE eng' = WithPeers(hub, {p}, {})
      BY <3>2, <1>2
    <3>3. CASE eng' = EngineMode(WithPeers(hub, {p}, {}), hub, ComplementRole(r))
      BY <3>3, <1>0 DEF EngineMode, WithPeers, Engine
    <3>4. QED
      BY <2>3, <3>1, <3>2, <3>3 DEF Beacon
  <2>4. QED
    BY <2>1, <2>2, <2>3
<1>9. CASE \E p \in Peer : PeerUpOrDown(p)
  BY <1>9 DEF PeerUpOrDown
<1>10. QED
  BY <1>5, <1>6, <1>7, <1>8, <1>9 DEF Next

(* An engine the hub has let go begins no pass and is not started again. *)
LEMMA LetGoEnds ==
  ASSUME HubInv, Next
  PROVE  \A e \in Session : e # hub.engine =>
            eng'[e].todo \subseteq eng[e].todo /\ eng'[e].loop # "on"
<1> SUFFICES ASSUME NEW e \in Session, e # hub.engine,
                    ~(eng'[e].todo \subseteq eng[e].todo /\ eng'[e].loop # "on")
             PROVE  FALSE
  OBVIOUS
<1>0. /\ eng \in [Session -> Engine] /\ hub \in Hub /\ hub.engine \in Session \cup {0}
      /\ eng[e].loop # "on"
  BY DEF HubInv, TypeOK, Hub, OnlyTheHubs
<1>1. ASSUME NEW d \in Session, NEW T \in SUBSET Peer, Snapshot(d, T),
             d = hub.engine
      PROVE  FALSE
  BY <1>0, <1>1 DEF Snapshot, Engine
<1>2. ASSUME NEW h, NEW add, NEW drop, eng' = WithPeers(h, add, drop)
      PROVE  FALSE
  BY <1>0, <1>2 DEF WithPeers, Engine
<1>3. ASSUME NEW d, eng' = LetGo(d)
      PROVE  FALSE
  BY <1>0, <1>3 DEF LetGo, Engine
<1>4. ASSUME NEW c, NEW k, LeaveEngine(c, k)
      PROVE  FALSE
  <2>1. \/ eng' = [eng EXCEPT ![hub.engine].loop = "ending"]
        \/ eng' = LetGo(hub.engine)
    BY <1>4 DEF LeaveEngine
  <2>2. QED
    BY <2>1, <1>0, <1>3 DEF Engine
<1>5. CASE User
  <2>1. CASE SyncNowClick
    BY <2>1, <1>0, <1>1 DEF SyncNowClick, Session
  <2>2. CASE \E r \in Role : RoleClick(r)
    BY <2>2, <1>0 DEF RoleClick, EngineMode, Engine
  <2>3. CASE \E p \in Peer : Approve(p) \/ Revoke(p)
    BY <2>3, <1>0, <1>2 DEF Approve, Revoke
  <2>4. CASE SetAllowRemoteDelete
    BY <2>4, <1>0 DEF SetAllowRemoteDelete
  <2>5. CASE \E c \in Caller : \/ \E m \in Peer \cup {NoPeer} : StartClick(c, m)
                               \/ StopClick(c)
                               \/ \E p \in Peer : ConnectClick(c, p)
    <3>1. CASE \E c \in Caller, p \in Peer : ConnectClick(c, p)
      BY <3>1, <1>0 DEF ConnectClick
    <3>2. QED
      BY <2>5, <3>1, <1>4 DEF StartClick, StopClick
  <2>6. QED
    BY <1>5, <2>1, <2>2, <2>3, <2>4, <2>5 DEF User
<1>6. CASE \E c \in Caller : Resume(c)
  <2>1. PICK c \in Caller : Resume(c)
    BY <1>6
  <2>2. CASE EngineLeft(c)
    BY <2>2, <1>3 DEF EngineLeft
  <2>3. CASE ServerLeft(c) \/ BadFolder(c)
    BY <2>3, <1>0 DEF ServerLeft, BadFolder
  <2>4. CASE MakeSession(c)
    BY <2>4, <1>0 DEF MakeSession, NewEngine, Engine
  <2>5. CASE Listening(c)
    <3>1. eng' = eng \/ eng' = [eng EXCEPT ![hub.engine].loop = "on"]
      BY <2>5 DEF Listening
    <3>2. QED
      BY <3>1, <1>0 DEF Engine
  <2>6. CASE CannotListen(c)
    BY <2>6, <1>4 DEF CannotListen
  <2>7. CASE Probed(c)
    BY <2>7, <1>0, <1>2 DEF Probed
  <2>8. QED
    BY <2>1, <2>2, <2>3, <2>4, <2>5, <2>6, <2>7 DEF Resume
<1>7. CASE \E s \in Session : Passes(s) \/ Serving(s)
  <2>1. PICK s \in Session : Passes(s) \/ Serving(s)
    BY <1>7
  <2>2. CASE BeginPass(s)
    <3>1. s = hub.engine
      BY <2>2 DEF BeginPass, HubInv, OnlyTheHubs
    <3>2. QED
      BY <2>2, <3>1, <1>1 DEF BeginPass
  <2>3. CASE Serving(s)
    BY <2>3, <1>0 DEF Serving, Accept, Disconnect
  <2>4. CASE LoopEnds(s) \/ \E p \in Peer : RoundEnds(s, p)
    BY <2>4, <1>0 DEF LoopEnds, RoundEnds, Engine
  <2>5. QED
    BY <2>1, <2>2, <2>3, <2>4 DEF Passes
<1>8. CASE Discovery
  <2>1. PICK p \in Peer : PeerLost(p) \/ \E r \in Role : Beacon(p, r)
    BY <1>8 DEF Discovery
  <2>2. CASE PeerLost(p)
    BY <2>2, <1>2 DEF PeerLost
  <2>3. ASSUME NEW r \in Role, Beacon(p, r)
        PROVE  FALSE
    <3>1. CASE eng' = eng
      BY <3>1, <1>0
    <3>2. CASE eng' = WithPeers(hub, {p}, {})
      BY <3>2, <1>2
    <3>3. CASE eng' = EngineMode(WithPeers(hub, {p}, {}), hub, ComplementRole(r))
      BY <3>3, <1>0 DEF EngineMode, WithPeers, Engine
    <3>4. QED
      BY <2>3, <3>1, <3>2, <3>3 DEF Beacon
  <2>4. QED
    BY <2>1, <2>2, <2>3
<1>9. CASE \E p \in Peer : PeerUpOrDown(p)
  BY <1>9, <1>0 DEF PeerUpOrDown
<1>10. QED
  BY <1>5, <1>6, <1>7, <1>8, <1>9 DEF Next

(* What holds of the hub in every reachable state, when nobody presses     *)
(* Start or Stop while the answer to the last press is outstanding.        *)
THEOREM HubInvariant ==
  ASSUME ~DoubleClick
  PROVE  Spec => []HubInv
<1>1. HubInv /\ [Next]_vars => HubInv'
  BY StepHub
<1>2. QED
  BY InitHub, <1>1, PTL DEF Spec

(* The type invariant, for any number of peers, calls and starts. *)
THEOREM HubTypes ==
  ASSUME ~DoubleClick
  PROVE  Spec => []TypeOK
<1>1. HubInv => TypeOK
  BY DEF HubInv
<1>2. QED
  BY <1>1, HubInvariant, PTL

(* The lists of the hub and of its engine agree in every state, whatever   *)
(* callbacks and calls run between a start and a stop.                     *)
THEOREM ListsAgree ==
  ASSUME ~DoubleClick
  PROVE  Spec => []PeersAgree
<1>1. HubInv => PeersAgree
  BY DEF HubInv
<1>2. QED
  BY <1>1, HubInvariant, PTL

(* Off means off: no loop, no server and no discovery of any session; and  *)
(* an engine that was let go begins no pass any more.                      *)
THEOREM NothingIsLeft ==
  ASSUME ~DoubleClick
  PROVE  Spec => NothingLeft
<1> DEFINE Off == ~hub.running /\ ~PowerBusy =>
                    /\ ~hub.discovery /\ hub.engine = 0 /\ hub.server = 0
                    /\ \A s \in Session : eng[s].loop # "on" /\ srv[s] # "open"
           Ends == \A s \in Session : s # hub.engine =>
                    eng'[s].todo \subseteq eng[s].todo /\ eng'[s].loop # "on"
<1>1. HubInv => Off
  BY DEF HubInv, OffMeansOff, OnlyTheHubs, Session
<1>2. HubInv /\ [Next]_vars => [Ends]_vars
  BY LetGoEnds
<1>3. HubInv /\ [Next]_vars => [Off /\ Ends]_vars
  BY <1>1, <1>2
<1>4. QED
  BY <1>3, HubInvariant, PTL DEF Spec, NothingLeft

(* No pass that begins visits a peer that is not approved at that moment.  *)
THEOREM RevokedIsLeft ==
  ASSUME ~DoubleClick
  PROVE  Spec => NewPassTrusted
<1>1. HubInv /\ [Next]_vars =>
        [\A e \in Session : eng'[e].todo \ eng[e].todo \subseteq hub.trusted]_vars
  BY TodoTrusted
<1>2. QED
  BY <1>1, HubInvariant, PTL DEF Spec, NewPassTrusted

-----------------------------------------------------------------------------
(* The panel.  While a start is under way neither the hub nor the panel    *)
(* is on, until the hub is and the panel is about to follow.               *)
PanelStage(k) ==
    /\ k.op \in {"start", "fail"} /\ k.pc # "probe" => ~hub.running /\ ~ui.running
    /\ k.op = "start" /\ k.pc = "probe" => hub.running /\ hub.engine # 0

Panel == PanelTruthful /\ \A c \in Caller : PanelStage(calls[c])

(* A start, or its undoing, that begins has found both off. *)
BothOff(k) == k.op # "stop" => ~hub.running /\ ~ui.running

LEMMA StoppedPanel ==
  ASSUME HubInv, NEW c \in Caller, NEW k, NEW h \in Hub, Alone(c, k), BothOff(k),
         h.running = hub.running, Stopped(c, k, h)
  PROVE  Panel'
<1>1. hub'.running = FALSE /\ ui'.running = FALSE
  BY DEF Stopped, ShowRunning, BothOff, HubInv, TypeOK, Hub
<1>2. calls' = [calls EXCEPT ![c] = IF k.op = "start" THEN [k EXCEPT !.pc = "stat", !.s = 0]
                                                      ELSE Idle]
  BY DEF Stopped
<1>3. /\ calls'[c].pc \in {"stat", "idle"} /\ calls'[c].op \in {"start", "none"}
      /\ \A d \in Caller \ {c} : calls'[d] = calls[d]
  BY <1>2 DEF HubInv, TypeOK, Call, Alone, Idle
<1>4. \A d \in Caller \ {c} : ~Power(calls[d])
  BY DEF Alone
<1> QED
  BY <1>1, <1>3, <1>4 DEF Panel, PanelTruthful, PanelStage, Power

LEMMA LeavingPanel ==
  ASSUME HubInv, Panel, NEW c \in Caller, NEW k, Alone(c, k), BothOff(k), k.pc # "probe",
         NEW where \in {"engine", "server"}, NEW s,
         calls' = [calls EXCEPT ![c] = [k EXCEPT !.pc = where, !.s = s]],
         hub'.running = hub.running, ui' = ui
  PROVE  Panel'
<1>1. /\ calls'[c].pc = where /\ calls'[c].op = k.op
      /\ \A d \in Caller \ {c} : calls'[d] = calls[d]
  BY DEF HubInv, TypeOK, Call, Alone
<1>2. \A d \in Caller \ {c} : ~Power(calls[d])
  BY DEF Alone
<1>3. Power(k)
  BY DEF Alone
<1> QED
  BY <1>1, <1>2, <1>3 DEF Panel, PanelTruthful, PanelStage, Power, PowerBusy, BothOff

LEMMA LeaveServerPanel ==
  ASSUME HubInv, Panel, NEW c \in Caller, NEW k, NEW h \in Hub, Alone(c, k), BothOff(k),
         k.pc # "probe", h.running = hub.running, LeaveServer(c, k, h)
  PROVE  Panel'
<1>1. CASE h.server # 0 /\ srv[h.server] = "open"
  <2>1. /\ calls' = [calls EXCEPT ![c] = [k EXCEPT !.pc = "server", !.s = h.server]]
        /\ hub' = h /\ ui' = ui
    BY <1>1 DEF LeaveServer
  <2> QED
    BY <2>1, LeavingPanel
<1>2. CASE ~(h.server # 0 /\ srv[h.server] = "open")
  <2>1. Stopped(c, k, h)
    BY <1>2 DEF LeaveServer
  <2> QED
    BY <2>1, StoppedPanel
<1> QED
  BY <1>1, <1>2

LEMMA LeaveEnginePanel ==
  ASSUME HubInv, Panel, NEW c \in Caller, NEW k, Alone(c, k), BothOff(k), k.pc # "probe",
         LeaveEngine(c, k)
  PROVE  Panel'
<1> DEFINE h == [hub EXCEPT !.discovery = FALSE, !.seen = {}]
           g == [h EXCEPT !.engine = 0]
<1>1. h.running = hub.running /\ g \in Hub /\ g.running = hub.running
  BY DEF HubInv, TypeOK, Hub
<1>2. CASE hub.engine # 0 /\ eng[hub.engine].loop \in {"on", "ending"}
  <2>1. /\ calls' = [calls EXCEPT ![c] = [k EXCEPT !.pc = "engine"]]
        /\ hub' = h /\ ui' = ui
    BY <1>2 DEF LeaveEngine
  <2>2. [k EXCEPT !.pc = "engine"] = [k EXCEPT !.pc = "engine", !.s = k.s]
    BY DEF Alone, Call
  <2>3. calls' = [calls EXCEPT ![c] = [k EXCEPT !.pc = "engine", !.s = k.s]]
    BY <2>1, <2>2
  <2>4. hub'.running = hub.running
    BY <1>1, <2>1
  <2>5. k.s = k.s /\ ui' = ui
    BY <2>1
  <2> HIDE DEF h, g
  <2> QED
    BY <2>3, <2>4, <2>5, LeavingPanel
<1>3. CASE ~(hub.engine # 0 /\ eng[hub.engine].loop \in {"on", "ending"})
  <2>1. LeaveServer(c, k, g)
    BY <1>3 DEF LeaveEngine
  <2> QED
    BY <1>1, <2>1, LeaveServerPanel
<1> QED
  BY <1>2, <1>3

(* The one who starts or stops is alone. *)
LEMMA OneAlone ==
  ASSUME HubInv, NEW c \in Caller, calls[c].pc \in {"engine", "server", "stat", "listen"}
  PROVE  /\ Power(calls[c]) /\ Stage(calls[c]) /\ calls[c] \in Call
         /\ \A d \in Caller \ {c} : ~Power(calls[d])
         /\ calls[c].pc # "listen" => Alone(c, calls[c])
<1>1. Power(calls[c]) /\ Stage(calls[c]) /\ calls[c] \in Call
  BY DEF HubInv, Others, Stages, TypeOK
<1>2. \A d \in Caller \ {c} : ~Power(calls[d])
  BY <1>1 DEF HubInv, OnePower
<1>3. calls[c].pc # "listen" => Alone(c, calls[c])
  BY <1>1, <1>2 DEF Stage, Alone
<1> QED
  BY <1>1, <1>2, <1>3

(* Whatever else happens leaves the hub on or off, and the panel shows it. *)
LEMMA ShownPanel ==
  ASSUME HubInv, Panel,
         hub'.running = hub.running, hub'.engine = hub.engine,
         ui'.running \in {ui.running, hub.running},
         \A c \in Caller : \/ calls'[c] = calls[c]
                           \/ ~Power(calls[c]) /\ ~Power(calls'[c])
  PROVE  Panel'
<1>1. \A c \in Caller : Power(calls[c]) <=> Power(calls'[c])
  OBVIOUS
<1>2. PowerBusy' <=> PowerBusy
  BY <1>1 DEF PowerBusy, Power
<1>3. PanelTruthful'
  BY <1>2 DEF Panel, PanelTruthful
<1>4. \A c \in Caller : PanelStage(calls[c])'
  BY DEF Panel, PanelStage, Power
<1> QED
  BY <1>3, <1>4 DEF Panel

LEMMA ClicksPanel ==
  ASSUME ~DoubleClick, HubInv, Panel, NEW c \in Caller,
         StopClick(c) \/ \E m \in Peer \cup {NoPeer} : StartClick(c, m)
  PROVE  Panel'
<1>1. ~PowerBusy
  BY DEF StopClick, StartClick, MayPress
<1>2. \A d \in Caller : ~Power(calls[d])
  BY <1>1 DEF PowerBusy, Power
<1>3. CASE StopClick(c)
  <2> DEFINE k == [Idle EXCEPT !.op = "stop"]
  <2>1. Alone(c, k) /\ BothOff(k) /\ k.pc # "probe"
    BY <1>2 DEF Alone, BothOff, Idle, Call, Power, Role
  <2> QED
    BY <1>3, <2>1, LeaveEnginePanel DEF StopClick
<1>4. ASSUME NEW m \in Peer \cup {NoPeer}, StartClick(c, m) PROVE Panel'
  <2> DEFINE k == [Idle EXCEPT !.op = "start", !.peer = m, !.role = ui.role]
  <2>1. starts < MaxStarts
    <3>1. {d \in Caller : calls[d].op = "start"} = {}
      BY <1>2 DEF Power
    <3>2. Cardinality({d \in Caller : calls[d].op = "start"}) = 0
      BY <3>1, FS_EmptySet
    <3>3. starts + Cardinality({d \in Caller : calls[d].op = "start"}) < MaxStarts
      BY <1>4 DEF StartClick
    <3>4. starts \in Nat /\ MaxStarts \in Nat
      BY HubAssumption DEF HubInv, TypeOK
    <3> QED
      BY <3>2, <3>3, <3>4
  <2>2. k \in Call /\ k.op = "start" /\ k.pc = "idle"
    BY DEF Idle, Call, HubInv, TypeOK
  <2>3. ~ui.running /\ ~hub.running
    BY <1>1, <1>4 DEF StartClick, Panel, PanelTruthful
  <2>4. Alone(c, k) /\ BothOff(k) /\ k.pc # "probe"
    BY <1>2, <2>1, <2>2, <2>3 DEF Alone, BothOff, Power
  <2> QED
    BY <1>4, <2>4, LeaveEnginePanel DEF StartClick
<1> QED
  BY <1>3, <1>4

LEMMA LeftPanel ==
  ASSUME HubInv, Panel, NEW c \in Caller, EngineLeft(c) \/ ServerLeft(c)
  PROVE  Panel'
<1>1. Alone(c, calls[c]) /\ calls[c].pc # "probe" /\ BothOff(calls[c])
  BY OneAlone DEF EngineLeft, ServerLeft, Panel, PanelStage, BothOff, Power, Alone
<1>2. hub \in Hub
  BY DEF HubInv, TypeOK
<1>3. CASE EngineLeft(c)
  <2> DEFINE h == [hub EXCEPT !.engine = 0]
  <2>1. LeaveServer(c, calls[c], h) /\ h \in Hub /\ h.running = hub.running
    BY <1>2, <1>3 DEF EngineLeft, Hub
  <2> HIDE DEF h
  <2> QED
    BY <1>1, <2>1, LeaveServerPanel
<1>4. CASE ServerLeft(c)
  BY <1>1, <1>2, <1>4, StoppedPanel DEF ServerLeft
<1> QED
  BY <1>3, <1>4

LEMMA BeginningPanel ==
  ASSUME HubInv, Panel, NEW c \in Caller, BadFolder(c) \/ MakeSession(c)
  PROVE  Panel'
<1>1. /\ Power(calls[c]) /\ Stage(calls[c]) /\ calls[c] \in Call
      /\ \A d \in Caller \ {c} : ~Power(calls[d])
      /\ calls[c].pc = "stat"
  BY OneAlone DEF BadFolder, MakeSession
<1>2. calls[c].op = "start" /\ ~hub.running /\ ~ui.running
  BY <1>1 DEF Stage, Panel, PanelStage
<1>3. hub'.running = hub.running /\ ui' = ui
  BY DEF BadFolder, MakeSession, Fresh, HubInv, TypeOK, Hub
<1>4. /\ calls'[c].op \in {"none", "start"} /\ calls'[c].pc # "probe"
      /\ \A d \in Caller \ {c} : calls'[d] = calls[d]
  BY <1>1, <1>2 DEF BadFolder, MakeSession, HubInv, TypeOK, Call, Idle
<1>5. PanelTruthful'
  BY <1>2, <1>3 DEF PanelTruthful, HubInv, TypeOK, Hub
<1>6. PanelStage(calls[c])'
  BY <1>2, <1>3, <1>4 DEF PanelStage
<1>7. \A d \in Caller \ {c} : PanelStage(calls[d])'
  BY <1>1, <1>4 DEF PanelStage, Power
<1> QED
  BY <1>5, <1>6, <1>7 DEF Panel

LEMMA ListeningPanel ==
  ASSUME HubInv, Panel, NEW c \in Caller, Listening(c)
  PROVE  Panel'
<1>1. /\ Power(calls[c]) /\ Stage(calls[c]) /\ calls[c] \in Call
      /\ \A d \in Caller \ {c} : ~Power(calls[d])
      /\ calls[c].pc = "listen"
  BY OneAlone DEF Listening
<1>2. calls[c].op = "start" /\ hub.engine # 0
  BY <1>1 DEF Stage
<1>3. hub'.running = TRUE /\ hub'.engine = hub.engine
  BY <1>2 DEF Listening, HubInv, TypeOK, Hub
<1>4. \/ calls'[c].op = "start" /\ calls'[c].pc = "probe"
      \/ calls'[c].op = "none" /\ ui'.running = TRUE
  BY <1>1, <1>2 DEF Listening, ShowRunning, HubInv, TypeOK, Call, Idle
<1>5. \A d \in Caller \ {c} : calls'[d] = calls[d]
  BY <1>2 DEF Listening, HubInv, TypeOK
<1> QED
  BY <1>1, <1>2, <1>3, <1>4, <1>5 DEF Panel, PanelTruthful, PanelStage, PowerBusy, Power

LEMMA CannotListenPanel ==
  ASSUME HubInv, Panel, NEW c \in Caller, CannotListen(c)
  PROVE  Panel'
<1> DEFINE k == [calls[c] EXCEPT !.op = "fail", !.s = 0]
<1>1. /\ Power(calls[c]) /\ Stage(calls[c]) /\ calls[c] \in Call
      /\ \A d \in Caller \ {c} : ~Power(calls[d])
      /\ calls[c].pc = "listen"
  BY OneAlone DEF CannotListen
<1>2. ~hub.running /\ ~ui.running
  BY <1>1 DEF Stage, Panel, PanelStage
<1>3. k \in Call /\ k.op = "fail" /\ k.pc = "listen"
  BY <1>1 DEF Call
<1>4. LeaveEngine(c, k)
  BY DEF CannotListen
<1> HIDE DEF k
<1>5. Alone(c, k) /\ BothOff(k) /\ k.pc # "probe"
  BY <1>1, <1>2, <1>3 DEF Alone, BothOff, Power
<1> QED
  BY <1>4, <1>5, LeaveEnginePanel

LEMMA ProbedPanel ==
  ASSUME HubInv, Panel, NEW c \in Caller, Probed(c)
  PROVE  Panel'
<1>1. /\ calls'[c] = Idle /\ \A d \in Caller \ {c} : calls'[d] = calls[d]
  BY DEF Probed, HubInv, TypeOK
<1>2. hub'.running = hub.running /\ hub'.engine = hub.engine
  BY DEF Probed, HubInv, TypeOK, Hub
<1>3. CASE calls[c].op = "start"
  <2>1. hub.running /\ hub.engine # 0
    BY <1>3 DEF Probed, Panel, PanelStage
  <2>2. ui'.running = TRUE
    BY <1>3, <2>1 DEF Probed, ShowRunning, HubInv, TypeOK
  <2>3. \A d \in Caller \ {c} : ~Power(calls[d])
    BY <1>3 DEF HubInv, OnePower, Power
  <2>4. hub'.running = TRUE
    BY <1>2, <2>1 DEF HubInv, TypeOK, Hub
  <2>6. \A d \in Caller \ {c} : PanelStage(calls[d])'
    BY <1>1, <2>3 DEF PanelStage, Power
  <2>7. PanelStage(calls[c])'
    BY <1>1 DEF PanelStage, Idle
  <2>8. PanelTruthful'
    BY <2>2, <2>4 DEF PanelTruthful
  <2> QED
    BY <2>6, <2>7, <2>8 DEF Panel
<1>4. CASE calls[c].op # "start"
  <2>1. ~Power(calls[c]) /\ ui' = ui
    BY <1>4 DEF HubInv, Stages, Stage, Probed
  <2>2. ~Power(calls'[c])
    BY <1>1 DEF Power, Idle
  <2> QED
    BY <1>1, <1>2, <2>1, <2>2, ShownPanel
<1> QED
  BY <1>3, <1>4

LEMMA ListsPanel ==
  ASSUME HubInv, Panel,
         \/ \E p \in Peer : Approve(p) \/ Revoke(p)
         \/ \E r \in Role : RoleClick(r)
         \/ SetAllowRemoteDelete \/ SyncNowClick
         \/ Discovery
  PROVE  Panel'
<1>1. calls' = calls
  BY DEF Approve, Revoke, RoleClick, SetAllowRemoteDelete, SyncNowClick, Discovery,
     PeerLost, Beacon
<1>2. hub \in Hub /\ ui \in [running : BOOLEAN, role : Role, locked : BOOLEAN]
  BY DEF HubInv, TypeOK
<1>3. hub'.running = hub.running /\ hub'.engine = hub.engine
  BY <1>2 DEF Approve, Revoke, RoleClick, SetAllowRemoteDelete, SyncNowClick, Discovery,
     PeerLost, Beacon, WithRole, Hub
<1>4. ui'.running \in {ui.running, hub.running}
  <2>1. CASE \E r \in Role : RoleClick(r)
    BY <1>2, <2>1 DEF RoleClick
  <2>2. CASE \/ \E p \in Peer : Approve(p) \/ Revoke(p)
             \/ SetAllowRemoteDelete \/ SyncNowClick
    BY <1>2, <2>2 DEF Approve, Revoke, SetAllowRemoteDelete, SyncNowClick, ShowRunning
  <2>3. ASSUME NEW p \in Peer, NEW r \in Role, Beacon(p, r)
        PROVE  ui'.running \in {ui.running, hub.running}
    BY <1>2, <2>3 DEF Beacon
  <2>4. ASSUME NEW p \in Peer, PeerLost(p)
        PROVE  ui'.running \in {ui.running, hub.running}
    BY <1>2, <2>4 DEF PeerLost
  <2> QED
    BY <2>1, <2>2, <2>3, <2>4 DEF Discovery
<1> QED
  BY <1>1, <1>3, <1>4, ShownPanel

LEMMA StepPanel == ~DoubleClick /\ HubInv /\ Panel /\ [Next]_vars => Panel'
<1> SUFFICES ASSUME ~DoubleClick, HubInv, Panel, [Next]_vars
             PROVE  Panel'
  OBVIOUS
<1>1. ASSUME NEW c \in Caller, NEW p \in Peer, ConnectClick(c, p)
      PROVE  Panel'
  <2>1. \A d \in Caller : \/ calls'[d] = calls[d]
                          \/ ~Power(calls[d]) /\ ~Power(calls'[d])
    BY <1>1 DEF ConnectClick, HubInv, TypeOK, Idle, Power
  <2> QED
    BY <1>1, <2>1, ShownPanel DEF ConnectClick
<1>2. CASE User
  BY <1>1, <1>2, ClicksPanel, ListsPanel DEF User
<1>3. CASE \E c \in Caller : Resume(c)
  BY <1>3, LeftPanel, BeginningPanel, ListeningPanel, CannotListenPanel, ProbedPanel
  DEF Resume
<1>4. CASE \E s \in Session : Passes(s) \/ Serving(s)
  <2>1. UNCHANGED <<hub, calls, ui>>
    BY <1>4 DEF Passes, Serving, BeginPass, LoopEnds, RoundEnds, Accept, Disconnect
  <2> QED
    BY <2>1, ShownPanel
<1>5. CASE Discovery
  BY <1>5, ListsPanel
<1>6. CASE (\E p \in Peer : PeerUpOrDown(p)) \/ UNCHANGED vars
  <2>1. UNCHANGED <<hub, calls, ui>>
    BY <1>6 DEF PeerUpOrDown, vars
  <2> QED
    BY <2>1, ShownPanel
<1> QED
  BY <1>2, <1>3, <1>4, <1>5, <1>6 DEF Next

(* When nobody is starting or stopping, the panel shows On exactly when    *)
(* WiFiSync is on - through approvals, role changes, beacons and probes    *)
(* that each send the panel a status of their own.                         *)
THEOREM PanelIsTruthful ==
  ASSUME ~DoubleClick
  PROVE  Spec => []PanelTruthful
<1>1. Init => Panel
  BY DEF Init, Panel, PanelTruthful, PanelStage, Idle
<1>2. HubInv /\ Panel /\ [Next]_vars => Panel'
  BY StepPanel
<1>3. Panel => PanelTruthful
  BY DEF Panel
<1> QED
  BY <1>1, <1>2, <1>3, HubInvariant, PTL DEF Spec
=============================================================================
