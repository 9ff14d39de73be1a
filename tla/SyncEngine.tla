----------------------------- MODULE SyncEngine -----------------------------
(***************************************************************************)
(* WiFiSync's SyncEngine (electron/field/engine.ts) on every machine of a  *)
(* crew: users write and delete files in the shared folders, the watcher   *)
(* reports deletions, and each engine runs sync passes against its peers.  *)
(*                                                                         *)
(* A runner is one caller of syncNow(): the background loop, or the "Sync  *)
(* now" button, which runs the same pass on the same folder concurrently.  *)
(* Every await of a pass that lets other code change what the pass reads   *)
(* or writes is a step boundary.                                           *)
(***************************************************************************)
EXTENDS FieldManifest, Sequences

CONSTANTS
    Node,      \* machines
    Runner,    \* callers of syncNow
    Host,      \* Host[r]: the machine runner r works for
    Peers,     \* Peers[n]: n's peers, in the order they were added
    Roles,     \* the modes a user or the negotiation may select
    Faults,    \* which of "net", "save", "unlink", "crash", "event", "tear" happen
    Skew,      \* Skew[n]: n's clock minus the true time
    Edited,    \* the paths users work on while WiFiSync runs
    Switchers, \* machines whose settings change while WiFiSync runs
    MaxTime    \* bound on the clock

ASSUME EngineAssumption ==
    /\ Host \in [Runner -> Node]
    /\ Peers \in [Node -> Seq(Node)]
    /\ Roles \subseteq Mode
    /\ Skew \in [Node -> Int]
    /\ Edited \subseteq Path
    /\ Switchers \subseteq Node
    /\ MaxTime \in Nat

VARIABLES
    now,      \* true time
    disk,     \* disk[n]: the files in n's shared folder
    store,    \* store[n]: the tombstone file beside it
    tombs,    \* tombs[n]: the engine's in-memory tombstones
    pending,  \* pending[n]: deletions reported and not yet tombstoned
    events,   \* events[n]: paths whose removal the watcher has still to report
    mode,     \* mode[n]: the engine's mode
    allow,    \* allow[n]: allowRemoteDeletes
    pc, todo, batch, local, remote, pulls, dels, cur,  \* the runners
    saved,    \* history: saved[p] = the contents users ever saved under p
    erased    \* history: erased[n][p] = when n's user last deleted p, or Never

userVars  == <<now, saved, erased>>
nodeVars  == <<disk, store, tombs, pending, events>>
confVars  == <<mode, allow>>
roundVars == <<pc, todo, batch, local, remote, pulls, dels, cur>>
vars == <<userVars, nodeVars, confVars, roundVars>>

Never == -1
Clock(n) == now + Skew[n]

\* The task a runner holds across an await: a path, the record or file it
\* goes with, and the loop it returns to.
NoTask == [path |-> CHOOSE p \in Path : TRUE, mtime |-> 0, content |-> 0,
           back |-> "idle"]
Task == [path : Path, mtime : Int, content : Content,
         back : {"idle", "originate", "pull", "delete"}]

PC == {"idle", "originate", "save", "set", "fetch", "pull",
       "install", "stamp", "untomb", "delete"}

Init ==
    /\ now = WRITE_STABILITY_SEC
    /\ disk \in [Node -> [Path -> {NoFile, File(0, 0)}]]
    /\ store = [n \in Node |-> NoRecords]
    /\ tombs = store
    /\ pending = [n \in Node |-> {}]
    /\ events = [n \in Node |-> {}]
    /\ mode \in [Node -> Roles]
    /\ allow \in [Node -> BOOLEAN]
    /\ pc = [r \in Runner |-> "idle"]
    /\ todo = [r \in Runner |-> <<>>]
    /\ batch = [r \in Runner |-> {}]
    /\ local = [r \in Runner |-> NoRecords]
    /\ remote = [r \in Runner |-> NoRecords]
    /\ pulls = [r \in Runner |-> {}]
    /\ dels = [r \in Runner |-> {}]
    /\ cur = [r \in Runner |-> NoTask]
    /\ saved = [p \in Path |-> {0}]
    /\ erased = [n \in Node |-> [p \in Path |-> Never]]

-----------------------------------------------------------------------------
(* The users, the clock and the switches of the WiFiSync tab.              *)

Tick ==
    /\ now < MaxTime
    /\ now' = now + 1
    /\ UNCHANGED <<saved, erased, nodeVars, confVars, roundVars>>

\* A user saves a file.  No two users act in one instant, so the true time of a
\* save also names the bytes.
UserWrite(n, p) ==
    /\ now < MaxTime
    /\ now' = now + 1
    /\ disk' = [disk EXCEPT ![n][p] = File(now' + Skew[n], now')]
    /\ saved' = [saved EXCEPT ![p] = @ \union {now'}]
    /\ UNCHANGED <<erased, store, tombs, pending, events, confVars, roundVars>>

\* A user deletes (or moves away) a file; the watcher will hear of it.
UserDelete(n, p) ==
    /\ disk[n][p].kind = "live"
    /\ now < MaxTime
    /\ now' = now + 1
    /\ disk' = [disk EXCEPT ![n][p] = NoFile]
    /\ events' = [events EXCEPT ![n] = @ \union {p}]
    /\ erased' = [erased EXCEPT ![n][p] = now']
    /\ UNCHANGED <<saved, store, tombs, pending, confVars, roundVars>>

SetAllowRemoteDeletes(n) ==
    /\ n \in Switchers
    /\ allow' = [allow EXCEPT ![n] = ~@]
    /\ UNCHANGED <<userVars, nodeVars, mode, roundVars>>

SetMode(n, m) ==
    /\ n \in Switchers
    /\ mode[n] # m
    /\ mode' = [mode EXCEPT ![n] = m]
    /\ UNCHANGED <<userVars, nodeVars, allow, roundVars>>

-----------------------------------------------------------------------------
(* The watcher: it probes the path when the event is delivered, so a file  *)
(* that is back by then is no deletion.  "event": the OS dropped the event,*)
(* or the engine runs in interval mode and has no watcher.                 *)

WatchEvent(n, p) ==
    /\ p \in events[n]
    /\ events' = [events EXCEPT ![n] = @ \ {p}]
    /\ pending' = IF disk[n][p].kind = "none"
                  THEN [pending EXCEPT ![n] = @ \union {p}]
                  ELSE pending
    /\ UNCHANGED <<userVars, disk, store, tombs, confVars, roundVars>>

LoseEvent(n, p) ==
    /\ "event" \in Faults
    /\ p \in events[n]
    /\ events' = [events EXCEPT ![n] = @ \ {p}]
    /\ UNCHANGED <<userVars, disk, store, tombs, pending, confVars, roundVars>>

-----------------------------------------------------------------------------
(* A sync pass: syncNow, and runSyncRound for each peer in turn.           *)

\* Go on with the peers in `rest`, or end the pass.  A round starts by draining
\* the pending deletions into the runner's batch; a master only serves.
GoOn(r, rest) ==
    LET n == Host[r]
        round == rest # <<>> /\ mode[n] # "master"
    IN  /\ todo' = [todo EXCEPT ![r] = IF round THEN rest ELSE <<>>]
        /\ pc' = [pc EXCEPT ![r] = IF round THEN "originate" ELSE "idle"]
        /\ batch' = [batch EXCEPT ![r] = IF round THEN pending[n] ELSE {}]
        /\ pending' = IF round THEN [pending EXCEPT ![n] = {}] ELSE pending

StartPass(r) ==
    LET n == Host[r]
    IN  /\ pc[r] = "idle"
        /\ Peers[n] # <<>>
        /\ mode[n] # "master"
        /\ GoOn(r, IF mode[n] = "slave" THEN <<Head(Peers[n])>> ELSE Peers[n])
        /\ UNCHANGED <<userVars, disk, store, tombs, events, confVars,
                       local, remote, pulls, dels, cur>>

\* The round returns or throws: on to the peers after this one.
EndRound(r) ==
    /\ GoOn(r, Tail(todo[r]))
    /\ local'  = [local EXCEPT ![r] = NoRecords]
    /\ remote' = [remote EXCEPT ![r] = NoRecords]
    /\ pulls'  = [pulls EXCEPT ![r] = {}]
    /\ dels'   = [dels EXCEPT ![r] = {}]
    /\ cur'    = [cur EXCEPT ![r] = NoTask]
    /\ UNCHANGED <<userVars, disk, store, tombs, events, confVars>>

\* originateTombstones: a batched path that exists again is skipped, any other
\* gets a tombstone of this very moment.
OriginateProbe(r, p) ==
    LET n == Host[r]
    IN  /\ pc[r] = "originate"
        /\ p \in batch[r]
        /\ batch' = [batch EXCEPT ![r] = @ \ {p}]
        /\ \/ /\ disk[n][p].kind = "live"
              /\ UNCHANGED <<pc, cur>>
           \/ /\ disk[n][p].kind = "none"
              /\ cur' = [cur EXCEPT ![r] = [path |-> p, mtime |-> Clock(n),
                                            content |-> 0, back |-> "originate"]]
              /\ pc' = [pc EXCEPT ![r] = "save"]
        /\ UNCHANGED <<userVars, nodeVars, confVars, todo, local, remote,
                       pulls, dels>>

\* saveTombstone (to disk first) ...
SaveTombstone(r) ==
    LET n == Host[r]
    IN  /\ pc[r] = "save"
        /\ store' = [store EXCEPT ![n] =
                AddTombstoneEntry(@, cur[r].path, cur[r].mtime, Clock(n))]
        /\ pc' = [pc EXCEPT ![r] = "set"]
        /\ UNCHANGED <<userVars, disk, tombs, pending, events, confVars, todo,
                       batch, local, remote, pulls, dels, cur>>

\* ... then this.tombstones.set.
SetTombstone(r) ==
    LET n == Host[r]
    IN  /\ pc[r] = "set"
        /\ tombs' = [tombs EXCEPT ![n][cur[r].path] = Deleted(cur[r].mtime)]
        /\ pc' = [pc EXCEPT ![r] = cur[r].back]
        /\ cur' = [cur EXCEPT ![r] = NoTask]
        /\ UNCHANGED <<userVars, disk, store, pending, events, confVars, todo,
                       batch, local, remote, pulls, dels>>

\* Mutant: the error is swallowed, and the tombstone set nevertheless.
SaveFailGoesOn(r) ==
    /\ "save" \in Faults
    /\ pc[r] = "save"
    /\ pc' = [pc EXCEPT ![r] = "set"]
    /\ UNCHANGED <<userVars, nodeVars, confVars, todo, batch, local, remote,
                   pulls, dels, cur>>

\* The tombstone file cannot be written.  Originating throws out of the round,
\* with the rest of its batch; the pull and delete loops log it and go on.
SaveFail(r) ==
    /\ "save" \in Faults
    /\ pc[r] \in {"save", "untomb"}
    /\ \/ /\ cur[r].back = "originate"
          /\ EndRound(r)
       \/ /\ cur[r].back # "originate"
          /\ pc' = [pc EXCEPT ![r] = cur[r].back]
          /\ cur' = [cur EXCEPT ![r] = NoTask]
          /\ UNCHANGED <<userVars, nodeVars, confVars, todo, batch, local,
                         remote, pulls, dels>>

\* getMergedManifest, for the local diff and for the file server alike.
GetMergedManifest(n) ==
    MergeManifest(BuildManifest(disk[n], Clock(n)), tombs[n])

LocalManifest(r) ==
    /\ pc[r] = "originate"
    /\ batch[r] = {}
    /\ local' = [local EXCEPT ![r] = GetMergedManifest(Host[r])]
    /\ pc' = [pc EXCEPT ![r] = "fetch"]
    /\ UNCHANGED <<userVars, nodeVars, confVars, todo, batch, remote, pulls,
                   dels, cur>>

\* fetchManifest, computeDiff and the guard.  From here on nothing reads the
\* local manifest, and only the delete loop reads the remote one.
FetchManifest(r) ==
    LET answer == GetMergedManifest(Head(todo[r]))
        plan == SyncPlan(local[r], answer, mode[Host[r]])
    IN  /\ pc[r] = "fetch"
        /\ local' = [local EXCEPT ![r] = NoRecords]
        /\ remote' = [remote EXCEPT ![r] =
                IF plan.toDelete = {} THEN NoRecords ELSE answer]
        /\ pulls' = [pulls EXCEPT ![r] = plan.toPull]
        /\ dels' = [dels EXCEPT ![r] = plan.toDelete]
        /\ pc' = [pc EXCEPT ![r] = "pull"]
        /\ UNCHANGED <<userVars, nodeVars, confVars, todo, batch, cur>>

FetchFail(r) ==
    /\ "net" \in Faults
    /\ pc[r] = "fetch"
    /\ EndRound(r)

\* fetchFile: the peer stats the file it has now, if it has one, and sends it.
PullRequest(r, p) ==
    LET file == disk[Head(todo[r])][p]
    IN  /\ pc[r] = "pull"
        /\ p \in pulls[r]
        /\ pulls' = [pulls EXCEPT ![r] = @ \ {p}]
        /\ \/ /\ file.kind = "none"
              /\ UNCHANGED <<pc, cur>>
           \/ /\ file.kind = "live"
              /\ cur' = [cur EXCEPT ![r] = [path |-> p, mtime |-> file.mtime,
                                            content |-> file.content, back |-> "pull"]]
              /\ pc' = [pc EXCEPT ![r] = "install"]
        /\ UNCHANGED <<userVars, nodeVars, confVars, todo, batch, local, remote,
                       dels>>

\* "tear": the bytes that make up the declared size are not one version, as the
\* peer's user saves the file in place while it is being read, or another pass
\* on this machine writes the same temp file.
PullTear(r) ==
    LET file == disk[Head(todo[r])][cur[r].path]
    IN  /\ "tear" \in Faults
        /\ pc[r] = "install"
        /\ \/ file.kind = "live" /\ file.content # cur[r].content
           \/ \E q \in Runner \ {r} : /\ Host[q] = Host[r] /\ pc[q] = "install"
                                      /\ cur[q].path = cur[r].path
        /\ cur' = [cur EXCEPT ![r].content = Torn]
        /\ UNCHANGED <<userVars, nodeVars, confVars, pc, todo, batch, local,
                       remote, pulls, dels>>

\* The last byte is here: the temp file, just written, is renamed over the
\* destination ...
PullRename(r) ==
    LET n == Host[r]
    IN  /\ pc[r] = "install"
        /\ disk' = [disk EXCEPT ![n][cur[r].path] =
                File(Clock(n), cur[r].content)]
        /\ pc' = [pc EXCEPT ![r] = "stamp"]
        /\ UNCHANGED <<userVars, store, tombs, pending, events, confVars, todo,
                       batch, local, remote, pulls, dels, cur>>

\* Mutant: an error of utimes is ignored, and the tombstone forgotten.
PullStampIgnoresError(r) ==
    LET n == Host[r] p == cur[r].path
    IN  /\ pc[r] = "stamp"
        /\ disk' = IF disk[n][p].kind = "live"
                   THEN [disk EXCEPT ![n][p] = File(cur[r].mtime, @.content)]
                   ELSE disk
        /\ tombs' = [tombs EXCEPT ![n][p] = NoRecord]
        /\ pc' = [pc EXCEPT ![r] = "untomb"]
        /\ UNCHANGED <<userVars, store, pending, events, confVars, todo, batch,
                       local, remote, pulls, dels, cur>>

\* ... then whatever is there by now gets the peer's mtime, and the engine
\* forgets the tombstone (in memory; the file follows in ForgetTombstone).  The
\* pull is reported as failed, and the tombstone stays, if nothing is there for
\* utimes to stamp, or the connection failed during the rename.  (Here the stamp
\* is always in place when the runner goes on; in the code one that follows a
\* failed connection may land a little later, see FileTransfer.)
PullStamp(r) ==
    LET n == Host[r] p == cur[r].path
    IN  /\ pc[r] = "stamp"
        /\ disk' = IF disk[n][p].kind = "live"
                   THEN [disk EXCEPT ![n][p] = File(cur[r].mtime, @.content)]
                   ELSE disk
        /\ \/ /\ disk[n][p].kind = "live"
              /\ tombs' = [tombs EXCEPT ![n][p] = NoRecord]
              /\ pc' = [pc EXCEPT ![r] = "untomb"]
              /\ UNCHANGED cur
           \/ /\ disk[n][p].kind = "none" \/ "net" \in Faults
              /\ pc' = [pc EXCEPT ![r] = "pull"]
              /\ cur' = [cur EXCEPT ![r] = NoTask]
              /\ UNCHANGED tombs
        /\ UNCHANGED <<userVars, store, pending, events, confVars, todo, batch,
                       local, remote, pulls, dels>>

ForgetTombstone(r) ==
    LET n == Host[r]
    IN  /\ pc[r] = "untomb"
        /\ store' = [store EXCEPT ![n] = RemoveTombstoneEntry(@, cur[r].path)]
        /\ pc' = [pc EXCEPT ![r] = "pull"]
        /\ cur' = [cur EXCEPT ![r] = NoTask]
        /\ UNCHANGED <<userVars, disk, tombs, pending, events, confVars, todo,
                       batch, local, remote, pulls, dels>>

\* The connection breaks, or the peer has no file to open after its stat: the
\* temp file is unlinked and the loop goes on.
PullFail(r) ==
    /\ pc[r] = "install"
    /\ "net" \in Faults \/ disk[Head(todo[r])][cur[r].path].kind = "none"
    /\ pc' = [pc EXCEPT ![r] = "pull"]
    /\ cur' = [cur EXCEPT ![r] = NoTask]
    /\ UNCHANGED <<userVars, nodeVars, confVars, todo, batch, local, remote,
                   pulls, dels>>

\* Whether peers may delete n's files.
DeletesAllowed(n) == allow[n]

\* The pulls are done.  Peers may delete local files only if the switch is on
\* at this moment.
DeleteGate(r) ==
    /\ pc[r] = "pull"
    /\ pulls[r] = {}
    /\ \/ /\ dels[r] # {} /\ DeletesAllowed(Host[r])
          /\ pc' = [pc EXCEPT ![r] = "delete"]
          /\ UNCHANGED <<userVars, nodeVars, confVars, todo, batch, local,
                         remote, pulls, dels, cur>>
       \/ /\ dels[r] = {} \/ ~DeletesAllowed(Host[r])
          /\ EndRound(r)

\* One path of the delete loop: unlink what is there, then, unless this is a
\* slave, adopt the peer's tombstone.
DeleteLocal(r, p) ==
    LET n == Host[r]
    IN  /\ pc[r] = "delete"
        /\ p \in dels[r]
        /\ dels' = [dels EXCEPT ![r] = @ \ {p}]
        /\ \/ /\ disk[n][p].kind = "live"
              /\ disk' = [disk EXCEPT ![n][p] = NoFile]
              /\ events' = [events EXCEPT ![n] = @ \union {p}]
           \/ /\ disk[n][p].kind = "none"
              /\ UNCHANGED <<disk, events>>
        /\ \/ /\ mode[n] # "slave" /\ remote[r][p].kind # "none"
              /\ cur' = [cur EXCEPT ![r] = [path |-> p, mtime |-> remote[r][p].mtime,
                                            content |-> 0, back |-> "delete"]]
              /\ pc' = [pc EXCEPT ![r] = "save"]
           \/ /\ mode[n] = "slave" \/ remote[r][p].kind = "none"
              /\ UNCHANGED <<pc, cur>>
        /\ UNCHANGED <<userVars, store, tombs, pending, confVars, todo, batch,
                       local, remote, pulls>>

\* The file cannot be unlinked: it stays, and its tombstone is not adopted.
UnlinkFail(r, p) ==
    /\ "unlink" \in Faults
    /\ pc[r] = "delete"
    /\ p \in dels[r]
    /\ disk[Host[r]][p].kind = "live"
    /\ dels' = [dels EXCEPT ![r] = @ \ {p}]
    /\ UNCHANGED <<userVars, nodeVars, confVars, pc, todo, batch, local, remote,
                   pulls, cur>>

DeleteDone(r) ==
    /\ pc[r] = "delete"
    /\ dels[r] = {}
    /\ EndRound(r)

\* The application quits or crashes and WiFiSync is started again on the same
\* folder: the tombstones come back from disk, everything else is gone.
Restart(n) ==
    LET own(f, init) == [r \in Runner |-> IF Host[r] = n THEN init ELSE f[r]]
    IN  /\ "crash" \in Faults
        /\ tombs' = [tombs EXCEPT ![n] = store[n]]
        /\ pending' = [pending EXCEPT ![n] = {}]
        /\ events' = [events EXCEPT ![n] = {}]
        /\ pc' = own(pc, "idle")
        /\ todo' = own(todo, <<>>)
        /\ batch' = own(batch, {})
        /\ local' = own(local, NoRecords)
        /\ remote' = own(remote, NoRecords)
        /\ pulls' = own(pulls, {})
        /\ dels' = own(dels, {})
        /\ cur' = own(cur, NoTask)
        /\ UNCHANGED <<userVars, disk, store, confVars>>

-----------------------------------------------------------------------------

EngineStep(r) ==
    \/ StartPass(r)
    \/ \E p \in Path : OriginateProbe(r, p)
    \/ SaveTombstone(r) \/ SetTombstone(r)
    \/ LocalManifest(r) \/ FetchManifest(r)
    \/ \E p \in Path : PullRequest(r, p)
    \/ PullRename(r) \/ PullStamp(r) \/ ForgetTombstone(r)
    \/ DeleteGate(r)
    \/ \E p \in Path : DeleteLocal(r, p)
    \/ DeleteDone(r)

WatcherStep(n) == \E p \in Path : WatchEvent(n, p)

Fault ==
    \/ \E n \in Node : Restart(n) \/ \E p \in Path : LoseEvent(n, p)
    \/ \E r \in Runner :
        \/ SaveFail(r) \/ FetchFail(r) \/ PullFail(r) \/ PullTear(r)
        \/ \E p \in Path : UnlinkFail(r, p)

User ==
    \/ \E n \in Node, p \in Edited : UserWrite(n, p) \/ UserDelete(n, p)
    \/ \E n \in Node : SetAllowRemoteDeletes(n)
    \/ \E n \in Node, m \in Roles : SetMode(n, m)

Next ==
    \/ \E r \in Runner : EngineStep(r)
    \/ \E n \in Node : WatcherStep(n)
    \/ Fault
    \/ User
    \/ Tick

Spec == Init /\ [][Next]_vars

-----------------------------------------------------------------------------
(* What the engines promise.                                               *)

TypeOK ==
    /\ now \in Nat
    /\ disk \in [Node -> Folder]
    /\ store \in [Node -> Manifest]
    /\ tombs \in [Node -> Manifest]
    /\ pending \in [Node -> SUBSET Path]
    /\ events \in [Node -> SUBSET Path]
    /\ mode \in [Node -> Roles]
    /\ allow \in [Node -> BOOLEAN]
    /\ pc \in [Runner -> PC]
    /\ todo \in [Runner -> Seq(Node)]
    /\ batch \in [Runner -> SUBSET Path]
    /\ local \in [Runner -> Manifest]
    /\ remote \in [Runner -> Manifest]
    /\ pulls \in [Runner -> SUBSET Path]
    /\ dels \in [Runner -> SUBSET Path]
    /\ cur \in [Runner -> Task]
    /\ saved \in [Path -> SUBSET Nat]
    /\ erased \in [Node -> [Path -> Nat \union {Never}]]

\* A tombstone saved so late that it was pruned at once is about to replace the
\* one in memory.  (That one is newer only if a peer's clock was ahead.)
OldReplaces(n, p) == \E r \in Runner :
    /\ Host[r] = n /\ pc[r] = "set" /\ cur[r].path = p
    /\ cur[r].mtime <= Clock(n) - TOMBSTONE_MAX_AGE

\* Every deletion a peer may hear of is in the tombstone file too (unless it
\* is old enough to be pruned), so a crash never makes an engine forget a
\* tombstone it has acted on: it saves before it sets, and forgets in memory
\* before it forgets on disk.
TombstoneDurable ==
    \A n \in Node, p \in Path :
        tombs[n][p].kind = "deleted" =>
            \/ store[n][p].kind = "deleted"
            \/ tombs[n][p].mtime <= Clock(n) - TOMBSTONE_MAX_AGE
            \/ OldReplaces(n, p)

\* A deletion at n that has no tombstone yet: reported, drained, or being saved.
OnItsWay(n, p) ==
    \/ p \in events[n] \union pending[n]
    \/ \E r \in Runner :
        /\ Host[r] = n
        /\ p \in batch[r] \/ (pc[r] \in {"save", "set"} /\ cur[r].path = p)

\* A file its user deleted is back, or has a tombstone, or will get one,
\* whatever pulls, skipped probes and late events came in between: as long as
\* no event is dropped, no tombstone fails to be saved and nothing crashes.
Remembered(n, p) == erased[n][p] # Never /\ disk[n][p].kind = "none"
    => OnItsWay(n, p) \/ tombs[n][p].kind = "deleted"
DeletionRemembered == \A n \in Node, p \in Path : Remembered(n, p)

\* The paths some user deleted, and the machines that let peers delete.
Condemned == {p \in Path : \E n \in Node : erased[n][p] # Never}
Willing == Switchers \union {n \in Node : allow[n]}

\* Tombstones are never made up: whatever machine holds one, in memory, on
\* disk or in the manifest it fetched, some user did delete that path.  (Not
\* so with slaves, whose unlinks their own watcher reports as deletions.)
NoPhantomTombstone ==
    /\ \A n \in Node, p \in Path :
        (tombs[n][p].kind = "deleted" \/ store[n][p].kind = "deleted")
            => p \in Condemned
    /\ \A r \in Runner, p \in Path :
        remote[r][p].kind = "deleted" => p \in Condemned

\* The abstract specification, see SharedFolder: what is in the folders, with
\* the mtimes left out.
NoVersion == -2
Contents == [n \in Node |-> [p \in Path |->
    IF disk[n][p].kind = "live" THEN disk[n][p].content ELSE NoVersion]]
Shared == INSTANCE SharedFolder WITH
    Version <- Nat,
    Mirroring <- "slave" \in Roles,
    folder <- Contents, history <- saved, willing <- Willing
SharedFolderSpec == Shared!Spec

\* The anti-wipe guard, end to end: a step of an engine that removes a file
\* belongs to a round whose peer advertised at least one live file.
RemovedBySync(n, p) ==
    disk[n][p] # NoFile /\ disk'[n][p] = NoFile /\ ~UserDelete(n, p)
NoWipe == [][\A n \in Node, p \in Path : RemovedBySync(n, p) =>
    \E r \in Runner : /\ Host[r] = n
                       /\ p \in dels[r]
                       /\ HasLiveRecord(remote[r])]_vars

-----------------------------------------------------------------------------
(* Why: the parts of the inductive invariants.                             *)

\* A runner in a round has the peer of the round at the head of todo.
InRound == \A r \in Runner : pc[r] # "idle" => todo[r] # <<>>

\* Files, in the folders and about to be renamed into one, are saved versions.
Genuine ==
    /\ \A n \in Node, p \in Path :
        disk[n][p].kind = "live" => disk[n][p].content \in saved[p]
    /\ \A r \in Runner :
        pc[r] = "install" => cur[r].content \in saved[cur[r].path]

\* A delete loop runs only where peers may delete.
Granted == \A r \in Runner :
    pc[r] = "delete" \/ cur[r].back = "delete" => Host[r] \in Willing

\* A plan that deletes was made on the word of a peer with a live file.
Guarded == \A r \in Runner : dels[r] # {} => HasLiveRecord(remote[r])

\* Wherever the deletion of a path is recorded, a user deleted that path.
Provenance ==
    /\ \A n \in Node : pending[n] \union events[n] \subseteq Condemned
    /\ \A r \in Runner : batch[r] \union dels[r] \subseteq Condemned
    /\ \A r \in Runner :
        pc[r] \in {"save", "set"} => cur[r].path \in Condemned
    /\ NoPhantomTombstone

\* No deletion is from the future.
Past == \A n \in Node, p \in Path : erased[n][p] <= now

-----------------------------------------------------------------------------
(* What the documentation says of the engines and the code does not do.    *)

\* README:294: "an interval poll is the fallback so nothing is missed if a
\* watch event is dropped".  Then a poll that has looked at the folder and the
\* tombstones knows of every deletion of its user, reported or not.
PollMissesNothing == [][\A r \in Runner, p \in Path :
    LocalManifest(r) => Remembered(Host[r], p)]_vars

\* README:295: "a partial file never appears at the destination".
NoPartialFile == \A n \in Node, p \in Path : disk[n][p].content # Torn

\* diff.ts: "both" is a "two-way merge (pull newer, ...)": what a two-way
\* machine installs is not older than the file it replaces.
PullsNewer == [][\A r \in Runner :
    LET n == Host[r] p == cur[r].path
    IN  PullRename(r) /\ mode[n] = "both" /\ disk[n][p].kind = "live"
            => cur[r].mtime >= disk[n][p].mtime]_vars

\* MANUAL:690: "Edit files in the folder - they copy across automatically": no
\* tombstone hides from the peers a file that was saved after it.
NewFileIsAdvertised == \A n \in Node, p \in Path :
    disk[n][p].kind = "live" /\ tombs[n][p].kind = "deleted"
        => disk[n][p].mtime <= tombs[n][p].mtime
=============================================================================
