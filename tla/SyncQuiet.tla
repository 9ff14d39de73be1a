------------------------------ MODULE SyncQuiet ------------------------------
(***************************************************************************)
(* The engines of SyncEngine started on whatever folders and tombstone     *)
(* files their users left behind, and then left alone: no user touches a   *)
(* file, nothing fails.  Do they come to rest, and do they then agree?     *)
(***************************************************************************)
EXTENDS SyncEngine

CONSTANTS Stamps,    \* the mtimes found on files and tombstones at the start
          StartTime  \* when the engines start

ASSUME QuietAssumption ==
    /\ Stamps \subseteq 0..StartTime
    /\ StartTime + WRITE_STABILITY_SEC <= MaxTime

FoundFiles == {NoFile} \union {File(t, t) : t \in Stamps}
FoundTombstones == {NoRecord} \union {Deleted(t) : t \in Stamps}

QuietInit ==
    /\ now = StartTime
    /\ disk \in [Node -> [Path -> FoundFiles]]
    /\ store \in [Node -> [Path -> FoundTombstones]]
    /\ tombs = store
    /\ pending = [n \in Node |-> {}]
    /\ events = [n \in Node |-> {}]
    /\ mode \in [Node -> Roles]
    /\ allow \in [Node -> BOOLEAN]
    /\ pc = [r \in Runner |-> "idle"]
    /\ todo = [r \in Runner |-> <<>>]
    /\ batch = [r \in Runner |-> {}]
    /\ local = [r \in Runner |-> NoRecords]
    /\ remote = local
    /\ pulls = [r \in Runner |-> {}]
    /\ dels = pulls
    /\ cur = [r \in Runner |-> NoTask]
    /\ saved = [p \in Path |-> Stamps]
    /\ erased = [n \in Node |-> [p \in Path |-> Never]]

QuietNext ==
    \/ \E r \in Runner : EngineStep(r)
    \/ \E n \in Node : WatcherStep(n)
    \/ Tick

\* The loop of every engine goes on as long as the application runs, the OS
\* delivers the watcher's events, and time passes.
Fairness ==
    /\ \A r \in Runner : WF_vars(EngineStep(r))
    /\ \A n \in Node : WF_vars(WatcherStep(n))
    /\ WF_vars(Tick)

QuietSpec == QuietInit /\ [][QuietNext]_vars /\ Fairness

-----------------------------------------------------------------------------

\* What n would do in a round with m now.
PlanFor(n, m) ==
    SyncPlan(GetMergedManifest(n), GetMergedManifest(m), mode[n])
NothingToDo(n, m) ==
    /\ PlanFor(n, m).toPull = {}
    /\ allow[n] => PlanFor(n, m).toDelete = {}

Settled == \A r \in Runner : mode[Host[r]] # "master" =>
    \A i \in 1..Len(Peers[Host[r]]) : NothingToDo(Host[r], Peers[Host[r]][i])

\* No re-pull loop: left alone, the engines stop transferring and deleting.
Settles == <>[]Settled

\* What n knows of p is newer, beyond doubt, than all anyone else knows of it.
Latest(n, p, t) == \A m \in Node \ {n} :
    /\ disk[m][p].kind = "live" => t > disk[m][p].mtime + MTIME_TOLERANCE
    /\ tombs[m][p].kind = "deleted" => t > tombs[m][p].mtime + MTIME_TOLERANCE

\* The newest copy reaches every machine, past older copies and tombstones, if
\* it is out of its stability window and no pass is under way: a pass that made
\* its plan while the copy was still hidden may put an older one over it (see
\* PullsNewer in SyncEngine).
NewestSpreads == \A n \in Node, p \in Edited, t \in Stamps :
    ( /\ disk[n][p] = File(t, t)
      /\ Stable(disk[n][p], Clock(n))
      /\ \A r \in Runner : pc[r] = "idle"
      /\ tombs[n][p].kind = "none"
      /\ Latest(n, p, t) )
    ~> (\A m \in Node : disk[m][p].kind = "live" /\ disk[m][p].content = t)

\* A tombstone newer than every copy reaches every machine that lets peers
\* delete, if its holder advertises some file and so is not taken for an empty
\* disk by the guard.
DeletionSpreads == \A n \in Node, p \in Edited, t \in Stamps :
    ( /\ tombs[n][p] = Deleted(t)
      /\ disk[n][p].kind = "none"
      /\ HasLiveRecord(GetMergedManifest(n))
      /\ Latest(n, p, t) )
    ~> (\A m \in Node : allow[m] => disk[m][p].kind = "none")
=============================================================================
