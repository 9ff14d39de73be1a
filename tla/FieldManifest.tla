---------------------------- MODULE FieldManifest ----------------------------
(***************************************************************************)
(* The pure half of WiFiSync (core/field): manifests, tombstones and the   *)
(* mtime diff.  A manifest is a total function from paths to records; a    *)
(* path the program's Map does not contain has kind "none".  Sizes are     *)
(* left out: no decision below reads them.                                 *)
(***************************************************************************)
EXTENDS Integers

CONSTANTS
    Path,               \* relative paths
    MTIME_TOLERANCE,    \* slack of the mtime comparison
    WRITE_STABILITY_SEC,\* a file younger than this is not advertised
    TOMBSTONE_MAX_AGE   \* age at which a stored tombstone is pruned

ASSUME ConstantsAssumption ==
    /\ Path # {}
    /\ MTIME_TOLERANCE \in Nat
    /\ WRITE_STABILITY_SEC \in Nat
    /\ TOMBSTONE_MAX_AGE \in Nat

Mode == {"both", "master", "slave"}

NoRecord    == [kind |-> "none", mtime |-> 0]
Live(t)     == [kind |-> "live", mtime |-> t]
Deleted(t)  == [kind |-> "deleted", mtime |-> t]

Record   == [kind : {"none", "live", "deleted"}, mtime : Int]
Manifest == [Path -> Record]
NoRecords == [p \in Path |-> NoRecord]

\* An on-disk file: `content` identifies its bytes (a user's save is a number,
\* anything else is Torn), `mtime` is its stamp.
Torn == -1
Content == Nat \union {Torn}
NoFile == [kind |-> "none", mtime |-> 0, content |-> 0]
File(t, c) == [kind |-> "live", mtime |-> t, content |-> c]
Version == [kind : {"live"}, mtime : Int, content : Content]
Folder == [Path -> Version \union {NoFile}]

-----------------------------------------------------------------------------
(* manifest.ts *)

\* Whether a file is old enough to be advertised at `clock`.
Stable(file, clock) == ~(clock - file.mtime < WRITE_STABILITY_SEC)

\* The walk of `folder` at `clock`: live, stable files only.
BuildManifest(folder, clock) ==
    [p \in Path |->
        IF folder[p].kind = "live" /\ Stable(folder[p], clock)
        THEN Live(folder[p].mtime) ELSE NoRecord]

\* Tombstones win over whatever the walk found at their path.
MergeManifest(base, tombstones) ==
    [p \in Path |->
        IF tombstones[p].kind # "none" THEN tombstones[p] ELSE base[p]]

HasLiveRecord(manifest) == \E p \in Path : manifest[p].kind = "live"

\* The stored tombstones after adding one: the others are pruned by age, and
\* so is the new one when its pinned mtime is already too old.
AddTombstoneEntry(stored, path, mtime, clock) ==
    [p \in Path |->
        LET entry == IF p = path THEN Deleted(mtime) ELSE stored[p]
        IN  IF entry.kind # "none" /\ entry.mtime > clock - TOMBSTONE_MAX_AGE
            THEN entry ELSE NoRecord]

RemoveTombstoneEntry(stored, path) == [stored EXCEPT ![path] = NoRecord]

-----------------------------------------------------------------------------
(* diff.ts *)

Apart(s, t) == s - t > MTIME_TOLERANCE \/ t - s > MTIME_TOLERANCE

\* "slave": the local folder is made equal to the remote one.
MirrorPull(loc, rem) ==
    /\ rem.kind = "live"
    /\ loc.kind # "live" \/ Apart(rem.mtime, loc.mtime)

MirrorDelete(loc, rem) == rem.kind # "live" /\ loc.kind = "live"

\* "both": the newer side wins by more than the tolerance; a live copy also
\* wins over an older tombstone inside the tolerance.
Newer(rem, loc) == rem.mtime > loc.mtime + MTIME_TOLERANCE

\* Mutants: only missing files are pulled; a tie is pulled as well.
PullMissingOnly(loc, rem) == rem.kind = "live" /\ loc.kind = "none"
PullTies(loc, rem) ==
    rem.kind = "live" /\ (loc.kind = "none" \/ rem.mtime >= loc.mtime)

MergePull(loc, rem) ==
    /\ rem.kind = "live"
    /\ \/ loc.kind = "none"
       \/ loc.kind # "none" /\ Newer(rem, loc)
       \/ loc.kind = "deleted" /\ rem.mtime > loc.mtime

\* Mutants: the sides of the comparison are swapped; no tombstone is asked for.
DeleteNewer(loc, rem) ==
    rem.kind = "deleted" /\ loc.kind # "none" /\ Newer(loc, rem)
DeleteUnlisted(loc, rem) == rem.kind # "live" /\ loc.kind # "none"

MergeDelete(loc, rem) ==
    rem.kind = "deleted" /\ loc.kind # "none" /\ Newer(rem, loc)

ComputeDiff(local, remote, mode) ==
    IF mode = "slave"
    THEN [toPull   |-> {p \in Path : MirrorPull(local[p], remote[p])},
          toDelete |-> {p \in Path : MirrorDelete(local[p], remote[p])}]
    ELSE [toPull   |-> {p \in Path : MergePull(local[p], remote[p])},
          toDelete |-> {p \in Path : MergeDelete(local[p], remote[p])}]

\* Mutant: no guard.
NoGuard(plan, remote) == plan

\* No deletion on the word of a peer that advertises no live file at all.
ApplyEmptyManifestGuard(plan, remote) ==
    IF plan.toDelete # {} /\ ~HasLiveRecord(remote)
    THEN [plan EXCEPT !.toDelete = {}] ELSE plan

SyncPlan(local, remote, mode) ==
    ApplyEmptyManifestGuard(ComputeDiff(local, remote, mode), remote)
=============================================================================
