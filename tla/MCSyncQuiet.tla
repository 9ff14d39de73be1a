----------------------------- MODULE MCSyncQuiet -----------------------------
(***************************************************************************)
(* Small instances of SyncQuiet for TLC: two machines, a path p in any     *)
(* state on either, and a path w that A has or has not, so that B, which   *)
(* lets peers delete, meets the empty-manifest guard both ways.            *)
(***************************************************************************)
EXTENDS SyncQuiet, TLC

CONSTANTS A, B, C, w

OneLoopHost == (A :> A) @@ (B :> B)
PairPeers == (A :> <<B>>) @@ (B :> <<A>>)
NoSkew == [n \in Node |-> 0]

WitnessInit ==
    /\ QuietInit
    /\ allow[B]
    /\ \A n \in Node : store[n][w] = NoRecord
    /\ disk[B][w] = File(0, 0)
    /\ disk[A][w] \in {NoFile, File(0, 0)}
WitnessSpec == WitnessInit /\ [][QuietNext]_vars /\ Fairness

\* Three machines in a line: A and C know only B, which may hold a tombstone.
LineHost == OneLoopHost @@ (C :> C)
LinePeers == (A :> <<B>>) @@ (B :> <<A, C>>) @@ (C :> <<B>>)
LineInit ==
    /\ QuietInit
    /\ \A n \in Node : allow[n] /\ (n # B => store[n] = NoRecords)
LineSpec == LineInit /\ [][QuietNext]_vars /\ Fairness
=============================================================================
