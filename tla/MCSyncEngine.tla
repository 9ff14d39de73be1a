---------------------------- MODULE MCSyncEngine ----------------------------
(***************************************************************************)
(* Small instances of SyncEngine for TLC: two machines that sync with each *)
(* other.  A deletion passes the empty-manifest guard only if the peer     *)
(* advertises some live file, so every instance has a second path, w.      *)
(***************************************************************************)
EXTENDS SyncEngine, TLC

CONSTANTS A, B, w

OneLoopHost == (A :> A) @@ (B :> B)
HostA == [r \in Runner |-> A]  \* only A pulls; B edits and serves
PairPeers == (A :> <<B>>) @@ (B :> <<A>>)
NoSkew == [n \in Node |-> 0]
AheadB == (A :> 0) @@ (B :> 1)
Swap == Permutations({A, B})

\* Users work on p only (see Edited).  w is on both machines, whose users let
\* peers delete from the start ...
GrantedInit == Init /\ \A n \in Node : allow[n] /\ disk[n][w] = File(0, 0)
GrantedSpec == GrantedInit /\ [][Next]_vars

\* ... or do or do not, and stick to it ...
EitherInit == Init /\ \A n \in Node : disk[n][w] = File(0, 0)
EitherSpec == EitherInit /\ [][Next]_vars

\* ... or the user of B never does, and A's user changes his mind ...
SwitchInit == Init /\ ~allow[B] /\ \A n \in Node : disk[n][w] = File(0, 0)
SwitchSpec == SwitchInit /\ [][Next]_vars

\* ... or B may not have w; B only serves, its own settings play no part.
RolesInit == Init /\ ~allow[B] /\ mode[B] = "both" /\ disk[A][w] = File(0, 0)
RolesSpec == RolesInit /\ [][Next]_vars
=============================================================================
