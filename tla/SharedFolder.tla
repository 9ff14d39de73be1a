---------------------------- MODULE SharedFolder ----------------------------
(***************************************************************************)
(* What WiFiSync promises about the files of a crew, whatever the timing   *)
(* of its sync passes: a file that appears in a shared folder is, byte for *)
(* byte, a version some user saved under that very path; and a file goes   *)
(* only because its user deleted it, or, on a machine whose user lets      *)
(* peers delete, because a user of another machine deleted that path.  (A  *)
(* slave mirrors its master: there a file may also go because the master   *)
(* does not offer it.)                                                     *)
(***************************************************************************)
CONSTANTS Node, Path, Version, NoVersion,
          Never,     \* the time of a deletion that has not happened
          Mirroring  \* TRUE if some machine may be a slave

VARIABLES
    folder,  \* folder[n][p]: the version of p on machine n
    history, \* history[p]: the versions users saved under p
    erased,  \* erased[n][p]: when the user of n last deleted p, or Never
    willing  \* machines that let peers delete local files

vars == <<folder, history, erased, willing>>

Init ==
    /\ history \in [Path -> SUBSET Version]
    /\ folder \in [Node -> [Path -> Version \union {NoVersion}]]
    /\ \A n \in Node, p \in Path :
        folder[n][p] # NoVersion => folder[n][p] \in history[p]
    /\ erased = [n \in Node |-> [p \in Path |-> Never]]
    /\ willing \subseteq Node

\* The user of n saves p; the version is the one that is there afterwards.
Save(n, p) ==
    LET v == folder'[n][p]
    IN  /\ v \in Version
        /\ folder' = [folder EXCEPT ![n][p] = v]
        /\ history' = [history EXCEPT ![p] = @ \union {v}]
        /\ UNCHANGED <<erased, willing>>

\* The user of n deletes p, at a time of its own.
Erase(n, p) ==
    LET t == erased'[n][p]
    IN  /\ t \notin {Never, erased[n][p]}
        /\ erased' = [erased EXCEPT ![n][p] = t]
        /\ folder' = [folder EXCEPT ![n][p] = NoVersion]
        /\ UNCHANGED <<history, willing>>

\* Sync brings a saved version of p to n.
Replicate(n, p) == \E v \in history[p] :
    /\ folder' = [folder EXCEPT ![n][p] = v]
    /\ UNCHANGED <<history, erased, willing>>

\* Sync removes p from n.
Withdraw(n, p) ==
    /\ n \in willing
    /\ Mirroring \/ \E m \in Node : erased[m][p] # Never
    /\ folder' = [folder EXCEPT ![n][p] = NoVersion]
    /\ UNCHANGED <<history, erased, willing>>

Next == \E n \in Node, p \in Path :
    Save(n, p) \/ Erase(n, p) \/ Replicate(n, p) \/ Withdraw(n, p)

Spec == Init /\ [][Next]_vars
=============================================================================
