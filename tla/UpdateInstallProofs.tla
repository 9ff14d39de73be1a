-------------------------- MODULE UpdateInstallProofs --------------------------
(***************************************************************************)
(* That only what was fingerprinted runs, that a cancel wins, that no part *)
(* of a download outlives its answer and that a dismissal stays, for any   *)
(* releases, clicks and installers.                                        *)
(***************************************************************************)
EXTENDS UpdateInstall, TLAPS

(* An installer is started from its own file, which none of the app's own  *)
(* steps turns bad from its last fingerprint on.                           *)
Installers ==
    \A i \in Install :
        /\ install[i].pc \notin {"no", "over"} => install[i].v \in Version
        /\ install[i].pc \in {"hash", "hashed"} /\ install[i].bytes = "good"
             /\ ~install[i].swapped
             => file[install[i].v] # "bad"
        /\ IsRunning(i) => file[install[i].v] = "good" \/ install[i].swapped

(* The dialog's flag is the user's wish, and no installation is shown that *)
(* was cancelled.                                                          *)
Wishes ==
    /\ ui.wish = "cancel" => ui.cancelled
    /\ ui.wish = "none" => dl.pc = "no" /\ \A g \in Go : run[g].pc = "no"
    /\ ui.phase \in {"install", "waiting", "ended"} => ui.wish = "go" /\ ~ui.cancelled

(* A check that is under way has read the dismissal that is stored, which  *)
(* the dialog cannot change meanwhile; one that could not see it has read  *)
(* nothing newer.                                                          *)
Dismissals ==
    /\ stored.dismissed <= stored.latest /\ stored.latest <= published
    /\ hide.pc # "no" => stored.dismissed <= hide.latest /\ hide.latest <= published
    /\ check.pc # "no" /\ ui.open =>
         ~ui.cancelled /\ ui.phase \in {"install", "waiting", "ended", "done"}
    /\ check.pc \in {"ask", "write"} =>
         /\ check.dismissed <= published
         /\ hide.pc # "no" => check.blind /\ check.dismissed <= hide.latest
         /\ ~check.blind => check.dismissed = stored.dismissed
    /\ check.pc = "write" => check.dismissed <= check.found /\ check.found <= published

(* The answer that may bring the result back belongs to the last click, and *)
(* if that click's download was aborted the dialog knows it.               *)
Awaited(g) == run[g].current /\ run[g].pc \notin {"no", "over"}

Answers ==
    /\ dl.pc # "no" => dl.go \in Go /\ run[dl.go].pc = "await"
    /\ \A g \in Go : Awaited(g) =>
         /\ ui.phase \notin {"result", "confirm"}
         /\ \A h \in Go : Awaited(h) => h = g
         /\ run[g].pc = "cancelled" => ui.cancelled
         /\ dl.pc # "no" /\ dl.go = g /\ dl.aborted => ui.cancelled

(* Of the partial files only the download's own has not been tried to remove. *)
Parts ==
    /\ dl.pc \in {"clear", "body", "place", "undo"} => dl.v \in Version
    /\ dl.pc \in {"body", "place", "undo"} => \A v \in Version : part[v] = "part" => v = dl.v

UpdateInv == TypeOK /\ Installers /\ Wishes /\ Answers /\ Dismissals /\ Parts

-----------------------------------------------------------------------------
(* The records a session begins with are of their types. *)
LEMMA Fresh ==
  /\ 0 \in Found /\ Version \subseteq Found
  /\ NoCheck \in Checks /\ NoHide \in Hides /\ NoDl \in Downloads
  /\ NoInstall \in Installs /\ InstallOver \in Installs
  /\ Dialog \in Dialogs /\ NoRun \in Runs /\ RunOver \in Runs
<1>1. 0 \in Found /\ Version \subseteq Found
  BY UpdateAssumption DEF Found, Version
<1>2. NoCheck \in Checks /\ NoHide \in Hides /\ NoDl \in Downloads
  BY <1>1 DEF NoCheck, Checks, NoHide, Hides, NoDl, Downloads
<1>3. NoInstall \in Installs /\ Dialog \in Dialogs /\ NoRun \in Runs
  BY <1>1 DEF NoInstall, Installs, Bytes, Dialog, Dialogs, NoRun, Runs
<1>4. InstallOver \in Installs /\ RunOver \in Runs
  BY <1>3 DEF InstallOver, Installs, RunOver, Runs
<1> QED
  BY <1>1, <1>2, <1>3, <1>4

(* A first start finds nothing stored and nothing under way. *)
LEMMA InitUpdate == Init => UpdateInv
<1> SUFFICES ASSUME Init PROVE UpdateInv
  OBVIOUS
<1>1. TypeOK
  BY Fresh DEF Init, TypeOK, Bytes, Partial
<1>2. Installers
  BY DEF Init, Installers, NoInstall, IsRunning
<1>3. Wishes /\ Answers /\ Parts
  BY DEF Init, Wishes, Answers, Awaited, Parts, Dialog, NoRun, NoDl
<1>4. Dismissals
  BY DEF Init, Dismissals, NoCheck, NoHide
<1> QED
  BY <1>1, <1>2, <1>3, <1>4 DEF UpdateInv

(* A fresh session, whatever version runs in it. *)
LEMMA TypesOfStart ==
  ASSUME TypeOK, NEW v \in Found, NEW parts \in [Version -> Partial], Starts(v, parts)
  PROVE  TypeOK'
<1>1. /\ check' \in Checks /\ hide' \in Hides /\ dl' \in Downloads /\ verified' \in Found /\ running' \in BOOLEAN
      /\ install' \in [Install -> Installs]
      /\ ui' \in Dialogs /\ run' \in [Go -> Runs]
  BY Fresh DEF Starts, NewSession
<1>2. file' \in [Version -> Bytes]
  BY DEF Starts, Cleared, TypeOK, Bytes
<1>4. part' \in [Version -> Partial]
  BY DEF Starts, ClearedParts
<1>3. current' = v /\ published' = published /\ stored' = stored
  BY DEF Starts
<1> QED
  BY <1>1, <1>2, <1>3, <1>4 DEF TypeOK

(* What the dialog shows is of its type. *)
LEMMA Shown ==
  ASSUME NEW u \in Dialogs
  PROVE  /\ RenderUpdateResult(u) \in Dialogs /\ StopUpdateWait(u) \in Dialogs
         /\ RenderUpdateFailure(u) \in Dialogs
BY DEF RenderUpdateResult, StopUpdateWait, RenderUpdateFailure, Dialogs

(* An installation that begins, or fails to. *)
LEMMA TypesOfRun ==
  ASSUME TypeOK, NEW i \in Install, RunUpdateInstall(i),
         run' \in [Go -> Runs]
  PROVE  TypeOK'
<1>0. UNCHANGED <<current, published, disk, check, hide, dl, running>>
  BY DEF RunUpdateInstall
<1>1. CASE running \/ verified = 0
  BY <1>0, <1>1, Shown DEF RunUpdateInstall, TypeOK, disk
<1>2. CASE ~(running \/ verified = 0)
  <2>1. verified \in Version
    BY <1>2 DEF TypeOK, Found, Version
  <2>2. [pc |-> "hash", v |-> verified, bytes |-> file[verified], swapped |-> FALSE] \in Installs
    BY <2>1 DEF Installs, TypeOK
  <2>3. install' \in [Install -> Installs] /\ verified' = 0
    BY <1>2, <2>2 DEF RunUpdateInstall, TypeOK
  <2>4. ui' \in Dialogs
    BY <1>2 DEF RunUpdateInstall, StopUpdateWait, Dialogs, TypeOK
  <2> QED
    BY <1>0, <2>3, <2>4, Fresh DEF TypeOK, disk
<1> QED
  BY <1>1, <1>2

(* The answer to a download. *)
LEMMA TypesOfAnswer ==
  ASSUME TypeOK, NEW pc \in {"ok", "failed", "cancelled", "refused"}, Answer(pc)
  PROVE  dl' \in Downloads /\ run' \in [Go -> Runs]
<1>1. dl' \in Downloads
  BY Fresh DEF Answer
<1>2. run' \in [Go -> Runs]
  BY DEF Answer, TypeOK, Runs
<1> QED
  BY <1>1, <1>2

(* Every action keeps the types. *)
LEMMA TypeStep == UpdateInv /\ [Next]_vars => TypeOK'
<1> SUFFICES ASSUME UpdateInv, [Next]_vars PROVE TypeOK'
  OBVIOUS
<1>0. TypeOK
  BY DEF UpdateInv
<1>1. CASE CheckClick \/ CheckFails \/ CheckLearns
  <2>1. CheckClick => check' \in Checks
    BY <1>0, Fresh DEF CheckClick, TypeOK, Checks, NoCheck
  <2>2. CheckFails \/ CheckLearns => check' \in Checks
    BY <1>0, Fresh DEF CheckFails, CheckLearns, TypeOK, Checks, NoCheck
  <2> QED
    BY <1>0, <1>1, <2>1, <2>2 DEF CheckClick, CheckFails, CheckLearns, TypeOK, disk
<1>2. CASE CheckWrites
  <2>1. check.found \in Found /\ check.dismissed \in Found
    BY <1>0 DEF TypeOK, Checks
  <2>2. check' \in Checks
    BY <1>2, <2>1, Fresh DEF CheckWrites, Checks, NoCheck
  <2>3. stored' \in [latest : Found, dismissed : Found]
    BY <1>0, <1>2, <2>1 DEF CheckWrites, TypeOK
  <2> QED
    BY <1>0, <1>2, <2>2, <2>3 DEF CheckWrites, TypeOK
<1>3. CASE CheckAnswers
  <2>1. ui' \in Dialogs
    BY <1>0, <1>3 DEF CheckAnswers, RenderUpdateResult, Dialogs, TypeOK, Checks
  <2>2. run' \in [Go -> Runs]
    BY <1>0, <1>3 DEF CheckAnswers, Runs, TypeOK
  <2> QED
    BY <1>0, <1>3, <2>1, <2>2, Fresh DEF CheckAnswers, TypeOK, disk
<1>4. CASE HideClick \/ NowClick
  <2>1. ui' \in Dialogs
    BY <1>0, <1>4 DEF HideClick, NowClick, TypeOK, Dialogs
  <2>2. stored' \in [latest : Found, dismissed : Found] /\ hide' \in Hides
    BY <1>0, <1>4 DEF HideClick, NowClick, TypeOK, Hides, disk, main
  <2> QED
    BY <1>0, <1>4, <2>1, <2>2 DEF HideClick, NowClick, TypeOK, disk, main
<1>5. ASSUME NEW g \in Go, GoClick(g) PROVE TypeOK'
  <2>1. ui' \in Dialogs /\ ui.last \in Found
    BY <1>0, <1>5 DEF GoClick, TypeOK, Dialogs
  <2>2. run' \in [Go -> Runs]
    <3>1. \A pc \in {"await", "refused"} :
             [pc |-> pc, current |-> TRUE] \in Runs
      BY DEF Runs
    <3> QED
      BY <1>0, <1>5, <3>1 DEF GoClick, TypeOK
  <2>3. dl' \in Downloads
    BY <1>0, <1>5, Fresh DEF GoClick, TypeOK, Downloads
  <2> QED
    BY <1>0, <1>5, <2>1, <2>2, <2>3 DEF GoClick, TypeOK, disk
<1>6. CASE DlReads
  <2>1. dl' \in Downloads /\ run' \in [Go -> Runs]
    <3>1. CASE ~Answer("refused")
      BY <1>0, <1>6, <3>1 DEF DlReads, TypeOK, Downloads
    <3>2. CASE Answer("refused")
      BY <1>0, <3>2, TypesOfAnswer
    <3> QED
      BY <3>1, <3>2
  <2>2. verified' \in Found
    BY <1>0, <1>6, Fresh DEF DlReads, TypeOK
  <2> QED
    BY <1>0, <1>6, <2>1, <2>2 DEF DlReads, TypeOK, disk
<1>7. CASE DlClears
  <2>1. file' \in [Version -> Bytes]
    BY <1>0, <1>7 DEF DlClears, Cleared, TypeOK, Bytes
  <2>2. part' \in [Version -> Partial] /\ dl' \in Downloads
    BY <1>0, <1>7 DEF DlClears, ClearedParts, Partial, TypeOK, Downloads
  <2> QED
    BY <1>0, <1>7, <2>1, <2>2 DEF DlClears, TypeOK
<1>8. CASE DlBody \/ DlFails
  <2>1. dl' \in Downloads
    BY <1>0, <1>8 DEF DlBody, DlFails, TypeOK, Downloads
  <2> QED
    BY <1>0, <1>8, <2>1 DEF DlBody, DlFails, TypeOK, disk
<1>9. CASE DlUndo
  <2>1. dl' \in Downloads /\ run' \in [Go -> Runs]
    BY <1>0, <1>9, Fresh DEF DlUndo, Answer, TypeOK, Runs
  <2>2. part' \in [Version -> Partial]
    BY <1>0, <1>9 DEF DlUndo, Unlinked, Partial, TypeOK
  <2> QED
    BY <1>0, <1>9, <2>1, <2>2 DEF DlUndo, TypeOK
<1>10. CASE DlPlaces
  <2>1. dl.v \in Found
    BY <1>0 DEF TypeOK, Downloads
  <2>2. dl' \in Downloads
    BY <1>0, <1>10, Fresh DEF DlPlaces, Answer, TypeOK, Downloads
  <2>3. run' \in [Go -> Runs]
    BY <1>0, <1>10, <2>1 DEF DlPlaces, Answer, TypeOK, Runs
  <2>4. verified' \in Found /\ file' \in [Version -> Bytes] /\ part' \in [Version -> Partial]
    BY <1>0, <1>10, <2>1 DEF DlPlaces, TypeOK, Bytes, Partial
  <2> QED
    BY <1>0, <1>10, <2>2, <2>3, <2>4 DEF DlPlaces, TypeOK
<1>11. CASE CancelClick \/ CloseModal
  <2>1. dl' \in Downloads
    BY <1>0, <1>11 DEF CancelClick, CloseModal, CloseUpdateModal, Abort, TypeOK, Downloads
  <2>2. ui' \in Dialogs
    BY <1>0, <1>11 DEF CancelClick, CloseModal, CloseUpdateModal, RenderUpdateResult, TypeOK,
       Dialogs
  <2> QED
    BY <1>0, <1>11, <2>1, <2>2 DEF CancelClick, CloseModal, TypeOK, disk
<1>23. CASE HideWrites
  <2>1. dl' \in Downloads
    BY <1>0, <1>23 DEF HideWrites, CloseUpdateModal, Abort, TypeOK, Downloads
  <2>2. ui' \in Dialogs
    BY <1>0, <1>23 DEF HideWrites, CloseUpdateModal, TypeOK, Dialogs
  <2>3. stored' \in [latest : Found, dismissed : Found] /\ hide' \in Hides
    BY <1>0, <1>23, Fresh DEF HideWrites, TypeOK, Hides
  <2> QED
    BY <1>0, <1>23, <2>1, <2>2, <2>3 DEF HideWrites, TypeOK
<1>12. ASSUME NEW g \in Go, DownloadAnswers(g) PROVE TypeOK'
  <2>1. run' \in [Go -> Runs]
    BY <1>0, <1>12, Fresh DEF DownloadAnswers, TypeOK
  <2>2. CASE \E i \in Install : RunUpdateInstall(i)
    BY <1>0, <2>1, <2>2, TypesOfRun
  <2>3. CASE ~ \E i \in Install : RunUpdateInstall(i)
    <3>1. /\ UNCHANGED <<current, published, disk, main>>
          /\ \/ ui' = RenderUpdateResult(ui)
             \/ ui' = [ui EXCEPT !.phase = "done"]
      BY <1>12, <2>3 DEF DownloadAnswers
    <3>2. ui' \in Dialogs
      BY <1>0, <3>1, Shown DEF TypeOK, Dialogs
    <3> QED
      BY <1>0, <2>1, <3>1, <3>2 DEF TypeOK, disk, main
  <2> QED
    BY <2>2, <2>3
<1>13. ASSUME NEW i \in Install, TryAgain(i) PROVE TypeOK'
  <2>1. run' \in [Go -> Runs]
    BY <1>0, <1>13 DEF TryAgain, TypeOK
  <2> QED
    BY <1>0, <1>13, <2>1, TypesOfRun DEF TryAgain
<1>14. ASSUME NEW i \in Install, InstallSpawns(i) PROVE TypeOK'
  <2>1. install' \in [Install -> Installs]
    BY <1>0, <1>14, Fresh DEF InstallSpawns, TypeOK, Installs
  <2>2. file' \in [Version -> Bytes]
    BY <1>0, <1>14 DEF InstallSpawns, TypeOK, Bytes
  <2>3. ui' \in Dialogs
    BY <1>0, <1>14, Shown DEF InstallSpawns, TypeOK
  <2> QED
    BY <1>0, <1>14, <2>1, <2>2, <2>3 DEF InstallSpawns, TypeOK
<1>24. ASSUME NEW i \in Install, InstallHashed(i), Installers PROVE TypeOK'
  <2>1. install[i].v \in Version
    BY <1>24 DEF InstallHashed, Installers
  <2>3. PICK b \in {install[i].bytes, file[install[i].v]} :
           install' = [install EXCEPT ![i].pc = "hashed", ![i].bytes = b]
    BY <1>24 DEF InstallHashed
  <2>4. b \in Bytes
    BY <1>0, <2>1, <2>3 DEF TypeOK, Installs
  <2>2. install' \in [Install -> Installs]
    BY <1>0, <2>3, <2>4 DEF TypeOK, Installs
  <2> QED
    BY <1>0, <1>24, <2>2 DEF InstallHashed, TypeOK, disk
<1>15. ASSUME NEW i \in Install, InstallStarted(i) \/ InstallRefused(i) PROVE TypeOK'
  <2>1. InstallStarted(i) => install' \in [Install -> Installs]
    BY <1>0 DEF InstallStarted, TypeOK, Installs
  <2>3. InstallRefused(i) => install' \in [Install -> Installs]
    BY <1>0, Fresh DEF InstallRefused, TypeOK
  <2>4. verified' \in Found /\ running' \in BOOLEAN
    BY <1>0, <1>15 DEF InstallStarted, InstallRefused, TypeOK, Installs
  <2>2. ui' \in Dialogs
    BY <1>0, <1>15, Shown DEF InstallStarted, InstallRefused, TypeOK, Dialogs
  <2> QED
    BY <1>0, <1>15, <2>1, <2>2, <2>3, <2>4 DEF InstallStarted, InstallRefused, TypeOK, disk
<1>16. ASSUME NEW i \in Install, InstallerEnds(i) PROVE TypeOK'
  <2>1. ui' \in Dialogs
    BY <1>0, <1>16 DEF InstallerEnds, StopUpdateWait, TypeOK, Dialogs
  <2>2. verified' \in Found /\ install' \in [Install -> Installs]
    BY <1>0, <1>16, Fresh DEF InstallerEnds, TypeOK, Installs
  <2> QED
    BY <1>0, <1>16, <2>1, <2>2 DEF InstallerEnds, TypeOK, disk
<1>17. ASSUME NEW i \in Install, Updated(i) PROVE TypeOK'
  <2>1. install[i].v \in Found /\ part \in [Version -> Partial]
    BY <1>0 DEF TypeOK, Installs
  <2> QED
    BY <1>0, <1>17, <2>1, TypesOfStart DEF Updated
<1>18. CASE Crash \/ Quit
  <2>1. /\ current \in Found /\ part \in [Version -> Partial]
        /\ \A p \in Partial : [part EXCEPT ![dl.v] = p] \in [Version -> Partial]
    BY <1>0 DEF TypeOK
  <2>2. \A p : p \in Unlinked(part[dl.v]) => p \in Partial
    BY DEF Unlinked, Partial
  <2> QED
    BY <1>0, <1>18, <2>1, <2>2, TypesOfStart DEF Crash, Quit
<1>19. CASE WaitTimer
  <2>1. ui' \in Dialogs
    BY <1>0, <1>19 DEF WaitTimer, TypeOK, Dialogs
  <2> QED
    BY <1>0, <1>19, <2>1 DEF WaitTimer, TypeOK, disk, main
<1>20. CASE Publish
  <2>1. published' \in Found
    BY <1>0, <1>20, UpdateAssumption DEF Publish, TypeOK, Found
  <2> QED
    BY <1>0, <1>20, <2>1 DEF Publish, TypeOK, disk, main
<1>21. ASSUME NEW v \in Version, Spoil(v) PROVE TypeOK'
  <2>1. file' \in [Version -> Bytes] /\ install' \in [Install -> Installs]
    BY <1>0, <1>21 DEF Spoil, TypeOK, Bytes, Installs
  <2> QED
    BY <1>0, <1>21, <2>1 DEF Spoil, TypeOK
<1>22. CASE UNCHANGED vars
  BY <1>0, <1>22 DEF TypeOK, vars
<1> QED
  BY <1>1, <1>2, <1>3, <1>4, <1>5, <1>6, <1>7, <1>8, <1>9, <1>10, <1>11, <1>12, <1>13,
     <1>14, <1>15, <1>16, <1>17, <1>18, <1>19, <1>20, <1>21, <1>22, <1>23, <1>24
  DEF Next, User, Checking, Downloading, Installing, UpdateInv

-----------------------------------------------------------------------------
(* What leaves the installers and their calls alone keeps Installers. *)
LEMMA InstallersStep == UpdateInv /\ [Next]_vars => Installers'
<1> SUFFICES ASSUME UpdateInv, [Next]_vars PROVE Installers'
  OBVIOUS
<1>0. TypeOK /\ Installers
  BY DEF UpdateInv
<1>1. CASE UNCHANGED <<install, file>>
  BY <1>0, <1>1 DEF Installers, IsRunning
<1>2. ASSUME NEW v, NEW parts, Starts(v, parts) PROVE Installers'
  BY <1>2 DEF Starts, NewSession, NoInstall, Installers, IsRunning
<1>3. CASE DlClears
  <2>1. install' = install
    BY <1>3 DEF DlClears
  <2>2. \A v \in Version : /\ InUse(v) => file'[v] = file[v]
                           /\ file'[v] \in {file[v], "none"}
    BY <1>3 DEF DlClears, Cleared
  <2> QED
    BY <1>0, <2>1, <2>2 DEF Installers, InUse, IsRunning
<1>4. CASE DlPlaces
  <2>1. install' = install
    BY <1>4 DEF DlPlaces
  <2>2. \A v \in Version : file'[v] \in {file[v], "good"}
    BY <1>0, <1>4 DEF DlPlaces, TypeOK
  <2> QED
    BY <1>0, <2>1, <2>2 DEF Installers, IsRunning
<1>5. ASSUME NEW i \in Install, RunUpdateInstall(i) PROVE Installers'
  <2>1. file' = file
    BY <1>5 DEF RunUpdateInstall, disk
  <2>2. CASE running \/ verified = 0
    BY <1>0, <1>5, <2>1, <2>2 DEF RunUpdateInstall, Installers, IsRunning
  <2>3. CASE ~(running \/ verified = 0)
    <3>1. verified \in Version
      BY <1>0, <2>3 DEF TypeOK, Found, Version
    <3>2. /\ install'[i].v = verified /\ install'[i].pc = "hash"
          /\ install'[i].bytes = file[verified]
          /\ \A j \in Install : j # i => install'[j] = install[j]
      BY <1>0, <1>5, <2>3 DEF RunUpdateInstall, TypeOK
    <3> QED
      BY <1>0, <2>1, <3>1, <3>2 DEF Installers, IsRunning
  <2> QED
    BY <2>2, <2>3
<1>6. ASSUME NEW i \in Install, InstallHashed(i) PROVE Installers'
  <2> DEFINE w == install[i].v
  <2>1. /\ install[i].pc = "hash" /\ w \in Version /\ file' = file
        /\ install[i].bytes = "good" /\ ~install[i].swapped => file[w] # "bad"
    BY <1>0, <1>6 DEF InstallHashed, Installers, disk
  <2>2. /\ install'[i].pc = "hashed" /\ install'[i].v = w
        /\ install'[i].swapped = install[i].swapped
        /\ install'[i].bytes \in {install[i].bytes, file[w]}
        /\ \A j \in Install : j # i => install'[j] = install[j]
    BY <1>0, <1>6 DEF InstallHashed, TypeOK, Installs
  <2> HIDE DEF w
  <2>3. install'[i].bytes = "good" /\ ~install'[i].swapped => file[w] # "bad"
    BY <2>1, <2>2
  <2> QED
    BY <1>0, <2>1, <2>2, <2>3 DEF Installers, IsRunning
<1>7. ASSUME NEW i \in Install, InstallSpawns(i) PROVE Installers'
  <2> DEFINE w == install[i].v
  <2>1. /\ install[i].pc = "hashed" /\ w \in Version
        /\ install[i].bytes = "good" /\ ~install[i].swapped => file[w] # "bad"
    BY <1>0, <1>7 DEF InstallSpawns, Installers
  <2>2. \A j \in Install : j # i => install'[j] = install[j]
    BY <1>0, <1>7 DEF InstallSpawns, TypeOK
  <2>3. CASE Matches(i)
    <3>1. /\ file' = file /\ install'[i].v = w /\ install'[i].swapped = install[i].swapped
          /\ install'[i].pc \in {"spawn", "refused"}
          /\ install'[i].pc = "spawn" => file[w] # "none"
      BY <1>0, <1>7, <2>3 DEF InstallSpawns, TypeOK, Installs
    <3>2. install'[i].pc = "spawn" => file[w] = "good" \/ install[i].swapped
      BY <1>0, <2>1, <2>3, <3>1 DEF Matches, TypeOK, Bytes
    <3> QED
      BY <1>0, <2>1, <2>2, <3>1, <3>2 DEF Installers, IsRunning
  <2>4. CASE ~Matches(i)
    <3>1. install'[i].pc = "over"
      BY <1>0, <1>7, <2>4 DEF InstallSpawns, InstallOver, NoInstall, TypeOK
    <3>2. \A v \in Version : /\ InUse(v) => file'[v] = file[v]
                             /\ file'[v] \in {file[v], "none"}
      BY <1>0, <1>7, <2>4 DEF InstallSpawns, TypeOK
    <3> QED
      BY <1>0, <2>1, <2>2, <3>1, <3>2 DEF Installers, InUse, IsRunning
  <2> QED
    BY <2>3, <2>4
<1>8. ASSUME NEW i \in Install, InstallStarted(i) PROVE Installers'
  <2>1. /\ file' = file /\ install[i].pc = "spawn" /\ install'[i].pc = "running"
        /\ install'[i].v = install[i].v /\ install'[i].swapped = install[i].swapped
        /\ \A j \in Install : j # i => install'[j] = install[j]
    BY <1>0, <1>8 DEF InstallStarted, TypeOK, Installs, disk
  <2> QED
    BY <1>0, <2>1 DEF Installers, IsRunning
<1>9. ASSUME NEW i \in Install, InstallRefused(i) \/ InstallerEnds(i) PROVE Installers'
  <2>1. /\ file' = file /\ install'[i].pc = "over"
        /\ \A j \in Install : j # i => install'[j] = install[j]
    BY <1>0, <1>9 DEF InstallRefused, InstallerEnds, InstallOver, NoInstall, TypeOK, disk
  <2> QED
    BY <1>0, <2>1 DEF Installers, IsRunning
<1>11. ASSUME NEW v \in Version, Spoil(v) PROVE Installers'
  <2>1. /\ ~InUse(v)
        /\ \A w \in Version : w # v => file'[w] = file[w]
    BY <1>0, <1>11 DEF Spoil, TypeOK
  <2>2. \A i \in Install :
           /\ install'[i].pc = install[i].pc /\ install'[i].v = install[i].v
           /\ install'[i].bytes = install[i].bytes
           /\ install[i].v # v => install'[i].swapped = install[i].swapped
           /\ install[i].v = v /\ install[i].pc \in {"hash", "hashed"} => install'[i].swapped
    BY <1>0, <1>11 DEF Spoil, TypeOK, Installs
  <2> QED
    BY <1>0, <2>1, <2>2 DEF Installers, InUse, IsRunning
<1>10. \/ UNCHANGED <<install, file>> \/ DlClears \/ DlPlaces
       \/ \E v, parts : Starts(v, parts)
       \/ \E i \in Install : RunUpdateInstall(i)
       \/ \E i \in Install : \/ InstallHashed(i) \/ InstallSpawns(i) \/ InstallStarted(i)
                             \/ InstallRefused(i) \/ InstallerEnds(i)
       \/ \E v \in Version : Spoil(v)
  BY DEF Next, User, Checking, Downloading, Installing, CheckClick, CheckFails,
     CheckLearns, CheckWrites, CheckAnswers, HideClick, HideWrites, NowClick, GoClick, DlReads,
     DlBody, DlFails, DlUndo, CancelClick, CloseModal, DownloadAnswers, TryAgain,
     WaitTimer, Quit, Crash, Updated, Publish, disk, main, vars
<1> QED
  BY <1>1, <1>2, <1>3, <1>4, <1>5, <1>6, <1>7, <1>8, <1>9, <1>10, <1>11

-----------------------------------------------------------------------------
(* An installation begins by the user's wish, and shows it. *)
LEMMA WishOfRun ==
  ASSUME UpdateInv, NEW i, RunUpdateInstall(i),
         ui.wish = "go", ~ui.cancelled
  PROVE  Wishes'
<1>1. ui'.wish = "go" /\ ~ui'.cancelled
  BY DEF RunUpdateInstall, RenderUpdateFailure, StopUpdateWait, UpdateInv, TypeOK, Dialogs
<1> QED
  BY <1>1 DEF Wishes

(* Only a click changes the wish, and only a wished installation shows. *)
LEMMA WishesStep == UpdateInv /\ [Next]_vars => Wishes'
<1> SUFFICES ASSUME UpdateInv, [Next]_vars PROVE Wishes'
  OBVIOUS
<1>0. TypeOK /\ Wishes
  BY DEF UpdateInv
<1>1. CASE CheckClick \/ CheckFails \/ CheckLearns \/ CheckWrites \/ Publish
           \/ (\E v \in Version : Spoil(v)) \/ UNCHANGED vars
  <2>1. UNCHANGED <<ui, run, dl>>
    BY <1>1 DEF CheckClick, CheckFails, CheckLearns, CheckWrites, Publish, Spoil, main, vars
  <2> QED
    BY <1>0, <2>1 DEF Wishes
<1>2. ASSUME NEW v, NEW parts, Starts(v, parts) PROVE Wishes'
  BY <1>2 DEF Starts, NewSession, Dialog, NoDl, NoRun, Wishes
<1>3. CASE CheckAnswers
  <2>1. /\ ui'.phase = "result" /\ ui'.wish = ui.wish /\ ui'.cancelled = ui.cancelled
        /\ dl' = dl
    BY <1>0, <1>3 DEF CheckAnswers, RenderUpdateResult, TypeOK, Dialogs
  <2>2. \A g \in Go : run'[g].pc = run[g].pc
    BY <1>0, <1>3 DEF CheckAnswers, TypeOK, Runs
  <2> QED
    BY <1>0, <2>1, <2>2 DEF Wishes
<1>4. CASE HideClick \/ NowClick \/ WaitTimer
  <2>1. /\ ui'.phase \in {ui.phase, "confirm"} /\ ui'.wish = ui.wish
        /\ ui'.cancelled = ui.cancelled /\ UNCHANGED <<dl, run>>
    BY <1>0, <1>4 DEF HideClick, NowClick, WaitTimer, TypeOK, Dialogs, main
  <2> QED
    BY <1>0, <2>1 DEF Wishes
<1>5. ASSUME NEW g \in Go, GoClick(g) PROVE Wishes'
  <2>1. ui'.phase = "download" /\ ui'.wish = "go"
    BY <1>0, <1>5 DEF GoClick, TypeOK, Dialogs
  <2> QED
    BY <2>1 DEF Wishes
<1>6. CASE CancelClick \/ CloseModal \/ HideWrites
  <2>1. UNCHANGED run /\ (dl.pc = "no" => dl'.pc = "no")
    BY <1>0, <1>6 DEF CancelClick, CloseModal, HideWrites, CloseUpdateModal, Abort, TypeOK,
       Downloads
  <2>2. \/ ui'.wish = "cancel" /\ ui'.cancelled /\ ui'.phase = "download"
        \/ /\ ui'.wish = ui.wish /\ ui'.cancelled = ui.cancelled
           /\ ui'.phase \in {ui.phase, "result"}
    BY <1>0, <1>6 DEF CancelClick, CloseModal, HideWrites, CloseUpdateModal,
       RenderUpdateResult, TypeOK, Dialogs
  <2> QED
    BY <1>0, <2>1, <2>2 DEF Wishes
<1>7. CASE DlReads \/ DlClears \/ DlBody \/ DlFails \/ DlUndo \/ DlPlaces
  <2>1. dl.pc # "no" /\ ui' = ui
    BY <1>7 DEF DlReads, DlClears, DlBody, DlFails, DlUndo, DlPlaces
  <2> QED
    BY <1>0, <2>1 DEF Wishes
<1>8. ASSUME NEW g \in Go, DownloadAnswers(g) PROVE Wishes'
  <2>1. ui.wish # "none"
    BY <1>0, <1>8 DEF DownloadAnswers, Wishes
  <2>2. CASE Cancelled(g) \/ run[g].pc # "ok"
    <3>1. ui' = RenderUpdateResult(ui) \/ ui' = [ui EXCEPT !.phase = "done"]
      BY <1>8, <2>2 DEF DownloadAnswers
    <3>2. /\ ui'.phase \in {"result", "done"} /\ ui'.wish = ui.wish
          /\ ui'.cancelled = ui.cancelled
      BY <1>0, <3>1 DEF RenderUpdateResult, TypeOK, Dialogs
    <3> QED
      BY <1>0, <2>1, <3>2 DEF Wishes
  <2>3. CASE ~(Cancelled(g) \/ run[g].pc # "ok")
    <3>1. ~ui.cancelled /\ ui.wish = "go"
      BY <1>0, <2>1, <2>3 DEF Cancelled, Wishes, TypeOK, Dialogs
    <3> QED
      BY <1>8, <2>3, <3>1, WishOfRun DEF DownloadAnswers
  <2> QED
    BY <2>2, <2>3
<1>9. ASSUME NEW i \in Install, TryAgain(i) PROVE Wishes'
  BY <1>0, <1>9, WishOfRun DEF TryAgain, Wishes
<1>10. ASSUME NEW i \in Install,
              InstallHashed(i) \/ InstallSpawns(i) \/ InstallStarted(i) \/ InstallRefused(i)
                \/ InstallerEnds(i)
       PROVE  Wishes'
  <2>1. UNCHANGED <<run, dl>>
    BY <1>10 DEF InstallHashed, InstallSpawns, InstallStarted, InstallRefused, InstallerEnds
  <2>2. ui'.wish = ui.wish /\ ui'.cancelled = ui.cancelled
    BY <1>0, <1>10 DEF InstallHashed, InstallSpawns, InstallStarted, InstallRefused, InstallerEnds,
       RenderUpdateFailure, StopUpdateWait, TypeOK, Dialogs
  <2>3. ui'.phase \in {"install", "waiting", "ended"}
           => ui.phase \in {"install", "waiting", "ended"}
    BY <1>0, <1>10 DEF InstallHashed, InstallSpawns, InstallStarted, InstallRefused, InstallerEnds,
       RenderUpdateFailure, StopUpdateWait, TypeOK, Dialogs
  <2> QED
    BY <1>0, <2>1, <2>2, <2>3 DEF Wishes
<1> QED
  BY <1>1, <1>2, <1>3, <1>4, <1>5, <1>6, <1>7, <1>8, <1>9, <1>10
  DEF Next, User, Checking, Downloading, Installing, Quit, Crash, Updated

-----------------------------------------------------------------------------
(* A new click comes after the result, and the result after the last      *)
(* click's answer.                                                         *)
LEMMA AnswersStep == UpdateInv /\ [Next]_vars => Answers'
<1> SUFFICES ASSUME UpdateInv, [Next]_vars PROVE Answers'
  OBVIOUS
<1>0. TypeOK /\ Wishes /\ Answers
  BY DEF UpdateInv
<1>1. ASSUME UNCHANGED <<run, dl>>,
             ui'.phase \in {"result", "confirm"} => ui.phase \in {"result", "confirm"},
             ui.cancelled => ui'.cancelled
      PROVE  Answers'
  BY <1>0, <1>1 DEF Answers, Awaited
<1>2. CASE CheckClick \/ CheckFails \/ CheckLearns \/ CheckWrites \/ Publish
           \/ (\E v \in Version : Spoil(v)) \/ UNCHANGED vars
  <2>1. UNCHANGED <<ui, run, dl>>
    BY <1>2 DEF CheckClick, CheckFails, CheckLearns, CheckWrites, Publish, Spoil, main, vars
  <2> QED
    BY <1>1, <2>1
<1>3. CASE HideClick \/ NowClick \/ WaitTimer
  <2>1. /\ UNCHANGED <<run, dl>> /\ ui'.cancelled = ui.cancelled
        /\ ui'.phase \in {"result", "confirm"} => ui.phase \in {"result", "confirm"}
    BY <1>0, <1>3 DEF HideClick, NowClick, WaitTimer, TypeOK, Dialogs, main
  <2> QED
    BY <1>1, <2>1
<1>4. ASSUME NEW i \in Install,
             InstallHashed(i) \/ InstallSpawns(i) \/ InstallStarted(i) \/ InstallRefused(i)
                \/ InstallerEnds(i)
      PROVE  Answers'
  <2>1. /\ UNCHANGED <<run, dl>> /\ ui'.cancelled = ui.cancelled
        /\ ui'.phase \in {"result", "confirm"} => ui.phase \in {"result", "confirm"}
    BY <1>0, <1>4 DEF InstallHashed, InstallSpawns, InstallStarted, InstallRefused, InstallerEnds,
       RenderUpdateFailure, StopUpdateWait, TypeOK, Dialogs
  <2> QED
    BY <1>1, <2>1
<1>5. \A i : RunUpdateInstall(i) =>
         /\ dl' = dl /\ ui'.cancelled = ui.cancelled /\ ui'.phase \in {"install", "done"}
  BY <1>0 DEF RunUpdateInstall, RenderUpdateFailure, StopUpdateWait, TypeOK, Dialogs
<1>6. ASSUME NEW i \in Install, TryAgain(i) PROVE Answers'
  BY <1>1, <1>5, <1>6 DEF TryAgain
<1>7. ASSUME NEW v, NEW parts, Starts(v, parts) PROVE Answers'
  BY <1>7 DEF Starts, NewSession, NoRun, NoDl, Answers, Awaited
<1>8. CASE CheckAnswers
  <2>1. dl' = dl /\ \A g \in Go : ~run'[g].current /\ run'[g].pc = run[g].pc
    BY <1>0, <1>8 DEF CheckAnswers, TypeOK, Runs
  <2> QED
    BY <1>0, <2>1 DEF Answers, Awaited
<1>9. ASSUME NEW g \in Go, GoClick(g) PROVE Answers'
  <2>1. /\ ui.phase = "confirm" /\ ui'.phase = "download" /\ run[g].pc = "no"
        /\ \A h \in Go : h # g => run'[h] = run[h]
    BY <1>0, <1>9 DEF GoClick, TypeOK, Dialogs, NoRun
  <2>2. \A h \in Go : ~Awaited(h)
    BY <1>0, <2>1 DEF Answers
  <2>3. CASE dl # NoDl \/ running
    <3>1. dl' = dl /\ run'[g].pc = "refused"
      BY <1>0, <1>9, <2>3 DEF GoClick, TypeOK
    <3>2. dl.pc # "no" => dl.go # g
      BY <1>0, <2>1 DEF Answers
    <3> QED
      BY <1>0, <2>1, <2>2, <3>1, <3>2 DEF Answers, Awaited
  <2>4. CASE ~(dl # NoDl \/ running)
    <3>1. dl' = [NoDl EXCEPT !.pc = "read", !.go = g]
      BY <1>9, <2>4 DEF GoClick
    <3>2. dl'.go = g /\ ~dl'.aborted
      BY <3>1 DEF NoDl
    <3>3. run'[g].pc = "await"
      BY <1>0, <1>9, <2>4 DEF GoClick, TypeOK
    <3> QED
      BY <1>0, <2>1, <2>2, <3>2, <3>3 DEF Answers, Awaited
  <2> QED
    BY <2>3, <2>4
<1>10. CASE CancelClick \/ CloseModal \/ HideWrites
  <2>1. CASE ui.phase = "download" /\ ~UNCHANGED <<ui, dl>>
    <3>1. /\ run' = run /\ ui'.cancelled /\ ui'.phase = "download"
          /\ dl'.go = dl.go /\ dl'.pc = dl.pc
      BY <1>0, <1>10, <2>1 DEF CancelClick, CloseModal, HideWrites, CloseUpdateModal, Abort,
         TypeOK, Downloads, Dialogs
    <3> QED
      BY <1>0, <3>1 DEF Answers, Awaited
  <2>2. CASE ui.phase # "download" \/ UNCHANGED <<ui, dl>>
    <3>1. /\ UNCHANGED <<run, dl>> /\ ui'.cancelled = ui.cancelled
          /\ ui'.phase \in {"result", "confirm"} => ui.phase \in {"result", "confirm"}
      BY <1>0, <1>10, <2>2 DEF CancelClick, CloseModal, HideWrites, CloseUpdateModal,
         RenderUpdateResult, TypeOK, Dialogs
    <3> QED
      BY <1>1, <3>1
  <2> QED
    BY <2>1, <2>2
<1>11. ASSUME run' = run, ui' = ui, dl.pc # "no", dl'.go = dl.go, dl'.aborted = dl.aborted
       PROVE  Answers'
  BY <1>0, <1>11 DEF Answers, Awaited
<1>12. ASSUME NEW pc \in {"ok", "failed", "cancelled", "refused"}, Answer(pc),
              ui' = ui, dl.pc # "no", pc = "cancelled" => dl.aborted
       PROVE  Answers'
  <2>1. dl'.pc = "no"
    BY <1>12 DEF Answer, NoDl
  <2>2. \A g \in Go : /\ run'[g].current = run[g].current
                      /\ run'[g].pc = IF g = dl.go THEN pc ELSE run[g].pc
    BY <1>0, <1>12 DEF Answer, TypeOK, Runs
  <2>3. dl.go \in Go /\ run[dl.go].pc = "await"
    BY <1>0, <1>12 DEF Answers
  <2>4. \A g \in Go : run'[g].current /\ run'[g].pc \notin {"no", "over"} => Awaited(g)
    BY <2>2, <2>3 DEF Awaited
  <2>5. \A g \in Go : run'[g].pc = "cancelled" =>
           run[g].pc = "cancelled" \/ (dl.pc # "no" /\ dl.go = g /\ dl.aborted)
    BY <1>12, <2>2
  <2>6. \A g \in Go : Awaited(g) =>
           /\ ui.phase \notin {"result", "confirm"}
           /\ \A h \in Go : Awaited(h) => h = g
           /\ run'[g].pc = "cancelled" => ui.cancelled
    BY <1>0, <2>5 DEF Answers
  <2> QED
    BY <1>12, <2>1, <2>4, <2>6 DEF Answers, Awaited
<1>13. CASE DlReads \/ DlClears \/ DlBody \/ DlFails \/ DlUndo \/ DlPlaces
  <2>1. dl.pc # "no" /\ ui' = ui
    BY <1>13 DEF DlReads, DlClears, DlBody, DlFails, DlUndo, DlPlaces
  <2>2. \/ run' = run /\ dl'.go = dl.go /\ dl'.aborted = dl.aborted
        \/ Answer("refused") \/ Answer("ok") \/ Answer("failed")
        \/ Answer("cancelled") /\ dl.aborted
    BY <1>0, <1>13 DEF DlReads, DlClears, DlBody, DlFails, DlUndo, DlPlaces, TypeOK, Downloads
  <2> QED
    BY <1>11, <1>12, <2>1, <2>2
<1>14. ASSUME NEW g \in Go, DownloadAnswers(g) PROVE Answers'
  <2>1. /\ run[g].pc \notin {"no", "await", "over"} /\ run'[g].pc = "over"
        /\ \A h \in Go : h # g => run'[h] = run[h]
    BY <1>0, <1>14 DEF DownloadAnswers, RunOver, NoRun, TypeOK, Runs
  <2>2. dl' = dl /\ ui'.cancelled = ui.cancelled
    BY <1>0, <1>5, <1>14 DEF DownloadAnswers, RenderUpdateResult, TypeOK, Dialogs, main
  <2>3. \/ ui'.phase \in {"install", "done"}
        \/ ShowAgain(g) /\ ui'.phase = "result"
    BY <1>0, <1>5, <1>14 DEF DownloadAnswers, RenderUpdateResult, TypeOK, Dialogs
  <2>4. ShowAgain(g) => \A h \in Go : h # g => ~Awaited(h)
    BY <1>0, <2>1 DEF ShowAgain, Answers, Awaited
  <2>5. \A h \in Go : Awaited(h)' => h # g /\ Awaited(h)
    BY <2>1 DEF Awaited
  <2> QED
    BY <1>0, <2>1, <2>2, <2>3, <2>4, <2>5 DEF Answers
<1> QED
  BY <1>2, <1>3, <1>4, <1>6, <1>7, <1>8, <1>9, <1>10, <1>13, <1>14
  DEF Next, User, Checking, Downloading, Installing, Quit, Crash, Updated

-----------------------------------------------------------------------------
(* The button for a check is behind the dialog, whose result a check that *)
(* is under way keeps away.                                                *)
LEMMA DismissalsStep == UpdateInv /\ [Next]_vars => Dismissals'
<1> SUFFICES ASSUME UpdateInv, [Next]_vars PROVE Dismissals'
  OBVIOUS
<1>0. TypeOK /\ Wishes /\ Answers /\ Dismissals
  BY DEF UpdateInv
<1>20. /\ stored.dismissed \in Nat /\ stored.latest \in Nat /\ published \in Nat
       /\ check.dismissed \in Nat /\ check.found \in Nat /\ hide.latest \in Nat
  BY <1>0 DEF TypeOK, Checks, Hides, Found
<1>1. ASSUME NEW v, NEW parts, Starts(v, parts) PROVE Dismissals'
  <2>1. UNCHANGED <<stored, published>> /\ check'.pc = "no" /\ hide'.pc = "no"
    BY <1>1 DEF Starts, NewSession, NoCheck, NoHide
  <2> QED
    BY <1>0, <2>1 DEF Dismissals
<1>2. CASE CheckClick
  <2>1. /\ UNCHANGED <<stored, published, ui, hide>> /\ ~ui.open
        /\ check'.pc = "ask" /\ check'.dismissed \in {0, stored.dismissed}
        /\ hide.pc # "no" => check'.blind
        /\ ~check'.blind => check'.dismissed = stored.dismissed
    BY <1>2 DEF CheckClick, NoCheck, disk
  <2>2. /\ check'.dismissed <= published
        /\ hide.pc # "no" => check'.dismissed <= hide.latest
    BY <1>0, <1>20, <2>1 DEF Dismissals
  <2> QED
    BY <1>0, <2>1, <2>2 DEF Dismissals
<1>3. CASE CheckLearns
  <2>1. /\ UNCHANGED <<stored, published, ui, hide>> /\ check.pc = "ask"
        /\ check'.dismissed = check.dismissed /\ check'.blind = check.blind
        /\ check'.pc = "write" /\ check'.found = published
    BY <1>0, <1>3 DEF CheckLearns, TypeOK, Checks, disk
  <2>2. published <= published
    BY <1>20
  <2> QED
    BY <1>0, <2>1, <2>2 DEF Dismissals
<1>16. CASE CheckFails
  <2>1. /\ UNCHANGED <<stored, published, ui, hide>> /\ check.pc = "ask" /\ check'.pc = "answer"
    BY <1>16 DEF CheckFails, NoCheck, disk
  <2> QED
    BY <1>0, <2>1 DEF Dismissals
<1>4. CASE CheckWrites
  <2>1. /\ UNCHANGED <<published, ui, hide>> /\ check.pc = "write" /\ check'.pc = "answer"
        /\ \/ stored' = stored
           \/ stored'.latest = check.found /\ stored'.dismissed = check.dismissed
    BY <1>0, <1>4 DEF CheckWrites, NoCheck, TypeOK, Checks
  <2> QED
    BY <1>0, <2>1 DEF Dismissals
<1>5. CASE CheckAnswers
  <2>1. UNCHANGED <<stored, published, hide>> /\ check'.pc = "no"
    BY <1>5 DEF CheckAnswers, NoCheck, disk
  <2> QED
    BY <1>0, <2>1 DEF Dismissals
<1>6. CASE HideClick
  <2>1. /\ UNCHANGED <<published, check, stored, ui>> /\ check.pc = "no"
        /\ hide'.latest = stored.latest
    BY <1>0, <1>6 DEF HideClick, Dismissals, TypeOK, disk
  <2> QED
    BY <1>0, <2>1 DEF Dismissals
<1>17. CASE HideWrites
  <2>1. /\ UNCHANGED <<published, check>> /\ hide.pc = "write" /\ hide'.pc = "no"
        /\ \/ stored' = stored
           \/ stored'.latest = hide.latest /\ stored'.dismissed = hide.latest
    BY <1>0, <1>17 DEF HideWrites, NoHide
  <2>2. /\ ui'.open => ui' = ui
    BY <1>0, <1>17 DEF HideWrites, CloseUpdateModal, TypeOK, Dialogs
  <2> QED
    BY <1>0, <1>20, <2>1, <2>2 DEF Dismissals
<1>7. CASE Publish
  <2>1. UNCHANGED <<stored, check, hide, ui>> /\ published' = published + 1
    BY <1>7 DEF Publish, disk, main
  <2> QED
    BY <1>0, <1>20, <2>1 DEF Dismissals
<1>8. ASSUME UNCHANGED <<stored, published, check, hide>>,
             ui'.open => ui.open,
             check.pc # "no" /\ ui.open /\ ui'.open =>
                 ~ui'.cancelled /\ ui'.phase \in {"install", "waiting", "ended", "done"}
      PROVE  Dismissals'
  BY <1>0, <1>8 DEF Dismissals
<1> DEFINE Busy == check.pc # "no" /\ ui.open
<1>9. Busy => ~ui.cancelled /\ ui.phase \in {"install", "waiting", "ended", "done"}
  BY <1>0 DEF Dismissals
<1>10. CASE NowClick \/ CancelClick \/ CloseModal \/ WaitTimer \/ \E g \in Go : GoClick(g)
  <2>1. UNCHANGED <<stored, published, check, hide>>
    BY <1>10 DEF NowClick, CancelClick, CloseModal, CloseUpdateModal, WaitTimer, GoClick, disk, main
  <2>2. ui'.open => ui.open
    BY <1>0, <1>10 DEF NowClick, CancelClick, CloseModal, CloseUpdateModal, WaitTimer, GoClick,
       RenderUpdateResult, TypeOK, Dialogs
  <2>3. Busy => \/ ~ui'.open
                \/ ui'.cancelled = ui.cancelled /\ ui'.phase = ui.phase
    BY <1>0, <1>9, <1>10 DEF NowClick, CancelClick, CloseModal, CloseUpdateModal, WaitTimer, GoClick,
       TypeOK, Dialogs
  <2> QED
    BY <1>8, <1>9, <2>1, <2>2, <2>3
<1>11. CASE DlReads \/ DlClears \/ DlBody \/ DlFails \/ DlUndo \/ DlPlaces
            \/ (\E v \in Version : Spoil(v)) \/ UNCHANGED vars
  <2>1. UNCHANGED <<stored, published, check, hide, ui>>
    BY <1>11 DEF DlReads, DlClears, DlBody, DlFails, DlUndo, DlPlaces, Spoil, disk, main, vars
  <2> QED
    BY <1>0, <2>1 DEF Dismissals
<1>12. ASSUME NEW i, RunUpdateInstall(i) PROVE Dismissals'
  <2>1. UNCHANGED <<stored, published, check, hide>>
    BY <1>12 DEF RunUpdateInstall, disk
  <2>2. /\ ui'.open = ui.open /\ ui'.cancelled = ui.cancelled
        /\ ui'.phase \in {"install", "done"}
    BY <1>0, <1>12 DEF RunUpdateInstall, RenderUpdateFailure, StopUpdateWait, TypeOK, Dialogs
  <2> QED
    BY <1>8, <1>9, <2>1, <2>2
<1>13. ASSUME NEW g \in Go, DownloadAnswers(g) PROVE Dismissals'
  <2>1. CASE \E i \in Install : RunUpdateInstall(i)
    BY <1>12, <2>1
  <2>2. CASE ~ \E i \in Install : RunUpdateInstall(i)
    <3>1. UNCHANGED <<stored, published, check, hide>>
      BY <1>13, <2>2 DEF DownloadAnswers, disk, main
    <3>2. \/ ui' = RenderUpdateResult(ui) /\ Cancelled(g) /\ ShowAgain(g)
          \/ ui' = [ui EXCEPT !.phase = "done"]
      BY <1>13, <2>2 DEF DownloadAnswers
    <3>3. CASE ui' = [ui EXCEPT !.phase = "done"]
      <4>1. ui'.phase = "done" /\ ui'.open = ui.open /\ ui'.cancelled = ui.cancelled
        BY <1>0, <3>3 DEF TypeOK, Dialogs
      <4> QED
        BY <1>8, <1>9, <3>1, <4>1
    <3>4. CASE Cancelled(g) /\ ShowAgain(g)
      <4>1. run[g].pc = "cancelled" => ui.cancelled
        <5>1. run[g].pc = "cancelled" => Awaited(g)
          BY <3>4 DEF ShowAgain, Awaited
        <5> QED
          BY <1>0, <5>1 DEF Answers
      <4>2. ~Busy
        BY <1>9, <3>4, <4>1 DEF Cancelled
      <4>3. check.pc = "no"
        BY <3>4, <4>2 DEF ShowAgain
      <4> QED
        BY <1>0, <3>1, <4>3 DEF Dismissals
    <3> QED
      BY <3>2, <3>3, <3>4
  <2> QED
    BY <2>1, <2>2
<1>14. ASSUME NEW i \in Install, InstallHashed(i) \/ InstallSpawns(i)
                               \/ InstallStarted(i) \/ InstallRefused(i)
       PROVE  Dismissals'
  <2>1. UNCHANGED <<stored, published, check, hide>>
    BY <1>14 DEF InstallHashed, InstallSpawns, InstallStarted, InstallRefused, disk
  <2>2. /\ ui'.open = ui.open /\ ui'.cancelled = ui.cancelled
        /\ ui'.phase \in {ui.phase, "waiting", "done"}
    BY <1>0, <1>14 DEF InstallHashed, InstallSpawns, InstallStarted, InstallRefused, RenderUpdateFailure,
       StopUpdateWait, TypeOK, Dialogs
  <2> QED
    BY <1>8, <1>9, <2>1, <2>2
<1>15. ASSUME NEW i \in Install, InstallerEnds(i) PROVE Dismissals'
  <2>1. UNCHANGED <<stored, published, check, hide>>
    BY <1>15 DEF InstallerEnds, disk
  <2>2. \/ ui' = ui
        \/ ui'.phase = "ended" /\ ui'.cancelled = ui.cancelled
           /\ ui.phase \in {"install", "waiting"}
    BY <1>0, <1>15 DEF InstallerEnds, StopUpdateWait, TypeOK, Dialogs
  <2> QED
    BY <1>0, <2>1, <2>2 DEF Dismissals, Wishes
<1> QED
  BY <1>1, <1>2, <1>3, <1>4, <1>5, <1>6, <1>7, <1>10, <1>11, <1>12, <1>13, <1>14, <1>15,
     <1>16, <1>17
  DEF Next, User, Checking, Downloading, Installing, Quit, Crash, Updated, TryAgain

-----------------------------------------------------------------------------
(* The folder is cleared before a partial file is opened. *)
LEMMA PartsStep == UpdateInv /\ [Next]_vars => Parts'
<1> SUFFICES ASSUME UpdateInv, [Next]_vars PROVE Parts'
  OBVIOUS
<1>0. TypeOK /\ Parts
  BY DEF UpdateInv
<1>1. ASSUME NEW v, NEW parts, Starts(v, parts) PROVE Parts'
  BY <1>1 DEF Starts, NewSession, NoDl, Parts
<1>2. ASSUME part' = part,
             dl'.pc \in {"clear", "body", "place", "undo"} =>
                 /\ dl.pc \in {"clear", "body", "place", "undo"} /\ dl'.v = dl.v
                 /\ dl'.pc \in {"body", "place", "undo"} => dl.pc \in {"body", "place", "undo"}
      PROVE  Parts'
  BY <1>0, <1>2 DEF Parts
<1>3. CASE DlReads
  <2>1. CASE ~Answer("refused")
    <3>1. dl' = [dl EXCEPT !.pc = "clear", !.v = stored.latest] /\ IsNewerVersion(stored.latest)
      BY <1>3, <2>1 DEF DlReads
    <3>2. dl'.pc = "clear" /\ dl'.v = stored.latest
      BY <1>0, <3>1 DEF TypeOK, Downloads
    <3>3. stored.latest \in Version
      BY <1>0, <3>1 DEF IsNewerVersion, TypeOK, Found, Version
    <3> QED
      BY <3>2, <3>3 DEF Parts
  <2>2. CASE Answer("refused")
    <3>1. dl' = NoDl
      BY <2>2 DEF Answer
    <3> QED
      BY <3>1 DEF NoDl, Parts
  <2> QED
    BY <2>1, <2>2
<1>4. CASE DlClears
  <2>1. dl'.v = dl.v /\ dl.pc = "clear"
    BY <1>0, <1>4 DEF DlClears, TypeOK, Downloads
  <2>2. \A v \in Version : part'[v] = "part" => v = dl.v
    BY <1>4 DEF DlClears, ClearedParts, Unlinked
  <2> QED
    BY <1>0, <2>1, <2>2 DEF Parts
<1>5. CASE DlBody \/ DlFails
  BY <1>0, <1>2, <1>5 DEF DlBody, DlFails, TypeOK, Downloads, disk
<1>6. CASE DlUndo
  BY <1>6 DEF DlUndo, Answer, NoDl, Parts
<1>7. CASE DlPlaces
  <2>1. CASE Answer("ok")
    BY <2>1 DEF Answer, NoDl, Parts
  <2>2. CASE ~Answer("ok")
    <3>1. part' = part /\ dl.pc = "place" /\ dl' = [dl EXCEPT !.pc = "undo"]
      BY <1>7, <2>2 DEF DlPlaces
    <3>2. dl'.v = dl.v
      BY <1>0, <3>1 DEF TypeOK, Downloads
    <3> QED
      BY <1>2, <3>1, <3>2
  <2> QED
    BY <2>1, <2>2
<1>8. CASE CancelClick \/ CloseModal \/ HideWrites
  <2>1. part' = part /\ dl'.pc = dl.pc /\ dl'.v = dl.v
    BY <1>0, <1>8 DEF CancelClick, CloseModal, HideWrites, CloseUpdateModal, Abort, TypeOK,
       Downloads, disk
  <2> QED
    BY <1>2, <2>1
<1>9. ASSUME NEW g \in Go, GoClick(g) PROVE Parts'
  <2>1. part' = part /\ (dl' = dl \/ dl'.pc = "read")
    BY <1>9 DEF GoClick, NoDl, disk
  <2> QED
    BY <1>2, <2>1
<1>10. UNCHANGED <<part, dl>> => Parts'
  BY <1>0 DEF Parts
<1> QED
  BY <1>1, <1>3, <1>4, <1>5, <1>6, <1>7, <1>8, <1>9, <1>10
  DEF Next, User, Checking, Downloading, Installing, CheckClick, CheckFails,
     CheckLearns, CheckWrites, CheckAnswers, HideClick, NowClick, DownloadAnswers, TryAgain,
     RunUpdateInstall, InstallHashed, InstallSpawns, InstallStarted, InstallRefused,
     InstallerEnds, Spoil,
     WaitTimer, Quit, Crash, Updated, Publish, disk, main, vars

-----------------------------------------------------------------------------
(* The main process and the dialog agree on what was verified, wished,     *)
(* answered and dismissed (main.ts 540-1231, app.ts 848-1352).             *)
THEOREM UpdateInvariant == Spec => []UpdateInv
<1>1. UpdateInv /\ [Next]_vars => UpdateInv'
  BY TypeStep, InstallersStep, WishesStep, AnswersStep, DismissalsStep, PartsStep
  DEF UpdateInv
<1> QED
  BY InitUpdate, <1>1, PTL DEF Spec

(* Every variable of the update has its type. *)
THEOREM UpdateTypes == Spec => []TypeOK
<1>1. UpdateInv => TypeOK
  BY DEF UpdateInv
<1> QED
  BY UpdateInvariant, <1>1, PTL

(* None of the app's own steps can bring other bytes between the last      *)
(* fingerprint of an installer and its start ("What runs is exactly what   *)
(* was checked", main.ts 1166): only another program can.                  *)
THEOREM VerifiedRuns == Spec => []OnlyVerifiedRuns
<1>1. UpdateInv => OnlyVerifiedRuns
  BY DEF UpdateInv, Installers, OnlyVerifiedRuns
<1> QED
  BY UpdateInvariant, <1>1, PTL

(* No installation begins against the user's last word (app.ts 1175-1187). *)
THEOREM CancelAlwaysWins == Spec => CancelWins
<1> DEFINE Wished == \A i \in Install :
      install[i].pc = "no" /\ install'[i].pc = "hash" => ui.wish = "go"
<1>1. UpdateInv /\ [Next]_vars => Wished
  <2> SUFFICES ASSUME UpdateInv, [Next]_vars, NEW i \in Install,
                      install[i].pc = "no", install'[i].pc = "hash"
               PROVE  ui.wish = "go"
    OBVIOUS
  <2>0. TypeOK /\ Wishes
    BY DEF UpdateInv
  <2>1. ASSUME NEW g \in Go, DownloadAnswers(g) PROVE ui.wish = "go"
    <3>1. ~Cancelled(g)
      BY <2>1 DEF DownloadAnswers, main
    <3>2. ~ui.cancelled /\ run[g].pc # "no"
      BY <2>1, <3>1 DEF DownloadAnswers, Cancelled
    <3> QED
      BY <2>0, <3>2 DEF Wishes, TypeOK, Dialogs
  <2>2. ASSUME NEW j \in Install, TryAgain(j) PROVE ui.wish = "go"
    BY <2>0, <2>2 DEF TryAgain, Wishes
  <2>3. ASSUME NEW j \in Install, \/ InstallHashed(j) \/ InstallSpawns(j) \/ InstallStarted(j)
                                \/ InstallRefused(j) \/ InstallerEnds(j)
        PROVE  FALSE
    BY <2>0, <2>3 DEF InstallHashed, InstallSpawns, InstallStarted, InstallRefused,
       InstallerEnds, InstallOver, NoInstall, TypeOK, Installs
  <2>6. ASSUME NEW w \in Version, Spoil(w) PROVE FALSE
    BY <2>0, <2>6 DEF Spoil, TypeOK, Installs
  <2>4. ASSUME NEW v, NEW parts, Starts(v, parts) PROVE FALSE
    BY <2>4 DEF Starts, NewSession, NoInstall
  <2>5. install' # install
    OBVIOUS
  <2> QED
    BY <2>1, <2>2, <2>3, <2>4, <2>5, <2>6
    DEF Next, User, Checking, Downloading, Installing, CheckClick, CheckFails,
     CheckLearns, CheckWrites, CheckAnswers, HideClick, HideWrites, NowClick, GoClick, DlReads,
     DlClears, DlBody, DlFails, DlUndo, DlPlaces, CancelClick, CloseModal,
     WaitTimer, Quit, Crash, Updated, Publish, disk, main, vars
<1> QED
  BY UpdateInvariant, <1>1, PTL DEF Spec, CancelWins

(* When a download has its answer, every partial file in the folder, its   *)
(* own and what a crash left of others, has been removed or could not be   *)
(* (main.ts 807).                                                          *)
THEOREM NoPartLeft == Spec => PartGone
<1> DEFINE Gone == \A g \in Go :
      run[g].pc = "await" /\ run'[g].pc \in {"ok", "failed", "cancelled"}
          => \A v \in Version : part'[v] # "part"
<1>1. UpdateInv /\ [Next]_vars => Gone
  <2> SUFFICES ASSUME UpdateInv, [Next]_vars, NEW g \in Go, NEW v \in Version,
                      run[g].pc = "await", run'[g].pc \in {"ok", "failed", "cancelled"}
               PROVE  part'[v] # "part"
    OBVIOUS
  <2>0. TypeOK /\ Parts
    BY DEF UpdateInv
  <2>1. CASE DlUndo
    BY <2>0, <2>1 DEF DlUndo, Unlinked, Parts, TypeOK
  <2>2. CASE DlPlaces
    BY <2>0, <2>2 DEF DlPlaces, Parts, TypeOK
  <2>3. CASE DlReads
    BY <2>0, <2>3 DEF DlReads, Answer, TypeOK, Runs
  <2>4. CASE CheckAnswers
    BY <2>0, <2>4 DEF CheckAnswers, TypeOK, Runs
  <2>5. ASSUME NEW h \in Go, GoClick(h) \/ DownloadAnswers(h) PROVE FALSE
    BY <2>0, <2>5 DEF GoClick, DownloadAnswers, RunOver, NoRun, TypeOK, Runs
  <2>6. ASSUME NEW w, NEW parts, Starts(w, parts) PROVE FALSE
    BY <2>6 DEF Starts, NewSession, NoRun
  <2>7. run' # run
    OBVIOUS
  <2> QED
    BY <2>1, <2>2, <2>3, <2>4, <2>5, <2>6, <2>7
    DEF Next, User, Checking, Downloading, Installing, CheckClick, CheckFails,
     CheckLearns, CheckWrites, HideClick, HideWrites, NowClick, DlClears,
     DlBody, DlFails, CancelClick, CloseModal, TryAgain, RunUpdateInstall, InstallHashed,
     InstallSpawns, InstallStarted, InstallRefused, InstallerEnds, Spoil,
     WaitTimer, Quit, Crash, Updated, Publish, disk, main, vars
<1> QED
  BY UpdateInvariant, <1>1, PTL DEF Spec, PartGone

(* No check brings back an older dismissal ("The tag they dismissed stays  *)
(* dismissed", main.ts 741), unless it could not read the newer one.       *)
THEOREM DismissalStays == Spec => DismissalKept
<1>1. UpdateInv /\ [Next]_vars =>
         (~(check.pc = "write" /\ check.blind) => stored'.dismissed >= stored.dismissed)
  <2> SUFFICES ASSUME UpdateInv, [Next]_vars, ~(check.pc = "write" /\ check.blind)
               PROVE  stored'.dismissed >= stored.dismissed
    OBVIOUS
  <2>0. /\ TypeOK /\ Dismissals
        /\ stored.dismissed \in Int /\ stored.latest \in Int /\ hide.latest \in Int
    BY DEF UpdateInv, TypeOK, Found, Hides
  <2>1. CASE CheckWrites
    <3>1. stored'.dismissed = stored.dismissed
      BY <2>0, <2>1 DEF CheckWrites, Dismissals
    <3> QED
      BY <2>0, <3>1
  <2>2. CASE HideWrites
    <3>1. stored'.dismissed = hide.latest \/ stored'.dismissed = stored.dismissed
      BY <2>0, <2>2 DEF HideWrites, TypeOK
    <3> QED
      BY <2>0, <2>2, <3>1 DEF Dismissals, HideWrites
  <2>3. CASE stored' = stored
    BY <2>0, <2>3
  <2> QED
    BY <2>1, <2>2, <2>3
    DEF Next, User, Checking, Downloading, Installing, CheckClick, CheckFails,
     CheckLearns, CheckAnswers, HideClick, NowClick, GoClick, DlReads, DlClears, DlBody,
     DlFails, DlUndo, DlPlaces, CancelClick, CloseModal, DownloadAnswers, TryAgain,
     RunUpdateInstall, InstallHashed, InstallSpawns, InstallStarted, InstallRefused,
     InstallerEnds, Spoil,
     WaitTimer, Quit, Crash, Updated, Starts, Publish, disk, main, vars
<1> QED
  BY UpdateInvariant, <1>1, PTL DEF Spec, DismissalKept
=============================================================================
