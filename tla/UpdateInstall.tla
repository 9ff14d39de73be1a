----------------------------- MODULE UpdateInstall -----------------------------
(***************************************************************************)
(* "Check for updates" and "Update now": the handlers of the main process  *)
(* (electron/main.ts 540-1231, core/version.ts) and the dialog in the      *)
(* window (renderer/src/app.ts 848-1352).                                  *)
(*                                                                         *)
(* A version is a number; the release of that number has one installer,    *)
(* whose published fingerprint only the bytes "good" have.  A step runs    *)
(* from one await to the next.  A request reaches the main process at      *)
(* once; the answer to a download may be overtaken by clicks.              *)
(***************************************************************************)
EXTENDS Integers

CONSTANTS
    MaxVersion,  \* the newest release there will ever be; 0 runs at first
    MaxGo,       \* "Download and install" clicks in one session
    MaxInstall,  \* starts of an installer in one session
    Faults       \* what may fail on the disk without an error to the caller:
                 \* to "read" or "write" the last answer, to "unlink" a file

ASSUME UpdateAssumption ==
    /\ MaxVersion \in Nat \ {0} /\ MaxGo \in Nat /\ MaxInstall \in Nat
    /\ Faults \subseteq {"read", "write", "unlink"}

Bytes == {"none", "good", "bad"}
Partial == {"none", "part", "stuck"}
Version == 1 .. MaxVersion
Found == 0 .. MaxVersion        \* 0 where nothing is known
Go == 1 .. MaxGo
Install == 1 .. MaxInstall

VARIABLES
    current,    \* the version that runs
    published,  \* the newest release on GitHub
    stored,     \* the remembered answer: the release, the one dismissed
    file, part, \* the installers in the update folder, and the partial files,
                \* "stuck" when the last attempt to remove one has failed
    check,      \* checkForUpdates: where it is, what it read, what it found;
                \* blind is history: it could not see the dismissal
    hide,       \* updateDismiss: where it is, the release it read
    dl,         \* updateDl and the download it stands for
    verified,   \* updateVerified: the version, or 0
    running,    \* updateInstallerRunning
    install,    \* the calls of updateInstall; swapped is history: another
                \* program changed the file after the reading of it began
    ui,         \* the dialog; wish is history: the user's last word
    run         \* the calls of runUpdateNow that await their download

vars == <<current, published, stored, file, part, check, hide, dl, verified, running,
          install, ui, run>>
main == <<check, hide, dl, verified, running, install>>
disk == <<stored, file, part>>

-----------------------------------------------------------------------------
NoCheck == [pc |-> "no", dismissed |-> 0, found |-> 0, blind |-> FALSE]
NoHide == [pc |-> "no", latest |-> 0]
NoDl == [pc |-> "no", go |-> 0, v |-> 0, aborted |-> FALSE]
NoInstall == [pc |-> "no", v |-> 0, bytes |-> "none",
              swapped |-> FALSE]
InstallOver == [NoInstall EXCEPT !.pc = "over"]
NoRun == [pc |-> "no", current |-> FALSE]
RunOver == [NoRun EXCEPT !.pc = "over"]
Dialog == [phase |-> "result", open |-> FALSE, last |-> 0, cancelled |-> FALSE,
           timer |-> FALSE, closeOk |-> FALSE, wish |-> "none"]

NewSession ==
    /\ check' = NoCheck /\ hide' = NoHide /\ dl' = NoDl /\ verified' = 0 /\ running' = FALSE
    /\ install' = [i \in Install |-> NoInstall]
    /\ ui' = Dialog
    /\ run' = [g \in Go |-> NoRun]

Init ==
    /\ current = 0 /\ published = 0
    /\ stored = [latest |-> 0, dismissed |-> 0]
    /\ file = [v \in Version |-> "none"] /\ part = [v \in Version |-> "none"]
    /\ check = NoCheck /\ hide = NoHide /\ dl = NoDl /\ verified = 0 /\ running = FALSE
    /\ install = [i \in Install |-> NoInstall]
    /\ ui = Dialog
    /\ run = [g \in Go |-> NoRun]

IsNewerVersion(v) == v > current

(* A running installer cannot be deleted or changed. *)
IsRunning(i) == install[i].pc \in {"spawn", "running"}
InUse(v) == \E i \in Install : IsRunning(i) /\ install[i].v = v

(* A partial file after an unlink, of whose failure nobody hears. *)
Unlinked(p) == {"none"} \cup IF p # "none" /\ "unlink" \in Faults THEN {"stuck"} ELSE {}

(* clearUpdateDownloads: what it may leave of the installers, of the parts. *)
Cleared ==
    {f \in [Version -> Bytes] : \A v \in Version :
        \/ f[v] = "none" /\ ~InUse(v)
        \/ f[v] = file[v] /\ (InUse(v) \/ "unlink" \in Faults)}
ClearedParts(parts) ==
    {p \in [Version -> Partial] : \A v \in Version : p[v] \in Unlinked(parts[v])}

-----------------------------------------------------------------------------
(* The check.  The button is behind the dialog.  An answer that cannot be  *)
(* read counts as none (readUpdateState).                                  *)

CheckClick ==
    /\ ~ui.open /\ check.pc = "no"
    /\ \/ check' = [NoCheck EXCEPT !.pc = "ask", !.dismissed = stored.dismissed,
                                    !.blind = hide.pc # "no"]
       \/ "read" \in Faults /\ check' = [NoCheck EXCEPT !.pc = "ask", !.blind = TRUE]
    /\ UNCHANGED <<current, published, disk, hide, dl, verified, running, install,
                   ui, run>>

(* Offline, a refusal, ten seconds, or an answer that cannot be read. *)
CheckFails ==
    /\ check.pc = "ask"
    /\ check' = [NoCheck EXCEPT !.pc = "answer"]
    /\ UNCHANGED <<current, published, disk, hide, dl, verified, running, install,
                   ui, run>>

CheckLearns ==
    /\ check.pc = "ask" /\ published # 0
    /\ check' = [check EXCEPT !.pc = "write", !.found = published]
    /\ UNCHANGED <<current, published, disk, hide, dl, verified, running, install,
                   ui, run>>

(* writeUpdateState hides its errors. *)
CheckWrites ==
    /\ check.pc = "write"
    /\ check' = [NoCheck EXCEPT !.pc = "answer", !.found = check.found]
    /\ \/ stored' = [latest |-> check.found, dismissed |-> check.dismissed]
       \/ "write" \in Faults /\ UNCHANGED stored
    /\ UNCHANGED <<current, published, file, part, hide, dl, verified, running, install, ui, run>>

RenderUpdateResult(u) == [u EXCEPT !.phase = "result", !.open = TRUE]

CheckAnswers ==
    /\ check.pc = "answer"
    /\ check' = NoCheck
    /\ ui' = [RenderUpdateResult(ui) EXCEPT !.last = check.found]
    /\ run' = [g \in Go |-> [run[g] EXCEPT !.current = FALSE]]
    /\ UNCHANGED <<current, published, disk, hide, dl, verified, running, install>>

(* "Hide this reminder": updateDismiss reads, and nothing else is locked    *)
(* while it writes; its answer closes whatever the dialog shows by then.   *)
HideClick ==
    /\ ui.open /\ ui.phase = "result" /\ IsNewerVersion(ui.last) /\ hide.pc = "no"
    /\ hide' = [pc |-> "write", latest |-> stored.latest]
    /\ UNCHANGED <<current, published, disk, check, dl, verified, running, install,
                   ui, run>>

Abort == IF dl = NoDl THEN dl ELSE [dl EXCEPT !.aborted = TRUE]

(* closeUpdateModal, which a dialog that installs ignores. *)
MayClose == ui.phase \in {"install", "waiting"} => ui.closeOk
CloseUpdateModal ==
    IF ui.phase = "download"
    THEN /\ ui' = [ui EXCEPT !.open = FALSE, !.cancelled = TRUE, !.wish = "cancel"]
         /\ dl' = Abort
    ELSE /\ ui' = [ui EXCEPT !.open = FALSE]
         /\ UNCHANGED dl

HideWrites ==
    /\ hide.pc = "write"
    /\ hide' = NoHide
    /\ \/ hide.latest # 0 /\ stored' = [latest |-> hide.latest, dismissed |-> hide.latest]
       \/ hide.latest = 0 /\ UNCHANGED stored
       \/ Faults \cap {"read", "write"} # {} /\ UNCHANGED stored
    /\ IF MayClose THEN CloseUpdateModal ELSE UNCHANGED <<ui, dl>>
    /\ UNCHANGED <<current, published, file, part, check, verified, running, install, run>>

-----------------------------------------------------------------------------
(* The download *)

NowClick ==
    /\ ui.open /\ ui.phase = "result" /\ IsNewerVersion(ui.last)
    /\ ui' = [ui EXCEPT !.phase = "confirm"]
    /\ UNCHANGED <<current, published, disk, main, run>>

(* Claimed before the first await; refused while another is there. *)
GoClick(g) ==
    /\ ui.open /\ ui.phase = "confirm"
    /\ run[g] = NoRun /\ \A h \in 1 .. g - 1 : run[h] # NoRun
    /\ ui' = [ui EXCEPT !.phase = "download", !.cancelled = FALSE, !.wish = "go"]
    /\ IF dl # NoDl \/ running
       THEN /\ run' = [run EXCEPT ![g] = [pc |-> "refused", current |-> TRUE]]
            /\ UNCHANGED dl
       ELSE /\ run' = [run EXCEPT ![g] = [pc |-> "await", current |-> TRUE]]
            /\ dl' = [NoDl EXCEPT !.pc = "read", !.go = g]
    /\ UNCHANGED <<current, published, disk, check, hide, verified, running, install>>

Answer(pc) ==
    /\ dl' = NoDl
    /\ run' = [run EXCEPT ![dl.go].pc = pc]

(* What to download is what is stored by now. *)
DlReads ==
    /\ dl.pc = "read"
    /\ \/ /\ IsNewerVersion(stored.latest)
          /\ verified' = 0
          /\ dl' = [dl EXCEPT !.pc = "clear", !.v = stored.latest]
          /\ UNCHANGED run
       \/ /\ ~IsNewerVersion(stored.latest) \/ "read" \in Faults
          /\ Answer("refused") /\ UNCHANGED verified
    /\ UNCHANGED <<current, published, disk, check, hide, running, install, ui>>

(* The folder is cleared, the release asked for, the partial file created, *)
(* which must not be there.                                                *)
DlClears ==
    /\ dl.pc = "clear"
    /\ file' \in Cleared
    /\ \/ /\ part' \in ClearedParts(part)
          /\ dl' = [dl EXCEPT !.pc = "undo"]
       \/ /\ ~dl.aborted
          /\ \E p \in ClearedParts(part) :
                p[dl.v] = "none" /\ part' = [p EXCEPT ![dl.v] = "part"]
          /\ dl' = [dl EXCEPT !.pc = "body"]
    /\ UNCHANGED <<current, published, stored, check, hide, verified, running, install, ui, run>>

(* The body has ended and the file is closed. *)
DlBody ==
    /\ dl.pc = "body" /\ ~dl.aborted
    /\ dl' = [dl EXCEPT !.pc = "place"]
    /\ UNCHANGED <<current, published, disk, check, hide, verified, running, install,
                   ui, run>>

(* The network, the disk, the stall timer, the deadline, the abort. *)
DlFails ==
    /\ dl.pc = "body"
    /\ dl' = [dl EXCEPT !.pc = "undo"]
    /\ UNCHANGED <<current, published, disk, check, hide, verified, running, install,
                   ui, run>>

\* Mutant: the partial file stays for a later attempt to resume.
DlUndoKeeps ==
    /\ dl.pc = "undo"
    /\ Answer(IF dl.aborted THEN "cancelled" ELSE "failed")
    /\ UNCHANGED <<current, published, disk, check, hide, verified, running, install,
                   ui>>

(* Nobody hears of an unlink that fails. *)
DlUndo ==
    /\ dl.pc = "undo"
    /\ \E p \in Unlinked(part[dl.v]) : part' = [part EXCEPT ![dl.v] = p]
    /\ Answer(IF dl.aborted THEN "cancelled" ELSE "failed")
    /\ UNCHANGED <<current, published, stored, file, check, hide, verified, running, install, ui>>

(* Size and fingerprint agree or not; an abort comes too late here. *)
DlPlaces ==
    /\ dl.pc = "place"
    /\ \/ /\ dl' = [dl EXCEPT !.pc = "undo"]
          /\ UNCHANGED <<file, part, verified, run>>
       \/ /\ ~InUse(dl.v)
          /\ file' = [file EXCEPT ![dl.v] = "good"]
          /\ part' = [part EXCEPT ![dl.v] = "none"]
          /\ verified' = dl.v
          /\ Answer("ok")
    /\ UNCHANGED <<current, published, stored, check, hide, running, install, ui>>

CancelClick ==
    /\ ui.open
    /\ \/ /\ ui.phase = "download"
          /\ ui' = [ui EXCEPT !.cancelled = TRUE, !.wish = "cancel"]
          /\ dl' = Abort
       \/ /\ ui.phase = "confirm"
          /\ ui' = RenderUpdateResult(ui)
          /\ UNCHANGED dl
    /\ UNCHANGED <<current, published, disk, check, hide, verified, running, install,
                   run>>

CloseModal ==
    /\ ui.open /\ MayClose
    /\ CloseUpdateModal
    /\ UNCHANGED <<current, published, disk, check, hide, verified, running, install,
                   run>>

-----------------------------------------------------------------------------
(* The installation *)

StopUpdateWait(u) == [u EXCEPT !.timer = FALSE, !.closeOk = FALSE]
RenderUpdateFailure(u) == [StopUpdateWait(u) EXCEPT !.phase = "done"]

(* runUpdateInstall up to its await, with updateInstall in the main process *)
(* up to its own: the verified installer is taken, so nobody else can.      *)
RunUpdateInstall(i) ==
    /\ install[i] = NoInstall /\ \A j \in 1 .. i - 1 : install[j] # NoInstall
    /\ IF running \/ verified = 0
       THEN /\ ui' = RenderUpdateFailure(ui)
            /\ UNCHANGED <<install, verified>>
       ELSE /\ install' = [install EXCEPT ![i] = [pc |-> "hash", v |-> verified,
                               bytes |-> file[verified], swapped |-> FALSE]]
            /\ verified' = 0
            /\ ui' = [StopUpdateWait(ui) EXCEPT !.phase = "install", !.timer = TRUE]
    /\ UNCHANGED <<current, published, disk, check, hide, dl, running>>

\* Mutant: a download that beat the cancellation is installed.
CancelledIsOnly(g) == run[g].pc = "cancelled"

(* "A cancel wins even when the download beat it to the finish." *)
Cancelled(g) == run[g].pc = "cancelled" \/ ui.cancelled

\* Mutant: the result is shown again even if the dialog was closed.
ShowAgainAnyhow(g) == run[g].current

ShowAgain(g) == ui.open /\ run[g].current

DownloadAnswers(g) ==
    /\ run[g].pc \in {"ok", "failed", "cancelled", "refused"}
    /\ run' = [run EXCEPT ![g] = RunOver]
    /\ IF Cancelled(g)
       THEN /\ ui' = IF ShowAgain(g) THEN RenderUpdateResult(ui)
                                     ELSE [ui EXCEPT !.phase = "done"]
            /\ UNCHANGED <<current, published, disk, main>>
       ELSE IF run[g].pc = "ok"
       THEN \E i \in Install : RunUpdateInstall(i)
       ELSE /\ ui' = [ui EXCEPT !.phase = "done"]
            /\ UNCHANGED <<current, published, disk, main>>

(* "Try again", after the installer ended. *)
TryAgain(i) ==
    /\ ui.open /\ ui.phase = "ended"
    /\ RunUpdateInstall(i)
    /\ UNCHANGED run

(* The second fingerprint is of the bytes it began with, or of what has    *)
(* taken their place; nothing keeps the file from changing afterwards.     *)
InstallHashed(i) ==
    /\ install[i].pc = "hash"
    /\ \E b \in {install[i].bytes, file[install[i].v]} :
          install' = [install EXCEPT ![i].pc = "hashed", ![i].bytes = b]
    /\ UNCHANGED <<current, published, disk, check, hide, dl, verified, running, ui, run>>

\* Mutant: the file is not fingerprinted again.
MatchesAlways(i) == TRUE

Matches(i) == install[i].bytes = "good"

(* An installer that has changed is deleted; another is started, whatever  *)
(* its file holds by now, unless it has gone or the system refuses.        *)
InstallSpawns(i) ==
    /\ install[i].pc = "hashed"
    /\ IF Matches(i)
       THEN /\ \/ /\ file[install[i].v] # "none"
                  /\ install' = [install EXCEPT ![i].pc = "spawn"]
               \/ install' = [install EXCEPT ![i].pc = "refused"]
            /\ UNCHANGED <<file, ui>>
       ELSE /\ \/ file' = [file EXCEPT ![install[i].v] = IF InUse(install[i].v) THEN @ ELSE "none"]
               \/ "unlink" \in Faults /\ UNCHANGED file
            /\ install' = [install EXCEPT ![i] = InstallOver]
            /\ ui' = RenderUpdateFailure(ui)
    /\ UNCHANGED <<current, published, stored, part, check, hide, dl, verified, running, run>>

InstallStarted(i) ==
    /\ install[i].pc = "spawn"
    /\ install' = [install EXCEPT ![i].pc = "running"]
    /\ running' = TRUE
    /\ ui' = IF ui.phase = "install" THEN [ui EXCEPT !.phase = "waiting"] ELSE ui
    /\ UNCHANGED <<current, published, disk, check, hide, dl, verified, run>>

InstallRefused(i) ==
    /\ install[i].pc = "refused"
    /\ install' = [install EXCEPT ![i] = InstallOver]
    /\ verified' = install[i].v
    /\ ui' = RenderUpdateFailure(ui)
    /\ UNCHANGED <<current, published, disk, check, hide, dl, running, run>>

(* The installer ends without updating: permission was refused. *)
InstallerEnds(i) ==
    /\ install[i].pc = "running"
    /\ install' = [install EXCEPT ![i] = InstallOver]
    /\ running' = FALSE
    /\ verified' = install[i].v
    /\ ui' = IF ui.phase \in {"install", "waiting"}
             THEN [StopUpdateWait(ui) EXCEPT !.phase = "ended", !.open = TRUE]
             ELSE ui
    /\ UNCHANGED <<current, published, disk, check, hide, dl, run>>

\* Mutant: the timer is only for a dialog that already waits for Windows.
WaitTimerLate ==
    /\ ui.timer
    /\ ui' = [ui EXCEPT !.timer = FALSE, !.closeOk = ui.phase = "waiting"]
    /\ UNCHANGED <<current, published, disk, main, run>>

(* Fifteen seconds: the dialog may be closed. *)
WaitTimer ==
    /\ ui.timer
    /\ ui' = [ui EXCEPT !.timer = FALSE,
                        !.closeOk = @ \/ ui.phase \in {"install", "waiting"}]
    /\ UNCHANGED <<current, published, disk, main, run>>

-----------------------------------------------------------------------------
(* Starting again: the housekeeping clears the folder once the running     *)
(* version has caught up, or nothing can be read.  will-quit removes the   *)
(* partial file if it can, a crash or the installer's hard stop does not.  *)
Starts(v, parts) ==
    /\ current' = v
    /\ NewSession
    /\ \/ stored.latest > v /\ part' = parts /\ UNCHANGED file
       \/ /\ stored.latest <= v \/ "read" \in Faults
          /\ part' \in ClearedParts(parts)
          /\ file' \in Cleared \cup {[w \in Version |-> "none"]}
    /\ UNCHANGED <<published, stored>>

Quit ==
    IF dl.v = 0 THEN Starts(current, part)
    ELSE \E p \in Unlinked(part[dl.v]) : Starts(current, [part EXCEPT ![dl.v] = p])

Crash == Starts(current, part)

Updated(i) ==
    /\ IsRunning(i)
    /\ Starts(install[i].v, part)

Publish ==
    /\ published < MaxVersion
    /\ published' = published + 1
    /\ UNCHANGED <<current, disk, main, ui, run>>

(* The disk, or another program, changes an installer: at any time, but    *)
(* not while it runs, when Windows keeps it.                               *)
Spoil(v) ==
    /\ file[v] = "good" /\ ~InUse(v)
    /\ file' = [file EXCEPT ![v] = "bad"]
    /\ install' = [i \in Install |->
          IF install[i].v = v /\ install[i].pc \in {"hash", "hashed"}
          THEN [install[i] EXCEPT !.swapped = TRUE] ELSE install[i]]
    /\ UNCHANGED <<current, published, stored, part, check, hide, dl, verified, running, ui, run>>

-----------------------------------------------------------------------------
Checking == CheckFails \/ CheckLearns \/ CheckWrites \/ CheckAnswers \/ HideWrites

Downloading ==
    \/ DlReads \/ DlClears \/ DlBody \/ DlFails \/ DlUndo \/ DlPlaces
    \/ \E g \in Go : DownloadAnswers(g)

Installing ==
    \E i \in Install :
        \/ InstallHashed(i) \/ InstallSpawns(i) \/ InstallStarted(i)
        \/ InstallRefused(i) \/ InstallerEnds(i) \/ Updated(i)

User ==
    \/ CheckClick \/ HideClick \/ NowClick \/ CancelClick \/ CloseModal
    \/ \E g \in Go : GoClick(g)
    \/ \E i \in Install : TryAgain(i)

Next ==
    \/ User \/ Checking \/ Downloading \/ Installing
    \/ WaitTimer
    \/ Quit \/ Crash \/ Publish
    \/ \E v \in Version : Spoil(v)

Spec == Init /\ [][Next]_vars /\ WF_vars(WaitTimer)

-----------------------------------------------------------------------------
(* Properties *)

Checks == [pc : {"no", "ask", "write", "answer"}, dismissed : Found, found : Found,
           blind : BOOLEAN]
Hides == [pc : {"no", "write"}, latest : Found]
Downloads == [pc : {"no", "read", "clear", "body", "place", "undo"},
              go : Go \cup {0}, v : Found, aborted : BOOLEAN]
Installs == [pc : {"no", "over", "hash", "hashed", "spawn", "refused", "running"},
             v : Found, bytes : Bytes, swapped : BOOLEAN]
Dialogs == [phase : {"result", "confirm", "download", "install", "waiting", "ended", "done"},
            open : BOOLEAN, last : Found, cancelled : BOOLEAN, timer : BOOLEAN,
            closeOk : BOOLEAN, wish : {"none", "go", "cancel"}]
Runs == [pc : {"no", "over", "await", "ok", "failed", "cancelled", "refused"},
         current : BOOLEAN]

TypeOK ==
    /\ current \in Found /\ published \in Found
    /\ stored \in [latest : Found, dismissed : Found]
    /\ file \in [Version -> Bytes] /\ part \in [Version -> Partial]
    /\ check \in Checks /\ hide \in Hides
    /\ dl \in Downloads
    /\ verified \in Found /\ running \in BOOLEAN
    /\ install \in [Install -> Installs]
    /\ ui \in Dialogs
    /\ run \in [Go -> Runs]

(* "What runs is exactly what was checked" (main.ts 1166): whatever is     *)
(* downloaded, removed, cancelled or tried again meanwhile, no installer   *)
(* is started with other bytes than the published, unless another program  *)
(* changed the file after this start had begun to fingerprint it.          *)
OnlyVerifiedRuns ==
    \A i \in Install : IsRunning(i) =>
        file[install[i].v] = "good" \/ install[i].swapped

(* The words themselves, which the moment between the fingerprint and the  *)
(* start refutes.                                                          *)
CheckedRuns == \A i \in Install : IsRunning(i) => file[install[i].v] = "good"

(* "Download cancelled. Nothing was installed.": while the user's last     *)
(* word is to cancel, no start of an installer begins.                     *)
CancelWins ==
    [][\A i \in Install : install[i].pc = "no" /\ install'[i].pc = "hash"
          => ui.wish = "go"]_vars

(* "A file that was not verified is deleted" (main.ts 807): when a download *)
(* has its answer, no part of it or of an earlier one is left in the       *)
(* folder, but those that could not be removed.                            *)
PartGone ==
    [][\A g \in Go : run[g].pc = "await" /\ run'[g].pc \in {"ok", "failed", "cancelled"}
          => \A v \in Version : part'[v] # "part"]_vars

(* "The tag they dismissed stays dismissed" (main.ts 741): no check puts   *)
(* back an older dismissal, unless its read failed or came before a        *)
(* dismissal was written.                                                  *)
DismissalKept ==
    [][~(check.pc = "write" /\ check.blind) => stored'.dismissed >= stored.dismissed]_vars

(* The words themselves, which such a check refutes. *)
NeverForgotten == [][stored'.dismissed >= stored.dismissed]_vars

(* "Whatever main or Windows do, a Close button turns up" (app.ts 1256).   *)
NeverStranded ==
    ui.open /\ ui.phase \in {"install", "waiting"}
        ~> ~ui.open \/ ui.closeOk \/ ui.phase \notin {"install", "waiting"}

(* "Update now installs exactly the version the modal named" (main.ts 570) *)
NamedVersion ==
    \A i \in Install : IsRunning(i) /\ ui.phase = "waiting" => install[i].v = ui.last
=============================================================================
