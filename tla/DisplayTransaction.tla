-------------------------- MODULE DisplayTransaction --------------------------
(* The durable side of a display change: the record the Pi's management service *)
(* keeps on disk, the client's protocol of BEGIN, COMMIT, RESTORE, RESTORED and *)
(* ACK with it, and what a fresh start makes of the record it finds.            *)
(*                                                                              *)
(* A client can be switched off between any two steps, a request or its answer  *)
(* can be lost, the service can die inside a commit.  These faults are counted. *)
(* The client's threads and the scheduling inside its live loop are LiveLoop's; *)
(* here a live step runs from one exchange with the Pi to the next.             *)
(*                                                                              *)
(* A profile is a mode with its fit, the calibrated rectangle: output geometry, *)
(* logical geometry and backend follow from the two.                            *)
EXTENDS Naturals

CONSTANTS
  Modes,             \* the catalogue of display modes
  Hires,             \* those whose logical desktop is the calibrated rectangle
  DefaultMode,       \* the compiled active_video_mode
  Fits,              \* calibrated rectangles
  Full,              \* the bypass of calibration
  None,              \* no mode, no fit, no profile
  MaxFaults          \* bound on crashes and lost messages

ASSUME DisplayTransactionAssumption ==
  /\ DefaultMode \in Modes /\ Hires \subseteq Modes /\ None \notin Modes
  /\ Full \in Fits /\ None \notin Fits /\ "fixed" \notin Fits
  /\ None \notin [mode : Modes, fit : Fits]
  /\ MaxFaults \in Nat

VARIABLES
  tx,                \* the Pi's transaction record
  startup, presets,  \* the Pi's configuration: startup_mode, [display.<mode>]
  control,           \* the state of the Pi's remote display control record
  desktop,           \* the size of the VNC server's desktop
  at,                \* where the client is
  forced,            \* force_screen_fit_calibration
  startup_confirmed, \* startup_confirmed_display_profile
  seen,              \* startup_display_transaction
  active,            \* the profile in force: active_video_mode, screen_fit_*
  previous,          \* display_confirm_previous_*, None when none is pending
  candidate,         \* candidate_profile
  remote,            \* remote_display_state; "FAILING" is RESTORING with an error
  ack,               \* display_restore_ack_visible
  kept,              \* history: the user pressed KEEP since the last BEGIN
  faults             \* faults so far

pi == <<tx, startup, presets>>
start == <<forced, startup_confirmed, seen>>
trial == <<previous, candidate>>
vars == <<tx, startup, presets, control, desktop, at, forced, startup_confirmed, seen,
          active, previous, candidate, remote, ack, kept, faults>>

Profiles == [mode : Modes, fit : Fits]
Profile(mode, fit) == [mode |-> mode, fit |-> fit]

\* ps2vnc_display_logical_desktop_size: a Standard mode has one desktop.
Logical(profile) ==
  IF profile.mode \in Hires THEN profile ELSE [profile EXCEPT !.fit = "fixed"]

Desktops == {Logical(profile) : profile \in Profiles}

Records ==
  [state : {"none", "provisional", "committing", "restoring", "restored"},
   previous : Profiles \cup {None}, candidate : Profiles \cup {None}]

NoTx == [state |-> "none", previous |-> None, candidate |-> None]

TypeOK ==
  /\ tx \in Records /\ seen \in Records
  /\ startup \in Modes /\ presets \in [Modes -> Fits \cup {None}]
  /\ control \in {"none", "PENDING", "SWITCHING", "ACTIVE_TEMP", "RESTORE_PENDING",
                  "RESTORING", "RESTORED", "FAILED"}
  /\ desktop \in Desktops
  /\ at \in {"off", "config", "preflight", "prepare", "apply", "connect", "fit",
             "finalize", "live", "begin", "switch", "commit", "restore", "rollback",
             "unmarked", "restored", "ack"}
  /\ forced \in BOOLEAN /\ ack \in BOOLEAN /\ kept \in BOOLEAN
  /\ startup_confirmed \in Profiles \cup {None}
  /\ active \in Profiles
  /\ previous \in Profiles \cup {None} /\ candidate \in Profiles \cup {None}
  /\ remote \in {"IDLE", "SWITCHING", "ACTIVE_TEMP", "RESTORING", "FAILING"}
  /\ faults \in 0 .. MaxFaults

Init ==
  /\ tx = NoTx /\ startup \in Modes /\ presets \in [Modes -> Fits \cup {None}]
  /\ control = "none"
  /\ desktop \in Desktops
  /\ at = "off" /\ forced = FALSE
  /\ startup_confirmed = None /\ seen = NoTx /\ active = Profile(DefaultMode, Full)
  /\ previous = None /\ candidate = None
  /\ remote = "IDLE" /\ ack = FALSE /\ kept = FALSE /\ faults = 0

Goto(place) == at' = place

Fault == faults < MaxFaults /\ faults' = faults + 1

\* Back in the system menu, or switched off: only the other machines remember.
Leave ==
  /\ Goto("off") /\ forced' = FALSE
  /\ startup_confirmed' = None /\ seen' = NoTx /\ active' = Profile(DefaultMode, Full)
  /\ previous' = None /\ candidate' = None /\ remote' = "IDLE" /\ ack' = FALSE

------------------------------------------------------------------------------
(* The Pi's management service.  One request is handled at a time.              *)

\* begin_display_transaction: repeating the open one is no error.
BeginAccepted ==
  /\ startup = active.mode
  /\ tx \in {NoTx, [state |-> "provisional", previous |-> active,
                    candidate |-> candidate]}

Begin ==
  /\ tx' = [state |-> "provisional", previous |-> active, candidate |-> candidate]
  /\ kept' = (kept /\ tx # NoTx)
  /\ UNCHANGED <<startup, presets>>

\* commit_display_transaction: three writes, any of which may be the last.
CommitAccepted == tx.state \in {"provisional", "committing"}

Commit ==
  /\ startup' = tx.candidate.mode /\ tx' = NoTx
  /\ UNCHANGED <<presets, kept>>

CommitBreaks ==
  /\ CommitAccepted /\ Fault
  /\ tx' = [tx EXCEPT !.state = "committing"]
  /\ startup' \in {startup, tx.candidate.mode}
  /\ UNCHANGED <<presets, kept>>

\* _transition_display_transaction.
Transition(from, to) ==
  /\ tx.state = from /\ tx' = [tx EXCEPT !.state = to]
  /\ UNCHANGED <<startup, presets, kept>>

\* acknowledge_display_transaction_restore.
Acknowledge ==
  /\ tx.state = "restored" /\ tx' = NoTx
  /\ UNCHANGED <<startup, presets, kept>>

\* reconcile_display_transaction, when the service starts again.
PiRestarts ==
  /\ tx.state = "committing"
  /\ Commit
  /\ UNCHANGED <<control, desktop, at, start, active, trial, remote, ack, faults>>

\* The client takes a request for accepted when it has read a status of 200.
Heard(accepted, request) == accepted /\ request /\ UNCHANGED faults

Unheard(accepted, request) ==
  \/ ~accepted /\ UNCHANGED <<pi, kept, faults>>
  \/ Fault /\ UNCHANGED <<pi, kept>>
  \/ Fault /\ accepted /\ request

\* POST /display, which is refused while a transaction is open.
Save(profile) ==
  \/ /\ tx = NoTx /\ presets' = [presets EXCEPT ![profile.mode] = profile.fit]
     /\ UNCHANGED faults
  \/ tx # NoTx /\ UNCHANGED <<presets, faults>>
  \/ tx = NoTx /\ Fault /\ UNCHANGED presets

\* A best-effort report to the operator.
Report(state) == control' \in {control, state}

------------------------------------------------------------------------------
(* A fresh start.                                                               *)

Start ==
  /\ at = "off" /\ Goto("config")
  /\ forced' \in BOOLEAN
  /\ UNCHANGED <<pi, control, desktop, startup_confirmed, seen, active, trial, remote, ack, kept,
                 faults>>

\* The confirmed profile is the startup mode's stored calibration.
LoadConfig ==
  /\ at = "config" /\ Goto("preflight")
  /\ \/ /\ active' = [active EXCEPT !.mode = startup]
        /\ presets[startup] = None /\ UNCHANGED <<startup_confirmed, faults>>
     \/ /\ presets[startup] # None
        /\ startup_confirmed' = Profile(startup, presets[startup])
        /\ active' = startup_confirmed' /\ UNCHANGED faults
     \/ Fault /\ UNCHANGED <<startup_confirmed, active>>
  /\ UNCHANGED <<pi, control, desktop, forced, seen, trial, remote, ack, kept>>

\* ps2vnc_display_transaction_select_startup_authority, by what the Pi holds.
AuthorityValid ==
  CASE tx.state = "none"       -> TRUE
    [] tx.state = "committing" -> startup_confirmed \in {None, tx.previous, tx.candidate}
    [] OTHER                   -> startup_confirmed = tx.previous

\* Fault: a start comes up in what was on trial.
AuthorityOnTrial ==
  CASE seen.state \in {"none", "restored"} -> startup_confirmed
    [] OTHER                              -> seen.candidate

Authority ==
  CASE seen.state = "none"       -> startup_confirmed
    [] seen.state = "committing" -> seen.candidate
    [] OTHER                     -> seen.previous

Preflight ==
  /\ at = "preflight"
  /\ \/ /\ AuthorityValid /\ Goto("prepare") /\ seen' = tx
        /\ UNCHANGED <<forced, startup_confirmed, active, trial, remote, ack, faults>>
     \/ ~AuthorityValid /\ Leave /\ UNCHANGED faults
     \/ Fault /\ Leave
  /\ UNCHANGED <<pi, control, desktop, kept>>

\* A candidate nobody kept is given up before anything is rebuilt.
Prepare ==
  /\ at = "prepare"
  /\ \/ /\ seen.state # "provisional" /\ Goto("apply")
        /\ UNCHANGED <<pi, kept, faults, start, active, trial, remote, ack>>
     \/ /\ seen.state = "provisional"
        /\ Heard(tx.state = "provisional", Transition("provisional", "restoring"))
        /\ Goto("apply") /\ seen' = [seen EXCEPT !.state = "restoring"]
        /\ UNCHANGED <<forced, startup_confirmed, active, trial, remote, ack>>
     \/ /\ seen.state = "provisional"
        /\ Unheard(tx.state = "provisional", Transition("provisional", "restoring"))
        /\ Leave
  /\ UNCHANGED <<control, desktop>>

\* Only an interrupted commit may find another profile configured, and then
\* the candidate's own calibration must be exactly the candidate.
Applicable ==
  \/ Authority = startup_confirmed
  \/ /\ seen.state = "committing" /\ startup_confirmed = seen.previous
     /\ presets[Authority.mode] = Authority.fit

Apply ==
  /\ at = "apply"
  /\ \/ /\ Applicable /\ Goto("connect")
        /\ active' = IF Authority = None THEN active ELSE Authority
        /\ UNCHANGED <<start, trial, remote, ack, faults>>
     \/ ~Applicable /\ Leave /\ UNCHANGED faults
     \/ Applicable /\ Authority # startup_confirmed /\ Fault /\ Leave
  /\ UNCHANGED <<pi, control, desktop, kept>>

\* The server may be at any size an interrupted run left it, and is resized.
Reconciled == desktop' = IF Authority = None THEN desktop ELSE Logical(Authority)

\* A failed resize may leave it at either size.
Unreconciled == desktop' = desktop \/ Reconciled

Connect ==
  /\ at = "connect"
  /\ \/ Reconciled /\ Goto("fit") /\ UNCHANGED <<start, active, trial, remote, ack, faults>>
     \/ Unreconciled /\ Fault /\ Leave
  /\ UNCHANGED <<pi, control, kept>>

\* run_screen_fit_calibration: X saves the rectangle, at a fresh start at once and later
\* when the display is rebuilt; Circle does not.
AcceptRectangle(fit) == active' = [active EXCEPT !.fit = fit] /\ Save(active')

Bypass == active' = [active EXCEPT !.fit = Full] /\ UNCHANGED <<presets, faults>>

Calibrated == (\E fit \in Fits : AcceptRectangle(fit)) \/ Bypass

\* display_live_desktop up to its loop.
Fit ==
  /\ at = "fit"
  /\ \/ /\ forced \/ startup_confirmed = None
        /\ Calibrated
     \/ /\ ~forced /\ startup_confirmed # None
        /\ UNCHANGED <<presets, active, faults>>
  /\ Goto("finalize") /\ forced' = FALSE
  /\ desktop' = Logical(active')
  /\ UNCHANGED <<tx, startup, control, startup_confirmed, seen, trial, remote, ack, kept>>

GoLive(modal) ==
  /\ Goto("live") /\ ack' = modal
  /\ UNCHANGED <<start, active, trial, remote>>

\* ps2vnc_startup_finalize_display_transaction.
Finalize ==
  /\ at = "finalize"
  /\ IF Authority \notin {None, active}
     THEN Leave /\ UNCHANGED <<pi, kept, faults>>
     ELSE \/ /\ seen.state \in {"none", "restored"}
             /\ GoLive(seen.state = "restored") /\ UNCHANGED <<pi, kept, faults>>
          \/ /\ seen.state = "committing"
             /\ \/ Heard(CommitAccepted, Commit) /\ GoLive(FALSE)
                \/ (Unheard(CommitAccepted, Commit) \/ CommitBreaks) /\ Leave
          \/ /\ seen.state = "restoring"
             /\ \/ /\ Heard(tx.state = "restoring", Transition("restoring", "restored"))
                   /\ GoLive(TRUE)
                \/ /\ Unheard(tx.state = "restoring", Transition("restoring", "restored"))
                   /\ Leave
  /\ UNCHANGED <<control, desktop>>

------------------------------------------------------------------------------
(* The live session.                                                            *)

Idle == at = "live" /\ previous = None /\ remote = "IDLE"

\* ps2vnc_run_runtime_calibration; a failure ends the client.
Calibrate ==
  /\ Idle /\ ~ack
  /\ \/ /\ Calibrated
        /\ desktop' = Logical(active')
        /\ UNCHANGED <<at, start, trial, remote, ack>>
     \/ Fault /\ Leave /\ UNCHANGED <<presets, desktop>>
  /\ UNCHANGED <<tx, startup, control, kept>>

\* The target must be another mode with a stored calibration.
Selectable(mode) == mode # active.mode /\ presets[mode] # None

Choose(mode) ==
  /\ candidate' = Profile(mode, presets[mode]) /\ Goto("begin")
  /\ UNCHANGED <<pi, desktop, start, active, previous, ack, kept, faults>>

SelectMode ==
  /\ Idle /\ ~ack
  /\ \E mode \in Modes : Selectable(mode) /\ Choose(mode)
  /\ UNCHANGED <<remote, control>>

\* The operator's request waits while anything else is going on, and is refused
\* if it names no mode that can be switched to.
RemoteSelect ==
  /\ Idle /\ control = "PENDING"
  /\ \/ /\ \E mode \in Modes : Selectable(mode) /\ Choose(mode)
        /\ remote' = "SWITCHING" /\ Report("SWITCHING")
     \/ /\ Report("FAILED")
        /\ UNCHANGED <<pi, desktop, at, start, active, trial, remote, ack, kept, faults>>

\* Fault: the switch begins without the Pi's answer.
BeginSwitchUnanswered ==
  /\ at = "begin" /\ Goto("switch") /\ previous' = active
  /\ Heard(BeginAccepted, Begin) \/ Unheard(BeginAccepted, Begin)
  /\ UNCHANGED <<candidate, remote, control, desktop, start, active, ack>>

\* The Pi's record first: only then is the display touched.
BeginSwitch ==
  /\ at = "begin"
  /\ \/ /\ Heard(BeginAccepted, Begin) /\ Goto("switch")
        /\ previous' = active /\ UNCHANGED <<candidate, remote, control>>
     \/ /\ Unheard(BeginAccepted, Begin) /\ Goto("live")
        /\ candidate' = None /\ remote' = "IDLE"
        /\ (remote # "IDLE" /\ Report("FAILED")) \/ (remote = "IDLE" /\ UNCHANGED control)
        /\ UNCHANGED previous
  /\ UNCHANGED <<desktop, start, active, ack>>

\* A failed switch leaves the server at either size.
Switch ==
  /\ at = "switch"
  /\ \/ /\ Goto("live") /\ active' = candidate /\ desktop' = Logical(candidate)
        /\ IF remote = "IDLE"
           THEN UNCHANGED <<remote, control>>
           ELSE remote' = "ACTIVE_TEMP" /\ Report("ACTIVE_TEMP")
     \/ /\ Goto("restore") /\ active' \in {active, candidate}
        /\ desktop' \in {desktop, Logical(candidate)}
        /\ remote' = (IF remote = "IDLE" THEN remote ELSE "FAILING")
        /\ UNCHANGED control
  /\ UNCHANGED <<pi, start, trial, ack, kept, faults>>

\* A candidate on lease is never offered for keeping.
PressKeep ==
  /\ at = "live" /\ previous # None /\ remote = "IDLE"
  /\ kept' = TRUE /\ Goto("commit")
  /\ UNCHANGED <<pi, control, desktop, start, active, trial, remote, ack, faults>>

\* Fault: whatever ends a trial keeps it.
GoBackKeeps ==
  /\ at = "live" /\ previous # None
  /\ Goto("commit")
  /\ UNCHANGED <<pi, control, desktop, start, active, trial, remote, ack, kept, faults>>

\* The user, the deadline, the lease, a failed transport, or the operator.
GoBack ==
  /\ at = "live" /\ previous # None
  /\ Goto("restore")
  /\ remote' = (IF remote = "IDLE" THEN remote ELSE "RESTORING")
  /\ (remote # "IDLE" /\ Report("RESTORING")) \/ (remote = "IDLE" /\ UNCHANGED control)
  /\ UNCHANGED <<pi, desktop, start, active, trial, ack, kept, faults>>

\* A commit the Pi has not confirmed gives the choice back to the user.
CommitTrial ==
  /\ at = "commit" /\ Goto("live")
  /\ \/ /\ Heard(CommitAccepted, Commit)
        /\ previous' = None /\ candidate' = None
     \/ /\ Unheard(CommitAccepted, Commit) \/ CommitBreaks
        /\ UNCHANGED trial
  /\ UNCHANGED <<control, desktop, start, active, remote, ack>>

\* The display goes back whether the Pi has heard of it or not.
Restore ==
  /\ at = "restore"
  /\ \/ /\ Heard(tx.state = "provisional", Transition("provisional", "restoring"))
        /\ Goto("rollback")
     \/ /\ Unheard(tx.state = "provisional", Transition("provisional", "restoring"))
        /\ Goto("unmarked")
  /\ (remote # "IDLE" /\ Report("RESTORING")) \/ (remote = "IDLE" /\ UNCHANGED control)
  /\ UNCHANGED <<desktop, start, active, trial, remote, ack>>

ReportFailure == (remote # "IDLE" /\ Report("FAILED")) \/ UNCHANGED control

\* Fault: the server's desktop stays at the candidate's size.
RollbackKeepsDesktop ==
  /\ at \in {"rollback", "unmarked"} /\ Goto("restored")
  /\ active' = previous /\ previous' = None /\ candidate' = None
  /\ UNCHANGED <<pi, desktop, start, remote, ack, control, kept, faults>>

\* A rollback the Pi was not told of, or that failed, ends the client.
Rollback ==
  /\ at \in {"rollback", "unmarked"}
  /\ \/ /\ at = "rollback" /\ Goto("restored")
        /\ active' = previous /\ desktop' = Logical(previous)
        /\ previous' = None /\ candidate' = None
        /\ UNCHANGED <<start, remote, ack, control, faults>>
     \/ /\ Leave /\ ReportFailure
        /\ desktop' \in {desktop, Logical(previous)}
        /\ (at = "unmarked" /\ UNCHANGED faults) \/ (at = "rollback" /\ Fault)
  /\ UNCHANGED <<pi, kept>>

\* Fault: the operator hears of the restoration before the acknowledgement.
MarkRestoredReports ==
  /\ at = "restored"
  /\ Heard(tx.state = "restoring", Transition("restoring", "restored"))
  /\ IF remote = "IDLE" THEN Goto("live") /\ ack' = TRUE /\ UNCHANGED control
                        ELSE Goto("ack") /\ UNCHANGED ack /\ Report("RESTORED")
  /\ UNCHANGED <<desktop, start, active, trial, remote>>

\* A local restoration is acknowledged by the user, a remote one at once.
MarkRestored ==
  /\ at = "restored"
  /\ \/ /\ Heard(tx.state = "restoring", Transition("restoring", "restored"))
        /\ IF remote = "IDLE" THEN Goto("live") /\ ack' = TRUE
                              ELSE Goto("ack") /\ UNCHANGED ack
        /\ UNCHANGED <<start, active, trial, remote, control>>
     \/ /\ Unheard(tx.state = "restoring", Transition("restoring", "restored"))
        /\ Leave /\ ReportFailure
  /\ UNCHANGED desktop

PressX ==
  /\ Idle /\ ack /\ Goto("ack")
  /\ UNCHANGED <<pi, control, desktop, start, active, trial, remote, ack, kept, faults>>

\* The modal goes away, or for a remote restoration does not appear, only with
\* the Pi's answer.
Ack ==
  /\ at = "ack" /\ Goto("live") /\ remote' = "IDLE"
  /\ \/ /\ Heard(tx.state = "restored", Acknowledge)
        /\ ack' = FALSE
        /\ CASE remote = "IDLE"      -> UNCHANGED control
             [] remote = "RESTORING" -> Report("RESTORED")
             [] remote = "FAILING"   -> Report("FAILED")
     \/ /\ Unheard(tx.state = "restored", Acknowledge)
        /\ ack' = TRUE /\ ReportFailure
  /\ UNCHANGED <<desktop, start, active, trial>>

\* Switched off, or an exit: at any moment.
Crash ==
  /\ at # "off" /\ Fault /\ Leave
  /\ UNCHANGED <<pi, control, desktop, kept>>

Exit ==
  /\ Idle /\ ~ack /\ Leave
  /\ UNCHANGED <<pi, control, desktop, kept, faults>>

------------------------------------------------------------------------------
(* The operator.                                                                *)

\* request_display_control and acknowledge_display_control.
OperatorActs ==
  /\ \/ /\ control \in {"none", "RESTORED", "FAILED"} /\ tx = NoTx /\ control' = "PENDING"
     \/ control = "ACTIVE_TEMP" /\ control' = "RESTORE_PENDING"
     \/ control = "RESTORED" /\ control' = "none"
  /\ UNCHANGED <<pi, desktop, at, start, active, trial, remote, ack, kept, faults>>

Client ==
  \/ Start \/ LoadConfig \/ Preflight \/ Prepare \/ Apply \/ Connect \/ Fit \/ Finalize
  \/ Calibrate \/ SelectMode \/ RemoteSelect \/ BeginSwitch \/ Switch
  \/ PressKeep \/ GoBack \/ CommitTrial \/ Restore \/ Rollback \/ MarkRestored
  \/ PressX \/ Ack

Next == Client \/ Crash \/ Exit \/ PiRestarts \/ OperatorActs

\* What the program does without its user.
Starting == LoadConfig \/ Preflight \/ Prepare \/ Apply \/ Connect \/ Fit \/ Finalize

Spec == Init /\ [][Next]_vars /\ WF_vars(Starting)

------------------------------------------------------------------------------
(* Properties.                                                                  *)

\* The Pi knows of every candidate the client shows, with the profile to go
\* back to, until it was told to keep it: whenever the client is cut off, the
\* next start finds in the record what it must rebuild.
RecordFirst ==
  previous # None =>
    \/ /\ tx.state \in {"provisional", "restoring", "committing"}
       /\ tx.previous = previous /\ tx.candidate = candidate
    \/ kept /\ tx = NoTx /\ startup = candidate.mode

\* A mode that was only tried, by the user or on lease, by a client that was
\* cut off or one that went back, is never what the next start comes up in.
Promise == INSTANCE DisplayAuthority WITH
  confirmed <- IF tx.state = "committing" THEN tx.candidate.mode ELSE startup,
  trial <- IF tx.state = "provisional" THEN tx.candidate.mode ELSE None
OnlyTheKeptIsConfirmed == Promise!Spec

\* Whatever an interrupted run left behind, a live session draws at the size the
\* server has, and with nothing on trial it shows the configured mode; unless
\* the service finished an interrupted KEEP between the two reads of the start.
LiveCoherent ==
  (at = "live") =>
    /\ desktop = Logical(active)
    /\ (previous = None /\ startup_confirmed # None) => active.mode = startup \/ kept

\* The operator hears of a restoration when the transaction is closed and the
\* display is back, not earlier.
OperatorToldTheTruth ==
  [][control' = "RESTORED" /\ control # "RESTORED" =>
       tx'.state = "none" /\ previous = None /\ active.mode = startup]_vars

\* A start that finds a transaction to undo, and meets no further fault, brings
\* the previous profile back and tells the Pi.
StartRestores ==
  ( /\ at = "preflight" /\ ~forced /\ faults = MaxFaults
    /\ tx.state \in {"provisional", "restoring", "restored"}
    /\ startup_confirmed = tx.previous )
  ~> (at = "live" /\ tx.state = "restored" /\ active = tx.previous)

\* "Persistent confirmed state must still describe complete A": what a start
\* finds in the Pi's configuration and its record can always be reconciled.
StartIsPossible ==
  at = "preflight" /\ startup_confirmed # None => AuthorityValid

\* What the user is asked to try again can still succeed.
RetryCanSucceed ==
  (at = "live") =>
    /\ ack => tx.state = "restored"
    /\ previous # None => tx.state \in {"provisional", "committing"}

===============================================================================
