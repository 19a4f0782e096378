----------------------- MODULE DisplayTransactionProofs -----------------------
(* Theorems of DisplayTransaction, for every catalogue of modes, every set of   *)
(* calibrated rectangles and every number of faults: what the Pi's record holds *)
(* while a candidate is shown, what a start may come up in, and what the        *)
(* operator may believe.                                                        *)
EXTENDS DisplayTransaction, TLAPS

\* Where a client starts, has a candidate, and draws.
StartPlaces == {"prepare", "apply", "connect", "fit", "finalize"}
TrialPlaces == {"switch", "commit", "restore", "rollback", "unmarked"}
DrawnPlaces == {"finalize", "live", "begin", "switch", "commit", "restored", "ack"}

\* An open record names two profiles; without one there is nothing left of the last.
RecordShaped ==
  IF tx.state = "none" THEN tx = NoTx
  ELSE tx.previous \in Profiles /\ tx.candidate \in Profiles

\* Where the client has a profile to go back to.
TrialPlaced ==
  /\ at \notin TrialPlaces \cup {"live"} => previous = None
  /\ at \in TrialPlaces => previous # None
  /\ previous # None => candidate \in Profiles
  /\ at = "begin" => candidate \in Profiles /\ candidate.mode # active.mode

\* A remote candidate that goes back is no longer on lease.
RemotePlaced ==
  at \in {"restore", "rollback", "unmarked", "restored", "ack"} =>
    remote \in {"IDLE", "RESTORING", "FAILING"}

\* A commit is under way only of what the user has kept.
CommitIsKept == (at = "commit" \/ tx.state = "committing") => kept

\* Until the commit the configuration is the previous profile's.
RecordConfigured ==
  tx.state \in {"provisional", "restoring", "restored"} => startup = tx.previous.mode

\* What the Pi has heard of a restoration, at each of its steps.
RestorationRecorded ==
  /\ at \in {"rollback", "restored"} => tx.state = "restoring"
  /\ at = "restored" => active = tx.previous
  /\ (at = "ack" /\ remote # "IDLE") => tx.state = "restored" /\ active = tx.previous

\* A start that found an interrupted commit still has it before it, or done.
SeenIsRecord ==
  (at \in StartPlaces /\ seen.state = "committing") => tx.state \in {"committing", "none"} /\ kept

\* Every profile that counts as confirmed is configured, or the user has kept another.
ConfirmedConfigured ==
  /\ at \in {"off", "config"} => startup_confirmed = None
  /\ (startup_confirmed # None /\ at \in StartPlaces \cup {"preflight"}) =>
       startup_confirmed.mode = startup \/ kept
  /\ (startup_confirmed # None /\ previous = None) => active.mode = startup \/ kept
  /\ previous # None => previous.mode = startup \/ kept

\* The desktop has the size of the profile in force, wherever something is drawn.
DesktopDrawn == at \in DrawnPlaces => desktop = Logical(active)

\* The inductive invariant.
Inv ==
  /\ TypeOK /\ RecordShaped /\ TrialPlaced /\ RemotePlaced /\ CommitIsKept /\ RecordFirst
  /\ RecordConfigured /\ RestorationRecorded /\ SeenIsRecord /\ ConfirmedConfigured
  /\ DesktopDrawn

\* The type invariant in two parts: what the Pi and the server have, and the client.
KeptTyped ==
  /\ tx \in Records /\ startup \in Modes /\ presets \in [Modes -> Fits \cup {None}]
  /\ control \in {"none", "PENDING", "SWITCHING", "ACTIVE_TEMP", "RESTORE_PENDING",
                  "RESTORING", "RESTORED", "FAILED"}
  /\ desktop \in Desktops /\ kept \in BOOLEAN /\ faults \in 0 .. MaxFaults

ClientTyped ==
  /\ at \in {"off", "config", "preflight", "prepare", "apply", "connect", "fit",
             "finalize", "live", "begin", "switch", "commit", "restore", "rollback",
             "unmarked", "restored", "ack"}
  /\ seen \in Records /\ forced \in BOOLEAN /\ ack \in BOOLEAN
  /\ startup_confirmed \in Profiles \cup {None} /\ active \in Profiles
  /\ previous \in Profiles \cup {None} /\ candidate \in Profiles \cup {None}
  /\ remote \in {"IDLE", "SWITCHING", "ACTIVE_TEMP", "RESTORING", "FAILING"}

LEMMA TypesSplit == (TypeOK <=> KeptTyped /\ ClientTyped) /\ (TypeOK' <=> KeptTyped' /\ ClientTyped')
  BY DEF TypeOK, KeptTyped, ClientTyped

\* Every profile has its desktop; no record and the profile at the start are proper ones.
LEMMA LogicalTyped == \A profile \in Profiles : Logical(profile) \in Desktops
  BY DEF Desktops

LEMMA NoTxTyped == NoTx \in Records
  BY DEF NoTx, Records

LEMMA StartTyped == Profile(DefaultMode, Full) \in Profiles
  BY DisplayTransactionAssumption DEF Profile, Profiles

\* Whatever the client forgets, it forgets to values of the right kind.
LEMMA LeaveTyped ==
  ASSUME Leave
  PROVE  /\ at' = "off" /\ forced' = FALSE /\ ack' = FALSE /\ remote' = "IDLE"
         /\ startup_confirmed' = None /\ seen' \in Records /\ active' \in Profiles
         /\ previous' = None /\ candidate' = None
  BY NoTxTyped, StartTyped DEF Leave, Goto

\* A fault is counted within its bound.
LEMMA FaultTyped ==
  ASSUME faults \in 0 .. MaxFaults, Fault
  PROVE  faults' \in 0 .. MaxFaults
  BY DisplayTransactionAssumption DEF Fault

\* A record changes its state, and nothing else, or goes.
LEMMA StateTyped ==
  ASSUME NEW record \in Records,
         NEW state \in {"none", "provisional", "committing", "restoring", "restored"}
  PROVE  [record EXCEPT !.state = state] \in Records
  BY DEF Records

\* A transition keeps the profiles of the record.
LEMMA TransitionTyped ==
  ASSUME tx \in Records, NEW from, NEW to \in {"restoring", "restored"}, Transition(from, to)
  PROVE  /\ tx.state = from /\ tx' \in Records /\ tx'.state = to
         /\ tx'.previous = tx.previous /\ tx'.candidate = tx.candidate
  BY StateTyped DEF Transition, Records

\* A commit configures a mode of the catalogue, however far it comes.
LEMMA CommitTyped ==
  ASSUME tx \in Records, RecordShaped, CommitAccepted, startup \in Modes,
         Commit \/ CommitBreaks
  PROVE  tx' \in Records /\ startup' \in Modes
<1>1. tx.candidate.mode \in Modes
  BY DEF RecordShaped, CommitAccepted, Profiles
<1> QED
  BY <1>1, NoTxTyped, StateTyped DEF Commit, CommitBreaks

\* What a commit leaves: no record, or one that says how far it came.
LEMMA CommitRecord ==
  ASSUME tx \in Records, CommitAccepted, Commit \/ CommitBreaks
  PROVE  \/ tx' = NoTx /\ startup' = tx.candidate.mode
         \/ /\ tx'.state = "committing" /\ startup' \in {startup, tx.candidate.mode}
            /\ tx'.previous = tx.previous /\ tx'.candidate = tx.candidate
  BY DEF Commit, CommitBreaks, CommitAccepted, Records

\* Every step of the client, the service and the operator keeps the invariant.
LEMMA InvStep == Inv /\ [Next]_vars => Inv'
<1> SUFFICES ASSUME Inv, [Next]_vars PROVE Inv'
  OBVIOUS
<1> USE DEF Inv
<1>1. CASE Start
  <2>1. TypeOK'
    BY <1>1 DEF Start, TypeOK, Goto, pi, trial
  <2>2. TrialPlaced' /\ RemotePlaced'
    BY <1>1 DEF Start, Goto, TrialPlaced, RemotePlaced, trial, TrialPlaces
  <2>3. RecordShaped' /\ CommitIsKept' /\ RecordFirst' /\ RecordConfigured' /\ RestorationRecorded'
    BY <1>1 DEF Start, Goto, RecordShaped, CommitIsKept, RecordFirst, RecordConfigured,
       RestorationRecorded, pi, trial
  <2>4. SeenIsRecord' /\ ConfirmedConfigured'
    BY <1>1 DEF Start, Goto, SeenIsRecord, ConfirmedConfigured, pi, trial, StartPlaces
  <2>5. DesktopDrawn'
    BY <1>1 DEF Start, Goto, DesktopDrawn, DrawnPlaces
  <2> QED BY <2>1, <2>2, <2>3, <2>4, <2>5
<1>2. CASE LoadConfig
  <2>1. TypeOK'
    BY <1>2, FaultTyped DEF LoadConfig, TypeOK, Goto, Profile, pi, trial, Profiles
  <2>2. TrialPlaced' /\ RemotePlaced'
    BY <1>2 DEF LoadConfig, Goto, TrialPlaced, RemotePlaced, trial, TrialPlaces
  <2>3. RecordShaped' /\ CommitIsKept' /\ RecordFirst' /\ RecordConfigured' /\ RestorationRecorded'
    BY <1>2 DEF LoadConfig, Goto, RecordShaped, CommitIsKept, RecordFirst, RecordConfigured,
       RestorationRecorded, pi, trial
  <2>4. SeenIsRecord' /\ ConfirmedConfigured'
    BY <1>2 DEF LoadConfig, Goto, Profile, SeenIsRecord, ConfirmedConfigured, pi, trial,
       StartPlaces
  <2>5. DesktopDrawn'
    BY <1>2 DEF LoadConfig, Goto, DesktopDrawn, DrawnPlaces
  <2> QED BY <2>1, <2>2, <2>3, <2>4, <2>5
<1>3. CASE Preflight
  <2>1. TypeOK'
    <3>1. KeptTyped'
      BY <1>3, FaultTyped, TypesSplit DEF Preflight, KeptTyped, pi
    <3>2. ClientTyped'
      BY <1>3, LeaveTyped, TypesSplit DEF Preflight, KeptTyped, ClientTyped, Goto, trial
    <3>3. QED
      BY <3>1, <3>2, TypesSplit
  <2>2. TrialPlaced' /\ RemotePlaced'
    BY <1>3 DEF Preflight, Goto, Leave, TrialPlaced, RemotePlaced, trial, TrialPlaces
  <2>3. RecordShaped' /\ CommitIsKept' /\ RecordFirst' /\ RecordConfigured' /\ RestorationRecorded'
    BY <1>3 DEF Preflight, Goto, Leave, RecordShaped, CommitIsKept, RecordFirst, RecordConfigured,
       RestorationRecorded, pi, trial
  <2>4. SeenIsRecord' /\ ConfirmedConfigured'
    BY <1>3 DEF Preflight, Goto, Leave, CommitIsKept, SeenIsRecord, ConfirmedConfigured, pi,
       trial, StartPlaces
  <2>5. DesktopDrawn'
    BY <1>3 DEF Preflight, Goto, Leave, DesktopDrawn, DrawnPlaces
  <2> QED BY <2>1, <2>2, <2>3, <2>4, <2>5
<1>4. CASE Prepare
  <2>1. tx' \in Records
    BY <1>4, TransitionTyped DEF Prepare, TypeOK, pi, Heard, Unheard
  <2>2. seen' \in Records
    BY <1>4, <2>1, LeaveTyped, StateTyped DEF Prepare, TypeOK, start
  <2>3. TypeOK'
    <3>1. KeptTyped'
      BY <1>4, <2>1, <2>2, LeaveTyped, FaultTyped, TypesSplit DEF Prepare, KeptTyped, pi, Goto,
         Heard, Unheard, Transition
    <3>2. ClientTyped'
      BY <1>4, <2>1, <2>2, LeaveTyped, FaultTyped, TypesSplit DEF Prepare, ClientTyped, pi,
         start, trial, Goto, Heard, Unheard, Transition
    <3>3. QED
      BY <3>1, <3>2, TypesSplit
  <2>4. TrialPlaced' /\ RemotePlaced'
    BY <1>4 DEF Prepare, Goto, Leave, TrialPlaced, RemotePlaced, trial, TrialPlaces
  <2>5. RecordShaped' /\ CommitIsKept' /\ RecordFirst' /\ RecordConfigured' /\ RestorationRecorded'
    BY <1>4 DEF Prepare, Goto, Leave, Heard, Unheard, Transition, TypeOK, RecordShaped,
       CommitIsKept, RecordFirst, RecordConfigured, RestorationRecorded, pi, trial, NoTx, Records
  <2>6. SeenIsRecord' /\ ConfirmedConfigured'
    BY <1>4 DEF Prepare, Goto, Leave, Heard, Unheard, Transition, TypeOK, SeenIsRecord,
       ConfirmedConfigured, pi, start, trial, StartPlaces, Records
  <2>7. DesktopDrawn'
    BY <1>4 DEF Prepare, Goto, Leave, DesktopDrawn, DrawnPlaces
  <2> QED BY <2>3, <2>4, <2>5, <2>6, <2>7
<1>5. CASE Apply
  <2>1. active' \in Profiles
    BY <1>5, LeaveTyped DEF Apply, TypeOK, Authority, Records
  <2>2. TypeOK'
    <3>1. KeptTyped'
      BY <1>5, <2>1, LeaveTyped, FaultTyped, TypesSplit DEF Apply, KeptTyped, pi, Goto
    <3>2. ClientTyped'
      BY <1>5, <2>1, LeaveTyped, FaultTyped, TypesSplit DEF Apply, ClientTyped, pi, start,
         trial, Goto
    <3>3. QED
      BY <3>1, <3>2, TypesSplit
  <2>3. TrialPlaced' /\ RemotePlaced'
    BY <1>5 DEF Apply, Goto, Leave, TrialPlaced, RemotePlaced, trial, TrialPlaces
  <2>4. RecordShaped' /\ CommitIsKept' /\ RecordFirst' /\ RecordConfigured' /\ RestorationRecorded'
    BY <1>5 DEF Apply, Goto, Leave, RecordShaped, CommitIsKept, RecordFirst, RecordConfigured,
       RestorationRecorded, pi, trial
  <2>5. SeenIsRecord' /\ ConfirmedConfigured'
    BY <1>5 DEF Apply, Goto, Leave, Applicable, SeenIsRecord, ConfirmedConfigured, pi, start,
       trial, StartPlaces
  <2>6. DesktopDrawn'
    BY <1>5 DEF Apply, Goto, Leave, DesktopDrawn, DrawnPlaces
  <2> QED BY <2>2, <2>3, <2>4, <2>5, <2>6
<1>6. CASE Connect
  <2>1. Authority # None => Authority \in Profiles
    BY <1>6 DEF TypeOK, Authority, Records
  <2>2. desktop' \in Desktops
    BY <1>6, <2>1, LogicalTyped DEF Connect, TypeOK, Reconciled, Unreconciled
  <2>3. TypeOK'
    <3>1. KeptTyped'
      BY <1>6, <2>1, <2>2, LeaveTyped, FaultTyped, TypesSplit DEF Connect, KeptTyped, pi, Goto
    <3>2. ClientTyped'
      BY <1>6, <2>1, <2>2, LeaveTyped, FaultTyped, TypesSplit DEF Connect, ClientTyped, pi,
         start, trial, Goto
    <3>3. QED
      BY <3>1, <3>2, TypesSplit
  <2>4. TrialPlaced' /\ RemotePlaced'
    BY <1>6 DEF Connect, Goto, Leave, TrialPlaced, RemotePlaced, trial, TrialPlaces
  <2>5. RecordShaped' /\ CommitIsKept' /\ RecordFirst' /\ RecordConfigured' /\ RestorationRecorded'
    BY <1>6 DEF Connect, Goto, Leave, RecordShaped, CommitIsKept, RecordFirst, RecordConfigured,
       RestorationRecorded, pi, trial
  <2>6. SeenIsRecord' /\ ConfirmedConfigured'
    BY <1>6 DEF Connect, Goto, Leave, SeenIsRecord, ConfirmedConfigured, pi, start, trial,
       StartPlaces
  <2>7. DesktopDrawn'
    BY <1>6 DEF Connect, Goto, Leave, DesktopDrawn, DrawnPlaces
  <2> QED BY <2>3, <2>4, <2>5, <2>6, <2>7
<1>7. CASE Fit
  <2>1. \A fit \in Fits : [active EXCEPT !.fit = fit] \in Profiles
    BY <1>7 DEF TypeOK, Profiles
  <2>2. active' \in Profiles
    BY <1>7, <2>1, DisplayTransactionAssumption DEF Fit, TypeOK, Calibrated, AcceptRectangle,
       Bypass
  <2>3. presets' \in [Modes -> Fits \cup {None}]
    BY <1>7 DEF Fit, TypeOK, Calibrated, AcceptRectangle, Bypass, Save, Profiles
  <2>4. faults' \in 0 .. MaxFaults
    BY <1>7, FaultTyped DEF Fit, TypeOK, Calibrated, AcceptRectangle, Bypass, Save
  <2>5. TypeOK'
    <3>1. KeptTyped'
      BY <1>7, <2>1, <2>2, <2>3, <2>4, LogicalTyped, TypesSplit DEF Fit, KeptTyped, pi, Goto
    <3>2. ClientTyped'
      BY <1>7, <2>1, <2>2, <2>3, <2>4, LogicalTyped, TypesSplit DEF Fit, ClientTyped, pi,
         start, trial, Goto
    <3>3. QED
      BY <3>1, <3>2, TypesSplit
  <2>6. TrialPlaced' /\ RemotePlaced'
    BY <1>7 DEF Fit, Goto, TrialPlaced, RemotePlaced, trial, TrialPlaces
  <2>7. RecordShaped' /\ CommitIsKept' /\ RecordFirst' /\ RecordConfigured' /\ RestorationRecorded'
    BY <1>7 DEF Fit, Goto, RecordShaped, CommitIsKept, RecordFirst, RecordConfigured,
       RestorationRecorded, trial
  <2>8. SeenIsRecord' /\ ConfirmedConfigured'
    BY <1>7 DEF Fit, Goto, Calibrated, AcceptRectangle, Bypass, TypeOK, SeenIsRecord,
       ConfirmedConfigured, trial, StartPlaces, Profiles
  <2>9. DesktopDrawn'
    BY <1>7 DEF Fit, DesktopDrawn
  <2> QED BY <2>5, <2>6, <2>7, <2>8, <2>9
<1>8. CASE Finalize
  <2>1. tx' \in Records /\ startup' \in Modes
    BY <1>8, TransitionTyped, CommitTyped DEF Finalize, TypeOK, pi, Heard, Unheard, CommitBreaks,
       Transition
  <2>2. presets' = presets /\ kept' = kept
    BY <1>8, <2>1 DEF Finalize, pi, Heard, Unheard, Transition, Commit, CommitBreaks
  <2>3. faults' \in 0 .. MaxFaults
    BY <1>8, <2>1, <2>2, FaultTyped DEF Finalize, TypeOK, Heard, Unheard, CommitBreaks
  <2>4. TypeOK'
    BY <1>8, <2>1, <2>2, <2>3, LeaveTyped DEF Finalize, TypeOK, GoLive, Goto, start, trial
  <2>5. TrialPlaced' /\ RemotePlaced'
    BY <1>8 DEF Finalize, Goto, Leave, GoLive, TrialPlaced, RemotePlaced, trial, TrialPlaces
  <2>6. RecordShaped' /\ CommitIsKept' /\ RecordFirst' /\ RecordConfigured' /\ RestorationRecorded'
    BY <1>8 DEF Finalize, Goto, Leave, GoLive, Heard, Unheard, Transition, Commit, CommitBreaks,
       CommitAccepted, TypeOK, RecordShaped, TrialPlaced, CommitIsKept, RecordFirst,
       RecordConfigured, RestorationRecorded, SeenIsRecord, pi, trial, StartPlaces, TrialPlaces,
       NoTx, Records
  <2>7. SeenIsRecord' /\ ConfirmedConfigured'
    BY <1>8 DEF Finalize, Goto, Leave, GoLive, Heard, Unheard, Transition, Commit, SeenIsRecord,
       ConfirmedConfigured, pi, start, trial, StartPlaces
  <2>8. DesktopDrawn'
    BY <1>8 DEF Finalize, Goto, Leave, GoLive, DesktopDrawn, DrawnPlaces
  <2> QED BY <2>4, <2>5, <2>6, <2>7, <2>8
<1>9. CASE Calibrate
  <2>1. \A fit \in Fits : [active EXCEPT !.fit = fit] \in Profiles
    BY <1>9 DEF TypeOK, Profiles
  <2>2. active' \in Profiles
    BY <1>9, <2>1, LeaveTyped, DisplayTransactionAssumption DEF Calibrate, TypeOK, Calibrated,
       AcceptRectangle, Bypass
  <2>3. presets' \in [Modes -> Fits \cup {None}]
    BY <1>9 DEF Calibrate, TypeOK, Calibrated, AcceptRectangle, Bypass, Save, Profiles
  <2>4. faults' \in 0 .. MaxFaults
    BY <1>9, FaultTyped DEF Calibrate, TypeOK, Calibrated, AcceptRectangle, Bypass, Save
  <2>5. desktop' \in Desktops
    BY <1>9, <2>2, LogicalTyped DEF Calibrate, TypeOK
  <2>6. UNCHANGED <<tx, startup, control, kept>>
    BY <1>9 DEF Calibrate
  <2>7. UNCHANGED <<at, start, trial, remote, ack>> \/ Leave
    BY <1>9 DEF Calibrate
  <2>8. at' \in {at, "off"} /\ forced' \in BOOLEAN /\ ack' \in BOOLEAN
    BY <1>9, <2>1, <2>2, <2>3, <2>4, <2>5, <2>6, <2>7, LeaveTyped DEF TypeOK, start
  <2>9. startup_confirmed' \in Profiles \cup {None} /\ seen' \in Records
    BY <1>9, <2>1, <2>2, <2>3, <2>4, <2>5, <2>6, <2>7, <2>8, LeaveTyped DEF TypeOK, start
  <2>10. previous' \in Profiles \cup {None} /\ candidate' \in Profiles \cup {None}
    BY <1>9, <2>1, <2>2, <2>3, <2>4, <2>5, <2>6, <2>7, <2>8, <2>9, LeaveTyped DEF TypeOK, trial
  <2>11. remote' \in {remote, "IDLE"}
    BY <1>9, <2>1, <2>2, <2>3, <2>4, <2>5, <2>6, <2>7, <2>8, <2>9, <2>10, LeaveTyped
  <2>12. TypeOK'
    BY <1>9, <2>2, <2>3, <2>4, <2>5, <2>6, <2>8, <2>9, <2>10, <2>11 DEF TypeOK
  <2>13. TrialPlaced' /\ RemotePlaced'
    BY <1>9 DEF Calibrate, Idle, Goto, Leave, TrialPlaced, RemotePlaced, trial, TrialPlaces
  <2>14. RecordShaped' /\ CommitIsKept' /\ RecordFirst' /\ RecordConfigured' /\ RestorationRecorded'
    BY <1>9 DEF Calibrate, Idle, Goto, Leave, RecordShaped, CommitIsKept, RecordFirst,
       RecordConfigured, RestorationRecorded, trial
  <2>15. SeenIsRecord' /\ ConfirmedConfigured'
    BY <1>9 DEF Calibrate, Leave, Calibrated, AcceptRectangle, Bypass, TypeOK, SeenIsRecord,
       ConfirmedConfigured, start, trial, Profiles, NoTx
  <2>16. DesktopDrawn'
    BY <1>9 DEF Calibrate, Goto, Leave, DesktopDrawn, DrawnPlaces
  <2> QED BY <2>12, <2>13, <2>14, <2>15, <2>16
<1>10. CASE SelectMode
  <2>1. TypeOK'
    BY <1>10 DEF SelectMode, TypeOK, Selectable, Choose, Goto, Profile, pi, start, Profiles
  <2>2. TrialPlaced' /\ RemotePlaced'
    BY <1>10 DEF SelectMode, Idle, Selectable, Choose, Goto, Profile, TypeOK, TrialPlaced,
       RemotePlaced, TrialPlaces, Profiles
  <2>3. RecordShaped' /\ CommitIsKept' /\ RecordFirst' /\ RecordConfigured' /\ RestorationRecorded'
    BY <1>10 DEF SelectMode, Idle, Choose, Goto, RecordShaped, CommitIsKept, RecordFirst,
       RecordConfigured, RestorationRecorded, pi
  <2>4. SeenIsRecord' /\ ConfirmedConfigured'
    BY <1>10 DEF SelectMode, Choose, Goto, SeenIsRecord, ConfirmedConfigured, pi, start,
       StartPlaces
  <2>5. DesktopDrawn'
    BY <1>10 DEF SelectMode, Idle, Choose, DesktopDrawn, DrawnPlaces
  <2> QED BY <2>1, <2>2, <2>3, <2>4, <2>5
<1>11. CASE RemoteSelect
  <2>1. TypeOK'
    BY <1>11 DEF RemoteSelect, TypeOK, Selectable, Choose, Goto, Report, Profile, pi, start,
       trial, Profiles
  <2>2. TrialPlaced' /\ RemotePlaced'
    BY <1>11 DEF RemoteSelect, Idle, Selectable, Choose, Goto, Profile, TypeOK, TrialPlaced,
       RemotePlaced, trial, TrialPlaces, Profiles
  <2>3. RecordShaped' /\ CommitIsKept' /\ RecordFirst' /\ RecordConfigured' /\ RestorationRecorded'
    BY <1>11 DEF RemoteSelect, Idle, Choose, Goto, RecordShaped, CommitIsKept, RecordFirst,
       RecordConfigured, RestorationRecorded, pi, trial
  <2>4. SeenIsRecord' /\ ConfirmedConfigured'
    BY <1>11 DEF RemoteSelect, Choose, Goto, SeenIsRecord, ConfirmedConfigured, pi, start, trial,
       StartPlaces
  <2>5. DesktopDrawn'
    BY <1>11 DEF RemoteSelect, Idle, Choose, DesktopDrawn, DrawnPlaces
  <2> QED BY <2>1, <2>2, <2>3, <2>4, <2>5
<1>12. CASE BeginSwitch
  <2>1. candidate \in Profiles
    BY <1>12 DEF TrialPlaced, BeginSwitch
  <2>2. tx' \in Records
    BY <1>12 DEF BeginSwitch, TypeOK, Heard, Unheard, Begin, pi, Records
  <2>3. TypeOK'
    <3>1. KeptTyped'
      BY <1>12, <2>1, <2>2, FaultTyped, TypesSplit DEF BeginSwitch, KeptTyped, Heard, Unheard,
         Begin, pi, Goto, Report
    <3>2. ClientTyped'
      BY <1>12, <2>1, <2>2, FaultTyped, TypesSplit DEF BeginSwitch, ClientTyped, Heard,
         Unheard, Begin, pi, start, trial, Goto, Report
    <3>3. QED
      BY <3>1, <3>2, TypesSplit
  <2>4. TrialPlaced' /\ RemotePlaced'
    BY <1>12, DisplayTransactionAssumption DEF BeginSwitch, Goto, TypeOK, TrialPlaced,
       RemotePlaced, TrialPlaces, Profiles
  <2>5. RecordShaped' /\ CommitIsKept' /\ RecordFirst' /\ RecordConfigured' /\ RestorationRecorded'
    BY <1>12 DEF BeginSwitch, Goto, Heard, Unheard, Begin, BeginAccepted, TypeOK, RecordShaped,
       TrialPlaced, CommitIsKept, RecordFirst, RecordConfigured, RestorationRecorded, pi,
       TrialPlaces
  <2>6. SeenIsRecord' /\ ConfirmedConfigured'
    BY <1>12 DEF BeginSwitch, Goto, Heard, Unheard, Begin, BeginAccepted, TrialPlaced,
       SeenIsRecord, ConfirmedConfigured, pi, start, StartPlaces, TrialPlaces
  <2>7. DesktopDrawn'
    BY <1>12 DEF BeginSwitch, DesktopDrawn, DrawnPlaces
  <2> QED BY <2>3, <2>4, <2>5, <2>6, <2>7
<1>13. CASE Switch
  <2>1. candidate \in Profiles
    BY <1>13 DEF TrialPlaced, TrialPlaces, Switch
  <2>2. active' \in Profiles /\ desktop' \in Desktops
    BY <1>13, <2>1, LogicalTyped DEF Switch, TypeOK
  <2>3. TypeOK'
    BY <1>13, <2>2 DEF Switch, TypeOK, Report, pi, start, trial, Goto
  <2>4. TrialPlaced' /\ RemotePlaced'
    BY <1>13 DEF Switch, Goto, TrialPlaced, RemotePlaced, trial, TrialPlaces
  <2>5. RecordShaped' /\ CommitIsKept' /\ RecordFirst' /\ RecordConfigured' /\ RestorationRecorded'
    BY <1>13 DEF Switch, Goto, RecordShaped, CommitIsKept, RecordFirst, RecordConfigured,
       RestorationRecorded, pi, trial
  <2>6. SeenIsRecord' /\ ConfirmedConfigured'
    BY <1>13 DEF Switch, Goto, TrialPlaced, SeenIsRecord, ConfirmedConfigured, pi, trial,
       StartPlaces, TrialPlaces
  <2>7. DesktopDrawn'
    BY <1>13 DEF Switch, Goto, DesktopDrawn, DrawnPlaces
  <2> QED BY <2>3, <2>4, <2>5, <2>6, <2>7
<1>14. CASE PressKeep
  <2>1. TypeOK'
    BY <1>14 DEF PressKeep, TypeOK, Goto, pi, start, trial
  <2>2. TrialPlaced' /\ RemotePlaced'
    BY <1>14 DEF PressKeep, Goto, TrialPlaced, RemotePlaced, trial, TrialPlaces
  <2>3. RecordShaped' /\ CommitIsKept' /\ RecordFirst' /\ RecordConfigured' /\ RestorationRecorded'
    BY <1>14 DEF PressKeep, Goto, RecordShaped, CommitIsKept, RecordFirst, RecordConfigured,
       RestorationRecorded, pi, trial
  <2>4. SeenIsRecord' /\ ConfirmedConfigured'
    BY <1>14 DEF PressKeep, Goto, SeenIsRecord, ConfirmedConfigured, StartPlaces
  <2>5. DesktopDrawn'
    BY <1>14 DEF PressKeep, DesktopDrawn, DrawnPlaces
  <2> QED BY <2>1, <2>2, <2>3, <2>4, <2>5
<1>15. CASE GoBack
  <2>1. TypeOK'
    BY <1>15 DEF GoBack, TypeOK, Goto, Report, pi, start, trial
  <2>2. TrialPlaced' /\ RemotePlaced'
    BY <1>15 DEF GoBack, Goto, TrialPlaced, RemotePlaced, trial, TrialPlaces
  <2>3. RecordShaped' /\ CommitIsKept' /\ RecordFirst' /\ RecordConfigured' /\ RestorationRecorded'
    BY <1>15 DEF GoBack, Goto, RecordShaped, CommitIsKept, RecordFirst, RecordConfigured,
       RestorationRecorded, pi, trial
  <2>4. SeenIsRecord' /\ ConfirmedConfigured'
    BY <1>15 DEF GoBack, Goto, SeenIsRecord, ConfirmedConfigured, pi, trial, StartPlaces
  <2>5. DesktopDrawn'
    BY <1>15 DEF GoBack, DesktopDrawn, DrawnPlaces
  <2> QED BY <2>1, <2>2, <2>3, <2>4, <2>5
<1>16. CASE CommitTrial
  <2>1. tx' \in Records /\ startup' \in Modes
    BY <1>16, CommitTyped DEF CommitTrial, TypeOK, pi, Heard, Unheard, CommitBreaks
  <2>2. presets' = presets /\ kept' = kept
    BY <1>16 DEF CommitTrial, pi, Heard, Unheard, Commit, CommitBreaks
  <2>3. faults' \in 0 .. MaxFaults
    BY <1>16, FaultTyped DEF CommitTrial, TypeOK, Heard, Unheard, CommitBreaks
  <2>4. TypeOK'
    BY <1>16, <2>1, <2>2, <2>3 DEF CommitTrial, TypeOK, start, trial, Goto
  <2>5.
         \/ tx' = tx /\ startup' = startup
         \/ CommitAccepted /\ (Commit \/ CommitBreaks)
    BY <1>16 DEF CommitTrial, pi, Heard, Unheard, CommitBreaks
  <2>6.
         \/ tx' = tx /\ startup' = startup
         \/ tx.state \in {"provisional", "committing"} /\ tx' = NoTx /\ startup' = tx.candidate.mode
         \/ /\ tx.state \in {"provisional", "committing"} /\ tx'.state = "committing"
            /\ startup' \in {startup, tx.candidate.mode}
            /\ tx'.previous = tx.previous /\ tx'.candidate = tx.candidate
    BY <1>16, <2>5, CommitRecord DEF TypeOK, CommitAccepted
  <2>7. TrialPlaced' /\ RemotePlaced'
    BY <1>16 DEF CommitTrial, Goto, TrialPlaced, RemotePlaced, trial, TrialPlaces
  <2>8. RecordShaped' /\ CommitIsKept' /\ RecordFirst' /\ RecordConfigured' /\ RestorationRecorded'
    BY <1>16, <2>2, <2>6 DEF CommitTrial, Goto, RecordShaped, CommitIsKept, RecordFirst,
       RecordConfigured, RestorationRecorded, trial, NoTx
  <2>9. SeenIsRecord' /\ ConfirmedConfigured'
    BY <1>16, <2>2 DEF CommitTrial, Goto, CommitIsKept, SeenIsRecord, ConfirmedConfigured,
       StartPlaces
  <2>10. DesktopDrawn'
    BY <1>16 DEF CommitTrial, DesktopDrawn, DrawnPlaces
  <2> QED BY <2>4, <2>7, <2>8, <2>9, <2>10
<1>17. CASE Restore
  <2>1. tx' \in Records
    BY <1>17, TransitionTyped DEF Restore, TypeOK, pi, Heard, Unheard
  <2>2. TypeOK'
    BY <1>17, <2>1, FaultTyped DEF Restore, TypeOK, Heard, Unheard, Transition, Report, pi, start,
       trial, Goto
  <2>3. TrialPlaced' /\ RemotePlaced'
    BY <1>17 DEF Restore, Goto, TrialPlaced, RemotePlaced, trial, TrialPlaces
  <2>4. RecordShaped' /\ CommitIsKept' /\ RecordFirst' /\ RecordConfigured' /\ RestorationRecorded'
    BY <1>17 DEF Restore, Goto, Heard, Unheard, Transition, TypeOK, RecordShaped, CommitIsKept,
       RecordFirst, RecordConfigured, RestorationRecorded, pi, trial, NoTx, Records
  <2>5. SeenIsRecord' /\ ConfirmedConfigured'
    BY <1>17 DEF Restore, Goto, Heard, Unheard, Transition, SeenIsRecord, ConfirmedConfigured, pi,
       start, trial, StartPlaces
  <2>6. DesktopDrawn'
    BY <1>17 DEF Restore, Goto, DesktopDrawn, DrawnPlaces
  <2> QED BY <2>2, <2>3, <2>4, <2>5, <2>6
<1>18. CASE Rollback
  <2>1. previous \in Profiles
    BY <1>18 DEF Rollback, TypeOK, TrialPlaced, TrialPlaces
  <2>2. active' \in Profiles /\ desktop' \in Desktops
    BY <1>18, <2>1, LeaveTyped, LogicalTyped DEF Rollback, TypeOK
  <2>3. TypeOK'
    <3>1. KeptTyped'
      BY <1>18, <2>2, FaultTyped, TypesSplit DEF Rollback, KeptTyped, ReportFailure, Report, pi
    <3>2. ClientTyped'
      BY <1>18, <2>1, <2>2, LeaveTyped, TypesSplit DEF Rollback, ClientTyped, start, trial, Goto
    <3>3. QED
      BY <3>1, <3>2, TypesSplit
  <2>4. TrialPlaced' /\ RemotePlaced'
    BY <1>18 DEF Rollback, Goto, Leave, TrialPlaced, RemotePlaced, TrialPlaces
  <2>5. RecordShaped' /\ CommitIsKept' /\ RecordFirst' /\ RecordConfigured' /\ RestorationRecorded'
    BY <1>18 DEF Rollback, Goto, Leave, RecordShaped, TrialPlaced, CommitIsKept, RecordFirst,
       RecordConfigured, RestorationRecorded, pi, TrialPlaces, NoTx
  <2>6. SeenIsRecord' /\ ConfirmedConfigured'
    BY <1>18 DEF Rollback, Goto, Leave, TrialPlaced, SeenIsRecord, ConfirmedConfigured, pi,
       StartPlaces, TrialPlaces
  <2>7. DesktopDrawn'
    BY <1>18 DEF Rollback, Goto, Leave, DesktopDrawn, DrawnPlaces
  <2> QED BY <2>3, <2>4, <2>5, <2>6, <2>7
<1>19. CASE MarkRestored
  <2>1. tx' \in Records
    BY <1>19, TransitionTyped DEF MarkRestored, TypeOK, pi, Heard, Unheard
  <2>2. presets' = presets /\ startup' = startup /\ kept' = kept
    BY <1>19 DEF MarkRestored, Heard, Unheard, Transition, pi
  <2>3. faults' \in 0 .. MaxFaults
    BY <1>19, FaultTyped DEF MarkRestored, TypeOK, Heard, Unheard
  <2>4. TypeOK'
    BY <1>19, <2>1, <2>2, <2>3, LeaveTyped DEF MarkRestored, TypeOK, ReportFailure, Report, start,
       trial, Goto
  <2>5. TrialPlaced' /\ RemotePlaced'
    BY <1>19 DEF MarkRestored, Goto, Leave, TrialPlaced, RemotePlaced, trial, TrialPlaces
  <2>6. RecordShaped' /\ CommitIsKept' /\ RecordFirst' /\ RecordConfigured' /\ RestorationRecorded'
    BY <1>19 DEF MarkRestored, Goto, Leave, Heard, Unheard, Transition, TypeOK, RecordShaped,
       TrialPlaced, CommitIsKept, RecordFirst, RecordConfigured, RestorationRecorded, pi, trial,
       TrialPlaces, Records
  <2>7. SeenIsRecord' /\ ConfirmedConfigured'
    BY <1>19 DEF MarkRestored, Goto, Leave, Heard, Unheard, Transition, SeenIsRecord,
       ConfirmedConfigured, start, trial, StartPlaces
  <2>8. DesktopDrawn'
    BY <1>19 DEF MarkRestored, Goto, Leave, DesktopDrawn, DrawnPlaces
  <2> QED BY <2>4, <2>5, <2>6, <2>7, <2>8
<1>20. CASE PressX
  <2>1. TypeOK'
    BY <1>20 DEF PressX, TypeOK, Goto, pi, start, trial
  <2>2. TrialPlaced' /\ RemotePlaced'
    BY <1>20 DEF PressX, Idle, Goto, TrialPlaced, RemotePlaced, trial, TrialPlaces
  <2>3. RecordShaped' /\ CommitIsKept' /\ RecordFirst' /\ RecordConfigured' /\ RestorationRecorded'
    BY <1>20 DEF PressX, Idle, Goto, RecordShaped, CommitIsKept, RecordFirst, RecordConfigured,
       RestorationRecorded, pi, trial
  <2>4. SeenIsRecord' /\ ConfirmedConfigured'
    BY <1>20 DEF PressX, Goto, SeenIsRecord, ConfirmedConfigured, pi, start, trial, StartPlaces
  <2>5. DesktopDrawn'
    BY <1>20 DEF PressX, Idle, DesktopDrawn, DrawnPlaces
  <2> QED BY <2>1, <2>2, <2>3, <2>4, <2>5
<1>21. CASE Ack
  <2>1. tx' \in Records /\ presets' = presets /\ startup' = startup /\ kept' = kept
    BY <1>21, NoTxTyped DEF Ack, TypeOK, Heard, Unheard, Acknowledge, pi
  <2>2. faults' \in 0 .. MaxFaults
    BY <1>21, <2>1, FaultTyped DEF Ack, TypeOK, Heard, Unheard
  <2>3. control' \in {"RESTORED", "FAILED", control}
    BY <1>21, <2>1, <2>2 DEF Ack, TypeOK, RemotePlaced, Report, ReportFailure
  <2>4. TypeOK'
    <3>1. KeptTyped'
      BY <1>21, <2>1, <2>2, <2>3, TypesSplit DEF Ack, KeptTyped
    <3>2. ClientTyped'
      BY <1>21, TypesSplit DEF Ack, ClientTyped, start, trial, Goto
    <3>3. QED
      BY <3>1, <3>2, TypesSplit
  <2>5.
         \/ tx' = tx
         \/ tx.state = "restored" /\ tx' = NoTx
    BY <1>21 DEF Ack, pi, Heard, Unheard, Acknowledge
  <2>6. TrialPlaced' /\ RemotePlaced'
    BY <1>21 DEF Ack, Goto, TrialPlaced, RemotePlaced, trial, TrialPlaces
  <2>7. RecordShaped' /\ CommitIsKept' /\ RecordFirst' /\ RecordConfigured' /\ RestorationRecorded'
    BY <1>21, <2>1, <2>5 DEF Ack, Goto, RecordShaped, CommitIsKept, RecordFirst, RecordConfigured,
       RestorationRecorded, trial, NoTx
  <2>8. SeenIsRecord' /\ ConfirmedConfigured'
    BY <1>21, <2>1 DEF Ack, Goto, SeenIsRecord, ConfirmedConfigured, start, trial, StartPlaces
  <2>9. DesktopDrawn'
    BY <1>21 DEF Ack, DesktopDrawn, DrawnPlaces
  <2> QED BY <2>4, <2>6, <2>7, <2>8, <2>9
<1>22. CASE Crash
  <2>1. TypeOK'
    BY <1>22, LeaveTyped, FaultTyped DEF Crash, TypeOK, pi
  <2>2. TrialPlaced' /\ RemotePlaced'
    BY <1>22 DEF Crash, Goto, Leave, TrialPlaced, RemotePlaced, TrialPlaces
  <2>3. RecordShaped' /\ CommitIsKept' /\ RecordFirst' /\ RecordConfigured' /\ RestorationRecorded'
    BY <1>22 DEF Crash, Goto, Leave, RecordShaped, CommitIsKept, RecordFirst, RecordConfigured,
       RestorationRecorded, pi
  <2>4. SeenIsRecord' /\ ConfirmedConfigured'
    BY <1>22 DEF Crash, Leave, SeenIsRecord, ConfirmedConfigured, NoTx
  <2>5. DesktopDrawn'
    BY <1>22 DEF Crash, Goto, Leave, DesktopDrawn, DrawnPlaces
  <2> QED BY <2>1, <2>2, <2>3, <2>4, <2>5
<1>23. CASE Exit
  <2>1. TypeOK'
    BY <1>23, LeaveTyped DEF Exit, TypeOK, pi
  <2>2. TrialPlaced' /\ RemotePlaced'
    BY <1>23 DEF Exit, Goto, Leave, TrialPlaced, RemotePlaced, TrialPlaces
  <2>3. RecordShaped' /\ CommitIsKept' /\ RecordFirst' /\ RecordConfigured' /\ RestorationRecorded'
    BY <1>23 DEF Exit, Goto, Leave, RecordShaped, CommitIsKept, RecordFirst, RecordConfigured,
       RestorationRecorded, pi
  <2>4. SeenIsRecord' /\ ConfirmedConfigured'
    BY <1>23 DEF Exit, Leave, SeenIsRecord, ConfirmedConfigured, NoTx
  <2>5. DesktopDrawn'
    BY <1>23 DEF Exit, Goto, Leave, DesktopDrawn, DrawnPlaces
  <2> QED BY <2>1, <2>2, <2>3, <2>4, <2>5
<1>24. CASE PiRestarts
  <2>1. tx' \in Records /\ startup' \in Modes
    BY <1>24, CommitTyped DEF PiRestarts, TypeOK, CommitAccepted
  <2>2. TypeOK'
    BY <1>24, <2>1 DEF PiRestarts, TypeOK, Commit, start, trial
  <2>3. TrialPlaced' /\ RemotePlaced'
    BY <1>24 DEF PiRestarts, TrialPlaced, RemotePlaced, trial
  <2>4. RecordShaped' /\ CommitIsKept' /\ RecordFirst' /\ RecordConfigured' /\ RestorationRecorded'
    BY <1>24 DEF PiRestarts, Commit, RecordShaped, CommitIsKept, RecordFirst, RecordConfigured,
       RestorationRecorded, trial, NoTx
  <2>5. SeenIsRecord' /\ ConfirmedConfigured'
    BY <1>24 DEF PiRestarts, Commit, CommitIsKept, SeenIsRecord, ConfirmedConfigured, start, NoTx
  <2>6. DesktopDrawn'
    BY <1>24 DEF PiRestarts, DesktopDrawn
  <2> QED BY <2>2, <2>3, <2>4, <2>5, <2>6
<1>25. CASE OperatorActs
  <2>1. TypeOK'
    BY <1>25 DEF OperatorActs, TypeOK, pi, start, trial
  <2>2. TrialPlaced' /\ RemotePlaced'
    BY <1>25 DEF OperatorActs, TrialPlaced, RemotePlaced, trial
  <2>3. RecordShaped' /\ CommitIsKept' /\ RecordFirst' /\ RecordConfigured' /\ RestorationRecorded'
    BY <1>25 DEF OperatorActs, RecordShaped, CommitIsKept, RecordFirst, RecordConfigured,
       RestorationRecorded, pi, trial
  <2>4. SeenIsRecord' /\ ConfirmedConfigured'
    BY <1>25 DEF OperatorActs, SeenIsRecord, ConfirmedConfigured, pi, start, trial
  <2>5. DesktopDrawn'
    BY <1>25 DEF OperatorActs, DesktopDrawn
  <2> QED BY <2>1, <2>2, <2>3, <2>4, <2>5
<1>26. CASE UNCHANGED vars
  BY <1>26 DEF vars, TypeOK, RecordShaped, TrialPlaced, RemotePlaced, CommitIsKept, RecordFirst,
     RecordConfigured, RestorationRecorded, SeenIsRecord, ConfirmedConfigured, DesktopDrawn
<1> QED BY <1>1, <1>2, <1>3, <1>4, <1>5, <1>6, <1>7, <1>8, <1>9, <1>10, <1>11, <1>12, <1>13,
     <1>14, <1>15, <1>16, <1>17, <1>18, <1>19, <1>20, <1>21, <1>22, <1>23, <1>24, <1>25, <1>26
     DEF Next, Client

\* The configuration and the server's desktop may be any at the beginning.
LEMMA InvInit == Init => Inv
<1> SUFFICES ASSUME Init PROVE Inv
  OBVIOUS
<1>1. tx \in Records /\ seen \in Records /\ active \in Profiles /\ faults \in 0 .. MaxFaults
  BY StartTyped, NoTxTyped, DisplayTransactionAssumption DEF Init
<1>2. TypeOK
  BY <1>1 DEF Init, TypeOK
<1> QED
  BY <1>2 DEF Init, Inv, RecordShaped, TrialPlaced, RemotePlaced, CommitIsKept, RecordFirst,
     RecordConfigured, RestorationRecorded, SeenIsRecord, ConfirmedConfigured, DesktopDrawn,
     StartPlaces, TrialPlaces, DrawnPlaces, NoTx

\* Every state of the client, the service and the operator's record satisfies
\* the inductive invariant, with any number of faults.
THEOREM TransactionInvariant == Spec => []Inv
<1> QED
  BY InvInit, InvStep, PTL DEF Spec

\* Every variable keeps its type.
THEOREM TypeCorrect == Spec => []TypeOK
<1>1. Inv => TypeOK
  BY DEF Inv
<1> QED
  BY <1>1, TransactionInvariant, PTL

\* No candidate is shown that the Pi does not hold in its record with the
\* profile to go back to, unless it was kept and is the configured mode.
THEOREM RecordAlwaysFirst == Spec => []RecordFirst
<1>1. Inv => RecordFirst
  BY DEF Inv
<1> QED
  BY <1>1, TransactionInvariant, PTL

\* A live session draws at the size of the server's desktop, and with nothing
\* on trial it shows the configured mode, whatever an earlier run left behind.
THEOREM LiveAlwaysCoherent == Spec => []LiveCoherent
<1>1. Inv => LiveCoherent
  BY DEF Inv, LiveCoherent, DesktopDrawn, DrawnPlaces, ConfirmedConfigured
<1> QED
  BY <1>1, TransactionInvariant, PTL

\* The operator is told RESTORED only in the step that closes the transaction,
\* with the display already back in the configured mode.
THEOREM OperatorNeverMisled == Spec => OperatorToldTheTruth
<1> DEFINE Told == control' = "RESTORED" /\ control # "RESTORED" =>
                     tx'.state = "none" /\ previous = None /\ active.mode = startup
<1>1. ASSUME Inv, [Next]_vars PROVE [Told]_vars
  <2> SUFFICES ASSUME control' = "RESTORED", control # "RESTORED"
               PROVE  tx'.state = "none" /\ previous = None /\ active.mode = startup
    OBVIOUS
  <2>1. CASE Ack
    <3>1. remote # "IDLE" /\ at = "ack" /\ Acknowledge
      BY <2>1 DEF Ack, Heard, ReportFailure, Report
    <3>2. tx.state = "restored" /\ active = tx.previous /\ startup = tx.previous.mode
      BY <1>1, <3>1 DEF Inv, RestorationRecorded, RecordConfigured
    <3>3. previous = None
      BY <1>1, <3>1 DEF Inv, TrialPlaced, TrialPlaces
    <3> QED
      BY <3>1, <3>2, <3>3 DEF Acknowledge, NoTx
  <2>2. ~(Start \/ LoadConfig \/ Preflight \/ Prepare \/ Apply \/ Connect \/ Fit \/ Finalize
          \/ Calibrate \/ SelectMode \/ BeginSwitch \/ Switch)
    BY DEF Start, LoadConfig, Preflight, Prepare, Apply, Connect, Fit, Finalize, Calibrate,
       SelectMode, BeginSwitch, Switch, Report
  <2>3. ~(RemoteSelect \/ PressKeep \/ GoBack \/ CommitTrial \/ Restore \/ Rollback
          \/ MarkRestored \/ PressX)
    BY DEF RemoteSelect, PressKeep, GoBack, CommitTrial, Restore, Rollback, MarkRestored, PressX,
       ReportFailure, Report
  <2>4. ~(Crash \/ Exit \/ PiRestarts \/ OperatorActs \/ UNCHANGED vars)
    BY DEF Crash, Exit, PiRestarts, OperatorActs, vars
  <2> QED
    BY <1>1, <2>1, <2>2, <2>3, <2>4 DEF Next, Client
<1> QED
  BY <1>1, TransactionInvariant, PTL DEF Spec, OperatorToldTheTruth

\* What one step can do to the record, the configured mode and the user's choice.
LEMMA PiSteps ==
  ASSUME Inv, [Next]_vars
  PROVE  \/ UNCHANGED <<tx, startup, kept>>
         \/ at = "begin" /\ BeginAccepted /\ Begin
         \/ CommitAccepted /\ kept /\ (Commit \/ CommitBreaks)
         \/ Transition("provisional", "restoring") \/ Transition("restoring", "restored")
         \/ Acknowledge
         \/ kept' = TRUE /\ UNCHANGED pi
<1> DEFINE Small ==
      \/ UNCHANGED <<tx, startup, kept>>
      \/ at = "begin" /\ BeginAccepted /\ Begin
      \/ CommitAccepted /\ kept /\ (Commit \/ CommitBreaks)
      \/ Transition("provisional", "restoring") \/ Transition("restoring", "restored")
      \/ Acknowledge
      \/ kept' = TRUE /\ UNCHANGED pi
<1>1. Start \/ LoadConfig \/ Preflight \/ Apply \/ Connect \/ Fit => Small
  BY DEF Start, LoadConfig, Preflight, Apply, Connect, Fit, pi
<1>2. Prepare => Small
  BY DEF Prepare, Heard, Unheard, pi
<1>3. Finalize => Small
  <2>1. ASSUME Finalize, Commit \/ CommitBreaks, CommitAccepted, seen.state = "committing"
        PROVE  kept
    BY <2>1 DEF Inv, SeenIsRecord, StartPlaces, Finalize
  <2> QED
    BY <2>1 DEF Finalize, Heard, Unheard, pi, CommitBreaks
<1>4. Calibrate \/ SelectMode \/ RemoteSelect \/ Switch \/ PressKeep \/ GoBack \/ PressX => Small
  BY DEF Calibrate, SelectMode, RemoteSelect, Choose, Switch, PressKeep, GoBack, PressX, pi
<1>5. BeginSwitch => Small
  BY DEF BeginSwitch, Heard, Unheard, pi
<1>6. CommitTrial => Small
  BY DEF CommitTrial, Heard, Unheard, CommitBreaks, pi, Inv, CommitIsKept
<1>7. Restore => Small
  BY DEF Restore, Heard, Unheard, pi
<1>8. Rollback => Small
  BY DEF Rollback, pi
<1>9. MarkRestored => Small
  BY DEF MarkRestored, Heard, Unheard, pi
<1>10. Ack => Small
  BY DEF Ack, Heard, Unheard, pi
<1>11. Crash \/ Exit \/ OperatorActs \/ UNCHANGED vars => Small
  BY DEF Crash, Exit, OperatorActs, vars, pi
<1>12. PiRestarts => Small
  BY DEF PiRestarts, CommitAccepted, Inv, CommitIsKept
<1> QED
  BY <1>1, <1>2, <1>3, <1>4, <1>5, <1>6, <1>7, <1>8, <1>9, <1>10, <1>11, <1>12 DEF Next, Client

\* What the two machines do together, whatever is lost or cut off, is one of the
\* abstract authority's steps or none: a mode nobody has kept is never confirmed.
THEOREM OnlyKeptConfirmed == Spec => OnlyTheKeptIsConfirmed
<1> DEFINE Confirmed == IF tx.state = "committing" THEN tx.candidate.mode ELSE startup
           Trial == IF tx.state = "provisional" THEN tx.candidate.mode ELSE None
<1>1. Init => Promise!Init
  BY DEF Init, Promise!Init, NoTx
<1>2. ASSUME Inv, [Next]_vars
      PROVE  [Promise!Next]_<<Confirmed, Trial, kept>>
  <2>1. CASE UNCHANGED <<tx, startup, kept>>
    BY <2>1
  <2>2. CASE at = "begin" /\ BeginAccepted /\ Begin
    <3>1. candidate.mode \in Modes /\ candidate.mode # startup
      BY <1>2, <2>2 DEF BeginAccepted, Inv, TrialPlaced, Profiles
    <3>2. tx'.state = "provisional" /\ tx'.candidate = candidate /\ startup' = startup
      BY <2>2 DEF Begin
    <3>3. CASE tx = NoTx
      <4>1. Promise!Try(candidate.mode)
        BY <2>2, <3>1, <3>2, <3>3 DEF Promise!Try, Begin, NoTx
      <4> QED
        BY <3>1, <4>1 DEF Promise!Next
    <3>4. CASE tx # NoTx
      <4>1. tx' = tx
        BY <2>2, <3>4 DEF Begin, BeginAccepted
      <4>2. kept' = kept
        BY <1>2, <2>2, <3>4 DEF Begin, Inv, TypeOK
      <4> QED
        BY <3>2, <4>1, <4>2
    <3> QED
      BY <3>3, <3>4
  <2>3. CASE CommitAccepted /\ kept /\ (Commit \/ CommitBreaks)
    <3>1. tx.candidate.mode \in Modes
      BY <1>2, <2>3 DEF CommitAccepted, Inv, RecordShaped, Profiles
    <3>2. tx \in Records
      BY <1>2 DEF Inv, TypeOK
    <3>3. \/ tx' = NoTx /\ startup' = tx.candidate.mode
          \/ tx'.state = "committing" /\ tx'.candidate = tx.candidate
      BY <2>3, <3>2, CommitRecord
    <3>4. Confirmed' = tx.candidate.mode /\ Trial' = None
      BY <3>3 DEF NoTx
    <3>5. kept' = kept
      BY <2>3 DEF Commit, CommitBreaks
    <3>6. CASE tx.state = "provisional"
      BY <2>3, <3>1, <3>4, <3>5, <3>6, DisplayTransactionAssumption DEF Promise!Next,
         Promise!Promote
    <3>7. CASE tx.state = "committing"
      BY <3>4, <3>5, <3>7
    <3> QED
      BY <2>3, <3>6, <3>7 DEF CommitAccepted
  <2>4. CASE Transition("provisional", "restoring")
    <3>1. tx.candidate.mode \in Modes
      BY <1>2, <2>4 DEF Transition, Inv, RecordShaped, Profiles
    <3>2. tx.state = "provisional" /\ tx'.state = "restoring" /\ UNCHANGED <<startup, kept>>
      BY <1>2, <2>4, TransitionTyped DEF Transition, Inv, TypeOK
    <3> QED
      BY <3>1, <3>2, DisplayTransactionAssumption DEF Promise!Next, Promise!GoBack
  <2>5. CASE Transition("restoring", "restored") \/ Acknowledge
    BY <1>2, <2>5, TransitionTyped DEF Transition, Acknowledge, NoTx, Inv, TypeOK
  <2>6. CASE kept' = TRUE /\ UNCHANGED pi
    BY <2>6 DEF pi, Promise!Next, Promise!Keep
  <2> QED
    BY <1>2, PiSteps, <2>1, <2>2, <2>3, <2>4, <2>5, <2>6
<1> QED
  BY <1>1, <1>2, TransactionInvariant, PTL DEF Spec, OnlyTheKeptIsConfirmed, Promise!Spec

===============================================================================
