---------------------------- MODULE LiveLoopProofs ----------------------------
(* Theorems of LiveLoop, for every catalogue of display modes and every number  *)
(* of reconnection attempts: the display shows what the Pi has on record, an    *)
(* unapproved candidate owns every failure of the transport, and the client     *)
(* never asks the server twice.                                                 *)
EXTENDS LiveLoop, TLAPS

\* The type invariant in parts, for what each prover is good at: Boolean values, by
\* what they are about, and the others.
StreamFlags ==
  /\ outstanding \in BOOLEAN /\ asked \in BOOLEAN /\ exit_requested \in BOOLEAN

TrialFlags ==
  /\ pending \in BOOLEAN /\ visible \in BOOLEAN /\ expired \in BOOLEAN

ScreenFlags ==
  /\ menu \in BOOLEAN /\ loaded \in BOOLEAN /\ policy \in BOOLEAN /\ redraw \in BOOLEAN

PlanFlags ==
  /\ yield_enabled \in BOOLEAN /\ transport_dirty \in BOOLEAN
  /\ request_is_remote \in BOOLEAN /\ manual \in BOOLEAN

Flags == StreamFlags /\ TrialFlags /\ ScreenFlags /\ PlanFlags

Values ==
  /\ main \in Places
  /\ active \in Modes /\ confirmed \in Modes
  /\ previous \in Modes \cup {"none"} /\ calibration \in Modes \cup {"none"}
  /\ wire \in 0 .. 1 /\ attempt \in 0 .. MaxAttempts
  /\ runtime_action \in {"none", "refresh", "exit"}
  /\ refresh_state \in {"READY", "REFRESHING", "COOLDOWN"}
  /\ action \in {"NONE", "KEEP", "ROLLBACK", "ROLLBACK_IN_PROGRESS"}
  /\ remote \in {"IDLE", "SWITCH_REQUESTED", "SWITCHING", "ACTIVE_TEMP", "RESTORING"}
  /\ mode_request \in {"none", "local", "remote"}
  /\ ack \in {"none", "visible", "requested"}

\* Where a transaction is being switched to or taken back.
SwitchPlaces == {"switching", "marking", "reopening", "restoring"}

\* Where the session's stream was just closed or used up.
FreshPlaces == {"reopening", "reporting", "recovering", "replacing"}

\* A transaction has the configured mode to go back to, for as long as it lasts.
TrialPlaced ==
  /\ main \in SwitchPlaces => pending
  /\ pending => previous = confirmed

\* A Refresh accepted before the transaction was armed cannot outlive the switch.
RefreshPlaced ==
  pending /\ runtime_action = "refresh" => main \in SwitchPlaces \cup {"exited"}

\* What a transaction may do, wherever the loop is.
Trial == TrialPlaced /\ RefreshPlaced /\ CandidateOwnsFailures /\ ShowsTheConfirmed

\* Nothing was asked of the server that was not answered and read.
Quiet == ~asked /\ wire = 0

\* A request the client has forgotten is the server's only on a stream that the
\* rollback is about to close.
Wire ==
  /\ ~(asked /\ wire > 0)
  /\ main = "receiving" => wire > 0
  /\ main \in FreshPlaces => Quiet
  /\ ~outstanding => Quiet \/ main = "exited" \/ (main = "marking" /\ transport_dirty)

\* The inductive invariant.
Inv == TypeOK /\ Trial /\ Wire

\* Work is served where the loop chooses it, and only what was published.
LEMMA ServesPublished ==
  \A work : Serves(work) => main = "dispatch" /\ Published(work)
  BY DEF Serves

LEMMA TypesSplit == (TypeOK <=> Flags /\ Values) /\ (TypeOK' <=> Flags' /\ Values')
  BY DEF TypeOK, Flags, StreamFlags, TrialFlags, ScreenFlags, PlanFlags, Values

\* The loop begins with no request outstanding and nothing on trial.
LEMMA InvInit == Init => Inv
<1> SUFFICES ASSUME Init PROVE Inv
  OBVIOUS
<1>1. Flags
  BY DEF Init, Flags, StreamFlags, TrialFlags, ScreenFlags, PlanFlags
<1>2. Values
  BY LiveLoopAssumption DEF Init, Values, Places
<1>3. Trial /\ Wire
  BY DEF Init, Trial, TrialPlaced, SwitchPlaces, RefreshPlaced, CandidateOwnsFailures,
     ShowsTheConfirmed, Wire, FreshPlaces, Quiet
<1> QED
  BY <1>1, <1>2, <1>3, TypesSplit DEF Inv

\* Every step of the main thread, the controller and the world outside keeps the
\* invariant.
LEMMA InvStep == Inv /\ [Next]_vars => Inv'
<1> SUFFICES ASSUME Inv, [Next]_vars PROVE Inv'
  OBVIOUS
<1>a. Flags /\ Values /\ Trial /\ Wire
  BY TypesSplit DEF Inv
<1>b. StreamFlags /\ TrialFlags /\ ScreenFlags /\ PlanFlags
  BY <1>a DEF Flags
<1> SUFFICES Flags' /\ Values' /\ Trial' /\ Wire'
  BY TypesSplit DEF Inv
<1> USE DEF Goto, server, actions, confirmation, modes, requests, locals
<1>1. CASE AcceptRefresh
  <2>1. Flags'
    BY <1>b, <1>1, SMT DEF AcceptRefresh, Flags, StreamFlags, TrialFlags, ScreenFlags,
       PlanFlags
  <2>2. Values'
    BY <1>a, <1>1, SMT DEF AcceptRefresh, Values
  <2>3. Trial'
    BY <1>a, <1>1 DEF AcceptRefresh, OverlayAllowed, Trial, TrialPlaced, RefreshPlaced,
       CandidateOwnsFailures, ShowsTheConfirmed
  <2>4. Wire'
    BY <1>a, <1>1 DEF AcceptRefresh, Wire, Quiet
  <2> QED
    BY <2>1, <2>2, <2>3, <2>4
<1>2. CASE CooldownEnds
  <2>1. Flags'
    BY <1>b, <1>2, SMT DEF CooldownEnds, Flags, StreamFlags, TrialFlags, ScreenFlags,
       PlanFlags
  <2>2. Values'
    BY <1>a, <1>2, SMT DEF CooldownEnds, Values
  <2>3. Trial'
    BY <1>a, <1>2 DEF CooldownEnds, Trial, TrialPlaced, RefreshPlaced, CandidateOwnsFailures,
       ShowsTheConfirmed
  <2>4. Wire'
    BY <1>a, <1>2 DEF CooldownEnds, Wire, Quiet
  <2> QED
    BY <2>1, <2>2, <2>3, <2>4
<1>3. CASE AcceptExit
  <2>1. Flags'
    BY <1>b, <1>3, SMT DEF AcceptExit, Flags, StreamFlags, TrialFlags, ScreenFlags,
       PlanFlags
  <2>2. Values'
    BY <1>a, <1>3, SMT DEF AcceptExit, Values
  <2>3. Trial'
    BY <1>a, <1>3 DEF AcceptExit, Trial, TrialPlaced, RefreshPlaced, CandidateOwnsFailures,
       ShowsTheConfirmed
  <2>4. Wire'
    BY <1>a, <1>3 DEF AcceptExit, Wire, Quiet
  <2> QED
    BY <2>1, <2>2, <2>3, <2>4
<1>4. CASE OpenDisplayMenu
  <2>1. Flags'
    BY <1>b, <1>4, SMT DEF OpenDisplayMenu, OpenMenu, Flags, StreamFlags, TrialFlags,
       ScreenFlags, PlanFlags
  <2>2. Values'
    BY <1>a, <1>4, SMT DEF OpenDisplayMenu, Values
  <2>3. Trial'
    BY <1>a, <1>4 DEF OpenDisplayMenu, Trial, TrialPlaced, RefreshPlaced, CandidateOwnsFailures,
       ShowsTheConfirmed
  <2>4. Wire'
    BY <1>a, <1>4 DEF OpenDisplayMenu, Wire, Quiet
  <2> QED
    BY <2>1, <2>2, <2>3, <2>4
<1>5. CASE ChooseMode
  <2>1. Flags'
    <3>1. StreamFlags'
      BY <1>b, <1>5, Zenon DEF ChooseMode, StreamFlags
    <3>2. TrialFlags'
      BY <1>b, <1>5, Zenon DEF ChooseMode, TrialFlags
    <3>3. ScreenFlags'
      BY <1>b, <1>5, Zenon DEF ChooseMode, ScreenFlags
    <3>4. PlanFlags'
      BY <1>b, <1>5, Zenon DEF ChooseMode, PlanFlags
    <3>5. QED
      BY <3>1, <3>2, <3>3, <3>4 DEF Flags
  <2>2. Values'
    BY <1>a, <1>5, SMT DEF ChooseMode, Values
  <2>3. Trial'
    BY <1>a, <1>5 DEF ChooseMode, Trial, TrialPlaced, RefreshPlaced, CandidateOwnsFailures,
       ShowsTheConfirmed
  <2>4. Wire'
    BY <1>a, <1>5 DEF ChooseMode, Wire, Quiet
  <2> QED
    BY <2>1, <2>2, <2>3, <2>4
<1>6. CASE ChangePolicy
  <2>1. Flags'
    BY <1>b, <1>6, SMT DEF ChangePolicy, Flags, StreamFlags, TrialFlags, ScreenFlags,
       PlanFlags
  <2>2. Values'
    BY <1>a, <1>6, SMT DEF ChangePolicy, Values
  <2>3. Trial'
    BY <1>a, <1>6 DEF ChangePolicy, Trial, TrialPlaced, RefreshPlaced, CandidateOwnsFailures,
       ShowsTheConfirmed
  <2>4. Wire'
    BY <1>a, <1>6 DEF ChangePolicy, Wire, Quiet
  <2> QED
    BY <2>1, <2>2, <2>3, <2>4
<1>7. CASE CloseMenu
  <2>1. Flags'
    <3>1. StreamFlags'
      BY <1>b, <1>7, Zenon DEF CloseMenu, StreamFlags
    <3>2. TrialFlags'
      BY <1>b, <1>7, Zenon DEF CloseMenu, TrialFlags
    <3>3. ScreenFlags'
      BY <1>b, <1>7, Zenon DEF CloseMenu, ScreenFlags
    <3>4. PlanFlags'
      BY <1>b, <1>7, Zenon DEF CloseMenu, PlanFlags
    <3>5. QED
      BY <3>1, <3>2, <3>3, <3>4 DEF Flags
  <2>2. Values'
    BY <1>a, <1>7, SMT DEF CloseMenu, Values
  <2>3. Trial'
    BY <1>a, <1>7 DEF CloseMenu, Trial, TrialPlaced, RefreshPlaced, CandidateOwnsFailures,
       ShowsTheConfirmed
  <2>4. Wire'
    BY <1>a, <1>7 DEF CloseMenu, Wire, Quiet
  <2> QED
    BY <2>1, <2>2, <2>3, <2>4
<1>8. CASE Acknowledge
  <2>1. Flags'
    BY <1>b, <1>8, SMT DEF Acknowledge, Flags, StreamFlags, TrialFlags, ScreenFlags,
       PlanFlags
  <2>2. Values'
    BY <1>a, <1>8, SMT DEF Acknowledge, Values
  <2>3. Trial'
    BY <1>a, <1>8 DEF Acknowledge, Trial, TrialPlaced, RefreshPlaced, CandidateOwnsFailures,
       ShowsTheConfirmed
  <2>4. Wire'
    BY <1>a, <1>8 DEF Acknowledge, Wire, Quiet
  <2> QED
    BY <2>1, <2>2, <2>3, <2>4
<1>9. CASE ConfirmTick
  <2>1. Flags'
    BY <1>b, <1>9, SMT DEF ConfirmTick, Flags, StreamFlags, TrialFlags, ScreenFlags,
       PlanFlags
  <2>2. Values'
    BY <1>a, <1>9, SMT DEF ConfirmTick, Values
  <2>3. Trial'
    BY <1>a, <1>9 DEF ConfirmTick, Trial, TrialPlaced, RefreshPlaced, CandidateOwnsFailures,
       ShowsTheConfirmed
  <2>4. Wire'
    BY <1>a, <1>9 DEF ConfirmTick, Wire, Quiet
  <2> QED
    BY <2>1, <2>2, <2>3, <2>4
<1>10. CASE ConfirmTimeout
  <2>1. Flags'
    <3>1. StreamFlags'
      BY <1>b, <1>10, Zenon DEF ConfirmTimeout, StreamFlags
    <3>2. TrialFlags'
      BY <1>b, <1>10, Zenon DEF ConfirmTimeout, TrialFlags
    <3>3. ScreenFlags'
      BY <1>b, <1>10, Zenon DEF ConfirmTimeout, ScreenFlags
    <3>4. PlanFlags'
      BY <1>b, <1>10, Zenon DEF ConfirmTimeout, PlanFlags
    <3>5. QED
      BY <3>1, <3>2, <3>3, <3>4 DEF Flags
  <2>2. Values'
    BY <1>a, <1>10, SMT DEF ConfirmTimeout, Values, Places
  <2>3. Trial'
    BY <1>a, <1>10 DEF ConfirmTimeout, Counting, Undecided, Trial, TrialPlaced, RefreshPlaced,
       CandidateOwnsFailures, ShowsTheConfirmed
  <2>4. Wire'
    BY <1>a, <1>10 DEF ConfirmTimeout, Wire, FreshPlaces, Quiet
  <2> QED
    BY <2>1, <2>2, <2>3, <2>4
<1>11. CASE Confirm
  <2>1. Flags'
    <3>1. StreamFlags'
      BY <1>b, <1>11, Zenon DEF Confirm, StreamFlags
    <3>2. TrialFlags'
      BY <1>b, <1>11, Zenon DEF Confirm, TrialFlags
    <3>3. ScreenFlags'
      BY <1>b, <1>11, Zenon DEF Confirm, ScreenFlags
    <3>4. PlanFlags'
      BY <1>b, <1>11, Zenon DEF Confirm, PlanFlags
    <3>5. QED
      BY <3>1, <3>2, <3>3, <3>4 DEF Flags
  <2>2. Values'
    BY <1>a, <1>11, SMT DEF Confirm, Values
  <2>3. Trial'
    BY <1>a, <1>11 DEF Confirm, Undecided, Trial, TrialPlaced, RefreshPlaced,
       CandidateOwnsFailures, ShowsTheConfirmed
  <2>4. Wire'
    BY <1>a, <1>11 DEF Confirm, Wire, Quiet
  <2> QED
    BY <2>1, <2>2, <2>3, <2>4
<1>12. CASE DeadlinePasses
  <2>1. Flags'
    BY <1>b, <1>12, SMT DEF DeadlinePasses, Flags, StreamFlags, TrialFlags,
       ScreenFlags, PlanFlags
  <2>2. Values'
    BY <1>a, <1>12, SMT DEF DeadlinePasses, Values
  <2>3. Trial'
    BY <1>a, <1>12 DEF DeadlinePasses, Trial, TrialPlaced, RefreshPlaced, CandidateOwnsFailures,
       ShowsTheConfirmed
  <2>4. Wire'
    BY <1>a, <1>12 DEF DeadlinePasses, Wire, Quiet
  <2> QED
    BY <2>1, <2>2, <2>3, <2>4
<1>13. CASE Answer
  <2>1. Flags'
    <3>1. StreamFlags'
      BY <1>b, <1>13, Zenon DEF Answer, StreamFlags
    <3>2. TrialFlags'
      BY <1>b, <1>13, Zenon DEF Answer, TrialFlags
    <3>3. ScreenFlags'
      BY <1>b, <1>13, Zenon DEF Answer, ScreenFlags
    <3>4. PlanFlags'
      BY <1>b, <1>13, Zenon DEF Answer, PlanFlags
    <3>5. QED
      BY <3>1, <3>2, <3>3, <3>4 DEF Flags
  <2>2. Values'
    BY <1>a, <1>13, SMT DEF Answer, Values
  <2>3. Trial'
    BY <1>a, <1>13 DEF Answer, Trial, TrialPlaced, RefreshPlaced, CandidateOwnsFailures,
       ShowsTheConfirmed
  <2>4. Wire'
    BY <1>a, <1>13 DEF Answer, Wire, Quiet
  <2> QED
    BY <2>1, <2>2, <2>3, <2>4
<1>14. CASE Top
  <2>1. Flags'
    BY <1>b, <1>14, SMT DEF Top, Flags, StreamFlags, TrialFlags, ScreenFlags, PlanFlags
  <2>2. Values'
    BY <1>a, <1>14, SMT DEF Top, LeaseExpires, Values, Places
  <2>3. Trial'
    BY <1>a, <1>14 DEF Top, Trial, TrialPlaced, SwitchPlaces, RefreshPlaced,
       CandidateOwnsFailures, ShowsTheConfirmed
  <2>4. Wire'
    BY <1>a, <1>14 DEF Top, Wire, FreshPlaces, Quiet
  <2> QED
    BY <2>1, <2>2, <2>3, <2>4
<1>15. CASE Poll
  <2>1. Flags'
    BY <1>b, <1>15, SMT DEF Poll, Flags, StreamFlags, TrialFlags, ScreenFlags, PlanFlags
  <2>2. Values'
    BY <1>a, <1>15, SMT DEF Poll, SetTemp, Restore, Values, Places
  <2>3. Trial'
    BY <1>a, <1>15 DEF Poll, Trial, TrialPlaced, SwitchPlaces, RefreshPlaced,
       CandidateOwnsFailures, ShowsTheConfirmed
  <2>4. Wire'
    BY <1>a, <1>15 DEF Poll, Wire, FreshPlaces, Quiet
  <2> QED
    BY <2>1, <2>2, <2>3, <2>4
<1>16. CASE ServeRefresh
  <2>1. Flags'
    <3>1. StreamFlags'
      BY <1>b, <1>16, Zenon DEF ServeRefresh, StartManualRecovery, StartRecovery,
         StreamFlags
    <3>2. TrialFlags'
      BY <1>b, <1>16, Zenon DEF ServeRefresh, StartManualRecovery, StartRecovery,
         TrialFlags
    <3>3. ScreenFlags'
      BY <1>b, <1>16, Zenon DEF ServeRefresh, StartManualRecovery, StartRecovery,
         ScreenFlags
    <3>4. PlanFlags'
      BY <1>b, <1>16, Zenon DEF ServeRefresh, StartManualRecovery, StartRecovery,
         PlanFlags
    <3>5. QED
      BY <3>1, <3>2, <3>3, <3>4 DEF Flags
  <2>2. Values'
    BY <1>a, <1>16, LiveLoopAssumption, SMT DEF ServeRefresh, StartManualRecovery, StartRecovery,
       Values, Places
  <2>3. Trial'
    BY <1>a, <1>16, ServesPublished DEF ServeRefresh, StartManualRecovery, StartRecovery,
       Published, Values, Trial, TrialPlaced, SwitchPlaces, RefreshPlaced, CandidateOwnsFailures,
       ShowsTheConfirmed
  <2>4. Wire'
    BY <1>16 DEF ServeRefresh, StartManualRecovery, StartRecovery, Wire, Quiet
  <2> QED
    BY <2>1, <2>2, <2>3, <2>4
<1>17. CASE ServeAcknowledge
  <2>1. Flags'
    BY <1>b, <1>17, SMT DEF ServeAcknowledge, Flags, StreamFlags, TrialFlags,
       ScreenFlags, PlanFlags
  <2>2. Values'
    BY <1>a, <1>17, SMT DEF ServeAcknowledge, Values, Places
  <2>3. Trial'
    BY <1>a, <1>17, ServesPublished DEF ServeAcknowledge, Published, Values, Trial, TrialPlaced,
       SwitchPlaces, RefreshPlaced, CandidateOwnsFailures, ShowsTheConfirmed
  <2>4. Wire'
    BY <1>a, <1>17, <2>2, ServesPublished DEF ServeAcknowledge, Published, Values, Wire,
       FreshPlaces, Quiet
  <2> QED
    BY <2>1, <2>2, <2>3, <2>4
<1>18. CASE Acked
  <2>1. Flags'
    <3>1. StreamFlags'
      BY <1>b, <1>18, Zenon DEF Acked, OpenMenu, StreamFlags
    <3>2. TrialFlags'
      BY <1>b, <1>18, Zenon DEF Acked, OpenMenu, TrialFlags
    <3>3. ScreenFlags'
      BY <1>b, <1>18, Zenon DEF Acked, OpenMenu, ScreenFlags
    <3>4. PlanFlags'
      BY <1>b, <1>18, Zenon DEF Acked, OpenMenu, PlanFlags
    <3>5. QED
      BY <3>1, <3>2, <3>3, <3>4 DEF Flags
  <2>2. Values'
    BY <1>a, <1>18, SMT DEF Acked, Values, Places
  <2>3. Trial'
    BY <1>a, <1>18 DEF Acked, Trial, TrialPlaced, SwitchPlaces, RefreshPlaced,
       CandidateOwnsFailures, ShowsTheConfirmed
  <2>4. Wire'
    BY <1>a, <1>18 DEF Acked, Wire, FreshPlaces, Quiet
  <2> QED
    BY <2>1, <2>2, <2>3, <2>4
<1>19. CASE ServePolicy
  <2>1. Flags'
    BY <1>b, <1>19, SMT DEF ServePolicy, Flags, StreamFlags, TrialFlags, ScreenFlags,
       PlanFlags
  <2>2. Values'
    BY <1>a, <1>19, SMT DEF ServePolicy, Values, Places
  <2>3. Trial'
    BY <1>a, <1>19, ServesPublished DEF ServePolicy, Published, Values, Trial, TrialPlaced,
       SwitchPlaces, RefreshPlaced, CandidateOwnsFailures, ShowsTheConfirmed
  <2>4. Wire'
    BY <1>a, <1>19, <2>2, ServesPublished DEF ServePolicy, Published, Values, Wire, FreshPlaces,
       Quiet
  <2> QED
    BY <2>1, <2>2, <2>3, <2>4
<1>20. CASE PolicyDone
  <2>1. Flags'
    <3>1. StreamFlags'
      BY <1>b, <1>20, Zenon DEF PolicyDone, StreamFlags
    <3>2. TrialFlags'
      BY <1>b, <1>20, Zenon DEF PolicyDone, TrialFlags
    <3>3. ScreenFlags'
      BY <1>b, <1>20, Zenon DEF PolicyDone, ScreenFlags
    <3>4. PlanFlags'
      BY <1>b, <1>20, Zenon DEF PolicyDone, PlanFlags
    <3>5. QED
      BY <3>1, <3>2, <3>3, <3>4 DEF Flags
  <2>2. Values'
    BY <1>a, <1>20, SMT DEF PolicyDone, Values, Places
  <2>3. Trial'
    BY <1>a, <1>20 DEF PolicyDone, Trial, TrialPlaced, SwitchPlaces, RefreshPlaced,
       CandidateOwnsFailures, ShowsTheConfirmed
  <2>4. Wire'
    BY <1>a, <1>20 DEF PolicyDone, Wire, FreshPlaces, Quiet
  <2> QED
    BY <2>1, <2>2, <2>3, <2>4
<1>21. CASE ServeCalibration
  <2>1. Flags'
    <3>1. StreamFlags'
      BY <1>b, <1>21, Zenon DEF ServeCalibration, StreamFlags
    <3>2. TrialFlags'
      BY <1>b, <1>21, Zenon DEF ServeCalibration, TrialFlags
    <3>3. ScreenFlags'
      BY <1>b, <1>21, Zenon DEF ServeCalibration, ScreenFlags
    <3>4. PlanFlags'
      BY <1>b, <1>21, Zenon DEF ServeCalibration, PlanFlags
    <3>5. QED
      BY <3>1, <3>2, <3>3, <3>4 DEF Flags
  <2>2. Values'
    BY <1>a, <1>21, SMT DEF ServeCalibration, Values, Places
  <2>3. Trial'
    BY <1>a, <1>21, ServesPublished DEF ServeCalibration, Published, Values, Trial, TrialPlaced,
       SwitchPlaces, RefreshPlaced, CandidateOwnsFailures, ShowsTheConfirmed
  <2>4. Wire'
    BY <1>a, <1>21, <2>2, ServesPublished DEF ServeCalibration, Published, Values, Wire,
       FreshPlaces, Quiet
  <2> QED
    BY <2>1, <2>2, <2>3, <2>4
<1>22. CASE Calibrated
  <2>1. Flags'
    <3>1. StreamFlags'
      BY <1>b, <1>22, Zenon DEF Calibrated, StreamFlags
    <3>2. TrialFlags'
      BY <1>b, <1>22, Zenon DEF Calibrated, TrialFlags
    <3>3. ScreenFlags'
      BY <1>b, <1>22, Zenon DEF Calibrated, ScreenFlags
    <3>4. PlanFlags'
      BY <1>b, <1>22, Zenon DEF Calibrated, PlanFlags
    <3>5. QED
      BY <3>1, <3>2, <3>3, <3>4 DEF Flags
  <2>2. Values'
    BY <1>a, <1>22, SMT DEF Calibrated, Values, Places
  <2>3. Trial'
    BY <1>a, <1>22 DEF Calibrated, Trial, TrialPlaced, SwitchPlaces, RefreshPlaced,
       CandidateOwnsFailures, ShowsTheConfirmed
  <2>4. Wire'
    BY <1>a, <1>22 DEF Calibrated, Wire, FreshPlaces, Quiet
  <2> QED
    BY <2>1, <2>2, <2>3, <2>4
<1>23. CASE ServeCommit
  <2>1. Flags'
    BY <1>b, <1>23, SMT DEF ServeCommit, Flags, StreamFlags, TrialFlags, ScreenFlags,
       PlanFlags
  <2>2. Values'
    BY <1>a, <1>23, SMT DEF ServeCommit, Values, Places
  <2>3. Trial'
    BY <1>a, <1>23, ServesPublished DEF ServeCommit, Published, Values, Trial, TrialPlaced,
       SwitchPlaces, RefreshPlaced, CandidateOwnsFailures, ShowsTheConfirmed
  <2>4. Wire'
    BY <1>a, <1>23, <2>2, ServesPublished DEF ServeCommit, Published, Values, Wire, FreshPlaces,
       Quiet
  <2> QED
    BY <2>1, <2>2, <2>3, <2>4
<1>24. CASE Committed
  <2>1. Flags'
    <3>1. StreamFlags'
      BY <1>b, <1>24, Zenon DEF Committed, Disarm, OpenMenu, StreamFlags
    <3>2. TrialFlags'
      BY <1>b, <1>24, Zenon DEF Committed, Disarm, OpenMenu, TrialFlags
    <3>3. ScreenFlags'
      BY <1>b, <1>24, Zenon DEF Committed, Disarm, OpenMenu, ScreenFlags
    <3>4. PlanFlags'
      BY <1>b, <1>24, Zenon DEF Committed, Disarm, OpenMenu, PlanFlags
    <3>5. QED
      BY <3>1, <3>2, <3>3, <3>4 DEF Flags
  <2>2. Values'
    BY <1>a, <1>24, SMT DEF Committed, Disarm, Values, Places
  <2>3. Trial'
    BY <1>a, <1>24 DEF Committed, Disarm, Trial, TrialPlaced, SwitchPlaces, RefreshPlaced,
       CandidateOwnsFailures, ShowsTheConfirmed
  <2>4. Wire'
    BY <1>a, <1>24 DEF Committed, Wire, FreshPlaces, Quiet
  <2> QED
    BY <2>1, <2>2, <2>3, <2>4
<1>25. CASE ServeRollback
  <2>1. Flags'
    <3>1. StreamFlags'
      BY <1>b, <1>25, Zenon DEF ServeRollback, StartRollback, StreamFlags
    <3>2. TrialFlags'
      BY <1>b, <1>25, Zenon DEF ServeRollback, StartRollback, TrialFlags
    <3>3. ScreenFlags'
      BY <1>b, <1>25, Zenon DEF ServeRollback, StartRollback, ScreenFlags
    <3>4. PlanFlags'
      BY <1>b, <1>25, Zenon DEF ServeRollback, StartRollback, PlanFlags
    <3>5. QED
      BY <3>1, <3>2, <3>3, <3>4 DEF Flags
  <2>2. Values'
    BY <1>a, <1>25, SMT DEF ServeRollback, StartRollback, Values, Places
  <2>3. Trial'
    BY <1>a, <1>25, ServesPublished DEF ServeRollback, StartRollback, Published, Values, Trial,
       TrialPlaced, SwitchPlaces, RefreshPlaced, CandidateOwnsFailures, ShowsTheConfirmed
  <2>4. Wire'
    BY <1>a, <1>25, <2>2, ServesPublished DEF ServeRollback, StartRollback, Published, Values,
       Wire, FreshPlaces, Quiet
  <2> QED
    BY <2>1, <2>2, <2>3, <2>4
<1>26. CASE ServeMode
  <2>1. Flags'
    <3>1. StreamFlags'
      BY <1>b, <1>26, Zenon DEF ServeMode, StreamFlags
    <3>2. TrialFlags'
      BY <1>b, <1>26, Zenon DEF ServeMode, TrialFlags
    <3>3. ScreenFlags'
      BY <1>b, <1>26, Zenon DEF ServeMode, ScreenFlags
    <3>4. PlanFlags'
      BY <1>b, <1>26, Zenon DEF ServeMode, PlanFlags
    <3>5. QED
      BY <3>1, <3>2, <3>3, <3>4 DEF Flags
  <2>2. Values'
    BY <1>a, <1>26, SMT DEF ServeMode, Values, Places
  <2>3. Trial'
    BY <1>a, <1>26, ServesPublished DEF ServeMode, Published, Values, Trial, TrialPlaced,
       SwitchPlaces, RefreshPlaced, CandidateOwnsFailures, ShowsTheConfirmed
  <2>4. Wire'
    BY <1>a, <1>26, <2>2, ServesPublished DEF ServeMode, Published, Values, Wire, FreshPlaces,
       Quiet
  <2> QED
    BY <2>1, <2>2, <2>3, <2>4
<1>27. CASE BeginRefused
  <2>1. Flags'
    <3>1. StreamFlags'
      BY <1>b, <1>27, Zenon DEF BeginRefused, StreamFlags
    <3>2. TrialFlags'
      BY <1>b, <1>27, Zenon DEF BeginRefused, TrialFlags
    <3>3. ScreenFlags'
      BY <1>b, <1>27, Zenon DEF BeginRefused, ScreenFlags
    <3>4. PlanFlags'
      BY <1>b, <1>27, Zenon DEF BeginRefused, PlanFlags
    <3>5. QED
      BY <3>1, <3>2, <3>3, <3>4 DEF Flags
  <2>2. Values'
    BY <1>a, <1>27, SMT DEF BeginRefused, Values, Places
  <2>3. Trial'
    BY <1>a, <1>27 DEF BeginRefused, Trial, TrialPlaced, SwitchPlaces, RefreshPlaced,
       CandidateOwnsFailures, ShowsTheConfirmed
  <2>4. Wire'
    BY <1>a, <1>27 DEF BeginRefused, Wire, FreshPlaces, Quiet
  <2> QED
    BY <2>1, <2>2, <2>3, <2>4
<1>28. CASE Begun
  <2>1. Flags'
    <3>1. StreamFlags'
      BY <1>b, <1>28, Zenon DEF Begun, StreamFlags
    <3>2. TrialFlags'
      BY <1>b, <1>28, Zenon DEF Begun, TrialFlags
    <3>3. ScreenFlags'
      BY <1>b, <1>28, Zenon DEF Begun, ScreenFlags
    <3>4. PlanFlags'
      BY <1>b, <1>28, Zenon DEF Begun, PlanFlags
    <3>5. QED
      BY <3>1, <3>2, <3>3, <3>4 DEF Flags
  <2>2. Values'
    BY <1>a, <1>28, SMT DEF Begun, Values, Places
  <2>3. Trial'
    BY <1>a, <1>28 DEF Begun, Trial, TrialPlaced, SwitchPlaces, RefreshPlaced,
       CandidateOwnsFailures, ShowsTheConfirmed
  <2>4. Wire'
    BY <1>a, <1>28 DEF Begun, Wire, FreshPlaces, Quiet
  <2> QED
    BY <2>1, <2>2, <2>3, <2>4
<1>29. CASE SwitchFails
  <2>1. Flags'
    <3>1. StreamFlags'
      BY <1>b, <1>29, Zenon DEF SwitchFails, SwitchEnds, StartRollback, StreamFlags
    <3>2. TrialFlags'
      BY <1>b, <1>29, Zenon DEF SwitchFails, SwitchEnds, StartRollback, TrialFlags
    <3>3. ScreenFlags'
      BY <1>b, <1>29, Zenon DEF SwitchFails, SwitchEnds, StartRollback, ScreenFlags
    <3>4. PlanFlags'
      BY <1>b, <1>29, Zenon DEF SwitchFails, SwitchEnds, StartRollback, PlanFlags
    <3>5. QED
      BY <3>1, <3>2, <3>3, <3>4 DEF Flags
  <2>2. Values'
    BY <1>a, <1>29, SMT DEF SwitchFails, SwitchEnds, StartRollback, Values, Places
  <2>3. Trial'
    BY <1>a, <1>29 DEF SwitchFails, SwitchEnds, StartRollback, Trial, TrialPlaced, SwitchPlaces,
       RefreshPlaced, CandidateOwnsFailures, ShowsTheConfirmed
  <2>4. Wire'
    BY <1>a, <1>29 DEF SwitchFails, StartRollback, Wire, FreshPlaces
  <2> QED
    BY <2>1, <2>2, <2>3, <2>4
<1>30. CASE SwitchRejected
  <2>1. Flags'
    <3>1. StreamFlags'
      BY <1>b, <1>30, Zenon DEF SwitchRejected, SwitchEnds, StartRollback, StreamFlags
    <3>2. TrialFlags'
      BY <1>b, <1>30, Zenon DEF SwitchRejected, SwitchEnds, StartRollback, TrialFlags
    <3>3. ScreenFlags'
      BY <1>b, <1>30, Zenon DEF SwitchRejected, SwitchEnds, StartRollback, ScreenFlags
    <3>4. PlanFlags'
      BY <1>b, <1>30, Zenon DEF SwitchRejected, SwitchEnds, StartRollback, PlanFlags
    <3>5. QED
      BY <3>1, <3>2, <3>3, <3>4 DEF Flags
  <2>2. Values'
    BY <1>a, <1>30, SMT DEF SwitchRejected, SwitchEnds, StartRollback, Values, Places
  <2>3. Trial'
    BY <1>a, <1>30 DEF SwitchRejected, SwitchEnds, StartRollback, Trial, TrialPlaced,
       SwitchPlaces, RefreshPlaced, CandidateOwnsFailures, ShowsTheConfirmed
  <2>4. Wire'
    BY <1>30 DEF SwitchRejected, StartRollback, Wire, Quiet
  <2> QED
    BY <2>1, <2>2, <2>3, <2>4
<1>31. CASE SwitchDone
  <2>1. Flags'
    <3>1. StreamFlags'
      BY <1>b, <1>31, Zenon DEF SwitchDone, SwitchEnds, StreamFlags
    <3>2. TrialFlags'
      BY <1>b, <1>31, Zenon DEF SwitchDone, SwitchEnds, TrialFlags
    <3>3. ScreenFlags'
      BY <1>b, <1>31, Zenon DEF SwitchDone, SwitchEnds, ScreenFlags
    <3>4. PlanFlags'
      BY <1>b, <1>31, Zenon DEF SwitchDone, SwitchEnds, PlanFlags
    <3>5. QED
      BY <3>1, <3>2, <3>3, <3>4 DEF Flags
  <2>2. Values'
    BY <1>a, <1>31, SMT DEF SwitchDone, SwitchEnds, Values, Places
  <2>3. Trial'
    BY <1>a, <1>31 DEF SwitchDone, SwitchEnds, Trial, TrialPlaced, SwitchPlaces, RefreshPlaced,
       CandidateOwnsFailures, ShowsTheConfirmed
  <2>4. Wire'
    BY <1>31 DEF SwitchDone, Wire, Quiet
  <2> QED
    BY <2>1, <2>2, <2>3, <2>4
<1>32. CASE Marked
  <2>1. Flags'
    <3>1. StreamFlags'
      BY <1>b, <1>32, Zenon DEF Marked, StreamFlags
    <3>2. TrialFlags'
      BY <1>b, <1>32, Zenon DEF Marked, TrialFlags
    <3>3. ScreenFlags'
      BY <1>b, <1>32, Zenon DEF Marked, ScreenFlags
    <3>4. PlanFlags'
      BY <1>b, <1>32, Zenon DEF Marked, PlanFlags
    <3>5. QED
      BY <3>1, <3>2, <3>3, <3>4 DEF Flags
  <2>2. Values'
    BY <1>a, <1>32, LiveLoopAssumption, SMT DEF Marked, Values, Places
  <2>3. Trial'
    BY <1>a, <1>32 DEF Marked, Trial, TrialPlaced, SwitchPlaces, RefreshPlaced,
       CandidateOwnsFailures, ShowsTheConfirmed
  <2>4. Wire'
    BY <1>a, <1>32 DEF Marked, Wire, FreshPlaces, Quiet
  <2> QED
    BY <2>1, <2>2, <2>3, <2>4
<1>33. CASE Reopen
  <2>1. Flags'
    BY <1>b, <1>33, SMT DEF Reopen, Flags, StreamFlags, TrialFlags, ScreenFlags,
       PlanFlags
  <2>2. Values'
    BY <1>a, <1>33, LiveLoopAssumption, SMT DEF Reopen, AttemptFails, Values, Places
  <2>3. Trial'
    BY <1>a, <1>33 DEF Reopen, AttemptFails, Trial, TrialPlaced, SwitchPlaces, RefreshPlaced,
       CandidateOwnsFailures, ShowsTheConfirmed
  <2>4. Wire'
    BY <1>a, <1>33 DEF Reopen, AttemptFails, Wire, FreshPlaces, Quiet
  <2> QED
    BY <2>1, <2>2, <2>3, <2>4
<1>34. CASE Restored
  <2>1. Flags'
    <3>1. StreamFlags'
      BY <1>b, <1>34, Zenon DEF Restored, Disarm, HardEscape, StreamFlags
    <3>2. TrialFlags'
      BY <1>b, <1>34, Zenon DEF Restored, Disarm, HardEscape, TrialFlags
    <3>3. ScreenFlags'
      BY <1>b, <1>34, Zenon DEF Restored, Disarm, HardEscape, ScreenFlags
    <3>4. PlanFlags'
      BY <1>b, <1>34, Zenon DEF Restored, Disarm, HardEscape, PlanFlags
    <3>5. QED
      BY <3>1, <3>2, <3>3, <3>4 DEF Flags
  <2>2. Values'
    <3>1. previous \in Modes
      BY <1>a, <1>34 DEF Restored, Values, Trial, TrialPlaced, SwitchPlaces
    <3> QED
      BY <1>a, <1>34, <3>1, SMT DEF Restored, Disarm, Values, Places
  <2>3. Trial'
    BY <1>a, <1>34 DEF Restored, Disarm, HardEscape, Values, Trial, TrialPlaced, SwitchPlaces,
       RefreshPlaced, CandidateOwnsFailures, ShowsTheConfirmed
  <2>4. Wire'
    BY <1>a, <1>34 DEF Restored, Wire, FreshPlaces, Quiet
  <2> QED
    BY <2>1, <2>2, <2>3, <2>4
<1>35. CASE Reported
  <2>1. Flags'
    <3>1. StreamFlags'
      BY <1>b, <1>35, Zenon DEF Reported, StreamFlags
    <3>2. TrialFlags'
      BY <1>b, <1>35, Zenon DEF Reported, TrialFlags
    <3>3. ScreenFlags'
      BY <1>b, <1>35, Zenon DEF Reported, ScreenFlags
    <3>4. PlanFlags'
      BY <1>b, <1>35, Zenon DEF Reported, PlanFlags
    <3>5. QED
      BY <3>1, <3>2, <3>3, <3>4 DEF Flags
  <2>2. Values'
    BY <1>a, <1>35, SMT DEF Reported, Values, Places
  <2>3. Trial'
    BY <1>a, <1>35 DEF Reported, Trial, TrialPlaced, SwitchPlaces, RefreshPlaced,
       CandidateOwnsFailures, ShowsTheConfirmed
  <2>4. Wire'
    BY <1>a, <1>35 DEF Reported, Wire, FreshPlaces, Quiet
  <2> QED
    BY <2>1, <2>2, <2>3, <2>4
<1>36. CASE Draw
  <2>1. Flags'
    <3>1. StreamFlags'
      BY <1>b, <1>36, Zenon DEF Draw, StreamFlags
    <3>2. TrialFlags'
      BY <1>b, <1>36, Zenon DEF Draw, TrialFlags
    <3>3. ScreenFlags'
      BY <1>b, <1>36, Zenon DEF Draw, ScreenFlags
    <3>4. PlanFlags'
      BY <1>b, <1>36, Zenon DEF Draw, PlanFlags
    <3>5. QED
      BY <3>1, <3>2, <3>3, <3>4 DEF Flags
  <2>2. Values'
    BY <1>a, <1>36, SMT DEF Draw, Values, Places
  <2>3. Trial'
    BY <1>a, <1>36 DEF Draw, Trial, TrialPlaced, SwitchPlaces, RefreshPlaced,
       CandidateOwnsFailures, ShowsTheConfirmed
  <2>4. Wire'
    BY <1>a, <1>36 DEF Draw, Wire, FreshPlaces, Quiet
  <2> QED
    BY <2>1, <2>2, <2>3, <2>4
<1>37. CASE RequestFails
  <2>1. Flags'
    <3>1. StreamFlags'
      BY <1>b, <1>37, Zenon DEF RequestFails, RollbackOrRecover, StartRollback,
         StartRecovery, StreamFlags
    <3>2. TrialFlags'
      BY <1>b, <1>37, Zenon DEF RequestFails, RollbackOrRecover, StartRollback,
         StartRecovery, TrialFlags
    <3>3. ScreenFlags'
      BY <1>b, <1>37, Zenon DEF RequestFails, RollbackOrRecover, StartRollback,
         StartRecovery, ScreenFlags
    <3>4. PlanFlags'
      BY <1>b, <1>37, Zenon DEF RequestFails, RollbackOrRecover, StartRollback,
         StartRecovery, PlanFlags
    <3>5. QED
      BY <3>1, <3>2, <3>3, <3>4 DEF Flags
  <2>2. Values'
    BY <1>a, <1>37, LiveLoopAssumption, SMT DEF RequestFails, RollbackOrRecover, StartRollback,
       StartRecovery, Values, Places
  <2>3. Trial'
    BY <1>a, <1>37 DEF RequestFails, RollbackOrRecover, Unkept, StartRollback, StartRecovery,
       Trial, TrialPlaced, SwitchPlaces, RefreshPlaced, CandidateOwnsFailures, ShowsTheConfirmed
  <2>4. Wire'
    BY <1>a, <1>37 DEF RequestFails, RollbackOrRecover, StartRollback, StartRecovery, Wire, Quiet
  <2> QED
    BY <2>1, <2>2, <2>3, <2>4
<1>38. CASE Ask
  <2>1. Flags'
    BY <1>b, <1>38, SMT DEF Ask, Flags, StreamFlags, TrialFlags, ScreenFlags, PlanFlags
  <2>2. Values'
    BY <1>a, <1>38, SMT DEF Ask, Values, Places
  <2>3. Trial'
    BY <1>a, <1>38 DEF Ask, Trial, TrialPlaced, SwitchPlaces, RefreshPlaced,
       CandidateOwnsFailures, ShowsTheConfirmed
  <2>4. Wire'
    <3>1. main' = "waiting" /\ wire' = wire /\ outstanding'
      BY <1>38 DEF Ask
    <3>2. asked' => asked \/ ~outstanding
      BY <1>38, Zenon DEF Ask
    <3>3. ~outstanding => wire = 0
      BY <1>a, <1>38 DEF Ask, Wire, Quiet
    <3> QED
      BY <1>a, <3>1, <3>2, <3>3 DEF Wire, FreshPlaces
  <2> QED
    BY <2>1, <2>2, <2>3, <2>4
<1>39. CASE Yield
  <2>1. Flags'
    <3>1. StreamFlags'
      BY <1>b, <1>39, Zenon DEF Yield, StreamFlags
    <3>2. TrialFlags'
      BY <1>b, <1>39, Zenon DEF Yield, TrialFlags
    <3>3. ScreenFlags'
      BY <1>b, <1>39, Zenon DEF Yield, ScreenFlags
    <3>4. PlanFlags'
      BY <1>b, <1>39, Zenon DEF Yield, PlanFlags
    <3>5. QED
      BY <3>1, <3>2, <3>3, <3>4 DEF Flags
  <2>2. Values'
    BY <1>a, <1>39, SMT DEF Yield, Values, Places
  <2>3. Trial'
    BY <1>a, <1>39 DEF Yield, Trial, TrialPlaced, SwitchPlaces, RefreshPlaced,
       CandidateOwnsFailures, ShowsTheConfirmed
  <2>4. Wire'
    BY <1>a, <1>39 DEF Yield, Wire, FreshPlaces, Quiet
  <2> QED
    BY <2>1, <2>2, <2>3, <2>4
<1>40. CASE Arrives
  <2>1. Flags'
    BY <1>b, <1>40, SMT DEF Arrives, Flags, StreamFlags, TrialFlags, ScreenFlags,
       PlanFlags
  <2>2. Values'
    BY <1>a, <1>40, SMT DEF Arrives, Values, Places
  <2>3. Trial'
    BY <1>a, <1>40 DEF Arrives, Trial, TrialPlaced, SwitchPlaces, RefreshPlaced,
       CandidateOwnsFailures, ShowsTheConfirmed
  <2>4. Wire'
    BY <1>a, <1>40 DEF Arrives, Wire, FreshPlaces, Quiet
  <2> QED
    BY <2>1, <2>2, <2>3, <2>4
<1>41. CASE Idle
  <2>1. Flags'
    BY <1>b, <1>41, SMT DEF Idle, Flags, StreamFlags, TrialFlags, ScreenFlags, PlanFlags
  <2>2. Values'
    BY <1>a, <1>41, SMT DEF Idle, Values, Places
  <2>3. Trial'
    BY <1>a, <1>41 DEF Idle, Trial, TrialPlaced, SwitchPlaces, RefreshPlaced,
       CandidateOwnsFailures, ShowsTheConfirmed
  <2>4. Wire'
    BY <1>a, <1>41 DEF Idle, Wire, FreshPlaces, Quiet
  <2> QED
    BY <2>1, <2>2, <2>3, <2>4
<1>42. CASE IdlePoll
  <2>1. Flags'
    <3>1. StreamFlags'
      BY <1>b, <1>42, Zenon DEF IdlePoll, StreamFlags
    <3>2. TrialFlags'
      BY <1>b, <1>42, Zenon DEF IdlePoll, TrialFlags
    <3>3. ScreenFlags'
      BY <1>b, <1>42, Zenon DEF IdlePoll, ScreenFlags
    <3>4. PlanFlags'
      BY <1>b, <1>42, Zenon DEF IdlePoll, PlanFlags
    <3>5. QED
      BY <3>1, <3>2, <3>3, <3>4 DEF Flags
  <2>2. Values'
    BY <1>a, <1>42, SMT DEF IdlePoll, SetTemp, Restore, Values, Places
  <2>3. Trial'
    BY <1>a, <1>42 DEF IdlePoll, Trial, TrialPlaced, SwitchPlaces, RefreshPlaced,
       CandidateOwnsFailures, ShowsTheConfirmed
  <2>4. Wire'
    BY <1>a, <1>42 DEF IdlePoll, Wire, FreshPlaces, Quiet
  <2> QED
    BY <2>1, <2>2, <2>3, <2>4
<1>43. CASE Complete
  <2>1. Flags'
    <3>1. StreamFlags'
      BY <1>b, <1>43, Zenon DEF Complete, StreamFlags
    <3>2. TrialFlags'
      BY <1>b, <1>43, Zenon DEF Complete, TrialFlags
    <3>3. ScreenFlags'
      BY <1>b, <1>43, Zenon DEF Complete, ScreenFlags
    <3>4. PlanFlags'
      BY <1>b, <1>43, Zenon DEF Complete, PlanFlags
    <3>5. QED
      BY <3>1, <3>2, <3>3, <3>4 DEF Flags
  <2>2. Values'
    BY <1>a, <1>43, SMT DEF Complete, Values, Places
  <2>3. Trial'
    BY <1>a, <1>43 DEF Complete, Trial, TrialPlaced, SwitchPlaces, RefreshPlaced,
       CandidateOwnsFailures, ShowsTheConfirmed
  <2>4. Wire'
    BY <1>a, <1>43 DEF Complete, Wire, Quiet
  <2> QED
    BY <2>1, <2>2, <2>3, <2>4
<1>44. CASE ReceiveFails
  <2>1. Flags'
    <3>1. StreamFlags'
      BY <1>b, <1>44, Zenon DEF ReceiveFails, RollbackOrRecover, StartRollback,
         StartRecovery, StartManualRecovery, StreamFlags
    <3>2. TrialFlags'
      BY <1>b, <1>44, Zenon DEF ReceiveFails, RollbackOrRecover, StartRollback,
         StartRecovery, StartManualRecovery, TrialFlags
    <3>3. ScreenFlags'
      BY <1>b, <1>44, Zenon DEF ReceiveFails, RollbackOrRecover, StartRollback,
         StartRecovery, StartManualRecovery, ScreenFlags
    <3>4. PlanFlags'
      BY <1>b, <1>44, Zenon DEF ReceiveFails, RollbackOrRecover, StartRollback,
         StartRecovery, StartManualRecovery, PlanFlags
    <3>5. QED
      BY <3>1, <3>2, <3>3, <3>4 DEF Flags
  <2>2. Values'
    BY <1>a, <1>44, LiveLoopAssumption, SMT DEF ReceiveFails, RollbackOrRecover, StartRollback,
       StartRecovery, StartManualRecovery, Values, Places
  <2>3. Trial'
    BY <1>a, <1>44 DEF ReceiveFails, RollbackOrRecover, Unkept, StartRollback, StartRecovery,
       StartManualRecovery, Trial, TrialPlaced, SwitchPlaces, RefreshPlaced,
       CandidateOwnsFailures, ShowsTheConfirmed
  <2>4. Wire'
    BY <1>a, <1>44 DEF ReceiveFails, RollbackOrRecover, StartRollback, StartRecovery,
       StartManualRecovery, Wire, FreshPlaces, Quiet
  <2> QED
    BY <2>1, <2>2, <2>3, <2>4
<1>45. CASE Recover
  <2>1. Flags'
    BY <1>b, <1>45, SMT DEF Recover, Flags, StreamFlags, TrialFlags, ScreenFlags,
       PlanFlags
  <2>2. Values'
    BY <1>a, <1>45, LiveLoopAssumption, SMT DEF Recover, AttemptFails, Values, Places
  <2>3. Trial'
    BY <1>a, <1>45 DEF Recover, AttemptFails, Trial, TrialPlaced, SwitchPlaces, RefreshPlaced,
       CandidateOwnsFailures, ShowsTheConfirmed
  <2>4. Wire'
    BY <1>a, <1>45 DEF Recover, AttemptFails, Wire, FreshPlaces, Quiet
  <2> QED
    BY <2>1, <2>2, <2>3, <2>4
<1>46. CASE ReplaceFails
  <2>1. Flags'
    BY <1>b, <1>46, SMT DEF ReplaceFails, Flags, StreamFlags, TrialFlags, ScreenFlags,
       PlanFlags
  <2>2. Values'
    BY <1>a, <1>46, LiveLoopAssumption, SMT DEF ReplaceFails, AttemptFails, SetTemp, Values,
       Places
  <2>3. Trial'
    BY <1>a, <1>46 DEF ReplaceFails, AttemptFails, SetTemp, Trial, TrialPlaced, SwitchPlaces,
       RefreshPlaced, CandidateOwnsFailures, ShowsTheConfirmed
  <2>4. Wire'
    BY <1>a, <1>46 DEF ReplaceFails, AttemptFails, Wire, FreshPlaces, Quiet
  <2> QED
    BY <2>1, <2>2, <2>3, <2>4
<1>47. CASE Replaced
  <2>1. Flags'
    <3>1. StreamFlags'
      BY <1>b, <1>47, Zenon DEF Replaced, StreamFlags
    <3>2. TrialFlags'
      BY <1>b, <1>47, Zenon DEF Replaced, TrialFlags
    <3>3. ScreenFlags'
      BY <1>b, <1>47, Zenon DEF Replaced, ScreenFlags
    <3>4. PlanFlags'
      BY <1>b, <1>47, Zenon DEF Replaced, PlanFlags
    <3>5. QED
      BY <3>1, <3>2, <3>3, <3>4 DEF Flags
  <2>2. Values'
    BY <1>a, <1>47, LiveLoopAssumption, SMT DEF Replaced, Values, Places
  <2>3. Trial'
    BY <1>a, <1>47 DEF Replaced, Trial, TrialPlaced, SwitchPlaces, RefreshPlaced,
       CandidateOwnsFailures, ShowsTheConfirmed
  <2>4. Wire'
    BY <1>a, <1>47 DEF Replaced, Wire, FreshPlaces, Quiet
  <2> QED
    BY <2>1, <2>2, <2>3, <2>4
<1>48. CASE UNCHANGED vars
  BY <1>a, <1>48 DEF vars, Flags, StreamFlags, TrialFlags, ScreenFlags, PlanFlags, Values,
     Trial, TrialPlaced, RefreshPlaced, CandidateOwnsFailures, ShowsTheConfirmed, Wire, Quiet
<1> QED
  BY <1>1, <1>2, <1>3, <1>4, <1>5, <1>6, <1>7, <1>8, <1>9, <1>10, <1>11, <1>12, <1>13, <1>14,
     <1>15, <1>16, <1>17, <1>18, <1>19, <1>20, <1>21, <1>22, <1>23, <1>24, <1>25, <1>26, <1>27,
     <1>28, <1>29, <1>30, <1>31, <1>32, <1>33, <1>34, <1>35, <1>36, <1>37, <1>38, <1>39, <1>40,
     <1>41, <1>42, <1>43, <1>44, <1>45, <1>46, <1>47, <1>48
     DEF Next, Controller, Main, Exited

\* Every interleaving of the main thread, the controller, the clock and the
\* server keeps the inductive invariant.
THEOREM LiveInvariant == Spec => []Inv
<1> QED
  BY InvInit, InvStep, PTL DEF Spec

\* Every variable keeps its type.
THEOREM LiveTypeCorrect == Spec => []TypeOK
<1>1. Inv => TypeOK
  BY DEF Inv
<1> QED
  BY <1>1, LiveInvariant, PTL

\* No transport failure is recovered from in a configuration nobody has kept.
THEOREM FailuresAlwaysOwned == Spec => []CandidateOwnsFailures
<1>1. Inv => CandidateOwnsFailures
  BY DEF Inv, Trial
<1> QED
  BY <1>1, LiveInvariant, PTL

\* With no transaction open the display shows the mode the Pi has on record.
THEOREM AlwaysShowsTheConfirmed == Spec => []ShowsTheConfirmed
<1>1. Inv => ShowsTheConfirmed
  BY DEF Inv, Trial
<1> QED
  BY <1>1, LiveInvariant, PTL

\* The client never asks for an update while an earlier request is unanswered
\* or its answer unread, across yields, switches, rollbacks and recoveries.
THEOREM AlwaysOneRequest == Spec => OneRequestAtATime
<1> DEFINE Once == main = "drawing" /\ main' = "waiting" /\ ~outstanding => ~asked /\ wire = 0
<1>1. Inv => Once
  BY DEF Inv, Wire, Quiet
<1>2. Inv /\ [Next]_vars => [Once]_vars
  BY <1>1
<1> QED
  BY <1>2, LiveInvariant, PTL DEF Spec, OneRequestAtATime

===============================================================================
