------------------------------- MODULE LiveLoop -------------------------------
(* The live loop of the legacy client (working/b4a): the main thread that owns  *)
(* the RFB socket and the display, and the controller thread that publishes     *)
(* requests to it through shared variables without a lock.                      *)
(*                                                                              *)
(* The main thread runs at a higher priority than the controller, so the        *)
(* controller acts where the main thread blocks: in a receive, an HTTP exchange *)
(* with the Pi, a flip, a sleep.  "main" names these places, and the two where  *)
(* the loop decides what to do; one action runs from one to the next.  The VNC  *)
(* server answers a request when it likes; what the Pi's management service     *)
(* answers is either outcome.  Failures of the GS, which end the client, and    *)
(* the menu's own cursor are left out.                                          *)
EXTENDS Naturals

CONSTANTS
  MaxAttempts,       \* RECONNECT_MAX_ATTEMPTS
  Modes              \* the catalogue of display modes

ASSUME LiveLoopAssumption ==
  MaxAttempts \in Nat \ {0} /\ Modes # {} /\ "none" \notin Modes

VARIABLES
  main,              \* where the main thread is
  outstanding,       \* rfb_update_request_outstanding
  asked, wire,       \* the session's server: a request unanswered, updates sent
  runtime_action,    \* runtime_action_request
  exit_requested,
  refresh_state,     \* system_refresh_state
  pending, visible, action,   \* display_confirm_*
  active, previous,  \* active_video_mode, display_confirm_previous_mode
  confirmed,         \* the Pi's record: the mode last kept
  expired,           \* DISPLAY_CONFIRM_TIMEOUT_SECONDS have passed since arming
  remote,            \* remote_display_state
  mode_request,      \* display_mode_request with display_mode_request_remote
  request_is_remote, \* the claimed request's
  ack,               \* display_restore_ack_visible and _request
  menu, loaded,      \* display_menu_visible, display_policy_loaded
  policy,            \* display_policy_request
  calibration,       \* display_calibration_request: the mode it names
  redraw,            \* osk_generation is newer than what was last rendered
  yield_enabled,     \* rfb_confirm_live_yield_enabled
  transport_dirty,   \* the argument of the rollback
  manual, attempt    \* the recovery that runs

server == <<outstanding, asked, wire>>
actions == <<runtime_action, exit_requested, refresh_state>>
confirmation == <<pending, visible, action, expired>>
modes == <<active, previous, confirmed>>
requests == <<mode_request, ack, menu, loaded, policy, calibration>>
locals == <<request_is_remote, yield_enabled, transport_dirty, manual, attempt>>

vars == <<main, server, actions, confirmation, modes, remote, requests, redraw, locals>>

Places ==
  {"top", "polling", "dispatch", "acking", "policy", "calibrating", "committing",
   "beginning", "switching", "marking", "reopening", "restoring", "reporting",
   "drawing", "waiting", "idlePoll", "receiving", "recovering", "replacing",
   "exited"}

TypeOK ==
  /\ main \in Places
  /\ outstanding \in BOOLEAN /\ asked \in BOOLEAN /\ exit_requested \in BOOLEAN
  /\ pending \in BOOLEAN /\ visible \in BOOLEAN /\ expired \in BOOLEAN
  /\ menu \in BOOLEAN /\ loaded \in BOOLEAN /\ policy \in BOOLEAN /\ redraw \in BOOLEAN
  /\ yield_enabled \in BOOLEAN /\ transport_dirty \in BOOLEAN
  /\ request_is_remote \in BOOLEAN /\ manual \in BOOLEAN
  /\ active \in Modes /\ confirmed \in Modes
  /\ previous \in Modes \cup {"none"} /\ calibration \in Modes \cup {"none"}
  /\ wire \in 0 .. 1 /\ attempt \in 0 .. MaxAttempts
  /\ runtime_action \in {"none", "refresh", "exit"}
  /\ refresh_state \in {"READY", "REFRESHING", "COOLDOWN"}
  /\ action \in {"NONE", "KEEP", "ROLLBACK", "ROLLBACK_IN_PROGRESS"}
  /\ remote \in {"IDLE", "SWITCH_REQUESTED", "SWITCHING", "ACTIVE_TEMP",
                 "RESTORING"}
  /\ mode_request \in {"none", "local", "remote"}
  /\ ack \in {"none", "visible", "requested"}

\* display_live_desktop at its loop, a session with a complete picture at hand.
Init ==
  /\ main = "top"
  /\ outstanding = FALSE /\ asked = FALSE /\ wire = 0
  /\ runtime_action = "none" /\ exit_requested = FALSE /\ refresh_state = "READY"
  /\ pending = FALSE /\ visible = FALSE /\ action = "NONE" /\ expired = FALSE
  /\ active \in Modes /\ previous = "none" /\ confirmed = active
  /\ remote = "IDLE" /\ mode_request = "none" /\ request_is_remote = FALSE
  /\ ack \in {"none", "visible"}
  /\ menu = FALSE /\ loaded = FALSE /\ policy = FALSE /\ calibration = "none"
  /\ redraw = FALSE /\ yield_enabled = FALSE
  /\ transport_dirty = FALSE /\ manual = FALSE /\ attempt = 0

Goto(place) == main' = place

------------------------------------------------------------------------------
(* The controller thread.                                                       *)

\* The main thread owns the pad, and the controller sleeps.
Paused ==
  main = "calibrating" \/ (main \in {"switching", "restoring"} /\ remote # "IDLE")

\* The main thread blocks somewhere in each of its places but these.
Blocks == main \notin {"top", "dispatch", "exited"}

\* After an accepted exit the controller thread is gone.
ControllerRuns == Blocks /\ ~exit_requested /\ ~Paused

\* ps2vnc_system_overlay_allowed.
OverlayAllowed ==
  ack = "none" /\ ~pending /\ mode_request = "none" /\ calibration = "none"

AcceptRefresh ==
  /\ ControllerRuns /\ OverlayAllowed
  /\ refresh_state = "READY" /\ runtime_action = "none"
  /\ runtime_action' = "refresh" /\ refresh_state' = "REFRESHING"
  /\ redraw' = TRUE
  /\ UNCHANGED <<main, server, exit_requested, confirmation, modes, remote, requests,
                 locals>>

CooldownEnds ==
  /\ ControllerRuns
  /\ refresh_state = "COOLDOWN" /\ refresh_state' = "READY"
  /\ UNCHANGED <<main, server, runtime_action, exit_requested, confirmation, modes,
                 remote, requests, redraw, locals>>

AcceptExit ==
  /\ ControllerRuns /\ OverlayAllowed
  /\ runtime_action' = "exit" /\ exit_requested' = TRUE
  /\ UNCHANGED <<main, server, refresh_state, confirmation, modes, remote, requests,
                 redraw, locals>>

\* display_menu_open_for_active: the policy is read again before it is used.
OpenMenu ==
  /\ menu' = TRUE
  /\ policy' = TRUE
  /\ loaded' = (policy /\ loaded)

OpenDisplayMenu ==
  /\ ControllerRuns /\ ~menu
  /\ OpenMenu
  /\ redraw' = TRUE
  /\ UNCHANGED <<main, server, actions, confirmation, modes, remote, mode_request, ack,
                 calibration, locals>>

\* The confirmation and the acknowledgement own the buttons while they are there.
MenuHasButtons == ControllerRuns /\ menu /\ ~pending /\ ack = "none"

\* A selected mode is calibrated if it is the active one, else switched to.
ChooseMode ==
  /\ MenuHasButtons
  /\ menu' = FALSE
  /\ \/ calibration' = active /\ UNCHANGED mode_request
     \/ loaded /\ mode_request' = "local" /\ UNCHANGED calibration
  /\ redraw' = TRUE
  /\ UNCHANGED <<main, server, actions, confirmation, modes, remote, ack, loaded,
                 policy, locals>>

ChangePolicy ==
  /\ MenuHasButtons /\ loaded /\ ~policy
  /\ policy' = TRUE
  /\ redraw' = TRUE
  /\ UNCHANGED <<main, server, actions, confirmation, modes, remote, mode_request, ack,
                 menu, loaded, calibration, locals>>

CloseMenu ==
  /\ MenuHasButtons
  /\ menu' = FALSE
  /\ redraw' = TRUE
  /\ UNCHANGED <<main, server, actions, confirmation, modes, remote, mode_request, ack,
                 loaded, policy, calibration, locals>>

Acknowledge ==
  /\ ControllerRuns /\ ack = "visible"
  /\ ack' = "requested"
  /\ UNCHANGED <<main, server, actions, confirmation, modes, remote, mode_request,
                 menu, loaded, policy, calibration, redraw, locals>>

Undecided == pending /\ action = "NONE"

\* The deadline belongs to the lease while a remote candidate is active.
Counting == Undecided /\ (remote # "ACTIVE_TEMP" \/ main = "switching")

\* Another second is shown, or the other choice.
ConfirmTick ==
  /\ ControllerRuns /\ Counting /\ visible
  /\ redraw' = TRUE
  /\ UNCHANGED <<main, server, actions, confirmation, modes, remote, requests, locals>>

\* Fault: only a confirmation on the screen times out.
ConfirmTimeoutShown ==
  /\ ControllerRuns /\ Counting /\ visible /\ expired
  /\ action' = "ROLLBACK" /\ visible' = FALSE
  /\ redraw' = TRUE
  /\ UNCHANGED <<main, server, actions, pending, expired, modes, remote, requests,
                 locals>>

\* Publishing the rollback is all the controller may do, unless the main thread
\* is still inside the switch: then the whole program is replaced.
ConfirmTimeout ==
  /\ ControllerRuns /\ Counting /\ expired
  /\ action' = "ROLLBACK" /\ visible' = FALSE
  /\ redraw' = TRUE
  /\ main' = IF main = "switching" THEN "exited" ELSE main
  /\ UNCHANGED <<server, actions, pending, expired, modes, remote, requests, locals>>

\* Each poll looks at the deadline before it looks at the buttons.  The blind
\* Circle and Cross work before the confirmation is visible.
Confirm ==
  /\ ControllerRuns /\ Undecided /\ remote = "IDLE" /\ ~expired
  /\ action' \in {"KEEP", "ROLLBACK"}
  /\ action' = "KEEP" => visible
  /\ visible' = FALSE
  /\ redraw' = TRUE
  /\ UNCHANGED <<main, server, actions, pending, expired, modes, remote, requests,
                 locals>>

Controller ==
  AcceptRefresh \/ CooldownEnds \/ AcceptExit \/ OpenDisplayMenu \/ ChooseMode
    \/ ChangePolicy \/ CloseMenu \/ Acknowledge \/ ConfirmTick \/ ConfirmTimeout
    \/ Confirm

\* Wall-clock time.
DeadlinePasses ==
  /\ pending /\ ~expired /\ main # "exited"
  /\ expired' = TRUE
  /\ UNCHANGED <<main, server, actions, pending, visible, action, modes, remote,
                 requests, redraw, locals>>

\* The server answers, merging what was asked of it.
Answer ==
  /\ asked /\ wire = 0 /\ main # "exited"
  /\ asked' = FALSE /\ wire' = 1
  /\ UNCHANGED <<main, outstanding, actions, confirmation, modes, remote, requests,
                 redraw, locals>>


------------------------------------------------------------------------------
(* The main thread: the head of the loop and what it may start.                 *)

\* Fault: an exit waits for the next update.
SoftExit == (pending /\ action = "ROLLBACK") \/ runtime_action = "refresh"

\* recv_exact gives up the stream.
HardEscape ==
  exit_requested \/ (pending /\ action = "ROLLBACK") \/ runtime_action = "refresh"

Disarm ==
  /\ pending' = FALSE /\ visible' = FALSE /\ action' = "NONE" /\ expired' = FALSE
  /\ previous' = "none"

\* ps2vnc_global_rollback_display_transaction up to its first exchange.
StartRollback(dirty) ==
  /\ Goto("marking") /\ transport_dirty' = dirty
  /\ action' = "ROLLBACK"
  /\ remote' = IF remote = "IDLE" THEN "IDLE" ELSE "RESTORING"

\* recover_rfb_connection: the old session is closed, its answers are lost.
StartRecovery(byHand) ==
  /\ Goto("recovering") /\ manual' = byHand /\ attempt' = 0
  /\ asked' = FALSE /\ wire' = 0

\* perform_manual_rfb_recovery claims the request first.
StartManualRecovery ==
  /\ StartRecovery(TRUE)
  /\ runtime_action' = "none" /\ refresh_state' = "REFRESHING"
  /\ redraw' = TRUE

\* What the Pi's pending request does to an idle client, and to a leased one.
SetTemp ==
  /\ ~pending /\ mode_request = "none" /\ calibration = "none" /\ remote = "IDLE"
  /\ remote' = "SWITCH_REQUESTED" /\ mode_request' = "remote"
  /\ UNCHANGED action

Restore ==
  /\ remote = "ACTIVE_TEMP"
  /\ remote' = "RESTORING" /\ action' = "ROLLBACK"
  /\ UNCHANGED mode_request

\* ps2vnc_remote_display_lease_expired, on the clock of the lease.
LeaseExpires ==
  /\ remote = "ACTIVE_TEMP" /\ Undecided
  /\ remote' = "RESTORING" /\ action' = "ROLLBACK"

Top ==
  /\ main = "top"
  /\ \/ exit_requested /\ Goto("exited") /\ UNCHANGED <<remote, action>>
     \/ ~exit_requested /\ Goto("polling")
        /\ (LeaseExpires \/ UNCHANGED <<remote, action>>)
  /\ UNCHANGED <<server, actions, pending, visible, expired, modes, requests, redraw,
                 locals>>

Poll ==
  /\ main = "polling" /\ Goto("dispatch")
  /\ SetTemp \/ Restore \/ UNCHANGED <<remote, mode_request, action>>
  /\ UNCHANGED <<server, actions, pending, visible, expired, modes, ack, menu, loaded,
                 policy, calibration, redraw, locals>>

\* The order in which the loop looks at what was published.
Priority ==
  <<"refresh", "acknowledge", "policy", "calibration", "commit", "rollback", "mode">>

Published(work) ==
  CASE work = "refresh"     -> runtime_action = "refresh"
    [] work = "acknowledge" -> ack = "requested"
    [] work = "policy"      -> policy
    [] work = "calibration" -> calibration # "none"
    [] work = "commit"      -> pending /\ action = "KEEP"
    [] work = "rollback"    -> pending /\ action = "ROLLBACK"
    [] work = "mode"        -> mode_request # "none"

Serves(work) ==
  /\ main = "dispatch"
  /\ \E i \in DOMAIN Priority :
       /\ Priority[i] = work /\ Published(work)
       /\ \A j \in 1 .. i - 1 : ~Published(Priority[j])

ServeRefresh ==
  /\ Serves("refresh") /\ StartManualRecovery
  /\ UNCHANGED <<outstanding, exit_requested, confirmation, modes, remote, requests,
                 request_is_remote, yield_enabled, transport_dirty>>

ServeAcknowledge ==
  /\ Serves("acknowledge") /\ Goto("acking")
  /\ ack' = "visible"
  /\ UNCHANGED <<server, actions, confirmation, modes, remote, mode_request, menu,
                 loaded, policy, calibration, redraw, locals>>

\* The modal goes away only when the Pi has confirmed.
Acked ==
  /\ main = "acking" /\ Goto("top")
  /\ redraw' = TRUE
  /\ \/ ack' = "none" /\ OpenMenu
     \/ UNCHANGED <<ack, menu, loaded, policy>>
  /\ UNCHANGED <<server, actions, confirmation, modes, remote, mode_request,
                 calibration, locals>>

ServePolicy ==
  /\ Serves("policy") /\ Goto("policy")
  /\ UNCHANGED <<server, actions, confirmation, modes, remote, requests, redraw, locals>>

\* Read again from the Pi, or changed there.
PolicyDone ==
  /\ main = "policy" /\ Goto("top")
  /\ policy' = FALSE /\ loaded' \in {loaded, TRUE}
  /\ redraw' = TRUE
  /\ UNCHANGED <<server, actions, confirmation, modes, remote, mode_request, ack, menu,
                 calibration, locals>>

\* A request that no longer names the active mode is refused.
ServeCalibration ==
  /\ Serves("calibration")
  /\ calibration' = "none"
  /\ IF calibration # active
     THEN Goto("top") /\ menu' = TRUE /\ redraw' = TRUE
     ELSE Goto("calibrating") /\ UNCHANGED <<menu, redraw>>
  /\ UNCHANGED <<server, actions, confirmation, modes, remote, mode_request, ack,
                 loaded, policy, locals>>

\* HIRES replaces the whole desktop: the answers it waits for take with them
\* what was asked before.  Standard does not talk to the server.
Calibrated ==
  /\ main = "calibrating"
  /\ \/ Goto("exited") /\ UNCHANGED <<asked, wire, menu, redraw>>
     \/ /\ Goto("top") /\ menu' = TRUE /\ redraw' = TRUE
        /\ (~HardEscape /\ asked' = FALSE /\ wire' = 0) \/ UNCHANGED <<asked, wire>>
  /\ UNCHANGED <<outstanding, actions, confirmation, modes, remote, mode_request, ack,
                 loaded, policy, calibration, locals>>

ServeCommit ==
  /\ Serves("commit") /\ Goto("committing")
  /\ UNCHANGED <<server, actions, confirmation, modes, remote, requests, redraw, locals>>

\* Fault: a commit that failed is taken for one.
CommittedUnheard ==
  /\ main = "committing" /\ Goto("top")
  /\ redraw' = TRUE
  /\ Disarm /\ confirmed' \in {confirmed, active} /\ OpenMenu
  /\ UNCHANGED <<server, actions, active, remote, mode_request, ack, calibration,
                 locals>>

\* Without the Pi's answer the user must choose again.
Committed ==
  /\ main = "committing" /\ Goto("top")
  /\ redraw' = TRUE
  /\ \/ Disarm /\ confirmed' = active /\ OpenMenu
     \/ /\ action' = "NONE" /\ visible' = TRUE
        /\ UNCHANGED <<pending, expired, previous, confirmed, menu, loaded, policy>>
  /\ UNCHANGED <<server, actions, active, remote, mode_request, ack, calibration, locals>>

------------------------------------------------------------------------------
(* The main thread: a display transaction.                                      *)

ServeRollback ==
  /\ Serves("rollback") /\ StartRollback(FALSE)
  /\ UNCHANGED <<server, actions, pending, visible, expired, modes, requests, redraw,
                 request_is_remote, yield_enabled, manual, attempt>>

\* The request is claimed before anything blocks, and refused as it stands if
\* its target is active, locked or has no usable geometry.
ServeMode ==
  /\ Serves("mode")
  /\ mode_request' = "none"
  /\ LET is_remote == mode_request = "remote" IN
       \/ /\ is_remote \/ loaded
          /\ Goto("beginning") /\ request_is_remote' = is_remote
          /\ remote' = IF is_remote THEN "SWITCHING" ELSE remote
          /\ UNCHANGED <<menu, redraw>>
       \/ /\ Goto("top") /\ UNCHANGED request_is_remote
          /\ remote' = IF is_remote THEN "IDLE" ELSE remote
          /\ menu' \in {menu, menu \/ ~is_remote}
          /\ redraw' = (redraw \/ ~is_remote)
  /\ UNCHANGED <<server, actions, confirmation, modes, ack, loaded, policy, calibration,
                 yield_enabled, transport_dirty, manual, attempt>>

\* The Pi refuses a transaction while another is open.
BeginRefused ==
  /\ main = "beginning" /\ Goto("top")
  /\ request_is_remote' = FALSE
  /\ IF request_is_remote
     THEN remote' = "IDLE" /\ UNCHANGED <<menu, redraw>>
     ELSE menu' = TRUE /\ redraw' = TRUE /\ UNCHANGED remote
  /\ UNCHANGED <<server, actions, confirmation, modes, mode_request, ack, loaded, policy,
                 calibration, yield_enabled, transport_dirty, manual, attempt>>

\* display_confirm_arm_transaction, before the display is touched.  A restored
\* transaction is open at the Pi until its acknowledgement, and a repetition of
\* the open one is not asked for.
Begun ==
  /\ main = "beginning" /\ ~pending /\ ack = "none"
  /\ Goto("switching")
  /\ pending' = TRUE /\ previous' = active /\ visible' = FALSE /\ action' = "NONE" /\ expired' = FALSE
  /\ UNCHANGED <<server, actions, active, confirmed, remote, requests, redraw, locals>>

\* The requests of the old geometry end with the switch, however it ends.
SwitchEnds ==
  /\ main = "switching"
  /\ outstanding' = FALSE /\ request_is_remote' = FALSE
  /\ UNCHANGED <<actions, pending, expired, previous, confirmed, mode_request, ack, loaded, policy,
                 calibration, yield_enabled, manual, attempt>>

SwitchFails ==
  /\ SwitchEnds /\ StartRollback(TRUE)
  /\ active' \in Modes
  /\ UNCHANGED <<asked, wire, visible, menu, redraw>>

\* The candidate's calibration does not apply, or the time is up already.
SwitchRejected ==
  /\ SwitchEnds /\ StartRollback(FALSE)
  /\ ~exit_requested /\ runtime_action # "refresh"
  /\ asked' = FALSE /\ wire' = 0
  /\ active' \in Modes \ {previous}
  /\ UNCHANGED <<visible, menu, redraw>>

\* A leased candidate is never shown for confirmation.
SwitchDone ==
  /\ SwitchEnds /\ Goto("top")
  /\ ~exit_requested /\ runtime_action # "refresh"
  /\ asked' = FALSE /\ wire' = 0
  /\ active' \in Modes \ {previous}
  /\ \/ /\ request_is_remote
        /\ remote' = "ACTIVE_TEMP" /\ visible' = FALSE
        /\ UNCHANGED <<menu, redraw>>
     \/ /\ ~request_is_remote /\ ~expired /\ action # "ROLLBACK"
        /\ visible' = TRUE /\ menu' = FALSE /\ redraw' = TRUE
        /\ UNCHANGED remote
  /\ UNCHANGED <<action, transport_dirty>>

\* The Pi is told, or not; then the rollback is claimed and the old stream
\* closed if it cannot be trusted.
Marked ==
  /\ main = "marking"
  /\ action' = "ROLLBACK_IN_PROGRESS" /\ visible' = FALSE /\ redraw' = TRUE
  /\ transport_dirty' = FALSE
  /\ IF transport_dirty
     THEN Goto("reopening") /\ asked' = FALSE /\ wire' = 0 /\ attempt' = 0
     ELSE Goto("restoring") /\ UNCHANGED <<asked, wire, attempt>>
  /\ UNCHANGED <<outstanding, actions, pending, expired, modes, remote, requests,
                 request_is_remote, yield_enabled, manual>>

\* One failed attempt of a bounded loop.
AttemptFails(again) ==
  IF attempt + 1 < MaxAttempts
  THEN attempt' = attempt + 1 /\ Goto(again)
  ELSE attempt' = 0 /\ Goto("exited")

\* recover_rfb_transport_for_display_rollback.
Reopen ==
  /\ main = "reopening"
  /\ \/ exit_requested /\ Goto("exited") /\ attempt' = 0
     \/ ~exit_requested /\ AttemptFails("reopening")
     \/ ~HardEscape /\ Goto("restoring") /\ attempt' = 0
  /\ UNCHANGED <<server, actions, confirmation, modes, remote, requests, redraw,
                 request_is_remote, yield_enabled, transport_dirty, manual>>

\* The saved configuration is reconstructed and verified, and ownership withdrawn.
Restored ==
  /\ main = "restoring"
  /\ \/ Goto("exited") /\ UNCHANGED <<asked, wire, confirmation, active, previous>>
     \/ ~HardEscape /\ Goto("reporting") /\ asked' = FALSE /\ wire' = 0
        /\ active' = previous /\ Disarm
  /\ UNCHANGED <<outstanding, actions, confirmed, remote, requests, redraw, locals>>

\* A rollback the Pi did not hear of is no success.  The user acknowledges a
\* local one, and a remote one whose automatic acknowledgement failed.
Reported ==
  /\ main = "reporting"
  /\ outstanding' = FALSE
  /\ \/ Goto("exited") /\ UNCHANGED <<remote, ack, menu, redraw>>
     \/ /\ Goto("top") /\ remote' = "IDLE"
        /\ \/ ack' = "visible" /\ menu' = FALSE /\ redraw' = TRUE
           \/ remote # "IDLE" /\ UNCHANGED <<ack, menu, redraw>>
  /\ UNCHANGED <<asked, wire, actions, confirmation, modes, mode_request, loaded, policy,
                 calibration, locals>>

------------------------------------------------------------------------------
(* The main thread: drawing, asking, receiving, recovering.                     *)

Draw ==
  /\ main = "dispatch" /\ \A i \in DOMAIN Priority : ~Published(Priority[i])
  /\ Goto("drawing") /\ redraw' = FALSE
  /\ UNCHANGED <<server, actions, confirmation, modes, remote, requests, locals>>

Unkept == pending /\ action # "KEEP"

\* Fault: every failure is recovered from in the mode that is active.
RecoverAlways ==
  StartRecovery(FALSE) /\ UNCHANGED <<remote, action, transport_dirty>>

\* An unconfirmed candidate owns every failure of the transport.
RollbackOrRecover ==
  \/ /\ Unkept /\ StartRollback(TRUE)
     /\ UNCHANGED <<asked, wire, manual, attempt>>
  \/ /\ ~Unkept /\ StartRecovery(FALSE)
     /\ UNCHANGED <<remote, action, transport_dirty>>

RequestFails ==
  /\ main = "drawing" /\ ~outstanding
  /\ RollbackOrRecover
  /\ UNCHANGED <<outstanding, actions, pending, visible, expired, modes, requests, redraw,
                 request_is_remote, yield_enabled>>

\* One request is on its way, a new one or the one an earlier wait left.
Ask ==
  /\ main = "drawing" /\ Goto("waiting")
  /\ yield_enabled' = (pending /\ visible)
  /\ outstanding' = TRUE /\ asked' = (asked \/ ~outstanding)
  /\ UNCHANGED <<wire, actions, confirmation, modes, remote, requests, redraw,
                 request_is_remote, transport_dirty, manual, attempt>>

LocalRedraw == yield_enabled /\ redraw

\* Fault: a local redraw forgets what was asked.
YieldForgetting ==
  /\ main = "waiting" /\ ~HardEscape /\ LocalRedraw
  /\ Goto("top") /\ yield_enabled' = FALSE /\ outstanding' = FALSE
  /\ UNCHANGED <<asked, wire, actions, confirmation, modes, remote, requests,
                 redraw, request_is_remote, transport_dirty, manual, attempt>>

\* RFB_RECEIVE_LOCAL_REDRAW: no byte was consumed, the request stays outstanding.
Yield ==
  /\ main = "waiting" /\ ~HardEscape /\ LocalRedraw
  /\ Goto("top") /\ yield_enabled' = FALSE
  /\ UNCHANGED <<server, actions, confirmation, modes, remote, requests, redraw,
                 request_is_remote, transport_dirty, manual, attempt>>

Arrives ==
  /\ main = "waiting" /\ ~HardEscape /\ ~LocalRedraw /\ wire > 0
  /\ Goto("receiving")
  /\ UNCHANGED <<server, actions, confirmation, modes, remote, requests, redraw, locals>>

Idle ==
  /\ main = "waiting" /\ ~HardEscape /\ ~LocalRedraw /\ wire = 0
  /\ Goto("idlePoll")
  /\ UNCHANGED <<server, actions, confirmation, modes, remote, requests, redraw, locals>>

\* A remote request is served where the stream may be left.
IdlePoll ==
  /\ main = "idlePoll"
  /\ \/ (SetTemp \/ Restore) /\ Goto("top") /\ yield_enabled' = FALSE
     \/ Goto("waiting") /\ UNCHANGED <<remote, mode_request, action, yield_enabled>>
  /\ UNCHANGED <<server, actions, pending, visible, expired, modes, ack, menu, loaded,
                 policy, calibration, redraw, request_is_remote, transport_dirty,
                 manual, attempt>>

Complete ==
  /\ main = "receiving" /\ Goto("top")
  /\ outstanding' = FALSE /\ wire' = 0 /\ yield_enabled' = FALSE
  /\ UNCHANGED <<asked, actions, confirmation, modes, remote, requests, redraw,
                 request_is_remote, transport_dirty, manual, attempt>>

\* The stream is given up: by a hard action, a lost link or peer, an expired
\* lease, a message that cannot be decoded.
ReceiveFails ==
  /\ main \in {"waiting", "receiving"}
  /\ outstanding' = FALSE /\ yield_enabled' = FALSE
  /\ \/ /\ Unkept \/ ~(exit_requested \/ runtime_action = "refresh")
        /\ RollbackOrRecover
        /\ UNCHANGED <<runtime_action, refresh_state, redraw>>
     \/ /\ ~Unkept /\ runtime_action = "refresh" /\ StartManualRecovery
        /\ UNCHANGED <<remote, action, transport_dirty>>
     \/ /\ ~Unkept /\ runtime_action # "refresh" /\ exit_requested /\ Goto("exited")
        /\ UNCHANGED <<asked, wire, runtime_action, refresh_state, remote, action,
                       redraw, transport_dirty, manual, attempt>>
  /\ UNCHANGED <<exit_requested, pending, visible, expired, modes, requests,
                 request_is_remote>>

\* The head of an attempt: an exit ends it, no link wastes it.
Recover ==
  /\ main = "recovering"
  /\ \/ exit_requested /\ Goto("exited") /\ attempt' = 0
     \/ ~exit_requested /\ AttemptFails("recovering")
     \/ ~exit_requested /\ Goto("replacing") /\ UNCHANGED attempt
  /\ UNCHANGED <<server, actions, confirmation, modes, remote, requests, redraw,
                 request_is_remote, yield_enabled, transport_dirty, manual>>

\* The handshake and the first frame of the replacement session.  A remote
\* request leaves the wait for that frame too, and so fails the attempt.
ReplaceFails ==
  /\ main = "replacing"
  /\ AttemptFails("recovering") \/ (Goto("exited") /\ attempt' = 0)
  /\ SetTemp \/ UNCHANGED <<remote, mode_request, action>>
  /\ UNCHANGED <<server, actions, pending, visible, expired, modes, ack, menu, loaded,
                 policy, calibration, redraw, request_is_remote, yield_enabled,
                 transport_dirty, manual>>

Replaced ==
  /\ main = "replacing" /\ ~HardEscape
  /\ Goto("top") /\ attempt' = 0 /\ manual' = FALSE
  /\ refresh_state' = IF manual THEN "COOLDOWN" ELSE refresh_state
  /\ redraw' = TRUE
  /\ UNCHANGED <<server, runtime_action, exit_requested, confirmation, modes, remote,
                 requests, request_is_remote, yield_enabled, transport_dirty>>

Main ==
  Top \/ Poll \/ ServeRefresh \/ ServeAcknowledge \/ Acked \/ ServePolicy
    \/ PolicyDone \/ ServeCalibration \/ Calibrated \/ ServeCommit \/ Committed
    \/ ServeRollback \/ ServeMode \/ BeginRefused \/ Begun \/ SwitchFails
    \/ SwitchRejected \/ SwitchDone \/ Marked \/ Reopen \/ Restored \/ Reported
    \/ Draw \/ RequestFails \/ Ask \/ Yield \/ Arrives \/ Idle \/ IdlePoll
    \/ Complete \/ ReceiveFails \/ Recover \/ ReplaceFails \/ Replaced

Exited == main = "exited" /\ UNCHANGED vars

Next == Controller \/ DeadlinePasses \/ Answer \/ Main \/ Exited

\* Where only the VNC server, or the user at the calibration screen, can let the
\* main thread go on, unless a hard action does.
MayBlockForEver ==
  main \in {"switching", "receiving", "replacing", "reopening", "restoring",
            "calibrating"} /\ ~HardEscape

\* HTTP exchanges, flips and sleeps end; the clock runs; the controller polls the
\* pad and the deadline whenever the main thread blocks.
Fairness ==
  /\ WF_vars(Main /\ ~MayBlockForEver)
  /\ WF_vars(DeadlinePasses)
  /\ SF_vars(ConfirmTimeout)

Spec == Init /\ [][Next]_vars /\ Fairness

------------------------------------------------------------------------------
(* Properties.                                                                  *)

\* The client asks again only when the session's earlier request was answered
\* and the answer read (display_tail.inc: rfb_update_request_outstanding).
OneRequestAtATime ==
  [][main = "drawing" /\ main' = "waiting" /\ ~outstanding => ~asked /\ wire = 0]_vars

\* Generic recovery never runs into an unapproved display configuration: while a
\* candidate is not kept, every transport failure becomes its rollback.
CandidateOwnsFailures ==
  main \in {"recovering", "replacing"} /\ pending => action = "KEEP"

\* With no transaction open the display shows what the Pi has on record: a
\* candidate is committed or taken back, whatever happened in between.
ShowsTheConfirmed == main # "exited" /\ ~pending => active = confirmed

\* A local candidate is decided whatever the server and the user do: kept, or
\* its rollback claimed, or the client has left.
LocalCandidateDecided ==
  (pending /\ remote = "IDLE") ~>
    (~pending \/ action \in {"KEEP", "ROLLBACK_IN_PROGRESS"} \/ main = "exited")

\* An accepted exit ends the client, also from a suspect stream and a recovery.
ExitHonoured == exit_requested ~> main = "exited"

\* A wait for an update is a wait for something that was asked of the server.
AnswerIsOnItsWay == main = "waiting" => asked \/ wire > 0

\* The Refresh request is claimed before any replacement handshake, which it
\* would abort: it is there to escape the suspect stream only.
RefreshClaimed == main = "replacing" => runtime_action # "refresh"

\* The hard-stall fail-safe: a display switch does not hold the client for ever.
StallEnds == main = "switching" ~> main # "switching"

===============================================================================
