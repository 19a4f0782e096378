---------------------------- MODULE ControllerInput ----------------------------
(* What the legacy client makes of the pad: the controller thread's poll, with  *)
(* its hotkey arbiter, its local screens and the desktop underneath, and the    *)
(* main thread it asks for everything that touches the display.                 *)
(*                                                                              *)
(* A poll reads the pad, runs the arbiter and then one branch; the main thread  *)
(* may run between the two, and between any two polls while it waits for the    *)
(* Pi, the server or the pad.  L2 and R2, which no binding tells apart, are one *)
(* button; so are the four directions.  Triangle, L3 and the stick only move    *)
(* and scroll.  What a change of the display does is LiveLoop's and             *)
(* DisplayTransaction's; the queue below a pointer event is ControllerQueue's.  *)
EXTENDS FiniteSets, Naturals

CONSTANTS
  Modes, FirstMode,  \* the catalogue of display modes, the one at the start
  None,
  Grips,             \* the sets of buttons the user may hold together
  Settle, Extendable, Hold, \* RUNTIME_HOTKEY_*_POLLS, SYSTEM_CHORD_HOLD_POLLS
  MaxEvents          \* bound on what happens outside: changes of grip, timers
                     \* that run out and requests of the remote operator

Buttons == {"L1", "R1", "L2R2", "START", "SELECT", "CROSS", "CIRCLE", "SQUARE", "DPAD"}
Hotkeys == {"L1", "R1", "L2R2", "START"}
Arrows == {"DPAD", "CIRCLE", "CROSS"}
OneKey == Arrows \cup {"SQUARE", "SELECT"}

ASSUME ControllerInputAssumption ==
  /\ FirstMode \in Modes /\ None \notin Modes /\ "restored" \notin Modes
  /\ None \notin {"restored", "KEEP", "ROLLBACK", "ROLLBACK_IN_PROGRESS", "REFRESH", "EXIT",
                   "candidate", "rollback", "calibration"}
  /\ Grips \subseteq SUBSET Buttons /\ {} \in Grips
  /\ \A grip \in Grips : Cardinality(grip \cap OneKey) <= 1
  /\ Settle \in 1 .. Extendable /\ Extendable \in Nat /\ Hold \in Nat \ {0, 1}
  /\ MaxEvents \in Nat

VARIABLES
  place,             \* where the controller thread is: "poll", "branch", "paused", "gone"
  held,              \* pressed, and between two polls last_pressed
  edges,             \* changed & pressed, in the branch of a poll
  fresh,             \* last_pressed is cleared: the pad was given back
  quarantine,        \* local_ui_quarantine
  mouse,             \* last_button_mask
  hotkey,            \* hotkey_*, the arbiter's state
  ui,                \* the menus and the keyboard: visible, selected
  requests,          \* what the controller asks of the main thread
  refresh,           \* system_refresh_state
  exit_requested,
  confirm,           \* display_confirm_*; late is its deadline
  ack,               \* display_restore_ack_visible and _request
  pause_requested,   \* controller_pad_pause_requested
  at,                \* where the main thread is
  purpose,           \* what it owns the display for: a candidate, a rollback, calibration
  target, previous, active, \* target_mode, display_confirm_previous_mode, active_video_mode
  remote,            \* remote_display_state
  locked,            \* display_mode_locked
  record,            \* the Pi's transaction record: its candidate, or that it is restored
  server_buttons,    \* the mouse buttons the VNC server takes for pressed
  tap,               \* the key that a released chord sends, in the branch of its poll
  local,             \* history: buttons whose press went to a local screen, until released
  forgotten,         \* history: those of them that the thread was made to forget
  spent,             \* history: "fired" from a chord's action until its buttons are all up,
                     \* "forgotten" when the thread was made to forget it before
  offered,           \* history: the dialog has shown the present candidate
  events             \* so far

history == <<local, forgotten, spent>>
controller == <<place, held, edges, fresh, quarantine, mouse, hotkey, server_buttons, tap,
                history, events>>
shared == <<ui, requests, refresh, exit_requested, confirm, ack, offered>>
main == <<pause_requested, at, purpose, target, previous, active, remote, locked,
          record>>
vars == <<controller, shared, main>>

NoHotkey == [observed |-> {}, stable |-> 0, active |-> None, hold |-> 0,
             armed |-> None, latched |-> FALSE, desktop |-> FALSE]

Init ==
  /\ place = "poll" /\ held = {} /\ edges = {} /\ fresh = FALSE /\ quarantine = {} /\ mouse = {}
  /\ hotkey = NoHotkey
  /\ ui = [system |-> FALSE, item |-> "REFRESH", display |-> FALSE, choice |-> FirstMode,
           parent |-> FALSE, osk |-> FALSE]
  /\ requests = [mode |-> None, remote |-> FALSE, calibration |-> None,
                 policy |-> None, loaded |-> FALSE, action |-> None]
  /\ refresh = "READY" /\ exit_requested = FALSE
  /\ confirm = [pending |-> FALSE, visible |-> FALSE, action |-> None, keep |-> FALSE,
                late |-> FALSE]
  /\ ack = [visible |-> FALSE, request |-> FALSE]
  /\ pause_requested = FALSE /\ at = "loop" /\ purpose = None
  /\ target = None /\ previous = None /\ active = FirstMode
  /\ remote = "IDLE" /\ locked = {} /\ record = None
  /\ server_buttons = {} /\ tap = None /\ offered = FALSE
  /\ local = {} /\ forgotten = {} /\ spent = "no"
  /\ events = 0

------------------------------------------------------------------------------
(* The hotkey arbiter                                                           *)

\* runtime_hotkeys
Bindings ==
  {[mask |-> {"R1"}, action |-> "TAB", trigger |-> "RELEASE", desktop |-> TRUE],
   [mask |-> {"L1", "START"}, action |-> "ENTER", trigger |-> "RELEASE", desktop |-> TRUE],
   [mask |-> {"L1", "R1"}, action |-> "DISPLAY", trigger |-> "SETTLE", desktop |-> TRUE],
   [mask |-> {"L1", "R1", "L2R2"}, action |-> "REFRESH", trigger |-> "HOLD",
    desktop |-> FALSE],
   [mask |-> Hotkeys, action |-> "EXIT", trigger |-> "HOLD", desktop |-> FALSE]}

\* runtime_hotkey_lookup: the bindings of this mask, of which there is at most one.
Bound(mask, desktop) ==
  {binding \in Bindings : binding.mask = mask /\ (binding.desktop => desktop)}

HasHoldExtension(mask) ==
  \E binding \in Bindings :
    binding.trigger = "HOLD" /\ mask \subseteq binding.mask /\ mask # binding.mask

Polls(binding) ==
  IF binding.trigger = "SETTLE" /\ HasHoldExtension(binding.mask) THEN Extendable ELSE Settle

DesktopContext == ~ui.system /\ ~ui.display /\ ~ui.osk

Switching == at \in {"acquire", "work", "done", "failed"} /\ purpose = "candidate"

\* ps2vnc_system_overlay_allowed
OverlayAllowed ==
  /\ ~ack.visible /\ ~confirm.pending /\ ~Switching
  /\ requests.mode = None /\ requests.calibration = None /\ ~pause_requested

\* display_menu_open_for_active, on the menus and on the requests.
MenuOpen(screens, mode, parent) ==
  [screens EXCEPT !.display = TRUE, !.choice = mode, !.parent = parent]

PolicyAsked ==
  IF requests.policy = None THEN [requests EXCEPT !.policy = "REFRESH", !.loaded = FALSE]
  ELSE requests

\* ps2vnc_system_refresh_accept_request, ps2vnc_system_exit_accept_request.
AcceptRefresh ==
  IF OverlayAllowed /\ refresh = "READY" /\ requests.action = None
  THEN /\ refresh' = "REFRESHING" /\ requests' = [requests EXCEPT !.action = "REFRESH"]
       /\ ui' = [ui EXCEPT !.item = "REFRESH"]
  ELSE UNCHANGED <<refresh, requests, ui>>

AcceptExit ==
  /\ OverlayAllowed /\ exit_requested' = TRUE /\ place' = "gone"
  /\ requests' = [requests EXCEPT !.action = "EXIT"]

\* Back in the system menu neither thread runs.
At(step) == at # "gone" /\ place = step

Happens == events < MaxEvents /\ events' = events + 1

Reads(grip) ==
  /\ At("poll") /\ ~pause_requested
  /\ IF grip = held THEN UNCHANGED events ELSE Happens
  /\ held' = grip /\ edges' = grip \ (IF fresh THEN {} ELSE held) /\ fresh' = FALSE
  /\ quarantine' = quarantine \cap grip
  /\ local' = local \cap grip /\ forgotten' = forgotten \cap grip
  /\ UNCHANGED <<offered, confirm, ack, main>>

\* What is still spent with this mask: nothing once its buttons are all up.
Spent(mask) == IF mask = {} THEN "no" ELSE spent

\* After a chord: nothing until its buttons, all of them, are up.
Latched(grip) ==
  /\ Reads(grip) /\ hotkey.latched
  /\ hotkey' = IF grip \cap Hotkeys = {} THEN NoHotkey ELSE hotkey
  /\ spent' = Spent(grip \cap Hotkeys) /\ tap' = None
  /\ place' = "branch"
  /\ UNCHANGED <<mouse, server_buttons, ui, requests, refresh, exit_requested>>

\* The mask changes: an armed release fires when it shrinks, a new one is armed when it grows.
MaskChanges(grip) ==
  LET mask == grip \cap Hotkeys
      desktop == IF hotkey.observed = {} THEN DesktopContext ELSE hotkey.desktop
      armed == {binding \in Bound(mask, DesktopContext /\ desktop) :
                  binding.trigger = "RELEASE" /\ hotkey.observed \subseteq mask}
      fires == /\ hotkey.armed # None /\ mask \subseteq hotkey.observed
               /\ DesktopContext /\ desktop
  IN /\ Reads(grip) /\ ~hotkey.latched /\ mask # hotkey.observed
     /\ hotkey' = [NoHotkey EXCEPT
          !.observed = mask,
          !.armed = IF armed = {} THEN None ELSE (CHOOSE binding \in armed : TRUE).action,
          !.desktop = desktop /\ mask # {}]
     /\ server_buttons' = IF fires THEN {} ELSE server_buttons
     /\ tap' = IF fires THEN hotkey.armed ELSE None
     /\ spent' = Spent(mask)
     /\ place' = "branch"
     /\ UNCHANGED <<mouse, ui, requests, refresh, exit_requested>>

\* The mask is stable: for too short a time, or without a binding that waits for it.
Steady(grip, stable) ==
  /\ Reads(grip) /\ ~hotkey.latched /\ grip \cap Hotkeys = hotkey.observed
  /\ hotkey.observed # {}
  /\ stable = IF hotkey.stable < Extendable THEN hotkey.stable + 1 ELSE Extendable

Settled(stable) ==
  {binding \in Bound(hotkey.observed, DesktopContext /\ hotkey.desktop) :
     binding.trigger # "RELEASE" /\ hotkey.active = None /\ stable >= Polls(binding)}

Waits(grip) ==
  /\ \/ /\ Reads(grip) /\ ~hotkey.latched /\ grip \cap Hotkeys = {} /\ hotkey.observed = {}
        /\ spent' = "no" /\ UNCHANGED hotkey
     \/ \E stable \in 1 .. Extendable :
          /\ Steady(grip, stable) /\ Settled(stable) = {} /\ hotkey.active = None
          /\ hotkey' = [hotkey EXCEPT !.stable = stable] /\ UNCHANGED spent
  /\ place' = "branch"
  /\ UNCHANGED <<tap, mouse, server_buttons, ui, requests, refresh, exit_requested>>

\* Fault: the display menu takes over without letting the mouse buttons go at the server.
DisplaySettingsInADrag(grip) ==
  \E stable \in 1 .. Extendable : \E binding \in Settled(stable) :
    /\ Steady(grip, stable) /\ binding.trigger = "SETTLE"
    /\ hotkey' = [hotkey EXCEPT !.stable = stable, !.active = "DISPLAY", !.latched = TRUE]
    /\ spent' = "fired"
    /\ ui' = MenuOpen([ui EXCEPT !.system = FALSE], active, FALSE)
    /\ requests' = PolicyAsked
    /\ mouse' = {} /\ place' = "branch"
    /\ UNCHANGED <<tap, server_buttons, refresh, exit_requested>>

\* Fault: a chord that fires without being latched.
DisplaySettingsUnlatched(grip) ==
  \E stable \in 1 .. Extendable : \E binding \in Settled(stable) :
    /\ Steady(grip, stable) /\ binding.trigger = "SETTLE"
    /\ hotkey' = [hotkey EXCEPT !.stable = stable, !.active = "DISPLAY"]
    /\ spent' = "fired"
    /\ ui' = MenuOpen([ui EXCEPT !.system = FALSE], active, FALSE)
    /\ requests' = PolicyAsked
    /\ mouse' = {} /\ server_buttons' = {} /\ place' = "branch"
    /\ UNCHANGED <<tap, refresh, exit_requested>>

\* L1+R1 opens the display menu over whatever the desktop shows.
DisplaySettings(grip) ==
  \E stable \in 1 .. Extendable : \E binding \in Settled(stable) :
    /\ Steady(grip, stable) /\ binding.trigger = "SETTLE"
    /\ hotkey' = [hotkey EXCEPT !.stable = stable, !.active = "DISPLAY", !.latched = TRUE]
    /\ spent' = "fired"
    /\ ui' = MenuOpen([ui EXCEPT !.system = FALSE], active, FALSE)
    /\ requests' = PolicyAsked
    /\ mouse' = {} /\ server_buttons' = {}
    /\ place' = "branch"
    /\ UNCHANGED <<tap, refresh, exit_requested>>

\* A hold chord shows the system menu with its countdown, or is refused for good.
HoldBegins(grip) ==
  \E stable \in 1 .. Extendable : \E binding \in Settled(stable) :
    /\ Steady(grip, stable) /\ binding.trigger = "HOLD"
    /\ IF OverlayAllowed
       THEN /\ hotkey' = [hotkey EXCEPT !.stable = stable, !.active = binding.action,
                                        !.hold = 1]
            /\ ui' = [ui EXCEPT !.system = TRUE, !.item = binding.action]
            /\ server_buttons' = {}
            /\ UNCHANGED spent
       ELSE /\ hotkey' = [hotkey EXCEPT !.stable = stable, !.latched = TRUE]
            /\ spent' = "fired"
            /\ UNCHANGED <<ui, server_buttons>>
    /\ place' = "branch"
    /\ UNCHANGED <<tap, mouse, requests, refresh, exit_requested>>

Holds(grip) ==
  \E stable \in 1 .. Extendable :
    /\ Steady(grip, stable) /\ hotkey.active # None /\ hotkey.hold + 1 < Hold
    /\ hotkey' = [hotkey EXCEPT !.stable = stable, !.hold = @ + 1]
    /\ place' = "branch"
    /\ UNCHANGED <<tap, spent, mouse, server_buttons, ui, requests, refresh, exit_requested>>

HoldFires(grip) ==
  \E stable \in 1 .. Extendable :
    /\ Steady(grip, stable) /\ hotkey.active # None /\ hotkey.hold + 1 >= Hold
    /\ hotkey' = [hotkey EXCEPT !.stable = stable, !.latched = TRUE]
    /\ spent' = "fired"
    /\ \/ hotkey.active = "REFRESH" /\ AcceptRefresh /\ place' = "branch"
          /\ UNCHANGED exit_requested
       \/ hotkey.active = "EXIT" /\ AcceptExit /\ UNCHANGED <<refresh, ui>>
       \/ hotkey.active = "EXIT" /\ ~OverlayAllowed /\ place' = "branch"
          /\ UNCHANGED <<refresh, requests, ui, exit_requested>>
    /\ UNCHANGED <<tap, mouse, server_buttons>>

Arbiter ==
  \E grip \in Grips :
    \/ Latched(grip) \/ MaskChanges(grip) \/ Waits(grip) \/ DisplaySettings(grip)
    \/ HoldBegins(grip) \/ Holds(grip) \/ HoldFires(grip)

\* ps2vnc_system_refresh_update_state
CooldownEnds ==
  /\ At("poll") /\ ~pause_requested /\ refresh = "COOLDOWN" /\ Happens
  /\ refresh' = "READY"
  /\ server_buttons' = IF ui.system THEN {} ELSE server_buttons
  /\ UNCHANGED <<place, held, edges, fresh, quarantine, mouse, hotkey, tap, history,
                 ui, requests, exit_requested, confirm, ack, offered, main>>

------------------------------------------------------------------------------
(* The branches of a poll: who owns the buttons                                 *)

Owner ==
  CASE ack.visible -> "ack"
    [] ~ack.visible /\ confirm.pending -> "confirm"
    [] ~ack.visible /\ ~confirm.pending /\ ui.system -> "system"
    [] ~ack.visible /\ ~confirm.pending /\ ~ui.system /\ ui.display -> "display"
    [] OTHER -> IF ui.osk THEN "osk" ELSE "desktop"

\* The deadline of a candidate, run by the wall clock.
Deadline ==
  /\ confirm.pending /\ confirm.late /\ confirm.action = None
  /\ remote # "ACTIVE_TEMP" \/ Switching

\* A switch that is still at work when it passes is wedged: the program is replaced.
DeadlineFires ==
  /\ At("branch") /\ Deadline
  /\ confirm' = [confirm EXCEPT !.action = "ROLLBACK", !.visible = FALSE]
  /\ IF Switching THEN place' = "gone" /\ at' = "gone" ELSE UNCHANGED <<place, at>>
  /\ UNCHANGED <<held, edges, fresh, quarantine, mouse, hotkey, server_buttons, tap, history,
                 events, ui, requests, refresh, exit_requested, ack, offered,
                 pause_requested, purpose, target, previous, active, remote, locked, record>>

\* Fault: a local screen that keeps its buttons only while it is open.
TakesUntilClosed(owner, keys) ==
  /\ At("branch") /\ ~Deadline /\ Owner = owner
  /\ edges' = {} /\ tap' = None
  /\ local' = local \cup edges /\ forgotten' = forgotten \ edges
  /\ UNCHANGED <<held, fresh, quarantine, mouse, hotkey, spent, events, offered, main>>

\* A local screen takes the buttons it knows; they are its own until they are released.
Takes(owner, keys) ==
  /\ At("branch") /\ ~Deadline /\ Owner = owner
  /\ edges' = {} /\ tap' = None
  /\ quarantine' = quarantine \cup (edges \cap keys)
  /\ local' = local \cup edges /\ forgotten' = forgotten \ edges
  /\ UNCHANGED <<held, fresh, mouse, hotkey, spent, events, offered, main>>

\* A change of a local screen is shown by a move of the pointer, all buttons up.
Jiggles(keys) ==
  server_buttons' = IF edges \cap keys = {} THEN server_buttons ELSE {}

AckScreen ==
  /\ Takes("ack", Arrows) /\ place' = "poll"
  /\ ack' = [ack EXCEPT !.request = @ \/ "CROSS" \in edges]
  /\ IF ack.request THEN UNCHANGED server_buttons ELSE Jiggles({"CROSS"})
  /\ UNCHANGED <<ui, requests, refresh, exit_requested, confirm>>

\* Fault: a dialog that can be moved before it is shown.
ConfirmScreenInTheDark ==
  LET answers == remote = "IDLE" /\ confirm.action = None IN
  /\ Takes("confirm", Arrows) /\ place' = "poll"
  /\ confirm' =
       IF ~answers \/ edges \cap Arrows = {} THEN confirm
       ELSE IF "DPAD" \in edges THEN [confirm EXCEPT !.keep = ~@]
       ELSE [confirm EXCEPT !.visible = FALSE,
               !.action = IF "CROSS" \in edges /\ confirm.keep THEN "KEEP" ELSE "ROLLBACK"]
  /\ server_buttons' = IF confirm' = confirm THEN server_buttons ELSE {}
  /\ UNCHANGED <<ui, requests, refresh, exit_requested, ack>>

\* KEEP and GO BACK are the local user's; a remote change is not answered here.
ConfirmScreen ==
  LET answers == remote = "IDLE" /\ confirm.action = None IN
  /\ Takes("confirm", Arrows) /\ place' = "poll"
  /\ \/ /\ answers /\ confirm.visible /\ "DPAD" \in edges
        /\ confirm' = [confirm EXCEPT !.keep = ~@] /\ server_buttons' = {}
     \/ /\ answers /\ "CIRCLE" \in edges
        /\ confirm' = [confirm EXCEPT !.action = "ROLLBACK", !.visible = FALSE]
        /\ server_buttons' = {}
     \/ /\ answers /\ "CROSS" \in edges
        /\ confirm' = [confirm EXCEPT
             !.action = IF confirm.keep THEN "KEEP" ELSE "ROLLBACK", !.visible = FALSE]
        /\ server_buttons' = {}
     \/ /\ ~answers \/ edges \cap Arrows = {} \/ ("DPAD" \in edges /\ ~confirm.visible)
        /\ UNCHANGED <<confirm, server_buttons>>
  /\ UNCHANGED <<ui, requests, refresh, exit_requested, ack>>

SystemMenu ==
  /\ Takes("system", Arrows)
  /\ \/ /\ "DPAD" \in edges /\ place' = "poll"
        /\ \E item \in {"REFRESH", "DISPLAY", "EXIT"} \ {ui.item} :
             ui' = [ui EXCEPT !.item = item]
        /\ UNCHANGED <<requests, refresh, exit_requested>>
     \/ /\ "CIRCLE" \in edges /\ place' = "poll"
        /\ ui' = [ui EXCEPT !.system = FALSE]
        /\ UNCHANGED <<requests, refresh, exit_requested>>
     \/ /\ "CROSS" \in edges /\ ui.item = "REFRESH" /\ place' = "poll"
        /\ AcceptRefresh
        /\ UNCHANGED exit_requested
     \/ /\ "CROSS" \in edges /\ ui.item = "DISPLAY" /\ place' = "poll"
        /\ IF ui.display
           THEN ui' = [ui EXCEPT !.system = FALSE] /\ UNCHANGED requests
           ELSE /\ ui' = MenuOpen([ui EXCEPT !.system = FALSE, !.osk = FALSE], active, TRUE)
                /\ requests' = PolicyAsked
        /\ UNCHANGED <<refresh, exit_requested>>
     \/ /\ "CROSS" \in edges /\ ui.item = "EXIT"
        /\ \/ AcceptExit
           \/ ~OverlayAllowed /\ place' = "poll" /\ UNCHANGED <<exit_requested, requests>>
        /\ UNCHANGED <<ui, refresh>>
     \/ /\ edges \cap Arrows = {} /\ place' = "poll"
        /\ UNCHANGED <<ui, requests, refresh, exit_requested>>
  /\ IF "CROSS" \in edges /\ ui.item = "REFRESH" THEN UNCHANGED server_buttons
     ELSE Jiggles(Arrows)
  /\ UNCHANGED <<confirm, ack>>

\* The display menu: Square locks a mode, Cross calibrates the active one or asks for another.
DisplayMenu ==
  /\ Takes("display", Arrows \cup {"SQUARE"}) /\ place' = "poll"
  /\ \/ /\ "DPAD" \in edges
        /\ \E choice \in Modes : ui' = [ui EXCEPT !.choice = choice]
        /\ UNCHANGED requests
     \/ /\ "CIRCLE" \in edges
        /\ ui' = [ui EXCEPT !.display = FALSE, !.parent = FALSE,
                            !.system = ui.parent, !.item = IF ui.parent THEN "DISPLAY" ELSE @]
        /\ UNCHANGED requests
     \/ /\ "SQUARE" \in edges
        /\ requests' = IF ui.choice # active /\ requests.loaded /\ requests.policy = None
                       THEN [requests EXCEPT !.policy = ui.choice] ELSE requests
        /\ UNCHANGED ui
     \/ /\ "CROSS" \in edges /\ ui.choice = active
        /\ ui' = [ui EXCEPT !.display = FALSE, !.parent = FALSE]
        /\ requests' = [requests EXCEPT !.calibration = active]
     \/ /\ "CROSS" \in edges /\ ui.choice # active
        /\ requests.loaded /\ ui.choice \notin locked
        /\ ui' = [ui EXCEPT !.display = FALSE, !.parent = FALSE]
        /\ requests' = [requests EXCEPT !.mode = ui.choice, !.remote = FALSE]
     \/ /\ ~("CROSS" \in edges
             /\ (ui.choice = active \/ (requests.loaded /\ ui.choice \notin locked)))
        /\ edges \cap {"DPAD", "CIRCLE", "SQUARE"} = {}
        /\ UNCHANGED <<ui, requests>>
  /\ server_buttons' = IF edges \cap Arrows # {} \/ requests' # requests THEN {}
                       ELSE server_buttons
  /\ UNCHANGED <<refresh, exit_requested, confirm, ack>>

Keyboard ==
  LET keys == {"DPAD", "CROSS", "SQUARE", "START", "R1", "CIRCLE", "SELECT"} IN
  /\ Takes("osk", keys) /\ place' = "poll"
  /\ ui' = [ui EXCEPT !.osk = edges \cap {"CIRCLE", "SELECT"} = {}]
  /\ Jiggles(keys)
  /\ UNCHANGED <<requests, refresh, exit_requested, confirm, ack>>

\* What the desktop sees of the pad: nothing that a local screen has taken.
Pressed == held \ quarantine
Pushed == edges \ quarantine

\* Select: no mouse button stays down behind the keyboard.
OpenKeyboard ==
  /\ ui' = [ui EXCEPT !.osk = TRUE]
  /\ mouse' = {} /\ server_buttons' = {}

\* Square and L1 with a direction are keys; each tap jiggles the pointer.
Tapped ==
  \/ "SQUARE" \in Pushed
  \/ {"L1", "DPAD"} \subseteq Pressed /\ {"L1", "DPAD"} \cap Pushed # {}

\* A pointer event goes out when the buttons change or the pointer moves, as the directions
\* and the stick may make it at any poll; a pulse of the wheel carries the same buttons.
PointerEvent ==
  LET buttons == Pressed \cap {"CROSS", "CIRCLE"} IN
  /\ mouse' = buttons /\ UNCHANGED ui
  /\ \E moved \in BOOLEAN :
       server_buttons' = IF moved \/ buttons # mouse THEN buttons
                         ELSE IF Tapped THEN {} ELSE server_buttons

\* The desktop gets what no local screen owns.
Desktop ==
  /\ At("branch") /\ ~Deadline /\ Owner = "desktop" /\ place' = "poll"
  /\ edges' = {} /\ tap' = None
  /\ IF "SELECT" \in Pushed THEN OpenKeyboard ELSE PointerEvent
  /\ UNCHANGED <<held, fresh, quarantine, hotkey, history, events,
                 requests, refresh, exit_requested, confirm, ack, offered, main>>

Branch ==
  DeadlineFires \/ AckScreen \/ ConfirmScreen \/ SystemMenu \/ DisplayMenu \/ Keyboard
  \/ Desktop

\* The thread stops short of the pad, and forgets everything when it gets it back: also
\* which buttons are not the desktop's and that a chord was spent, were they down all along.
Pauses ==
  /\ At("poll") /\ pause_requested /\ place' = "paused"
  /\ UNCHANGED <<held, edges, fresh, quarantine, mouse, hotkey, server_buttons, tap,
                 history, events, shared, main>>

Resumes ==
  /\ At("paused") /\ ~pause_requested
  /\ place' = IF exit_requested THEN "gone" ELSE "poll"
  /\ fresh' = TRUE /\ mouse' = {} /\ hotkey' = NoHotkey /\ quarantine' = {}
  /\ forgotten' = local /\ spent' = IF spent = "no" THEN "no" ELSE "forgotten"
  /\ UNCHANGED <<held, edges, server_buttons, tap, local, events, shared, main>>

Controller == Arbiter \/ CooldownEnds \/ Branch \/ Pauses \/ Resumes

------------------------------------------------------------------------------
(* The main thread                                                              *)

\* What the loop serves, in its order.  It looks for an exit at its head only, so one that
\* is accepted later in a round leaves the rest of the round to run.
Work ==
  <<requests.action = "REFRESH", ack.visible /\ ack.request, requests.policy # None,
    requests.calibration # None, confirm.pending /\ confirm.action = "KEEP",
    confirm.pending /\ confirm.action = "ROLLBACK", requests.mode # None>>

Serves(n) ==
  at = "loop" /\ Work[n] /\ \A earlier \in 1 .. n - 1 : ~Work[earlier]

Display == <<target, previous, active, record>>
Pad == <<pause_requested, purpose>>

\* The system menu comes back to show the refresh, and to show that it is over.
RefreshShown == ui' = [ui EXCEPT !.system = TRUE, !.item = "REFRESH"]

Refresh ==
  /\ Serves(1) /\ at' = "recover" /\ RefreshShown
  /\ refresh' = "REFRESHING" /\ requests' = [requests EXCEPT !.action = None]
  /\ UNCHANGED <<controller, exit_requested, confirm, ack, offered, Pad, Display, remote,
                 locked>>

Recovered ==
  /\ at = "recover"
  /\ \/ at' = "loop" /\ refresh' = "COOLDOWN" /\ RefreshShown
     \/ at' = "gone" /\ UNCHANGED <<refresh, ui>>
  /\ UNCHANGED <<controller, requests, exit_requested, confirm, ack, offered, Pad, Display,
                 remote, locked>>

Ack ==
  /\ Serves(2) /\ at' = "ack" /\ ack' = [ack EXCEPT !.request = FALSE]
  /\ UNCHANGED <<controller, ui, requests, refresh, exit_requested, confirm, offered, Pad,
                 Display, remote, locked>>

Acked ==
  /\ at = "ack" /\ at' = "loop"
  /\ \/ /\ record' = None /\ ack' = [ack EXCEPT !.visible = FALSE]
        /\ ui' = MenuOpen(ui, active, FALSE) /\ requests' = PolicyAsked
     \/ UNCHANGED <<record, ack, ui, requests>>
  /\ UNCHANGED <<controller, refresh, exit_requested, confirm, offered, Pad, target,
                 previous, active, remote, locked>>

Policy ==
  /\ Serves(3) /\ at' = "policy"
  /\ UNCHANGED <<controller, shared, Pad, Display, remote, locked>>

\* The request stays until it is answered, so that no other can be made meanwhile.
PolicyAnswered ==
  /\ at = "policy" /\ at' = "loop"
  /\ \E done \in BOOLEAN :
       /\ requests' = [requests EXCEPT !.policy = None,
                         !.loaded = @ \/ (requests.policy = "REFRESH" /\ done)]
       /\ locked' =
            IF requests.policy = "REFRESH" \/ ~done \/ requests.policy = active THEN locked
            ELSE IF requests.policy \in locked THEN locked \ {requests.policy}
            ELSE locked \cup {requests.policy}
  /\ UNCHANGED <<controller, ui, refresh, exit_requested, confirm, ack, offered, Pad,
                 Display, remote>>

\* A stale calibration request is never taken for a change of mode.
Calibrate ==
  /\ Serves(4)
  /\ requests' = [requests EXCEPT !.calibration = None]
  /\ IF requests.calibration # active
     THEN /\ ui' = [ui EXCEPT !.choice = active, !.display = TRUE, !.parent = FALSE]
          /\ UNCHANGED <<at, pause_requested, purpose>>
     ELSE /\ at' = "acquire" /\ purpose' = "calibration"
          /\ pause_requested' = TRUE /\ UNCHANGED ui
  /\ UNCHANGED <<controller, refresh, exit_requested, confirm, ack, offered, Display,
                 remote, locked>>

Keep ==
  /\ Serves(5) /\ at' = "commit"
  /\ UNCHANGED <<controller, shared, Pad, Display, remote, locked>>

Disarmed ==
  [confirm EXCEPT !.pending = FALSE, !.visible = FALSE, !.action = None, !.late = FALSE]

Committed ==
  /\ at = "commit" /\ at' = "loop"
  /\ \/ /\ record' = None /\ confirm' = Disarmed /\ previous' = None /\ offered' = FALSE
        /\ ui' = MenuOpen(ui, active, FALSE) /\ requests' = PolicyAsked
     \/ /\ confirm' = [confirm EXCEPT !.action = None, !.keep = TRUE, !.visible = TRUE]
        /\ UNCHANGED <<record, previous, ui, requests, offered>>
  /\ UNCHANGED <<controller, refresh, exit_requested, ack, Pad, target, active,
                 remote, locked>>

\* The lock policy is looked at again; a refused local request opens the menu, a remote
\* one is reported as failed.
Admitted == requests.remote \/ (requests.loaded /\ requests.mode \notin locked)

ClaimMode ==
  LET mode == requests.mode IN
  /\ Serves(7)
  /\ requests' = [requests EXCEPT !.mode = None, !.remote = FALSE]
  /\ \/ /\ mode # active /\ Admitted
        /\ at' = "begin" /\ target' = mode
        /\ remote' = IF requests.remote THEN "SWITCHING" ELSE remote
        /\ UNCHANGED ui
     \/ /\ remote' = IF requests.remote THEN "IDLE" ELSE remote
        /\ ui' = IF requests.remote \/ mode = active THEN ui
                 ELSE [ui EXCEPT !.choice = mode, !.display = TRUE]
        /\ UNCHANGED <<at, target>>
  /\ UNCHANGED <<controller, refresh, exit_requested, confirm, ack, offered, Pad, previous,
                 active, record, locked>>

\* Fault: a Pi that begins a transaction while another is open.
BeginAlwaysAccepted == TRUE

\* begin_display_transaction, at the Pi: an open transaction admits no other.
BeginAccepted == record \in {None, target}

PiBegins ==
  /\ at = "begin" /\ BeginAccepted /\ record' = target
  /\ record # target
  /\ UNCHANGED <<controller, shared, Pad, at, target, previous, active, remote, locked>>

BeginFails ==
  /\ at = "begin" /\ at' = "loop" /\ target' = None
  /\ IF remote = "SWITCHING" THEN remote' = "IDLE" /\ UNCHANGED ui
     ELSE UNCHANGED remote /\ ui' = [ui EXCEPT !.choice = active, !.display = TRUE]
  /\ UNCHANGED <<controller, requests, refresh, exit_requested, confirm, ack, offered, Pad,
                 previous, active, record, locked>>

\* The pad is taken for remote changes only; a local change leaves the controller running.
Enter(reason) ==
  /\ at' = IF remote = "IDLE" THEN "work" ELSE "acquire"
  /\ purpose' = reason
  /\ pause_requested' = (remote # "IDLE")

Armed ==
  [pending |-> TRUE, visible |-> FALSE, action |-> None, keep |-> FALSE, late |-> FALSE]

Arm ==
  /\ at = "begin" /\ record = target
  /\ confirm' = Armed /\ previous' = active /\ offered' = FALSE
  /\ Enter("candidate")
  /\ UNCHANGED <<controller, ui, requests, refresh, exit_requested, ack, target, active,
                 record, remote, locked>>

Acquired ==
  /\ at = "acquire"
  /\ \/ place = "paused" /\ at' = "work" /\ UNCHANGED pause_requested
     \/ /\ at' = IF purpose = "candidate" THEN "failed" ELSE "gone"
        /\ pause_requested' = FALSE
  /\ UNCHANGED <<controller, shared, purpose, Display, remote, locked>>

\* Calibration gives the pad back with every button up; a remote change does not wait, and
\* what is held then counts as pressed anew.
Works ==
  /\ at = "work"
  /\ at' \in {"done", "failed"}
  /\ pause_requested' = FALSE /\ target' = None
  /\ active' = IF at' = "failed" THEN active
               ELSE CASE purpose = "candidate" -> target
                      [] purpose = "rollback" -> previous
                      [] OTHER -> active
  /\ IF purpose = "calibration"
     THEN held' = {} /\ local' = {} /\ forgotten' = {} /\ spent' = "no"
     ELSE UNCHANGED <<held, history>>
  /\ UNCHANGED <<place, edges, fresh, quarantine, mouse, hotkey, server_buttons, tap,
                 events, shared, purpose, previous, remote, locked, record>>

Returned == at \in {"done", "failed"} /\ place # "paused"

\* The end of ps2vnc_switch_display_mode: the dialog, the lease, or the way back.
Switched ==
  /\ Returned /\ purpose = "candidate" /\ purpose' = None
  /\ \/ /\ at = "done" /\ remote # "IDLE" /\ remote # "SWITCH_REQUESTED"
        /\ at' = "loop" /\ remote' = "ACTIVE_TEMP"
        /\ confirm' = [confirm EXCEPT !.visible = FALSE]
        /\ UNCHANGED <<ui, offered>>
     \/ /\ at = "done" /\ remote \in {"IDLE", "SWITCH_REQUESTED"}
        /\ ~confirm.late /\ confirm.action # "ROLLBACK"
        /\ at' = "loop" /\ offered' = TRUE
        /\ confirm' = [confirm EXCEPT !.keep = FALSE, !.visible = TRUE]
        /\ ui' = [ui EXCEPT !.system = FALSE, !.display = FALSE, !.osk = FALSE]
        /\ UNCHANGED remote
     \/ /\ \/ at = "failed"
           \/ /\ remote \in {"IDLE", "SWITCH_REQUESTED"}
              /\ confirm.late \/ confirm.action = "ROLLBACK"
        /\ at' = "rollback" /\ confirm' = [confirm EXCEPT !.action = "ROLLBACK"]
        /\ UNCHANGED <<ui, remote, offered>>
  /\ UNCHANGED <<controller, requests, refresh, exit_requested, ack, pause_requested, Display,
                 locked>>

Rollback ==
  /\ Serves(6) /\ at' = "rollback"
  /\ UNCHANGED <<controller, shared, Pad, Display, remote, locked>>

\* RESTORE is posted, a suspect session is replaced, and the mode is switched back.
GoBack ==
  /\ at = "rollback"
  /\ remote' = IF remote = "IDLE" THEN remote ELSE "RESTORING"
  /\ \/ /\ confirm' = [confirm EXCEPT !.action = "ROLLBACK_IN_PROGRESS", !.visible = FALSE]
        /\ Enter("rollback")
     \/ at' = "gone" /\ UNCHANGED <<confirm, Pad>>
  /\ UNCHANGED <<controller, ui, requests, refresh, exit_requested, ack, offered, Display,
                 locked>>

WentBack ==
  /\ Returned /\ purpose = "rollback" /\ purpose' = None
  /\ IF at = "done"
     THEN at' = "restored" /\ confirm' = Disarmed /\ previous' = None /\ offered' = FALSE
     ELSE at' = "gone" /\ UNCHANGED <<confirm, previous, offered>>
  /\ UNCHANGED <<controller, ui, requests, refresh, exit_requested, ack, pause_requested,
                 target, active, remote, locked, record>>

\* RESTORED is posted; the local user is asked to acknowledge it, the operator is not.
Restored ==
  /\ at = "restored"
  /\ \/ at' = "gone" /\ UNCHANGED <<ack, ui, remote, record>>
     \/ /\ at' = "loop" /\ remote # "IDLE" /\ remote' = "IDLE" /\ record' = None
        /\ UNCHANGED <<ack, ui>>
     \/ /\ at' = "loop" /\ remote' = "IDLE"
        /\ ack' = [visible |-> TRUE, request |-> FALSE]
        /\ ui' = [ui EXCEPT !.system = FALSE, !.display = FALSE, !.osk = FALSE]
        /\ record' = "restored"
  /\ UNCHANGED <<controller, requests, refresh, exit_requested, confirm, offered, Pad,
                 target, previous, active, locked>>

Calibrated ==
  /\ Returned /\ purpose = "calibration" /\ purpose' = None
  /\ IF at = "done"
     THEN at' = "loop" /\ ui' = [ui EXCEPT !.choice = active, !.display = TRUE, !.parent = FALSE]
     ELSE at' = "gone" /\ UNCHANGED ui
  /\ UNCHANGED <<controller, requests, refresh, exit_requested, confirm, ack, offered,
                 pause_requested, Display, remote, locked>>

\* ps2vnc_remote_control_poll_idle: a remote change waits for a local one.
RemoteAsks ==
  /\ at = "loop" /\ Happens
  /\ ~confirm.pending /\ requests.mode = None /\ requests.calibration = None
  /\ remote = "IDLE"
  /\ \E mode \in Modes \ {active} :
       requests' = [requests EXCEPT !.mode = mode, !.remote = TRUE]
  /\ remote' = "SWITCH_REQUESTED"
  /\ UNCHANGED <<place, held, edges, fresh, quarantine, mouse, hotkey, server_buttons, tap,
                 history, ui, refresh, exit_requested, confirm, ack, offered, Pad, at, Display,
                 locked>>

\* The operator restores, or the lease runs out.
RemoteEnds ==
  /\ at = "loop" /\ Happens /\ remote = "ACTIVE_TEMP" /\ remote' = "RESTORING"
  /\ confirm' = [confirm EXCEPT !.action = "ROLLBACK"]
  /\ UNCHANGED <<place, held, edges, fresh, quarantine, mouse, hotkey, server_buttons, tap,
                 history, ui, requests, refresh, exit_requested, ack, offered, Pad, at,
                 Display, locked>>

TimePasses ==
  /\ at # "gone" /\ confirm.pending /\ ~confirm.late /\ Happens
  /\ confirm' = [confirm EXCEPT !.late = TRUE]
  /\ UNCHANGED <<place, held, edges, fresh, quarantine, mouse, hotkey, server_buttons, tap,
                 history, ui, requests, refresh, exit_requested, ack, offered, main>>

Leaves ==
  /\ exit_requested /\ at = "loop" /\ at' = "gone"
  /\ UNCHANGED <<controller, shared, Pad, Display, remote, locked>>

Main ==
  \/ Refresh \/ Recovered \/ Ack \/ Acked \/ Policy \/ PolicyAnswered \/ Calibrate
  \/ Calibrated \/ Keep \/ Committed \/ ClaimMode \/ PiBegins \/ BeginFails \/ Arm
  \/ Acquired \/ Works \/ Switched \/ Rollback \/ GoBack \/ WentBack
  \/ Restored \/ RemoteAsks \/ RemoteEnds \/ Leaves

Next == Controller \/ Main \/ TimePasses

Spec == Init /\ [][Next]_vars

------------------------------------------------------------------------------
(* Properties                                                                   *)

TypeOK ==
  /\ place \in {"poll", "branch", "paused", "gone"}
  /\ held \in Grips /\ edges \subseteq Buttons /\ quarantine \subseteq Buttons
  /\ mouse \subseteq {"CROSS", "CIRCLE"} /\ server_buttons \subseteq {"CROSS", "CIRCLE"}
  /\ active \in Modes /\ record \in Modes \cup {None, "restored"}

\* A button pressed on a menu, the keyboard or a dialog is not a mouse button of the
\* desktop until it is released: not after that screen closes, nor after another opened
\* and closed over it, nor after calibration.  The exception is a remote change, which
\* takes the pad and gives it back without waiting for a release (ps2ip.c:5526-5551,
\* 16373-16379): what is held through it is a press like any other.
LocalPressesStayLocal ==
  [][place = "branch" /\ place' = "poll" /\ mouse' # mouse =>
       mouse' \cap local \subseteq forgotten]_vars

\* Whatever button the server takes for pressed, the controller remembers having sent, and
\* will take back: no menu, keyboard or dialog that opens during a drag leaves it stuck.
\* Only a handoff of the pad forgets buttons that are down.
ButtonsAccounted ==
  [][server_buttons \subseteq mouse /\ place # "paused"
       => server_buttons' \subseteq mouse']_vars

Acts == tap' # None \/ ~UNCHANGED <<ui, requests, server_buttons>>

\* Once a chord has fired the arbiter neither opens, asks for nor sends anything until the
\* chord's buttons are all released, however they are let go and whatever is closed or
\* opened meanwhile.  The exception is again the pad's return from a remote change, which
\* drops the latch with its buttons still down.
ChordIsSpent ==
  [][place = "poll" /\ place' \in {"branch", "gone"} /\ spent = "fired" => ~Acts]_vars

\* A candidate is kept only by a user whom the dialog has shown this candidate, and never
\* under a remote change: presses made in the dark of a switch take it back.
KeepIsDeliberate ==
  confirm.action = "KEEP" => confirm.pending /\ offered /\ remote = "IDLE"

\* A transaction is never armed over one that is open, although a request made before
\* the first was armed may be claimed while it waits for its answer.
OneTransaction ==
  [][at = "begin" /\ at' \in {"work", "acquire"} => ~confirm.pending /\ ~ack.visible]_vars

(* What the code says and does not do.                                          *)

\* "A button pressed while the OSK/menu owns input must never turn into a desktop shortcut
\* merely because that context changes" (ps2ip.c:5617): only where the first button of a
\* chord went down is remembered, so one that is completed on the keyboard opens the
\* display menu when the keyboard closes.
HotkeysAreDesktops ==
  [][hotkey'.active = "DISPLAY" /\ hotkey.active # "DISPLAY" =>
       hotkey.observed \cap local = {}]_vars

\* "Release is the only thing that clears local ownership" (ps2ip.c:5573): so does a remote
\* change, and a Cross that a local screen took and that is still held clicks on the desktop.
LocalUntilReleased ==
  [][place = "branch" /\ place' = "poll" /\ mouse' # mouse => mouse' \cap local = {}]_vars

\* A chord is "latched until all hotkey buttons are released" (ps2ip.c:5586): one that is
\* held through a remote change fires anew, or R1 sends TAB when it is let go last.
ChordUntilReleased ==
  [][place = "poll" /\ place' \in {"branch", "gone"} /\ spent # "no" => ~Acts]_vars

\* Exit "never cuts across a provisional display transaction" (ps2ip.c:2346): BEGIN is on
\* its way between the claim of a request and the arming of its transaction, and nothing
\* tells the controller so.
ExitNeverCutsAcross ==
  [][exit_requested' /\ ~exit_requested => record \notin Modes]_vars
=============================================================================
