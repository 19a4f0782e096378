------------------------- MODULE ControllerInputProofs -------------------------
(* Theorems of ControllerInput, for every catalogue of modes, every set of grips *)
(* the user may hold and every length of the arbiter's polls: what the buttons   *)
(* may come to mean, and what a dialog on the display may be answered with.      *)
EXTENDS ControllerInput, TLAPS

\* The places where the main thread owns the display for a purpose.
Stage == {"acquire", "work", "done", "failed"}

\* The fields a record has, whatever is stored in them.
ConfirmShaped ==
  confirm = [pending |-> confirm.pending, visible |-> confirm.visible,
             action |-> confirm.action, keep |-> confirm.keep, late |-> confirm.late]
HotkeyShaped ==
  hotkey = [observed |-> hotkey.observed, stable |-> hotkey.stable,
            active |-> hotkey.active, hold |-> hotkey.hold, armed |-> hotkey.armed,
            latched |-> hotkey.latched, desktop |-> hotkey.desktop]
RequestsShaped ==
  /\ requests = [mode |-> requests.mode, remote |-> requests.remote,
                 calibration |-> requests.calibration, policy |-> requests.policy,
                 loaded |-> requests.loaded, action |-> requests.action]
  /\ requests.mode \in Modes \cup {None}
AckShaped == ack = [visible |-> ack.visible, request |-> ack.request]
UiShaped ==
  /\ ui = [system |-> ui.system, item |-> ui.item, display |-> ui.display,
           choice |-> ui.choice, parent |-> ui.parent, osk |-> ui.osk]
  /\ ui.choice \in Modes
Shaped == ConfirmShaped /\ HotkeyShaped /\ RequestsShaped /\ AckShaped /\ UiShaped

\* A dialog that can be answered with KEEP is one that was shown.
KeepPlaced ==
  /\ KeepIsDeliberate
  /\ confirm.pending /\ (confirm.visible \/ confirm.keep) => offered
  /\ at = "commit" => confirm.action = "KEEP"
  /\ at = "rollback" => confirm.action = "ROLLBACK"
  /\ requests.remote => ~confirm.pending /\ at # "begin"

\* Where a candidate is, and what the Pi has on record of it.
TrialPlaced ==
  /\ purpose \in {"candidate", "rollback"} => confirm.pending /\ at \in Stage \cup {"gone"}
  /\ at \in {"rollback", "commit"} => confirm.pending
  /\ purpose = "calibration" => at \in Stage \cup {"gone"}
  /\ at \in Stage => purpose \in {"candidate", "rollback", "calibration"}
  /\ at = "restored" => ~confirm.pending /\ ~ack.visible
  /\ confirm.pending => ~ack.visible /\ previous \in Modes
  /\ confirm.pending /\ purpose \notin {"candidate", "rollback"} /\ at \notin {"rollback", "gone"}
       => record = active
  /\ purpose = "candidate" /\ at \in {"acquire", "work"} => record = target /\ target \in Modes
  /\ purpose = "candidate" /\ at = "done" => record = active
  /\ at = "begin" => target \in Modes /\ target # active
  /\ at = "ack" => ack.visible
  /\ ack.visible => record = "restored"

\* While the controller sleeps the main thread has the pad.
PadPlaced ==
  /\ place = "paused" => at \in Stage \cup {"gone"}
  /\ pause_requested => at \in {"acquire", "work", "gone"}
  /\ at = "acquire" => pause_requested
  /\ at = "work" /\ purpose = "calibration" => pause_requested

\* A press that went to a local screen is in quarantine until it is released, unless the
\* pad was taken and given back meanwhile.
LocalQuarantined == (local \ forgotten) \cap {"CROSS", "CIRCLE"} \subseteq quarantine

\* Buttons of a chord that fired are latched, unless the latch was forgotten the same way.
SpentLatched == spent = "fired" => hotkey.latched

\* The inductive invariant.
Inv ==
  /\ TypeOK /\ Shaped /\ KeepPlaced /\ TrialPlaced /\ PadPlaced /\ LocalQuarantined
  /\ SpentLatched

\* The main thread serves one kind of work at a time, and only what waits.
LEMMA Serving ==
  /\ \A n : Serves(n) => at = "loop"
  /\ Serves(2) => ack.visible
  /\ Serves(5) => confirm.pending /\ confirm.action = "KEEP"
  /\ Serves(6) => confirm.pending /\ confirm.action = "ROLLBACK"
  /\ Serves(7) => requests.mode # None
  BY DEF Serves, Work

\* A press a screen has taken stays in quarantine while it is held.
LEMMA ReadsQuarantine ==
  ASSUME NEW grip, LocalQuarantined, Reads(grip)
  PROVE  LocalQuarantined'
  BY SMT DEF Reads, LocalQuarantined

\* At the beginning no button is down and nothing is on trial.
LEMMA InvInit == Init => Inv
  BY ControllerInputAssumption DEF Init, Inv, TypeOK, Shaped, ConfirmShaped, HotkeyShaped,
     RequestsShaped, AckShaped, UiShaped, KeepPlaced, KeepIsDeliberate, TrialPlaced, Stage,
     PadPlaced, LocalQuarantined, SpentLatched, NoHotkey, Buttons, Hotkeys

\* Every step of the poll, the main thread and the operator keeps the invariant.
LEMMA InvStep == Inv /\ [Next]_vars => Inv'
<1> SUFFICES ASSUME Inv, [Next]_vars PROVE Inv'
  OBVIOUS
<1>a. /\ TypeOK /\ Shaped /\ KeepPlaced /\ TrialPlaced /\ PadPlaced /\ LocalQuarantined
      /\ SpentLatched
  BY DEF Inv
<1> USE ControllerInputAssumption
<1> USE DEF controller, history, shared, main, Display, Pad, At, Happens, Disarmed, MenuOpen, PolicyAsked,
            NoHotkey
<1>1. ASSUME NEW grip \in Grips, Latched(grip) PROVE Inv'
  <2>1. TypeOK'
    BY <1>a, <1>1 DEF Latched, Reads, TypeOK
  <2>2. Shaped'
    BY <1>a, <1>1 DEF Latched, Reads, Shaped, ConfirmShaped, HotkeyShaped, RequestsShaped,
       AckShaped, UiShaped, TypeOK
  <2>3. KeepPlaced'
    BY <1>a, <1>1 DEF Latched, Reads, KeepPlaced, KeepIsDeliberate
  <2>4. TrialPlaced'
    BY <1>a, <1>1 DEF Latched, Reads, TrialPlaced
  <2>5. PadPlaced'
    BY <1>a, <1>1 DEF Latched, Reads, PadPlaced
  <2>6. LocalQuarantined'
    BY <1>a, <1>1, ReadsQuarantine DEF Latched
  <2>7. SpentLatched'
    BY <1>a, <1>1 DEF Latched, Reads, Spent, SpentLatched, HotkeyShaped, Shaped
  <2> QED
    BY <2>1, <2>2, <2>3, <2>4, <2>5, <2>6, <2>7 DEF Inv
<1>2. ASSUME NEW grip \in Grips, MaskChanges(grip) PROVE Inv'
  <2>1. TypeOK'
    BY <1>a, <1>2 DEF MaskChanges, Reads, TypeOK
  <2>2. Shaped'
    BY <1>a, <1>2 DEF MaskChanges, Reads, Bound, Shaped, ConfirmShaped, HotkeyShaped,
       RequestsShaped, AckShaped, UiShaped, TypeOK
  <2>3. KeepPlaced'
    BY <1>a, <1>2 DEF MaskChanges, Reads, KeepPlaced, KeepIsDeliberate
  <2>4. TrialPlaced'
    BY <1>a, <1>2 DEF MaskChanges, Reads, TrialPlaced
  <2>5. PadPlaced'
    BY <1>a, <1>2 DEF MaskChanges, Reads, PadPlaced
  <2>6. LocalQuarantined'
    BY <1>a, <1>2, ReadsQuarantine DEF MaskChanges
  <2>7. SpentLatched'
    BY <1>a, <1>2 DEF MaskChanges, Reads, Bound, Spent, SpentLatched, HotkeyShaped, Shaped
  <2> QED
    BY <2>1, <2>2, <2>3, <2>4, <2>5, <2>6, <2>7 DEF Inv
<1>3. ASSUME NEW grip \in Grips, Waits(grip) PROVE Inv'
  <2>1. TypeOK'
    BY <1>a, <1>3 DEF Waits, Reads, Steady, TypeOK
  <2>2. Shaped'
    BY <1>a, <1>3 DEF Waits, Reads, Steady, Shaped, ConfirmShaped, HotkeyShaped, RequestsShaped,
       AckShaped, UiShaped
  <2>3. KeepPlaced'
    BY <1>a, <1>3 DEF Waits, Reads, Steady, KeepPlaced, KeepIsDeliberate
  <2>4. TrialPlaced'
    BY <1>a, <1>3 DEF Waits, Reads, Steady, TrialPlaced
  <2>5. PadPlaced'
    BY <1>a, <1>3 DEF Waits, Reads, Steady, PadPlaced
  <2>6. LocalQuarantined'
    BY <1>a, <1>3, ReadsQuarantine DEF Waits, Steady
  <2>7. SpentLatched'
    BY <1>a, <1>3 DEF Waits, SpentLatched, HotkeyShaped, Shaped
  <2> QED
    BY <2>1, <2>2, <2>3, <2>4, <2>5, <2>6, <2>7 DEF Inv
<1>4. ASSUME NEW grip \in Grips, DisplaySettings(grip) PROVE Inv'
  <2>1. TypeOK'
    BY <1>a, <1>4 DEF DisplaySettings, Reads, Steady, TypeOK
  <2>2. Shaped'
    <3>1. HotkeyShaped'
      BY <1>a, <1>4 DEF DisplaySettings, Steady, Shaped, HotkeyShaped
    <3>2. RequestsShaped'
      BY <1>a, <1>4 DEF DisplaySettings, Shaped, RequestsShaped
    <3>3. UiShaped'
      BY <1>a, <1>4 DEF DisplaySettings, Shaped, UiShaped, TypeOK
    <3>4. ConfirmShaped' /\ AckShaped'
      BY <1>a, <1>4 DEF DisplaySettings, Steady, Reads, Shaped, ConfirmShaped, AckShaped
    <3> QED
      BY <3>1, <3>2, <3>3, <3>4 DEF Shaped
  <2>3. KeepPlaced'
    BY <1>a, <1>4 DEF DisplaySettings, Reads, Steady, KeepPlaced, KeepIsDeliberate
  <2>4. TrialPlaced'
    BY <1>a, <1>4 DEF DisplaySettings, Reads, Steady, TrialPlaced
  <2>5. PadPlaced'
    BY <1>a, <1>4 DEF DisplaySettings, Reads, Steady, PadPlaced
  <2>6. LocalQuarantined'
    BY <1>a, <1>4, ReadsQuarantine DEF DisplaySettings, Steady
  <2>7. SpentLatched'
    BY <1>4 DEF DisplaySettings, SpentLatched
  <2> QED
    BY <2>1, <2>2, <2>3, <2>4, <2>5, <2>6, <2>7 DEF Inv
<1>5. ASSUME NEW grip \in Grips, HoldBegins(grip) PROVE Inv'
  <2>1. TypeOK'
    BY <1>a, <1>5 DEF HoldBegins, Reads, Steady, TypeOK
  <2>2. Shaped'
    <3>1. ConfirmShaped'
      BY <1>a, <1>5 DEF HoldBegins, Reads, Steady, Shaped, ConfirmShaped
    <3>2. HotkeyShaped'
      BY <1>a, <1>5 DEF HoldBegins, Reads, Steady, Shaped, HotkeyShaped, TypeOK
    <3>3. RequestsShaped'
      BY <1>a, <1>5 DEF HoldBegins, Reads, Steady, Shaped, RequestsShaped
    <3>4. AckShaped'
      BY <1>a, <1>5 DEF HoldBegins, Reads, Steady, Shaped, AckShaped
    <3>5. UiShaped'
      BY <1>a, <1>5 DEF HoldBegins, Reads, Steady, Shaped, UiShaped, TypeOK
    <3> QED
      BY <3>1, <3>2, <3>3, <3>4, <3>5 DEF Shaped
  <2>3. KeepPlaced'
    BY <1>a, <1>5 DEF HoldBegins, Reads, Steady, KeepPlaced, KeepIsDeliberate
  <2>4. TrialPlaced'
    BY <1>a, <1>5 DEF HoldBegins, Reads, Steady, TrialPlaced
  <2>5. PadPlaced'
    BY <1>a, <1>5 DEF HoldBegins, Reads, Steady, PadPlaced
  <2>6. LocalQuarantined'
    BY <1>a, <1>5, ReadsQuarantine DEF HoldBegins, Steady
  <2>7. SpentLatched'
    BY <1>a, <1>5 DEF HoldBegins, Reads, Steady, SpentLatched, HotkeyShaped, Shaped
  <2> QED
    BY <2>1, <2>2, <2>3, <2>4, <2>5, <2>6, <2>7 DEF Inv
<1>6. ASSUME NEW grip \in Grips, Holds(grip) PROVE Inv'
  <2>1. TypeOK'
    BY <1>a, <1>6 DEF Holds, Reads, Steady, TypeOK
  <2>2. Shaped'
    BY <1>a, <1>6 DEF Holds, Reads, Steady, Shaped, ConfirmShaped, HotkeyShaped, RequestsShaped,
       AckShaped, UiShaped, TypeOK
  <2>3. KeepPlaced'
    BY <1>a, <1>6 DEF Holds, Reads, Steady, KeepPlaced, KeepIsDeliberate
  <2>4. TrialPlaced'
    BY <1>a, <1>6 DEF Holds, Reads, Steady, TrialPlaced
  <2>5. PadPlaced'
    BY <1>a, <1>6 DEF Holds, Reads, Steady, PadPlaced
  <2>6. LocalQuarantined'
    BY <1>a, <1>6, ReadsQuarantine DEF Holds, Steady
  <2>7. SpentLatched'
    BY <1>a, <1>6 DEF Holds, SpentLatched
  <2> QED
    BY <2>1, <2>2, <2>3, <2>4, <2>5, <2>6, <2>7 DEF Inv
<1>7. ASSUME NEW grip \in Grips, HoldFires(grip) PROVE Inv'
  <2>1. TypeOK'
    BY <1>a, <1>7 DEF HoldFires, Reads, Steady, AcceptExit, TypeOK
  <2>2. Shaped'
    <3>1. ConfirmShaped'
      BY <1>a, <1>7 DEF HoldFires, Reads, Steady, AcceptRefresh, AcceptExit, Shaped, ConfirmShaped
    <3>2. HotkeyShaped'
      BY <1>a, <1>7 DEF HoldFires, Reads, Steady, AcceptRefresh, AcceptExit, Shaped, HotkeyShaped, TypeOK
    <3>3. RequestsShaped'
      BY <1>a, <1>7 DEF HoldFires, Reads, Steady, AcceptRefresh, AcceptExit, Shaped, RequestsShaped
    <3>4. AckShaped'
      BY <1>a, <1>7 DEF HoldFires, Reads, Steady, AcceptRefresh, AcceptExit, Shaped, AckShaped
    <3>5. UiShaped'
      BY <1>a, <1>7 DEF HoldFires, Reads, Steady, AcceptRefresh, AcceptExit, Shaped, UiShaped, TypeOK
    <3> QED
      BY <3>1, <3>2, <3>3, <3>4, <3>5 DEF Shaped
  <2>3. KeepPlaced'
    BY <1>a, <1>7 DEF HoldFires, Reads, Steady, AcceptRefresh, AcceptExit, KeepPlaced,
       KeepIsDeliberate, Shaped, RequestsShaped
  <2>4. TrialPlaced'
    BY <1>a, <1>7 DEF HoldFires, Reads, Steady, TrialPlaced
  <2>5. PadPlaced'
    BY <1>a, <1>7 DEF HoldFires, Reads, Steady, AcceptExit, PadPlaced
  <2>6. LocalQuarantined'
    BY <1>a, <1>7, ReadsQuarantine DEF HoldFires, Steady
  <2>7. SpentLatched'
    BY <1>7 DEF HoldFires, SpentLatched
  <2> QED
    BY <2>1, <2>2, <2>3, <2>4, <2>5, <2>6, <2>7 DEF Inv
<1>8. CASE CooldownEnds
  <2>1. TypeOK'
    BY <1>a, <1>8 DEF CooldownEnds, TypeOK, Shaped, UiShaped
  <2>2. Shaped'
    BY <1>a, <1>8 DEF CooldownEnds, Shaped, ConfirmShaped, HotkeyShaped, RequestsShaped,
       AckShaped, UiShaped
  <2>3. KeepPlaced'
    BY <1>a, <1>8 DEF CooldownEnds, KeepPlaced, KeepIsDeliberate
  <2>4. TrialPlaced'
    BY <1>a, <1>8 DEF CooldownEnds, TrialPlaced
  <2>5. PadPlaced'
    BY <1>a, <1>8 DEF CooldownEnds, PadPlaced
  <2>6. LocalQuarantined'
    BY <1>a, <1>8 DEF CooldownEnds, LocalQuarantined
  <2>7. SpentLatched'
    BY <1>a, <1>8 DEF CooldownEnds, SpentLatched
  <2> QED
    BY <2>1, <2>2, <2>3, <2>4, <2>5, <2>6, <2>7 DEF Inv
<1>9. CASE DeadlineFires
  <2>1. TypeOK'
    BY <1>a, <1>9 DEF DeadlineFires, TypeOK
  <2>2. Shaped'
    BY <1>a, <1>9 DEF DeadlineFires, Deadline, Shaped, ConfirmShaped, HotkeyShaped,
       RequestsShaped, AckShaped, UiShaped, TypeOK
  <2>3. KeepPlaced'
    BY <1>a, <1>9 DEF DeadlineFires, Deadline, KeepPlaced, KeepIsDeliberate
  <2>4. TrialPlaced'
    BY <1>a, <1>9 DEF DeadlineFires, TrialPlaced, Stage
  <2>5. PadPlaced'
    BY <1>a, <1>9 DEF DeadlineFires, PadPlaced
  <2>6. LocalQuarantined'
    BY <1>a, <1>9 DEF DeadlineFires, LocalQuarantined
  <2>7. SpentLatched'
    BY <1>a, <1>9 DEF DeadlineFires, SpentLatched
  <2> QED
    BY <2>1, <2>2, <2>3, <2>4, <2>5, <2>6, <2>7 DEF Inv
<1>10. CASE AckScreen
  <2>1. TypeOK'
    BY <1>a, <1>10 DEF AckScreen, Takes, Jiggles, TypeOK
  <2>2. Shaped'
    BY <1>a, <1>10 DEF AckScreen, Takes, Shaped, ConfirmShaped, HotkeyShaped, RequestsShaped,
       AckShaped, UiShaped
  <2>3. KeepPlaced'
    BY <1>a, <1>10 DEF AckScreen, Takes, KeepPlaced, KeepIsDeliberate
  <2>4. TrialPlaced'
    BY <1>a, <1>10 DEF AckScreen, Takes, TrialPlaced
  <2>5. PadPlaced'
    BY <1>a, <1>10 DEF AckScreen, Takes, PadPlaced
  <2>6. LocalQuarantined'
    BY <1>a, <1>10 DEF AckScreen, Takes, LocalQuarantined, Arrows
  <2>7. SpentLatched'
    BY <1>a, <1>10 DEF AckScreen, Takes, SpentLatched
  <2> QED
    BY <2>1, <2>2, <2>3, <2>4, <2>5, <2>6, <2>7 DEF Inv
<1>11. CASE ConfirmScreen
  <2>1. TypeOK'
    BY <1>a, <1>11 DEF ConfirmScreen, Takes, TypeOK
  <2>2. Shaped'
    BY <1>a, <1>11 DEF ConfirmScreen, Takes, Owner, Shaped, ConfirmShaped, HotkeyShaped,
       RequestsShaped, AckShaped, UiShaped, TypeOK
  <2>3. KeepPlaced'
    BY <1>a, <1>11 DEF ConfirmScreen, Takes, Owner, KeepPlaced, KeepIsDeliberate, TrialPlaced,
       Stage, Shaped, ConfirmShaped, HotkeyShaped, RequestsShaped, AckShaped, UiShaped
  <2>4. TrialPlaced'
    BY <1>a, <1>11 DEF ConfirmScreen, Takes, Owner, TrialPlaced, Stage, KeepPlaced,
       KeepIsDeliberate, Shaped, ConfirmShaped, HotkeyShaped, RequestsShaped, AckShaped, UiShaped,
       TypeOK
  <2>5. PadPlaced'
    BY <1>a, <1>11 DEF ConfirmScreen, Takes, PadPlaced
  <2>6. LocalQuarantined'
    BY <1>a, <1>11 DEF ConfirmScreen, Takes, LocalQuarantined, Arrows
  <2>7. SpentLatched'
    BY <1>a, <1>11 DEF ConfirmScreen, Takes, SpentLatched
  <2> QED
    BY <2>1, <2>2, <2>3, <2>4, <2>5, <2>6, <2>7 DEF Inv
<1>12. CASE SystemMenu
  <2>1. TypeOK'
    BY <1>a, <1>12 DEF SystemMenu, Takes, Jiggles, AcceptExit, TypeOK
  <2>2. Shaped'
    BY <1>a, <1>12 DEF SystemMenu, Takes, Jiggles, AcceptRefresh, AcceptExit, Shaped,
       ConfirmShaped, HotkeyShaped, RequestsShaped, AckShaped, UiShaped, TypeOK
  <2>3. KeepPlaced'
    BY <1>a, <1>12 DEF SystemMenu, Takes, Jiggles, AcceptRefresh, AcceptExit, KeepPlaced,
       KeepIsDeliberate, TrialPlaced, Stage, Shaped, ConfirmShaped, HotkeyShaped, RequestsShaped,
       AckShaped, UiShaped
  <2>4. TrialPlaced'
    BY <1>a, <1>12 DEF SystemMenu, Takes, TrialPlaced
  <2>5. PadPlaced'
    BY <1>a, <1>12 DEF SystemMenu, Takes, AcceptExit, PadPlaced
  <2>6. LocalQuarantined'
    BY <1>a, <1>12 DEF SystemMenu, Takes, LocalQuarantined, Arrows
  <2>7. SpentLatched'
    BY <1>a, <1>12 DEF SystemMenu, Takes, SpentLatched
  <2> QED
    BY <2>1, <2>2, <2>3, <2>4, <2>5, <2>6, <2>7 DEF Inv
<1>13. CASE DisplayMenu
  <2>1. TypeOK'
    BY <1>a, <1>13 DEF DisplayMenu, Takes, TypeOK
  <2>2. Shaped'
    BY <1>a, <1>13 DEF DisplayMenu, Takes, Shaped, ConfirmShaped, HotkeyShaped, RequestsShaped,
       AckShaped, UiShaped, TypeOK
  <2>3. KeepPlaced'
    BY <1>a, <1>13 DEF DisplayMenu, Takes, KeepPlaced, KeepIsDeliberate, TrialPlaced, Stage,
       Shaped, ConfirmShaped, HotkeyShaped, RequestsShaped, AckShaped, UiShaped
  <2>4. TrialPlaced'
    BY <1>a, <1>13 DEF DisplayMenu, Takes, TrialPlaced
  <2>5. PadPlaced'
    BY <1>a, <1>13 DEF DisplayMenu, Takes, PadPlaced
  <2>6. LocalQuarantined'
    BY <1>a, <1>13 DEF DisplayMenu, Takes, LocalQuarantined, Arrows
  <2>7. SpentLatched'
    BY <1>a, <1>13 DEF DisplayMenu, Takes, SpentLatched
  <2> QED
    BY <2>1, <2>2, <2>3, <2>4, <2>5, <2>6, <2>7 DEF Inv
<1>14. CASE Keyboard
  <2>1. TypeOK'
    BY <1>a, <1>14 DEF Keyboard, Takes, Jiggles, TypeOK
  <2>2. Shaped'
    BY <1>a, <1>14 DEF Keyboard, Takes, Shaped, ConfirmShaped, HotkeyShaped, RequestsShaped,
       AckShaped, UiShaped
  <2>3. KeepPlaced'
    BY <1>a, <1>14 DEF Keyboard, Takes, KeepPlaced, KeepIsDeliberate
  <2>4. TrialPlaced'
    BY <1>a, <1>14 DEF Keyboard, Takes, TrialPlaced
  <2>5. PadPlaced'
    BY <1>a, <1>14 DEF Keyboard, Takes, PadPlaced
  <2>6. LocalQuarantined'
    BY <1>a, <1>14 DEF Keyboard, Takes, LocalQuarantined
  <2>7. SpentLatched'
    BY <1>a, <1>14 DEF Keyboard, Takes, SpentLatched
  <2> QED
    BY <2>1, <2>2, <2>3, <2>4, <2>5, <2>6, <2>7 DEF Inv
<1>15. CASE Desktop
  <2>1. TypeOK'
    BY <1>a, <1>15 DEF Desktop, OpenKeyboard, PointerEvent, TypeOK
  <2>2. Shaped'
    BY <1>a, <1>15 DEF Desktop, OpenKeyboard, PointerEvent, Shaped, ConfirmShaped, HotkeyShaped,
       RequestsShaped, AckShaped, UiShaped
  <2>3. KeepPlaced'
    BY <1>a, <1>15 DEF Desktop, KeepPlaced, KeepIsDeliberate
  <2>4. TrialPlaced'
    BY <1>a, <1>15 DEF Desktop, TrialPlaced
  <2>5. PadPlaced'
    BY <1>a, <1>15 DEF Desktop, PadPlaced
  <2>6. LocalQuarantined'
    BY <1>a, <1>15 DEF Desktop, LocalQuarantined
  <2>7. SpentLatched'
    BY <1>a, <1>15 DEF Desktop, SpentLatched
  <2> QED
    BY <2>1, <2>2, <2>3, <2>4, <2>5, <2>6, <2>7 DEF Inv
<1>16. CASE Pauses
  <2>1. TypeOK'
    BY <1>a, <1>16 DEF Pauses, TypeOK
  <2>2. Shaped'
    BY <1>a, <1>16 DEF Pauses, Shaped, ConfirmShaped, HotkeyShaped, RequestsShaped, AckShaped,
       UiShaped
  <2>3. KeepPlaced'
    BY <1>a, <1>16 DEF Pauses, KeepPlaced, KeepIsDeliberate
  <2>4. TrialPlaced'
    BY <1>a, <1>16 DEF Pauses, TrialPlaced
  <2>5. PadPlaced'
    BY <1>a, <1>16 DEF Pauses, PadPlaced, Stage
  <2>6. LocalQuarantined'
    BY <1>a, <1>16 DEF Pauses, LocalQuarantined
  <2>7. SpentLatched'
    BY <1>a, <1>16 DEF Pauses, SpentLatched
  <2> QED
    BY <2>1, <2>2, <2>3, <2>4, <2>5, <2>6, <2>7 DEF Inv
<1>17. CASE Resumes
  <2>1. TypeOK'
    BY <1>a, <1>17 DEF Resumes, TypeOK
  <2>2. Shaped'
    BY <1>a, <1>17 DEF Resumes, Shaped, ConfirmShaped, HotkeyShaped, RequestsShaped, AckShaped,
       UiShaped
  <2>3. KeepPlaced'
    BY <1>a, <1>17 DEF Resumes, KeepPlaced, KeepIsDeliberate
  <2>4. TrialPlaced'
    BY <1>a, <1>17 DEF Resumes, TrialPlaced
  <2>5. PadPlaced'
    BY <1>a, <1>17 DEF Resumes, PadPlaced
  <2>6. LocalQuarantined'
    BY <1>17 DEF Resumes, LocalQuarantined
  <2>7. SpentLatched'
    BY <1>17 DEF Resumes, SpentLatched
  <2> QED
    BY <2>1, <2>2, <2>3, <2>4, <2>5, <2>6, <2>7 DEF Inv
<1>18. CASE Refresh
  <2>1. TypeOK'
    BY <1>a, <1>18 DEF Refresh, TypeOK
  <2>2. Shaped'
    BY <1>a, <1>18, Serving DEF Refresh, RefreshShown, Shaped, ConfirmShaped, HotkeyShaped,
       RequestsShaped, AckShaped, UiShaped, TypeOK
  <2>3. KeepPlaced'
    BY <1>a, <1>18 DEF Refresh, KeepPlaced, KeepIsDeliberate
  <2>4. TrialPlaced'
    BY <1>a, <1>18, Serving DEF Refresh, TrialPlaced, Stage
  <2>5. PadPlaced'
    BY <1>a, <1>18, Serving DEF Refresh, PadPlaced, Stage
  <2>6. LocalQuarantined'
    BY <1>a, <1>18 DEF Refresh, LocalQuarantined
  <2>7. SpentLatched'
    BY <1>a, <1>18 DEF Refresh, SpentLatched
  <2> QED
    BY <2>1, <2>2, <2>3, <2>4, <2>5, <2>6, <2>7 DEF Inv
<1>19. CASE Recovered
  <2>1. TypeOK'
    BY <1>a, <1>19 DEF Recovered, TypeOK
  <2>2. Shaped'
    BY <1>a, <1>19 DEF Recovered, RefreshShown, Shaped, ConfirmShaped, HotkeyShaped,
       RequestsShaped, AckShaped, UiShaped, TypeOK
  <2>3. KeepPlaced'
    BY <1>a, <1>19 DEF Recovered, KeepPlaced, KeepIsDeliberate
  <2>4. TrialPlaced'
    BY <1>a, <1>19 DEF Recovered, TrialPlaced, Stage
  <2>5. PadPlaced'
    BY <1>a, <1>19 DEF Recovered, PadPlaced, Stage
  <2>6. LocalQuarantined'
    BY <1>a, <1>19 DEF Recovered, LocalQuarantined
  <2>7. SpentLatched'
    BY <1>a, <1>19 DEF Recovered, SpentLatched
  <2> QED
    BY <2>1, <2>2, <2>3, <2>4, <2>5, <2>6, <2>7 DEF Inv
<1>20. CASE Ack
  <2>1. TypeOK'
    BY <1>a, <1>20 DEF Ack, TypeOK
  <2>2. Shaped'
    BY <1>a, <1>20, Serving DEF Ack, Shaped, ConfirmShaped, HotkeyShaped, RequestsShaped,
       AckShaped, UiShaped, TypeOK
  <2>3. KeepPlaced'
    BY <1>a, <1>20 DEF Ack, KeepPlaced, KeepIsDeliberate
  <2>4. TrialPlaced'
    BY <1>a, <1>20, Serving DEF Ack, TrialPlaced, Stage
  <2>5. PadPlaced'
    BY <1>a, <1>20, Serving DEF Ack, PadPlaced, Stage
  <2>6. LocalQuarantined'
    BY <1>a, <1>20 DEF Ack, LocalQuarantined
  <2>7. SpentLatched'
    BY <1>a, <1>20 DEF Ack, SpentLatched
  <2> QED
    BY <2>1, <2>2, <2>3, <2>4, <2>5, <2>6, <2>7 DEF Inv
<1>21. CASE Acked
  <2>1. TypeOK'
    BY <1>a, <1>21 DEF Acked, TypeOK
  <2>2. Shaped'
    BY <1>a, <1>21 DEF Acked, Shaped, ConfirmShaped, HotkeyShaped, RequestsShaped, AckShaped,
       UiShaped, TypeOK
  <2>3. KeepPlaced'
    BY <1>a, <1>21 DEF Acked, KeepPlaced, KeepIsDeliberate, TrialPlaced
  <2>4. TrialPlaced'
    BY <1>a, <1>21 DEF Acked, TrialPlaced, Stage, Shaped, AckShaped
  <2>5. PadPlaced'
    BY <1>a, <1>21 DEF Acked, PadPlaced, Stage
  <2>6. LocalQuarantined'
    BY <1>a, <1>21 DEF Acked, LocalQuarantined
  <2>7. SpentLatched'
    BY <1>a, <1>21 DEF Acked, SpentLatched
  <2> QED
    BY <2>1, <2>2, <2>3, <2>4, <2>5, <2>6, <2>7 DEF Inv
<1>22. CASE Policy
  <2>1. TypeOK'
    BY <1>a, <1>22 DEF Policy, TypeOK
  <2>2. Shaped'
    BY <1>a, <1>22 DEF Policy, Shaped, ConfirmShaped, HotkeyShaped, RequestsShaped, AckShaped,
       UiShaped
  <2>3. KeepPlaced'
    BY <1>a, <1>22 DEF Policy, KeepPlaced, KeepIsDeliberate
  <2>4. TrialPlaced'
    BY <1>a, <1>22, Serving DEF Policy, TrialPlaced, Stage
  <2>5. PadPlaced'
    BY <1>a, <1>22, Serving DEF Policy, PadPlaced, Stage
  <2>6. LocalQuarantined'
    BY <1>a, <1>22 DEF Policy, LocalQuarantined
  <2>7. SpentLatched'
    BY <1>a, <1>22 DEF Policy, SpentLatched
  <2> QED
    BY <2>1, <2>2, <2>3, <2>4, <2>5, <2>6, <2>7 DEF Inv
<1>23. CASE PolicyAnswered
  <2>1. TypeOK'
    BY <1>a, <1>23 DEF PolicyAnswered, TypeOK
  <2>2. Shaped'
    BY <1>a, <1>23 DEF PolicyAnswered, Shaped, ConfirmShaped, HotkeyShaped, RequestsShaped,
       AckShaped, UiShaped, TypeOK
  <2>3. KeepPlaced'
    BY <1>a, <1>23 DEF PolicyAnswered, KeepPlaced, KeepIsDeliberate
  <2>4. TrialPlaced'
    BY <1>a, <1>23 DEF PolicyAnswered, TrialPlaced, Stage
  <2>5. PadPlaced'
    BY <1>a, <1>23 DEF PolicyAnswered, PadPlaced, Stage
  <2>6. LocalQuarantined'
    BY <1>a, <1>23 DEF PolicyAnswered, LocalQuarantined
  <2>7. SpentLatched'
    BY <1>a, <1>23 DEF PolicyAnswered, SpentLatched
  <2> QED
    BY <2>1, <2>2, <2>3, <2>4, <2>5, <2>6, <2>7 DEF Inv
<1>24. CASE Calibrate
  <2>1. TypeOK'
    BY <1>a, <1>24 DEF Calibrate, TypeOK
  <2>2. Shaped'
    BY <1>a, <1>24, Serving DEF Calibrate, Shaped, ConfirmShaped, HotkeyShaped, RequestsShaped,
       AckShaped, UiShaped, TypeOK
  <2>3. KeepPlaced'
    BY <1>a, <1>24 DEF Calibrate, KeepPlaced, KeepIsDeliberate
  <2>4. TrialPlaced'
    BY <1>a, <1>24, Serving DEF Calibrate, TrialPlaced, Stage
  <2>5. PadPlaced'
    BY <1>a, <1>24 DEF Calibrate, PadPlaced, Stage
  <2>6. LocalQuarantined'
    BY <1>a, <1>24 DEF Calibrate, LocalQuarantined
  <2>7. SpentLatched'
    BY <1>a, <1>24 DEF Calibrate, SpentLatched
  <2> QED
    BY <2>1, <2>2, <2>3, <2>4, <2>5, <2>6, <2>7 DEF Inv
<1>25. CASE Calibrated
  <2>1. TypeOK'
    BY <1>a, <1>25 DEF Calibrated, TypeOK
  <2>2. Shaped'
    BY <1>a, <1>25 DEF Calibrated, Returned, Shaped, ConfirmShaped, HotkeyShaped, RequestsShaped,
       AckShaped, UiShaped, TypeOK
  <2>3. KeepPlaced'
    BY <1>a, <1>25 DEF Calibrated, KeepPlaced, KeepIsDeliberate
  <2>4. TrialPlaced'
    BY <1>a, <1>25 DEF Calibrated, TrialPlaced, Stage
  <2>5. PadPlaced'
    BY <1>a, <1>25 DEF Calibrated, Returned, PadPlaced
  <2>6. LocalQuarantined'
    BY <1>a, <1>25 DEF Calibrated, LocalQuarantined
  <2>7. SpentLatched'
    BY <1>a, <1>25 DEF Calibrated, SpentLatched
  <2> QED
    BY <2>1, <2>2, <2>3, <2>4, <2>5, <2>6, <2>7 DEF Inv
<1>26. CASE Keep
  <2>1. TypeOK'
    BY <1>a, <1>26 DEF Keep, TypeOK
  <2>2. Shaped'
    BY <1>a, <1>26 DEF Keep, Shaped, ConfirmShaped, HotkeyShaped, RequestsShaped, AckShaped,
       UiShaped
  <2>3. KeepPlaced'
    BY <1>a, <1>26, Serving DEF Keep, KeepPlaced, KeepIsDeliberate
  <2>4. TrialPlaced'
    BY <1>a, <1>26, Serving DEF Keep, TrialPlaced, Stage
  <2>5. PadPlaced'
    BY <1>a, <1>26, Serving DEF Keep, PadPlaced, Stage
  <2>6. LocalQuarantined'
    BY <1>a, <1>26 DEF Keep, LocalQuarantined
  <2>7. SpentLatched'
    BY <1>a, <1>26 DEF Keep, SpentLatched
  <2> QED
    BY <2>1, <2>2, <2>3, <2>4, <2>5, <2>6, <2>7 DEF Inv
<1>27. CASE Committed
  <2>1. TypeOK'
    BY <1>a, <1>27 DEF Committed, TypeOK
  <2>2. Shaped'
    BY <1>a, <1>27 DEF Committed, Shaped, ConfirmShaped, HotkeyShaped, RequestsShaped, AckShaped,
       UiShaped, TypeOK
  <2>3. KeepPlaced'
    BY <1>a, <1>27 DEF Committed, KeepPlaced, KeepIsDeliberate, TrialPlaced, Stage, Shaped,
       ConfirmShaped, HotkeyShaped, RequestsShaped, AckShaped, UiShaped
  <2>4. TrialPlaced'
    BY <1>a, <1>27 DEF Committed, TrialPlaced, Stage, KeepPlaced, KeepIsDeliberate, Shaped,
       ConfirmShaped, HotkeyShaped, RequestsShaped, AckShaped, UiShaped, TypeOK
  <2>5. PadPlaced'
    BY <1>a, <1>27 DEF Committed, PadPlaced, Stage
  <2>6. LocalQuarantined'
    BY <1>a, <1>27 DEF Committed, LocalQuarantined
  <2>7. SpentLatched'
    BY <1>a, <1>27 DEF Committed, SpentLatched
  <2> QED
    BY <2>1, <2>2, <2>3, <2>4, <2>5, <2>6, <2>7 DEF Inv
<1>28. CASE ClaimMode
  <2>1. TypeOK'
    BY <1>a, <1>28 DEF ClaimMode, TypeOK
  <2>2. Shaped'
    BY <1>a, <1>28, Serving DEF ClaimMode, Shaped, ConfirmShaped, HotkeyShaped, RequestsShaped,
       AckShaped, UiShaped, TypeOK
  <2>3. KeepPlaced'
    BY <1>a, <1>28 DEF ClaimMode, KeepPlaced, KeepIsDeliberate
  <2>4. TrialPlaced'
    BY <1>a, <1>28, Serving DEF ClaimMode, TrialPlaced, Stage, Shaped, RequestsShaped
  <2>5. PadPlaced'
    BY <1>a, <1>28, Serving DEF ClaimMode, PadPlaced, Stage
  <2>6. LocalQuarantined'
    BY <1>a, <1>28 DEF ClaimMode, LocalQuarantined
  <2>7. SpentLatched'
    BY <1>a, <1>28 DEF ClaimMode, SpentLatched
  <2> QED
    BY <2>1, <2>2, <2>3, <2>4, <2>5, <2>6, <2>7 DEF Inv
<1>29. CASE PiBegins
  <2>1. TypeOK'
    BY <1>a, <1>29 DEF PiBegins, TypeOK, TrialPlaced
  <2>2. Shaped'
    BY <1>a, <1>29 DEF PiBegins, Shaped, ConfirmShaped, HotkeyShaped, RequestsShaped, AckShaped,
       UiShaped
  <2>3. KeepPlaced'
    BY <1>a, <1>29 DEF PiBegins, KeepPlaced, KeepIsDeliberate
  <2>4. TrialPlaced'
    BY <1>a, <1>29 DEF PiBegins, BeginAccepted, TrialPlaced, TypeOK
  <2>5. PadPlaced'
    BY <1>a, <1>29 DEF PiBegins, PadPlaced
  <2>6. LocalQuarantined'
    BY <1>a, <1>29 DEF PiBegins, LocalQuarantined
  <2>7. SpentLatched'
    BY <1>a, <1>29 DEF PiBegins, SpentLatched
  <2> QED
    BY <2>1, <2>2, <2>3, <2>4, <2>5, <2>6, <2>7 DEF Inv
<1>30. CASE BeginFails
  <2>1. TypeOK'
    BY <1>a, <1>30 DEF BeginFails, TypeOK
  <2>2. Shaped'
    BY <1>a, <1>30 DEF BeginFails, Shaped, ConfirmShaped, HotkeyShaped, RequestsShaped, AckShaped,
       UiShaped, TypeOK
  <2>3. KeepPlaced'
    BY <1>a, <1>30 DEF BeginFails, KeepPlaced, KeepIsDeliberate
  <2>4. TrialPlaced'
    BY <1>a, <1>30 DEF BeginFails, TrialPlaced, Stage
  <2>5. PadPlaced'
    BY <1>a, <1>30 DEF BeginFails, PadPlaced, Stage
  <2>6. LocalQuarantined'
    BY <1>a, <1>30 DEF BeginFails, LocalQuarantined
  <2>7. SpentLatched'
    BY <1>a, <1>30 DEF BeginFails, SpentLatched
  <2> QED
    BY <2>1, <2>2, <2>3, <2>4, <2>5, <2>6, <2>7 DEF Inv
<1>31. CASE Arm
  <2>1. TypeOK'
    BY <1>a, <1>31 DEF Arm, TypeOK
  <2>2. Shaped'
    BY <1>a, <1>31 DEF Arm, Armed, Shaped, ConfirmShaped, HotkeyShaped, RequestsShaped, AckShaped,
       UiShaped
  <2>3. KeepPlaced'
    BY <1>a, <1>31 DEF Arm, Enter, Armed, KeepPlaced, KeepIsDeliberate
  <2>4. TrialPlaced'
    BY <1>a, <1>31 DEF Arm, Enter, Armed, TrialPlaced, Stage, TypeOK
  <2>5. PadPlaced'
    BY <1>a, <1>31 DEF Arm, Enter, Armed, PadPlaced, Stage, TrialPlaced, Stage, Shaped,
       ConfirmShaped, HotkeyShaped, RequestsShaped, AckShaped, UiShaped
  <2>6. LocalQuarantined'
    BY <1>a, <1>31 DEF Arm, LocalQuarantined
  <2>7. SpentLatched'
    BY <1>a, <1>31 DEF Arm, SpentLatched
  <2> QED
    BY <2>1, <2>2, <2>3, <2>4, <2>5, <2>6, <2>7 DEF Inv
<1>32. CASE Acquired
  <2>1. TypeOK'
    BY <1>a, <1>32 DEF Acquired, TypeOK
  <2>2. Shaped'
    BY <1>a, <1>32 DEF Acquired, Shaped, ConfirmShaped, HotkeyShaped, RequestsShaped, AckShaped,
       UiShaped
  <2>3. KeepPlaced'
    BY <1>a, <1>32 DEF Acquired, KeepPlaced, KeepIsDeliberate
  <2>4. TrialPlaced'
    BY <1>a, <1>32 DEF Acquired, TrialPlaced, Stage
  <2>5. PadPlaced'
    BY <1>a, <1>32 DEF Acquired, PadPlaced, Stage, TrialPlaced, Stage, Shaped, ConfirmShaped,
       HotkeyShaped, RequestsShaped, AckShaped, UiShaped
  <2>6. LocalQuarantined'
    BY <1>a, <1>32 DEF Acquired, LocalQuarantined
  <2>7. SpentLatched'
    BY <1>a, <1>32 DEF Acquired, SpentLatched
  <2> QED
    BY <2>1, <2>2, <2>3, <2>4, <2>5, <2>6, <2>7 DEF Inv
<1>33. CASE Works
  <2>a. target \in Modes \/ purpose # "candidate"
    BY <1>a, <1>33 DEF Works, TrialPlaced
  <2>b. previous \in Modes \/ purpose # "rollback"
    BY <1>a, <1>33 DEF Works, TrialPlaced
  <2>c. active' \in Modes
    BY <1>a, <1>33, <2>a, <2>b DEF Works, TypeOK
  <2>1. TypeOK'
    BY <1>a, <1>33, <2>c DEF Works, TypeOK
  <2>2. Shaped'
    BY <1>a, <1>33 DEF Works, Shaped, ConfirmShaped, HotkeyShaped, RequestsShaped, AckShaped,
       UiShaped
  <2>3. KeepPlaced'
    BY <1>a, <1>33 DEF Works, KeepPlaced, KeepIsDeliberate
  <2>4. TrialPlaced'
    BY <1>a, <1>33 DEF Works, TrialPlaced, Stage
  <2>5. PadPlaced'
    BY <1>33 DEF Works, PadPlaced, Stage
  <2>6. LocalQuarantined'
    BY <1>a, <1>33 DEF Works, LocalQuarantined
  <2>7. SpentLatched'
    BY <1>a, <1>33 DEF Works, SpentLatched
  <2> QED
    BY <2>1, <2>2, <2>3, <2>4, <2>5, <2>6, <2>7 DEF Inv
<1>34. CASE Switched
  <2>1. TypeOK'
    BY <1>a, <1>34 DEF Switched, TypeOK
  <2>2. Shaped'
    BY <1>a, <1>34 DEF Switched, Returned, Shaped, ConfirmShaped, HotkeyShaped, RequestsShaped,
       AckShaped, UiShaped, TypeOK
  <2>3. KeepPlaced'
    <3>1. CASE at' = "rollback"
      BY <1>a, <1>34, <3>1 DEF Switched, KeepPlaced, KeepIsDeliberate, Shaped, ConfirmShaped
    <3>2. CASE remote' = "ACTIVE_TEMP" /\ at' = "loop"
      BY <1>a, <1>34, <3>2 DEF Switched, KeepPlaced, KeepIsDeliberate, Shaped, ConfirmShaped
    <3>3. CASE remote \in {"IDLE", "SWITCH_REQUESTED"} /\ at' = "loop"
      <4>1. /\ offered' /\ UNCHANGED <<remote, requests>>
            /\ confirm' = [confirm EXCEPT !.keep = FALSE, !.visible = TRUE]
        BY <1>34, <3>3 DEF Switched
      <4>2. confirm'.pending = confirm.pending /\ confirm'.action = confirm.action
        BY <4>1
      <4> QED
        BY <1>a, <3>3, <4>1 DEF KeepPlaced, KeepIsDeliberate
    <3> QED
      BY <1>34, <3>1, <3>2, <3>3 DEF Switched
  <2>4. TrialPlaced'
    BY <1>a, <1>34 DEF Switched, TrialPlaced, Stage, Shaped, ConfirmShaped
  <2>5. PadPlaced'
    BY <1>a, <1>34 DEF Switched, Returned, PadPlaced
  <2>6. LocalQuarantined'
    BY <1>a, <1>34 DEF Switched, LocalQuarantined
  <2>7. SpentLatched'
    BY <1>a, <1>34 DEF Switched, SpentLatched
  <2> QED
    BY <2>1, <2>2, <2>3, <2>4, <2>5, <2>6, <2>7 DEF Inv
<1>35. CASE Rollback
  <2>1. TypeOK'
    BY <1>a, <1>35 DEF Rollback, TypeOK
  <2>2. Shaped'
    BY <1>a, <1>35 DEF Rollback, Shaped, ConfirmShaped, HotkeyShaped, RequestsShaped, AckShaped,
       UiShaped
  <2>3. KeepPlaced'
    BY <1>a, <1>35, Serving DEF Rollback, KeepPlaced, KeepIsDeliberate
  <2>4. TrialPlaced'
    BY <1>a, <1>35, Serving DEF Rollback, TrialPlaced, Stage
  <2>5. PadPlaced'
    BY <1>a, <1>35, Serving DEF Rollback, PadPlaced, Stage
  <2>6. LocalQuarantined'
    BY <1>a, <1>35 DEF Rollback, LocalQuarantined
  <2>7. SpentLatched'
    BY <1>a, <1>35 DEF Rollback, SpentLatched
  <2> QED
    BY <2>1, <2>2, <2>3, <2>4, <2>5, <2>6, <2>7 DEF Inv
<1>36. CASE GoBack
  <2>1. TypeOK'
    BY <1>a, <1>36 DEF GoBack, TypeOK
  <2>2. Shaped'
    BY <1>a, <1>36 DEF GoBack, Enter, Shaped, ConfirmShaped, HotkeyShaped, RequestsShaped,
       AckShaped, UiShaped, TypeOK
  <2>3. KeepPlaced'
    BY <1>a, <1>36 DEF GoBack, Enter, KeepPlaced, KeepIsDeliberate, TrialPlaced, Stage, Shaped,
       ConfirmShaped, HotkeyShaped, RequestsShaped, AckShaped, UiShaped
  <2>4. TrialPlaced'
    BY <1>a, <1>36 DEF GoBack, Enter, TrialPlaced, Stage, KeepPlaced, KeepIsDeliberate, Shaped,
       ConfirmShaped, HotkeyShaped, RequestsShaped, AckShaped, UiShaped, TypeOK
  <2>5. PadPlaced'
    BY <1>a, <1>36 DEF GoBack, Enter, PadPlaced, Stage, TrialPlaced, Stage, Shaped, ConfirmShaped,
       HotkeyShaped, RequestsShaped, AckShaped, UiShaped
  <2>6. LocalQuarantined'
    BY <1>a, <1>36 DEF GoBack, LocalQuarantined
  <2>7. SpentLatched'
    BY <1>a, <1>36 DEF GoBack, SpentLatched
  <2> QED
    BY <2>1, <2>2, <2>3, <2>4, <2>5, <2>6, <2>7 DEF Inv
<1>37. CASE WentBack
  <2>1. TypeOK'
    BY <1>a, <1>37 DEF WentBack, TypeOK
  <2>2. Shaped'
    BY <1>a, <1>37 DEF WentBack, Returned, Shaped, ConfirmShaped, HotkeyShaped, RequestsShaped,
       AckShaped, UiShaped, TypeOK
  <2>3. KeepPlaced'
    BY <1>a, <1>37 DEF WentBack, Returned, KeepPlaced, KeepIsDeliberate, TrialPlaced, Stage,
       Shaped, ConfirmShaped, HotkeyShaped, RequestsShaped, AckShaped, UiShaped
  <2>4. TrialPlaced'
    BY <1>a, <1>37 DEF WentBack, Returned, TrialPlaced, Stage, KeepPlaced, KeepIsDeliberate,
       Shaped, ConfirmShaped, HotkeyShaped, RequestsShaped, AckShaped, UiShaped, TypeOK
  <2>5. PadPlaced'
    BY <1>a, <1>37 DEF WentBack, Returned, PadPlaced
  <2>6. LocalQuarantined'
    BY <1>a, <1>37 DEF WentBack, LocalQuarantined
  <2>7. SpentLatched'
    BY <1>a, <1>37 DEF WentBack, SpentLatched
  <2> QED
    BY <2>1, <2>2, <2>3, <2>4, <2>5, <2>6, <2>7 DEF Inv
<1>38. CASE Restored
  <2>1. TypeOK'
    BY <1>a, <1>38 DEF Restored, TypeOK
  <2>2. Shaped'
    BY <1>a, <1>38 DEF Restored, Shaped, ConfirmShaped, HotkeyShaped, RequestsShaped, AckShaped,
       UiShaped, TypeOK
  <2>3. KeepPlaced'
    BY <1>a, <1>38 DEF Restored, KeepPlaced, KeepIsDeliberate
  <2>4. TrialPlaced'
    BY <1>a, <1>38 DEF Restored, TrialPlaced, Stage
  <2>5. PadPlaced'
    BY <1>a, <1>38 DEF Restored, PadPlaced, Stage
  <2>6. LocalQuarantined'
    BY <1>a, <1>38 DEF Restored, LocalQuarantined
  <2>7. SpentLatched'
    BY <1>a, <1>38 DEF Restored, SpentLatched
  <2> QED
    BY <2>1, <2>2, <2>3, <2>4, <2>5, <2>6, <2>7 DEF Inv
<1>39. CASE RemoteAsks
  <2>1. TypeOK'
    BY <1>a, <1>39 DEF RemoteAsks, TypeOK
  <2>2. Shaped'
    BY <1>a, <1>39 DEF RemoteAsks, Shaped, ConfirmShaped, HotkeyShaped, RequestsShaped, AckShaped,
       UiShaped, TypeOK
  <2>3. KeepPlaced'
    BY <1>a, <1>39 DEF RemoteAsks, KeepPlaced, KeepIsDeliberate
  <2>4. TrialPlaced'
    BY <1>a, <1>39 DEF RemoteAsks, TrialPlaced
  <2>5. PadPlaced'
    BY <1>a, <1>39 DEF RemoteAsks, PadPlaced
  <2>6. LocalQuarantined'
    BY <1>a, <1>39 DEF RemoteAsks, LocalQuarantined
  <2>7. SpentLatched'
    BY <1>a, <1>39 DEF RemoteAsks, SpentLatched
  <2> QED
    BY <2>1, <2>2, <2>3, <2>4, <2>5, <2>6, <2>7 DEF Inv
<1>40. CASE RemoteEnds
  <2>1. TypeOK'
    BY <1>a, <1>40 DEF RemoteEnds, TypeOK
  <2>2. Shaped'
    BY <1>a, <1>40 DEF RemoteEnds, Shaped, ConfirmShaped, HotkeyShaped, RequestsShaped, AckShaped,
       UiShaped
  <2>3. KeepPlaced'
    BY <1>a, <1>40 DEF RemoteEnds, KeepPlaced, KeepIsDeliberate
  <2>4. TrialPlaced'
    BY <1>a, <1>40 DEF RemoteEnds, TrialPlaced
  <2>5. PadPlaced'
    BY <1>a, <1>40 DEF RemoteEnds, PadPlaced
  <2>6. LocalQuarantined'
    BY <1>a, <1>40 DEF RemoteEnds, LocalQuarantined
  <2>7. SpentLatched'
    BY <1>a, <1>40 DEF RemoteEnds, SpentLatched
  <2> QED
    BY <2>1, <2>2, <2>3, <2>4, <2>5, <2>6, <2>7 DEF Inv
<1>41. CASE Leaves
  <2>1. TypeOK'
    BY <1>a, <1>41 DEF Leaves, TypeOK
  <2>2. Shaped'
    BY <1>a, <1>41 DEF Leaves, Shaped, ConfirmShaped, HotkeyShaped, RequestsShaped, AckShaped,
       UiShaped
  <2>3. KeepPlaced'
    BY <1>a, <1>41 DEF Leaves, KeepPlaced, KeepIsDeliberate
  <2>4. TrialPlaced'
    BY <1>a, <1>41 DEF Leaves, TrialPlaced, Stage
  <2>5. PadPlaced'
    BY <1>41 DEF Leaves, PadPlaced
  <2>6. LocalQuarantined'
    BY <1>a, <1>41 DEF Leaves, LocalQuarantined
  <2>7. SpentLatched'
    BY <1>a, <1>41 DEF Leaves, SpentLatched
  <2> QED
    BY <2>1, <2>2, <2>3, <2>4, <2>5, <2>6, <2>7 DEF Inv
<1>42. CASE TimePasses
  <2>1. TypeOK'
    BY <1>a, <1>42 DEF TimePasses, TypeOK
  <2>2. Shaped'
    BY <1>a, <1>42 DEF TimePasses, Shaped, ConfirmShaped, HotkeyShaped, RequestsShaped, AckShaped,
       UiShaped, TypeOK
  <2>3. KeepPlaced'
    BY <1>a, <1>42 DEF TimePasses, KeepPlaced, KeepIsDeliberate
  <2>4. TrialPlaced'
    BY <1>a, <1>42 DEF TimePasses, TrialPlaced
  <2>5. PadPlaced'
    BY <1>a, <1>42 DEF TimePasses, PadPlaced
  <2>6. LocalQuarantined'
    BY <1>a, <1>42 DEF TimePasses, LocalQuarantined
  <2>7. SpentLatched'
    BY <1>a, <1>42 DEF TimePasses, SpentLatched
  <2> QED
    BY <2>1, <2>2, <2>3, <2>4, <2>5, <2>6, <2>7 DEF Inv
<1>43. CASE UNCHANGED vars
  BY <1>43 DEF vars, Inv, TypeOK, Shaped, ConfirmShaped, HotkeyShaped, RequestsShaped, AckShaped,
     UiShaped, KeepPlaced, KeepIsDeliberate, TrialPlaced, PadPlaced, LocalQuarantined,
     SpentLatched
<1> QED
  BY <1>1, <1>2, <1>3, <1>4, <1>5, <1>6, <1>7, <1>8, <1>9, <1>10, <1>11, <1>12, <1>13, <1>14,
     <1>15, <1>16, <1>17, <1>18, <1>19, <1>20, <1>21, <1>22, <1>23, <1>24, <1>25, <1>26, <1>27,
     <1>28, <1>29, <1>30, <1>31, <1>32, <1>33, <1>34, <1>35, <1>36, <1>37, <1>38, <1>39, <1>40,
     <1>41, <1>42, <1>43
     DEF Next, Controller, Arbiter, Branch, Main

\* Every interleaving of the polls, the main thread and the remote operator keeps
\* the inductive invariant.
THEOREM InputInvariant == Spec => []Inv
<1> QED
  BY InvInit, InvStep, PTL DEF Spec

\* Every variable keeps its type.
THEOREM InputTypeCorrect == Spec => []TypeOK
<1>1. Inv => TypeOK
  BY DEF Inv
<1> QED
  BY <1>1, InputInvariant, PTL

\* A candidate is kept only by a user whom the dialog has shown it, and never
\* under a remote change, however switch, deadline and presses interleave.
THEOREM KeepAlwaysDeliberate == Spec => []KeepIsDeliberate
<1>1. Inv => KeepIsDeliberate
  BY DEF Inv, KeepPlaced
<1> QED
  BY <1>1, InputInvariant, PTL

\* What the main thread, the operator and the clock leave to the controller.
LEMMA MainLeavesController ==
  Main \/ TimePasses => UNCHANGED <<server_buttons, mouse, place>>
  BY DEF Main, TimePasses, controller, Refresh, Recovered, Ack, Acked, Policy, PolicyAnswered,
     Calibrate, Calibrated, Keep, Committed, ClaimMode, PiBegins, BeginFails, Arm, Acquired,
     Works, Switched, Rollback, GoBack, WentBack, Restored, RemoteAsks, RemoteEnds, Leaves

\* Only the arbiter takes a poll to its branch.
LEMMA PollsAct ==
  ASSUME [Next]_vars, place = "poll", place' \in {"branch", "gone"}
  PROVE  Arbiter
<1>1. ~(CooldownEnds \/ Branch \/ Pauses \/ Resumes)
  BY DEF CooldownEnds, Branch, DeadlineFires, AckScreen, ConfirmScreen, SystemMenu, DisplayMenu,
     Keyboard, Takes, Desktop, Pauses, Resumes, At
<1> QED
  BY <1>1, MainLeavesController DEF Next, Controller, vars, controller

\* Only the desktop moves the mouse buttons in a branch.
LEMMA MouseMoves ==
  ASSUME [Next]_vars, place = "branch", place' = "poll", mouse' # mouse
  PROVE  Desktop
<1>1. ~(CooldownEnds \/ Pauses \/ Resumes)
  BY DEF CooldownEnds, Pauses, Resumes, At
<1>2. ~Arbiter
  BY DEF Arbiter, Latched, MaskChanges, Waits, DisplaySettings, HoldBegins, Holds, HoldFires,
     Steady, Reads, At
<1>3. ~(DeadlineFires \/ AckScreen \/ ConfirmScreen \/ SystemMenu \/ DisplayMenu \/ Keyboard)
  BY DEF DeadlineFires, AckScreen, ConfirmScreen, SystemMenu, DisplayMenu, Keyboard, Takes
<1> QED
  BY <1>1, <1>2, <1>3, MainLeavesController DEF Next, Controller, Branch, vars, controller

\* The main thread goes on from BEGIN to the switch only with the Pi's record.
LEMMA BeginToWork ==
  ASSUME [Next]_vars, at = "begin", at' \in {"work", "acquire"}
  PROVE  record = target
<1>1. ~Main \/ record = target
  BY DEF Main, Serves, Display, Pad, Refresh, Recovered, Ack, Acked, Policy, PolicyAnswered,
     Calibrate, Calibrated, Keep, Committed, ClaimMode, PiBegins, BeginFails, Arm, Acquired,
     Works, Switched, Rollback, GoBack, WentBack, Restored, RemoteAsks, RemoteEnds, Leaves,
     Returned
<1>2. ~Controller /\ ~TimePasses
  <2>1. Arbiter => at' = at
    <3>1. ASSUME NEW grip \in Grips, Reads(grip) PROVE at' = at
      BY <3>1 DEF Reads, main
    <3>2. Arbiter => \E grip \in Grips : Reads(grip)
      BY DEF Arbiter, Latched, MaskChanges, Waits, DisplaySettings, HoldBegins, Holds, HoldFires,
         Steady
    <3> QED
      BY <3>1, <3>2
  <2>2. CooldownEnds \/ Pauses \/ Resumes \/ TimePasses => at' = at
    BY DEF CooldownEnds, Pauses, Resumes, TimePasses, main
  <2>3. Branch => at' \in {at, "gone"}
    BY DEF Branch, DeadlineFires, AckScreen, ConfirmScreen, SystemMenu, DisplayMenu, Keyboard,
       Takes, Desktop, main
  <2> QED
    BY <2>1, <2>2, <2>3 DEF Controller
<1> QED
  BY <1>1, <1>2 DEF Next, vars, main

\* A transaction is never armed over one that is open or not acknowledged.
THEOREM AlwaysOneTransaction == Spec => OneTransaction
<1> DEFINE Alone == at = "begin" /\ at' \in {"work", "acquire"} =>
                      ~confirm.pending /\ ~ack.visible
<1>1. ASSUME Inv, [Next]_vars PROVE [Alone]_vars
  <2> SUFFICES ASSUME at = "begin", at' \in {"work", "acquire"}
               PROVE  ~confirm.pending /\ ~ack.visible
    OBVIOUS
  <2>1. record = target
    BY <1>1, BeginToWork
  <2> QED
    BY <1>1, <2>1, ControllerInputAssumption DEF Inv, TrialPlaced, Stage
<1> QED
  BY <1>1, InputInvariant, PTL DEF Spec, OneTransaction

\* A press that went to a menu, the keyboard or a dialog is no mouse button of the
\* desktop until it is released, or until a remote change has taken the pad and given
\* it back, whatever else opens or closes meanwhile.
THEOREM LocalPressesAlwaysLocal == Spec => LocalPressesStayLocal
<1> DEFINE Stays == place = "branch" /\ place' = "poll" /\ mouse' # mouse =>
                      mouse' \cap local \subseteq forgotten
<1>1. ASSUME Inv, [Next]_vars PROVE [Stays]_vars
  <2> SUFFICES ASSUME place = "branch", place' = "poll", mouse' # mouse
               PROVE  mouse' \cap local \subseteq forgotten
    OBVIOUS
  <2>1. Desktop
    BY <1>1, MouseMoves
  <2>2. mouse' \subseteq {"CROSS", "CIRCLE"} \ quarantine
    BY <2>1 DEF Desktop, OpenKeyboard, PointerEvent, Pressed
  <2>3. (local \ forgotten) \cap {"CROSS", "CIRCLE"} \subseteq quarantine
    BY <1>1 DEF Inv, LocalQuarantined
  <2>4. ASSUME NEW button, button \in mouse', button \in local PROVE button \in forgotten
    BY <2>2, <2>3, <2>4
  <2> QED
    BY <2>4
<1> QED
  BY <1>1, InputInvariant, PTL DEF Spec, LocalPressesStayLocal

\* The server holds no mouse button that the controller does not remember having
\* sent: what opens during a drag lets it go.
THEOREM ButtonsAlwaysAccounted == Spec => ButtonsAccounted
<1> DEFINE Kept == server_buttons \subseteq mouse /\ place # "paused" =>
                     server_buttons' \subseteq mouse'
<1>1. ASSUME [Next]_vars PROVE [Kept]_vars
  <2> SUFFICES ASSUME server_buttons \subseteq mouse, place # "paused"
               PROVE  server_buttons' \subseteq mouse'
    OBVIOUS
  <2>1. ASSUME NEW grip \in Grips, Latched(grip) \/ MaskChanges(grip) \/ Waits(grip)
               \/ DisplaySettings(grip) \/ HoldBegins(grip) \/ Holds(grip) \/ HoldFires(grip)
        PROVE  server_buttons' \subseteq mouse'
    BY <2>1 DEF Latched, MaskChanges, Waits, DisplaySettings, HoldBegins, Holds, HoldFires
  <2>2. CASE CooldownEnds \/ DeadlineFires \/ Pauses
    BY <2>2 DEF CooldownEnds, DeadlineFires, Pauses
  <2>3. CASE AckScreen \/ ConfirmScreen \/ SystemMenu \/ DisplayMenu \/ Keyboard
    BY <2>3 DEF AckScreen, ConfirmScreen, SystemMenu, DisplayMenu, Keyboard, Takes, Jiggles
  <2>4. CASE Desktop
    BY <2>4 DEF Desktop, OpenKeyboard, PointerEvent
  <2>5. CASE Resumes
    BY <2>5 DEF Resumes, At
  <2>6. CASE UNCHANGED <<server_buttons, mouse>>
    BY <2>6
  <2> QED
    BY <1>1, <2>1, <2>2, <2>3, <2>4, <2>5, <2>6, MainLeavesController
       DEF Next, Controller, Arbiter, Branch, vars, controller
<1> QED
  BY <1>1, PTL DEF Spec, ButtonsAccounted

\* After a chord has fired no poll opens, asks for or sends anything on account of
\* the hotkeys until all of them are up, however they are let go, or until a remote
\* change has taken the pad and given it back.
THEOREM ChordAlwaysSpent == Spec => ChordIsSpent
<1> DEFINE Quiet == place = "poll" /\ place' \in {"branch", "gone"} /\ spent = "fired"
                      => ~Acts
<1>1. ASSUME Inv, [Next]_vars PROVE [Quiet]_vars
  <2> SUFFICES ASSUME place = "poll", place' \in {"branch", "gone"}, spent = "fired"
               PROVE  ~Acts
    OBVIOUS
  <2>1. hotkey.latched
    BY <1>1 DEF Inv, SpentLatched
  <2>2. ASSUME NEW grip \in Grips, Latched(grip) PROVE ~Acts
    BY <2>2 DEF Latched, Acts
  <2>3. ASSUME NEW grip \in Grips, MaskChanges(grip) \/ Waits(grip) \/ DisplaySettings(grip)
               \/ HoldBegins(grip) \/ Holds(grip) \/ HoldFires(grip)
        PROVE  ~Acts
    BY <2>1, <2>3 DEF MaskChanges, Waits, DisplaySettings, HoldBegins, Holds, HoldFires, Steady
  <2> QED
    BY <1>1, <2>2, <2>3, PollsAct DEF Arbiter
<1> QED
  BY <1>1, InputInvariant, PTL DEF Spec, ChordIsSpent

================================================================================
