--------------------------- MODULE DisplayAuthority ---------------------------
(* What a display transaction promises across the two machines and their        *)
(* restarts: one mode is the confirmed one; another may be on trial; and the    *)
(* trial replaces the confirmed mode only after the user has kept it.           *)
CONSTANTS Modes, None

VARIABLES
  confirmed,         \* the mode a fresh start comes up in
  trial,             \* the mode on trial, or None
  kept               \* the user has kept the trial

Init == confirmed \in Modes /\ trial = None /\ kept = FALSE

Try(mode) ==
  /\ trial = None /\ mode # confirmed
  /\ trial' = mode /\ kept' = FALSE
  /\ UNCHANGED confirmed

Keep ==
  /\ kept' = TRUE
  /\ UNCHANGED <<confirmed, trial>>

Promote ==
  /\ trial # None /\ kept
  /\ confirmed' = trial /\ trial' = None
  /\ UNCHANGED kept

GoBack ==
  /\ trial # None /\ trial' = None
  /\ UNCHANGED <<confirmed, kept>>

Next == (\E mode \in Modes : Try(mode)) \/ Keep \/ Promote \/ GoBack

Spec == Init /\ [][Next]_<<confirmed, trial, kept>>

===============================================================================
