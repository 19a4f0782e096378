-------------------------- MODULE MCControllerInput --------------------------
EXTENDS ControllerInput

\* Of the two hold chords only Exit's is held: Refresh is asked for in the system menu.
MCGrips ==
  {{}, {"R1", "SQUARE"}, {"L1", "R1"}, {"L1", "R1", "CIRCLE"}, Hotkeys, {"DPAD"}, {"CROSS"},
   {"SELECT"}}

\* For the chord that begins on the desktop and is completed on the keyboard.
ChordGrips ==
  {{}, {"L1"}, {"L1", "SELECT"}, {"L1", "R1"}, {"L1", "R1", "CIRCLE"}}
=============================================================================
