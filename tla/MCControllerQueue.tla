--------------------------- MODULE MCControllerQueue ---------------------------
(* ControllerQueue with a ring of two slots, four messages and three sessions.   *)
EXTENDS ControllerQueue

===============================================================================
