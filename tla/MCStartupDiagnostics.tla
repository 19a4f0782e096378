------------------------ MODULE MCStartupDiagnostics -------------------------
(* The whole startup: nothing in it needs a bound.                              *)
EXTENDS StartupDiagnostics
==============================================================================
