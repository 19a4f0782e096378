------------------------------ MODULE MCLiveLoop ------------------------------
(* LiveLoop with two display modes, and two attempts of each reconnect loop.    *)
EXTENDS LiveLoop

===============================================================================
