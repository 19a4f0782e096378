-------------------------- MODULE StartupDiagnostics --------------------------
(* The startup telemetry: the stages app.c reports, diagnostics.c sends and     *)
(* identity.c's __wrap_sendto puts the identity of the program in front of.     *)
(*                                                                              *)
(* The PS2IP stack is external and modelled from the comment at its use: while  *)
(* the Pi's address is unresolved it keeps one pending packet, a later one      *)
(* takes its place, and sendto has reported success for both.  The stack runs   *)
(* on the IOP, so the Pi's ARP reply may come between any two calls.            *)
EXTENDS Naturals, Sequences, FiniteSets

VARIABLES
  app,             \* where pstvnc_app_run is
  diagnostics_ready, connected,
  sending,         \* the stage inside __wrap_sendto, Nothing outside
  identity_tried,  \* the wrapper has made its own call before this payload
  identity_sent,   \* ps2vnc_identity_sent
  resolved,        \* the stack knows the Pi's link address
  pending,         \* its one packet waiting for that address
  accepted,        \* ghost: what sendto reported success for, in order
  observed         \* what has reached the observer, in order

vars == <<app, diagnostics_ready, connected, sending, identity_tried,
          identity_sent, resolved, pending, accepted, observed>>

Nothing == "nothing"
Identity == "PS2VNC_ID"

\* The stages in order, and where the coordinator goes from each.
Stage == [netReady |-> "NET_READY", gsReady |-> "GS_READY",
          desktopReady |-> "DESKTOP_READY", fatal |-> "FATAL"]

NextPlace == [netReady |-> "graphics", gsReady |-> "session",
              desktopReady |-> "serve", fatal |-> "shutdown"]

Packets == {Identity} \cup {Stage[s] : s \in DOMAIN Stage}

TypeOK ==
  /\ app \in {"boot", "connect", "graphics", "session", "serve", "shutdown",
              "done"} \cup DOMAIN Stage
  /\ {diagnostics_ready, connected, identity_tried, identity_sent, resolved}
       \subseteq BOOLEAN
  /\ sending \in Packets \cup {Nothing} /\ pending \in Packets \cup {Nothing}
  /\ accepted \in Seq(Packets) /\ observed \in Seq(Packets)

Init ==
  /\ app = "boot"
  /\ diagnostics_ready = FALSE /\ connected = FALSE
  /\ sending = Nothing /\ identity_tried = FALSE /\ identity_sent = FALSE
  /\ resolved = FALSE /\ pending = Nothing
  /\ accepted = <<>> /\ observed = <<>>

wrapper == <<sending, identity_tried, identity_sent>>
wire == <<resolved, pending, accepted, observed>>

------------------------------------------------------------------------------
(* The stack.                                                                   *)

\* The Pi's address becomes known and the packet that waited for it goes out.
Resolve ==
  /\ resolved' = TRUE
  /\ pending' = Nothing
  /\ observed' = IF pending = Nothing THEN observed ELSE Append(observed, pending)

ArpReply ==
  /\ ~resolved /\ pending # Nothing
  /\ Resolve
  /\ UNCHANGED <<app, diagnostics_ready, connected, wrapper, accepted>>

\* __real_sendto: "ok" says whether it returned a length.
Sendto(packet, ok) ==
  /\ UNCHANGED resolved
  /\ IF ~ok THEN UNCHANGED <<pending, accepted, observed>>
     ELSE /\ accepted' = Append(accepted, packet)
          /\ IF resolved
             THEN observed' = Append(observed, packet) /\ UNCHANGED pending
             ELSE pending' = packet /\ UNCHANGED observed

------------------------------------------------------------------------------
(* The coordinator.                                                             *)

\* prepare_iop, network_init, wait_link; then the optional socket.
Boot ==
  /\ app = "boot"
  /\ \/ app' = "connect" /\ diagnostics_ready' \in BOOLEAN
     \/ app' = "fatal" /\ UNCHANGED diagnostics_ready
  /\ UNCHANGED <<connected, wrapper, wire>>

\* Fault: the network counts as ready before the Pi has been reached.
ConnectAfterReport ==
  /\ app = "connect"
  /\ connected' = TRUE
  /\ app' = "netReady"
  /\ UNCHANGED <<diagnostics_ready, wrapper, wire>>

\* A connection that opened or was refused has resolved the Pi; one that timed
\* out has not, or has meanwhile.
ConnectVnc ==
  /\ app = "connect"
  /\ \/ app' = "netReady" /\ connected' = TRUE /\ Resolve
     \/ app' = "fatal" /\ UNCHANGED connected /\ Resolve
     \/ app' = "fatal" /\ UNCHANGED <<connected, resolved, pending, observed>>
  /\ UNCHANGED <<diagnostics_ready, wrapper, accepted>>

\* send_diagnostic_literal, up to the first sendto.
Report ==
  /\ app \in DOMAIN Stage /\ sending = Nothing
  /\ IF diagnostics_ready
     THEN /\ sending' = Stage[app]
          /\ identity_tried' = identity_sent
          /\ UNCHANGED app
     ELSE app' = NextPlace[app] /\ UNCHANGED <<sending, identity_tried>>
  /\ UNCHANGED <<diagnostics_ready, connected, identity_sent, wire>>

\* Fault: the identity goes out in front of every payload.
SendIdentityAgain ==
  /\ sending # Nothing /\ ~identity_tried
  /\ \E ok \in BOOLEAN : Sendto(Identity, ok)
  /\ identity_tried' = TRUE
  /\ UNCHANGED <<app, diagnostics_ready, connected, sending, identity_sent>>

SendIdentity ==
  /\ sending # Nothing /\ ~identity_tried
  /\ \E ok \in BOOLEAN : Sendto(Identity, ok) /\ identity_sent' = ok
  /\ identity_tried' = TRUE
  /\ UNCHANGED <<app, diagnostics_ready, connected, sending>>

SendPayload ==
  /\ sending # Nothing /\ identity_tried
  /\ \E ok \in BOOLEAN : Sendto(sending, ok)
  /\ app' = NextPlace[app]
  /\ sending' = Nothing
  /\ UNCHANGED <<diagnostics_ready, connected, identity_tried, identity_sent>>

\* framebuffer and graphics_init; session_start up to the first presentation;
\* the request loop, which only ends by failing.
Proceed ==
  /\ \/ app = "graphics" /\ app' \in {"gsReady", "fatal"}
     \/ app = "session" /\ app' \in {"desktopReady", "fatal"}
     \/ app = "serve" /\ app' = "fatal"
  /\ UNCHANGED <<diagnostics_ready, connected, wrapper, wire>>

\* The socket is closed and the program leaves for OSDSYS, taking the IOP's
\* stack and what is still pending there with it.
Shutdown ==
  /\ app = "shutdown"
  /\ app' = "done"
  /\ diagnostics_ready' = FALSE
  /\ pending' = Nothing
  /\ UNCHANGED <<connected, wrapper, resolved, accepted, observed>>

Done == app = "done" /\ UNCHANGED vars

Next == Boot \/ ConnectVnc \/ Report \/ SendIdentity \/ SendPayload \/ Proceed
          \/ Shutdown \/ ArpReply \/ Done

Spec == Init /\ [][Next]_vars

------------------------------------------------------------------------------
(* What connecting first buys.                                                  *)

\* Once the VNC connection is up, every datagram sendto reported as sent has
\* reached the observer, in order: none is replaced while it waits for ARP.
NothingReplaced == connected => observed = accepted

\* The observer hears the identity exactly when the program believes it did, and
\* never twice, however often the identity datagram itself was refused.
IdentifiedOnce ==
  LET heard == {i \in DOMAIN observed : observed[i] = Identity}
  IN /\ Cardinality(heard) <= 1
     /\ connected => (identity_sent <=> heard # {})

------------------------------------------------------------------------------
(* The inductive strengthening.                                                 *)

\* Nothing is sent before the connection has been tried.
Silent ==
  app \in {"boot", "connect"} =>
    /\ accepted = <<>> /\ observed = <<>>
    /\ pending = Nothing /\ sending = Nothing
    /\ identity_sent = FALSE

Delivery ==
  /\ resolved = TRUE => pending = Nothing
  /\ connected = TRUE => resolved = TRUE /\ observed = accepted

\* One identity at most, on the wire or waiting, and only if it counts as sent.
OneIdentity ==
  /\ sending # Nothing => app \in DOMAIN Stage /\ sending = Stage[app]
  /\ sending # Nothing /\ identity_tried = FALSE => identity_sent = FALSE
  /\ identity_sent = FALSE =>
       pending # Identity /\ \A i \in DOMAIN observed : observed[i] # Identity
  /\ pending = Identity => \A i \in DOMAIN observed : observed[i] # Identity
  /\ \A i, j \in DOMAIN observed :
       observed[i] = Identity /\ observed[j] = Identity => i = j
  /\ connected = TRUE /\ identity_sent = TRUE =>
       \E i \in DOMAIN observed : observed[i] = Identity

DiagnosticsInv == TypeOK /\ Silent /\ Delivery /\ OneIdentity
==============================================================================
