----------------------- MODULE StartupDiagnosticsProofs -----------------------
(* Once the VNC connection is up no diagnostic is lost to ARP, and the identity *)
(* is heard exactly once.                                                       *)
EXTENDS StartupDiagnostics, FiniteSetTheorems, TLAPS

LEMMA AppendElements ==
  ASSUME NEW s \in Seq(Packets), NEW p \in Packets
  PROVE  /\ Append(s, p) \in Seq(Packets)
         /\ DOMAIN Append(s, p) = DOMAIN s \cup {Len(s) + 1}
         /\ Len(s) + 1 \notin DOMAIN s
         /\ \A i \in DOMAIN s : Append(s, p)[i] = s[i]
         /\ Append(s, p)[Len(s) + 1] = p
  OBVIOUS

LEMMA NotPackets == Nothing \notin Packets /\ Identity \in Packets
  BY DEF Nothing, Identity, Packets, Stage

LEMMA StagesArePackets ==
  ASSUME NEW s \in DOMAIN Stage
  PROVE  Stage[s] \in Packets /\ Stage[s] # Identity /\ Stage[s] # Nothing
  BY DEF Packets, Stage, Identity, Nothing

LEMMA DiagnosticsStarts == Init => DiagnosticsInv
  <1> SUFFICES ASSUME Init PROVE DiagnosticsInv
    OBVIOUS
  <1>1. <<>> \in Seq(Packets) /\ DOMAIN <<>> = {} /\ Nothing # Identity
    BY NotPackets
  <1>2. TypeOK
    <2>1. /\ app = "boot" /\ sending = Nothing /\ pending = Nothing
          /\ accepted \in Seq(Packets) /\ observed \in Seq(Packets)
      BY <1>1 DEF Init
    <2>2. {diagnostics_ready, connected, identity_tried, identity_sent, resolved}
            \subseteq BOOLEAN
      BY DEF Init
    <2>3. QED
      BY <2>1, <2>2 DEF TypeOK
  <1>3. Silent /\ Delivery /\ OneIdentity
    BY <1>1 DEF Init, Silent, Delivery, OneIdentity
  <1>4. QED
    BY <1>2, <1>3 DEF DiagnosticsInv

\* What a sendto of the identity, or of a stage, does to the invariant's parts.
LEMMA SendIdentityInvariant ==
  ASSUME DiagnosticsInv, SendIdentity
  PROVE  DiagnosticsInv'
  <1>1. PICK ok \in BOOLEAN : Sendto(Identity, ok) /\ identity_sent' = ok
    BY DEF SendIdentity
  <1>2. /\ sending # Nothing /\ identity_tried = FALSE /\ identity_tried' = TRUE
        /\ identity_sent = FALSE
        /\ UNCHANGED <<app, diagnostics_ready, connected, sending, resolved>>
    BY <1>1 DEF SendIdentity, Sendto, DiagnosticsInv, TypeOK, OneIdentity
  <1>3. app \in DOMAIN Stage /\ app \notin {"boot", "connect"}
    BY <1>2 DEF DiagnosticsInv, OneIdentity, Stage
  <1>4. CASE ~ok
    BY <1>1, <1>2, <1>3, <1>4
    DEF Sendto, DiagnosticsInv, TypeOK, Silent, Delivery, OneIdentity
  <1>5. CASE ok /\ resolved
    <2>1. accepted' = Append(accepted, Identity)
          /\ observed' = Append(observed, Identity)
          /\ UNCHANGED pending /\ identity_sent' = TRUE
      BY <1>1, <1>5 DEF Sendto
    <2>2. observed' \in Seq(Packets) /\ accepted' \in Seq(Packets)
      BY <2>1, AppendElements, NotPackets DEF DiagnosticsInv, TypeOK
    <2>3. TypeOK' /\ Silent' /\ Delivery'
      BY <1>2, <1>3, <1>5, <2>1, <2>2
      DEF DiagnosticsInv, TypeOK, Silent, Delivery
    <2>4. OneIdentity'
      BY <1>2, <1>5, <2>1, AppendElements, NotPackets
      DEF DiagnosticsInv, TypeOK, Delivery, OneIdentity
    <2>5. QED
      BY <2>3, <2>4 DEF DiagnosticsInv
  <1>6. CASE ok /\ ~resolved
    <2>1. accepted' = Append(accepted, Identity)
          /\ pending' = Identity
          /\ UNCHANGED observed /\ identity_sent' = TRUE
      BY <1>1, <1>6 DEF Sendto
    <2>2. accepted' \in Seq(Packets)
      BY <2>1, AppendElements, NotPackets DEF DiagnosticsInv, TypeOK
    <2>3. connected = FALSE
      BY <1>6 DEF DiagnosticsInv, TypeOK, Delivery
    <2>4. TypeOK' /\ Silent' /\ Delivery'
      BY <1>2, <1>3, <1>6, <2>1, <2>2, <2>3, NotPackets
      DEF DiagnosticsInv, TypeOK, Silent, Delivery
    <2>5. OneIdentity'
      BY <1>2, <2>1, <2>3 DEF DiagnosticsInv, OneIdentity
    <2>6. QED
      BY <2>4, <2>5 DEF DiagnosticsInv
  <1>7. QED
    BY <1>4, <1>5, <1>6

LEMMA SendPayloadInvariant ==
  ASSUME DiagnosticsInv, SendPayload
  PROVE  DiagnosticsInv'
  <1>1. PICK ok \in BOOLEAN : Sendto(sending, ok)
    BY DEF SendPayload
  <1>2. /\ sending # Nothing /\ sending' = Nothing /\ app' = NextPlace[app]
        /\ UNCHANGED <<diagnostics_ready, connected, identity_tried,
                       identity_sent, resolved>>
    BY <1>1 DEF SendPayload, Sendto
  <1>3. /\ app \in DOMAIN Stage /\ sending = Stage[app]
        /\ app \notin {"boot", "connect"}
        /\ app' \in {"graphics", "session", "serve", "shutdown"}
    BY <1>2 DEF DiagnosticsInv, OneIdentity, Stage, NextPlace
  <1>4. sending \in Packets /\ sending # Identity
    BY <1>3, StagesArePackets
  <1>5. CASE ~ok
    BY <1>1, <1>2, <1>3, <1>5
    DEF Sendto, DiagnosticsInv, TypeOK, Silent, Delivery, OneIdentity
  <1>6. CASE ok /\ resolved
    <2>1. accepted' = Append(accepted, sending)
          /\ observed' = Append(observed, sending)
          /\ UNCHANGED pending
      BY <1>1, <1>6 DEF Sendto
    <2>2. observed' \in Seq(Packets) /\ accepted' \in Seq(Packets)
      BY <1>4, <2>1, AppendElements DEF DiagnosticsInv, TypeOK
    <2>3. TypeOK' /\ Silent' /\ Delivery'
      BY <1>2, <1>3, <1>6, <2>1, <2>2
      DEF DiagnosticsInv, TypeOK, Silent, Delivery
    <2>4. OneIdentity'
      BY <1>2, <1>4, <1>6, <2>1, AppendElements, NotPackets
      DEF DiagnosticsInv, TypeOK, Delivery, OneIdentity
    <2>5. QED
      BY <2>3, <2>4 DEF DiagnosticsInv
  <1>7. CASE ok /\ ~resolved
    <2>1. accepted' = Append(accepted, sending) /\ pending' = sending
          /\ UNCHANGED observed
      BY <1>1, <1>7 DEF Sendto
    <2>2. accepted' \in Seq(Packets)
      BY <1>4, <2>1, AppendElements DEF DiagnosticsInv, TypeOK
    <2>3. connected = FALSE
      BY <1>7 DEF DiagnosticsInv, TypeOK, Delivery
    <2>4. TypeOK' /\ Silent' /\ Delivery'
      BY <1>2, <1>3, <1>4, <1>7, <2>1, <2>2, <2>3
      DEF DiagnosticsInv, TypeOK, Silent, Delivery
    <2>5. OneIdentity'
      BY <1>2, <1>4, <2>1, <2>3 DEF DiagnosticsInv, OneIdentity
    <2>6. QED
      BY <2>4, <2>5 DEF DiagnosticsInv
  <1>8. QED
    BY <1>5, <1>6, <1>7

\* The waiting packet, if any, goes out.
LEMMA ResolveInvariant ==
  ASSUME DiagnosticsInv, Resolve,
         UNCHANGED <<wrapper, accepted>>,
         \/ UNCHANGED <<app, connected>>
         \/ /\ app = "connect" /\ sending = Nothing
            /\ app' \in {"netReady", "fatal"},
         connected' \in BOOLEAN, diagnostics_ready' \in BOOLEAN
  PROVE  DiagnosticsInv'
  <1> USE DEF wrapper
  <1>1. CASE pending = Nothing
    BY <1>1, NotPackets
    DEF Resolve, DiagnosticsInv, TypeOK, Silent, Delivery, OneIdentity, Stage
  <1>2. CASE pending # Nothing
    <2>1. pending \in Packets /\ resolved = FALSE /\ connected = FALSE
      BY <1>2 DEF DiagnosticsInv, TypeOK, Delivery
    <2>2. UNCHANGED <<app, connected>> /\ app \notin {"boot", "connect"}
      BY <1>2 DEF DiagnosticsInv, Silent
    <2>3. observed' = Append(observed, pending) /\ pending' = Nothing /\ resolved' = TRUE
      BY <1>2 DEF Resolve
    <2>4. observed' \in Seq(Packets)
      BY <2>1, <2>3, AppendElements DEF DiagnosticsInv, TypeOK
    <2>5. TypeOK' /\ Silent' /\ Delivery'
      BY <2>1, <2>2, <2>3, <2>4 DEF DiagnosticsInv, TypeOK, Silent, Delivery
    <2>6. OneIdentity'
      BY <2>1, <2>2, <2>3, AppendElements, NotPackets
      DEF DiagnosticsInv, TypeOK, OneIdentity
    <2>7. QED
      BY <2>5, <2>6 DEF DiagnosticsInv
  <1>3. QED
    BY <1>1, <1>2

\* DiagnosticsInv is inductive.
LEMMA DiagnosticsStep == DiagnosticsInv /\ [Next]_vars => DiagnosticsInv'
  <1> SUFFICES ASSUME DiagnosticsInv, [Next]_vars PROVE DiagnosticsInv'
    OBVIOUS
  <1> USE DEF wrapper, wire
  <1>1. CASE Boot
    BY <1>1
    DEF Boot, DiagnosticsInv, TypeOK, Silent, Delivery, OneIdentity, Stage
  <1>2. CASE ConnectVnc
    <2>1. app = "connect" /\ sending = Nothing
      BY <1>2 DEF ConnectVnc, DiagnosticsInv, Silent
    <2>2. CASE Resolve
      BY <1>2, <2>1, <2>2, ResolveInvariant DEF ConnectVnc, DiagnosticsInv, TypeOK
    <2>3. CASE UNCHANGED <<connected, resolved, pending, observed>> /\ app' = "fatal"
      BY <1>2, <2>1, <2>3
      DEF ConnectVnc, DiagnosticsInv, TypeOK, Silent, Delivery, OneIdentity, Stage
    <2>4. QED
      BY <1>2, <2>2, <2>3 DEF ConnectVnc
  <1>3. CASE Report
    <2>1. CASE diagnostics_ready
      <3>1. Stage[app] \in Packets /\ app \notin {"boot", "connect"}
        BY <1>3, StagesArePackets DEF Report, Stage
      <3>2. QED
        BY <1>3, <2>1, <3>1
        DEF Report, DiagnosticsInv, TypeOK, Silent, Delivery, OneIdentity
    <2>2. CASE ~diagnostics_ready
      <3>1. app' \in {"graphics", "session", "serve", "shutdown"}
        BY <1>3, <2>2 DEF Report, Stage, NextPlace
      <3>2. QED
        BY <1>3, <2>2, <3>1
        DEF Report, DiagnosticsInv, TypeOK, Silent, Delivery, OneIdentity
    <2>3. QED
      BY <2>1, <2>2
  <1>4. CASE SendIdentity
    BY <1>4, SendIdentityInvariant
  <1>5. CASE SendPayload
    BY <1>5, SendPayloadInvariant
  <1>6. CASE Proceed
    BY <1>6
    DEF Proceed, DiagnosticsInv, TypeOK, Silent, Delivery, OneIdentity, Stage
  <1>7. CASE Shutdown
    BY <1>7, NotPackets
    DEF Shutdown, DiagnosticsInv, TypeOK, Silent, Delivery, OneIdentity, Stage
  <1>8. CASE ArpReply
    BY <1>8, ResolveInvariant DEF ArpReply, DiagnosticsInv, TypeOK
  <1>9. CASE Done \/ UNCHANGED vars
    BY <1>9
    DEF Done, vars, DiagnosticsInv, TypeOK, Silent, Delivery, OneIdentity
  <1>10. QED
    BY <1>1, <1>2, <1>3, <1>4, <1>5, <1>6, <1>7, <1>8, <1>9 DEF Next

LEMMA DiagnosticsInvariant == Spec => []DiagnosticsInv
  BY DiagnosticsStarts, DiagnosticsStep, PTL DEF Spec

\* After a successful connect no datagram sendto reported as sent is replaced
\* while it waits for the Pi's link address (app.c's startup order).
THEOREM NothingEverReplaced == Spec => []NothingReplaced
  <1>1. DiagnosticsInv => NothingReplaced
    BY DEF DiagnosticsInv, TypeOK, Delivery, NothingReplaced
  <1>2. QED
    BY <1>1, DiagnosticsInvariant, PTL

\* The observer never hears the identity twice, and over a connection it hears it
\* exactly when ps2vnc_identity_sent is set (__wrap_sendto).
THEOREM AlwaysIdentifiedOnce == Spec => []IdentifiedOnce
  <1>1. DiagnosticsInv => IdentifiedOnce
    <2> SUFFICES ASSUME DiagnosticsInv PROVE IdentifiedOnce
      OBVIOUS
    <2> DEFINE heard == {i \in DOMAIN observed : observed[i] = Identity}
    <2>1. connected => (identity_sent <=> heard # {})
      BY DEF DiagnosticsInv, TypeOK, OneIdentity
    <2>2. CASE heard = {}
      BY <2>1, <2>2, FS_EmptySet DEF IdentifiedOnce
    <2>3. CASE heard # {}
      <3>1. PICK i \in heard : TRUE
        BY <2>3
      <3>2. heard = {i}
        BY <3>1 DEF DiagnosticsInv, OneIdentity
      <3>3. Cardinality(heard) = 1
        BY <3>2, FS_Singleton
      <3>4. QED
        BY <2>1, <3>3 DEF IdentifiedOnce
    <2>4. QED
      BY <2>2, <2>3
  <1>2. QED
    BY <1>1, DiagnosticsInvariant, PTL
==============================================================================
