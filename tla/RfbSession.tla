----------------------------- MODULE RfbSession ------------------------------
(* The synchronized RFB session of src/src/rfb_session.c: the startup           *)
(* handshake, the update request and the framebuffer-update receiver that       *)
(* decodes straight into the authoritative framebuffer.                         *)
(*                                                                              *)
(* One action per exact read or write; the server and the TCP connection are    *)
(* the environment: what a read delivers is any value the wire allows, in or    *)
(* out of contract, and every read and write may fail instead.  "step" is the   *)
(* place in the C function that runs, "idle" between calls; the caller here is  *)
(* any caller, VncApp has the real one.                                         *)
EXTENDS Framebuffer, Sequences, FiniteSets

CONSTANTS
  Geometries,      \* the <<width, height>> pairs a ServerInit or a caller names
  WireRects,       \* the rectangles a server may announce
  MaxRects,        \* bound: rectangles in one update
  MaxUpdates,      \* bound: FramebufferUpdate messages in a behaviour
  MaxRequests,     \* bound: update requests a caller leaves unanswered
  MaxRowPixels,    \* PSTVNC_RFB_SESSION_MAX_ROW_PIXELS
  MaxFramePixels   \* PSTVNC_RFB_SESSION_MAX_FRAME_PIXELS

ASSUME SessionAssumption ==
  /\ Geometries \subseteq (0 .. MaxWidth) \X (0 .. MaxHeight)
  /\ WireRects \subseteq Rectangles
  /\ {MaxRects, MaxUpdates, MaxRequests, MaxRowPixels, MaxFramePixels}
       \subseteq Nat

VARIABLES
  session,          \* state, error, socket_fd >= 0, server_init
  fb,               \* the framebuffer the session decodes into
  step,             \* where the running call is, "idle" when none runs
  result,           \* what the last call returned
  expected,         \* the geometry arguments of session_start
  require_full,     \* receive_framebuffer_update's argument
  rects,            \* rectangles left in this update, the current one included
  rect, row,        \* the current rectangle header, its rows read so far
  covered,          \* initial_frame_coverage
  covered_pixels, total_pixels,   \* the counters (total_pixel_bytes / 2)
  frame,            \* ghost: FramebufferUpdates begun; the stamp pixels get
  completed,        \* ghost: those of them that completed
  opened,           \* ghost: "frame" when this session started
  requested         \* ghost: requests written that no update has answered

sessionVars == <<session, fb, step, result, expected, require_full, rects, rect,
                 row, covered, covered_pixels, total_pixels, frame, completed,
                 opened, requested>>

scratch == <<require_full, rects, rect, row, covered, covered_pixels,
             total_pixels>>

SessionStates == {"NEW", "AWAITING_FULL_FRAME", "READY", "FAILED"}

Errors ==
  {"NONE", "IO", "PROTOCOL_VERSION", "SERVER_REJECTED",
   "SECURITY_NONE_UNAVAILABLE", "SECURITY_RESULT", "SERVER_INIT", "GEOMETRY",
   "UNSUPPORTED_SERVER_MESSAGE", "EMPTY_UPDATE", "UNSUPPORTED_ENCODING",
   "RECTANGLE_BOUNDS", "FULL_FRAME_SIZE", "FULL_FRAME_COVERAGE", "ROW_WIDTH"}

\* session_start's reads and writes, each with the one that follows it.
NextHandshake ==
  [banner |-> "clientVersion", clientVersion |-> "securityCount",
   securityCount |-> "securityTypes", securityTypes |-> "securityChoice",
   securityChoice |-> "securityResult", securityResult |-> "clientInit",
   clientInit |-> "serverInit", desktopName |-> "pixelFormat",
   pixelFormat |-> "encodings", encodings |-> "fullRequest",
   reasonLength |-> "reasonText"]

HandshakeSteps == DOMAIN NextHandshake
                    \cup {"serverInit", "fullRequest", "reasonText"}

\* What a well-formed but unacceptable answer makes session_start report.
Refusal ==
  [banner |-> "PROTOCOL_VERSION", securityTypes |-> "SECURITY_NONE_UNAVAILABLE",
   securityResult |-> "SECURITY_RESULT", reasonText |-> "SERVER_REJECTED"]

\* The places of receive_framebuffer_update: a message type, the header and
\* payload of a message that is only skipped, an update header, a rectangle
\* header, a row.
ReceiveSteps == {"type", "skipHeader", "skipBody", "header", "rectangle", "row"}

NewSession == [state |-> "NEW", error |-> "NONE", socket |-> FALSE,
               server |-> <<0, 0>>]

Sessions == [state : SessionStates, error : Errors, socket : BOOLEAN,
             server : (0 .. MaxWidth) \X (0 .. MaxHeight)]

TypeOK ==
  /\ session \in Sessions
  /\ fb \in Framebuffers
  /\ step \in {"idle"} \cup HandshakeSteps \cup ReceiveSteps
  /\ result \in {"none", "ok", "fail"}
  /\ expected \in (0 .. MaxWidth) \X (0 .. MaxHeight)
  /\ require_full \in BOOLEAN
  /\ rects \in Nat /\ row \in Nat /\ rect \in Rectangles
  /\ covered \subseteq AllCells
  /\ covered_pixels \in Nat /\ total_pixels \in Nat
  /\ frame \in Nat /\ completed \subseteq Nat /\ opened \in Nat /\ requested \in Nat

SessionInit ==
  /\ session = NewSession
  /\ fb = Empty
  /\ step = "idle" /\ result = "none"
  /\ expected = <<0, 0>>
  /\ require_full = FALSE
  /\ rects = 0 /\ rect = NoRect /\ row = 0
  /\ covered = {} /\ covered_pixels = 0 /\ total_pixels = 0
  /\ frame = 0 /\ completed = {} /\ opened = 0 /\ requested = 0

------------------------------------------------------------------------------
(* Returning from a call.                                                       *)

Return(r) == step' = "idle" /\ result' = r

Fail(error) ==
  /\ session' = [session EXCEPT !.state = "FAILED", !.error = error]
  /\ Return("fail")

\* Fault: a failed receive leaves the framebuffer its authority.
FailKeepingAuthority(error) == UNCHANGED fb /\ Fail(error)

FailFrame(error) == fb' = Invalidate(fb) /\ Fail(error)

------------------------------------------------------------------------------
(* session_start.                                                               *)

Nonzero(w, h) == w # 0 /\ h # 0

CallStart(w, h) ==
  /\ step = "idle"
  /\ IF Nonzero(w, h)
     THEN /\ session' = [NewSession EXCEPT !.socket = TRUE]
          /\ step' = "banner"
          /\ expected' = <<w, h>>
          /\ opened' = frame
          /\ requested' = 0
          /\ UNCHANGED result
     ELSE /\ Return("fail")
          /\ UNCHANGED <<session, expected, opened, requested>>
  /\ UNCHANGED <<fb, scratch, frame, completed>>

\* An exact read or write that succeeds with an acceptable answer.
HandshakeStep ==
  /\ step \in DOMAIN NextHandshake
  /\ step' = NextHandshake[step]
  /\ UNCHANGED <<session, fb, result, expected, scratch, frame, completed,
                 opened, requested>>

\* A security count of zero: the server explains instead.
HandshakeRejected ==
  /\ step = "securityCount"
  /\ step' = "reasonLength"
  /\ UNCHANGED <<session, fb, result, expected, scratch, frame, completed,
                 opened, requested>>

HandshakeRefused ==
  /\ step \in DOMAIN Refusal
  /\ Fail(Refusal[step])
  /\ UNCHANGED <<fb, expected, scratch, frame, completed, opened, requested>>

HandshakeIoFailure ==
  /\ step \in HandshakeSteps
  /\ Fail("IO")
  /\ UNCHANGED <<fb, expected, scratch, frame, completed, opened, requested>>

\* The geometry is stored before it is judged.
ReadServerInit ==
  /\ step = "serverInit"
  /\ \E g \in Geometries :
       \/ /\ g = expected
          /\ session' = [session EXCEPT !.server = g]
          /\ step' = "desktopName"
          /\ UNCHANGED result
       \/ /\ g # expected
          /\ session' = [session EXCEPT !.server = g, !.state = "FAILED",
                           !.error = IF Nonzero(g[1], g[2])
                                     THEN "GEOMETRY" ELSE "SERVER_INIT"]
          /\ Return("fail")
  /\ UNCHANGED <<fb, expected, scratch, frame, completed, opened, requested>>

\* Fault: a framebuffer that is valid already needs no first frame.
ReadyIfValid ==
  /\ step = "fullRequest"
  /\ session' = [session EXCEPT !.error = "NONE",
       !.state = IF fb.valid THEN "READY" ELSE "AWAITING_FULL_FRAME"]
  /\ requested' = requested + 1
  /\ Return("ok")
  /\ UNCHANGED <<fb, expected, scratch, frame, completed, opened>>

\* The last write of session_start.
WriteFullRequest ==
  /\ step = "fullRequest"
  /\ session' = [session EXCEPT !.state = "AWAITING_FULL_FRAME",
                                !.error = "NONE"]
  /\ requested' = requested + 1
  /\ Return("ok")
  /\ UNCHANGED <<fb, expected, scratch, frame, completed, opened>>

------------------------------------------------------------------------------
(* session_request_update: one write.                                           *)

RequestAccepted ==
  /\ session.socket
  /\ session.state = "READY"
  /\ session.server[1] # 0 /\ session.server[2] # 0

RequestUpdate ==
  /\ step = "idle"
  /\ requested < MaxRequests
  /\ \/ /\ RequestAccepted
        /\ session' = [session EXCEPT !.error = "NONE"]
        /\ requested' = requested + 1
        /\ Return("ok")
     \/ /\ RequestAccepted
        /\ Fail("IO")
        /\ UNCHANGED requested
     \/ /\ ~RequestAccepted
        /\ Return("fail")
        /\ UNCHANGED <<session, requested>>
  /\ UNCHANGED <<fb, expected, scratch, frame, completed, opened>>

------------------------------------------------------------------------------
(* session_receive_initial_frame and session_receive_update: the guards.        *)

FramebufferMatchesSession ==
  /\ session.socket
  /\ fb.width # 0 /\ fb.height # 0
  /\ session.server = <<fb.width, fb.height>>

InitialAccepted ==
  FramebufferMatchesSession /\ session.state = "AWAITING_FULL_FRAME"

UpdateAccepted ==
  FramebufferMatchesSession /\ session.state = "READY" /\ fb.valid

\* What both calls do once their guards decided "accepted".
EnterReceive(accepted, full, fbReceiving) ==
  /\ step = "idle"
  /\ IF ~accepted
     THEN Return("fail") /\ UNCHANGED <<session, fb, require_full>>
     ELSE IF fb.width > MaxRowPixels
     THEN FailFrame("ROW_WIDTH") /\ UNCHANGED require_full
     ELSE /\ step' = "type"
          /\ fb' = fbReceiving
          /\ require_full' = full
          /\ UNCHANGED <<session, result>>
  /\ UNCHANGED <<expected, rects, rect, row, covered, covered_pixels,
                 total_pixels, frame, completed, opened, requested>>

CallReceiveInitial == EnterReceive(InitialAccepted, TRUE, Invalidate(fb))

CallReceiveUpdate == EnterReceive(UpdateAccepted, FALSE, fb)

------------------------------------------------------------------------------
(* receive_framebuffer_update.                                                  *)

\* Every read of the receiver can fail; a row of no pixels needs no read.
ReceiveIoFailure ==
  /\ step \in ReceiveSteps
  /\ step = "rectangle" => rects > 0
  /\ step = "row" => row < rect.height /\ rect.width > 0
  /\ FailFrame("IO")
  /\ UNCHANGED <<expected, scratch, frame, completed, opened, requested>>

\* Bell has no body; ServerCutText and SetColorMapEntries are skipped whole.
ReadAsyncType ==
  /\ step = "type"
  /\ \E next \in {"type", "skipHeader"} : step' = next
  /\ UNCHANGED <<session, fb, result, expected, scratch, frame, completed,
                 opened, requested>>

SkipAsync ==
  /\ step \in {"skipHeader", "skipBody"}
  /\ step' = IF step = "skipHeader" THEN "skipBody" ELSE "type"
  /\ UNCHANGED <<session, fb, result, expected, scratch, frame, completed,
                 opened, requested>>

ReadUnknownType ==
  /\ step = "type"
  /\ FailFrame("UNSUPPORTED_SERVER_MESSAGE")
  /\ UNCHANGED <<expected, scratch, frame, completed, opened, requested>>

\* The server sends an update only for a request it has not answered yet.
ReadUpdateType ==
  /\ step = "type"
  /\ requested > 0 /\ frame < MaxUpdates
  /\ frame' = frame + 1
  /\ requested' = requested - 1
  /\ covered_pixels' = 0 /\ total_pixels' = 0
  /\ IF require_full /\ PixelCount(fb) > MaxFramePixels
     THEN FailFrame("FULL_FRAME_COVERAGE") /\ UNCHANGED covered
     ELSE /\ covered' = IF require_full THEN {} ELSE covered
          /\ step' = "header"
          /\ UNCHANGED <<session, fb, result>>
  /\ UNCHANGED <<expected, require_full, rects, rect, row, completed, opened>>

ReadUpdateHeader ==
  /\ step = "header"
  /\ \E count \in 0 .. MaxRects :
       IF require_full /\ count = 0
       THEN FailFrame("EMPTY_UPDATE") /\ UNCHANGED rects
       ELSE /\ rects' = count
            /\ fb' = ClearDirty(fb)
            /\ step' = "rectangle"
            /\ UNCHANGED <<session, result>>
  /\ UNCHANGED <<expected, require_full, rect, row, covered, covered_pixels,
                 total_pixels, frame, completed, opened, requested>>

ReadUnsupportedEncoding ==
  /\ step = "rectangle" /\ rects > 0
  /\ FailFrame("UNSUPPORTED_ENCODING")
  /\ UNCHANGED <<expected, scratch, frame, completed, opened, requested>>

\* Fault: a pixel may be sent twice.
OverlapsNever(cells) == FALSE

\* mark_initial_frame_coverage refuses a rectangle that covers a pixel again.
Overlaps(cells) == require_full /\ cells \cap covered # {}

\* A Raw rectangle header: bounds first, then, for the initial frame, coverage.
\* What a refused rectangle has marked until then is cleared before the bitmap
\* is used again.
ReadRectangleHeader ==
  /\ step = "rectangle" /\ rects > 0
  /\ \E r \in WireRects :
       LET cells == RectCells(r)
       IN IF ~RegionFits(r, fb)
          THEN /\ FailFrame("RECTANGLE_BOUNDS")
               /\ UNCHANGED <<rect, row, covered, covered_pixels>>
          ELSE IF Overlaps(cells)
          THEN /\ FailFrame("FULL_FRAME_COVERAGE")
               /\ UNCHANGED <<rect, row, covered, covered_pixels>>
          ELSE /\ rect' = r /\ row' = 0
               /\ covered' = IF require_full THEN covered \cup cells ELSE covered
               /\ covered_pixels' = IF require_full
                                    THEN covered_pixels + Cardinality(cells)
                                    ELSE covered_pixels
               /\ step' = "row"
               /\ UNCHANGED <<session, fb, result>>
  /\ UNCHANGED <<expected, require_full, rects, total_pixels, frame, completed,
                 opened, requested>>

RowOf(r, n) == [x |-> r.x, y |-> r.y + n, width |-> r.width, height |-> 1]

\* One row: read into row_scratch, written to the framebuffer, counted.
ReadRow ==
  /\ step = "row" /\ row < rect.height
  /\ LET line == RowOf(rect, row)
     IN IF rect.width > 0 /\ ~RectFits(line, fb)
        THEN FailFrame("RECTANGLE_BOUNDS") /\ UNCHANGED <<row, total_pixels>>
        ELSE /\ fb' = IF rect.width > 0 THEN WriteRect(fb, line, frame) ELSE fb
             /\ row' = row + 1
             /\ total_pixels' = total_pixels + rect.width
             /\ UNCHANGED <<session, step, result>>
  /\ UNCHANGED <<expected, require_full, rects, rect, covered, covered_pixels,
                 frame, completed, opened, requested>>

\* Fault: the dirty state is cleared for every rectangle, not for every update.
NextRectangleCleared ==
  /\ step = "row" /\ row = rect.height
  /\ rects' = rects - 1
  /\ step' = "rectangle"
  /\ fb' = ClearDirty(fb)
  /\ UNCHANGED <<session, result, expected, require_full, rect, row, covered,
                 covered_pixels, total_pixels, frame, completed, opened,
                 requested>>

NextRectangle ==
  /\ step = "row" /\ row = rect.height
  /\ rects' = rects - 1
  /\ step' = "rectangle"
  /\ UNCHANGED <<session, fb, result, expected, require_full, rect, row,
                 covered, covered_pixels, total_pixels, frame, completed,
                 opened, requested>>

\* The full-frame checks, then authority; receive_initial_frame adds READY.
FinishUpdate ==
  /\ step = "rectangle" /\ rects = 0
  /\ IF require_full /\ total_pixels # PixelCount(fb)
     THEN FailFrame("FULL_FRAME_SIZE") /\ UNCHANGED completed
     ELSE IF require_full /\ covered_pixels # PixelCount(fb)
     THEN FailFrame("FULL_FRAME_COVERAGE") /\ UNCHANGED completed
     ELSE /\ session' = [session EXCEPT !.error = "NONE",
                           !.state = IF require_full THEN "READY" ELSE @]
          /\ fb' = IF require_full THEN MarkValid(fb) ELSE fb
          /\ completed' = completed \cup {frame}
          /\ Return("ok")
  /\ UNCHANGED <<expected, scratch, frame, opened, requested>>

------------------------------------------------------------------------------
(* The session's own steps, and any caller around them.                         *)

Handshake == HandshakeStep \/ HandshakeRejected \/ HandshakeRefused
               \/ HandshakeIoFailure \/ ReadServerInit \/ WriteFullRequest

Receive == ReceiveIoFailure \/ ReadAsyncType \/ SkipAsync \/ ReadUnknownType
             \/ ReadUpdateType \/ ReadUpdateHeader \/ ReadUnsupportedEncoding
             \/ ReadRectangleHeader \/ ReadRow \/ NextRectangle \/ FinishUpdate

\* Between two calls the caller may change the geometry of the framebuffer.
CallSetGeometry(w, h) ==
  /\ step = "idle"
  /\ GeometryAccepted(w, h)
  /\ fb' = SetGeometry(fb, w, h)
  /\ UNCHANGED <<session, step, result, expected, scratch, frame, completed, opened,
                 requested>>

Caller ==
  \/ \E g \in Geometries : CallStart(g[1], g[2]) \/ CallSetGeometry(g[1], g[2])
  \/ RequestUpdate
  \/ CallReceiveInitial
  \/ CallReceiveUpdate

SessionNext == Handshake \/ Receive \/ Caller

SessionSpec == SessionInit /\ [][SessionNext]_sessionVars

------------------------------------------------------------------------------
(* What the session guarantees any caller.                                      *)

\* While a frame is decoded its rows mix two images; at every other moment the
\* framebuffer may call itself valid only if each logical pixel was written by
\* an update that arrived completely (receive_framebuffer_update, fail_frame).
NoTornAuthority ==
  fb.valid /\ step \notin ReceiveSteps =>
    \A c \in CellsOf(fb) : fb.pixels[c] \in completed

\* A READY session trusts no pixel from before its own connection: a restarted
\* session re-proves the whole desktop (receive_initial_frame).
FreshAuthority ==
  session.state = "READY" /\ fb.valid =>
    \A c \in CellsOf(fb) : fb.pixels[c] > opened

\* Every rectangle whose rows are read lies inside the framebuffer, so neither
\* the coverage bitmap nor write_rect is reached out of bounds and write_rect
\* never refuses a row (region_fits, rect_fits).
RowsInBounds ==
  step = "row" => RectCells(rect) \subseteq CellsOf(fb)

\* Between the rectangles of a full frame the three accounts of it agree: pixels
\* paid for in bytes, pixels counted, distinct pixels marked in the bitmap.
CoverageAccounts ==
  step = "rectangle" /\ require_full =>
    /\ covered_pixels = Cardinality(covered)
    /\ total_pixels = covered_pixels

\* Authority is only ever gained over an image that one update wrote entirely,
\* and with it the session becomes READY (mark_valid, receive_initial_frame).
AuthorityFromOneFrame ==
  [][~fb.valid /\ fb'.valid =>
       /\ \A c \in CellsOf(fb) : fb'.pixels[c] = frame
       /\ session.state = "AWAITING_FULL_FRAME"
       /\ session'.state = "READY"]_sessionVars

\* A receive that fails after it began, wherever it fails, revokes authority and
\* dirty state and ends the session (fail_frame).
ReceiveFailureRevokes ==
  [][(step \in ReceiveSteps) /\ step' = "idle" /\ result' = "fail" =>
       ~fb'.valid /\ ~fb'.dirty /\ session'.state = "FAILED"]_sessionVars

\* A failed session stays failed, and keeps its first error, until it is started
\* again (fail).
FailureIsFinal ==
  [][session.state = "FAILED" =>
       session' = session \/ step' = "banner"]_sessionVars

------------------------------------------------------------------------------
(* The inductive strengthening of the guarantees above.                         *)

FrameSteps == {"header", "rectangle", "row"}

HandshakePurpose == step \in HandshakeSteps => session.state = "NEW"

\* Which call receives, and the authority it started from.
ReceivePurpose ==
  step \in ReceiveSteps =>
    IF require_full
    THEN ~fb.valid /\ session.state = "AWAITING_FULL_FRAME"
    ELSE fb.valid /\ session.state = "READY"

RectangleProgress ==
  step = "row" => rects > 0 /\ row <= rect.height /\ RegionFits(rect, fb)

\* The pixels of the current rectangle whose rows are still to come.
Outstanding ==
  IF step = "row" THEN {c \in RectCells(rect) : c[2] >= rect.y + row} ELSE {}

OutstandingCount ==
  IF step = "row" THEN rect.width * (rect.height - row) ELSE 0

FullFrameProgress ==
  step \in FrameSteps /\ require_full =>
    /\ covered \subseteq CellsOf(fb)
    /\ covered_pixels = Cardinality(covered)
    /\ total_pixels + OutstandingCount = covered_pixels
    /\ \A c \in covered \ Outstanding : fb.pixels[c] = frame

AuthorityProgress ==
  fb.valid =>
    \A c \in CellsOf(fb) :
      fb.pixels[c] \in completed \/ (step \in FrameSteps /\ fb.pixels[c] = frame)

FrameOrder ==
  opened <= frame /\ (step \in FrameSteps => opened < frame)

SessionInv ==
  /\ TypeOK
  /\ HandshakePurpose
  /\ ReceivePurpose
  /\ RectangleProgress
  /\ FullFrameProgress
  /\ AuthorityProgress
  /\ FrameOrder
  /\ FreshAuthority
==============================================================================
