----------------------------- MODULE VncAppProofs -----------------------------
(* Proofs about the RFB session and its framebuffer under any caller, and about *)
(* the coordinator, which runs the session as one of those callers: whatever the *)
(* session guarantees it guarantees here; nothing torn or stale is shown and     *)
(* nothing leaks, on every path.  For every geometry, every set of server        *)
(* rectangles and every bound.                                                   *)
EXTENDS VncApp, FiniteSetTheorems, TLAPS

------------------------------------------------------------------------------
(* The framebuffer operators.                                                   *)

LEMMA EnclosesType ==
  ASSUME NEW d \in Rectangles, NEW r \in Rectangles
  PROVE  Enclose(d, r) \in Rectangles
BY DEF Enclose, Lower, Higher, Rectangles

LEMMA ClearDirtyType ==
  ASSUME NEW f \in Framebuffers
  PROVE  /\ ClearDirty(f) \in Framebuffers
         /\ Invalidate(f) \in Framebuffers
         /\ MarkValid(f) \in Framebuffers
BY DEF ClearDirty, Invalidate, MarkValid, Framebuffers, Rectangles, NoRect

LEMMA WriteRectType ==
  ASSUME NEW f \in Framebuffers, NEW r \in Rectangles, NEW stamp \in Nat
  PROVE  /\ WriteRect(f, r, stamp) \in Framebuffers
         /\ WriteRect(f, r, stamp).valid = f.valid
         /\ WriteRect(f, r, stamp).width = f.width
         /\ WriteRect(f, r, stamp).height = f.height
         /\ \A c \in AllCells :
              WriteRect(f, r, stamp).pixels[c] =
                IF c \in RectCells(r) THEN stamp ELSE f.pixels[c]
  <1>1. Enclose(f.dirty_rect, r) \in Rectangles
    BY EnclosesType DEF Framebuffers
  <1>2. QED
    BY <1>1 DEF WriteRect, IncludeDirty, Framebuffers

LEMMA SetGeometryType ==
  ASSUME NEW f \in Framebuffers, NEW w \in 0 .. MaxWidth, NEW h \in 0 .. MaxHeight
  PROVE  /\ SetGeometry(f, w, h) \in Framebuffers
         /\ ~SetGeometry(f, w, h).valid
BY DEF SetGeometry, Invalidate, ClearDirty, Framebuffers, Rectangles, NoRect

LEMMA EmptyType == Empty \in Framebuffers
BY FramebufferAssumption DEF Empty, Framebuffers, Rectangles, NoRect

LEMMA IntervalCount ==
  ASSUME NEW a \in Nat, NEW n \in Nat
  PROVE  /\ IsFiniteSet(a .. a + n - 1)
         /\ Cardinality(a .. a + n - 1) = n
  <1>1. \A b \in Int : /\ IsFiniteSet(a .. b)
                       /\ Cardinality(a .. b) = IF a > b THEN 0 ELSE b - a + 1
    BY FS_Interval
  <1>2. a + n - 1 \in Int
    OBVIOUS
  <1>3. QED
    BY <1>1, <1>2

\* A rectangle has as many cells as width times height, and so has a geometry.
LEMMA RectCellsCount ==
  ASSUME NEW r \in Rectangles
  PROVE  /\ IsFiniteSet(RectCells(r))
         /\ Cardinality(RectCells(r)) = r.width * r.height
         /\ Cardinality(RectCells(r)) \in Nat
  <1> DEFINE xs == r.x .. r.x + r.width - 1
             ys == r.y .. r.y + r.height - 1
  <1>1. /\ r.x \in Nat /\ r.width \in Nat
        /\ r.y \in Nat /\ r.height \in Nat
    BY DEF Rectangles
  <1>2. IsFiniteSet(xs) /\ Cardinality(xs) = r.width
    BY <1>1, IntervalCount
  <1>3. IsFiniteSet(ys) /\ Cardinality(ys) = r.height
    BY <1>1, IntervalCount
  <1>4. IsFiniteSet(xs \X ys) /\ Cardinality(xs \X ys) = r.width * r.height
    <2>1. /\ IsFiniteSet(xs \X ys)
          /\ Cardinality(xs \X ys) = Cardinality(xs) * Cardinality(ys)
      BY <1>2, <1>3, FS_Product, Zenon
    <2>2. QED
      BY <2>1, <1>2, <1>3
  <1>5. RectCells(r) = xs \X ys
    BY DEF RectCells
  <1>6. QED
    BY <1>4, <1>5, FS_CardinalityType

LEMMA GeometryCount ==
  ASSUME NEW f \in Framebuffers
  PROVE  /\ IsFiniteSet(CellsOf(f))
         /\ Cardinality(CellsOf(f)) = PixelCount(f)
         /\ CellsOf(f) \subseteq AllCells
  <1> DEFINE r == [x |-> 0, y |-> 0, width |-> f.width, height |-> f.height]
  <1>1. f.width \in 0 .. MaxWidth /\ f.height \in 0 .. MaxHeight
    BY DEF Framebuffers
  <1>2. r \in Rectangles
    BY <1>1, FramebufferAssumption DEF Rectangles
  <1>3. RectCells(r) = CellsOf(f)
    BY <1>1, FramebufferAssumption DEF RectCells, CellsOf
  <1>4. CellsOf(f) \subseteq AllCells
    BY <1>1, FramebufferAssumption DEF CellsOf, AllCells
  <1>5. QED
    BY <1>2, <1>3, <1>4, RectCellsCount DEF PixelCount

------------------------------------------------------------------------------
(* The session's variables keep their types.                                    *)

LEMMA NewSessionType ==
  /\ NewSession \in Sessions
  /\ [NewSession EXCEPT !.socket = TRUE] \in Sessions
  <1>1. <<0, 0>> \in (0 .. MaxWidth) \X (0 .. MaxHeight)
    BY FramebufferAssumption
  <1>2. QED
    BY <1>1 DEF NewSession, Sessions, SessionStates, Errors

LEMMA LineType ==
  ASSUME NEW r \in Rectangles, NEW n \in Nat
  PROVE  RowOf(r, n) \in Rectangles
BY DEF Rectangles, RowOf

LEMMA FailType ==
  ASSUME NEW error \in Errors, session \in Sessions, Fail(error)
  PROVE  session' \in Sessions /\ step' = "idle" /\ result' = "fail"
BY DEF Fail, Return, Sessions, SessionStates

\* The steps of the state machine in the order of RfbSession.
LEMMA SessionTypeStep ==
  TypeOK /\ RectangleProgress /\ [SessionNext]_sessionVars => TypeOK'
  <1> SUFFICES ASSUME TypeOK, RectangleProgress, [SessionNext]_sessionVars
               PROVE  TypeOK'
    OBVIOUS
  <1> USE DEF TypeOK, scratch
  <1>1. ASSUME NEW g \in Geometries, CallStart(g[1], g[2])
        PROVE  TypeOK'
    <2>1. <<g[1], g[2]>> \in (0 .. MaxWidth) \X (0 .. MaxHeight)
      BY SessionAssumption
    <2>2. "banner" \in HandshakeSteps
      BY DEF HandshakeSteps, NextHandshake
    <2>3. session' \in Sessions
      BY <1>1, NewSessionType DEF CallStart
    <2>4. QED
      BY <1>1, <2>1, <2>2, <2>3 DEF CallStart, Return
  <1>2. CASE HandshakeStep
    BY <1>2 DEF HandshakeStep, HandshakeSteps, NextHandshake
  <1>3. CASE HandshakeRejected
    BY <1>3 DEF HandshakeRejected, HandshakeSteps, NextHandshake
  <1>4. CASE HandshakeRefused
    <2>1. Refusal[step] \in Errors
      BY <1>4 DEF HandshakeRefused, Refusal, Errors
    <2>2. QED
      BY <1>4, <2>1, FailType DEF HandshakeRefused
  <1>5. CASE HandshakeIoFailure
    BY <1>5, FailType DEF HandshakeIoFailure, Errors
  <1>6. CASE ReadServerInit
    <2>1. PICK g \in Geometries :
            session' \in {[session EXCEPT !.server = g],
                         [session EXCEPT !.server = g, !.state = "FAILED",
                                         !.error = "GEOMETRY"],
                         [session EXCEPT !.server = g, !.state = "FAILED",
                                         !.error = "SERVER_INIT"]}
      BY <1>6 DEF ReadServerInit
    <2>2. session' \in Sessions
      BY <2>1, SessionAssumption DEF Sessions, SessionStates, Errors
    <2>3. QED
      BY <1>6, <2>2
      DEF ReadServerInit, Return, HandshakeSteps, NextHandshake
  <1>7. CASE WriteFullRequest
    <2>1. session' \in Sessions
      BY <1>7 DEF WriteFullRequest, Sessions, SessionStates, Errors
    <2>2. QED
      BY <1>7, <2>1 DEF WriteFullRequest, Return
  <1>8. CASE RequestUpdate
    BY <1>8, FailType DEF RequestUpdate, Return, Sessions, Errors
  <1>9. CASE CallReceiveInitial
    BY <1>9, FailType, ClearDirtyType
    DEF CallReceiveInitial, EnterReceive, FailFrame, Return, Errors, ReceiveSteps
  <1>10. CASE CallReceiveUpdate
    BY <1>10, FailType, ClearDirtyType
    DEF CallReceiveUpdate, EnterReceive, FailFrame, Return, Errors, ReceiveSteps
  <1>11. CASE ReceiveIoFailure
    BY <1>11, FailType, ClearDirtyType DEF ReceiveIoFailure, FailFrame, Errors
  <1>12. CASE ReadAsyncType
    BY <1>12 DEF ReadAsyncType, ReceiveSteps
  <1>13. CASE SkipAsync
    BY <1>13 DEF SkipAsync, ReceiveSteps
  <1>14. CASE ReadUnknownType
    BY <1>14, FailType, ClearDirtyType DEF ReadUnknownType, FailFrame, Errors
  <1>15. CASE ReadUpdateType
    BY <1>15, FailType, ClearDirtyType
    DEF ReadUpdateType, FailFrame, Errors, ReceiveSteps
  <1>16. CASE ReadUpdateHeader
    BY <1>16, FailType, ClearDirtyType, SessionAssumption
    DEF ReadUpdateHeader, FailFrame, Errors, ReceiveSteps
  <1>17. CASE ReadUnsupportedEncoding
    BY <1>17, FailType, ClearDirtyType
    DEF ReadUnsupportedEncoding, FailFrame, Errors
  <1>18. CASE ReadRectangleHeader
    <2>1. PICK r \in WireRects : ReadRectangleHeader!2!(r)
      BY <1>18 DEF ReadRectangleHeader
    <2>2. r \in Rectangles
      BY SessionAssumption
    <2>3. CASE RegionFits(r, fb) /\ ~(require_full /\ RectCells(r) \cap covered # {})
      <3>1. RectCells(r) \subseteq AllCells
        BY <2>2, <2>3, FramebufferAssumption
        DEF RegionFits, RectCells, AllCells, Framebuffers, Rectangles
      <3>2. Cardinality(RectCells(r)) \in Nat
        BY <2>2, RectCellsCount
      <3>3. QED
        BY <1>18, <2>1, <2>2, <2>3, <3>1, <3>2
        DEF ReadRectangleHeader, ReceiveSteps, Overlaps
    <2>4. CASE ~RegionFits(r, fb) \/ (require_full /\ RectCells(r) \cap covered # {})
      BY <1>18, <2>1, <2>4, FailType, ClearDirtyType
      DEF ReadRectangleHeader, FailFrame, Errors, Overlaps
    <2>5. QED
      BY <2>3, <2>4
  <1>19. CASE ReadRow
    <2> DEFINE line == RowOf(rect, row)
    <2>1. line \in Rectangles
      BY LineType
    <2>2. CASE rect.width > 0 /\ ~RectFits(line, fb)
      BY <1>19, <2>2, FailType, ClearDirtyType DEF ReadRow, FailFrame, Errors
    <2>3. CASE ~(rect.width > 0 /\ ~RectFits(line, fb))
      <3>1. fb' \in Framebuffers
        BY <1>19, <2>1, <2>3, WriteRectType DEF ReadRow
      <3>2. QED
        BY <1>19, <2>3, <3>1 DEF ReadRow, Rectangles
    <2>4. QED
      BY <2>2, <2>3
  <1>20. CASE NextRectangle
    BY <1>20 DEF NextRectangle, ReceiveSteps, RectangleProgress
  <1>21. CASE FinishUpdate
    <2> DEFINE torn == /\ require_full
                       /\ \/ total_pixels # PixelCount(fb)
                          \/ covered_pixels # PixelCount(fb)
    <2>1. CASE torn
      <3>1. (FailFrame("FULL_FRAME_SIZE") \/ FailFrame("FULL_FRAME_COVERAGE"))
            /\ UNCHANGED completed
        BY <1>21, <2>1 DEF FinishUpdate
      <3>2. fb' \in Framebuffers /\ session' \in Sessions /\ step' = "idle" /\ result' = "fail"
        BY <3>1, FailType, ClearDirtyType DEF FailFrame, Errors
      <3>3. QED
        BY <1>21, <3>1, <3>2 DEF FinishUpdate
    <2>2. CASE ~torn
      <3>1. /\ session' = [session EXCEPT !.error = "NONE",
                              !.state = IF require_full THEN "READY" ELSE @]
            /\ fb' = IF require_full THEN MarkValid(fb) ELSE fb
            /\ completed' = completed \cup {frame} /\ Return("ok")
        BY <1>21, <2>2 DEF FinishUpdate
      <3>2. session' \in Sessions /\ fb' \in Framebuffers
        BY <3>1, ClearDirtyType DEF Sessions, SessionStates, Errors
      <3>3. QED
        BY <1>21, <3>1, <3>2 DEF FinishUpdate, Return
    <2>3. QED
      BY <2>1, <2>2
  <1>22. ASSUME NEW g \in Geometries, CallSetGeometry(g[1], g[2])
         PROVE  TypeOK'
    <2>1. g[1] \in 0 .. MaxWidth /\ g[2] \in 0 .. MaxHeight
      BY SessionAssumption
    <2>2. QED
      BY <1>22, <2>1, SetGeometryType DEF CallSetGeometry
  <1>23. CASE UNCHANGED sessionVars
    BY <1>23 DEF sessionVars
  <1>24. QED
    BY <1>1, <1>2, <1>3, <1>4, <1>5, <1>6, <1>7, <1>8, <1>9, <1>10, <1>11,
       <1>12, <1>13, <1>14, <1>15, <1>16, <1>17, <1>18, <1>19, <1>20, <1>21,
       <1>22, <1>23
    DEF SessionNext, Handshake, Receive, Caller

LEMMA SessionTypeInit == SessionInit => TypeOK
  <1>1. NoRect \in Rectangles
    BY DEF NoRect, Rectangles
  <1>2. <<0, 0>> \in (0 .. MaxWidth) \X (0 .. MaxHeight)
    BY FramebufferAssumption
  <1> SUFFICES ASSUME SessionInit PROVE TypeOK
    OBVIOUS
  <1>3. session \in Sessions /\ fb \in Framebuffers
    BY EmptyType, NewSessionType DEF SessionInit
  <1>4. rect \in Rectangles /\ expected \in (0 .. MaxWidth) \X (0 .. MaxHeight)
    BY <1>1, <1>2 DEF SessionInit
  <1>5. QED
    BY <1>3, <1>4 DEF SessionInit, TypeOK

------------------------------------------------------------------------------
(* The inductive invariant.                                                     *)

LEMMA StepsDisjoint ==
  /\ HandshakeSteps \cap ReceiveSteps = {}
  /\ "idle" \notin ReceiveSteps /\ "idle" \notin HandshakeSteps
BY DEF HandshakeSteps, NextHandshake, ReceiveSteps

\* Outside receive_framebuffer_update nothing but the session record changes.
LEMMA OutsideReceive ==
  ASSUME SessionInv, TypeOK',
         step \notin ReceiveSteps, step' \notin ReceiveSteps,
         UNCHANGED <<fb, frame, completed>>, opened' <= frame,
         session'.state = "READY" => session.state = "READY" /\ opened' = opened,
         HandshakePurpose'
  PROVE  SessionInv'
  <1> USE DEF SessionInv
  <1>1. step \notin FrameSteps /\ step' \notin FrameSteps
    BY DEF FrameSteps, ReceiveSteps
  <1>2. ReceivePurpose'
    BY DEF ReceivePurpose
  <1>3. RectangleProgress' /\ FullFrameProgress'
    BY <1>1 DEF RectangleProgress, FullFrameProgress, FrameSteps
  <1>4. AuthorityProgress'
    BY <1>1 DEF AuthorityProgress, CellsOf
  <1>5. FrameOrder'
    BY <1>1 DEF FrameOrder
  <1>6. FreshAuthority'
    BY DEF FreshAuthority, CellsOf
  <1>7. QED
    BY <1>2, <1>3, <1>4, <1>5, <1>6

\* A step that ends a call without authority restores the invariant at once.
LEMMA AuthorityRevoked ==
  ASSUME SessionInv, TypeOK', step' = "idle", ~fb'.valid,
         UNCHANGED opened, frame' >= frame
  PROVE  SessionInv'
  <1> USE DEF SessionInv
  <1>1. step' \notin ReceiveSteps /\ step' \notin FrameSteps
    BY DEF ReceiveSteps, FrameSteps
  <1>2. /\ HandshakePurpose' /\ ReceivePurpose'
        /\ RectangleProgress' /\ FullFrameProgress'
    BY <1>1, StepsDisjoint
    DEF HandshakePurpose, ReceivePurpose, RectangleProgress, FullFrameProgress
  <1>3. AuthorityProgress' /\ FreshAuthority'
    BY DEF AuthorityProgress, FreshAuthority
  <1>4. FrameOrder'
    BY <1>1 DEF FrameOrder, TypeOK
  <1>5. QED
    BY <1>2, <1>3, <1>4

LEMMA FailFrameInvariant ==
  ASSUME SessionInv, TypeOK', NEW error, FailFrame(error), UNCHANGED opened,
         frame' >= frame
  PROVE  SessionInv'
  <1>1. step' = "idle" /\ ~fb'.valid
    BY DEF FailFrame, Fail, Return, Invalidate, ClearDirty, SessionInv, TypeOK,
           Framebuffers
  <1>2. QED
    BY <1>1, AuthorityRevoked

\* Reading a message type or skipping a message decides nothing.
LEMMA BetweenUpdates ==
  ASSUME SessionInv, TypeOK',
         step \in ReceiveSteps \ FrameSteps, step' \in ReceiveSteps \ FrameSteps,
         UNCHANGED <<session, fb, require_full, frame, completed, opened>>
  PROVE  SessionInv'
  <1> USE DEF SessionInv
  <1>1. HandshakePurpose' /\ ReceivePurpose'
    BY StepsDisjoint DEF HandshakePurpose, ReceivePurpose
  <1>2. RectangleProgress' /\ FullFrameProgress'
    BY DEF RectangleProgress, FullFrameProgress, FrameSteps
  <1>3. AuthorityProgress'
    BY DEF AuthorityProgress, CellsOf
  <1>4. FrameOrder' /\ FreshAuthority'
    BY DEF FrameOrder, FreshAuthority, CellsOf
  <1>5. QED
    BY <1>1, <1>2, <1>3, <1>4

LEMMA EnterReceiveInvariant ==
  ASSUME SessionInv, TypeOK', NEW accepted, NEW full \in BOOLEAN, NEW f,
         EnterReceive(accepted, full, f),
         accepted => IF full
                     THEN ~f.valid /\ session.state = "AWAITING_FULL_FRAME"
                     ELSE f = fb /\ fb.valid /\ session.state = "READY"
  PROVE  SessionInv'
  <1>1. step = "idle" /\ UNCHANGED <<frame, completed, opened>>
    BY DEF EnterReceive
  <1>2. CASE ~accepted
    <2>1. step' = "idle" /\ UNCHANGED <<session, fb>>
      BY <1>2 DEF EnterReceive, Return
    <2>2. QED
      BY <1>1, <2>1, StepsDisjoint, OutsideReceive
      DEF SessionInv, FrameOrder, HandshakePurpose
  <1>3. CASE FailFrame("ROW_WIDTH")
    BY <1>1, <1>3, FailFrameInvariant DEF SessionInv, TypeOK
  <1>4. CASE /\ accepted
             /\ step' = "type" /\ fb' = f /\ require_full' = full
             /\ UNCHANGED <<session, result>>
    <2>1. step \notin FrameSteps /\ step' \notin FrameSteps
      BY <1>1, <1>4 DEF FrameSteps
    <2>2. HandshakePurpose' /\ ReceivePurpose'
      BY <1>4, StepsDisjoint DEF HandshakePurpose, ReceivePurpose, ReceiveSteps
    <2>3. RectangleProgress' /\ FullFrameProgress'
      BY <1>4, <2>1 DEF RectangleProgress, FullFrameProgress
    <2>4. AuthorityProgress' /\ FrameOrder' /\ FreshAuthority'
      BY <1>1, <1>4, <2>1
      DEF SessionInv, AuthorityProgress, FrameOrder, FreshAuthority, CellsOf
    <2>5. QED
      BY <2>2, <2>3, <2>4 DEF SessionInv
  <1>5. QED
    BY <1>2, <1>3, <1>4 DEF EnterReceive

LEMMA ReadUpdateTypeInvariant ==
  SessionInv /\ TypeOK' /\ ReadUpdateType => SessionInv'
  <1> SUFFICES ASSUME SessionInv, TypeOK', ReadUpdateType
               PROVE  SessionInv'
    OBVIOUS
  <1>1. CASE require_full /\ PixelCount(fb) > MaxFramePixels
    <2>1. FailFrame("FULL_FRAME_COVERAGE") /\ opened' = opened /\ frame' >= frame
      BY <1>1 DEF ReadUpdateType, SessionInv, TypeOK
    <2>2. QED
      BY <2>1, FailFrameInvariant
  <1>2. CASE ~(require_full /\ PixelCount(fb) > MaxFramePixels)
    <2>1. /\ step = "type" /\ step' = "header" /\ frame' = frame + 1
          /\ covered_pixels' = 0 /\ total_pixels' = 0
          /\ require_full => covered' = {}
          /\ UNCHANGED <<session, fb, require_full, completed, opened>>
      BY <1>2 DEF ReadUpdateType
    <2>2. HandshakePurpose' /\ ReceivePurpose' /\ RectangleProgress'
      BY <2>1, StepsDisjoint DEF SessionInv, HandshakePurpose, ReceivePurpose, RectangleProgress, ReceiveSteps
    <2>3. FullFrameProgress'
      BY <2>1, FS_EmptySet DEF FullFrameProgress, OutstandingCount, Outstanding
    <2>4. AuthorityProgress'
      BY <2>1 DEF SessionInv, AuthorityProgress, CellsOf, FrameSteps
    <2>5. FrameOrder' /\ FreshAuthority'
      BY <2>1 DEF SessionInv, TypeOK, FrameOrder, FreshAuthority, CellsOf
    <2>6. QED
      BY <2>2, <2>3, <2>4, <2>5 DEF SessionInv
  <1>3. QED
    BY <1>1, <1>2

LEMMA ReadUpdateHeaderInvariant ==
  SessionInv /\ TypeOK' /\ ReadUpdateHeader => SessionInv'
  <1> SUFFICES ASSUME SessionInv, TypeOK', ReadUpdateHeader
               PROVE  SessionInv'
    OBVIOUS
  <1>0. frame' >= frame /\ opened' = opened
    BY DEF ReadUpdateHeader, SessionInv, TypeOK
  <1>1. CASE FailFrame("EMPTY_UPDATE")
    BY <1>0, <1>1, FailFrameInvariant
  <1>2. CASE fb' = ClearDirty(fb) /\ step' = "rectangle" /\ UNCHANGED session
    <2>1. /\ fb'.valid = fb.valid /\ fb'.pixels = fb.pixels
          /\ fb'.width = fb.width /\ fb'.height = fb.height
      BY <1>2 DEF ClearDirty, SessionInv, TypeOK, Framebuffers
    <2>2. /\ step = "header"
          /\ UNCHANGED <<require_full, covered, covered_pixels, total_pixels,
                         frame, completed, opened>>
      BY DEF ReadUpdateHeader
    <2>3. HandshakePurpose' /\ ReceivePurpose' /\ RectangleProgress'
      BY <1>2, <2>1, <2>2
     , StepsDisjoint DEF SessionInv, HandshakePurpose, ReceivePurpose, RectangleProgress, ReceiveSteps
    <2>4. FullFrameProgress'
      BY <1>2, <2>1, <2>2
      DEF SessionInv, FullFrameProgress, OutstandingCount, Outstanding, CellsOf,
          FrameSteps
    <2>5. AuthorityProgress'
      BY <1>2, <2>1, <2>2
      DEF SessionInv, AuthorityProgress, CellsOf, FrameSteps
    <2>6. FrameOrder' /\ FreshAuthority'
      BY <1>2, <2>1, <2>2
      DEF SessionInv, FrameOrder, FreshAuthority, CellsOf, FrameSteps
    <2>7. QED
      BY <2>3, <2>4, <2>5, <2>6 DEF SessionInv
  <1>3. QED
    BY <1>1, <1>2 DEF ReadUpdateHeader

LEMMA ReadRectangleHeaderInvariant ==
  SessionInv /\ TypeOK' /\ ReadRectangleHeader => SessionInv'
  <1> SUFFICES ASSUME SessionInv, TypeOK', ReadRectangleHeader
               PROVE  SessionInv'
    OBVIOUS
  <1>1. PICK r \in WireRects : ReadRectangleHeader!2!(r)
    BY DEF ReadRectangleHeader
  <1>2. /\ step = "rectangle" /\ rects > 0
        /\ UNCHANGED <<require_full, rects, total_pixels, frame, completed, opened>>
    BY DEF ReadRectangleHeader
  <1>3. r \in Rectangles
    BY SessionAssumption
  <1> DEFINE cells == RectCells(r)
  <1>4. CASE ~RegionFits(r, fb)
    <2>1. FailFrame("RECTANGLE_BOUNDS")
      BY <1>1, <1>4
    <2>2. QED
      BY <1>2, <2>1, FailFrameInvariant DEF SessionInv, TypeOK
  <1>5. CASE RegionFits(r, fb) /\ require_full /\ cells \cap covered # {}
    <2>1. FailFrame("FULL_FRAME_COVERAGE")
      BY <1>1, <1>5 DEF Overlaps
    <2>2. QED
      BY <1>2, <2>1, FailFrameInvariant DEF SessionInv, TypeOK
  <1>6. CASE RegionFits(r, fb) /\ ~(require_full /\ cells \cap covered # {})
    <2>1. /\ rect' = r /\ row' = 0 /\ step' = "row"
          /\ covered' = IF require_full THEN covered \cup cells ELSE covered
          /\ covered_pixels' = IF require_full
                               THEN covered_pixels + Cardinality(cells)
                               ELSE covered_pixels
          /\ UNCHANGED <<session, fb>>
      BY <1>1, <1>6 DEF Overlaps
    <2>2. HandshakePurpose' /\ ReceivePurpose' /\ RectangleProgress'
      BY <1>2, <1>3, <1>6, <2>1, StepsDisjoint
      DEF SessionInv, HandshakePurpose, ReceivePurpose, RectangleProgress,
          ReceiveSteps, RegionFits, Rectangles
    <2>3. ASSUME require_full PROVE FullFrameProgress'
      <3>1. /\ covered \subseteq CellsOf(fb)
            /\ covered_pixels = Cardinality(covered)
            /\ total_pixels = covered_pixels
            /\ \A c \in covered : fb.pixels[c] = frame
        BY <1>2, <2>3
        DEF SessionInv, TypeOK, FullFrameProgress, FrameSteps, Outstanding,
            OutstandingCount
      <3>2. IsFiniteSet(covered)
        BY <3>1, GeometryCount, FS_Subset DEF SessionInv, TypeOK
      <3>3. IsFiniteSet(cells) /\ Cardinality(cells) = r.width * r.height
        BY <1>3, RectCellsCount
      <3>4. covered_pixels' = Cardinality(covered')
        <4>1. Cardinality(covered \cap cells) = 0
          <5>1. covered \cap cells = {}
            BY <1>6, <2>3
          <5>2. QED
            BY <5>1, FS_EmptySet, Zenon
        <4>2. Cardinality(covered \cup cells)
                = Cardinality(covered) + Cardinality(cells)
                    - Cardinality(covered \cap cells)
          BY <3>2, <3>3, FS_Union, Zenon
        <4>3. Cardinality(covered) \in Nat /\ Cardinality(cells) \in Nat
          BY <3>2, <3>3, FS_CardinalityType
        <4>4. Cardinality(covered \cup cells)
                = Cardinality(covered) + Cardinality(cells)
          BY <4>1, <4>2, <4>3
        <4>5. /\ covered' = covered \cup cells
              /\ covered_pixels' = Cardinality(covered) + Cardinality(cells)
          BY <2>1, <2>3, <3>1
        <4>6. QED
          BY <4>4, <4>5
      <3>5. covered' \subseteq CellsOf(fb)
        BY <1>3, <1>6, <2>1, <2>3, <3>1
        DEF RectCells, CellsOf, RegionFits, SessionInv, TypeOK, Framebuffers,
            Rectangles
      <3>6. total_pixels' + OutstandingCount' = covered_pixels'
        BY <1>2, <1>3, <2>1, <2>3, <3>1, <3>3
        DEF OutstandingCount, Rectangles, SessionInv, TypeOK
      <3>7. Outstanding' = cells
        BY <1>3, <2>1 DEF Outstanding, RectCells, Rectangles
      <3>8. \A c \in covered' \ Outstanding' : fb'.pixels[c] = frame'
        BY <1>2, <2>1, <2>3, <3>1, <3>7
      <3>9. QED
        BY <2>1, <3>4, <3>5, <3>6, <3>8 DEF FullFrameProgress, CellsOf
    <2>4. FullFrameProgress'
      BY <1>2, <2>3 DEF FullFrameProgress
    <2>5. AuthorityProgress' /\ FrameOrder' /\ FreshAuthority'
      BY <1>2, <2>1
      DEF SessionInv, AuthorityProgress, FrameOrder, FreshAuthority, CellsOf,
          FrameSteps
    <2>6. QED
      BY <2>2, <2>4, <2>5 DEF SessionInv
  <1>7. QED
    BY <1>4, <1>5, <1>6

LEMMA ReadRowInvariant ==
  SessionInv /\ TypeOK' /\ ReadRow => SessionInv'
  <1> SUFFICES ASSUME SessionInv, TypeOK', ReadRow
               PROVE  SessionInv'
    OBVIOUS
  <1> DEFINE line == RowOf(rect, row)
  <1>1. /\ step = "row" /\ row < rect.height
        /\ rect \in Rectangles /\ row \in Nat /\ line \in Rectangles
        /\ fb \in Framebuffers /\ frame \in Nat /\ total_pixels \in Nat
        /\ UNCHANGED <<require_full, rects, rect, covered, covered_pixels, frame,
                       completed, opened>>
    BY LineType DEF ReadRow, SessionInv, TypeOK
  <1>2. CASE rect.width > 0 /\ ~RectFits(line, fb)
    <2>1. FailFrame("RECTANGLE_BOUNDS")
      BY <1>2 DEF ReadRow
    <2>2. QED
      BY <1>1, <2>1, FailFrameInvariant
  <1>3. CASE ~(rect.width > 0 /\ ~RectFits(line, fb))
    <2>1. /\ fb' = IF rect.width > 0 THEN WriteRect(fb, line, frame) ELSE fb
          /\ row' = row + 1
          /\ total_pixels' = total_pixels + rect.width
          /\ UNCHANGED <<session, step>>
      BY <1>3 DEF ReadRow
    <2>2. /\ fb'.valid = fb.valid
          /\ fb'.width = fb.width /\ fb'.height = fb.height
          /\ \A c \in AllCells :
               fb'.pixels[c] = IF c \in RectCells(line) THEN frame
                                                       ELSE fb.pixels[c]
      <3>1. CASE rect.width > 0
        <4> HIDE DEF line
        <4>1. fb' = WriteRect(fb, line, frame)
          BY <2>1, <3>1
        <4>2. LET f == WriteRect(fb, line, frame)
              IN /\ f.valid = fb.valid /\ f.width = fb.width /\ f.height = fb.height
                 /\ \A c \in AllCells :
                      f.pixels[c] = IF c \in RectCells(line) THEN frame
                                                            ELSE fb.pixels[c]
          BY <1>1, WriteRectType
        <4>3. QED
          BY <4>1, <4>2
      <3>2. CASE rect.width = 0
        <4>1. RectCells(line) = {}
          BY <1>1, <3>2 DEF RectCells, RowOf, Rectangles
        <4>2. QED
          BY <2>1, <3>2, <4>1
      <3>3. QED
        BY <1>1, <3>1, <3>2 DEF Rectangles
    <2>3. HandshakePurpose' /\ ReceivePurpose' /\ RectangleProgress'
      BY <1>1, <2>1, <2>2, StepsDisjoint
      DEF SessionInv, HandshakePurpose, ReceivePurpose, RectangleProgress,
          RegionFits, ReceiveSteps, Rectangles
    <2>4. ASSUME require_full PROVE FullFrameProgress'
      <3>1. /\ covered \subseteq CellsOf(fb) /\ covered \subseteq AllCells
            /\ covered_pixels = Cardinality(covered)
            /\ total_pixels + rect.width * (rect.height - row) = covered_pixels
            /\ \A c \in covered \ Outstanding : fb.pixels[c] = frame
        BY <1>1, <2>4
        DEF SessionInv, TypeOK, FullFrameProgress, FrameSteps, OutstandingCount
      <3>2. total_pixels' + OutstandingCount' = covered_pixels'
        <4>1. rect.width * (rect.height - row)
                = rect.width + rect.width * (rect.height - (row + 1))
          BY <1>1 DEF Rectangles
        <4>2. rect.width * (rect.height - row) \in Int
              /\ rect.width * (rect.height - (row + 1)) \in Int
          BY <1>1 DEF Rectangles
        <4>3. QED
          BY <1>1, <2>1, <3>1, <4>1, <4>2 DEF OutstandingCount, Rectangles
      <3>3. \A c \in Outstanding \ Outstanding' : c \in RectCells(line)
        BY <1>1, <2>1 DEF Outstanding, RectCells, RowOf, Rectangles
      <3>4. \A c \in covered' \ Outstanding' : fb'.pixels[c] = frame'
        BY <1>1, <2>2, <3>1, <3>3
      <3>5. covered' \subseteq CellsOf(fb)'
        BY <1>1, <2>2, <3>1 DEF CellsOf
      <3>6. QED
        BY <1>1, <3>1, <3>2, <3>4, <3>5 DEF FullFrameProgress
    <2>5. FullFrameProgress'
      BY <1>1, <2>4 DEF FullFrameProgress
    <2>6. CellsOf(fb)' = CellsOf(fb) /\ CellsOf(fb) \subseteq AllCells
      BY <1>1, <2>2, GeometryCount DEF CellsOf
    <2>7. AuthorityProgress'
      BY <1>1, <2>1, <2>2, <2>6 DEF SessionInv, AuthorityProgress, FrameSteps
    <2>8. FrameOrder' /\ FreshAuthority'
      BY <1>1, <2>1, <2>2, <2>6
      DEF SessionInv, TypeOK, FrameOrder, FreshAuthority, FrameSteps
    <2>9. QED
      BY <2>3, <2>5, <2>7, <2>8 DEF SessionInv
  <1>4. QED
    BY <1>2, <1>3

LEMMA NextRectangleInvariant ==
  SessionInv /\ TypeOK' /\ NextRectangle => SessionInv'
  <1> SUFFICES ASSUME SessionInv, TypeOK', NextRectangle
               PROVE  SessionInv'
    OBVIOUS
  <1>1. /\ step = "row" /\ step' = "rectangle" /\ row = rect.height
        /\ UNCHANGED <<session, fb, require_full, rect, row, covered,
                       covered_pixels, total_pixels, frame, completed, opened>>
    BY DEF NextRectangle
  <1>2. Outstanding = {} /\ OutstandingCount = 0
    BY <1>1
    DEF Outstanding, OutstandingCount, RectCells, SessionInv, TypeOK, Rectangles
  <1>3. HandshakePurpose' /\ ReceivePurpose' /\ RectangleProgress'
    BY <1>1, StepsDisjoint DEF SessionInv, HandshakePurpose, ReceivePurpose, RectangleProgress, ReceiveSteps
  <1>4. FullFrameProgress'
    <2>1. Outstanding' = {} /\ OutstandingCount' = 0
      BY <1>1 DEF Outstanding, OutstandingCount
    <2>2. CellsOf(fb)' = CellsOf(fb)
      BY <1>1
    <2>3. QED
      BY <1>1, <1>2, <2>1, <2>2 DEF SessionInv, FullFrameProgress, FrameSteps
  <1>5. AuthorityProgress' /\ FrameOrder' /\ FreshAuthority'
    BY <1>1
    DEF SessionInv, AuthorityProgress, FrameOrder, FreshAuthority, CellsOf,
        FrameSteps
  <1>6. QED
    BY <1>3, <1>4, <1>5 DEF SessionInv

\* What a full frame has proved by the time it becomes authoritative.
LEMMA FullFrameComplete ==
  ASSUME SessionInv, step = "rectangle", require_full,
         covered_pixels = PixelCount(fb)
  PROVE  \A c \in CellsOf(fb) : fb.pixels[c] = frame
  <1>1. /\ covered \subseteq CellsOf(fb)
        /\ covered_pixels = Cardinality(covered)
        /\ \A c \in covered : fb.pixels[c] = frame
    BY DEF SessionInv, FullFrameProgress, FrameSteps, Outstanding
  <1>2. IsFiniteSet(CellsOf(fb)) /\ Cardinality(CellsOf(fb)) = PixelCount(fb)
    BY GeometryCount DEF SessionInv, TypeOK
  <1>3. covered = CellsOf(fb)
    BY <1>1, <1>2, FS_Subset
  <1>4. QED
    BY <1>1, <1>3

LEMMA FinishUpdateInvariant ==
  SessionInv /\ TypeOK' /\ FinishUpdate => SessionInv'
  <1> SUFFICES ASSUME SessionInv, TypeOK', FinishUpdate
               PROVE  SessionInv'
    OBVIOUS
  <1>1. /\ step = "rectangle" /\ step' = "idle"
        /\ UNCHANGED <<require_full, frame, opened>>
    BY DEF FinishUpdate, FailFrame, Fail, Return, scratch
  <1>2. CASE FailFrame("FULL_FRAME_SIZE") \/ FailFrame("FULL_FRAME_COVERAGE")
    BY <1>1, <1>2, FailFrameInvariant DEF SessionInv, TypeOK
  <1>3. CASE ~(FailFrame("FULL_FRAME_SIZE") \/ FailFrame("FULL_FRAME_COVERAGE"))
    <2>1. /\ require_full => covered_pixels = PixelCount(fb)
          /\ session' = [session EXCEPT !.error = "NONE",
                            !.state = IF require_full THEN "READY" ELSE @]
          /\ fb' = IF require_full THEN MarkValid(fb) ELSE fb
          /\ completed' = completed \cup {frame}
      BY <1>3 DEF FinishUpdate
    <2>2. /\ fb'.pixels = fb.pixels /\ CellsOf(fb)' = CellsOf(fb)
          /\ fb'.valid = (require_full \/ fb.valid)
      BY <2>1 DEF MarkValid, CellsOf, SessionInv, TypeOK, Framebuffers
    <2>3. step' \notin ReceiveSteps /\ step' \notin FrameSteps
      BY <1>1 DEF ReceiveSteps, FrameSteps
    <2>4. /\ HandshakePurpose' /\ ReceivePurpose' /\ RectangleProgress'
          /\ FullFrameProgress' /\ FrameOrder'
      BY <1>1, <2>3, StepsDisjoint
      DEF SessionInv, HandshakePurpose, ReceivePurpose, RectangleProgress, FullFrameProgress,
          FrameOrder
    <2>5. CASE require_full
      <3>1. \A c \in CellsOf(fb) : fb.pixels[c] = frame
        BY <1>1, <2>1, <2>5, FullFrameComplete
      <3>2. opened < frame
        BY <1>1 DEF SessionInv, FrameOrder, FrameSteps
      <3>3. AuthorityProgress' /\ FreshAuthority'
        BY <1>1, <2>1, <2>2, <3>1, <3>2
        DEF AuthorityProgress, FreshAuthority, SessionInv, TypeOK
      <3>4. QED
        BY <2>4, <3>3 DEF SessionInv
    <2>6. CASE ~require_full
      <3>1. fb.valid /\ session.state = "READY"
        BY <1>1, <2>6 DEF SessionInv, ReceivePurpose, ReceiveSteps
      <3>2. AuthorityProgress' /\ FreshAuthority'
        BY <1>1, <2>1, <2>2, <2>6, <3>1
        DEF AuthorityProgress, FreshAuthority, SessionInv
      <3>3. QED
        BY <2>4, <3>2 DEF SessionInv
    <2>7. QED
      BY <2>5, <2>6
  <1>4. QED
    BY <1>2, <1>3

LEMMA SessionInvStep ==
  SessionInv /\ [SessionNext]_sessionVars => SessionInv'
  <1> SUFFICES ASSUME SessionInv, [SessionNext]_sessionVars
               PROVE  SessionInv'
    OBVIOUS
  <1>0. TypeOK /\ TypeOK' /\ step \notin HandshakeSteps \cap ReceiveSteps
    BY SessionTypeStep, StepsDisjoint DEF SessionInv
  <1>1. ASSUME NEW g \in Geometries, CallStart(g[1], g[2])
        PROVE  SessionInv'
    <2>1. step = "idle" /\ step' \in {"idle", "banner"}
      BY <1>1 DEF CallStart, Return
    <2>2. "banner" \in HandshakeSteps
      BY DEF HandshakeSteps, NextHandshake
    <2>3. step \notin ReceiveSteps /\ step' \notin ReceiveSteps
      BY <2>1, <2>2, StepsDisjoint
    <2>4. /\ UNCHANGED <<fb, frame, completed>> /\ opened' <= frame
          /\ session'.state = "READY" => UNCHANGED <<session, opened>>
      BY <1>0, <1>1
      DEF CallStart, SessionInv, FrameOrder, NewSession, TypeOK
    <2>5. HandshakePurpose'
      BY <1>1, <2>1, StepsDisjoint
      DEF CallStart, NewSession, HandshakePurpose, Return
    <2>6. QED
      BY <1>0, <2>3, <2>4, <2>5, OutsideReceive
  <1>2. CASE Handshake
    <2>1. step \in HandshakeSteps /\ step' \in HandshakeSteps \cup {"idle"}
      <3> USE DEF HandshakeSteps, NextHandshake, Return
      <3>1. CASE HandshakeStep \/ HandshakeRejected
        BY <3>1 DEF HandshakeStep, HandshakeRejected
      <3>2. CASE HandshakeRefused
        BY <3>2 DEF HandshakeRefused, Refusal, Fail
      <3>3. CASE HandshakeIoFailure
        BY <3>3 DEF HandshakeIoFailure, Fail
      <3>4. CASE ReadServerInit \/ WriteFullRequest
        BY <3>4 DEF ReadServerInit, WriteFullRequest
      <3>5. QED
        BY <1>2, <3>1, <3>2, <3>3, <3>4 DEF Handshake
    <2>2. step \notin ReceiveSteps /\ step' \notin ReceiveSteps
      BY <2>1, StepsDisjoint
    <2>3. UNCHANGED <<fb, frame, completed, opened>> /\ opened <= frame
      BY <1>2
      DEF Handshake, HandshakeStep, HandshakeRejected, HandshakeRefused,
          HandshakeIoFailure, ReadServerInit, WriteFullRequest, SessionInv,
          FrameOrder
    <2>4. session'.state = "READY" => session.state = "READY"
      BY <1>0, <1>2
      DEF Handshake, HandshakeStep, HandshakeRejected, HandshakeRefused,
          HandshakeIoFailure, ReadServerInit, WriteFullRequest, Fail, TypeOK,
          Sessions
    <2>5. HandshakePurpose'
      BY <1>0, <1>2, <2>1, StepsDisjoint
      DEF Handshake, HandshakeStep, HandshakeRejected, HandshakeRefused,
          HandshakeIoFailure, ReadServerInit, WriteFullRequest, Fail, Return,
          SessionInv, HandshakePurpose, TypeOK, Sessions
    <2>6. QED
      BY <1>0, <2>2, <2>3, <2>4, <2>5, OutsideReceive
  <1>3. CASE RequestUpdate
    <2>1. step = "idle" /\ step' = "idle"
      BY <1>3 DEF RequestUpdate, Return, Fail
    <2>2. /\ UNCHANGED <<fb, frame, completed, opened>> /\ opened <= frame
          /\ session'.state = "READY" => session.state = "READY"
      BY <1>0, <1>3
      DEF RequestUpdate, Fail, Return, RequestAccepted, SessionInv, FrameOrder,
          TypeOK, Sessions
    <2>3. QED
      BY <1>0, <2>1, <2>2, StepsDisjoint, OutsideReceive DEF HandshakePurpose
  <1>4. CASE CallReceiveInitial
    BY <1>0, <1>4, EnterReceiveInvariant, ClearDirtyType
    DEF CallReceiveInitial, InitialAccepted, Invalidate, ClearDirty, TypeOK,
        Framebuffers
  <1>5. CASE CallReceiveUpdate
    BY <1>0, <1>5, EnterReceiveInvariant DEF CallReceiveUpdate, UpdateAccepted
  <1>6. CASE ReceiveIoFailure \/ ReadUnknownType \/ ReadUnsupportedEncoding
    <2>1. PICK error \in Errors : FailFrame(error)
      BY <1>6
      DEF ReceiveIoFailure, ReadUnknownType, ReadUnsupportedEncoding, Errors
    <2>2. UNCHANGED <<opened, frame>>
      BY <1>6 DEF ReceiveIoFailure, ReadUnknownType, ReadUnsupportedEncoding
    <2>3. QED
      BY <1>0, <2>1, <2>2, FailFrameInvariant DEF TypeOK
  <1>7. CASE ReadAsyncType \/ SkipAsync
    BY <1>0, <1>7, BetweenUpdates
    DEF ReadAsyncType, SkipAsync, scratch, ReceiveSteps, FrameSteps
  <1>8. CASE ReadUpdateType
    BY <1>0, <1>8, ReadUpdateTypeInvariant
  <1>9. CASE ReadUpdateHeader
    BY <1>0, <1>9, ReadUpdateHeaderInvariant
  <1>10. CASE ReadRectangleHeader
    BY <1>0, <1>10, ReadRectangleHeaderInvariant
  <1>11. CASE ReadRow
    BY <1>0, <1>11, ReadRowInvariant
  <1>12. CASE NextRectangle
    BY <1>0, <1>12, NextRectangleInvariant
  <1>13. CASE FinishUpdate
    BY <1>0, <1>13, FinishUpdateInvariant
  <1>14. ASSUME NEW g \in Geometries, CallSetGeometry(g[1], g[2])
         PROVE  SessionInv'
    <2>1. g[1] \in 0 .. MaxWidth /\ g[2] \in 0 .. MaxHeight
      BY SessionAssumption
    <2>2. ~fb'.valid /\ step' = "idle" /\ UNCHANGED <<opened, frame>>
      BY <1>0, <1>14, <2>1, SetGeometryType DEF CallSetGeometry, TypeOK
    <2>3. QED
      BY <1>0, <2>2, AuthorityRevoked DEF TypeOK
  <1>15. CASE UNCHANGED sessionVars
    BY <1>15
    DEF sessionVars, SessionInv, TypeOK, HandshakePurpose, ReceivePurpose, RectangleProgress,
        FullFrameProgress, Outstanding, OutstandingCount, AuthorityProgress,
        FrameOrder, FreshAuthority, CellsOf
  <1>16. QED
    BY <1>1, <1>2, <1>3, <1>4, <1>5, <1>6, <1>7, <1>8, <1>9, <1>10, <1>11,
       <1>12, <1>13, <1>14, <1>15
    DEF SessionNext, Receive, Caller

LEMMA SessionStarts == SessionInit => SessionInv
  <1> SUFFICES ASSUME SessionInit PROVE SessionInv
    OBVIOUS
  <1>1. TypeOK
    BY SessionTypeInit
  <1>2. /\ HandshakePurpose /\ ReceivePurpose /\ RectangleProgress
        /\ FullFrameProgress /\ FrameOrder
    BY DEF SessionInit, NewSession, HandshakePurpose, ReceivePurpose,
           RectangleProgress, FullFrameProgress, FrameOrder, ReceiveSteps,
           FrameSteps
  <1>3. AuthorityProgress /\ FreshAuthority
    BY DEF SessionInit, AuthorityProgress, FreshAuthority, Empty
  <1>4. QED
    BY <1>1, <1>2, <1>3 DEF SessionInv

\* SessionInv holds of the session under any caller and any server.
THEOREM SessionInvariant == SessionSpec => []SessionInv
  <1>1. QED
    BY SessionStarts, SessionInvStep, PTL DEF SessionSpec

\* The variables of session and framebuffer keep their types: no wire value and
\* no order of calls drives a coordinate, a count or a state out of its range.
THEOREM SessionTypeCorrect == SessionSpec => []TypeOK
  <1>1. SessionInv => TypeOK
    BY DEF SessionInv
  <1>2. QED
    BY <1>1, SessionInvariant, PTL

\* Outside a running receive, a framebuffer that calls itself valid holds no
\* pixel of an update that did not arrive completely.
THEOREM AuthorityNeverTorn == SessionSpec => []NoTornAuthority
  <1>1. SessionInv => NoTornAuthority
    BY DEF SessionInv, AuthorityProgress, NoTornAuthority, ReceiveSteps,
           FrameSteps
  <1>2. QED
    BY <1>1, SessionInvariant, PTL

\* A READY session's valid framebuffer holds only pixels of its own connection.
THEOREM AuthorityFresh == SessionSpec => []FreshAuthority
  <1>1. SessionInv => FreshAuthority
    BY DEF SessionInv
  <1>2. QED
    BY <1>1, SessionInvariant, PTL

\* Rows are only read into rectangles that lie inside the framebuffer.
THEOREM RowsAlwaysInBounds == SessionSpec => []RowsInBounds
  <1>1. SessionInv => RowsInBounds
    BY DEF SessionInv, TypeOK, RectangleProgress, RowsInBounds, RegionFits,
           RectCells, CellsOf, Framebuffers, Rectangles
  <1>2. QED
    BY <1>1, SessionInvariant, PTL

\* Bytes, counter and bitmap agree on how much of a full frame has arrived.
THEOREM CoverageAlwaysAgrees == SessionSpec => []CoverageAccounts
  <1>1. SessionInv => CoverageAccounts
    BY DEF SessionInv, TypeOK, FullFrameProgress, FrameSteps, OutstandingCount,
           CoverageAccounts
  <1>2. QED
    BY <1>1, SessionInvariant, PTL

------------------------------------------------------------------------------
(* What a step may never do.                                                    *)

\* Authority is gained only by the completion of one update that wrote every
\* logical pixel, and exactly then the session becomes READY.
THEOREM AuthorityOnlyFromOneFrame == SessionSpec => AuthorityFromOneFrame
  <1>1. ASSUME SessionInv, [SessionNext]_sessionVars, ~fb.valid, fb'.valid
        PROVE  /\ \A c \in CellsOf(fb) : fb'.pixels[c] = frame
               /\ session.state = "AWAITING_FULL_FRAME"
               /\ session'.state = "READY"
    <2>1. FinishUpdate /\ require_full
      <3> USE <1>1 DEF SessionInv, TypeOK, FailFrame
      <3>1. ASSUME NEW g \in Geometries, CallSetGeometry(g[1], g[2])
            PROVE  FALSE
        BY <3>1, SetGeometryType, SessionAssumption DEF CallSetGeometry
      <3>2. CASE CallReceiveInitial \/ CallReceiveUpdate
        BY <3>2
        DEF CallReceiveInitial, CallReceiveUpdate, EnterReceive, Invalidate,
            ClearDirty, Framebuffers
      <3>3. CASE ReadRow
        <4>1. fb' \in {WriteRect(fb, RowOf(rect, row), frame), fb, Invalidate(fb)}
          BY <3>3 DEF ReadRow
        <4>2. ~WriteRect(fb, RowOf(rect, row), frame).valid
          BY <1>1 DEF WriteRect, IncludeDirty, Framebuffers
        <4>3. ~Invalidate(fb).valid
          BY <1>1 DEF Invalidate, ClearDirty, Framebuffers
        <4>4. QED
          BY <1>1, <4>1, <4>2, <4>3
      <3>4. CASE FinishUpdate
        BY <3>4 DEF FinishUpdate, Invalidate, ClearDirty, Framebuffers
      <3>5. CASE ReadUpdateHeader
        BY <3>5 DEF ReadUpdateHeader, Invalidate, ClearDirty, Framebuffers
      <3>6. CASE ReadRectangleHeader \/ ReadUpdateType
        BY <3>6
        DEF ReadRectangleHeader, ReadUpdateType, Invalidate, ClearDirty,
            Framebuffers
      <3>7. CASE ReceiveIoFailure \/ ReadUnknownType \/ ReadUnsupportedEncoding
        BY <3>7
        DEF ReceiveIoFailure, ReadUnknownType, ReadUnsupportedEncoding,
            Invalidate, ClearDirty, Framebuffers
      <3>8. CASE ReadAsyncType \/ SkipAsync \/ NextRectangle
        BY <3>8 DEF ReadAsyncType, SkipAsync, NextRectangle
      <3>9. CASE Handshake \/ RequestUpdate
        BY <3>9
        DEF Handshake, HandshakeStep, HandshakeRejected, HandshakeRefused,
            HandshakeIoFailure, ReadServerInit, WriteFullRequest, RequestUpdate
      <3>10. ASSUME NEW g \in Geometries, CallStart(g[1], g[2])
             PROVE  FALSE
        BY <3>10 DEF CallStart
      <3>11. CASE UNCHANGED sessionVars
        BY <3>11 DEF sessionVars
      <3>12. QED
        BY <3>1, <3>2, <3>3, <3>4, <3>5, <3>6, <3>7, <3>8, <3>9, <3>10, <3>11
        DEF SessionNext, Receive, Caller
    <2>2. /\ covered_pixels = PixelCount(fb) /\ fb' = MarkValid(fb)
          /\ session' = [session EXCEPT !.error = "NONE", !.state = "READY"]
          /\ step = "rectangle"
      BY <1>1, <2>1
      DEF FinishUpdate, FailFrame, Invalidate, ClearDirty, SessionInv, TypeOK,
          Framebuffers
    <2>3. \A c \in CellsOf(fb) : fb.pixels[c] = frame
      BY <1>1, <2>1, <2>2, FullFrameComplete
    <2>4. session.state = "AWAITING_FULL_FRAME"
      BY <1>1, <2>1, <2>2 DEF SessionInv, ReceivePurpose, ReceiveSteps
    <2>5. QED
      BY <1>1, <2>2, <2>3, <2>4
      DEF MarkValid, SessionInv, TypeOK, Framebuffers, Sessions
  <1>2. QED
    BY <1>1, SessionInvariant, PTL DEF SessionSpec, AuthorityFromOneFrame

\* A receive that fails after it began revokes authority and dirty state and
\* leaves the session FAILED.
THEOREM FailureRevokes == SessionSpec => ReceiveFailureRevokes
  <1>1. ASSUME SessionInv, [SessionNext]_sessionVars,
               step \in ReceiveSteps, step' = "idle", result' = "fail"
        PROVE  ~fb'.valid /\ ~fb'.dirty /\ session'.state = "FAILED"
    <2>1. PICK error \in Errors : FailFrame(error)
      <3> USE DEF Errors
      <3>1. step # "idle" /\ step \notin HandshakeSteps
        BY <1>1, StepsDisjoint
      <3>2. CASE ReceiveIoFailure \/ ReadUnknownType \/ ReadUnsupportedEncoding
        BY <3>2
        DEF ReceiveIoFailure, ReadUnknownType, ReadUnsupportedEncoding
      <3>3. CASE ReadAsyncType \/ SkipAsync \/ ReadUpdateType \/ NextRectangle
        BY <1>1, <3>3
        DEF ReadAsyncType, SkipAsync, ReadUpdateType, NextRectangle
      <3>4. CASE ReadUpdateHeader \/ ReadRectangleHeader \/ ReadRow
        BY <1>1, <3>4 DEF ReadUpdateHeader, ReadRectangleHeader, ReadRow
      <3>5. CASE FinishUpdate
        BY <1>1, <3>5 DEF FinishUpdate, Return
      <3>6. ~Handshake
        BY <3>1
        DEF Handshake, HandshakeStep, HandshakeRejected, HandshakeRefused,
            HandshakeIoFailure, ReadServerInit, WriteFullRequest,
            HandshakeSteps, NextHandshake, Refusal
      <3>7. ~Caller
        BY <3>1
        DEF Caller, CallStart, CallSetGeometry, RequestUpdate,
            CallReceiveInitial, CallReceiveUpdate, EnterReceive
      <3>8. step' # step
        BY <1>1, <3>1
      <3>9. QED
        BY <1>1, <3>2, <3>3, <3>4, <3>5, <3>6, <3>7, <3>8
        DEF SessionNext, Receive, sessionVars
    <2>2. fb' = Invalidate(fb) /\ session'.state = "FAILED"
      BY <1>1, <2>1 DEF FailFrame, Fail, SessionInv, TypeOK, Sessions
    <2>3. QED
      BY <1>1, <2>2 DEF Invalidate, ClearDirty, SessionInv, TypeOK, Framebuffers
  <1>2. QED
    BY <1>1, SessionInvariant, PTL DEF SessionSpec, ReceiveFailureRevokes

\* Once FAILED, a session keeps its state and its first error until it is
\* started again: no later call and no late message revives it.
THEOREM FailureStays == SessionSpec => FailureIsFinal
  <1>1. ASSUME SessionInv, [SessionNext]_sessionVars, session.state = "FAILED"
        PROVE  session' = session \/ step' = "banner"
    <2>1. step \notin HandshakeSteps /\ step \notin ReceiveSteps
      BY <1>1 DEF SessionInv, HandshakePurpose, ReceivePurpose
    <2>2. ~Handshake
      BY <2>1
      DEF Handshake, HandshakeStep, HandshakeRejected, HandshakeRefused,
          HandshakeIoFailure, ReadServerInit, WriteFullRequest,
          HandshakeSteps, NextHandshake, Refusal
    <2>3. ~Receive
      BY <2>1
      DEF Receive, ReceiveIoFailure, ReadAsyncType, SkipAsync, ReadUnknownType,
          ReadUpdateType, ReadUpdateHeader, ReadUnsupportedEncoding,
          ReadRectangleHeader, ReadRow, NextRectangle, FinishUpdate,
          ReceiveSteps
    <2>4. CASE RequestUpdate
      BY <1>1, <2>4 DEF RequestUpdate, RequestAccepted
    <2>5. CASE CallReceiveInitial \/ CallReceiveUpdate
      BY <1>1, <2>5
      DEF CallReceiveInitial, CallReceiveUpdate, EnterReceive, InitialAccepted,
          UpdateAccepted
    <2>6. ASSUME NEW g \in Geometries,
                 CallStart(g[1], g[2]) \/ CallSetGeometry(g[1], g[2])
          PROVE  session' = session \/ step' = "banner"
      BY <2>6 DEF CallStart, CallSetGeometry
    <2>7. QED
      BY <1>1, <2>2, <2>3, <2>4, <2>5, <2>6 DEF SessionNext, Caller, sessionVars
  <1>2. QED
    BY <1>1, SessionInvariant, PTL DEF SessionSpec, FailureIsFinal

------------------------------------------------------------------------------
(* The coordinator: what a step of it does to the session.                      *)

\* What a step of the coordinator does to the session.
SessionSteps ==
  \/ CallStart(DisplayWidth, DisplayHeight)
  \/ CallReceiveInitial \/ RequestUpdate \/ CallReceiveUpdate
  \/ Handshake \/ Receive

LEMMA AppStep ==
  ASSUME [AppNext]_vars
  PROVE  \/ /\ SessionSteps /\ UNCHANGED images
            /\ app' = app \/ app' \in Calling
         \/ InitFramebuffer
         \/ /\ PrepareGs16 \/ Present \/ ShutdownGraphics
            /\ UNCHANGED sessionVars
         \/ /\ UNCHANGED <<sessionVars, images>>
            /\ app' = app \/ app' \notin {"presentFirst", "present"}
  BY DEF NextBoot, Calling, AppNext, Coordinator, Startup, Service, Cleanup, Boot, InitDiagnostics,
         ConnectVnc, InitGraphics, StartSession, ReceiveInitialFrame,
         RequestNext, ReceiveNext, SessionFailed, UpdateReceived,
         UpdateReturned, PrepareGs16, Present, ReportFatal, CloseSocket,
         ShutdownGraphics, ShutdownDiagnostics, SessionRuns, Exited,
         SessionSteps, appVars, appOnly, vars, flags, images, texture

LEMMA DisplayGeometry == <<DisplayWidth, DisplayHeight>> \in Geometries
  BY AppAssumption

LEMMA StepRefines ==
  ASSUME CallProgress, [AppNext]_vars
  PROVE  [SessionNext]_sessionVars
  <1>1. CASE SessionSteps
    BY <1>1, DisplayGeometry DEF SessionSteps, SessionNext, Caller
  <1>2. CASE InitFramebuffer
    <2>1. fb = Empty /\ step = "idle"
      BY <1>2 DEF InitFramebuffer, CallProgress, BeforeFramebuffer, Calling
    <2>2. CASE GeometryAccepted(DisplayWidth, DisplayHeight)
      <3>1. CallSetGeometry(DisplayWidth, DisplayHeight)
        BY <1>2, <2>1, <2>2 DEF InitFramebuffer, CallSetGeometry
      <3>2. QED
        BY <3>1, DisplayGeometry DEF SessionNext, Caller
    <2>3. CASE ~GeometryAccepted(DisplayWidth, DisplayHeight)
      BY <1>2, <2>1, <2>3 DEF InitFramebuffer, sessionVars, scratch
    <2>4. QED
      BY <2>2, <2>3
  <1>3. QED
    BY <1>1, <1>2, AppStep

\* A session step leaves the session idle unless the coordinator waits for it.
LEMMA CallStep ==
  ASSUME CallProgress, [AppNext]_vars
  PROVE  CallProgress'
  <1> USE DEF CallProgress, Calling, BeforeFramebuffer
  <1>1. CASE Startup
    <2>1. CASE Boot
      BY <2>1 DEF Boot, NextBoot, sessionVars, images
    <2>2. CASE InitDiagnostics
      BY <2>2 DEF InitDiagnostics, sessionVars, images
    <2>3. CASE ConnectVnc
      BY <2>3 DEF ConnectVnc, sessionVars, images
    <2>4. CASE InitFramebuffer
      BY <2>4 DEF InitFramebuffer, images
    <2>5. CASE InitGraphics
      BY <2>5 DEF InitGraphics, sessionVars, images
    <2>6. QED
      BY <1>1, <2>1, <2>2, <2>3, <2>4, <2>5 DEF Startup
  <1>2. CASE Service
    <2>1. CASE StartSession \/ ReceiveInitialFrame \/ RequestNext \/ ReceiveNext
      BY <2>1 DEF StartSession, ReceiveInitialFrame, RequestNext, ReceiveNext
    <2>2. CASE SessionFailed \/ UpdateReceived
      BY <2>2 DEF SessionFailed, UpdateReceived, UpdateReturned, sessionVars
    <2>3. CASE PrepareGs16 \/ Present
      BY <2>3 DEF PrepareGs16, Present, sessionVars
    <2>4. QED
      BY <1>2, <2>1, <2>2, <2>3 DEF Service
  <1>3. CASE Cleanup
    BY <1>3 DEF Cleanup, ReportFatal, CloseSocket, ShutdownGraphics,
                ShutdownDiagnostics, sessionVars
  <1>4. CASE SessionRuns
    <2>1. step # "idle"
      BY <1>4
      DEF SessionRuns, Handshake, HandshakeStep, HandshakeRejected,
          HandshakeRefused, HandshakeIoFailure, ReadServerInit,
          WriteFullRequest, Receive, ReceiveIoFailure, ReadAsyncType,
          SkipAsync, ReadUnknownType, ReadUpdateType, ReadUpdateHeader,
          ReadUnsupportedEncoding, ReadRectangleHeader, ReadRow,
          NextRectangle, FinishUpdate, NextHandshake, HandshakeSteps, Refusal,
          ReceiveSteps
    <2>2. QED
      BY <1>4, <2>1 DEF SessionRuns, appVars
  <1>5. CASE Exited \/ UNCHANGED vars
    BY <1>5 DEF Exited, vars, appVars, sessionVars
  <1>6. QED
    BY <1>1, <1>2, <1>3, <1>4, <1>5 DEF AppNext, Coordinator

------------------------------------------------------------------------------
(* Images.                                                                      *)

LEMMA SameSize ==
  ASSUME NEW f \in Framebuffers
  PROVE  /\ CellsOf(ClearDirty(f)) = CellsOf(f)
         /\ CellsOf(Invalidate(f)) = CellsOf(f)
         /\ CellsOf(MarkValid(f)) = CellsOf(f)
  BY DEF ClearDirty, Invalidate, MarkValid, Framebuffers, CellsOf

\* A session call never changes the geometry, and completed updates stay so.
LEMMA SessionKeepsSize ==
  ASSUME SessionInv, SessionSteps
  PROVE  CellsOf(fb') = CellsOf(fb) /\ completed \subseteq completed'
  <1>0. fb \in Framebuffers /\ rect \in Rectangles /\ row \in Nat /\ frame \in Nat
    BY DEF SessionInv, TypeOK
  <1> USE DEF SessionInv, TypeOK, FailFrame, scratch
  <1>1. CASE CallStart(DisplayWidth, DisplayHeight) \/ RequestUpdate \/ Handshake
    BY <1>1
    DEF CallStart, RequestUpdate, Handshake, HandshakeStep, HandshakeRejected,
        HandshakeRefused, HandshakeIoFailure, ReadServerInit, WriteFullRequest
  <1>2. CASE CallReceiveInitial \/ CallReceiveUpdate
    BY <1>2, SameSize DEF CallReceiveInitial, CallReceiveUpdate, EnterReceive
  <1>3. CASE Receive
    <2>1. CASE ReceiveIoFailure
      BY <2>1, SameSize DEF ReceiveIoFailure
    <2>2. CASE ReadAsyncType \/ SkipAsync \/ NextRectangle
      BY <2>2 DEF ReadAsyncType, SkipAsync, NextRectangle
    <2>3. CASE ReadUnknownType \/ ReadUnsupportedEncoding
      BY <2>3, SameSize DEF ReadUnknownType, ReadUnsupportedEncoding
    <2>4. CASE ReadUpdateType
      BY <2>4, SameSize DEF ReadUpdateType
    <2>5. CASE ReadUpdateHeader
      BY <2>5, SameSize DEF ReadUpdateHeader
    <2>6. CASE ReadRectangleHeader
      BY <2>6, SameSize DEF ReadRectangleHeader
    <2>7. CASE ReadRow
      <3>1. RowOf(rect, row) \in Rectangles
        BY <1>0, LineType
      <3>2. ASSUME NEW r \in Rectangles
            PROVE  CellsOf(WriteRect(fb, r, frame)) = CellsOf(fb)
        <4>1. /\ WriteRect(fb, r, frame).width = fb.width
              /\ WriteRect(fb, r, frame).height = fb.height
          BY ONLY <1>0, <3>2, WriteRectType
        <4>2. QED
          BY ONLY <4>1 DEF CellsOf
      <3>3. QED
        BY <2>7, <3>1, <3>2, SameSize DEF ReadRow
    <2>8. CASE FinishUpdate
      BY <2>8, SameSize DEF FinishUpdate
    <2>9. QED
      BY <1>3, <2>1, <2>2, <2>3, <2>4, <2>5, <2>6, <2>7, <2>8 DEF Receive
  <1>4. QED
    BY <1>1, <1>2, <1>3 DEF SessionSteps

LEMMA ImageStep ==
  ASSUME SessionInv, CallProgress, ImageProgress, [AppNext]_vars
  PROVE  ImageProgress'
  <1> USE DEF ImageProgress, WholeImage
  <1>1. CASE /\ SessionSteps /\ UNCHANGED images
             /\ app' = app \/ app' \in Calling
    <2>1. CellsOf(fb') = CellsOf(fb) /\ completed \subseteq completed'
      BY <1>1, SessionKeepsSize
    <2>2. (app \in {"presentFirst", "present"})' => app \in {"presentFirst", "present"}
      BY <1>1 DEF Calling
    <2>3. QED
      BY <1>1, <2>1, <2>2 DEF images
  <1>2. CASE InitFramebuffer
    BY <1>2 DEF InitFramebuffer, CallProgress, BeforeFramebuffer, images
  <1>3. CASE PrepareGs16
    <2>1. step = "idle"
      BY <1>3 DEF PrepareGs16, CallProgress, Calling
    <2>2. CASE DisplayAccepts
      <3>1. \A c \in CellsOf(fb) : fb.pixels[c] \in completed
        BY <2>1, <2>2
        DEF DisplayAccepts, SessionInv, AuthorityProgress, FrameSteps
      <3>2. QED
        BY <1>3, <2>2, <3>1 DEF PrepareGs16, sessionVars
    <2>3. CASE ~DisplayAccepts
      BY <1>3, <2>3 DEF PrepareGs16, sessionVars
    <2>4. QED
      BY <2>2, <2>3
  <1>4. CASE Present
    BY <1>4 DEF Present, sessionVars
  <1>5. CASE ShutdownGraphics
    BY <1>5 DEF ShutdownGraphics, sessionVars
  <1>6. CASE /\ UNCHANGED <<sessionVars, images>>
             /\ app' = app \/ app' \notin {"presentFirst", "present"}
    BY <1>6 DEF sessionVars, images
  <1>7. QED
    BY <1>1, <1>2, <1>3, <1>4, <1>5, <1>6, AppStep

------------------------------------------------------------------------------
(* Resources.                                                                   *)

LEMMA OwnershipStep ==
  ASSUME Ownership, [AppNext]_vars
  PROVE  Ownership'
  <1> USE DEF Ownership, Resources, flags, texture, appOnly
  <1>1. CASE Startup
    <2>1. CASE Boot
      BY <2>1 DEF Boot, NextBoot
    <2>2. CASE InitDiagnostics
      <3>1. PICK ok \in BOOLEAN :
              /\ diagnostics_ready' = ok
              /\ held' = IF ok THEN held \cup {"diagnostics"} ELSE held
        BY <2>2 DEF InitDiagnostics
      <3>2. "diagnostics" \notin held /\ app' = "connect"
        BY <2>2 DEF InitDiagnostics
      <3>3. "diagnostics" \in held' <=> diagnostics_ready' = TRUE
        BY <3>1, <3>2
      <3>4. held' \subseteq Resources /\ held' \ {"diagnostics"} = held \ {"diagnostics"}
        BY <3>1
      <3>5. QED
        BY <2>2, <3>2, <3>3, <3>4 DEF InitDiagnostics
    <2>3. CASE ConnectVnc
      BY <2>3 DEF ConnectVnc
    <2>4. CASE InitFramebuffer
      BY <2>4 DEF InitFramebuffer
    <2>5. CASE InitGraphics
      <3>1. CASE app' = "start"
        <4>1. /\ held' = held \cup {"graphics"} /\ graphics_ready' = TRUE
              /\ textures' = 0 /\ texture_configured' = FALSE
          BY <2>5, <3>1 DEF InitGraphics
        <4>2. QED
          BY <2>5, <3>1, <4>1 DEF InitGraphics
      <3>2. CASE app' = "fail"
        BY <2>5, <3>2 DEF InitGraphics
      <3>3. QED
        BY <2>5, <3>1, <3>2 DEF InitGraphics
    <2>6. QED
      BY <1>1, <2>1, <2>2, <2>3, <2>4, <2>5 DEF Startup
  <1>2. CASE Service
    <2>1. CASE StartSession \/ ReceiveInitialFrame \/ RequestNext \/ ReceiveNext
      BY <2>1 DEF StartSession, ReceiveInitialFrame, RequestNext, ReceiveNext
    <2>2. CASE SessionFailed \/ UpdateReceived
      BY <2>2 DEF SessionFailed, UpdateReceived, UpdateReturned
    <2>3. CASE PrepareGs16
      BY <2>3 DEF PrepareGs16
    <2>4. CASE Present
      BY <2>4 DEF Present
    <2>5. QED
      BY <1>2, <2>1, <2>2, <2>3, <2>4 DEF Service
  <1>3. CASE Cleanup
    <2>1. CASE ReportFatal
      BY <2>1 DEF ReportFatal
    <2>2. CASE CloseSocket
      BY <2>2 DEF CloseSocket, Release
    <2>3. CASE ShutdownGraphics
      BY <2>3 DEF ShutdownGraphics, Release
    <2>4. CASE ShutdownDiagnostics
      BY <2>4 DEF ShutdownDiagnostics, Release
    <2>5. QED
      BY <1>3, <2>1, <2>2, <2>3, <2>4 DEF Cleanup
  <1>4. CASE SessionRuns \/ Exited \/ UNCHANGED vars
    BY <1>4 DEF SessionRuns, Exited, vars, appVars
  <1>5. QED
    BY <1>1, <1>2, <1>3, <1>4 DEF AppNext, Coordinator

------------------------------------------------------------------------------
(* Requests, and what the screen owes.                                          *)

\* Which call runs where the coordinator waits.
LEMMA CallOfPlace ==
  ASSUME CallProgress, RequestProgress
  PROVE  /\ step \in HandshakeSteps => app = "starting" /\ requested = 0
         /\ step \in ReceiveSteps \ FrameSteps =>
              app \in {"receiving", "updating"} /\ requested = 1
         /\ step \in FrameSteps => app \in {"receiving", "updating"} /\ requested = 0
  <1>1. "idle" \notin HandshakeSteps /\ "idle" \notin ReceiveSteps /\ FrameSteps \subseteq ReceiveSteps
    BY DEF HandshakeSteps, NextHandshake, ReceiveSteps, FrameSteps
  <1>2. HandshakeSteps \cap ReceiveSteps = {}
    BY StepsDisjoint
  <1>3. QED
    BY <1>1, <1>2 DEF CallProgress, RequestProgress, Calling

LEMMA HandshakeAdvances ==
  ASSUME Handshake
  PROVE  /\ step \in HandshakeSteps
         /\ \/ step' \in HandshakeSteps /\ requested' = requested
            \/ step' = "idle" /\ result' = "fail" /\ requested' = requested
            \/ step' = "idle" /\ result' = "ok" /\ requested' = requested + 1
  <1>1. CASE HandshakeStep
    <2>1. step \in DOMAIN NextHandshake /\ requested' = requested
      BY <1>1 DEF HandshakeStep
    <2>2. \A s \in DOMAIN NextHandshake : NextHandshake[s] \in HandshakeSteps
      BY DEF NextHandshake, HandshakeSteps
    <2>3. step' = NextHandshake[step]
      BY <1>1 DEF HandshakeStep
    <2>4. QED
      BY <2>1, <2>2, <2>3 DEF HandshakeSteps
  <1>2. CASE HandshakeRejected
    BY <1>2 DEF HandshakeRejected, HandshakeSteps, NextHandshake
  <1>3. CASE HandshakeRefused
    <2>1. step \in HandshakeSteps
      BY <1>3 DEF HandshakeRefused, Refusal, HandshakeSteps, NextHandshake
    <2>2. QED
      BY <1>3, <2>1 DEF HandshakeRefused, Fail, Return
  <1>4. CASE HandshakeIoFailure
    BY <1>4 DEF HandshakeIoFailure, Fail, Return
  <1>5. CASE ReadServerInit
    BY <1>5 DEF ReadServerInit, HandshakeSteps, NextHandshake, Return
  <1>6. CASE WriteFullRequest
    BY <1>6 DEF WriteFullRequest, HandshakeSteps, Return
  <1>7. QED
    BY <1>1, <1>2, <1>3, <1>4, <1>5, <1>6 DEF Handshake

LEMMA HandshakeRequests ==
  ASSUME CallProgress, RequestProgress, Handshake, UNCHANGED appVars
  PROVE  RequestProgress'
  <1>1. app = "starting" /\ app' = "starting" /\ requested = 0
    BY HandshakeAdvances, CallOfPlace DEF appVars
  <1>2. QED
    BY <1>1, HandshakeAdvances DEF RequestProgress

LEMMA ReceiveRequests ==
  ASSUME CallProgress, RequestProgress, Receive, UNCHANGED appVars
  PROVE  RequestProgress'
  <1>1. step \in ReceiveSteps
    BY DEF Receive, ReceiveIoFailure, ReadAsyncType, SkipAsync, ReadUnknownType, ReadUpdateType,
           ReadUpdateHeader, ReadUnsupportedEncoding, ReadRectangleHeader, ReadRow,
           NextRectangle, FinishUpdate, ReceiveSteps
  <1>2. /\ app \in {"receiving", "updating"} /\ app' = app
        /\ requested = IF step \in FrameSteps THEN 0 ELSE 1
    BY <1>1, CallOfPlace DEF appVars
  <1>3. \/ step' \in ReceiveSteps \ FrameSteps /\ requested' = 1
        \/ step' \in FrameSteps /\ requested' = 0
        \/ step' = "idle" /\ (result' = "ok" => requested' = 0) /\ requested' \in {0, 1}
    BY <1>2
    DEF Receive, ReceiveIoFailure, ReadAsyncType, SkipAsync, ReadUnknownType, ReadUpdateType,
        ReadUpdateHeader, ReadUnsupportedEncoding, ReadRectangleHeader, ReadRow,
        NextRectangle, FinishUpdate, ReceiveSteps, FrameSteps, FailFrame, Fail, Return
  <1>4. QED
    BY <1>2, <1>3 DEF RequestProgress

LEMMA RequestStep ==
  ASSUME SessionInv, CallProgress, RequestProgress, [AppNext]_vars
  PROVE  RequestProgress'
  <1>1. CASE Startup
    BY <1>1
    DEF RequestProgress, Startup, Boot, NextBoot, InitDiagnostics, ConnectVnc,
        InitFramebuffer, InitGraphics, sessionVars
  <1>2. CASE StartSession
    <2>1. DisplayWidth # 0 /\ DisplayHeight # 0
      BY AppAssumption
    <2>2. step' = "banner" /\ requested' = 0 /\ app' = "starting"
      BY <1>2, <2>1 DEF StartSession, CallStart, Nonzero
    <2>3. "banner" \in HandshakeSteps
      BY DEF HandshakeSteps, NextHandshake
    <2>4. QED
      BY <2>2, <2>3 DEF RequestProgress
  <1>3. CASE ReceiveInitialFrame
    <2>1. app = "starting" /\ step = "idle" /\ result = "ok" /\ app' = "receiving"
      BY <1>3 DEF ReceiveInitialFrame
    <2>2. "idle" \notin HandshakeSteps
      BY DEF HandshakeSteps, NextHandshake
    <2>3. requested = 1
      BY <2>1, <2>2 DEF RequestProgress
    <2>4. /\ requested' = requested
          /\ step' = "type" \/ (step' = "idle" /\ result' = "fail")
      BY <1>3 DEF ReceiveInitialFrame, CallReceiveInitial, EnterReceive, Return, FailFrame, Fail
    <2>5. QED
      BY <2>1, <2>3, <2>4 DEF RequestProgress, ReceiveSteps, FrameSteps
  <1>4. CASE RequestNext
    BY <1>4 DEF RequestProgress, RequestNext, RequestUpdate, Return, Fail
  <1>5. CASE ReceiveNext
    BY <1>5
    DEF RequestProgress, ReceiveNext, CallReceiveUpdate, EnterReceive, Return,
        FailFrame, Fail, ReceiveSteps, FrameSteps
  <1>6. CASE SessionFailed \/ PrepareGs16 \/ Present
    BY <1>6 DEF RequestProgress, SessionFailed, PrepareGs16, Present, sessionVars
  <1>7. CASE UpdateReceived
    <2>1. requested = 0
      BY <1>7 DEF RequestProgress, UpdateReceived, UpdateReturned, ReceiveSteps, FrameSteps
    <2>2. QED
      BY <1>7, <2>1 DEF RequestProgress, UpdateReceived, UpdateReturned, sessionVars
  <1>8. CASE Cleanup
    BY <1>8
    DEF RequestProgress, Cleanup, ReportFatal, CloseSocket, ShutdownGraphics,
        ShutdownDiagnostics, sessionVars
  <1>9. CASE SessionRuns
    BY <1>9, HandshakeRequests, ReceiveRequests DEF SessionRuns
  <1>10. CASE Exited \/ UNCHANGED vars
    BY <1>10 DEF RequestProgress, Exited, vars, appVars, sessionVars
  <1>11. QED
    BY <1>1, <1>2, <1>3, <1>4, <1>5, <1>6, <1>7, <1>8, <1>9, <1>10
    DEF AppNext, Coordinator, Service

\* Between the header of an update and its end every changed pixel leaves the
\* framebuffer dirty; before its header nothing changes.
LEMMA ReceiveKeepsDirty ==
  ASSUME TypeOK, Receive
  PROVE  /\ step' \in ReceiveSteps \ {"rectangle", "row"} => fb'.pixels = fb.pixels
         /\ step \in ReceiveSteps \ {"rectangle", "row"} /\ (step' # "idle" \/ result' = "ok")
              => fb'.pixels = fb.pixels
         /\ step' # "idle" \/ result' = "ok" =>
              \/ fb'.dirty
              \/ fb'.pixels = fb.pixels /\ (step \in {"rectangle", "row"} => ~fb.dirty)
         /\ step' \in ReceiveSteps \ {"rectangle", "row"} =>
              step \in ReceiveSteps \ {"rectangle", "row"}
  <1>0. fb \in Framebuffers
    BY DEF TypeOK
  <1> USE <1>0 DEF ReceiveSteps
  <1>1. CASE ReceiveIoFailure
    BY <1>1 DEF ReceiveIoFailure, FailFrame, Fail, Return
  <1>2. CASE ReadAsyncType \/ SkipAsync
    BY <1>2 DEF ReadAsyncType, SkipAsync
  <1>3. CASE ReadUnknownType \/ ReadUnsupportedEncoding
    BY <1>3 DEF ReadUnknownType, ReadUnsupportedEncoding, FailFrame, Fail, Return
  <1>4. CASE ReadUpdateType
    BY <1>4 DEF ReadUpdateType, FailFrame, Fail, Return
  <1>5. CASE ReadUpdateHeader
    BY <1>5 DEF ReadUpdateHeader, FailFrame, Fail, Return, ClearDirty, Framebuffers
  <1>6. CASE ReadRectangleHeader
    BY <1>6 DEF ReadRectangleHeader, FailFrame, Fail, Return
  <1>7. CASE ReadRow
    BY <1>7
    DEF ReadRow, FailFrame, Fail, Return, WriteRect, IncludeDirty, Framebuffers
  <1>8. CASE NextRectangle
    BY <1>8 DEF NextRectangle
  <1>9. CASE FinishUpdate
    BY <1>9 DEF FinishUpdate, FailFrame, Fail, Return, MarkValid, Framebuffers
  <1>10. QED
    BY <1>1, <1>2, <1>3, <1>4, <1>5, <1>6, <1>7, <1>8, <1>9 DEF Receive

LEMMA ScreenStep ==
  ASSUME SessionInv, CallProgress, RequestProgress, ScreenProgress, [AppNext]_vars
  PROVE  ScreenProgress'
  <1>1. CASE Startup \/ Cleanup
    BY <1>1
    DEF ScreenProgress, Startup, Boot, NextBoot, InitDiagnostics, ConnectVnc, InitFramebuffer,
        InitGraphics, Cleanup, ReportFatal, CloseSocket, ShutdownGraphics, ShutdownDiagnostics
  <1>2. CASE StartSession \/ ReceiveInitialFrame \/ SessionFailed
    BY <1>2 DEF ScreenProgress, StartSession, ReceiveInitialFrame, SessionFailed
  <1>3. CASE RequestNext
    BY <1>3 DEF ScreenProgress, RequestNext, RequestUpdate, appOnly, images
  <1>4. CASE ReceiveNext
    BY <1>4
    DEF ScreenProgress, ReceiveNext, CallReceiveUpdate, EnterReceive, FailFrame, Fail, Return,
        appOnly, images, ReceiveSteps
  <1>5. CASE UpdateReceived
    BY <1>5
    DEF ScreenProgress, UpdateReceived, UpdateReturned, sessionVars, appOnly, images
  <1>6. CASE PrepareGs16
    BY <1>6 DEF ScreenProgress, PrepareGs16, sessionVars
  <1>7. CASE Present
    BY <1>7 DEF ScreenProgress, Present, sessionVars
  <1>8. CASE SessionRuns
    <2>1. step # "idle" /\ step \in HandshakeSteps \cup ReceiveSteps
      <3>1. CASE Handshake
        BY <3>1, HandshakeAdvances DEF HandshakeSteps, NextHandshake
      <3>2. CASE Receive
        BY <3>2
        DEF Receive, ReceiveIoFailure, ReadAsyncType, SkipAsync, ReadUnknownType, ReadUpdateType,
            ReadUpdateHeader, ReadUnsupportedEncoding, ReadRectangleHeader, ReadRow,
            NextRectangle, FinishUpdate, ReceiveSteps
      <3>3. QED
        BY <1>8, <3>1, <3>2 DEF SessionRuns
    <2>2. UNCHANGED <<app, screen, gs_pixels>>
      BY <1>8 DEF SessionRuns, appVars
    <2>3. app \in Calling /\ app # "requested"
      BY <2>1 DEF CallProgress, RequestProgress
    <2>4. CASE app = "updating"
      <3>1. step \notin HandshakeSteps
        BY <2>4, CallOfPlace
      <3>2. step \in ReceiveSteps /\ Receive
        BY <1>8, <2>1, <3>1, HandshakeAdvances DEF SessionRuns
      <3>3. TypeOK
        BY DEF SessionInv
      <3>4. QED
        BY <2>1, <2>2, <2>4, <3>2, <3>3, ReceiveKeepsDirty DEF ScreenProgress
    <2>5. CASE app # "updating"
      BY <2>2, <2>3, <2>5 DEF ScreenProgress, Calling
    <2>6. QED
      BY <2>4, <2>5
  <1>9. CASE Exited \/ UNCHANGED vars
    BY <1>9 DEF ScreenProgress, Exited, vars, appVars, sessionVars
  <1>10. QED
    BY <1>1, <1>2, <1>3, <1>4, <1>5, <1>6, <1>7, <1>8, <1>9
    DEF AppNext, Coordinator, Service

LEMMA AppTypeStep ==
  ASSUME AppInv, AppInv', AppTypeOK, [AppNext]_vars
  PROVE  AppTypeOK'
  <1>1. TypeOK' /\ held' \subseteq Resources /\ misused' = FALSE /\ textures' \in Nat
    BY DEF AppInv, SessionInv, Ownership
  <1> DEFINE Stages == Seq({"NET_READY", "GS_READY", "DESKTOP_READY", "FATAL"})
             Images == [AllCells -> Nat]
             Rest == /\ app' \in AppPlaces
                     /\ socket_fd' \in BOOLEAN /\ graphics_ready' \in BOOLEAN
                     /\ diagnostics_ready' \in BOOLEAN /\ texture_configured' \in BOOLEAN
                     /\ gs_pixels' \in Images /\ screen' \in Images
                     /\ stages' \in Stages
  <1>2. /\ app \in AppPlaces
        /\ socket_fd \in BOOLEAN /\ graphics_ready \in BOOLEAN
        /\ diagnostics_ready \in BOOLEAN /\ texture_configured \in BOOLEAN
        /\ gs_pixels \in Images /\ screen \in Images /\ fb.pixels \in Images
        /\ stages \in Stages
    BY DEF AppTypeOK, TypeOK, Framebuffers
  <1>3. /\ Blank \in Images
        /\ \A stage \in {"NET_READY", "GS_READY", "DESKTOP_READY", "FATAL"} : Sent(stage) \in Stages
    BY <1>2 DEF Blank, Sent
  <1>4. Rest
    <2> HIDE DEF Stages, Images
    <2> USE DEF AppPlaces, appOnly, flags, images, texture
    <2>1. CASE Boot
      BY <1>2, <2>1 DEF Boot, NextBoot
    <2>2. CASE InitDiagnostics \/ InitFramebuffer
      BY <1>2, <2>2 DEF InitDiagnostics, InitFramebuffer
    <2>3. CASE ConnectVnc \/ InitGraphics
      BY <1>2, <1>3, <2>3 DEF ConnectVnc, InitGraphics
    <2>4. CASE StartSession \/ ReceiveInitialFrame \/ RequestNext \/ ReceiveNext \/ SessionFailed
      BY <1>2, <2>4 DEF StartSession, ReceiveInitialFrame, RequestNext, ReceiveNext, SessionFailed
    <2>5. CASE UpdateReceived \/ PrepareGs16
      BY <1>2, <2>5 DEF UpdateReceived, UpdateReturned, PrepareGs16
    <2>6. CASE Present
      BY <1>2, <1>3, <2>6 DEF Present
    <2>7. CASE Cleanup
      BY <1>2, <1>3, <2>7
      DEF Cleanup, ReportFatal, CloseSocket, ShutdownGraphics, ShutdownDiagnostics
    <2>8. CASE SessionRuns \/ Exited \/ UNCHANGED vars
      BY <1>2, <2>8 DEF SessionRuns, Exited, vars, appVars
    <2>9. QED
      BY <2>1, <2>2, <2>3, <2>4, <2>5, <2>6, <2>7, <2>8
      DEF AppNext, Coordinator, Startup, Service
  <1>5. QED
    BY <1>1, <1>4 DEF AppTypeOK

------------------------------------------------------------------------------
(* Theorems.                                                                    *)

LEMMA AppStarts == AppInit => AppInv
  <1> SUFFICES ASSUME AppInit PROVE AppInv
    OBVIOUS
  <1>1. SessionInv
    BY SessionStarts DEF AppInit
  <1>2. CallProgress
    BY DEF AppInit, SessionInit, CallProgress
  <1>3. ImageProgress
    BY DEF AppInit, ImageProgress
  <1>4. Ownership
    BY DEF AppInit, Ownership
  <1>5. RequestProgress /\ ScreenProgress
    BY DEF AppInit, SessionInit, RequestProgress, ScreenProgress
  <1>6. QED
    BY <1>1, <1>2, <1>3, <1>4, <1>5 DEF AppInv

\* The coordinator's invariant is inductive, the session's included.
THEOREM AppInvariant == AppSpec => []AppInv
  <1>1. AppInv /\ [AppNext]_vars => AppInv'
    <2> SUFFICES ASSUME AppInv, [AppNext]_vars PROVE AppInv'
      OBVIOUS
    <2>1. SessionInv'
      BY StepRefines, SessionInvStep DEF AppInv
    <2>2. CallProgress' /\ ImageProgress' /\ Ownership'
      BY CallStep, ImageStep, OwnershipStep DEF AppInv
    <2>3. RequestProgress' /\ ScreenProgress'
      BY RequestStep, ScreenStep DEF AppInv
    <2>4. QED
      BY <2>1, <2>2, <2>3 DEF AppInv
  <1>2. QED
    BY AppStarts, <1>1, PTL DEF AppSpec

\* Every variable of the coordinator keeps its type: in particular the images stay
\* images and the stages reported stay the four that app.c names.
THEOREM AppTypeCorrect == AppSpec => []AppTypeOK
  <1>1. AppInit => AppTypeOK
    <2> SUFFICES ASSUME AppInit PROVE AppTypeOK
      OBVIOUS
    <2>1. TypeOK
      BY SessionStarts DEF AppInit, SessionInv
    <2>2. Blank \in [AllCells -> Nat]
      BY DEF Blank
    <2>3. stages \in Seq({"NET_READY", "GS_READY", "DESKTOP_READY", "FATAL"})
      BY DEF AppInit
    <2>4. app \in AppPlaces /\ held \subseteq Resources /\ textures \in Nat
      BY DEF AppInit, AppPlaces
    <2>5. /\ {misused, socket_fd, graphics_ready, diagnostics_ready,
              texture_configured} \subseteq BOOLEAN
          /\ gs_pixels \in [AllCells -> Nat] /\ screen \in [AllCells -> Nat]
      BY <2>2 DEF AppInit
    <2>6. QED
      BY <2>1, <2>3, <2>4, <2>5 DEF AppTypeOK
  <1>2. AppInv /\ AppInv' /\ AppTypeOK /\ [AppNext]_vars => AppTypeOK'
    BY AppTypeStep
  <1>3. QED
    BY <1>1, <1>2, AppInvariant, PTL DEF AppSpec

\* The coordinator is one of the callers the session admits: every behaviour of
\* the application, seen at the session's variables, is one of SessionSpec.
THEOREM AppRefinesSession == AppSpec => SessionRefined
  <1>1. AppInv /\ [AppNext]_vars => [SessionNext]_sessionVars
    BY StepRefines DEF AppInv
  <1>2. AppInit => SessionInit
    BY DEF AppInit
  <1>3. QED
    BY <1>1, <1>2, AppInvariant, PTL DEF AppSpec, SessionRefined

\* The screen never shows a pixel of an update that did not arrive completely.
THEOREM ScreenNeverTorn == AppSpec => []NoTornScreen
  <1>1. AppInv => NoTornScreen
    BY DEF AppInv, ImageProgress, WholeImage, NoTornScreen
  <1>2. QED
    BY <1>1, AppInvariant, PTL

\* On every path, failures anywhere included, each resource is released exactly
\* once before the coordinator returns, and one texture is ever allocated.
THEOREM NothingEverLeaks == AppSpec => []NothingLeaked
  <1>1. AppInv => NothingLeaked
    BY DEF AppInv, Ownership, NothingLeaked, Resources
  <1>2. QED
    BY <1>1, AppInvariant, PTL

\* Skipping the presentation of a clean update skips no pixel: the coordinator
\* asks for more only when everything received is on the screen.
THEOREM ScreenAlwaysCurrent == AppSpec => []ScreenCurrent
  <1>1. AppInv => ScreenCurrent
    BY DEF AppInv, ScreenProgress, ScreenCurrent
  <1>2. QED
    BY <1>1, AppInvariant, PTL

\* No more than one request is ever on its way, and no receive waits without it.
THEOREM AlwaysOneRequestInFlight == AppSpec => []OneRequestInFlight
  <1>1. ASSUME AppInv PROVE OneRequestInFlight
    <2>1. step \in {"type", "skipHeader", "skipBody"} => step \in ReceiveSteps \ FrameSteps
      BY DEF ReceiveSteps, FrameSteps
    <2>2. QED
      BY <1>1, <2>1, CallOfPlace DEF AppInv, RequestProgress, OneRequestInFlight
  <1>2. QED
    BY <1>1, AppInvariant, PTL
==============================================================================
