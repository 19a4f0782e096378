-------------------------- MODULE HiresDisplayProofs ---------------------------
(* Proofs about the HIRES presentation.  First the two buffers and the engine    *)
(* that fetches them, for any number of passes, updates and faults: one          *)
(* inductive invariant and what follows from it.  Then the arithmetic below the  *)
(* bands, for inputs of every size: the resampling of a dirty region, the place  *)
(* of a row, the tiles of a Hextile rectangle and their colours, and the modes.  *)
EXTENDS MCHiresDisplay, FiniteSetTheorems, WellFoundedInduction, TLAPS

------------------------------------------------------------------------------
(* Types.                                                                       *)

LEMMA PicturesType ==
  /\ \A content \in Contents : Plain(content) \in Pictures
  /\ \A picture \in Pictures, pass \in Passes, content \in Contents :
       [picture EXCEPT ![pass] = content] \in Pictures
  /\ {0, Black, Torn} \subseteq Contents
  /\ \A update \in 0 .. MaxUpdates : update \in Contents
  BY HiresDisplayAssumption DEF Plain, Pictures, Contents, Black, Torn

LEMMA MemoryType ==
  ASSUME NEW memories \in [Buffers -> Pictures], NEW buffer \in Buffers
  PROVE  /\ \A picture \in Pictures :
              [memories EXCEPT ![buffer] = picture] \in [Buffers -> Pictures]
         /\ memories[buffer] \in Pictures
  OBVIOUS

LEMMA EngineTypes ==
  ASSUME TypeOK, Hsync \/ DmaEnds \/ Thread \/ Input
  PROVE  TypeOK'
  <1> USE HiresDisplayAssumption DEF TypeOK
  <1>1. CASE Hsync
    <2>1. faults' \in 0 .. MaxFaults
      BY <1>1 DEF Hsync, Fault
    <2>2. beam' \in Passes /\ current_pass' \in Passes
      BY <1>1 DEF Hsync, Passes, LastPass
    <2>3. QED
      BY <1>1, <2>1, <2>2 DEF Hsync, memory, overlay
  <1>2. CASE DmaEnds
    BY <1>2 DEF DmaEnds, Transfers, memory, stream, overlay
  <1>3. CASE Wake
    BY <1>3 DEF Wake, ThreadStep, memory, stream, overlay
  <1>4. CASE SendPass
    <2>1. dma' \in Transfers
      BY <1>4 DEF SendPass, ThreadStep, Transfers
    <2>2. QED
      BY <1>4, <2>1 DEF SendPass, ThreadStep, memory, stream, overlay
  <1>5. CASE SendDraw
    <2>1. dma' \in Transfers
      BY <1>5 DEF SendDraw, ThreadStep, Transfers
    <2>2. QED
      BY <1>5, <2>1 DEF SendDraw, ThreadStep, memory, stream, overlay
  <1>6. CASE Input
    BY <1>6 DEF Input, engine, memory, stream
  <1>7. QED
    BY <1>1, <1>2, <1>3, <1>4, <1>5, <1>6 DEF Thread

LEMMA BufferType ==
  ASSUME TypeOK, BuffersInv
  PROVE  /\ at \notin {"off", "prepare"} => /\ Target \in Buffers
                                           /\ front \in Buffers /\ back \in Buffers
         /\ at = "commit" /\ ~mapped => direct \in Buffers
  BY DEF BuffersInv, Target, Buffers, TypeOK

LEMMA MainTypes ==
  ASSUME TypeOK, BuffersInv, Main
  PROVE  TypeOK'
  <1> USE HiresDisplayAssumption DEF TypeOK, MainAt, Goto, SyncAt, stream, overlay, memory
  <1>0. /\ at' \in {"off", "prepare", "publish", "clear", "fill", "set_bg", "create", "copy",
                    "mirror", "receive", "commit", "recover", "exit"} => at' \in Places
        /\ at' \in Showing \cup Stopping => at' \in Places
    BY DEF Places
  <1> USE <1>0 DEF Showing, Stopping
  <1>1. CASE Create
    <2>1. 0 \in Passes
      BY DEF Passes
    <2>2. QED
      BY <1>1, <2>1 DEF Create
  <1>2. CASE IdleForPublish
    BY <1>2 DEF IdleForPublish
  <1>3. CASE SetBackground
    BY <1>3 DEF SetBackground
  <1>4. CASE DrawOverlay
    BY <1>4 DEF DrawOverlay
  <1>5. CASE Upload
    BY <1>5 DEF Upload
  <1>6. CASE FinishDraw
    BY <1>6 DEF FinishDraw
  <1>7. CASE Flip
    BY <1>7 DEF Flip
  <1>8. CASE Toggle
    BY <1>8 DEF Toggle
  <1>9. CASE BeginUpdate
    BY <1>9 DEF BeginUpdate
  <1>10. CASE EndUpdate
    BY <1>10 DEF EndUpdate, Receiving
  <1>11. CASE Destroy
    BY <1>11 DEF Destroy
  <1>12. CASE Deinit
    BY <1>12 DEF Deinit
  <1>13. CASE FreeBuffers
    <2>1. (generation - 1) \in 0 .. MaxGenerations + 1
      OBVIOUS
    <2>2. pass_queue' \in [Passes -> Buffers \cup {None}]
      BY <1>13 DEF FreeBuffers
    <2>3. QED
      BY <1>13, <2>1, <2>2 DEF FreeBuffers
  <1>14. CASE Prepare
    <2>1. mem' \in [Buffers -> Pictures]
      BY <1>14, PicturesType DEF Prepare
    <2>2. {"A", "B"} \subseteq Buffers
      BY DEF Buffers
    <2>3. QED
      BY <1>14, <2>1, <2>2 DEF Prepare
  <1>15. CASE Clear
    <2>1. Target \in Buffers
      BY <1>15, BufferType DEF Clear
    <2>2. mem' \in [Buffers -> Pictures]
      BY <1>15, <2>1, PicturesType, MemoryType DEF Clear
    <2>3. Bands(Target) \subseteq Buffers \X Passes
      BY <2>1 DEF Bands
    <2>4. QED
      BY <1>15, <2>1, <2>2, <2>3 DEF Clear
  <1>16. CASE Fill
    <2>1. Target \in Buffers
      BY <1>16, BufferType DEF Fill
    <2>2. mem' \in [Buffers -> Pictures]
      BY <1>16, <2>1, MemoryType DEF Fill
    <2>3. QED
      BY <1>16, <2>1, <2>2 DEF Fill
  <1>17. CASE CreatePasses
    <2>1. tex \in Buffers
      BY <1>17 DEF CreatePasses, BuffersInv
    <2>2. QED
      BY <1>17, <2>1 DEF CreatePasses
  <1>18. CASE Copy
    <2>1. front \in Buffers /\ back \in Buffers
      BY <1>18, BufferType DEF Copy
    <2>2. mem' \in [Buffers -> Pictures]
      BY <1>18, <2>1, MemoryType DEF Copy
    <2>3. QED
      BY <1>18, <2>1, <2>2 DEF Copy
  <1>19. CASE Mirror
    <2>1. front \in Buffers /\ back \in Buffers
      BY <1>19, BufferType DEF Mirror
    <2>2. [pass \in Passes |-> IF pass \notin dirty THEN mem[back][pass]
               ELSE IF mapped THEN linear[pass] ELSE mem[front][pass]] \in Pictures
      BY <1>19, <2>1, MemoryType DEF Mirror, Pictures
    <2>3. mem' \in [Buffers -> Pictures]
      BY <1>19, <2>1, <2>2, MemoryType DEF Mirror
    <2>4. QED
      BY <1>19, <2>1, <2>2, <2>3 DEF Mirror
  <1>20. CASE Commit
    <2>1. front \in Buffers /\ back \in Buffers /\ (~mapped => direct \in Buffers)
      BY <1>20, BufferType DEF Commit
    <2>2. [pass \in Passes |-> IF pass \in dirty THEN linear[pass] ELSE mem[back][pass]] \in Pictures
      BY <1>20, <2>1, MemoryType DEF Commit, Pictures
    <2>3. mem' \in [Buffers -> Pictures]
      BY <1>20, <2>1, <2>2, MemoryType DEF Commit
    <2>4. QED
      BY <1>20, <2>1, <2>2, <2>3 DEF Commit
  <1>21. CASE Recover
    <2>1. Plain(updates) \in Pictures
      BY <1>21, PicturesType
    <2>2. (generation - 1) \in 0 .. MaxGenerations + 1
      OBVIOUS
    <2>3. CASE at' = "publish"
      <3>1. image' \in Pictures /\ linear' \in Pictures /\ frame' \in Pictures
        BY <1>21, <2>1, <2>3 DEF Recover
      <3>2. QED
        BY <1>21, <2>2, <2>3, <3>1 DEF Recover
    <2>4. CASE at' = "exit"
      BY <1>21, <2>2, <2>4 DEF Recover
    <2>5. QED
      BY <1>21, <2>3, <2>4 DEF Recover
  <1>22. QED
    BY <1>1, <1>2, <1>3, <1>4, <1>5, <1>6, <1>7, <1>8, <1>9, <1>10, <1>11, <1>12, <1>13, <1>14, <1>15, <1>16, <1>17, <1>18, <1>19, <1>20, <1>21 DEF Main, Works, Server

LEMMA DecodeType ==
  ASSUME TypeOK, NEW pass \in Passes, NEW content \in Contents, Decode(pass, content)
  PROVE  /\ mem' \in [Buffers -> Pictures] /\ linear' \in Pictures
         /\ cached' \subseteq Buffers \X Passes /\ stale' \in BOOLEAN
  <1> USE DEF TypeOK
  <1>1. CASE DirectWrite
    <2>1. direct \in Buffers
      BY <1>1 DEF DirectWrite
    <2>2. mem' = [mem EXCEPT ![direct] = [mem[direct] EXCEPT ![pass] = content]]
      BY <1>1 DEF Decode
    <2>3. mem' \in [Buffers -> Pictures]
      BY <2>1, <2>2, PicturesType, MemoryType
    <2>4. QED
      BY <1>1, <2>1, <2>3 DEF Decode
  <1>2. CASE ~DirectWrite
    BY <1>2, PicturesType DEF Decode
  <1>3. QED
    BY <1>1, <1>2

LEMMA UpdateTypes ==
  ASSUME TypeOK,
         \/ Yield \/ Arrives \/ HextileRect \/ RawRect \/ RawRefused \/ ReceiveFails
         \/ Refresh \/ SwitchMode
  PROVE  TypeOK'
  <1> USE HiresDisplayAssumption
      DEF TypeOK, MainAt, Receiving, Goto, SyncAt, Fault, stream, overlay, memory
  <1>0. /\ at' \in {"receive", "recover"} => at' \in Places
        /\ at' \in {"draw", "destroy"} => at' \in Places
    BY DEF Places, Showing, Stopping
  <1>1. CASE Yield
    BY <1>0, <1>1 DEF Yield
  <1>2. CASE Arrives
    BY <1>0, <1>2 DEF Arrives
  <1>3. CASE HextileRect
    <2>1. PICK pass \in Passes : Sent(pass) /\ Decode(pass, updates)
      BY <1>3 DEF HextileRect
    <2>2. image' \in Pictures /\ dirty' \subseteq Passes
      BY <2>1, PicturesType DEF Sent
    <2>3. /\ mem' \in [Buffers -> Pictures] /\ linear' \in Pictures
          /\ cached' \subseteq Buffers \X Passes /\ stale' \in BOOLEAN
      BY <2>1, DecodeType, PicturesType
    <2>4. QED
      BY <1>3, <2>2, <2>3 DEF HextileRect
  <1>4. CASE RawRect
    <2>1. PICK pass \in Passes : Sent(pass) /\ linear' = [linear EXCEPT ![pass] = updates]
      BY <1>4 DEF RawRect
    <2>2. image' \in Pictures /\ dirty' \subseteq Passes /\ linear' \in Pictures
      BY <2>1, PicturesType DEF Sent
    <2>3. QED
      BY <1>4, <2>2 DEF RawRect
  <1>5. CASE RawRefused
    BY <1>0, <1>5 DEF RawRefused
  <1>6. CASE ReceiveFails
    <2>1. /\ mem' \in [Buffers -> Pictures] /\ linear' \in Pictures
          /\ cached' \subseteq Buffers \X Passes /\ stale' \in BOOLEAN
      <3>1. CASE UNCHANGED <<mem, cached, linear, stale>>
        BY <3>1
      <3>2. CASE \E pass \in Passes : Decode(pass, Torn)
        BY <3>2, DecodeType, PicturesType
      <3>3. QED
        BY <1>6, <3>1, <3>2 DEF ReceiveFails
    <2>2. at' \in Places /\ faults' \in 0 .. MaxFaults /\ safe' = FALSE
      BY <1>0, <1>6 DEF ReceiveFails
    <2>3. /\ UNCHANGED <<beam, current_pass, hsync, dma, running, vsync, lock, thread>>
          /\ UNCHANGED <<pass_queue, draw_queue, full, front, back, tex, configured, mapped>>
          /\ UNCHANGED <<direct, image, frame, dirty, updates, overlay>>
      BY <1>6 DEF ReceiveFails
    <2>4. QED
      BY <2>1, <2>2, <2>3
  <1>7. CASE Refresh
    BY <1>0, <1>7 DEF Refresh
  <1>8. CASE SwitchMode
    BY <1>0, <1>8 DEF SwitchMode
  <1>9. QED
    BY <1>1, <1>2, <1>3, <1>4, <1>5, <1>6, <1>7, <1>8

LEMMA TypeInit ==
  ASSUME Init
  PROVE  TypeOK
  <1>1. 0 \in Passes
    BY HiresDisplayAssumption DEF Passes
  <1>2. /\ mem \in [Buffers -> Pictures]
        /\ linear \in Pictures /\ image \in Pictures /\ frame \in Pictures
    BY PicturesType DEF Init
  <1>3. at \in Places /\ dma \in Transfers
    BY DEF Init, Places, Transfers
  <1>4. /\ running \in BOOLEAN
        /\ beam \in Passes /\ current_pass \in Passes
        /\ hsync \in 0 .. 1 /\ vsync \in 0 .. 1 /\ draw_queue \in 0 .. 1
        /\ lock \in {"free", "main", "thread"}
        /\ thread \in {"hsync", "queue", "draw", "dead"}
    <2>1. /\ running = FALSE /\ beam = 0 /\ current_pass = 0 /\ hsync = 0 /\ vsync = 0
          /\ lock = "free" /\ thread = "dead" /\ draw_queue = 0
      BY DEF Init
    <2>2. running \in BOOLEAN
      BY <2>1
    <2>3. beam \in Passes /\ current_pass \in Passes
      BY <1>1, <2>1
    <2>4. hsync \in 0 .. 1 /\ vsync \in 0 .. 1 /\ draw_queue \in 0 .. 1
      BY <2>1
    <2>5. QED
      BY <2>1, <2>2, <2>3, <2>4
  <1>5. pass_queue \in [Passes -> Buffers \cup {None}]
    BY DEF Init
  <1>6. /\ generation \in 1 .. MaxGenerations + 1
        /\ {bitmap, texture} \subseteq 0 .. MaxGenerations + 1
        /\ rendered \in 0 .. MaxGenerations + 1
        /\ updates \in 0 .. MaxUpdates /\ faults \in 0 .. MaxFaults
    BY HiresDisplayAssumption DEF Init
  <1>7. /\ cached \subseteq Buffers \X Passes /\ dirty \subseteq Passes
        /\ {front, back, direct, tex} \subseteq Buffers \cup {None}
        /\ configured \in BOOLEAN /\ mapped \in BOOLEAN /\ safe \in BOOLEAN
        /\ stale \in BOOLEAN /\ full \in BOOLEAN
    BY DEF Init
  <1>8. QED
    BY <1>2, <1>3, <1>4, <1>5, <1>6, <1>7 DEF TypeOK

------------------------------------------------------------------------------
(* The engine's own steps, and what main's steps leave of its state.            *)

\* What the engine and the controller thread leave alone.
LEMMA QuietStep ==
  ASSUME Hsync \/ DmaEnds \/ Thread \/ Input
  PROVE  UNCHANGED <<memory, image, frame, dirty, updates, at, full>>
  BY DEF Hsync, DmaEnds, Thread, Wake, SendPass, SendDraw, ThreadStep, Input, stream

LEMMA EngineQuiet ==
  ASSUME TypeOK, EngineInv, Hsync \/ DmaEnds \/ Thread \/ Input
  PROVE  EngineInv'
  <1> USE DEF EngineInv, Shown, memory, NoDma, Draw, Fetch
  <1>1. CASE Hsync
    BY <1>1 DEF Hsync
  <1>2. CASE DmaEnds
    BY <1>2 DEF DmaEnds
  <1>3. CASE Wake
    BY <1>3 DEF Wake, ThreadStep
  <1>4. CASE SendPass
    BY <1>4 DEF SendPass, ThreadStep, TypeOK
  <1>5. CASE SendDraw
    BY <1>5 DEF SendDraw, ThreadStep, TypeOK
  <1>6. CASE Input
    BY <1>6 DEF Input, engine
  <1>7. QED
    BY <1>1, <1>2, <1>3, <1>4, <1>5, <1>6 DEF Thread

\* Main's steps outside the reception of an update, then those of a reception.
LEMMA EngineMain ==
  ASSUME TypeOK, EngineInv, BuffersInv, Main
  PROVE  EngineInv'
  <1> USE DEF EngineInv, Shown, MainAt, Goto, SyncAt, memory, NoDma, BuffersInv
  <1>1. CASE Create
    BY <1>1 DEF Create
  <1>2. CASE Prepare
    BY <1>2 DEF Prepare
  <1>3. CASE IdleForPublish
    BY <1>3 DEF IdleForPublish
  <1>4. CASE Clear
    BY <1>4 DEF Clear
  <1>5. CASE Fill
    BY <1>5 DEF Fill
  <1>6. CASE SetBackground
    BY <1>6 DEF SetBackground, TypeOK
  <1>7. CASE CreatePasses
    BY <1>7 DEF CreatePasses
  <1>8. CASE Copy
    BY <1>8 DEF Copy
  <1>9. CASE Mirror
    BY <1>9 DEF Mirror
  <1>10. CASE DrawOverlay
    BY <1>10 DEF DrawOverlay
  <1>11. CASE Upload
    BY <1>11 DEF Upload
  <1>12. CASE FinishDraw
    BY <1>12 DEF FinishDraw
  <1>13. CASE Flip
    BY <1>13 DEF Flip
  <1>14. CASE Toggle
    BY <1>14 DEF Toggle, TypeOK
  <1>15. CASE BeginUpdate
    BY <1>15 DEF BeginUpdate
  <1>16. CASE EndUpdate
    BY <1>16 DEF EndUpdate, Receiving
  <1>17. CASE Commit
    BY <1>17 DEF Commit
  <1>18. CASE Recover
    BY <1>18 DEF Recover
  <1>19. CASE Destroy
    BY <1>19 DEF Destroy
  <1>20. CASE Deinit
    BY <1>20 DEF Deinit
  <1>21. CASE FreeBuffers
    BY <1>21 DEF FreeBuffers
  <1>22. QED
    BY <1>1, <1>2, <1>3, <1>4, <1>5, <1>6, <1>7, <1>8, <1>9, <1>10, <1>11, <1>12, <1>13, <1>14, <1>15, <1>16, <1>17, <1>18, <1>19, <1>20, <1>21 DEF Main, Works, Server

LEMMA EngineUpdate ==
  ASSUME TypeOK, EngineInv, BuffersInv,
         \/ Yield \/ Arrives \/ HextileRect \/ RawRect \/ RawRefused \/ ReceiveFails
         \/ Refresh \/ SwitchMode
  PROVE  EngineInv'
  <1> USE DEF EngineInv, Shown, MainAt, Goto, SyncAt, memory
  <1>1. CASE Yield
    BY <1>1 DEF Yield, Receiving
  <1>2. CASE Arrives
    BY <1>2 DEF Arrives, Receiving
  <1>3. CASE HextileRect
    BY <1>3 DEF HextileRect, Receiving
  <1>4. CASE RawRect
    BY <1>4 DEF RawRect, Receiving
  <1>5. CASE RawRefused
    BY <1>5 DEF RawRefused, Receiving
  <1>6. CASE ReceiveFails
    BY <1>6 DEF ReceiveFails, Receiving, Fault
  <1>7. CASE Refresh
    BY <1>7 DEF Refresh, Receiving, Fault
  <1>8. CASE SwitchMode
    BY <1>8 DEF SwitchMode, Fault
  <1>9. QED
    BY <1>1, <1>2, <1>3, <1>4, <1>5, <1>6, <1>7, <1>8

------------------------------------------------------------------------------
(* The roles of the two buffers.                                                *)

LEMMA BuffersQuiet ==
  ASSUME Hsync \/ DmaEnds \/ Thread \/ Input
  PROVE  /\ BuffersInv => BuffersInv'
         /\ FullInv => FullInv'
         /\ PicturesInv => PicturesInv'
  BY QuietStep DEF BuffersInv, FullInv, PicturesInv, AgreesOutside, memory, Bands

LEMMA BuffersMain ==
  ASSUME TypeOK, BuffersInv, FullInv, Main
  PROVE  BuffersInv'
  <1> USE DEF BuffersInv, MainAt, Goto, SyncAt, memory, Showing
  <1>1. CASE Create
    BY <1>1 DEF Create
  <1>2. CASE Prepare
    BY <1>2 DEF Prepare, Buffers
  <1>3. CASE IdleForPublish
    BY <1>3 DEF IdleForPublish
  <1>4. CASE Clear
    BY <1>4 DEF Clear
  <1>5. CASE Fill
    BY <1>5 DEF Fill, Target, FullInv
  <1>6. CASE SetBackground
    BY <1>6 DEF SetBackground
  <1>7. CASE CreatePasses
    BY <1>7 DEF CreatePasses, TypeOK
  <1>8. CASE Copy
    BY <1>8 DEF Copy
  <1>9. CASE Mirror
    BY <1>9 DEF Mirror
  <1>10. CASE DrawOverlay
    BY <1>10 DEF DrawOverlay
  <1>11. CASE Upload
    BY <1>11 DEF Upload
  <1>12. CASE FinishDraw
    BY <1>12 DEF FinishDraw
  <1>13. CASE Flip
    BY <1>13 DEF Flip
  <1>14. CASE Toggle
    BY <1>14 DEF Toggle
  <1>15. CASE BeginUpdate
    BY <1>15 DEF BeginUpdate, TypeOK
  <1>16. CASE EndUpdate
    BY <1>16 DEF EndUpdate, Receiving
  <1>17. CASE Commit
    BY <1>17 DEF Commit
  <1>18. CASE Recover
    BY <1>18 DEF Recover, FullInv
  <1>19. CASE Destroy
    BY <1>19 DEF Destroy
  <1>20. CASE Deinit
    BY <1>20 DEF Deinit
  <1>21. CASE FreeBuffers
    BY <1>21 DEF FreeBuffers
  <1>22. QED
    BY <1>1, <1>2, <1>3, <1>4, <1>5, <1>6, <1>7, <1>8, <1>9, <1>10, <1>11, <1>12, <1>13, <1>14, <1>15, <1>16, <1>17, <1>18, <1>19, <1>20, <1>21 DEF Main, Works, Server

LEMMA BuffersUpdate ==
  ASSUME TypeOK, BuffersInv,
         \/ Yield \/ Arrives \/ HextileRect \/ RawRect \/ RawRefused \/ ReceiveFails
         \/ Refresh \/ SwitchMode
  PROVE  BuffersInv'
  <1> USE DEF BuffersInv, MainAt, Goto, SyncAt, memory, Showing
  <1>1. CASE Yield
    BY <1>1 DEF Yield, Receiving
  <1>2. CASE Arrives
    BY <1>2 DEF Arrives, Receiving
  <1>3. CASE HextileRect
    BY <1>3 DEF HextileRect, Receiving
  <1>4. CASE RawRect
    BY <1>4 DEF RawRect, Receiving
  <1>5. CASE RawRefused
    BY <1>5 DEF RawRefused, Receiving
  <1>6. CASE ReceiveFails
    BY <1>6 DEF ReceiveFails, Receiving, Fault
  <1>7. CASE Refresh
    BY <1>7 DEF Refresh, Receiving, Fault
  <1>8. CASE SwitchMode
    BY <1>8 DEF SwitchMode, Fault
  <1>9. QED
    BY <1>1, <1>2, <1>3, <1>4, <1>5, <1>6, <1>7, <1>8

------------------------------------------------------------------------------
(* A complete desktop on its way.                                               *)

LEMMA FullMain ==
  ASSUME TypeOK, FullInv, BuffersInv, PicturesInv, Main
  PROVE  FullInv'
  <1> USE DEF FullInv, MainAt, Goto, SyncAt, memory, stream
  <1>1. CASE Create
    BY <1>1 DEF Create
  <1>2. CASE Prepare
    BY <1>2 DEF Prepare
  <1>3. CASE IdleForPublish
    BY <1>3 DEF IdleForPublish
  <1>4. CASE Clear
    BY <1>4 DEF Clear
  <1>5. CASE Fill
    BY <1>5 DEF Fill
  <1>6. CASE SetBackground
    BY <1>6 DEF SetBackground
  <1>7. CASE CreatePasses
    BY <1>7 DEF CreatePasses, BuffersInv
  <1>8. CASE Copy
    BY <1>8 DEF Copy
  <1>9. CASE Mirror
    BY <1>9 DEF Mirror
  <1>10. CASE DrawOverlay
    BY <1>10 DEF DrawOverlay
  <1>11. CASE Upload
    BY <1>11 DEF Upload
  <1>12. CASE FinishDraw
    BY <1>12 DEF FinishDraw
  <1>13. CASE Flip
    BY <1>13 DEF Flip
  <1>14. CASE Toggle
    BY <1>14 DEF Toggle
  <1>15. CASE BeginUpdate
    BY <1>15 DEF BeginUpdate
  <1>16. CASE EndUpdate
    BY <1>16 DEF EndUpdate, Receiving
  <1>17. CASE Commit
    BY <1>17 DEF Commit
  <1>18. CASE Recover
    BY <1>18 DEF Recover
  <1>19. CASE Destroy
    BY <1>19 DEF Destroy
  <1>20. CASE Deinit
    BY <1>20 DEF Deinit
  <1>21. CASE FreeBuffers
    BY <1>21 DEF FreeBuffers
  <1>22. QED
    BY <1>1, <1>2, <1>3, <1>4, <1>5, <1>6, <1>7, <1>8, <1>9, <1>10, <1>11, <1>12, <1>13, <1>14, <1>15, <1>16, <1>17, <1>18, <1>19, <1>20, <1>21 DEF Main, Works, Server

LEMMA FullUpdate ==
  ASSUME TypeOK, FullInv,
         \/ Yield \/ Arrives \/ HextileRect \/ RawRect \/ RawRefused \/ ReceiveFails
         \/ Refresh \/ SwitchMode
  PROVE  FullInv'
  <1> USE DEF FullInv, MainAt, Goto, SyncAt, memory, stream
  <1>1. CASE Yield
    BY <1>1 DEF Yield, Receiving
  <1>2. CASE Arrives
    BY <1>2 DEF Arrives, Receiving
  <1>3. CASE HextileRect
    BY <1>3 DEF HextileRect, Receiving
  <1>4. CASE RawRect
    BY <1>4 DEF RawRect, Receiving
  <1>5. CASE RawRefused
    BY <1>5 DEF RawRefused, Receiving
  <1>6. CASE ReceiveFails
    BY <1>6 DEF ReceiveFails, Receiving, Fault
  <1>7. CASE Refresh
    BY <1>7 DEF Refresh, Receiving, Fault
  <1>8. CASE SwitchMode
    BY <1>8 DEF SwitchMode, Fault
  <1>9. QED
    BY <1>1, <1>2, <1>3, <1>4, <1>5, <1>6, <1>7, <1>8

------------------------------------------------------------------------------
(* What the buffers hold.                                                       *)

LEMMA CommitPlace ==
  ASSUME BuffersInv, Commit
  PROVE  front \in Buffers /\ back \in Buffers /\ front # back /\ at = "commit" /\ at' = "set_bg"
  <1>1. at = "commit" /\ at' = "set_bg"
    BY DEF Commit, MainAt, SyncAt
  <1>2. {front, back} = {"A", "B"}
    BY <1>1 DEF BuffersInv, Buffers
  <1>3. QED
    BY <1>1, <1>2 DEF Buffers

LEMMA PicturesMain ==
  ASSUME TypeOK, BuffersInv, FullInv, PicturesInv, Main
  PROVE  PicturesInv'
  <1> USE DEF PicturesInv, FullInv, BuffersInv, AgreesOutside, MainAt, Goto, SyncAt, memory, stream, Showing, Stopping, Buffers, TypeOK
  <1>1. CASE Create
    BY <1>1 DEF Create
  <1>2. CASE Prepare
    BY <1>2 DEF Prepare
  <1>3. CASE IdleForPublish
    BY <1>3 DEF IdleForPublish
  <1>4. CASE Clear
    BY <1>4 DEF Clear, Target
  <1>5. CASE Fill
    BY <1>5 DEF Fill, Target, Bands
  <1>6. CASE SetBackground
    BY <1>6 DEF SetBackground
  <1>7. CASE CreatePasses
    BY <1>7 DEF CreatePasses
  <1>8. CASE Copy
    BY <1>8 DEF Copy, Bands
  <1>9. CASE Mirror
    <2>1. front \in Buffers /\ back \in Buffers /\ front # back /\ at = "mirror" /\ at' = "draw"
      BY <1>9 DEF Mirror
    <2>2. \A pass \in Passes :
            frame[pass] = IF pass \notin dirty THEN mem[back][pass]
                          ELSE IF mapped THEN linear[pass] ELSE mem[front][pass]
      BY <1>9, <2>1
    <2>3. mem'[back] = frame
      <3>1. frame = [pass \in Passes |-> IF pass \notin dirty THEN mem[back][pass]
                                         ELSE IF mapped THEN linear[pass] ELSE mem[front][pass]]
        BY <2>2 DEF Pictures
      <3>2. QED
        BY <1>9, <2>1, <3>1 DEF Mirror
    <2>4. mem'[front] = mem[front] /\ cached' = {}
      BY <1>9, <2>1 DEF Mirror
    <2>5. QED
      BY <1>9, <2>1, <2>3, <2>4 DEF Mirror
  <1>10. CASE DrawOverlay
    BY <1>10 DEF DrawOverlay
  <1>11. CASE Upload
    BY <1>11 DEF Upload
  <1>12. CASE FinishDraw
    BY <1>12 DEF FinishDraw
  <1>13. CASE Flip
    BY <1>13 DEF Flip
  <1>14. CASE Toggle
    BY <1>14 DEF Toggle
  <1>15. CASE BeginUpdate
    BY <1>15 DEF BeginUpdate
  <1>16. CASE EndUpdate
    <2>1. at = "receive" /\ frame' = image /\ UNCHANGED <<mem, cached, front, back, configured, mapped, direct, linear, image, dirty, full>>
      BY <1>16 DEF EndUpdate, Receiving
    <2>2. CASE at' = "draw"
      <3>1. dirty = {}
        BY <1>16, <2>2 DEF EndUpdate
      <3>2. mapped \/ safe
        BY <2>1, <3>1
      <3>3. image = frame
        BY <2>1, <3>1 DEF Pictures
      <3>4. QED
        BY <2>1, <2>2, <3>1, <3>2, <3>3
    <2>3. CASE at' = "commit"
      <3>1. mapped \/ safe
        BY <1>16, <2>3 DEF EndUpdate
      <3>2. AgreesOutside(front)' /\ AgreesOutside(back)'
        BY <2>1, <3>1
      <3>3. QED
        BY <2>1, <2>3, <3>1, <3>2
    <2>4. CASE at' = "exit"
      BY <2>4
    <2>5. QED
      BY <1>16, <2>2, <2>3, <2>4 DEF EndUpdate
  <1>17. CASE Commit
    <2>1. front \in Buffers /\ back \in Buffers /\ front # back /\ at = "commit" /\ at' = "set_bg"
      BY <1>17, CommitPlace
    <2>2. tex' = back /\ mem'[front] = mem[front]
      BY <1>17, <2>1 DEF Commit
    <2>3. mem'[back] = frame
      <3>1. CASE mapped
        <4>1. \A pass \in Passes :
                frame[pass] = IF pass \in dirty THEN linear[pass] ELSE mem[back][pass]
          BY <2>1, <3>1
        <4>2. frame = [pass \in Passes |-> IF pass \in dirty THEN linear[pass] ELSE mem[back][pass]]
          BY <4>1 DEF Pictures
        <4>3. QED
          BY <1>17, <2>1, <3>1, <4>2 DEF Commit
      <3>2. CASE ~mapped
        BY <1>17, <2>1, <3>2 DEF Commit
      <3>3. QED
        BY <3>1, <3>2
    <2>4. cached' = {}
      BY <1>17, <2>1, <2>2 DEF Commit
    <2>5. QED
      BY <1>17, <2>1, <2>2, <2>3, <2>4 DEF Commit
  <1>18. CASE Recover
    BY <1>18 DEF Recover
  <1>19. CASE Destroy
    BY <1>19 DEF Destroy
  <1>20. CASE Deinit
    BY <1>20 DEF Deinit
  <1>21. CASE FreeBuffers
    BY <1>21 DEF FreeBuffers
  <1>22. QED
    BY <1>1, <1>2, <1>3, <1>4, <1>5, <1>6, <1>7, <1>8, <1>9, <1>10, <1>11, <1>12, <1>13, <1>14, <1>15, <1>16, <1>17, <1>18, <1>19, <1>20, <1>21 DEF Main, Works, Server

LEMMA PicturesUpdate ==
  ASSUME TypeOK, BuffersInv, FullInv, PicturesInv,
         \/ Yield \/ Arrives \/ HextileRect \/ RawRect \/ RawRefused \/ ReceiveFails
         \/ Refresh \/ SwitchMode
  PROVE  PicturesInv'
  <1> USE DEF PicturesInv, BuffersInv, FullInv, AgreesOutside, MainAt, Goto, SyncAt, memory, stream, Showing, Stopping, Buffers, TypeOK
  <1>1. CASE Yield
    BY <1>1 DEF Yield, Receiving
  <1>2. CASE Arrives
    BY <1>2 DEF Arrives, Receiving
  <1>3. CASE HextileRect
    <2>1. PICK pass \in Passes \ dirty : Sent(pass) /\ Decode(pass, updates)
      BY <1>3 DEF HextileRect
    <2>2. /\ at = "receive" /\ at' = "receive" /\ front \in Buffers /\ back \in Buffers
          /\ front # back
          /\ UNCHANGED <<front, back, configured, mapped, direct, safe, frame, full>>
      BY <1>3 DEF HextileRect, Receiving
    <2>3. /\ \A other \in Passes \ dirty' : image'[other] = frame'[other]
          /\ dirty' # {} /\ dirty \subseteq dirty' /\ pass \in dirty'
      BY <2>1, <2>2 DEF Sent, Pictures
    <2>4. CASE DirectWrite
      <3>1. safe /\ ~mapped /\ direct = back
        BY <2>2, <2>4 DEF DirectWrite
      <3>2. mem' = [mem EXCEPT ![back] = [mem[back] EXCEPT ![pass] = updates]]
        BY <2>1, <2>4, <3>1 DEF Decode
      <3>3. mem'[back] = image' /\ mem'[front] = frame
        BY <2>1, <2>2, <3>1, <3>2 DEF Sent
      <3>4. cached' \subseteq {back} \X dirty'
        BY <2>1, <2>2, <2>3, <2>4, <3>1 DEF Decode
      <3>5. QED
        BY <2>2, <2>3, <3>1, <3>3, <3>4 DEF Bands
    <2>5. CASE ~DirectWrite
      <3>1. ~safe
        BY <2>2, <2>5, HiresDisplayAssumption DEF DirectWrite
      <3>2. UNCHANGED <<mem, cached>> /\ linear' = [linear EXCEPT ![pass] = updates]
        BY <2>1, <2>5 DEF Decode
      <3>3. mapped => linear' = image'
        BY <2>1, <2>2, <3>2 DEF Sent
      <3>4. cached \subseteq {back} \X dirty'
        BY <2>2, <2>3
      <3>5. QED
        BY <2>2, <2>3, <3>1, <3>2, <3>3, <3>4
    <2>6. QED
      BY <2>4, <2>5
  <1>4. CASE RawRect
    <2>1. PICK pass \in Passes \ dirty :
            Sent(pass) /\ linear' = [linear EXCEPT ![pass] = updates]
      BY <1>4 DEF RawRect
    <2>2. /\ at = "receive" /\ at' = "receive" /\ ~safe'
          /\ UNCHANGED <<mem, cached, front, back, configured, mapped, direct, frame, full>>
      BY <1>4 DEF RawRect, Receiving
    <2>3. /\ \A other \in Passes \ dirty' : image'[other] = frame'[other]
          /\ dirty' # {} /\ dirty \subseteq dirty'
      BY <2>1, <2>2 DEF Sent, Pictures
    <2>4. mapped => linear' = image'
      BY <2>1, <2>2 DEF Sent
    <2>5. cached \subseteq {back} \X dirty'
      BY <2>2, <2>3
    <2>6. QED
      BY <2>2, <2>3, <2>4, <2>5
  <1>5. CASE RawRefused
    BY <1>5 DEF RawRefused, Receiving
  <1>6. CASE ReceiveFails
    BY <1>6 DEF ReceiveFails, Receiving, Fault
  <1>7. CASE Refresh
    BY <1>7 DEF Refresh, Receiving, Fault
  <1>8. CASE SwitchMode
    BY <1>8 DEF SwitchMode, Fault
  <1>9. QED
    BY <1>1, <1>2, <1>3, <1>4, <1>5, <1>6, <1>7, <1>8

------------------------------------------------------------------------------
(* The invariant and what follows from it.                                      *)

LEMMA DisplayStarts == Init => DisplayInv
  <1> SUFFICES ASSUME Init PROVE DisplayInv
    OBVIOUS
  <1>1. TypeOK
    BY TypeInit
  <1>2. EngineInv
    BY DEF Init, EngineInv, Shown, NoDma
  <1>3. BuffersInv /\ FullInv /\ PicturesInv
    BY DEF Init, BuffersInv, FullInv, PicturesInv, Showing, Stopping
  <1>4. QED
    BY <1>1, <1>2, <1>3 DEF DisplayInv

LEMMA DisplayStep ==
  ASSUME DisplayInv, [Next]_vars
  PROVE  DisplayInv'
  <1> USE DEF DisplayInv
  <1>1. CASE Hsync \/ DmaEnds \/ Thread \/ Input
    BY <1>1, EngineTypes, EngineQuiet, BuffersQuiet
  <1>2. CASE Main
    BY <1>2, MainTypes, EngineMain, BuffersMain, FullMain, PicturesMain
  <1>3. CASE \/ Yield \/ Arrives \/ HextileRect \/ RawRect \/ RawRefused \/ ReceiveFails
             \/ Refresh \/ SwitchMode
    BY <1>3, UpdateTypes, EngineUpdate, BuffersUpdate, FullUpdate, PicturesUpdate
  <1>4. CASE UNCHANGED vars
    <2>1. TypeOK' /\ EngineInv'
      BY <1>4 DEF vars, engine, memory, stream, overlay, TypeOK, EngineInv, Shown
    <2>2. BuffersInv' /\ FullInv' /\ PicturesInv'
      BY <1>4
      DEF vars, memory, stream, BuffersInv, FullInv, PicturesInv, AgreesOutside, Bands
    <2>3. QED
      BY <2>1, <2>2
  <1>5. QED
    BY <1>1, <1>2, <1>3, <1>4 DEF Next

\* The strengthened invariant is one of every behaviour, for any number of passes,
\* of updates and of faults.
THEOREM DisplayInvariant == Spec => []DisplayInv
  <1>1. DisplayInv /\ [Next]_vars => DisplayInv'
    BY DisplayStep
  <1>2. QED
    BY DisplayStarts, <1>1, PTL DEF Spec

\* Every variable keeps its type, the transfer in flight and main's place included.
THEOREM DisplayTypeCorrect == Spec => []TypeOK
  <1>1. DisplayInv => TypeOK
    BY DEF DisplayInv
  <1>2. QED
    BY <1>1, DisplayInvariant, PTL

\* Neither a buffer nor the draw queue is written while the engine sends it.
THEOREM MemoryAlwaysOwned == Spec => []MemoryOwned
  <1>1. ASSUME DisplayInv PROVE MemoryOwned
    <2> USE <1>1 DEF DisplayInv
    <2>1. dma.of = "draw" => dma.from # draw_queue
      BY DEF EngineInv, TypeOK
    <2>2. Shown \in {front, None}
      BY DEF Shown
    <2>3. Shown \notin Writing
      <3>1. CASE configured
        <4>1. front \in Buffers /\ back \in Buffers /\ front # back
          BY <3>1 DEF BuffersInv, Buffers
        <4>2. ASSUME at = "receive", DirectWrite PROVE direct # front
          BY <4>1, <4>2 DEF BuffersInv, DirectWrite
        <4>3. ASSUME at = "commit" PROVE back # front /\ (~mapped => direct # front)
          BY <4>1, <4>3 DEF BuffersInv
        <4>4. QED
          BY <3>1, <4>1, <4>2, <4>3 DEF Shown, Writing
      <3>2. CASE ~configured
        BY <3>2, HiresDisplayAssumption DEF Shown, Writing, Buffers
      <3>3. QED
        BY <3>1, <3>2 DEF TypeOK
    <2>4. dma.of = "pass" => dma.from \in {front, back, None} \ Writing
      BY <2>2, <2>3 DEF EngineInv
    <2>5. \A pass \in Passes : pass_queue[pass] \notin Writing
      BY <2>3 DEF EngineInv
    <2>6. QED
      BY <2>1, <2>4, <2>5 DEF MemoryOwned
  <1>2. QED
    BY <1>1, DisplayInvariant, PTL

\* However an update came, what the engine shows is the server's desktop as of the
\* last complete one.
THEOREM FrameAlwaysServers == Spec => []FrameIsServers
  <1>1. DisplayInv => FrameIsServers
    BY DEF DisplayInv, FrameIsServers, TypeOK, Places, BuffersInv, EngineInv, Shown, PicturesInv
  <1>2. QED
    BY <1>1, DisplayInvariant, PTL

\* An update of a few pixels can always be made in either buffer.
THEOREM BuffersAlwaysAgree == Spec => []BuffersAgree
  <1>1. DisplayInv => BuffersAgree
    BY DEF DisplayInv, BuffersAgree, PicturesInv
  <1>2. QED
    BY <1>1, DisplayInvariant, PTL

------------------------------------------------------------------------------
(* Least and greatest elements, and induction over the naturals.                *)

\* Every nonempty set of naturals has a least element.
LEMMA LeastOf ==
  ASSUME NEW T \in SUBSET Nat, T # {}
  PROVE  \E m \in T : \A k \in T : m <= k
  <1> DEFINE W == {0 .. m : m \in T}
  <1>1. IsWellFoundedOn(StrictSubsetOrdering(Nat), FiniteSubsetsOf(Nat))
    BY FS_StrictSubsetOrderingWellFounded
  <1>2. W \subseteq FiniteSubsetsOf(Nat) /\ W # {}
    <2>1. \A m \in T : IsFiniteSet(0 .. m)
      BY FS_Interval
    <2>2. \A m \in T : 0 .. m \in FiniteSubsetsOf(Nat)
      BY <2>1 DEF FiniteSubsetsOf
    <2>3. QED
      BY <2>2
  <1>3. \E x \in W : \A y \in W : ~(<<y, x>> \in StrictSubsetOrdering(Nat))
    <2> HIDE DEF W
    <2> QED BY <1>1, <1>2, WFMin
  <1>4. PICK m \in T : \A k \in T : ~(<<0 .. k, 0 .. m>> \in StrictSubsetOrdering(Nat))
    BY <1>3
  <1>5. ASSUME NEW k \in T, k < m PROVE FALSE
    <2>1. m \in 0 .. m /\ m \notin 0 .. k /\ 0 .. k \subseteq 0 .. m
      BY <1>5
    <2>2. <<0 .. k, 0 .. m>> \in StrictSubsetOrdering(Nat)
      BY <2>1 DEF StrictSubsetOrdering
    <2>3. QED
      BY <1>4, <2>2
  <1>6. QED
    BY <1>5

\* What holds of zero and, with a number, of the next, holds of every number.
LEMMA SetInduction ==
  ASSUME NEW T \in SUBSET Nat, 0 \in T, \A n \in T : n + 1 \in T
  PROVE  T = Nat
  <1> SUFFICES ASSUME T # Nat PROVE FALSE
    OBVIOUS
  <1>1. PICK m \in Nat \ T : \A k \in Nat \ T : m <= k
    BY LeastOf
  <1>2. m # 0 /\ m - 1 \in Nat /\ m - 1 \in T
    BY <1>1
  <1>3. QED
    BY <1>1, <1>2

\* A bounded set has a greatest element.
LEMMA GreatestOf ==
  ASSUME NEW n \in Nat, NEW T \in SUBSET (0 .. n), T # {}
  PROVE  \E m \in T : \A k \in T : k <= m
  <1> DEFINE below == {n - k : k \in T}
  <1>1. below \in SUBSET Nat /\ below # {}
    <2>1. \A k \in T : n - k \in Nat
      OBVIOUS
    <2>2. QED
      BY <2>1
  <1>2. PICK b \in below : \A c \in below : b <= c
    <2> HIDE DEF below
    <2> QED BY <1>1, LeastOf
  <1>3. PICK m \in T : b = n - m
    OBVIOUS
  <1>4. \A k \in T : k <= m
    <2> SUFFICES ASSUME NEW k \in T PROVE k <= m
      OBVIOUS
    <2>1. n - k \in below
      OBVIOUS
    <2>2. n - m <= n - k
      BY <1>2, <1>3, <2>1
    <2> QED BY <2>2
  <1>5. QED
    BY <1>4

------------------------------------------------------------------------------
(* Division: a quotient and its rounding up, by what they are compared to.      *)

\* Products keep the order of a factor.
LEMMA Product ==
  ASSUME NEW b \in Nat, NEW x \in Int, NEW y \in Int, x <= y
  PROVE  x * b <= y * b
  OBVIOUS

\* The quotient, by the two multiples a number lies between.
LEMMA Quotient ==
  ASSUME NEW a \in Nat, NEW b \in Nat \ {0}
  PROVE  /\ a \div b \in Nat
         /\ (a \div b) * b <= a
         /\ a < (a \div b) * b + b
  OBVIOUS

\* A quotient against any number, and a quotient rounded up.
LEMMA Floor ==
  ASSUME NEW a \in Nat, NEW b \in Nat \ {0}, NEW k \in Nat
  PROVE  /\ k <= a \div b <=> k * b <= a
         /\ a \div b <= k <=> a < k * b + b
  <1> DEFINE q == a \div b
  <1>1. q \in Nat /\ q * b <= a /\ a < q * b + b
    BY Quotient
  <1> HIDE DEF q
  <1>2. k * b \in Nat /\ q * b \in Nat
    BY <1>1
  <1>3. ASSUME k <= q PROVE k * b <= a
    <2>1. k * b <= q * b
      BY <1>1, <1>3, Product
    <2>2. QED BY <1>1, <1>2, <2>1
  <1>4. ASSUME q < k PROVE q * b + b <= k * b
    <2>1. (q + 1) * b <= k * b
      BY <1>1, <1>4, Product
    <2>2. (q + 1) * b = q * b + b
      BY <1>1
    <2>3. QED BY <2>1, <2>2
  <1>5. ASSUME q <= k PROVE a < k * b + b
    <2>1. q * b <= k * b
      BY <1>1, <1>5, Product
    <2>2. QED BY <1>1, <1>2, <2>1
  <1>6. ASSUME k < q PROVE k * b + b <= q * b
    <2>1. (k + 1) * b <= q * b
      BY <1>1, <1>6, Product
    <2>2. (k + 1) * b = k * b + b
      OBVIOUS
    <2>3. QED BY <2>1, <2>2
  <1>7. k <= q <=> k * b <= a
    BY <1>1, <1>2, <1>3, <1>4
  <1>8. q <= k <=> a < k * b + b
    BY <1>1, <1>2, <1>5, <1>6
  <1>9. QED
    BY <1>7, <1>8 DEF q

LEMMA Ceiling ==
  ASSUME NEW a \in Nat, NEW b \in Nat \ {0}, NEW k \in Nat
  PROVE  /\ Ceil(a, b) \in Nat
         /\ Ceil(a, b) <= k <=> a <= k * b
         /\ k < Ceil(a, b) <=> k * b < a
  <1>1. a + b - 1 \in Nat /\ k * b \in Nat
    OBVIOUS
  <1>2. Ceil(a, b) \in Nat
    BY <1>1, Quotient DEF Ceil
  <1>3. Ceil(a, b) <= k <=> a + b - 1 < k * b + b
    BY <1>1, Floor DEF Ceil
  <1>4. QED
    BY <1>1, <1>2, <1>3

------------------------------------------------------------------------------
(* The mapping (PixelMapping).                                                  *)

\* The calibrated rectangle lands inside the storage, whatever the scale.
LEMMA PlacedFits ==
  ASSUME NEW n \in Nat
  PROVE  PlacementFits(n)
  <1> SUFFICES ASSUME NEW storage \in 1 .. n, NEW output \in 1 .. n,
                      NEW offset \in 0 .. output - 1, NEW size \in 1 .. output - offset
               PROVE  LET place == Placed(offset, size, storage, output)
                      IN  /\ 0 <= place.lo /\ place.lo < place.hi /\ place.hi <= storage
                          /\ storage = output => place = [lo |-> offset, hi |-> offset + size]
    BY DEF PlacementFits
  <1> DEFINE lo == (offset * storage) \div output
             end == Ceil((offset + size) * storage, output)
  <1>1. /\ offset * storage \in Nat /\ (offset + size) * storage \in Nat
        /\ offset \in Nat /\ offset + size \in Nat
        /\ storage \in Nat /\ output \in Nat \ {0}
    OBVIOUS
  <1>2. lo \in Nat /\ lo * output <= offset * storage
    BY <1>1, Quotient
  <1>3. end \in Nat /\ (lo < end <=> lo * output < (offset + size) * storage)
    BY <1>1, <1>2, Ceiling
  <1>4. offset * storage < (offset + size) * storage
    <2>1. (offset + 1) * storage <= (offset + size) * storage
      BY <1>1, Product
    <2>2. (offset + 1) * storage = offset * storage + storage
      BY <1>1
    <2>3. QED
      BY <1>1, <2>1, <2>2
  <1>5. lo < end
    <2>1. lo * output \in Nat
      BY <1>1, <1>2
    <2>2. QED
      BY <1>1, <1>2, <1>3, <1>4, <2>1
  <1>6. lo < storage
    <2>1. storage <= lo <=> storage * output <= offset * storage
      BY <1>1, Floor
    <2>2. (offset + 1) * storage <= output * storage
      BY <1>1, Product
    <2>3. (offset + 1) * storage = offset * storage + storage /\ output * storage = storage * output
      BY <1>1
    <2>4. storage * output \in Nat
      BY <1>1
    <2>5. QED
      BY <1>1, <1>2, <2>1, <2>2, <2>3, <2>4
  <1>7. storage = output => lo = offset /\ end = offset + size
    <2> SUFFICES ASSUME storage = output PROVE lo = offset /\ end = offset + size
      OBVIOUS
    <2>1. offset <= lo /\ lo <= offset
      <3>1. offset * output <= offset * storage /\ offset * storage < offset * output + output
        BY <1>1
      <3>2. QED
        BY <1>1, <3>1, Floor
    <2>2. end <= offset + size
      BY <1>1, Ceiling
    <2>3. offset + size <= end
      <3>1. offset + size - 1 \in Nat
        BY <1>1
      <3>2. (offset + size - 1) * output < (offset + size) * storage
        <4>1. (offset + size - 1) * output = (offset + size) * storage - output
          BY <1>1
        <4>2. QED
          BY <1>1, <4>1
      <3>3. offset + size - 1 < end
        BY <1>1, <3>1, <3>2, Ceiling
      <3>4. QED
        BY <1>1, <1>3, <3>3
    <2>4. QED
      BY <1>1, <1>2, <1>3, <2>1, <2>2, <2>3
  <1>8. Placed(offset, size, storage, output) = [lo |-> lo, hi |-> Least(storage, end)]
    BY DEF Placed
  <1> HIDE DEF lo, end
  <1>9. QED
    BY <1>1, <1>2, <1>3, <1>5, <1>6, <1>7, <1>8 DEF Least

\* An even row goes to the first half and an odd one to the second, and back.
LEMMA RowsApart ==
  ASSUME NEW n \in Nat
  PROVE  RowsKeptApart(n)
  <1> SUFFICES ASSUME NEW half \in 1 .. n, NEW separated \in BOOLEAN
               PROVE  LET height == 2 * half
                          stored == [row \in 0 .. height - 1 |-> StorageRow(row, height, separated)]
                      IN  /\ {stored[row] : row \in DOMAIN stored} = DOMAIN stored
                          /\ separated => \A row \in DOMAIN stored :
                                            (stored[row] < half) = (row % 2 = 0)
    BY DEF RowsKeptApart
  <1> DEFINE height == 2 * half
             stored == [row \in 0 .. height - 1 |-> StorageRow(row, height, separated)]
  <1>1. CASE separated
    <2>1. height \div 2 = half
      OBVIOUS
    <2>2. \A row \in 0 .. height - 1 :
            stored[row] = IF row % 2 = 1 THEN row \div 2 + half ELSE row \div 2
      BY <1>1, <2>1 DEF StorageRow
    <2>3. \A row \in 0 .. height - 1 :
            /\ row % 2 \in {0, 1}
            /\ row \div 2 \in 0 .. half - 1
            /\ row % 2 = 0 => stored[row] = row \div 2
            /\ row % 2 = 1 => stored[row] = row \div 2 + half
      <3> HIDE DEF stored
      <3> SUFFICES ASSUME NEW row \in 0 .. height - 1
                   PROVE  /\ row % 2 \in {0, 1}
                          /\ row \div 2 \in 0 .. half - 1
                          /\ row % 2 = 0 => stored[row] = row \div 2
                          /\ row % 2 = 1 => stored[row] = row \div 2 + half
        OBVIOUS
      <3>1. row % 2 \in {0, 1} /\ row \div 2 \in 0 .. half - 1
        OBVIOUS
      <3>2. stored[row] = IF row % 2 = 1 THEN row \div 2 + half ELSE row \div 2
        BY <2>2
      <3>3. CASE row % 2 = 0
        BY <3>1, <3>2, <3>3
      <3>4. CASE row % 2 = 1
        BY <3>1, <3>2, <3>4
      <3>5. QED
        BY <3>1, <3>3, <3>4
    <2> HIDE DEF stored
    <2>4. \A place \in 0 .. height - 1 : \E row \in 0 .. height - 1 : stored[row] = place
      <3> SUFFICES ASSUME NEW place \in 0 .. height - 1
                   PROVE  \E row \in 0 .. height - 1 : stored[row] = place
        OBVIOUS
      <3>1. CASE place < half
        <4>1. 2 * place \in 0 .. height - 1 /\ (2 * place) % 2 = 0 /\ (2 * place) \div 2 = place
          BY <3>1
        <4>2. QED
          BY <2>3, <4>1
      <3>2. CASE place >= half
        <4>1. PICK row \in 0 .. height - 1 : row % 2 = 1 /\ row \div 2 = place - half
          <5>1. 2 * (place - half) + 1 \in 0 .. height - 1
            BY <3>2
          <5>2. (2 * (place - half) + 1) % 2 = 1 /\ (2 * (place - half) + 1) \div 2 = place - half
            BY <3>2
          <5>3. QED
            BY <5>1, <5>2
        <4>2. stored[row] = place
          BY <2>3, <4>1
        <4>3. QED
          BY <4>2
      <3>3. QED
        BY <3>1, <3>2
    <2>5. \A row \in 0 .. height - 1 :
            stored[row] \in 0 .. height - 1 /\ (stored[row] < half <=> row % 2 = 0)
      <3> SUFFICES ASSUME NEW row \in 0 .. height - 1
                   PROVE  stored[row] \in 0 .. height - 1 /\ (stored[row] < half <=> row % 2 = 0)
        OBVIOUS
      <3>1. CASE row % 2 = 0
        BY <2>3, <3>1
      <3>2. CASE row % 2 = 1
        <4> DEFINE d == row \div 2
        <4>1. d \in 0 .. half - 1 /\ stored[row] = d + half
          BY <2>3, <3>2
        <4> HIDE DEF d
        <4>2. QED
          BY <3>2, <4>1
      <3>3. QED
        BY <2>3, <3>1, <3>2
    <2>6. DOMAIN stored = 0 .. height - 1
      BY DEF stored
    <2>7. {stored[row] : row \in DOMAIN stored} = DOMAIN stored
      BY <2>4, <2>5, <2>6
    <2>8. QED
      BY <2>5, <2>6, <2>7 DEF stored
  <1>2. CASE ~separated
    BY <1>2 DEF StorageRow
  <1>3. QED
    BY <1>1, <1>2

\* Walking by edges and sampling are two sides of one order.
LEMMA EdgeSample ==
  ASSUME NEW i \in Nat, NEW source \in Nat \ {0}, NEW target \in Nat \ {0},
         NEW y \in 0 .. target - 1
  PROVE  Edge(i, source, target) <= y <=> i <= Sample(y, source, target)
  <1>1. i * target \in Nat /\ y * source \in Nat /\ y \in Nat
    OBVIOUS
  <1>2. Ceil(i * target, source) \in Nat
        /\ (Ceil(i * target, source) <= y <=> i * target <= y * source)
    BY <1>1, Ceiling
  <1>3. i <= Sample(y, source, target) <=> i * target <= y * source
    BY <1>1, Floor DEF Sample
  <1>4. QED
    BY <1>1, <1>2, <1>3 DEF Edge, Least

\* A span walked by its edges is the span whose samples it holds.
LEMMA EdgeSpan ==
  ASSUME NEW lo \in Nat, NEW hi \in Nat, NEW source \in Nat \ {0}, NEW target \in Nat \ {0},
         NEW y \in Int
  PROVE  y \in Span(Edge(lo, source, target), Edge(hi, source, target))
           <=> y \in 0 .. target - 1 /\ Sample(y, source, target) \in Span(lo, hi)
  <1>1. \A i \in Nat : Edge(i, source, target) \in 0 .. target
    <2> SUFFICES ASSUME NEW i \in Nat PROVE Edge(i, source, target) \in 0 .. target
      OBVIOUS
    <2>1. i * target \in Nat
      OBVIOUS
    <2>2. Ceil(i * target, source) \in Nat
      BY <2>1, Ceiling
    <2>3. QED
      BY <2>2 DEF Edge, Least
  <1>2. CASE y \in 0 .. target - 1
    <2>1. y * source \in Nat
      BY <1>2
    <2>2. Sample(y, source, target) \in Nat
      BY <2>1, Quotient DEF Sample
    <2>3. /\ Edge(lo, source, target) <= y <=> lo <= Sample(y, source, target)
          /\ Edge(hi, source, target) <= y <=> hi <= Sample(y, source, target)
      BY <1>2, EdgeSample
    <2>4. QED
      BY <1>1, <1>2, <2>2, <2>3 DEF Span
  <1>3. CASE y \notin 0 .. target - 1
    BY <1>1, <1>3 DEF Span
  <1>4. QED
    BY <1>2, <1>3

\* The span of a touched row has ends.
LEMMA HullType ==
  ASSUME NEW n \in Nat, NEW size \in Sizes(n), NEW rects \in SUBSET RectsIn(size),
         NEW row \in Rows(rects)
  PROVE  Hull(rects, row).lo \in Nat /\ Hull(rects, row).hi \in Nat
  <1> DEFINE touching == {r \in rects : row \in Span(r.y, r.y + r.h)}
             left == {r.x : r \in touching}
             right == {r.x + r.w : r \in touching}
  <1>1. touching # {} /\ touching \subseteq RectsIn(size)
    BY DEF Rows
  <1>2. left \in SUBSET Nat /\ left # {}
    BY <1>1 DEF RectsIn
  <1>3. right \in SUBSET (0 .. size.w) /\ right # {} /\ size.w \in Nat
    BY <1>1 DEF RectsIn, Sizes
  <1>4. /\ \E x \in left : \A l \in left : x <= l
        /\ \E x \in right : \A r \in right : r <= x
    <2> HIDE DEF left, right
    <2> QED BY <1>2, <1>3, LeastOf, GreatestOf
  <1> DEFINE lo == CHOOSE x \in left : \A l \in left : x <= l
             hi == CHOOSE x \in right : \A r \in right : r <= x
  <1>5. Hull(rects, row) = [lo |-> lo, hi |-> hi]
    BY DEF Hull
  <1> HIDE DEF left, right
  <1>6. lo \in left /\ hi \in right
    BY <1>4
  <1> HIDE DEF lo, hi
  <1>7. QED
    BY <1>2, <1>3, <1>5, <1>6

\* Whatever rectangles are dirty, and whatever the two scales are.
LEMMA UpdateIsRebuild ==
  ASSUME NEW n \in Nat, NEW size \in Sizes(n), NEW target \in Sizes(n),
         NEW rects \in SUBSET RectsIn(size), rects # {}
  PROVE  Updated(rects, size, target) = Resampled(rects, size, target)
  <1> DEFINE rows == Rows(rects)
             top == CHOOSE y \in rows : \A o \in rows : y <= o
             bottom == CHOOSE y \in rows : \A o \in rows : o <= y
             walked == Span(Edge(top, size.h, target.h), Edge(bottom + 1, size.h, target.h))
             down(y) == Sample(y, size.h, target.h)
             columns(y) == DirtyColumns(Hull(rects, down(y)), size.w, target.w)
  <1>1. /\ size.w \in Nat \ {0} /\ size.h \in Nat \ {0}
        /\ target.w \in Nat \ {0} /\ target.h \in Nat \ {0}
    BY DEF Sizes
  <1>2. rows \in SUBSET (0 .. size.h) /\ rows # {}
    <2>1. PICK r \in rects : TRUE
      OBVIOUS
    <2>2. r.y \in rows
      BY <2>1 DEF Rows, RectsIn, Span, Sizes
    <2>3. QED
      BY <2>2 DEF Rows, RectsIn, Span, Sizes
  <1>3. /\ top \in rows /\ \A o \in rows : top <= o
        /\ bottom \in rows /\ \A o \in rows : o <= bottom
    <2> HIDE DEF rows
    <2>1. rows \in SUBSET Nat
      BY <1>1, <1>2
    <2>2. /\ \E y \in rows : \A o \in rows : y <= o
          /\ \E y \in rows : \A o \in rows : o <= y
      BY <1>1, <1>2, <2>1, LeastOf, GreatestOf
    <2>3. QED
      BY <2>2
  <1> HIDE DEF top, bottom
  <1>4. ASSUME NEW y \in Int
        PROVE  y \in walked /\ down(y) \in rows <=> y \in 0 .. target.h - 1 /\ down(y) \in rows
    <2>1. top \in Nat /\ bottom \in Nat /\ bottom + 1 \in Nat
      BY <1>1, <1>2, <1>3
    <2>2. y \in walked <=> y \in 0 .. target.h - 1 /\ down(y) \in Span(top, bottom + 1)
      BY <1>1, <2>1, EdgeSpan
    <2>3. down(y) \in rows => down(y) \in Span(top, bottom + 1)
      <3> HIDE DEF rows, down
      <3>1. \A o \in rows : o \in Nat /\ top <= o /\ o <= bottom
        BY <1>1, <1>2, <1>3
      <3>2. QED
        BY <2>1, <3>1 DEF Span
    <2>4. QED
      BY <2>2, <2>3
  <1>5. ASSUME NEW y \in 0 .. target.h - 1, down(y) \in rows, NEW x \in Int
        PROVE  x \in columns(y) <=>
                 /\ x \in 0 .. target.w - 1
                 /\ LET span == Hull(rects, down(y))
                    IN  Sample(x, size.w, target.w) \in Span(span.lo, span.hi)
    <2>1. Hull(rects, down(y)).lo \in Nat /\ Hull(rects, down(y)).hi \in Nat
      BY <1>5, HullType
    <2>2. QED
      BY <1>1, <2>1, EdgeSpan DEF DirtyColumns
  <1> DEFINE resampled == {row \in walked : down(row) \in rows}
  <1>6. resampled = {y \in 0 .. target.h - 1 : down(y) \in rows}
    <2>1. walked \subseteq Int
      BY DEF Span
    <2>2. 0 .. target.h - 1 \subseteq Int
      BY <1>1
    <2> HIDE DEF walked, rows, down
    <2>3. QED
      BY <1>4, <2>1, <2>2, Zenon
  <1>7. \A y : columns(y) \subseteq Int
    BY DEF DirtyColumns, Span
  <1>8. Updated(rects, size, target) = UNION {{<<x, y>> : x \in columns(y)} : y \in resampled}
    BY DEF Updated, top, bottom
  <1>9. ASSUME NEW p PROVE p \in Updated(rects, size, target) <=> p \in Resampled(rects, size, target)
    <2>1. p \in Updated(rects, size, target)
            <=> \E y \in resampled : \E x \in columns(y) : p = <<x, y>>
      <3> HIDE DEF resampled, columns
      <3> QED BY <1>8
    <2> DEFINE sampled(x, y) == LET span == Hull(rects, down(y))
                                IN  Sample(x, size.w, target.w) \in Span(span.lo, span.hi)
    <2>2. p \in Resampled(rects, size, target)
            <=> \E y \in resampled : \E x \in 0 .. target.w - 1 : p = <<x, y>> /\ sampled(x, y)
      <3>1. Resampled(rects, size, target) =
              {pixel \in (0 .. target.w - 1) \X (0 .. target.h - 1) :
                 down(pixel[2]) \in rows /\ sampled(pixel[1], pixel[2])}
        BY DEF Resampled
      <3> HIDE DEF down, rows, sampled, resampled
      <3>2. ASSUME NEW y \in resampled, NEW x \in 0 .. target.w - 1, p = <<x, y>>, sampled(x, y)
            PROVE  p \in Resampled(rects, size, target)
        <4>1. y \in 0 .. target.h - 1 /\ down(y) \in rows
          BY <1>6
        <4>2. p \in (0 .. target.w - 1) \X (0 .. target.h - 1) /\ p[1] = x /\ p[2] = y
          BY <3>2, <4>1
        <4>3. QED
          BY <3>1, <3>2, <4>1, <4>2
      <3>3. ASSUME p \in Resampled(rects, size, target)
            PROVE  \E y \in resampled : \E x \in 0 .. target.w - 1 : p = <<x, y>> /\ sampled(x, y)
        <4>1. /\ p \in (0 .. target.w - 1) \X (0 .. target.h - 1)
              /\ down(p[2]) \in rows /\ sampled(p[1], p[2])
          BY <3>1, <3>3
        <4>2. p = <<p[1], p[2]>> /\ p[1] \in 0 .. target.w - 1 /\ p[2] \in 0 .. target.h - 1
          BY <4>1
        <4>3. p[2] \in resampled
          BY <1>6, <4>1, <4>2
        <4>4. QED
          BY <4>1, <4>2, <4>3
      <3>4. QED
        BY <3>2, <3>3
    <2>3. ASSUME NEW y \in resampled, NEW x
          PROVE  x \in columns(y) <=> x \in 0 .. target.w - 1 /\ sampled(x, y)
      <3>1. y \in 0 .. target.h - 1 /\ down(y) \in rows
        <4> HIDE DEF resampled
        <4> QED BY <1>6
      <3>2. x \in columns(y) \/ x \in 0 .. target.w - 1 => x \in Int
        <4> HIDE DEF columns
        <4> QED BY <1>1, <1>7
      <3>3. QED
        BY <1>5, <3>1, <3>2
    <2> HIDE DEF resampled, columns, sampled
    <2>4. QED
      BY <2>1, <2>2, <2>3
  <1>10. QED
    BY <1>9

LEMMA DeltasAreRebuilds ==
  ASSUME NEW n \in Nat
  PROVE  DeltaIsRebuild(n)
  <1> SUFFICES ASSUME NEW size \in Sizes(n), NEW target \in Sizes(n),
                      NEW one \in RectsIn(size), NEW other \in RectsIn(size)
               PROVE  Updated({one, other}, size, target) = Resampled({one, other}, size, target)
    BY DEF DeltaIsRebuild
  <1>1. {one, other} \in SUBSET RectsIn(size) /\ {one, other} # {}
    OBVIOUS
  <1>2. QED
    BY <1>1, UpdateIsRebuild

------------------------------------------------------------------------------
(* Hextile: the colours a tile is painted with, and where it lies.              *)

\* The colour in force, one tile after the other: tile j is the last that names one.
LastOne(specified, i, j) ==
  /\ specified[j] # NoColour
  /\ \A k \in j + 1 .. i : specified[k] = NoColour

\* The last tile that specified a colour is the one the reference looks for.
LEMMA LastSpecified ==
  ASSUME NEW specified, NEW i \in Nat,
         \E j \in 1 .. i : specified[j] # NoColour
  PROVE  \E j \in 1 .. i : /\ specified[j] # NoColour
                           /\ \A k \in j + 1 .. i : specified[k] = NoColour
  <1> DEFINE T == {j \in 1 .. i : specified[j] # NoColour}
  <1>1. T \in SUBSET (0 .. i) /\ T # {}
    OBVIOUS
  <1>2. PICK m \in T : \A k \in T : k <= m
    <2> HIDE DEF T
    <2> QED BY <1>1, GreatestOf
  <1>3. \A k \in m + 1 .. i : specified[k] = NoColour
    BY <1>2
  <1>4. QED
    BY <1>2, <1>3

LEMMA InForceOfLast ==
  ASSUME NEW specified, NEW broken, NEW i \in Nat, NEW j \in 1 .. i, LastOne(specified, i, j)
  PROVE  InForce(specified, broken, i) =
           IF \A k \in j .. i - 1 : ~broken[k] THEN specified[j] ELSE NoColour
  <1>1. (CHOOSE l \in 1 .. i : /\ specified[l] # NoColour
                               /\ \A k \in l + 1 .. i : specified[k] = NoColour) = j
    BY DEF LastOne
  <1>2. (\E l \in 1 .. i : specified[l] # NoColour /\ \A k \in l .. i - 1 : ~broken[k])
          <=> \A k \in j .. i - 1 : ~broken[k]
    <2>1. ASSUME NEW l \in 1 .. i, specified[l] # NoColour PROVE l <= j
      BY <2>1 DEF LastOne
    <2>2. QED
      BY <2>1 DEF LastOne
  <1>3. CASE \A k \in j .. i - 1 : ~broken[k]
    <2>1. InForce(specified, broken, i) =
            specified[CHOOSE l \in 1 .. i : /\ specified[l] # NoColour
                                            /\ \A k \in l + 1 .. i : specified[k] = NoColour]
      BY <1>2, <1>3, Zenon DEF InForce
    <2>2. QED
      BY <1>1, <1>3, <2>1, Zenon
  <1>4. CASE ~\A k \in j .. i - 1 : ~broken[k]
    BY <1>2, <1>4, Zenon DEF InForce
  <1>5. QED
    BY <1>3, <1>4

\* A colour left out is the one before it, unless its tile broke the carry.
LEMMA InForceNext ==
  ASSUME NEW specified, NEW broken, NEW i \in Nat
  PROVE  InForce(specified, broken, i + 1) =
           IF specified[i + 1] # NoColour THEN specified[i + 1]
           ELSE IF i = 0 \/ broken[i] THEN NoColour
           ELSE InForce(specified, broken, i)
  <1>1. CASE specified[i + 1] # NoColour
    <2>1. LastOne(specified, i + 1, i + 1)
      BY <1>1 DEF LastOne
    <2>2. QED
      BY <1>1, <2>1, InForceOfLast
  <1>2. CASE specified[i + 1] = NoColour /\ \A j \in 1 .. i : specified[j] = NoColour
    BY <1>2 DEF InForce
  <1>3. CASE specified[i + 1] = NoColour /\ \E j \in 1 .. i : specified[j] # NoColour
    <2>1. PICK j \in 1 .. i : LastOne(specified, i, j)
      BY <1>3, LastSpecified DEF LastOne
    <2>2. j \in 1 .. i + 1 /\ LastOne(specified, i + 1, j)
      BY <1>3, <2>1 DEF LastOne
    <2>3. InForce(specified, broken, i + 1) =
            IF \A k \in j .. i : ~broken[k] THEN specified[j] ELSE NoColour
      BY <2>2, InForceOfLast
    <2>4. InForce(specified, broken, i) =
            IF \A k \in j .. i - 1 : ~broken[k] THEN specified[j] ELSE NoColour
      BY <2>1, InForceOfLast
    <2>5. (\A k \in j .. i : ~broken[k]) <=> ~broken[i] /\ \A k \in j .. i - 1 : ~broken[k]
      OBVIOUS
    <2>6. QED
      BY <1>3, <2>3, <2>4, <2>5
  <1>4. QED
    BY <1>1, <1>2, <1>3

\* The loop of hextile_recv_rect, tile by tile.
Run(tiles, m, f) ==
  f = [n \in 0 .. m |-> IF n = 0 THEN Begin ELSE DecodeTile(f[n - 1], tiles[n])]

LEMMA RunExists ==
  ASSUME NEW tiles, NEW m \in Nat
  PROVE  \E f : Run(tiles, m, f)
  <1> DEFINE T == {k \in Nat : \E f : Run(tiles, k, f)}
  <1>1. 0 \in T
    <2>1. Run(tiles, 0, [n \in 0 .. 0 |-> Begin])
      BY DEF Run
    <2>2. QED
      BY <2>1
  <1>2. ASSUME NEW k \in T PROVE k + 1 \in T
    <2>1. PICK f : Run(tiles, k, f)
      OBVIOUS
    <2> DEFINE g == [n \in 0 .. k + 1 |-> IF n <= k THEN f[n] ELSE DecodeTile(f[k], tiles[k + 1])]
    <2>2. \A n \in 0 .. k + 1 :
            g[n] = IF n = 0 THEN Begin ELSE DecodeTile(g[n - 1], tiles[n])
      <3> SUFFICES ASSUME NEW n \in 0 .. k + 1
                   PROVE g[n] = IF n = 0 THEN Begin ELSE DecodeTile(g[n - 1], tiles[n])
        OBVIOUS
      <3>0. f = [l \in 0 .. k |-> IF l = 0 THEN Begin ELSE DecodeTile(f[l - 1], tiles[l])]
        BY <2>1 DEF Run
      <3>1. CASE n = 0
        BY <3>0, <3>1
      <3>2. CASE n \in 1 .. k
        <4>1. g[n] = f[n] /\ g[n - 1] = f[n - 1]
          BY <3>2
        <4>2. f[n] = DecodeTile(f[n - 1], tiles[n])
          BY <3>0, <3>2
        <4>3. QED
          BY <3>2, <4>1, <4>2
      <3>3. CASE n = k + 1
        <4>1. g[n] = DecodeTile(f[k], tiles[k + 1]) /\ g[n - 1] = f[k]
          BY <3>3
        <4>2. QED
          BY <3>3, <4>1
      <3>4. QED
        BY <3>1, <3>2, <3>3
    <2>3. g = [n \in 0 .. k + 1 |-> IF n = 0 THEN Begin ELSE DecodeTile(g[n - 1], tiles[n])]
      BY <2>2
    <2>4. Run(tiles, k + 1, g)
      BY <2>3 DEF Run
    <2>5. QED
      BY <2>4
  <1>3. T = Nat
    <2>1. T \in SUBSET Nat
      OBVIOUS
    <2> HIDE DEF T
    <2> QED BY <1>1, <1>2, <2>1, SetInduction
  <1>4. QED
    BY <1>3

LEMMA DecodeRuns ==
  ASSUME NEW tiles, Len(tiles) \in Nat
  PROVE  \E after : /\ DecodeRect(tiles) = after[Len(tiles)]
                    /\ after[0] = Begin
                    /\ \A n \in 1 .. Len(tiles) :
                         after[n] = DecodeTile(after[n - 1], tiles[n])
  <1> DEFINE after == CHOOSE f : Run(tiles, Len(tiles), f)
  <1>1. DecodeRect(tiles) = after[Len(tiles)]
    BY DEF DecodeRect, Run
  <1>2. Run(tiles, Len(tiles), after)
    BY RunExists
  <1> HIDE DEF after
  <1>3. after = [n \in 0 .. Len(tiles) |->
                   IF n = 0 THEN Begin ELSE DecodeTile(after[n - 1], tiles[n])]
    BY <1>2 DEF Run
  <1>4. after[0] = Begin
    BY <1>3
  <1>5. \A n \in 1 .. Len(tiles) : after[n] = DecodeTile(after[n - 1], tiles[n])
    BY <1>3
  <1>6. QED
    BY <1>1, <1>4, <1>5

LEMMA AppendToPrefix ==
  ASSUME NEW n \in Nat, NEW f
  PROVE  Append([i \in 1 .. n |-> f[i]], f[n + 1]) = [i \in 1 .. n + 1 |-> f[i]]
  <1> DEFINE all == {f[i] : i \in 1 .. n + 1}
             s == [i \in 1 .. n |-> f[i]]
  <1>1. s \in Seq(all) /\ Len(s) = n
    OBVIOUS
  <1>2. f[n + 1] \in all
    OBVIOUS
  <1> DEFINE t == Append(s, f[n + 1])
  <1>3. t \in Seq(all) /\ Len(t) = n + 1 /\ \A i \in 1 .. n + 1 : t[i] = f[i]
    BY <1>1, <1>2
  <1>4. QED
    BY <1>3

\* One tile of a legal stream, and what the loop carries past tile n.
TileLegal(tiles, i) ==
  LET tile == tiles[i]
  IN  ~tile.raw =>
        /\ Background(tiles, i) # NoColour
        /\ ~(tile.fg # NoColour /\ tile.colored)
        /\ tile.any /\ ~tile.colored => Foreground(tiles, i) # NoColour

CarriedBg(tiles, n) ==
  IF n = 0 \/ tiles[n].raw THEN NoColour ELSE Background(tiles, n)
CarriedFg(tiles, n) ==
  IF n = 0 \/ tiles[n].raw \/ tiles[n].colored THEN NoColour ELSE Foreground(tiles, n)

Decoded(tiles, n) ==
  [bg |-> CarriedBg(tiles, n), fg |-> CarriedFg(tiles, n), ok |-> TRUE,
   painted |-> [i \in 1 .. n |-> Painted(tiles, i)]]

\* The loop's invariant.
DecodedSoFar(tiles, n, state) ==
  IF \A i \in 1 .. n : TileLegal(tiles, i)
  THEN state = Decoded(tiles, n)
  ELSE state.ok = FALSE

LEMMA ColoursInForce ==
  ASSUME NEW colours, NEW length \in Nat, NEW tiles \in [1 .. length -> Tiles(colours)],
         NEW n \in 0 .. length - 1
  PROVE  /\ Background(tiles, n + 1) = Chosen(tiles[n + 1].bg, CarriedBg(tiles, n))
         /\ Foreground(tiles, n + 1) = Chosen(tiles[n + 1].fg, CarriedFg(tiles, n))
  <1> DEFINE bg == [j \in DOMAIN tiles |-> tiles[j].bg]
             fg == [j \in DOMAIN tiles |-> tiles[j].fg]
             raw == [j \in DOMAIN tiles |-> tiles[j].raw]
             cut == [j \in DOMAIN tiles |-> tiles[j].raw \/ tiles[j].colored]
  <1>0. n \in Nat
    OBVIOUS
  <1>1. /\ bg[n + 1] = tiles[n + 1].bg /\ fg[n + 1] = tiles[n + 1].fg
        /\ n # 0 => raw[n] = tiles[n].raw /\ cut[n] = (tiles[n].raw \/ tiles[n].colored)
    OBVIOUS
  <1>2. /\ \A i : Background(tiles, i) = InForce(bg, raw, i)
        /\ \A i : Foreground(tiles, i) = InForce(fg, cut, i)
    BY DEF Background, Foreground
  <1> HIDE DEF bg, fg, raw, cut
  <1>3. Background(tiles, n + 1) = Chosen(tiles[n + 1].bg, CarriedBg(tiles, n))
    <2>1. InForce(bg, raw, n + 1) =
            IF bg[n + 1] # NoColour THEN bg[n + 1]
            ELSE IF n = 0 \/ raw[n] THEN NoColour ELSE InForce(bg, raw, n)
      BY <1>0, InForceNext, Zenon
    <2>2. QED
      BY <1>1, <1>2, <2>1 DEF Chosen, CarriedBg
  <1>4. Foreground(tiles, n + 1) = Chosen(tiles[n + 1].fg, CarriedFg(tiles, n))
    <2>1. InForce(fg, cut, n + 1) =
            IF fg[n + 1] # NoColour THEN fg[n + 1]
            ELSE IF n = 0 \/ cut[n] THEN NoColour ELSE InForce(fg, cut, n)
      BY <1>0, InForceNext, Zenon
    <2>2. QED
      BY <1>1, <1>2, <2>1 DEF Chosen, CarriedFg
  <1>5. QED
    BY <1>3, <1>4

LEMMA DecodedNext ==
  ASSUME NEW colours, NEW length \in Nat, NEW tiles \in [1 .. length -> Tiles(colours)],
         NEW n \in 0 .. length - 1, NEW state, DecodedSoFar(tiles, n, state)
  PROVE  DecodedSoFar(tiles, n + 1, DecodeTile(state, tiles[n + 1]))
  <1> DEFINE tile == tiles[n + 1]
             legal(m) == \A i \in 1 .. m : TileLegal(tiles, i)
  <1>1. legal(n + 1) <=> legal(n) /\ TileLegal(tiles, n + 1)
    OBVIOUS
  <1>2. tile \in Tiles(colours)
    OBVIOUS
  <1>3. CASE ~legal(n)
    BY <1>1, <1>3 DEF DecodedSoFar, DecodeTile
  <1>4. CASE legal(n)
    <2>1. state = Decoded(tiles, n)
      BY <1>4 DEF DecodedSoFar
    <2>2. /\ state.ok /\ state.bg = CarriedBg(tiles, n) /\ state.fg = CarriedFg(tiles, n)
          /\ state.painted = [i \in 1 .. n |-> Painted(tiles, i)]
      BY <2>1 DEF Decoded
    <2>3. Append(state.painted, Painted(tiles, n + 1))
            = [i \in 1 .. n + 1 |-> Painted(tiles, i)]
      <3> DEFINE f == [i \in 1 .. n + 1 |-> Painted(tiles, i)]
      <3>1. Append([i \in 1 .. n |-> f[i]], f[n + 1]) = [i \in 1 .. n + 1 |-> f[i]]
        <4> HIDE DEF f
        <4> QED BY AppendToPrefix
      <3>2. [i \in 1 .. n |-> f[i]] = [i \in 1 .. n |-> Painted(tiles, i)]
        OBVIOUS
      <3>3. f[n + 1] = Painted(tiles, n + 1) /\ [i \in 1 .. n + 1 |-> f[i]] = f
        OBVIOUS
      <3> HIDE DEF f
      <3>4. Append(state.painted, Painted(tiles, n + 1)) = f
        BY <2>2, <3>1, <3>2, <3>3
      <3>5. QED
        BY <3>4 DEF f
    <2>4. CASE tile.raw
      <3>1. TileLegal(tiles, n + 1) /\ Painted(tiles, n + 1) = Paint("raw", "raw")
        BY <2>4 DEF TileLegal, Painted
      <3>2. CarriedBg(tiles, n + 1) = NoColour /\ CarriedFg(tiles, n + 1) = NoColour
        BY <2>4 DEF CarriedBg, CarriedFg
      <3>3. DecodeTile(state, tile) =
              [state EXCEPT !.bg = NoColour, !.fg = NoColour,
                            !.painted = Append(@, Paint("raw", "raw"))]
        BY <2>2, <2>4 DEF DecodeTile
      <3>4. DecodeTile(state, tile) = Decoded(tiles, n + 1)
        <4>1. Append(state.painted, Paint("raw", "raw"))
                = [i \in 1 .. n + 1 |-> Painted(tiles, i)]
          BY <2>3, <3>1
        <4>2. QED
          BY <2>1, <3>2, <3>3, <4>1 DEF Decoded
      <3>5. QED
        BY <1>1, <1>4, <3>1, <3>4 DEF DecodedSoFar
    <2>5. CASE ~tile.raw
      <3>1. /\ Background(tiles, n + 1) = Chosen(tile.bg, state.bg)
            /\ Foreground(tiles, n + 1) = Chosen(tile.fg, state.fg)
        BY <2>2, ColoursInForce
      <3> DEFINE bg == Background(tiles, n + 1)
                 fg == Foreground(tiles, n + 1)
      <3>2. DecodeTile(state, tile) = PaintTile(state, tile, bg, fg)
        BY <2>2, <2>5, <3>1 DEF DecodeTile
      <3>3. CASE ~TileLegal(tiles, n + 1)
        <4>1. PaintTile(state, tile, bg, fg) = Broken(state)
          BY <2>5, <3>3 DEF PaintTile, TileLegal
        <4>2. Broken(state).ok = FALSE
          BY <2>1 DEF Broken, Decoded
        <4>3. QED
          BY <1>1, <3>2, <3>3, <4>1, <4>2 DEF DecodedSoFar
      <3>4. CASE TileLegal(tiles, n + 1)
        <4>1. PaintTile(state, tile, bg, fg) =
                [state EXCEPT !.bg = bg, !.fg = IF tile.colored THEN NoColour ELSE fg,
                              !.painted = Append(@, Painted(tiles, n + 1))]
          BY <2>5, <3>4 DEF PaintTile, TileLegal, Painted
        <4>2. /\ CarriedBg(tiles, n + 1) = bg
              /\ CarriedFg(tiles, n + 1) = IF tile.colored THEN NoColour ELSE fg
          BY <2>5 DEF CarriedBg, CarriedFg
        <4>3. Append(state.painted, Painted(tiles, n + 1)) = Decoded(tiles, n + 1).painted
          BY <2>1, <2>2, <2>3 DEF Decoded
        <4>4. PaintTile(state, tile, bg, fg) =
                [bg |-> bg, fg |-> IF tile.colored THEN NoColour ELSE fg, ok |-> TRUE,
                 painted |-> Append(state.painted, Painted(tiles, n + 1))]
          BY <2>1, <4>1 DEF Decoded
        <4>5. PaintTile(state, tile, bg, fg) = Decoded(tiles, n + 1)
          BY <4>2, <4>3, <4>4 DEF Decoded
        <4>6. QED
          BY <1>1, <1>4, <3>2, <3>4, <4>5 DEF DecodedSoFar
      <3>5. QED
        BY <3>3, <3>4
    <2>6. QED
      BY <2>4, <2>5
  <1>5. QED
    BY <1>3, <1>4

LEMMA DecodedStream ==
  ASSUME NEW colours, NEW length \in Nat, NEW tiles \in [1 .. length -> Tiles(colours)]
  PROVE  DecodedSoFar(tiles, length, DecodeRect(tiles))
  <1>1. Len(tiles) = length
    OBVIOUS
  <1>2. PICK after : /\ DecodeRect(tiles) = after[length]
                     /\ after[0] = Begin
                     /\ \A n \in 1 .. length :
                          after[n] = DecodeTile(after[n - 1], tiles[n])
    BY <1>1, DecodeRuns
  <1> DEFINE T == {n \in Nat : n <= length => DecodedSoFar(tiles, n, after[n])}
  <1>3. 0 \in T
    <2>1. Decoded(tiles, 0) = Begin
      BY DEF Decoded, Begin, CarriedBg, CarriedFg
    <2>2. QED
      BY <1>2, <2>1 DEF DecodedSoFar
  <1>4. ASSUME NEW n \in T PROVE n + 1 \in T
    <2>1. CASE n + 1 <= length
      <3>1. n \in 0 .. length - 1 /\ n + 1 \in 1 .. length /\ n + 1 - 1 = n
        BY <2>1
      <3>2. DecodedSoFar(tiles, n, after[n])
        BY <2>1
      <3>3. DecodedSoFar(tiles, n + 1, DecodeTile(after[n], tiles[n + 1]))
        BY <3>1, <3>2, DecodedNext
      <3>4. after[n + 1] = DecodeTile(after[n], tiles[n + 1])
        BY <1>2, <3>1
      <3>5. QED
        BY <3>3, <3>4
    <2>2. QED
      BY <2>1
  <1>5. T = Nat
    <2>1. T \in SUBSET Nat
      OBVIOUS
    <2> HIDE DEF T
    <2> QED BY <1>3, <1>4, <2>1, SetInduction
  <1>6. QED
    BY <1>2, <1>5

LEMMA ColoursAreCarried ==
  ASSUME NEW colours, NEW n \in Nat
  PROVE  CarriesTheColours(colours, n)
  <1> SUFFICES ASSUME NEW length \in 1 .. n, NEW tiles \in [1 .. length -> Tiles(colours)]
               PROVE  /\ DecodeRect(tiles).ok = Legal(tiles)
                      /\ DecodeRect(tiles).ok =>
                           \A i \in 1 .. length : DecodeRect(tiles).painted[i] = Painted(tiles, i)
    BY DEF CarriesTheColours
  <1>1. Legal(tiles) <=> \A i \in 1 .. length : TileLegal(tiles, i)
    BY DEF Legal, TileLegal
  <1>2. Legal(tiles) \in BOOLEAN
    BY DEF Legal
  <1>3. DecodedSoFar(tiles, length, DecodeRect(tiles))
    BY DecodedStream
  <1>4. CASE Legal(tiles)
    <2>1. DecodeRect(tiles) = Decoded(tiles, length)
      BY <1>1, <1>3, <1>4 DEF DecodedSoFar
    <2>2. /\ DecodeRect(tiles).ok = TRUE
          /\ DecodeRect(tiles).painted = [i \in 1 .. length |-> Painted(tiles, i)]
      BY <2>1 DEF Decoded
    <2>3. QED
      BY <1>2, <1>4, <2>2
  <1>5. CASE ~Legal(tiles)
    BY <1>1, <1>2, <1>3, <1>5 DEF DecodedSoFar
  <1>6. QED
    BY <1>4, <1>5

\* The tile a pixel lies in is its offset divided by the tile size.
LEMMA TilesCoverOnce ==
  ASSUME NEW n \in Nat, NEW most \in Nat \ {0}
  PROVE  TilesPartition(n, most)
  <1> SUFFICES ASSUME NEW first \in 0 .. 2, NEW length \in 1 .. n,
                      NEW x \in 0 .. first + length + most
               PROVE  Cardinality({cut \in Cuts(first, length, most) :
                                     x \in cut.lo .. cut.lo + cut.size - 1})
                        = IF x \in first .. first + length - 1 THEN 1 ELSE 0
    BY DEF TilesPartition
  <1> DEFINE Cut(k) == [lo |-> first + most * k,
                        size |-> IF length - most * k > most THEN most ELSE length - most * k]
             index == {k \in 0 .. length : most * k < length}
             around == {cut \in Cuts(first, length, most) :
                          x \in cut.lo .. cut.lo + cut.size - 1}
             in(k) == x \in Cut(k).lo .. Cut(k).lo + Cut(k).size - 1
  <1>1. around = {Cut(k) : k \in {k \in index : in(k)}}
    BY DEF Cuts
  <1>2. ASSUME NEW k \in index
        PROVE  /\ most * k \in Nat /\ k \in Nat
               /\ in(k) <=> /\ most * k <= x - first /\ x - first < most * k + most
                            /\ x < first + length
    <2>1. most * k \in Nat
      OBVIOUS
    <2>2. QED
      BY <2>1
  <1>3. CASE x \in first .. first + length - 1
    <2> DEFINE j == (x - first) \div most
    <2>1. x - first \in Nat /\ x - first < length
      BY <1>3
    <2>2. j \in Nat /\ j * most <= x - first /\ x - first < j * most + most
      BY <2>1, Quotient
    <2>3. j * most = most * j /\ j <= j * most
      BY <2>2
    <2>4. j \in index /\ in(j)
      <3> HIDE DEF j
      <3>1. j \in index
        BY <2>1, <2>2, <2>3
      <3>2. QED
        BY <1>2, <1>3, <2>2, <2>3, <3>1
    <2>5. ASSUME NEW k \in index, in(k) PROVE k = j
      <3>1. k \in Nat /\ k * most = most * k
        BY <1>2
      <3>2. k * most <= x - first /\ x - first < k * most + most
        BY <1>2, <2>5, <3>1
      <3>3. k <= j /\ j <= k
        BY <2>1, <3>1, <3>2, Floor
      <3>4. QED
        BY <2>2, <3>1, <3>3
    <2>6. around = {Cut(j)}
      <3> HIDE DEF j, Cut, index, around, in
      <3> QED BY <1>1, <2>4, <2>5
    <2>7. QED
      BY <1>3, <2>6, FS_Singleton
  <1>4. CASE x \notin first .. first + length - 1
    <2>1. ASSUME NEW k \in index PROVE ~in(k)
      <3>1. most * k \in Nat
        BY <1>2
      <3>2. CASE x < first
        BY <1>2, <3>1, <3>2
      <3>3. CASE x >= first + length
        BY <1>2, <3>3
      <3>4. QED
        BY <1>4, <3>2, <3>3
    <2>2. around = {}
      BY <1>1, <2>1
    <2>3. QED
      BY <1>4, <2>2, FS_EmptySet
  <1>5. QED
    BY <1>3, <1>4

------------------------------------------------------------------------------
(* The modes (VideoModes).                                                      *)

\* Lines that follow each other without a gap are fetched once, field by field.
LEMMA FetchedOnce ==
  ASSUME NEW mode, mode.passes = 3, mode.interlaced \in BOOLEAN, mode.h \in Nat \ {0},
         Line(mode, 0) = 0, Line(mode, 1) \in Nat, Line(mode, 2) \in Nat,
         Line(mode, 1) <= Line(mode, 2), Line(mode, 2) <= mode.h, Line(mode, 3) = mode.h,
         StorageHeight(mode) = (IF mode.interlaced THEN 2 * mode.h ELSE mode.h)
  PROVE  FetchesAll(mode)
  <1> SUFFICES ASSUME NEW row \in 0 .. StorageHeight(mode)
               PROVE  Cardinality({part \in (0 .. mode.passes - 1) \X Fields(mode) :
                                     row \in Fetched(mode, part[1], part[2])})
                        = IF row < StorageHeight(mode) THEN 1 ELSE 0
    BY DEF FetchesAll
  <1> DEFINE parts == (0 .. mode.passes - 1) \X Fields(mode)
             fetching == {part \in parts : row \in Fetched(mode, part[1], part[2])}
             field == IF row < mode.h THEN 0 ELSE mode.h
             line == row - field
             pass == IF line < Line(mode, 1) THEN 0 ELSE IF line < Line(mode, 2) THEN 1 ELSE 2
  <1>0. row \in Nat /\ Fields(mode) \subseteq {0, mode.h}
    BY DEF Fields
  <1>1. ASSUME NEW p \in 0 .. 2, NEW f \in Fields(mode)
        PROVE  row \in Fetched(mode, p, f) <=> Line(mode, p) <= row - f /\ row - f < Line(mode, p + 1)
    <2>1. \A q \in 0 .. 3 : Line(mode, q) \in Nat
      OBVIOUS
    <2>2. p \in 0 .. 3 /\ p + 1 \in 0 .. 3 /\ f \in Nat
      BY <1>0
    <2>3. QED
      BY <1>0, <2>1, <2>2 DEF Fetched, LinesOf
  <1>2. ASSUME NEW p \in 0 .. 2, NEW f \in Fields(mode), row \in Fetched(mode, p, f)
        PROVE  p = pass /\ f = field /\ row < StorageHeight(mode)
    <2>1. f \in {0, mode.h} /\ (f = mode.h => mode.interlaced)
      BY DEF Fields
    <2>2. Line(mode, p) <= row - f /\ row - f < Line(mode, p + 1)
      BY <1>1, <1>2
    <2>3. CASE p = 0
      BY <1>0, <2>1, <2>2, <2>3
    <2>4. CASE p = 1
      BY <1>0, <2>1, <2>2, <2>4
    <2>5. CASE p = 2
      BY <1>0, <2>1, <2>2, <2>5
    <2>6. QED
      BY <2>3, <2>4, <2>5
  <1>3. CASE row < StorageHeight(mode)
    <2>1. field \in Fields(mode) /\ line \in 0 .. mode.h - 1
      BY <1>0, <1>3 DEF Fields
    <2>2. pass \in 0 .. 2 /\ Line(mode, pass) <= line /\ line < Line(mode, pass + 1)
      BY <2>1
    <2>3. row \in Fetched(mode, pass, field)
      BY <1>1, <2>1, <2>2
    <2>4. \A part \in parts : row \in Fetched(mode, part[1], part[2])
                                <=> part = <<pass, field>>
      <3> SUFFICES ASSUME NEW p \in 0 .. 2, NEW f \in Fields(mode)
                   PROVE  row \in Fetched(mode, p, f) <=> p = pass /\ f = field
        OBVIOUS
      <3> HIDE DEF pass, field
      <3> QED BY <1>2, <2>3
    <2>5. <<pass, field>> \in parts
      BY <2>1, <2>2
    <2>6. fetching = {<<pass, field>>}
      <3> HIDE DEF parts, pass, field
      <3> QED BY <2>4, <2>5
    <2>7. Cardinality(fetching) = 1
      <3> HIDE DEF fetching, pass, field
      <3> QED BY <2>6, FS_Singleton
    <2>8. QED
      BY <1>3, <2>7
  <1>4. CASE ~(row < StorageHeight(mode))
    <2>1. \A part \in parts : row \notin Fetched(mode, part[1], part[2])
      BY <1>2, <1>4
    <2>2. fetching = {}
      <3> HIDE DEF parts
      <3> QED BY <2>1
    <2>3. QED
      BY <1>4, <2>2, FS_EmptySet
  <1>5. QED
    BY <1>3, <1>4

\* What the layout rests on, in numbers.
Measured(mode) ==
  LET h == PassHeight(mode)
  IN  /\ mode.passes = 3 /\ mode.interlaced \in BOOLEAN /\ mode.h \in Nat \ {0}
      /\ h \in Nat \ {0}
      /\ Line(mode, 0) = 0 /\ Line(mode, 1) = h /\ Line(mode, 2) = 2 * h
      /\ Line(mode, 3) = mode.h /\ 2 * h < mode.h /\ mode.h <= 3 * h
      /\ StorageHeight(mode) = (IF mode.interlaced THEN 2 * mode.h ELSE mode.h)
      /\ Pitch(mode) \in Nat /\ Pitch(mode) = EffectiveWidth(mode)
      /\ 3 * h * 2 * Pitch(mode) <= GsMemory
      /\ h * 2 * Pitch(mode) \in Nat /\ (h * 2 * Pitch(mode)) % FramePage = 0
      /\ (2 * h * 2 * Pitch(mode)) % FramePage = 0

LEMMA MeasuredFits ==
  ASSUME NEW mode, Measured(mode)
  PROVE  AcceptsBackground(mode) /\ LaidOut(mode) /\ FetchesAll(mode)
  <1> DEFINE h == PassHeight(mode)
  <1>1. AcceptsBackground(mode)
    BY DEF Measured, AcceptsBackground, StorageWidth
  <1>2. FetchesAll(mode)
    BY FetchedOnce DEF Measured
  <1>3. ASSUME NEW pass \in 0 .. mode.passes - 1
        PROVE  /\ LinesOf(mode, pass) # {} /\ Cardinality(LinesOf(mode, pass)) <= h
               /\ Address(mode, pass) = pass * h * 2 * Pitch(mode)
               /\ Address(mode, pass) % FramePage = 0
    <2>1. pass \in {0, 1, 2}
      BY DEF Measured
    <2>2. /\ Line(mode, pass) \in Nat /\ Line(mode, pass + 1) \in Nat
          /\ Line(mode, pass) < Line(mode, pass + 1)
          /\ Line(mode, pass + 1) - Line(mode, pass) <= h
          /\ Line(mode, pass) = pass * h /\ h \in Nat
      BY <2>1 DEF Measured
    <2>3. Cardinality(LinesOf(mode, pass)) <= h /\ LinesOf(mode, pass) # {}
      <3> DEFINE from == Line(mode, pass)
                 to == Line(mode, pass + 1) - 1
      <3>1. from \in Int /\ to \in Int /\ from <= to /\ to - from + 1 <= h
        <4> HIDE DEF h
        <4> QED BY <2>2
      <3>2. LinesOf(mode, pass) = from .. to
        BY DEF LinesOf
      <3> HIDE DEF from, to
      <3>3. Cardinality(from .. to) = to - from + 1 /\ from \in from .. to
        BY <3>1, FS_Interval
      <3>4. QED
        BY <3>1, <3>2, <3>3
    <2>4. Address(mode, pass) = pass * h * 2 * Pitch(mode)
      <3>1. Address(mode, pass) = 2 * Pitch(mode) * (pass * h)
        BY <2>2 DEF Address
      <3>2. QED
        BY <2>1, <3>1 DEF Measured
    <2>5. Address(mode, pass) % FramePage = 0
      BY <2>1, <2>4 DEF Measured, FramePage
    <2>6. QED
      BY <2>3, <2>4, <2>5
  <1>4. LaidOut(mode)
    BY <1>3 DEF LaidOut, Measured
  <1>5. QED
    BY <1>1, <1>2, <1>4

\* The nine modes of the catalogue, one by one.
LEMMA ModesMeasured ==
  ASSUME NEW mode \in HiresModes
  PROVE  Measured(mode) /\ StoresTheDesktop(mode)
  <1> USE DEF Mode, Progressive
  <1>1. \/ mode = Mode(704, 462, 720, 480, FALSE)
        \/ mode = Mode(720, 288, 720, 576, TRUE)
        \/ mode = Mode(1920, 540, 1920, 1080, TRUE)
        \/ mode = Progressive(720, 576)
        \/ mode = Progressive(1280, 720)
        \/ mode = Progressive(640, 480)
        \/ mode = Progressive(800, 600)
        \/ mode = Progressive(1024, 768)
        \/ mode = Progressive(1280, 1024)
    BY DEF HiresModes
  <1> USE DEF Measured, Line, PassHeight, Pitch, RoundUp, EffectiveWidth, StorageHeight,
              StorageWidth, RequiresVerticalMapping, RequiresRasterMapping, FullFrameHeight,
              StoresTheDesktop, CapacityWidth, CapacityHeight, GsMemory, FramePage
  <1>2. CASE mode = Mode(704, 462, 720, 480, FALSE)
    BY <1>2
  <1>3. CASE mode = Mode(720, 288, 720, 576, TRUE)
    BY <1>3
  <1>4. CASE mode = Mode(1920, 540, 1920, 1080, TRUE)
    BY <1>4
  <1>5. CASE mode = Progressive(720, 576)
    BY <1>5
  <1>6. CASE mode = Progressive(1280, 720)
    BY <1>6
  <1>7. CASE mode = Progressive(640, 480)
    BY <1>7
  <1>8. CASE mode = Progressive(800, 600)
    BY <1>8
  <1>9. CASE mode = Progressive(1024, 768)
    BY <1>9
  <1>10. CASE mode = Progressive(1280, 1024)
    BY <1>10
  <1> HIDE DEF Measured, StoresTheDesktop
  <1>11. QED
    BY <1>1, <1>2, <1>3, <1>4, <1>5, <1>6, <1>7, <1>8, <1>9, <1>10

LEMMA EveryModeMeasured == \A mode \in HiresModes : Fits(mode)
BY ModesMeasured, MeasuredFits DEF Fits

------------------------------------------------------------------------------
(* What the runs check of it on small inputs, for all of them.                  *)

\* An update carried into the hidden buffer, however many rectangles it had, makes
\* the picture a complete rebuild would, at every pair of sizes: walking rows and
\* spans by rounded edges never misses or adds a pixel.
THEOREM DeltaIsRebuildAlways ==
  \A n \in Nat : \A size, target \in Sizes(n) : \A rects \in SUBSET RectsIn(size) :
    rects # {} => Updated(rects, size, target) = Resampled(rects, size, target)
BY UpdateIsRebuild

\* The decoder accepts exactly the streams the protocol allows, and paints every
\* tile with the colours in force, for rectangles of any number of tiles.
THEOREM ColoursAlwaysCarried ==
  \A colours : \A n \in Nat : CarriesTheColours(colours, n)
BY ColoursAreCarried

\* The same three as the invariants the run checks: the mapping is exact where an
\* update is carried across buffers ...
THEOREM MappingAlwaysExact == Spec => []MappingIsExact
  <1>1. DeltaIsRebuild(3) /\ PlacementFits(6) /\ RowsKeptApart(6)
    BY DeltasAreRebuilds, PlacedFits, RowsApart
  <1>2. MappingIsExact
    BY <1>1 DEF MappingIsExact, MappingExact
  <1>3. QED
    BY <1>2, PTL

\* ... a Hextile rectangle is decoded as the protocol says ...
THEOREM HextileAlwaysTheProtocols == Spec => []HextileIsTheProtocols
  <1>1. CarriesTheColours({"c1", "c2"}, 3) /\ TilesPartition(40, 16)
    BY ColoursAreCarried, TilesCoverOnce
  <1>2. HextileIsTheProtocols
    BY <1>1 DEF HextileIsTheProtocols, HextileExact
  <1>3. QED
    BY <1>2, PTL

\* ... and every mode of the catalogue is one the driver accepts, that fits GS
\* memory, and of which each row is fetched once.
THEOREM ModesAlwaysFit == Spec => []ModesFit
  <1>1. ModesFit
    BY EveryModeMeasured DEF ModesFit, EveryModeFits
  <1>2. QED
    BY <1>1, PTL

===============================================================================
