----------------------------- MODULE HiresDisplay -----------------------------
(* The HIRES presentation: the pass engine of gsHires, driven by the scanline   *)
(* interrupt, and the main loop that receives desktop updates, publishes them   *)
(* through two buffers in EE memory and draws the overlay.                      *)
(*                                                                              *)
(* The GS frame is drawn in passes, one band of the screen each.  For each pass *)
(* the engine sends a prepared queue, whose band is fetched from EE memory by   *)
(* DMA, and then the finished draw queue.  The engine's thread has a higher     *)
(* priority than the main loop: main runs only while the thread waits.          *)
(*                                                                              *)
(* What a rectangle of pixels holds is the number of the update that wrote it.  *)
(* PixelMapping and Hextile have the arithmetic below the band.                 *)
EXTENDS Naturals, FiniteSets

CONSTANTS
  PassCount,         \* __iPassCount
  MaxUpdates,        \* bound on the server's updates
  MaxFaults,         \* bound on passes not drawn in time, failures, refreshes,
                     \* calibrations and switches, all together
  MaxGenerations,    \* bound on osk_generation
  None

ASSUME HiresDisplayAssumption ==
  /\ PassCount \in Nat /\ PassCount >= 2
  /\ MaxUpdates \in Nat /\ MaxFaults \in Nat /\ MaxGenerations \in Nat
  /\ None \notin {"A", "B"}

VARIABLES
  \* the pass engine
  running,           \* the interrupt handler is installed
  beam,              \* the pass whose scanline comes next
  current_pass,      \* __iCurrentPass
  hsync, vsync,      \* counts of two semaphores of at most 1
  lock,              \* who holds __sema_queue_id: "free", "main" or "thread"
  thread,            \* where dma_to_gs_thread is
  pass_queue,        \* the buffer each pass queue fetches from
  draw_queue,        \* __iCurrentDrawQueue, the one main builds
  dma,               \* the transfer in flight
  \* EE memory
  mem,               \* the two buffers, band by band
  cached,            \* bands written by the CPU and not yet written back
  front, back,       \* hires_bg_buffer, hires_bg_back_buffer
  tex,               \* tex.Mem
  configured,        \* hires_bg_configured
  mapped,            \* ps2vnc_hires_requires_raster_mapping()
  direct, safe,      \* live_direct_present_buffer, live_direct_present_safe
  linear, stale,     \* the framebuffer, live_linear_framebuffer_stale
  \* the update stream
  image,             \* the server's desktop, as far as it was sent
  frame,             \* the desktop as of the last complete update
  dirty,             \* rfb_dirty_*
  updates, faults,
  \* the main loop and its overlay
  at,                \* where main is
  full,              \* a complete desktop is being published
  generation,        \* osk_generation, changed by the controller thread
  rendered,          \* rendered_osk_generation
  bitmap, texture    \* the generations in the bitmap and in the texture

engine == <<running, beam, current_pass, hsync, vsync, lock, thread, pass_queue,
            draw_queue, dma>>
memory == <<mem, cached, front, back, tex, configured, mapped, direct, safe, linear, stale>>
stream == <<image, frame, dirty, updates, faults>>
overlay == <<generation, rendered, bitmap, texture>>
vars == <<engine, memory, stream, at, full, overlay>>

Passes == 0 .. PassCount - 1
LastPass == PassCount - 1
Buffers == {"A", "B"}
Black == MaxUpdates + 1
Torn == MaxUpdates + 2
Contents == 0 .. Torn
Pictures == [Passes -> Contents]
Draw(queue) == [of |-> "draw", pass |-> None, from |-> queue]
Fetch(pass, buffer) == [of |-> "pass", pass |-> pass, from |-> buffer]
NoDma == [of |-> "none", pass |-> None, from |-> None]
Bands(buffer) == {buffer} \X Passes

Transfers ==
  {NoDma} \cup {Draw(queue) : queue \in 0 .. 1}
          \cup {Fetch(pass, buffer) : pass \in Passes, buffer \in Buffers \cup {None}}

\* A frame, in the order main takes it; the ends of a life; and the rest.
Showing == {"draw", "upload", "finish", "flip", "toggle", "idle", "wait"}
Stopping == {"destroy", "deinit", "free"}
Places ==
  Showing \cup Stopping
    \cup {"off", "prepare", "publish", "clear", "fill", "set_bg", "create", "copy",
          "mirror", "receive", "commit", "recover", "exit"}

TypeOK ==
  /\ running \in BOOLEAN
  /\ beam \in Passes /\ current_pass \in Passes
  /\ hsync \in 0 .. 1 /\ vsync \in 0 .. 1
  /\ lock \in {"free", "main", "thread"}
  /\ thread \in {"hsync", "queue", "draw", "dead"}
  /\ pass_queue \in [Passes -> Buffers \cup {None}] /\ draw_queue \in 0 .. 1
  /\ dma \in Transfers /\ at \in Places
  /\ mem \in [Buffers -> Pictures] /\ cached \subseteq Buffers \X Passes
  /\ {front, back, direct, tex} \subseteq Buffers \cup {None}
  /\ configured \in BOOLEAN /\ mapped \in BOOLEAN /\ safe \in BOOLEAN /\ stale \in BOOLEAN
  /\ linear \in Pictures /\ image \in Pictures /\ frame \in Pictures
  /\ dirty \subseteq Passes /\ updates \in 0 .. MaxUpdates /\ faults \in 0 .. MaxFaults
  /\ full \in BOOLEAN
  /\ generation \in 1 .. MaxGenerations + 1
  /\ {bitmap, texture} \subseteq 0 .. MaxGenerations + 1
  /\ rendered \in 0 .. MaxGenerations + 1

Plain(content) == [pass \in Passes |-> content]

Init ==
  /\ running = FALSE
  /\ beam = 0 /\ current_pass = 0 /\ hsync = 0 /\ vsync = 0
  /\ lock = "free" /\ thread = "dead"
  /\ pass_queue = [pass \in Passes |-> None] /\ draw_queue = 0
  /\ dma = NoDma
  /\ mem = [buffer \in Buffers |-> Plain(Torn)] /\ cached = {}
  /\ front = None /\ back = None /\ tex = None /\ configured = FALSE
  /\ mapped \in BOOLEAN /\ direct = None /\ safe = FALSE
  /\ linear = Plain(0) /\ stale = FALSE
  /\ image = Plain(0) /\ frame = Plain(0) /\ dirty = {} /\ updates = 0 /\ faults = 0
  /\ at = "off" /\ full = FALSE
  /\ generation = 1 /\ rendered = 0 /\ bitmap = 0 /\ texture = 0

------------------------------------------------------------------------------
(* The pass engine.                                                             *)

Fault == faults < MaxFaults /\ faults' = faults + 1

InTime == lock = "main" \/ (thread = "hsync" /\ hsync = 0 /\ dma = NoDma)

\* hsync_callback, at the scanline where a pass may be drawn.  The driver
\* counts on the GS to draw each pass in time ("GS draw speed must be 60fps ==
\* 240 passes/sec").  If it does not, or while main holds the queues, a pass
\* that is signalled replaces the one the thread was about to handle.
Hsync ==
  /\ running
  /\ IF InTime THEN UNCHANGED faults ELSE Fault
  /\ current_pass' = beam /\ hsync' = 1
  /\ beam' = (IF beam = LastPass THEN 0 ELSE beam + 1)
  /\ UNCHANGED <<running, vsync, lock, thread, pass_queue, draw_queue, dma,
                 memory, image, frame, dirty, updates, at, full, overlay>>

DmaEnds ==
  /\ dma # NoDma /\ dma' = NoDma
  /\ UNCHANGED <<running, beam, current_pass, hsync, vsync, lock, thread, pass_queue,
                 draw_queue, memory, stream, at, full, overlay>>

ThreadStep(from, to) ==
  /\ thread = from /\ thread' = to
  /\ UNCHANGED <<running, beam, current_pass, pass_queue, draw_queue, memory,
                 stream, at, full, overlay>>

Wake ==
  /\ ThreadStep("hsync", "queue") /\ hsync = 1 /\ hsync' = 0
  /\ UNCHANGED <<vsync, lock, dma>>

\* gsKit_queue_send waits for the transfer before its own.  Main cannot run
\* while it does, so that taking the lock and sending are one step.
SendPass ==
  /\ ThreadStep("queue", "draw") /\ lock = "free" /\ lock' = "thread"
  /\ dma = NoDma /\ dma' = Fetch(current_pass, pass_queue[current_pass])
  /\ UNCHANGED <<hsync, vsync>>

\* The frame is announced after its last pass; signals that came in are dropped.
SendDraw ==
  /\ ThreadStep("draw", "hsync") /\ lock' = "free" /\ hsync' = 0
  /\ dma = NoDma /\ dma' = Draw(1 - draw_queue)
  /\ vsync' = (IF current_pass = LastPass THEN 1 ELSE vsync)

Thread == Wake \/ SendPass \/ SendDraw

------------------------------------------------------------------------------
(* The main loop.                                                               *)

\* Main has the processor only while the engine's thread waits.
MainAt(place) ==
  /\ at = place
  /\ \/ thread = "dead"
     \/ thread = "hsync" /\ hsync = 0
     \/ thread = "queue" /\ lock = "main"
  /\ UNCHANGED <<beam, current_pass, hsync, dma>>

Goto(place) == at' = place

\* gsKit_hires_sync: forget what was announced, then wait for the next frame.
SyncAt(place) == at' = place /\ vsync' = 0
Synced == vsync = 1

\* ps2vnc_display_create_hires and gsKit_hires_init_screen.
Create ==
  /\ at = "off" /\ thread = "dead" /\ Goto("prepare")
  /\ running' = TRUE /\ thread' = "hsync" /\ lock' = "free"
  /\ beam' = 0 /\ current_pass' = 0 /\ hsync' = 0 /\ vsync' = 0
  /\ pass_queue' = [pass \in Passes |-> None] /\ draw_queue' = 0
  /\ UNCHANGED <<dma, memory, stream, full, overlay>>

\* ps2vnc_display_prepare_desktop_hires, after a full Raw desktop was received.
Prepare ==
  /\ MainAt("prepare") /\ Goto("clear")
  /\ mem' = [buffer \in Buffers |-> Plain(Torn)] /\ cached' = {}
  /\ front' = "A" /\ back' = "B" /\ tex' = "A" /\ configured' = FALSE
  /\ linear' = image /\ frame' = image /\ full' = TRUE
  /\ UNCHANGED <<running, vsync, lock, thread, pass_queue, draw_queue, mapped, direct, safe,
                 stale, image, dirty, updates, faults, overlay>>

\* publish_hires_background rebuilds the hidden buffer of a mapped display, and
\* the front of one that is not.
Target == IF mapped /\ configured THEN back ELSE front

IdleForPublish ==
  /\ MainAt("publish") /\ Synced /\ dma = NoDma /\ Goto("clear")
  /\ UNCHANGED <<running, vsync, lock, thread, pass_queue, draw_queue, memory, stream, full,
                 overlay>>

Clear ==
  /\ MainAt("clear") /\ Goto("fill")
  /\ mem' = [mem EXCEPT ![Target] = Plain(Black)]
  /\ cached' = cached \cup Bands(Target)
  /\ UNCHANGED <<running, vsync, lock, thread, pass_queue, draw_queue, front, back, tex,
                 configured, mapped, direct, safe, linear, stale, stream, full, overlay>>

Fill ==
  /\ MainAt("fill")
  /\ mem' = [mem EXCEPT ![Target] = linear] /\ cached' = cached \ Bands(Target)
  /\ IF configured /\ ~mapped
     THEN Goto("copy") /\ UNCHANGED <<vsync, tex>>
     ELSE SyncAt("set_bg") /\ tex' = Target
  /\ UNCHANGED <<running, lock, thread, pass_queue, draw_queue, front, back, configured, mapped,
                 direct, safe, linear, stale, stream, full, overlay>>

\* gsKit_hires_set_bg: the queues change with the engine shut out and idle.
SetBackground ==
  /\ MainAt("set_bg") /\ Synced /\ lock = "free" /\ lock' = "main" /\ Goto("create")
  /\ vsync' = 0
  /\ UNCHANGED <<running, thread, pass_queue, draw_queue, memory, stream, full, overlay>>

CreatePasses ==
  /\ MainAt("create") /\ dma = NoDma /\ lock' = "free"
  /\ pass_queue' = [pass \in Passes |-> tex]
  /\ configured' = TRUE
  /\ front' = tex /\ back' = (IF tex = front THEN back ELSE front)
  /\ Goto(IF full THEN "copy" ELSE "mirror")
  /\ UNCHANGED <<running, vsync, thread, draw_queue, mem, cached, tex, mapped, direct, safe,
                 linear, stale, stream, full, overlay>>

\* After a complete desktop the hidden buffer is made a copy of the front.
Copy ==
  /\ MainAt("copy") /\ Goto("draw")
  /\ mem' = [mem EXCEPT ![back] = mem[front]] /\ cached' = cached \ Bands(back)
  /\ direct' = (IF mapped THEN None ELSE back) /\ stale' = FALSE /\ full' = FALSE
  /\ UNCHANGED <<running, vsync, lock, thread, pass_queue, draw_queue, front, back, tex,
                 configured, mapped, safe, linear, stream, overlay>>

\* Fault: an update is not repeated in the other buffer.
MirrorNothing ==
  /\ MainAt("mirror") /\ Goto("draw")
  /\ direct' = (IF mapped THEN None ELSE back) /\ stale' = (stale /\ ~mapped)
  /\ UNCHANGED <<running, vsync, lock, thread, pass_queue, draw_queue, mem, cached, front, back,
                 tex, configured, mapped, safe, linear, stream, full, overlay>>

\* After an update only what changed is repeated in the buffer that is hidden now.
Mirror ==
  /\ MainAt("mirror") /\ Goto("draw")
  /\ mem' = [mem EXCEPT ![back] =
               [pass \in Passes |-> IF pass \notin dirty THEN mem[back][pass]
                                    ELSE IF mapped THEN linear[pass] ELSE mem[front][pass]]]
  /\ cached' = cached \ ({back} \X dirty)
  /\ direct' = (IF mapped THEN None ELSE back) /\ stale' = (stale /\ ~mapped)
  /\ UNCHANGED <<running, vsync, lock, thread, pass_queue, draw_queue, front, back, tex,
                 configured, mapped, safe, linear, stream, full, overlay>>

------------------------------------------------------------------------------
(* One frame: the overlay, the flip, and the wait for the engine.               *)

DrawOverlay ==
  /\ MainAt("draw")
  /\ IF rendered # generation
     THEN bitmap' = generation /\ SyncAt("upload")
     ELSE UNCHANGED bitmap /\ SyncAt("finish")
  /\ UNCHANGED <<running, lock, thread, pass_queue, draw_queue, memory, stream, full, generation,
                 rendered, texture>>

\* What is recorded as drawn is the generation after the wait.
Upload ==
  /\ MainAt("upload") /\ Synced /\ SyncAt("finish")
  /\ texture' = bitmap /\ rendered' = generation
  /\ UNCHANGED <<running, lock, thread, pass_queue, draw_queue, memory, stream, full, generation,
                 bitmap>>

FinishDraw ==
  /\ MainAt("finish") /\ Synced /\ SyncAt("flip")
  /\ UNCHANGED <<running, lock, thread, pass_queue, draw_queue, memory, stream, full, overlay>>

Flip ==
  /\ MainAt("flip") /\ lock = "free" /\ lock' = "main" /\ Goto("toggle")
  /\ UNCHANGED <<running, vsync, thread, pass_queue, draw_queue, memory, stream, full, overlay>>

\* Fault: the queues change over without waiting for the transfer.
ToggleAtOnce ==
  /\ MainAt("toggle") /\ lock' = "free" /\ SyncAt("idle")
  /\ draw_queue' = 1 - draw_queue
  /\ UNCHANGED <<running, thread, pass_queue, memory, stream, full, overlay>>

\* Fault: the queues stay locked after they changed over.
ToggleKeepsLock ==
  /\ MainAt("toggle") /\ dma = NoDma /\ SyncAt("idle")
  /\ draw_queue' = 1 - draw_queue
  /\ UNCHANGED <<running, lock, thread, pass_queue, memory, stream, full, overlay>>

Toggle ==
  /\ MainAt("toggle") /\ dma = NoDma /\ lock' = "free" /\ SyncAt("idle")
  /\ draw_queue' = 1 - draw_queue
  /\ UNCHANGED <<running, thread, pass_queue, memory, stream, full, overlay>>

\* The wait for presentation memory, the request and begin_update.
BeginUpdate ==
  /\ MainAt("idle") /\ Synced /\ dma = NoDma /\ Goto("wait") /\ vsync' = 0
  /\ safe' = ~mapped
  /\ UNCHANGED <<running, lock, thread, pass_queue, draw_queue, mem, cached, front, back, tex,
                 configured, mapped, direct, linear, stale, stream, full, overlay>>

------------------------------------------------------------------------------
(* An update.                                                                   *)

Receiving(place) ==
  /\ MainAt(place)
  /\ UNCHANGED <<running, vsync, lock, thread, pass_queue, draw_queue, full>>

\* A change of the confirmation's overlay interrupts the wait between messages.
Yield ==
  /\ Receiving("wait") /\ rendered # generation /\ Goto("draw")
  /\ safe' = FALSE
  /\ UNCHANGED <<mem, cached, front, back, tex, configured, mapped, direct, linear, stale,
                 stream, overlay>>

Arrives ==
  /\ Receiving("wait") /\ updates < MaxUpdates /\ Goto("receive")
  /\ updates' = updates + 1 /\ dirty' = {}
  /\ UNCHANGED <<memory, image, frame, faults, overlay>>

DirectWrite == safe /\ direct # None

\* The decoder writes a band of pixels straight into the hidden buffer, or into
\* the linear framebuffer.
Decode(pass, content) ==
  IF DirectWrite
  THEN /\ mem' = [mem EXCEPT ![direct][pass] = content]
       /\ cached' = cached \cup {<<direct, pass>>}
       /\ stale' = TRUE /\ UNCHANGED linear
  ELSE /\ linear' = [linear EXCEPT ![pass] = content]
       /\ UNCHANGED <<mem, cached, stale>>

Sent(pass) == image' = [image EXCEPT ![pass] = updates] /\ dirty' = dirty \cup {pass}

HextileRect ==
  /\ Receiving("receive") /\ UNCHANGED at
  /\ \E pass \in Passes \ dirty : Sent(pass) /\ Decode(pass, updates)
  /\ UNCHANGED <<front, back, tex, configured, mapped, direct, safe, frame, updates, faults,
                 overlay>>

\* Fault: a Raw rectangle leaves the direct write in force.
RawRectKeepsDirect ==
  /\ Receiving("receive") /\ ~stale /\ UNCHANGED at
  /\ \E pass \in Passes \ dirty :
       Sent(pass) /\ linear' = [linear EXCEPT ![pass] = updates]
  /\ UNCHANGED <<mem, cached, front, back, tex, configured, mapped, direct, safe, stale, frame,
                 updates, faults, overlay>>

\* Raw pixels go to the linear framebuffer, which must hold the rest.
RawRect ==
  /\ Receiving("receive") /\ ~stale /\ UNCHANGED at
  /\ \E pass \in Passes \ dirty :
       Sent(pass) /\ linear' = [linear EXCEPT ![pass] = updates]
  /\ safe' = FALSE
  /\ UNCHANGED <<mem, cached, front, back, tex, configured, mapped, direct, stale, frame,
                 updates, faults, overlay>>

RawRefused ==
  /\ Receiving("receive") /\ stale /\ safe' = FALSE /\ Goto("recover")
  /\ UNCHANGED <<mem, cached, front, back, tex, configured, mapped, direct, linear, stale,
                 stream, overlay>>

\* An update with no pixels is not published; one whose direct writes were
\* given up cannot be, and ends the client.
EndUpdate ==
  /\ Receiving("receive") /\ frame' = image /\ safe' = FALSE
  /\ \/ dirty = {} /\ Goto("draw")
     \/ dirty # {} /\ (mapped \/ safe) /\ Goto("commit")
     \/ dirty # {} /\ ~mapped /\ ~safe /\ Goto("exit")
  /\ UNCHANGED <<mem, cached, front, back, tex, configured, mapped, direct, linear, stale,
                 image, dirty, updates, faults, overlay>>

\* A mapped display now carries the changes into the hidden buffer; either way
\* they are written back before the engine is pointed at it.
Commit ==
  /\ MainAt("commit") /\ SyncAt("set_bg")
  /\ IF mapped
     THEN /\ tex' = back
          /\ mem' = [mem EXCEPT ![back] =
                       [pass \in Passes |-> IF pass \in dirty THEN linear[pass]
                                                              ELSE mem[back][pass]]]
     ELSE tex' = direct /\ UNCHANGED mem
  /\ cached' = cached \ ({tex'} \X dirty)
  /\ UNCHANGED <<running, lock, thread, pass_queue, draw_queue, front, back, configured, mapped,
                 direct, safe, linear, stale, stream, full, overlay>>

\* A receive that fails, perhaps with half a rectangle decoded.
ReceiveFails ==
  /\ Receiving(at) /\ at \in {"wait", "receive"} /\ Fault /\ Goto("recover")
  /\ safe' = FALSE
  /\ \/ UNCHANGED <<mem, cached, linear, stale>>
     \/ at = "receive" /\ \E pass \in Passes : Decode(pass, Torn)
  /\ UNCHANGED <<front, back, tex, configured, mapped, direct, image, frame, dirty, updates,
                 overlay>>

------------------------------------------------------------------------------
(* Recovery, calibration and a change of mode.                                  *)

\* A manual Refresh, or a calibration: both receive the full desktop anew.
Refresh ==
  /\ Receiving("draw") /\ Fault /\ Goto("recover")
  /\ UNCHANGED <<memory, image, frame, dirty, updates, overlay>>

\* recover_rfb_connection: the full desktop of the new session, published whole.
\* The status it drew used the overlay's bitmap and texture.
Recover ==
  /\ MainAt("recover")
  /\ \/ /\ SyncAt("publish") /\ full' = TRUE
        /\ image' = Plain(updates)
        /\ linear' = image' /\ frame' = image'
     \/ /\ Goto("exit") /\ UNCHANGED <<vsync, full, image, linear, frame>>
  /\ bitmap' = 0 /\ texture' = 0 /\ rendered' = generation - 1
  /\ UNCHANGED <<running, lock, thread, pass_queue, draw_queue, mem, cached, front, back, tex,
                 configured, mapped, direct, safe, stale, dirty, updates, faults, generation>>

SwitchMode ==
  /\ MainAt("draw") /\ Fault /\ SyncAt("destroy")
  /\ UNCHANGED <<running, lock, thread, pass_queue, draw_queue, memory, image, frame, dirty,
                 updates, full, overlay>>

\* ps2vnc_display_destroy_hires: wait, no more interrupts, no more thread.
Destroy ==
  /\ MainAt("destroy") /\ Synced /\ dma = NoDma /\ Goto("deinit") /\ running' = FALSE
  /\ UNCHANGED <<vsync, lock, thread, pass_queue, draw_queue, memory, stream, full, overlay>>

Deinit ==
  /\ MainAt("deinit") /\ lock = "free" /\ lock' = "main" /\ thread' = "dead" /\ Goto("free")
  /\ UNCHANGED <<running, vsync, pass_queue, draw_queue, memory, stream, full, overlay>>

FreeBuffers ==
  /\ MainAt("free") /\ dma = NoDma /\ Goto("off")
  /\ pass_queue' = [pass \in Passes |-> None]
  /\ front' = None /\ back' = None /\ tex' = None /\ configured' = FALSE
  /\ direct' = None /\ safe' = FALSE /\ stale' = FALSE
  /\ mapped' \in BOOLEAN /\ rendered' = generation - 1
  /\ UNCHANGED <<running, vsync, lock, thread, draw_queue, mem, cached, linear, stream, full,
                 generation, bitmap, texture>>

\* The controller thread changes what the overlay shows; elsewhere main does not
\* look, and an earlier change is as good as one there.
Input ==
  /\ at \in {"draw", "upload", "wait"}
  /\ generation <= MaxGenerations /\ generation' = generation + 1
  /\ UNCHANGED <<engine, memory, stream, at, full, rendered, bitmap, texture>>

\* What main does by itself, or waits for the engine to let it do.
Works ==
  \/ Create \/ IdleForPublish \/ Clear \/ Fill \/ SetBackground \/ CreatePasses
  \/ Copy \/ Mirror \/ DrawOverlay \/ Upload \/ FinishDraw \/ Flip \/ Toggle \/ BeginUpdate
  \/ Commit \/ Destroy \/ Deinit \/ FreeBuffers

\* Inside an update, in the handshake of a recovery and for the desktop of a new display
\* main waits for the server: recv_exact polls without a limit.
Server == EndUpdate \/ Recover \/ Prepare
AtServer == at \in {"receive", "recover", "prepare"}

Main == Works \/ Server

Next ==
  \/ Hsync \/ DmaEnds \/ Thread \/ Main \/ Input
  \/ Yield \/ Arrives \/ HextileRect \/ RawRect \/ RawRefused \/ ReceiveFails
  \/ Refresh \/ SwitchMode

\* The raster goes on, transfers end, and neither thread stops while it can run.
\* Waiting for the GS is polling: a transfer is over again and again.  Of the server nothing
\* is assumed, neither between messages nor inside one.
Fairness ==
  /\ WF_vars(Hsync) /\ WF_vars(DmaEnds) /\ WF_vars(Thread) /\ WF_vars(Yield)
  /\ SF_vars(Works)

Spec == Init /\ [][Next]_vars /\ Fairness

------------------------------------------------------------------------------
(* Properties.                                                                  *)

\* The memory main is writing.  A full publication of a display that is not
\* mapped is the exception: it rewrites the front that is being shown.
Writing ==
  {buffer \in Buffers :
     \/ at = "receive" /\ DirectWrite /\ buffer = direct
     \/ at \in {"clear", "fill"} /\ Target # front /\ buffer = Target
     \/ at = "commit" /\ buffer = (IF mapped THEN back ELSE direct)
     \/ at \in {"copy", "mirror"} /\ buffer = back}

\* What the engine fetches, now or at the next pass, is never what main is
\* writing: neither a buffer, nor the draw queue under construction; and no
\* transfer outlives the memory it reads.
MemoryOwned ==
  /\ dma.of = "draw" => dma.from # draw_queue
  /\ dma.of = "pass" => dma.from \in {front, back, None} \ Writing
  /\ \A pass \in Passes : pass_queue[pass] \notin Writing

InPlace == ~mapped /\ configured /\ at \in {"fill", "publish", "clear"}

\* However an update came, straight into the hidden buffer, through the linear
\* framebuffer, mapped, or as a full desktop, the buffer the engine shows is the
\* server's desktop as of the last complete update, and is out of the cache.
FrameIsServers ==
  configured /\ ~InPlace /\ at \notin {"commit", "set_bg", "create", "recover", "publish",
                                      "clear", "fill", "exit"}
    => /\ mem[front] = frame
       /\ cached \cap Bands(front) = {}
       /\ \A pass \in Passes : pass_queue[pass] = front

\* Both buffers hold the same frame whenever an update may begin, so that a
\* change of a few pixels can be made in either.
BuffersAgree ==
  configured /\ at \in Showing
    => mem[back] = mem[front] /\ cached = {}

\* Whatever passes came late or failed, the loop keeps coming back to its server
\* with every band of the last complete desktop sent to the GS again and again: no
\* wait for the engine is for ever.  Only a server that stops inside what it owes,
\* an update it has begun or the desktop of a new session or display, holds the loop.
KeepsShowing ==
  \/ <>[]AtServer
  \/ \A pass \in Passes :
       []<>(at = "exit" \/ (at = "wait" /\ mem[front] = frame /\ dma = Fetch(pass, front)))

\* "Snapshot the already-rendered confirmation generation": what is recorded as
\* drawn is what the texture shows.
OverlayIsWhatWasRecorded ==
  at = "wait" /\ rendered = generation => texture = generation

------------------------------------------------------------------------------
(* The inductive strengthening of the first three.                              *)

\* What the engine has been told to fetch.
Shown == IF configured THEN front ELSE None

\* The engine, which lives from Create to Deinit: it fetches what is shown and
\* draws the queue main does not build.
EngineInv ==
  /\ thread = "dead" <=> at \in {"off", "free"}
  /\ lock = "thread" <=> thread = "draw"
  /\ at = "off" => dma = NoDma
  /\ dma.of = "draw" => dma.from = 1 - draw_queue
  /\ dma.of = "pass" => dma.from = Shown
  /\ pass_queue = [pass \in Passes |-> Shown]

\* The buffers: two from the first desktop on, with a background in the queues
\* once it was set, and the direct write into the hidden one.
BuffersInv ==
  /\ at \in {"off", "prepare"} => ~configured
  /\ at \notin {"off", "prepare", "clear", "fill", "set_bg", "create"} => configured
  /\ at \notin {"off", "prepare"} => {front, back} = Buffers
  /\ at \in {"set_bg", "create"} => tex \in Buffers /\ (full \/ (tex = back /\ configured))
  /\ at \in Showing \cup {"receive", "commit"} => direct = IF mapped THEN None ELSE back
  /\ safe => ~mapped
  /\ at = "wait" => safe = ~mapped

AgreesOutside(buffer) == \A pass \in Passes \ dirty : mem[buffer][pass] = frame[pass]

\* A full publication starts from the linear framebuffer.
FullInv ==
  /\ at \in {"publish", "clear", "fill", "copy"} => full
  /\ full => /\ at \in {"publish", "clear", "fill", "set_bg", "create", "copy"}
             /\ image = frame /\ linear = frame

\* The pictures, place by place: what an update has changed and where.
PicturesInv ==
  /\ at \in Showing \cup Stopping \cup {"copy", "mirror", "receive"} =>
       mem[front] = frame /\ cached \cap Bands(front) = {}
  /\ at \in Showing \cup {"commit", "set_bg", "create", "mirror"} =>
       image = frame /\ (mapped => linear = frame)
  /\ at \in Showing => mem[back] = frame /\ cached = {}
  /\ at = "receive" =>
       /\ \A pass \in Passes \ dirty : image[pass] = frame[pass]
       /\ cached \subseteq {back} \X dirty
       /\ mapped => linear = image /\ mem[back] = frame /\ cached = {}
       /\ ~mapped => IF safe THEN mem[back] = image ELSE dirty # {}
  /\ at = "commit" =>
       /\ AgreesOutside(front) /\ AgreesOutside(back)
       /\ cached \subseteq {back} \X dirty
       /\ ~mapped => mem[back] = frame
  /\ at \in {"set_bg", "create"} =>
       /\ mem[tex] = frame /\ cached \cap Bands(tex) = {}
       /\ ~full => AgreesOutside(front) /\ cached = {}
  /\ at = "mirror" => AgreesOutside(back) /\ cached = {}

DisplayInv == TypeOK /\ EngineInv /\ BuffersInv /\ FullInv /\ PicturesInv

===============================================================================
