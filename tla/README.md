# TLA+ models of PS-to-VNC

This directory models the PS-to-VNC client, a VNC viewer for the PlayStation 2,
checks the models with TLC and proves theorems about them with TLAPS.

The repository holds two programs, and both are modelled:

- the **clean core**, `src/src/`: a single-threaded client in small C files. It
  starts one RFB session, decodes Raw rectangles into one authoritative
  framebuffer and presents it;
- the **legacy client**: the program in use. It has two threads (main and
  controller) and a display driver with a thread and an interrupt of its own,
  which talk through shared variables mostly without locks; menus and chords,
  display-mode transactions that a Raspberry Pi records, remote display control,
  calibration, reconnection and Hextile.

The legacy client exists twice: as one file, `src/baseline/frozen-b4a/ps2ip.c`
with its driver `ps2vnc_gsHires.c`, and under `src/working/b4a/`, the same code cut
mechanically into `.inc` files. The models are of the one program; `PROJECT.json`
names the lines of `ps2ip.c` for what both hold. The Pi's management service is
modelled from the copy kept with the evidence
(`src/evidence/m3/m3y-hardware-20260830-102350/retry-2-20260830-103652/management-server.py.snapshot`).

Paths below are relative to the repository: `app.c` is `src/src/app.c` and
`display_tail.inc` is `src/working/b4a/ps2vnc_display_tail.inc`.

## 1. Inventory

### Clean core

| component | state | operations | what makes it correct |
|---|---|---|---|
| Framebuffer authority, `framebuffer.c` | geometry, `valid`, `dirty`, `dirty_rect`, pixels | init, set geometry, write rectangle, mark valid, invalidate, clear dirty | `valid` means every pixel came from complete updates; `dirty_rect` encloses what the last update wrote |
| RFB session, `rfb_session.c` | `state`, `error`, the server's geometry, coverage bitmap | start (handshake), request, receive initial frame, receive update | no authority over a torn, stale or partly covered image; a failure is final for its connection |
| RFB codec, `rfb_protocol.c` | none | parse and write messages | bounds before sums; refusals |
| Exact I/O, `platform/ps2_network.c` | one static receive buffer, tied to a descriptor | connect, close, read exact, write exact | a read returns the next bytes of this connection and no other |
| Coordinator, `app.c` | its place, socket / graphics / diagnostics flags | ordered startup, service loop, one fatal path | ordered calls, one request in flight, nothing leaked, every update shown |
| GS presentation, `platform/ps2_graphics.c`, `display_conversion.c` | GS buffer, texture | init, convert, present, shut down | one texture in VRAM, never a torn picture |
| Diagnostics and identity, `platform/diagnostics.c`, `identity.c` | UDP socket, `ps2vnc_identity_sent` | stage, wrapped `sendto` | a datagram waiting for ARP is not replaced; one identity |

They call downwards (`app.c` -> session -> codec and exact I/O -> PS2IP) and
return a status. What is hard: a failure in the middle of a decode, the order of
coverage and authority, a restart on the same objects, a receive buffer that
outlives its descriptor, and the release of everything from each fatal exit.

### Legacy client

| component | state | operations | what makes it correct |
|---|---|---|---|
| Live loop, `display_tail.inc` | `rfb_update_request_outstanding`, the socket, drawn generations | serve one request at the loop's head, draw, ask, receive, yield, recover | one request at a time; a wait only for what was asked; exit honoured |
| Recovery, `management_core.inc` | attempt counter, `rfb_connected` | automatic and manual recovery, reopening for a rollback | a bounded number of attempts; no stale bytes or input in a new session |
| Display transaction, `display_core.inc`, `runtime_tail.inc`, `ui_tail.inc` | `display_confirm_*`, active and previous profile; on the Pi, the record of the candidate, the startup mode and the stored presets | begin, arm, switch, confirm, time out, commit, roll back, acknowledge; at a start: reconcile | a candidate is kept or taken back exactly once, owns every failure until then, and whatever is cut off the next start undoes it |
| Remote display control, `display_core.inc` | `remote_display_state`, lease deadline; on the Pi, the operator's record | poll, SET_TEMP, RESTORE, lease expiry | temporary only; waits for the local transaction; the operator is told the truth |
| HIRES driver, `ps2vnc_gsHires.c` | pass queues, draw queues, current pass, two semaphores | create, set background, flip, toggle, destroy; the scanline interrupt; the thread | what is being sent is not being written |
| HIRES presentation, `display_core.inc`, `framebuffer_core.inc` | two buffers in EE memory, the linear framebuffer, the dirty rectangle, the overlay's bitmap | publish a full desktop, decode a rectangle, commit, mirror, draw the overlay | the buffer shown is the server's last complete desktop; both buffers agree before an update starts |
| RFB decoder, `framebuffer_core.inc`, `framebuffer_tail.inc` | pixels, Hextile carry-over | Raw, Hextile, ExtendedDesktopSize | tiles at the edges, colours carried over, confirmed resizes |
| Mode catalogue, mapping, `display_core.inc` | tables | geometry of modes, raster mapping of a desktop to the storage | buffers and passes fit; a partial update equals a rebuild |
| Controller input, `ui_tail.inc` | the arbiter, quarantine, last button mask, visible menus | read the pad, chords, menus, dialogs, keyboard, pointer events | one owner of each press; one action per chord; nothing kept by accident |
| Input queue, `runtime_core.inc` | ring of ten messages, connection flag | queue, flush, reset, discard | order, no repetition, no input across an outage |
| Pad handoff, `calibration_tail.inc` | pause requested, pause acknowledged | acquire, release | exclusive use, quiet reconstruction, no thread held for ever |
| Calibration, management client, configuration | safe areas, HTTP buffers, configuration text | wizards, GET and POST | arithmetic, parsing; a request is applied, refused or lost |

The main thread runs at a higher priority than the controller, so the controller
runs where the main thread blocks: in a receive, an HTTP exchange, a flip, a
sleep. The controller *publishes* (`display_mode_request`,
`display_confirm_action`, `runtime_action_request`, the ring) and the main thread
*claims*. The driver's thread runs above both, woken by an interrupt at fixed
scanlines. What is hard: what is published while a claimed request is served;
flags that outlive the session they describe; a deadline that fires on the other
thread; who owns a failure; a power cut between a request the Pi has applied and
its answer; chords that share buttons; a transfer that is still reading what is
about to be written.

`PROJECT.json` lists every component with its status and every hazard with its
source line and the properties that cover it, or the reason none does.

## 2. Modules

| module | models | state and actions against the code |
|---|---|---|
| `Framebuffer` | `framebuffer.c` | operators on one record. A pixel is the number of the update that last wrote it: exactly what `valid` and `dirty` make claims about |
| `RfbSession` | `rfb_session.c` over `Framebuffer` | one action per exact read or write; `step` is the place in the running C function. Reads deliver any value the wire allows, or fail. The caller is arbitrary |
| `VncApp` | `app.c` over `RfbSession` | extends `RfbSession` with the coordinator's place, its resources, `gs_pixels` and the screen. While a session call runs only the session steps |
| `ByteStream` | what `rfb_io.h` promises | the abstract specification: an ordered stream per connection |
| `ExactIo` | `ps2_network.c` | `recv` and `send` cut the data as they like, a closed descriptor may be handed out again |
| `StartupDiagnostics` | `diagnostics.c`, `identity.c`, `app.c`'s stages | each stage goes through the wrapped `sendto`; the stack's one pending packet per unresolved address is external |
| `LiveLoop` | the legacy live loop, recoveries, transaction and remote control, menus | `main` names the places where the main thread blocks or decides; an action runs from one to the next. Controller actions interleave at those places |
| `ControllerQueue` | the legacy ring and the pad handoff | a section under `rfb_queue_sema` is one step; each unlocked read or write of a flag is one step |
| `ControllerInput` | `controller_thread`, the hotkey arbiter, menus and dialogs, and the main thread's side of what they ask | a poll is two steps, the arbiter and then one branch, as the main thread may run in between; a branch is the body of one `if` of the thread |
| `DisplayAuthority` | what a display transaction promises across two machines | the abstract specification: a confirmed mode, a trial, and that only a kept trial becomes confirmed |
| `DisplayTransaction` | BEGIN to ACK between client and Pi, the operator's record, the fresh start | an action is one exchange: heard, refused, lost, or applied with its answer lost. `Crash` is a cut of the client's power anywhere; `PiRestarts` the service's own reconciliation; a commit may break after any of its writes |
| `HiresDisplay` | `ps2vnc_gsHires.c` and the HIRES presentation | interrupt, thread and main interleave; a transfer is in flight until `DmaEnds`. The picture is kept band by band, a band holding the number of the update that wrote it |
| `PixelMapping` | the raster mapping of a desktop to another size of storage | spans and the expansion of a dirty rectangle, against a rebuild of everything |
| `Hextile` | the Hextile tile decoder | a tile sequence against a decoder that carries nothing, written from the protocol's rules as the code uses them |
| `VideoModes` | the mode catalogue, the HIRES geometry and the engine's layout of passes | tables and pure operators |

How they compose. `VncApp` composes the session with its only caller;
`RfbSession` is checked alone as well because it promises more: any caller, any
server, restarts. The legacy client's main thread appears in four modules, each
at the grain its questions need: `LiveLoop` has the loop with its failures, and
a step of the Pi is one that succeeds or fails; `DisplayTransaction` has the Pi
with its lost answers and power cuts, and a live step runs from one exchange to
the next; `ControllerInput` has the buttons; `HiresDisplay` the memory. Where one
has a detail the others take a nondeterministic choice over what it can produce.
`DisplayTransaction` is an implementation of `DisplayAuthority`, `ExactIo` of
`ByteStream`, `VncApp` of `RfbSession`.

Some definitions are introduced by a comment `Fault:` or stand before the one they
vary. They are plausible bugs in the definition that follows them and no
specification uses them; `PROJECT.json` names, for each property, the one that
breaks it.

## 3. Runs

`tlc -config MCx.cfg MCx` for each. Distinct states are TLC's.

| run | states | question |
|---|---|---|
| `MCRfbSession` | 620,758 | For any caller and server: when is the framebuffer's authority justified? |
| `MCVncApp` | 7,076 | Is what the composed client shows complete and current, does every fatal path release everything? |
| `MCExactIo` | 169,808 | Does buffered I/O implement the byte stream? |
| `MCStartupDiagnostics` | 295 | Is a diagnostic lost to ARP, is the identity sent once? |
| `MCLiveLoop` | 103,368 | Is a candidate always decided, does it own its failures, is a request never doubled, an exit honoured? |
| `MCControllerQueue` | 84,349 | Order, exclusive pad, quiet reconstruction, nobody stuck |
| `MCControllerInput` | 655,985 | Whose is a press, what may a chord do, what keeps a candidate? |
| `MCDisplayTransaction` | 514,680 | Whatever is cut off or lost: what does the next start find and show? |
| `MCHiresDisplay` | 379,596 | Is what the engine sends ever what is being written, is it the server's desktop, does it go on? |
| `MCLiveLoopRefresh`, `MCControllerQueueOutage`, `MCDisplayTransactionStart` | to the counterexample | three statements of the sources that the code does not keep; section 4 |

Nine more configurations are kept for the reader and are not in `PROJECT.json`:
`MCHiresDisplayTypes` checks the inductive invariant `DisplayInv` on the instance of
`MCHiresDisplay`; `MCLiveLoopAnswer`, `MCLiveLoopStall`, `MCDisplayTransactionRetry`,
`MCHiresDisplayOverlay`, `MCControllerInputHotkeys`, `MCControllerInputExit`,
`MCControllerInputHandoff` and `MCControllerInputRelatch` end in the further
counterexamples of section 4.

### Properties

*Session.* `NoTornAuthority`, `FreshAuthority`: a valid framebuffer shows complete
updates, of this connection. `AuthorityFromOneFrame`: authority is gained only
over an image one update wrote entirely. `RowsInBounds`.

*Application.* `NoTornScreen`, `ScreenCurrent`, `UpdateIsShown`: skipping a clean
update skips no pixel. `OneRequestInFlight`: client and server never wait for
each other. `NothingLeaked`, `FailureConverges`; `SessionRefined`: the composition is
a run of `RfbSession`.

*I/O and diagnostics.* `StreamImplemented` (a refinement of `ByteStream`),
`NothingReplaced`, `IdentifiedOnce`.

*Live loop.* `CandidateOwnsFailures`, `ShowsTheConfirmed`, `LocalCandidateDecided`:
the transaction. `OneRequestAtATime`, `ExitHonoured`.

*Queue.* `PadExclusive`, `QuietWhileOwned`, `InputInOrder`, `ControllerGoesOn`.

*Input.* `KeepIsDeliberate`: a press made in the dark of a switch never keeps a
candidate. `OneTransaction`: none is armed over an open one, although requests can be
published while BEGIN is on the wire. `ButtonsAccounted`: no screen that opens in a
drag leaves a mouse button pressed at the server. `LocalPressesStayLocal`: a press on a
screen that closes is no click on the desktop. `ChordIsSpent`: a chord that fired,
released button by button, opens, asks for and sends nothing else. Both last until the
release, with one exception that the model keeps in `forgotten` and `spent`: a remote change
takes the pad and gives it back with the buttons still down (section 4).

*Transaction.* `RecordFirst`: a candidate on the display is on the Pi's record, with
the profile to go back to. `OnlyTheKeptIsConfirmed`: the two machines implement
`DisplayAuthority`, through crashes, lost answers and a commit that breaks half way.
`LiveCoherent`: a live session draws at the size the server has. `OperatorToldTheTruth`:
RESTORED is reported when it is true. `StartRestores`: an undisturbed start undoes
what was on trial.

*HIRES.* `MemoryOwned`: neither a buffer nor the draw queue is written while the
engine sends it, and no transfer outlives its memory. `FrameIsServers`, `BuffersAgree`:
the shown buffer is the server's last complete desktop however the update came, and
both buffers agree before the next. `KeepsShowing`: late passes and failures stop
neither the loop nor the picture, only a server that stops inside what it owes does. `MappingIsExact`, `HextileIsTheProtocols`, `ModesFit`: the
arithmetic below the bands against reference definitions, over every input up to
the bounds.

### Bounds, and why they are enough

- `MCRfbSession`: geometries up to 3 x 3 with a capacity of 6 pixels, so that a
  geometry may also not fit; rectangles that fit, cross an edge or are empty; three
  rectangles an update (an overlap, a gap and a repair), two updates, any number
  of restarts. `MaxRowPixels` and `MaxFramePixels` are exceeded by some of them. What
  a decision depends on is one pixel's last writer, a sum against a bound and a
  count against a product: small grids reach both sides of each.
- `MCVncApp`: one row of two pixels, three updates: the first frame, a dirty and a clean one.
- `MCExactIo`: a buffer of two bytes, calls of up to three (a call larger than
  the buffer, a read that ends inside it), two connections on two descriptors,
  so that a descriptor is reused or not.
- `MCStartupDiagnostics`: no bound; the program is finite.
- `MCLiveLoop`: three modes (the one shown, the candidate, another one requested
  meanwhile), two attempts of a recovery (the constant is ten: "not the last" and
  "the last" are the cases told apart). The loop itself is not bounded.
- `MCControllerQueue`: capacity two of ten (empty, between, full), four messages
  (the ring wraps and stays full), three sessions (an outage in an outage).
- `MCControllerInput`: two modes. A grip is what the user may hold together; the eight
  of `MCGrips` reach the desktop's chord, Display Settings and its let-go with CIRCLE,
  Exit's hold, every arrow of a menu, the mouse button CROSS and the keyboard. The settle
  and hold times are 1, 2 and 2 polls ("not yet" and "now"). `MaxEvents` bounds the
  changes of grip, timers and remote requests of one run; polls, requests of the menus and
  answers are not bounded. The hold chord of Refresh is left to the system menu,
  which asks for the same thing.
- `MCDisplayTransaction`: one HIRES and one Standard mode, as only a HIRES mode's
  desktop follows its calibration; a calibrated and a full fit; two faults, so that the undoing of
  one fault can be disturbed by another. Starts, trials and requests of the operator
  are not bounded.
- `MCHiresDisplay`: two passes (the last, which announces the frame, and one that is
  not), two updates after the first publication, one fault (a late pass, a failed
  receive, a Refresh, a change of mode). Between them an update is followed by one
  of another kind in the other buffer. The arithmetic: pairs of
  dirty rectangles in desktops of up to 3 x 3 at every scale up to 3 x 3, placements in up to 6
  pixels, Hextile streams of up to three tiles (set, carried, interrupted), rectangles cut up to 40
  pixels long into tiles of 16, every HIRES mode of the catalogue.

### Fairness

- `VncApp`: weak fairness of the coordinator's own steps only. They are local
  computation or platform calls that return. A session step may wait for the
  server for ever: the code has no receive time-out, and nothing is claimed
  that would need one.
- `LiveLoop`: weak fairness of the main thread except in the places where it
  waits for the server, or for the user at the calibration screen, with no hard
  action to end the wait (`MayBlockForEver`, from the escapes in `recv_exact`);
  the clock runs (weak); `ConfirmTimeout` is strongly fair, because the controller
  polls the deadline whenever the main thread blocks, although it cannot run in
  between. No fairness for the server, the user or the remote operator.
- `ControllerQueue`: weak fairness of each thread. Receives are polled with a
  sleep, connects and acquisitions time out, and a flush is part of every wait.
  The environment's choices are part of the main thread's steps.
- `DisplayTransaction`: weak fairness of the steps of a start, each of which is one
  exchange that returns or fails and needs no user; `StartRestores` speaks of a start that
  is not forced to calibrate. None for the live session.
- `HiresDisplay`: the raster goes on and a transfer ends (hardware), the thread and the loop
  run when they can. Main's own steps (`Works`) are strongly fair because what they wait for (no transfer in
  flight, the lock free) comes and goes, and Main waits by polling. The server is not fair,
  neither between messages nor inside one. Between them `KeepsShowing` holds while it is
  silent, because a receive that waits yields for redraws; inside an update, in the handshake of
  a recovery and before the desktop of a new display `recv_exact` polls without a
  limit, which the property admits as its one exception (`AtServer`).
- The other specifications state safety only.

## 4. Where the sources and the code differ

Three listed runs check a statement of the sources; TLC finds each violated. The
quotes and lines are in `PROJECT.json` under "findings".

1. `RefreshClaimed` (`MCLiveLoopRefresh`). Only the manual path claims the Refresh before its
   handshake. One accepted as an automatic recovery begins aborts every attempt.
2. `NoInputAcrossOutage` (`MCControllerQueueOutage`). The connection is checked once,
   outside the semaphore: a message made before an outage can be queued after both resets.
3. `StartIsPossible` (`MCDisplayTransactionStart`). A calibration that was not stored
   becomes the previous profile of a transaction. If that trial is then cut off, no later
   start can reconcile the record with the configuration, and the client refuses to start
   until the record is repaired on the Pi.

The other configurations show behaviour a maintainer may want to know of:

4. `AnswerIsOnItsWay` (`MCLiveLoopAnswer`). A yield keeps the outstanding flag. A Refresh or a
   calibration served at the loop's head then replaces the session without
   clearing it, so the loop may wait on a new session that was asked nothing.
5. `StallEnds` (`MCLiveLoopStall`). The fail-safe against a stalled switch is executed by the
   controller thread, which a remote switch pauses for its whole duration.
6. `ExitNeverCutsAcross` (`MCControllerInputExit`). Between the claim of a mode request and the
   arming of its transaction Exit is open, although BEGIN may already be on record.
7. `HotkeysAreDesktops` (`MCControllerInputHotkeys`). A chord whose first button went down on
   the desktop and whose second on the keyboard opens the display menu when the keyboard closes.
8. `LocalUntilReleased` (`MCControllerInputHandoff`) and `ChordUntilReleased`
   (`MCControllerInputRelatch`). "Release is the only thing that clears local ownership"
   (`ps2ip.c:5573`), and a chord is "latched until all hotkey buttons are released" (5586). The
   pad's return forgets both (5548, 5551) because "the main thread will return ownership only
   after a clean physical release" (5522), which a remote change does not wait for (16375): a
   Cross held on a local screen through it clicks on the desktop, R1 kept from Exit's chord sends TAB.
9. `RetryCanSucceed` (`MCDisplayTransactionRetry`). A COMMIT or ACK that was applied with
   its answer lost leaves a dialog whose repeated answer the Pi refuses; the next start
   is right.
10. `OverlayIsWhatWasRecorded` (`MCHiresDisplayOverlay`). The overlay's generation is recorded
    after a wait; a change in that wait is taken for drawn and shows with the next one.

## 5. Proofs

`tlapm XProofs.tla`. Each is for every value of the constants that satisfies
the named assumption of its module.

- **`VncAppProofs`**, first the session alone (`FramebufferAssumption`, `SessionAssumption`).
  `SessionInvariant` is the inductive strengthening: type correctness with, at each place
  of the receive functions, what has been written and covered so far. "No torn
  authority" alone is not inductive: that completion may mark the image valid
  needs the pixels of the frame counted by the bitmap, the bitmap by
  `covered_pixels`, and that by the header's product. The lemmas about operators
  (what `WriteRect` changes, how many cells a rectangle has) come first; the
  argument that a bitmap as large as the geometry *is* the geometry is cardinality
  of finite sets. From it: `SessionTypeCorrect`, `AuthorityNeverTorn`,
  `AuthorityFresh`, `RowsAlwaysInBounds`, `CoverageAlwaysAgrees`,
  `AuthorityOnlyFromOneFrame`, `FailureRevokes`, `FailureStays`.
- **`VncAppProofs`**, then the coordinator over it (and `AppAssumption`).
  `AppRefinesSession`: each step of the coordinator is a caller's step of `RfbSession` or
  leaves it alone. With the session's invariant carried over, `AppInvariant` adds three
  things. `AppProgress`: a session call runs only where the coordinator waits for one, a
  converted image is whole, the flags say what is held. `RequestProgress`: that place
  decides how many requests are on their way; when a frame step runs, its request was
  answered. `ScreenProgress`: what was received and is not yet shown is in `gs_pixels`,
  or `fb.dirty` says so, or its update is still being decoded. From them
  `ScreenNeverTorn`, `NothingEverLeaks`, `AppTypeCorrect`, `AlwaysOneRequestInFlight`, and
  `ScreenAlwaysCurrent`: an update the coordinator skips as clean left no pixel behind.
- **`ExactIoProofs`** (`ExactIoAssumption`). The invariant `IoInv` says the buffer
  between its positions is the next unread part of this connection's stream, and
  the destination its prefix; under it every step maps to a step of `ByteStream` or a
  stutter: `ExactIoImplementsStream`.
- **`StartupDiagnosticsProofs`**. The invariant `DiagnosticsInv` relates the packet that
  waits, what was accepted and what was observed: `NothingEverReplaced`,
  `AlwaysIdentifiedOnce`.
- **`ControllerQueueProofs`** (`ControllerQueueAssumption`). `QueueInv` is the
  inductive invariant, in three parts. `PauseInv`: the acknowledgement stands
  exactly while the controller pauses; with the request held by the main thread
  it gives `PadAlwaysExclusive`, and with the controller away from the ring
  `ReconstructionAlwaysQuiet`. `RingInv`: head, tail and count agree for a ring
  of any capacity, with the slot of the i-th message written without `%`
  (`NextSlotWraps` and `SlotAdvances` relate the two). `SendInv`: delivered, being
  sent, queued, in the controller's hand is the order of age, whatever is
  dropped on the way. From them `InputAlwaysInOrder`, and `QueueTypeCorrect`.
- **`DisplayTransactionProofs`** (`DisplayTransactionAssumption`): any catalogue, any
  calibrations and any number of crashes and lost messages. That the record comes first
  is not inductive: the invariant adds, for each place of the client, which states the
  record may be in and with which profiles, what a start has seen against what is on
  record now (the service may finish a commit in between, and only then), and where the
  server's desktop is. From it `RecordAlwaysFirst`, `LiveAlwaysCoherent`,
  `OperatorNeverMisled`, and `OnlyKeptConfirmed`: every step of the two machines is a
  step of `DisplayAuthority` or a stutter.
- **`LiveLoopProofs`** (`LiveLoopAssumption`): any catalogue, any number of attempts. The
  invariant ties a transaction to the configured mode as its way back, says that a
  Refresh that slipped in before the arming cannot outlive the switch, and that what the
  server still owes belongs to a request the client remembers, except on a stream it is
  about to close. From it `FailuresAlwaysOwned`, `AlwaysShowsTheConfirmed`,
  `AlwaysOneRequest`.
- **`ControllerInputProofs`** (`ControllerInputAssumption`): any catalogue, any grips and
  any length of the polls' counters. The invariant places the dialog, the candidate and
  the Pi's record against each other for each place of the main thread, keeps the pad's
  handoff within them, and says that a press a screen took is in quarantine, and a fired chord
  latched, until it is released or the pad is taken for a remote change and given back.
  From it `KeepAlwaysDeliberate`, `AlwaysOneTransaction`,
  `LocalPressesAlwaysLocal`, `ButtonsAlwaysAccounted`, `ChordAlwaysSpent`.
- **`HiresDisplayProofs`** (`HiresDisplayAssumption`: at least one pass, and a `None` that is
  no buffer): any number of passes, updates, faults and background changes. `MemoryOwned`
  alone is not inductive: that a write misses what the engine fetches follows from which
  buffer is on show, which the main thread may turn over only when the queues are
  still. `DisplayInv` says it in parts. `EngineInv`: who holds the lock, what the engine
  may be fetching and from where, for each place of the drawing thread and of the main
  thread. `BuffersInv`: the roles of `front`, `back` and the direct target. `PicturesInv` and
  `FullInv`: band by band, what each buffer and the application's images hold, and which
  bands are still in the cache. From them `DisplayTypeCorrect`, `MemoryAlwaysOwned`,
  `FrameAlwaysServers`, `BuffersAlwaysAgree`.
- The same module proves the arithmetic below the bands for inputs of every size, where the
  runs check small ones. `DeltaIsRebuildAlways`: remapping only what a set of dirty
  rectangles touches gives the picture that remapping everything gives, for any sizes of
  source and target. `ColoursAlwaysCarried`: the colours a Hextile tile leaves out are those
  of the last tile in force that set them, for any number of tiles. Under them: the tiles cover the
  rectangle once, a placed picture fits, no two rows share a byte, a row is fetched in
  one pass. `MappingAlwaysExact`, `HextileAlwaysTheProtocols` and `ModesAlwaysFit` are the
  invariants of the run as corollaries.

Each invariant was checked with TLC on the run's instance before it was proved.
Records that steps change with `EXCEPT` carry a conjunct that says which fields
they have (`Shaped` and its parts); the type invariants say which values.

The arithmetic needs induction over naturals, and the library's theorems for it take an
operator. `SetInduction` is the way round: a set of naturals that holds 0 and with
each number the next holds them all, because the numbers left out would have a least
(`LeastOf`, from `WFMin` and the well-founded order of finite sets). A recursive function
is then reasoned about through the set of arguments at which the claim holds.

Only model-checked: the liveness properties (`FailureConverges`, `UpdateIsShown`,
`LocalCandidateDecided`, `ExitHonoured`, `ControllerGoesOn`, `StartRestores`,
`KeepsShowing`), which need fairness and are outside the prover. Every invariant and every
other action property of the runs is a theorem.

## 6. Not modelled

- Values of pixels, names and messages: no decision modelled depends on them.
- In `LiveLoop`: failures of the GS (they end the client), startup (it is
  `DisplayTransaction`'s). An HTTP exchange succeeds or fails as a whole; the Pi's record
  changes exactly when the client hears of it. Lost answers are `DisplayTransaction`'s.
- In `DisplayTransaction`: the text of requests and answers, the management client's buffers;
  the resize of the server's desktop is one step that leaves it at either size when it fails.
- In `ControllerInput`: the stick, scrolling, acceleration, the keyboard's layout and key
  tables. In `ControllerQueue`: what a button means. The semaphores are the kernel's.
- In `HiresDisplay`: GS registers, DMA tags, what the overlay draws, the Standard (not
  HIRES) backend, which uploads one texture.
- Configuration text, debug reports and calibration's arithmetic are sequential text
  and layout that unit tests reach; `src/src/video` is not linked into the program.
- Scripts, frozen copies and evidence hold no state of the program.

## 7. What could follow

1. The receive loop of the legacy decoder with its message boundaries: an
   ExtendedDesktopSize rectangle before, in or after an update, and a server that never
   confirms. The resize is a single step so far.
2. The session's dirty box: how the union of an update's rectangles becomes the region the
   presentation remaps, so that `DeltaIsRebuildAlways` meets `ScreenCurrent`.
3. An abstract specification of the presentation ("the screen shows some complete frame, and
   later ones only") and `HiresDisplay` shown to implement it.
4. `ControllerInput` over `ControllerQueue`: one model of the press from the pad to the wire.
