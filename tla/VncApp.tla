------------------------------- MODULE VncApp --------------------------------
(* The application coordinator of src/src/app.c over the RFB session: ordered   *)
(* startup, the request / receive / present loop, and the one place every fatal *)
(* path converges on.  It owns three resources (socket, graphics, diagnostics)  *)
(* and two images (the framebuffer, and gs_pixels made from it).                *)
(*                                                                              *)
(* The process is single-threaded: while a session call runs ("step" is not     *)
(* "idle") only the session takes steps.  Calls into the platform may fail.     *)
EXTENDS RfbSession

CONSTANTS DisplayWidth, DisplayHeight   \* PSTVNC_DISPLAY_WIDTH, _HEIGHT

ASSUME AppAssumption ==
  /\ DisplayWidth \in 1 .. MaxWidth
  /\ DisplayHeight \in 1 .. MaxHeight
  /\ <<DisplayWidth, DisplayHeight>> \in Geometries

VARIABLES
  app,               \* where pstvnc_app_run is
  held,              \* the resources the platform has handed out
  misused,           \* ghost: a resource was released that was not held
  socket_fd, graphics_ready, diagnostics_ready,   \* the coordinator's flags
  gs_pixels,         \* the presentation buffer
  screen,            \* what the GS shows
  textures,          \* ghost: VRAM texture allocations since graphics_init
  texture_configured,
  stages             \* the stage literals given to diagnostics, in order

appVars == <<app, held, misused, socket_fd, graphics_ready, diagnostics_ready,
             gs_pixels, screen, textures, texture_configured, stages>>

vars == <<sessionVars, appVars>>

Resources == {"socket", "graphics", "diagnostics"}

Blank == [c \in AllCells |-> 0]

NextBoot == [iop |-> "network", network |-> "link", link |-> "diagnostics"]

AppPlaces ==
  {"iop", "network", "link", "diagnostics", "connect", "framebuffer",
   "graphics", "start", "starting", "receiving", "convertFirst", "presentFirst",
   "convert", "present", "request", "requested", "updating", "fail", "close", "shutdown",
   "silence", "exited"}

AppTypeOK ==
  /\ TypeOK
  /\ app \in AppPlaces
  /\ held \subseteq Resources
  /\ {misused, socket_fd, graphics_ready, diagnostics_ready,
      texture_configured} \subseteq BOOLEAN
  /\ gs_pixels \in [AllCells -> Nat] /\ screen \in [AllCells -> Nat]
  /\ textures \in Nat
  /\ stages \in Seq({"NET_READY", "GS_READY", "DESKTOP_READY", "FATAL"})

AppInit ==
  /\ SessionInit
  /\ app = "iop"
  /\ held = {} /\ misused = FALSE
  /\ socket_fd = FALSE /\ graphics_ready = FALSE /\ diagnostics_ready = FALSE
  /\ gs_pixels = Blank /\ screen = Blank
  /\ textures = 0 /\ texture_configured = FALSE
  /\ stages = <<>>

\* The stages after send_diagnostic_literal(diagnostics_ready, stage).
Sent(stage) == IF diagnostics_ready THEN Append(stages, stage) ELSE stages

images == <<gs_pixels, screen>>
flags == <<socket_fd, graphics_ready, diagnostics_ready>>
texture == <<textures, texture_configured>>

------------------------------------------------------------------------------
(* Startup.                                                                     *)

\* prepare_iop, network_init and wait_link, in that order.
Boot ==
  /\ app \in DOMAIN NextBoot
  /\ app' \in {NextBoot[app], "fail"}
  /\ UNCHANGED <<sessionVars, held, misused, flags, images, texture, stages>>

\* The only step of startup whose failure is not fatal.
InitDiagnostics ==
  /\ app = "diagnostics"
  /\ app' = "connect"
  /\ \E ok \in BOOLEAN :
       /\ diagnostics_ready' = ok
       /\ held' = IF ok THEN held \cup {"diagnostics"} ELSE held
  /\ UNCHANGED <<sessionVars, misused, socket_fd, graphics_ready, images,
                 texture, stages>>

\* Fault: the coordinator does not remember that it owns the socket.
ConnectVncUnremembered ==
  /\ app = "connect"
  /\ app' = "framebuffer"
  /\ held' = held \cup {"socket"}
  /\ stages' = Sent("NET_READY")
  /\ UNCHANGED <<sessionVars, misused, flags, images, texture>>

ConnectVnc ==
  /\ app = "connect"
  /\ \/ /\ app' = "framebuffer"
        /\ held' = held \cup {"socket"}
        /\ socket_fd' = TRUE
        /\ stages' = Sent("NET_READY")
     \/ /\ app' = "fail"
        /\ UNCHANGED <<held, socket_fd, stages>>
  /\ UNCHANGED <<sessionVars, misused, graphics_ready, diagnostics_ready,
                 images, texture>>

\* framebuffer_init over remote_pixels, then set_geometry.
InitFramebuffer ==
  /\ app = "framebuffer"
  /\ IF GeometryAccepted(DisplayWidth, DisplayHeight)
     THEN /\ fb' = SetGeometry(Empty, DisplayWidth, DisplayHeight)
          /\ app' = "graphics"
     ELSE fb' = Empty /\ app' = "fail"
  /\ UNCHANGED <<session, step, result, expected, scratch, frame, completed,
                 opened, requested, held, misused, flags, images, texture,
                 stages>>

InitGraphics ==
  /\ app = "graphics"
  /\ \/ /\ app' = "start"
        /\ held' = held \cup {"graphics"}
        /\ graphics_ready' = TRUE
        /\ textures' = 0 /\ texture_configured' = FALSE
        /\ stages' = Sent("GS_READY")
     \/ /\ app' = "fail"
        /\ UNCHANGED <<held, graphics_ready, texture, stages>>
  /\ UNCHANGED <<sessionVars, misused, socket_fd, diagnostics_ready, images>>

------------------------------------------------------------------------------
(* Session calls: one action makes the call, the next reads what it returned.   *)

appOnly == <<held, misused, flags, images, texture, stages>>

StartSession ==
  /\ app = "start"
  /\ CallStart(DisplayWidth, DisplayHeight)
  /\ app' = "starting"
  /\ UNCHANGED appOnly

ReceiveInitialFrame ==
  /\ app = "starting" /\ step = "idle" /\ result = "ok"
  /\ CallReceiveInitial
  /\ app' = "receiving"
  /\ UNCHANGED appOnly

RequestNext ==
  /\ app = "request"
  /\ RequestUpdate
  /\ app' = "requested"
  /\ UNCHANGED appOnly

ReceiveNext ==
  /\ app = "requested" /\ step = "idle" /\ result = "ok"
  /\ CallReceiveUpdate
  /\ app' = "updating"
  /\ UNCHANGED appOnly

\* Any session call that returned zero is fatal, and so is lost authority.
SessionFailed ==
  /\ app \in {"starting", "receiving", "requested", "updating"}
  /\ step = "idle"
  /\ result = "fail" \/ (app = "updating" /\ ~fb.valid)
  /\ app' = "fail"
  /\ UNCHANGED <<sessionVars, appOnly>>

UpdateReturned ==
  /\ app \in {"receiving", "updating"}
  /\ step = "idle" /\ result = "ok"
  /\ app = "updating" => fb.valid
  /\ UNCHANGED <<sessionVars, appOnly>>

\* Fault: only the first update is presented.
UpdateNeverShown ==
  UpdateReturned
    /\ app' = IF app = "receiving" THEN "convertFirst" ELSE "request"

\* Fault: after an update without pixels the next is awaited unrequested.
UpdateUnrequested ==
  UpdateReturned
    /\ app' = IF app = "receiving" THEN "convertFirst"
              ELSE IF fb.dirty THEN "convert" ELSE "requested"

\* An update that wrote nothing is not presented.
UpdateReceived ==
  UpdateReturned
    /\ app' = IF app = "receiving" THEN "convertFirst"
              ELSE IF fb.dirty THEN "convert" ELSE "request"

------------------------------------------------------------------------------
(* Presentation.                                                                *)

DisplayAccepts ==
  fb.valid /\ fb.width = DisplayWidth /\ fb.height = DisplayHeight

\* Fault: the conversion consumes the dirty state it was asked for.
PrepareClearing ==
  /\ app \in {"convertFirst", "convert"}
  /\ gs_pixels' = fb.pixels
  /\ fb' = ClearDirty(fb)
  /\ app' = IF app = "convert" THEN "present" ELSE "presentFirst"
  /\ UNCHANGED <<session, step, result, expected, scratch, frame, completed,
                 opened, requested, held, misused, flags, screen, texture,
                 stages>>

PrepareGs16 ==
  /\ app \in {"convertFirst", "convert"}
  /\ IF DisplayAccepts
     THEN /\ gs_pixels' = fb.pixels
          /\ app' = IF app = "convert" THEN "present" ELSE "presentFirst"
     ELSE app' = "fail" /\ UNCHANGED gs_pixels
  /\ UNCHANGED <<sessionVars, held, misused, flags, screen, texture, stages>>

\* The texture's VRAM is allocated by the first presentation only.
Present ==
  /\ app \in {"presentFirst", "present"}
  /\ IF "graphics" \in held
     THEN /\ screen' = gs_pixels
          /\ textures' = IF texture_configured THEN textures ELSE textures + 1
          /\ texture_configured' = TRUE
          /\ stages' = IF app = "presentFirst" THEN Sent("DESKTOP_READY")
                                               ELSE stages
          /\ app' = "request"
     ELSE app' = "fail" /\ UNCHANGED <<screen, texture, stages>>
  /\ UNCHANGED <<sessionVars, held, misused, flags, gs_pixels>>

------------------------------------------------------------------------------
(* The convergence of every fatal path.                                         *)

\* A release: the flag decides, the platform knows whether it was held.
Release(resource) ==
  /\ held' = held \ {resource}
  /\ misused' = (misused \/ resource \notin held)

ReportFatal ==
  /\ app = "fail"
  /\ stages' = Sent("FATAL")
  /\ app' = "close"
  /\ UNCHANGED <<sessionVars, held, misused, flags, images, texture>>

\* Fault: cleanup waits for a socket that was never opened.
CloseOpenSocket ==
  /\ app = "close" /\ socket_fd
  /\ Release("socket")
  /\ app' = "shutdown"
  /\ UNCHANGED <<sessionVars, flags, images, texture, stages>>

CloseSocket ==
  /\ app = "close"
  /\ IF socket_fd THEN Release("socket") ELSE UNCHANGED <<held, misused>>
  /\ app' = "shutdown"
  /\ UNCHANGED <<sessionVars, flags, images, texture, stages>>

ShutdownGraphics ==
  /\ app = "shutdown"
  /\ IF graphics_ready
     THEN /\ Release("graphics")
          /\ texture_configured' = FALSE
          /\ screen' = Blank
     ELSE UNCHANGED <<held, misused, texture_configured, screen>>
  /\ app' = "silence"
  /\ UNCHANGED <<sessionVars, flags, gs_pixels, textures, stages>>

ShutdownDiagnostics ==
  /\ app = "silence"
  /\ IF diagnostics_ready THEN Release("diagnostics")
                          ELSE UNCHANGED <<held, misused>>
  /\ app' = "exited"
  /\ UNCHANGED <<sessionVars, flags, images, texture, stages>>

\* pstvnc_app_run returned; main leaves for OSDSYS and never comes back.
Exited == app = "exited" /\ UNCHANGED vars

------------------------------------------------------------------------------

Startup == Boot \/ InitDiagnostics \/ ConnectVnc \/ InitFramebuffer
             \/ InitGraphics

Service == StartSession \/ ReceiveInitialFrame \/ RequestNext \/ ReceiveNext
             \/ SessionFailed \/ UpdateReceived \/ PrepareGs16 \/ Present

Cleanup == ReportFatal \/ CloseSocket \/ ShutdownGraphics
             \/ ShutdownDiagnostics

Coordinator == Startup \/ Service \/ Cleanup

SessionRuns == (Handshake \/ Receive) /\ UNCHANGED appVars

AppNext == Coordinator \/ SessionRuns \/ Exited

\* Only the coordinator's own steps are fair: each is local computation or a
\* platform call that returns.  A session step may wait for the server forever.
AppSpec == AppInit /\ [][AppNext]_vars /\ WF_vars(Coordinator)

------------------------------------------------------------------------------
(* What the composed client guarantees.                                         *)

\* The picture on the screen is never torn: each of its pixels comes from an
\* update that arrived completely, also while the next one is being decoded
\* into the framebuffer and after it failed half way.
NoTornScreen ==
  screen # Blank =>
    \A c \in CellsOf(fb) : screen[c] \in completed

\* Whenever the coordinator asks for the next update, the screen already shows
\* everything received so far: skipping a clean update skips no pixel.
ScreenCurrent ==
  app = "request" => screen = fb.pixels

\* A receive call waits for an update only when a request is on its way, and
\* no more than one ever is: client and server never wait for each other.
OneRequestInFlight ==
  /\ step \in {"type", "skipHeader", "skipBody"} => requested = 1
  /\ requested <= 1

\* Each resource is released at most once and only by its holder, none is still
\* held when the coordinator returns, whichever step failed, and however many
\* updates are presented GS memory holds one desktop texture.
NothingLeaked ==
  /\ ~misused
  /\ app = "exited" => held = {}
  /\ textures <= 1

\* The session below the coordinator behaves as the session of any caller.
SessionRefined == SessionInit /\ [][SessionNext]_sessionVars

\* Once a fatal path is taken everything is released and the process leaves.
FailureConverges == app = "fail" ~> app = "exited" /\ held = {}

\* An update that wrote pixels is shown before anything else is asked for,
\* unless the presentation itself is fatal.
UpdateIsShown ==
  app = "updating" /\ step = "idle" /\ result = "ok" /\ fb.dirty
    ~> screen = fb.pixels \/ app = "exited"

------------------------------------------------------------------------------
(* The inductive strengthening of the guarantees above.                         *)

BeforeFramebuffer ==
  {"iop", "network", "link", "diagnostics", "connect", "framebuffer"}

Calling == {"starting", "receiving", "requested", "updating"}

\* The coordinator is inside a session call only where it waits for one, and the
\* framebuffer is bound exactly once.
CallProgress ==
  /\ app \notin Calling => step = "idle"
  /\ app \in BeforeFramebuffer => fb = Empty /\ screen = Blank

WholeImage(image) == \A c \in CellsOf(fb) : image[c] \in completed

ImageProgress ==
  /\ screen # Blank => WholeImage(screen)
  /\ app \in {"presentFirst", "present"} => WholeImage(gs_pixels)

\* The coordinator's flags say what the platform has handed out.
Ownership ==
  /\ misused = FALSE
  /\ held \subseteq Resources
  /\ "socket" \in held
       <=> socket_fd = TRUE /\ app \notin {"shutdown", "silence", "exited"}
  /\ "graphics" \in held
       <=> graphics_ready = TRUE /\ app \notin {"silence", "exited"}
  /\ "diagnostics" \in held <=> diagnostics_ready = TRUE /\ app # "exited"
  /\ app \in {"iop", "network", "link", "diagnostics"} => diagnostics_ready = FALSE
  /\ textures \in {0, 1}
  /\ app \notin {"silence", "exited"} =>
       (texture_configured = TRUE <=> textures = 1)

\* Where the coordinator is decides which call runs, and with it how many
\* requests are on their way.
RequestProgress ==
  /\ requested \in {0, 1}
  /\ app \in {"convertFirst", "presentFirst", "convert", "present", "request"} =>
       requested = 0
  /\ app = "starting" => \/ step \in HandshakeSteps /\ requested = 0
                         \/ step = "idle" /\ (result = "ok" => requested = 1)
  /\ app = "requested" => step = "idle" /\ (result = "ok" => requested = 1)
  /\ app \in {"receiving", "updating"} =>
       \/ step \in ReceiveSteps \ FrameSteps /\ requested = 1
       \/ step \in FrameSteps /\ requested = 0
       \/ step = "idle" /\ (result = "ok" => requested = 0)

\* What was received and is not shown yet is in gs_pixels, or the framebuffer is
\* dirty, or its update is still being decoded.
ScreenProgress ==
  /\ app \in {"presentFirst", "present"} => gs_pixels = fb.pixels
  /\ app \in {"request", "requested"} => screen = fb.pixels
  /\ app = "updating" =>
       /\ step \in ReceiveSteps \ {"rectangle", "row"} => screen = fb.pixels
       /\ ~fb.dirty /\ (step # "idle" \/ result = "ok") => screen = fb.pixels

AppInv ==
  /\ SessionInv /\ CallProgress /\ ImageProgress /\ Ownership
  /\ RequestProgress /\ ScreenProgress
==============================================================================
