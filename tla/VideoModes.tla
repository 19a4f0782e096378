------------------------------ MODULE VideoModes ------------------------------
(* The HIRES modes of the catalogue, the geometry the client derives from one,  *)
(* and how the pass engine lays it out in GS memory and fetches it from EE      *)
(* memory.  Lines and pixels; a pixel has two bytes.                            *)
EXTENDS Integers, FiniteSets

Mode(w, h, raster_w, raster_h, interlaced) ==
  [w |-> w, h |-> h, raster_w |-> raster_w, raster_h |-> raster_h,
   interlaced |-> interlaced, passes |-> 3]
Progressive(w, h) == Mode(w, h, w, h, FALSE)

HiresModes ==
  {Mode(704, 462, 720, 480, FALSE), Mode(720, 288, 720, 576, TRUE),
   Mode(1920, 540, 1920, 1080, TRUE)}
  \cup {Progressive(720, 576), Progressive(1280, 720), Progressive(640, 480),
        Progressive(800, 600), Progressive(1024, 768), Progressive(1280, 1024)}

\* ps2vnc_hires_effective_width, _full_frame_height, _requires_raster_mapping.
EffectiveWidth(mode) == IF mode.w < 64 THEN mode.w ELSE (mode.w \div 64) * 64

\* Fault: a field taken for the full frame.
FieldHeight(mode) == mode.h
FullFrameHeight(mode) == IF mode.interlaced THEN 2 * mode.h ELSE mode.h

RequiresVerticalMapping(mode) == FullFrameHeight(mode) # mode.raster_h
RequiresRasterMapping(mode) ==
  EffectiveWidth(mode) # mode.raster_w \/ RequiresVerticalMapping(mode)

\* The buffers in EE memory.
StorageWidth(mode) == EffectiveWidth(mode)
StorageHeight(mode) == IF RequiresVerticalMapping(mode) THEN mode.h ELSE mode.raster_h

------------------------------------------------------------------------------
(* gsKit_hires_init_screen: the front buffer cut into passes.                   *)

RoundUp(n, unit) == ((n + unit - 1) \div unit) * unit
Pitch(mode) == RoundUp(EffectiveWidth(mode), 64)
PassHeight(mode) == RoundUp((mode.h + mode.passes - 1) \div mode.passes, 64)

\* bufferline_begin and bufferline_end + 1; the last pass is shorter.
Line(mode, pass) ==
  IF pass * PassHeight(mode) > mode.h THEN mode.h ELSE pass * PassHeight(mode)
Address(mode, pass) == 2 * Pitch(mode) * Line(mode, pass)
LinesOf(mode, pass) == Line(mode, pass)  .. Line(mode, pass + 1) - 1

\* gsKit_setpass_background: the rows of EE memory a pass fetches, in each field.
Fields(mode) == IF mode.interlaced THEN {0, mode.h} ELSE {0}
Fetched(mode, pass, field) == {field + line : line \in LinesOf(mode, pass)}

\* gsKit_hires_set_bg.
AcceptsBackground(mode) ==
  /\ StorageWidth(mode) = EffectiveWidth(mode)
  /\ StorageHeight(mode) = (IF mode.interlaced THEN 2 * mode.h ELSE mode.h)

------------------------------------------------------------------------------

GsMemory == 4 * 1024 * 1024
FramePage == 8192
CapacityWidth == 1920
CapacityHeight == 1080

\* GS registers count pages and units of 64 pixels: a pass starts on a page, has
\* lines of its own, and its rows, packed in EE memory, are as long as the pitch.
\* The next pass's area is its depth buffer, so that all areas are of one size.
LaidOut(mode) ==
  /\ Pitch(mode) = EffectiveWidth(mode)
  /\ mode.passes * PassHeight(mode) * 2 * Pitch(mode) <= GsMemory
  /\ \A pass \in 0 .. mode.passes - 1 :
       /\ LinesOf(mode, pass) # {} /\ Cardinality(LinesOf(mode, pass)) <= PassHeight(mode)
       /\ Address(mode, pass) = pass * PassHeight(mode) * 2 * Pitch(mode)
       /\ Address(mode, pass) % FramePage = 0

\* Every row of the buffer is fetched once, by one pass in one field.
FetchesAll(mode) ==
  \A row \in 0 .. StorageHeight(mode) :
    Cardinality({part \in (0 .. mode.passes - 1) \X Fields(mode) :
                   row \in Fetched(mode, part[1], part[2])})
      = IF row < StorageHeight(mode) THEN 1 ELSE 0

\* Without a mapping the desktop's pixels are stored where they are in the desktop.
StoresTheDesktop(mode) ==
  /\ mode.raster_w <= CapacityWidth /\ mode.raster_h <= CapacityHeight
  /\ ~RequiresRasterMapping(mode) =>
       StorageWidth(mode) = mode.raster_w /\ StorageHeight(mode) = mode.raster_h

Fits(mode) ==
  AcceptsBackground(mode) /\ LaidOut(mode) /\ FetchesAll(mode) /\ StoresTheDesktop(mode)

===============================================================================
