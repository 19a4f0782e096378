---------------------------- MODULE MCHiresDisplay ----------------------------
(* The arithmetic below the bands is exhausted over small inputs, and held to    *)
(* where the display relies on it.                                               *)
EXTENDS HiresDisplay, PixelMapping, Hextile, VideoModes

MappingExact == DeltaIsRebuild(3) /\ PlacementFits(6) /\ RowsKeptApart(6)
HextileExact == CarriesTheColours({"c1", "c2"}, 3) /\ TilesPartition(40, 16)
EveryModeFits == \A mode \in HiresModes : Fits(mode)

\* An update carried into the hidden buffer of a mapped display changes the pixels
\* a full rebuild would, no more and no less, at every scale and for every pair of
\* rectangles: no seam between an old span and a new one.
MappingIsExact == mapped /\ at \in {"commit", "mirror"} => MappingExact

\* Tiles cover a Hextile rectangle once, and each is painted with the background
\* and foreground in force, whatever raw, coloured and plain tiles came before it.
HextileIsTheProtocols == at = "receive" => HextileExact

\* Every mode of the catalogue is one gsKit_hires_set_bg accepts and the engine can
\* lay out, and its passes and fields together fetch every row of the buffer once.
ModesFit == configured => EveryModeFits

===============================================================================
