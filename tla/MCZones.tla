------------------------------- MODULE MCZones -------------------------------
(* Instances of Zones for TLC: a frame of 10 by 9 pixels, tiled in four ways   *)
(* from its first to its last pixel.                                         *)
EXTENDS Zones

Right == 18
Bottom == 16

\* Two zones with a slanted border, which runs through corners of pixels.
Slanted ==
    << << <<0, 0>>, <<8, 0>>, <<14, Bottom>>, <<0, Bottom>> >>,
       << <<8, 0>>, <<Right, 0>>, <<Right, Bottom>>, <<14, Bottom>> >> >>

\* Four rectangles that meet in a point, in both directions of drawing.
Quarters ==
    << << <<0, 0>>, <<8, 0>>, <<8, 8>>, <<0, 8>> >>,
       << <<8, 8>>, <<Right, 8>>, <<Right, 0>>, <<8, 0>> >>,
       << <<0, 8>>, <<0, Bottom>>, <<8, Bottom>>, <<8, 8>> >>,
       << <<8, 8>>, <<Right, 8>>, <<Right, Bottom>>, <<8, Bottom>> >> >>

\* Triangles around a point.
Pinwheel ==
    << << <<0, 0>>, <<Right, 0>>, <<8, 6>> >>,
       << <<Right, 0>>, <<Right, Bottom>>, <<8, 6>> >>,
       << <<Right, Bottom>>, <<0, Bottom>>, <<8, 6>> >>,
       << <<0, Bottom>>, <<0, 0>>, <<8, 6>> >> >>

\* A polygon that is not convex, with a notch which the other one fills.
Notched ==
    << << <<0, 0>>, <<Right, 0>>, <<Right, Bottom>>, <<12, Bottom>>, <<8, 4>>,
          <<4, Bottom>>, <<0, Bottom>> >>,
       << <<4, Bottom>>, <<8, 4>>, <<12, Bottom>> >> >>

FourLayouts == {Slanted, Quarters, Pinwheel, Notched}

ASSUME FourTilings == LayoutsTile
=============================================================================
