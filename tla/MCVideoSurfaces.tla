--------------------------- MODULE MCVideoSurfaces ---------------------------
(* Instance of VideoSurfaces for TLC. *)
EXTENDS VideoSurfaces, TLC

CONSTANTS s1, s2, s3, s4, s5

MCSurfaces == {s1, s2, s3, s4, s5}

(* The renderer and the decoder treat all surfaces alike. *)
SurfaceSymmetry == Permutations(MCSurfaces)
=============================================================================
