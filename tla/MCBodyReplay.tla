---------------------------- MODULE MCBodyReplay ----------------------------
(* Bodies of up to five bytes, with line ends at every kind of place.      *)
EXTENDS BodyReplay

MCLineEnds == {{}, {2}, {5}, {1, 2}, {3, 4}}
=============================================================================
