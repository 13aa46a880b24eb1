------------------------------ MODULE MCGlbShm ------------------------------
(* The values the callers of the object write: one on each side of zero.    *)
EXTENDS GlbShm
MCArgs == {-1, 1}
=============================================================================
