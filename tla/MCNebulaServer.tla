--------------------------- MODULE MCNebulaServer ---------------------------
(***************************************************************************)
(* NebulaServer with two sub-reactors, two descriptors and two clients:    *)
(* both may be served at once, or the second have the first one's.  The    *)
(* first sends up to three units, the second of them a NUL byte: read with *)
(* its neighbours or alone.                                                *)
(***************************************************************************)
EXTENDS NebulaServer

MCMaxSent == <<3, 1>>
MCZero == <<{2}, {}>>
=============================================================================
