------------------------------ MODULE MCMapBuf ------------------------------
(***************************************************************************)
(* Model values for the run of MapBuf: the stream that writes and one that *)
(* reads, or two.                                                          *)
(***************************************************************************)
EXTENDS MapBuf

CONSTANTS w, r, q
=============================================================================
