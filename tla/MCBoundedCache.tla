--------------------------- MODULE MCBoundedCache ---------------------------
(***************************************************************************)
(* TLC instances of BoundedCache.                                          *)
(***************************************************************************)
EXTENDS BoundedCache
=============================================================================
