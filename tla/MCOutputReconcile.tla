-------------------------- MODULE MCOutputReconcile --------------------------
(* Two outputs, the Legacy Wall and a cast.                                *)
EXTENDS OutputReconcile
CONSTANTS left, right, wall, cast
MCOrder == <<left, right>>
=============================================================================
