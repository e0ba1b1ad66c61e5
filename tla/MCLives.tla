------------------------------ MODULE MCLives ------------------------------
(* Lives with runners numbered from 1.                                     *)
EXTENDS Lives

SixIds == 1 .. 6
=============================================================================
