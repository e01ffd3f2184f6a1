------------------------ MODULE MCBackgroundResponses -------------------------
(* TLC instances of BackgroundResponses.                                   *)
EXTENDS BackgroundResponses

CONSTANTS r1, r2, w1, w2
=============================================================================
