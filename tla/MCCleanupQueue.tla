--------------------------- MODULE MCCleanupQueue ---------------------------
(***************************************************************************)
(* A small instance of CleanupQueue: w2's clock is ahead of w1's.          *)
(***************************************************************************)
EXTENDS CleanupQueue, TLC

CONSTANTS w1, w2, j1, j2

OneAhead == w1 :> 0 @@ w2 :> 1
=============================================================================
