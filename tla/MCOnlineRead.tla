---------------------------- MODULE MCOnlineRead ----------------------------
(***************************************************************************)
(* A small instance of OnlineRead: v1 and its successor v2 are versions of *)
(* d, v3 is the only version of e.                                         *)
(***************************************************************************)
EXTENDS OnlineRead, TLC

CONSTANTS v1, v2, v3, d, e, q1

TwoDocuments == v1 :> d @@ v2 :> d @@ v3 :> e
Requests == {<<{}, FALSE>>, <<{}, TRUE>>, <<{d}, TRUE>>, <<{d, e}, FALSE>>}
Alphabetical == d :> 0 @@ e :> 1

=============================================================================
