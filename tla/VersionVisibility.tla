------------------------- MODULE VersionVisibility -------------------------
(***************************************************************************)
(* What the fact source promises the online side about document versions,  *)
(* without saying how: a version becomes visible at most once, at most one *)
(* version of a document is visible at a time, and a withdrawn version     *)
(* never comes back.                                                       *)
(***************************************************************************)
CONSTANTS Version, Document, DocumentOf

VARIABLES visible, retired

vars == <<visible, retired>>

Init == visible = {} /\ retired = {}

Publish(v) ==
  /\ v \notin retired
  /\ \A u \in visible : DocumentOf[u] # DocumentOf[v]
  /\ visible' = visible \cup {v}
  /\ UNCHANGED retired

Withdraw(v) ==
  /\ v \notin retired
  /\ visible' = visible \ {v}
  /\ retired' = retired \cup {v}

Next == \E v \in Version : Publish(v) \/ Withdraw(v)

Spec == Init /\ [][Next]_vars

=============================================================================
