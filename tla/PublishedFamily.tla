--------------------------- MODULE PublishedFamily ---------------------------
(***************************************************************************)
(* What promoting a result family promises: at every moment one version of *)
(* the family is the published one; publishing replaces it in one step by  *)
(* a version that was never published before, and the version it replaces  *)
(* is retained.                                                            *)
(***************************************************************************)
CONSTANTS Versions, Original

VARIABLES
  current,    \* the published version
  retained    \* the versions it replaced, all of them

Init == current = Original /\ retained = {}

Publish(v) ==
  /\ v \notin retained \cup {current}
  /\ current' = v
  /\ retained' = retained \cup {current}

Next == \E v \in Versions : Publish(v)

Spec == Init /\ [][Next]_<<current, retained>>

=============================================================================
