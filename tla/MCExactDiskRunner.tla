------------------------- MODULE MCExactDiskRunner --------------------------
(* Instance of ExactDiskRunner for TLC: the command and one descendant.    *)
EXTENDS ExactDiskRunner

CONSTANTS leader, child

MCDescendants == {child}
=============================================================================
