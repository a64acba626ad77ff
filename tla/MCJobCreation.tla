--------------------------- MODULE MCJobCreation ---------------------------
(* JobCreation on a small instance: two names in either order, one of them twice. *)
EXTENDS JobCreation

CONSTANTS a, b   \* two segment names

WantedLists == {<<a, b>>, <<b, a, b>>}
=============================================================================
