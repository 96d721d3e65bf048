----------------------------- MODULE MCRegistry -----------------------------
(* Paths of one to three components, two of them below one another.        *)
EXTENDS Registry

CONSTANTS a, b
MCPath == {<<>>, <<a>>, <<b>>, <<a, a>>, <<a, b>>, <<a, b, a>>, <<a, b, b>>}
=============================================================================
