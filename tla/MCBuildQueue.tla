----------------------------- MODULE MCBuildQueue -----------------------------
(* Every require graph over three modules, and what the program may ask for. *)
EXTENDS BuildQueue

CONSTANTS a, b, c

MCName == {a, b, c}
MCGraph == [MCName -> SUBSET MCName]
MCRootList == {<<a>>, <<b, a>>}
=============================================================================
