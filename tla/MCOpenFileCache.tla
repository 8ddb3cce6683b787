--------------------------- MODULE MCOpenFileCache ---------------------------
(* Two slots; "long" is cut to "lo" when stored, and "lo" is a path too. *)
EXTENDS OpenFileCache

MCPaths == {"a", "lo", "long", "b"}

MCNameOf == [p \in MCPaths |-> IF p = "long" THEN "lo" ELSE p]
=============================================================================
