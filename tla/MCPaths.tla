------------------------------ MODULE MCPaths -------------------------------
(***************************************************************************)
(* Paths of every kind: relative and absolute, with empty, "." and ".."    *)
(* segments in all places, invalid names, and as deep as the trees.        *)
(***************************************************************************)
EXTENDS Paths

CONSTANTS a, b, bad, c

MCRawPaths ==
  {<<s>> : s \in {a, b, bad} \cup Dotted} \cup
  {<<s, t>> : s, t \in {a, b}} \cup
  {<<"", "">>, <<"", a, "", b, "">>, <<a, bad>>, <<a, "..">>, <<a, "..", "..">>,
   <<a, "..", b>>, <<a, b, "..", ".", a>>, <<a, b, "..", "..", b>>, <<a, b, a>>}
=============================================================================
