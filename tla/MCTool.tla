------------------------------- MODULE MCTool -------------------------------
(***************************************************************************)
(* The user has two directories, one with a directory in it, and files of  *)
(* the same name in each.  Items are added alone, together with one of     *)
(* the same name, with one that holds them, and where a file or directory  *)
(* of theirs is in the archive already.  Where they are extracted there    *)
(* may be a file or a directory in every place that is in the way.         *)
(***************************************************************************)
EXTENDS Tool

CONSTANTS a, d, e, bad, c1, c2, dest, stem, mine

MCOutside ==
  LET dirs  == {<<d>>, <<d, d>>, <<e>>}
      files == {<<d, a>>, <<d, d, a>>, <<e, a>>}
  IN [p \in dirs \cup files |->
        IF p \in dirs THEN "directory" ELSE IF p = <<e, a>> THEN c2 ELSE c1]

MCAddArguments ==
  {<<<<d>>>>, <<<<d, d>>, <<e>>>>, <<<<d, a>>, <<e, a>>>>, <<<<d>>, <<d, a>>>>, <<<<a>>, <<d>>>>}

MCUnderDirs == {NoUnderDir, <<a>>, <<"..">>}

MCDeleteArguments ==
  {<<<<d>>>>, <<<<d>>, <<d, a>>, <<"", d, d, a>>>>, <<<<a>>, <<a, ".", a>>>>, <<<<"">>>>, <<<<d, "..">>>>}

MCDisks ==
  LET dirs(D)  == [p \in D |-> "directory"]
      files(F) == [p \in F |-> mine]
  IN {<<>>, dirs({<<stem>>}), dirs({<<d>>}), files({<<dest>>}), files({<<a>>}),
      [p \in {<<dest>>, <<dest, d>>} |-> IF p = <<dest>> THEN "directory" ELSE mine],
      [p \in {<<dest>>, <<dest, a>>} |-> IF p = <<dest>> THEN "directory" ELSE mine]}

MCOutputDirs == {NoOutputDir, <<dest>>, <<dest, stem>>}

MCItemLists ==
  {<<>>, <<<<d, a>>>>, <<<<d>>, <<d, "", a>>>>, <<<<a>>, <<d, d>>>>, <<<<d, "..">>, <<bad>>>>}
=============================================================================
