----------------------------- MODULE MCPomFile -----------------------------
(***************************************************************************)
(* PomFile with three requests, which are interchangeable.  The page saves *)
(* what it shows, no dependency, one, all of them, or text that cannot be  *)
(* parsed.                                                                 *)
(***************************************************************************)
EXTENDS PomFile, TLC

MCTexts == {Torn, Whole({}), Whole({Base}), Whole(Deps)}

Alike == Permutations(Actors)
=============================================================================
