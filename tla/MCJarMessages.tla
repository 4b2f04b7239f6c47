--------------------------- MODULE MCJarMessages ---------------------------
(***************************************************************************)
(* JarMessages with one or two overlapping polls and a few lines.          *)
(***************************************************************************)
EXTENDS JarMessages

CONSTANTS p1, p2

OnePoll == {p1}
TwoPolls == {p1, p2}
=============================================================================
