---------------------------- MODULE MCWorkbench ----------------------------
(***************************************************************************)
(* Workbench with two requests at a time; what is interchangeable.         *)
(***************************************************************************)
EXTENDS Workbench, TLC

Alike == Permutations(Slots) \union Permutations(Clients)
           \union Permutations(Services) \union Permutations(Versions)
=============================================================================
