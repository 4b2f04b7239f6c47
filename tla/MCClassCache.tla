---------------------------- MODULE MCClassCache ----------------------------
(***************************************************************************)
(* Two versions of an interface: the newer drops a method and adds another.*)
(***************************************************************************)
EXTENDS ClassCache, TLC

MCDeclares == <<{"find", "list"}, {"find", "save"}>>
PagesAreAlike == Permutations(Pages)

=============================================================================
