---------------------------- MODULE MCTaxonomy ----------------------------
(***************************************************************************)
(* An instance of Taxonomy for TLC.                                        *)
(***************************************************************************)
EXTENDS Taxonomy, TLC

Rows == Permutations(Item) \union Permutations(Name) \union Permutations(Call)
=============================================================================
