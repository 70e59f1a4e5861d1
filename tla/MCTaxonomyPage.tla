-------------------------- MODULE MCTaxonomyPage --------------------------
(***************************************************************************)
(* Instances of TaxonomyPage for TLC.                                      *)
(***************************************************************************)
EXTENDS TaxonomyPage

CONSTANTS i1, i2

(* Two items in this order. *)
MCInitial == {<<New(i1), New(i2)>>}
=============================================================================
