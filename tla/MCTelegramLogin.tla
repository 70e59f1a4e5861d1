-------------------------- MODULE MCTelegramLogin --------------------------
(***************************************************************************)
(* An instance of TelegramLogin for TLC.                                   *)
(***************************************************************************)
EXTENDS TelegramLogin, TLC

Rows == Permutations(Session) \union Permutations(Challenge) \union Permutations(Call)
=============================================================================
