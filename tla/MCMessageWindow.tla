-------------------------- MODULE MCMessageWindow --------------------------
(***************************************************************************)
(* An instance of MessageWindow for TLC.                                   *)
(***************************************************************************)
EXTENDS MessageWindow

CONSTANTS MaxLen, MaxSentAt

(* Every history of at most MaxLen messages. *)
MCHistories ==
  {h \in UNION {[1..n -> [sentAt : 0..MaxSentAt, service : BOOLEAN]] : n \in 0..MaxLen} :
     \A i \in 1..Len(h) - 1 : h[i].sentAt >= h[i + 1].sentAt}

MCBounds == 1..MaxSentAt - 1
=============================================================================
