--------------------------- MODULE MessageStream ---------------------------
(***************************************************************************)
(* What runChat relies on when it iterates over TelegramGateway's          *)
(* getMessages, and what SyncJobs!ChatMessage assumes: the messages of the *)
(* range come one at a time, newest first, none left out and none twice;   *)
(* the iteration ends by itself only after the last one, and may fail.     *)
(***************************************************************************)
EXTENDS Sequences, Naturals

CONSTANT Message    \* what may be in a chat

VARIABLES
  wanted,           \* the messages of the range, newest first
  delivered,        \* what the consumer has been given
  outcome           \* how the iteration ended

Init ==
  /\ wanted \in Seq(Message)
  /\ delivered = <<>>
  /\ outcome = "open"

Deliver ==
  /\ outcome = "open"
  /\ Len(delivered) < Len(wanted)
  /\ delivered' = Append(delivered, wanted[Len(delivered) + 1])
  /\ UNCHANGED <<wanted, outcome>>

Finish ==
  /\ outcome = "open"
  /\ delivered = wanted
  /\ outcome' = "done"
  /\ UNCHANGED <<wanted, delivered>>

Fail ==
  /\ outcome = "open"
  /\ outcome' = "failed"
  /\ UNCHANGED <<wanted, delivered>>

Next == Deliver \/ Finish \/ Fail

Spec == Init /\ [][Next]_<<wanted, delivered, outcome>>
=============================================================================
