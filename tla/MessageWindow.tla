--------------------------- MODULE MessageWindow ---------------------------
(***************************************************************************)
(* GramJsGateway.getMessages (apps/server/src/telegram/gramjs.gateway.ts,  *)
(* lines 185-242): the generator that filters what Telegram lists by the   *)
(* range and holds each message back, in a window of at most four, until   *)
(* the two older ones that belong to its context have arrived.             *)
(*                                                                         *)
(* A message is its position in the chat's history, newest first.  Texts,  *)
(* senders, URLs and reply lookups are left out.  The history is what      *)
(* iterMessages lists: messages of the very second that the range ends at  *)
(* may be missing from it, since Telegram takes offsetDate (197) for a     *)
(* bound that is not included, although line 208 would let them pass.      *)
(***************************************************************************)
EXTENDS Integers, Sequences, FiniteSets, Kept

CONSTANTS
  Histories,   \* what iterMessages may list, newest first: records of the
               \* second a message was sent and whether it is a service message
  Bounds,      \* seconds a range may start or end at
  TenMinutes,  \* how far apart messages of one context may be
  None         \* no bound, no message

VARIABLES
  history,     \* what iterMessages lists
  from, to,    \* the range
  next,        \* position of the next message to read
  window,      \* the positions held back
  emitted,     \* the positions yielded by the loop
  flushed,     \* how much of the window the last loop has passed
  yielded,     \* what the consumer has been given, in order
  pc

vars == <<history, from, to, next, window, emitted, flushed, yielded, pc>>
inputs == <<history, from, to>>

Position == 1..Len(history)
At(i) == history[i].sentAt

ASSUME HistoriesAssumption ==
  /\ Bounds \subseteq Int
  /\ TenMinutes \in Nat
  /\ \A h \in Histories :
       /\ h \in Seq([sentAt : Int, service : BOOLEAN])
       (* Telegram numbers the messages of a chat in the order they are sent. *)
       /\ \A i, j \in 1..Len(h) : i < j => h[i].sentAt >= h[j].sentAt

(* Lines 204-213. *)
Skipped(i) == history[i].service \/ (to # None /\ At(i) > to)
TooOld(i)  == from # None /\ At(i) < from

-----------------------------------------------------------------------------
(* toGatewayMessage, lines 331-367: the context is taken from the window.  *)
Near(i, j) == At(i) - At(j) \in -TenMinutes..TenMinutes

IndexIn(w, i) == CHOOSE k \in 1..Len(w) : w[k] = i

Older(w, i) ==
  LET k == IndexIn(w, i)
      after == SubSeq(w, k + 1, IF k + 2 < Len(w) THEN k + 2 ELSE Len(w))
      near == Kept(after, {j \in Position : Near(i, j)})
  IN [n \in 1..Len(near) |-> near[Len(near) + 1 - n]]

Newer(w, i) ==
  LET k == IndexIn(w, i)
  IN IF k > 1 /\ Near(w[k - 1], i) THEN w[k - 1] ELSE None

GatewayMessage(w, i) == [message |-> i, next |-> Newer(w, i), previous |-> Older(w, i)]

-----------------------------------------------------------------------------
(* The iterator lists one more message: lines 203-215. *)
ReadSkip ==
  /\ pc = "reading" /\ next <= Len(history)
  /\ Skipped(next)
  /\ next' = next + 1
  /\ UNCHANGED <<inputs, window, emitted, flushed, yielded, pc>>

ReadPush ==
  /\ pc = "reading" /\ next <= Len(history)
  /\ ~Skipped(next) /\ ~TooOld(next)
  /\ window' = Append(window, next)
  /\ next' = next + 1
  /\ pc' = "offering"
  /\ UNCHANGED <<inputs, emitted, flushed, yielded>>

(* The loop ends: lines 211-213, or the iterator is exhausted. *)
ReadEnd ==
  /\ pc = "reading"
  /\ next <= Len(history) => ~Skipped(next) /\ TooOld(next)
  /\ pc' = "flushing"
  /\ UNCHANGED <<inputs, next, window, emitted, flushed, yielded>>

(* Line 217: whose context is complete. *)
Candidate(w) == IF Len(w) = 3 THEN w[1] ELSE w[2]

(* Lines 228-230.  Mutants: never; one message too early. *)
ShiftedNever(w) == w
ShiftedEarly(w) == IF Len(w) >= 3 THEN Tail(w) ELSE w

Shifted(w) == IF Len(w) = 4 THEN Tail(w) ELSE w

(* Lines 216-230. *)
Offer ==
  /\ pc = "offering"
  /\ LET m == Candidate(window)
     IN IF Len(window) >= 3 /\ m \notin emitted
          THEN /\ yielded' = Append(yielded, GatewayMessage(window, m))
               /\ emitted' = emitted \union {m}
          ELSE UNCHANGED <<yielded, emitted>>
  /\ window' = Shifted(window)
  /\ pc' = "reading"
  /\ UNCHANGED <<inputs, next, flushed>>

(* Mutant of Flush: emitted is not looked at. *)
FlushAll ==
  /\ pc = "flushing" /\ flushed < Len(window)
  /\ yielded' = Append(yielded, GatewayMessage(window, window[flushed + 1]))
  /\ flushed' = flushed + 1
  /\ UNCHANGED <<inputs, next, window, emitted, pc>>

(* Lines 232-241. *)
Flush ==
  /\ pc = "flushing" /\ flushed < Len(window)
  /\ LET m == window[flushed + 1]
     IN yielded' = IF m \in emitted THEN yielded
                   ELSE Append(yielded, GatewayMessage(window, m))
  /\ flushed' = flushed + 1
  /\ UNCHANGED <<inputs, next, window, emitted, pc>>

Finish ==
  /\ pc = "flushing" /\ flushed = Len(window)
  /\ pc' = "done"
  /\ UNCHANGED <<inputs, next, window, emitted, flushed, yielded>>

(* The connection drops while Telegram lists messages or a reply is looked *)
(* up, or the client is gone; what the window holds is lost.               *)
Fail ==
  /\ pc \in {"reading", "offering", "flushing"}
  /\ pc' = "failed"
  /\ UNCHANGED <<inputs, next, window, emitted, flushed, yielded>>

-----------------------------------------------------------------------------
Init ==
  /\ history \in Histories
  /\ from \in Bounds \union {None}
  /\ to \in Bounds \union {None}
  /\ next = 1
  /\ window = <<>>
  /\ emitted = {}
  /\ flushed = 0
  /\ yielded = <<>>
  /\ pc = "reading"

Next == ReadSkip \/ ReadPush \/ ReadEnd \/ Offer \/ Flush \/ Finish \/ Fail

Spec == Init /\ [][Next]_vars

-----------------------------------------------------------------------------
TypeOK ==
  /\ next \in 1..Len(history) + 1
  /\ window \in UNION {[1..n -> Position] : n \in 0..4}
  /\ pc = "reading" => Len(window) <= 3
  /\ emitted \subseteq Position
  /\ flushed \in 0..Len(window)
  /\ \A n \in 1..Len(yielded) :
       yielded[n] \in [message : Position, next : Position \union {None},
                       previous : UNION {[1..k -> Position] : k \in 0..2}]
  /\ pc \in {"reading", "offering", "flushing", "done", "failed"}

(* The messages of the range: the reference the generator is checked       *)
(* against, which knows of no window and no early end.                     *)
Wanted ==
  Kept([i \in Position |-> i],
       {i \in Position : /\ ~history[i].service
                         /\ from # None => At(i) >= from
                         /\ to # None => At(i) <= to})

(* What runChat relies on: however the window holds messages back, the     *)
(* consumer gets those of the range, newest first, each exactly once, and  *)
(* the iteration ends by itself only after the last one.                   *)
Stream == INSTANCE MessageStream WITH
  Message   <- Nat,
  wanted    <- Wanted,
  delivered <- [n \in 1..Len(yielded) |-> yielded[n].message],
  outcome   <- IF pc \in {"done", "failed"} THEN pc ELSE "open"

RefinesStream == Stream!Spec

(* The window never costs a message its context: the n-th message of the   *)
(* range is yielded with the one before it as next and the two after it as *)
(* previous, oldest first, as far as they are within ten minutes of it.    *)
ContextIsNeighbourhood ==
  LET wanted == Wanted
  IN \A n \in 1..Len(yielded) :
       LET g == yielded[n]
           k == IndexIn(wanted, g.message)
           is(j) == j \in 1..Len(wanted) /\ Near(wanted[j], g.message)
       IN /\ g.next = IF is(k - 1) THEN wanted[k - 1] ELSE None
          /\ g.previous = (IF is(k + 2) THEN <<wanted[k + 2]>> ELSE <<>>)
                            \o (IF is(k + 1) THEN <<wanted[k + 1]>> ELSE <<>>)
=============================================================================
