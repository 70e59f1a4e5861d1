-------------------------- MODULE TaxonomyPageProofs --------------------------
(***************************************************************************)
(* The taxonomy page of TaxonomyPage: what it shows at rest and while a    *)
(* reorder is under way, and that a logout clears it, for any number of    *)
(* items, mutations in flight and events from elsewhere.                   *)
(***************************************************************************)
EXTENDS TaxonomyPage, Inductions, SequenceTheorems

(* Mutations and fetches by their fields, over some set L of all the items *)
(* and lists there are: which they are does not matter here.               *)
CallOver(L) ==
  [op : {"none", "create", "pick", "rename", "remove", "reorder"},
   pc : {"none", "sent", "done", "failed", "settling"}, item : L,
   ids : L, previous : L, list : L,
   here : BOOLEAN, over : BOOLEAN, cut : BOOLEAN]

FetchOver(L) ==
  [pc : {"none", "asked", "answered"}, list : L, behind : BOOLEAN]

ShapesOver(L) ==
  /\ Null \in L /\ <<>> \in L
  /\ call \in [Call -> CallOver(L)]
  /\ fetch \in FetchOver(L)

Shapes == \E L : ShapesOver(L)

(* A mutation whose change of the table its page has not been told of. *)
Unheard == \E c \in Call : call[c].pc = "done"

(* A reorder whose order the page still shows. *)
Shown(c) == Ordering(c) /\ ~call[c].over

(* Nobody asks for a list that nobody shows; nobody signed out is shown one. *)
FetchesAreWatched ==
  /\ ~signedIn => view = "none"
  /\ view = "none" => fetch.pc = "none"

(* A list is only fetched if it is missing or stale, and comes current. *)
FetchesAreCurrent ==
  /\ fetch.pc # "none" => stale \/ data = Null \/ behind
  /\ fetch.pc = "answered" => fetch.list = table \/ fetch.behind \/ Unheard

(* An order is shown until something else is: no fetch is under way, and   *)
(* the list it goes back to is the server's.                               *)
OrderMayGoBack ==
  \A c \in Call : Shown(c) =>
    /\ fetch.pc = "none" /\ call[c].pc # "settling"
    /\ data = Ordered(call[c].previous, call[c].ids)
    /\ call[c].cut \/ behind \/ Unheard \/ call[c].previous = table

(* A list at rest is the server's, also beside mutations that the server   *)
(* has not answered to and that have not touched it.                       *)
AtRest ==
  /\ fetch.pc = "none"
  /\ ~behind /\ ~Unheard
  /\ \A c \in Call : Ordering(c) => call[c].pc = "settling"
  /\ view # "none" \/ (data # Null /\ ~stale)

RestIsCurrent == AtRest => data = table

PageParts == FetchesAreWatched /\ FetchesAreCurrent /\ OrderMayGoBack /\ RestIsCurrent

(* The inductive invariant. *)
PageInv == Shapes /\ PageParts

-----------------------------------------------------------------------------
LEMMA NoCallIs ==
  ASSUME NEW L, Null \in L, <<>> \in L
  PROVE  NoCall \in CallOver(L) /\ NoCall.pc = "none" /\ NoCall.op = "none"
BY DEF NoCall, Sent, CallOver

LEMMA NoFetchIs ==
  ASSUME NEW L, <<>> \in L
  PROVE  /\ NoFetch \in FetchOver(L) /\ NoFetch.pc = "none"
         /\ Asked \in FetchOver(L) /\ Asked.pc = "asked"
BY DEF NoFetch, Asked, FetchOver

(* A mutation as it is when something else has written the list. *)
OnlyOvertaken(r, q) ==
  /\ r.op = q.op /\ r.pc = q.pc
  /\ r.op = "reorder" => r.over

LEMMA OvertakenIs ==
  ASSUME NEW L, NEW cs \in [Call -> CallOver(L)]
  PROVE  /\ Overtaken(cs) \in [Call -> CallOver(L)]
         /\ \A c \in Call : OnlyOvertaken(Overtaken(cs)[c], cs[c])
BY DEF Overtaken, OnlyOvertaken, CallOver

(* The mutations in flight when a page is left. *)
OnlyLeft(r, q) ==
  \/ r.pc = "none" /\ r.op = "none" /\ q.pc \in {"none", "settling"}
  \/ /\ r.op = q.op /\ r.pc = q.pc /\ r.pc \notin {"none", "settling"}
     /\ r.over = q.over /\ r.cut = q.cut /\ r.ids = q.ids /\ r.previous = q.previous

LEMMA LeftIs ==
  ASSUME NEW L, ShapesOver(L)
  PROVE  /\ Left \in [Call -> CallOver(L)]
         /\ \A c \in Call : OnlyLeft(Left[c], call[c])
<1>1. /\ NoCall \in CallOver(L) /\ NoCall.pc = "none" /\ NoCall.op = "none"
      /\ call \in [Call -> CallOver(L)]
  BY NoCallIs DEF ShapesOver
<1>2. ASSUME NEW c \in Call
      PROVE  Left[c] \in CallOver(L) /\ OnlyLeft(Left[c], call[c])
  <2>1. Left[c] = IF call[c].pc \in {"none", "settling"} THEN NoCall
                  ELSE [call[c] EXCEPT !.here = FALSE]
    BY DEF Left
  <2>2. CASE call[c].pc \in {"none", "settling"}
    BY <1>1, <2>1, <2>2 DEF OnlyLeft
  <2>3. CASE call[c].pc \notin {"none", "settling"}
    BY <1>1, <2>1, <2>3 DEF OnlyLeft, CallOver
  <2> QED
    BY <2>2, <2>3
<1>3. Left = [c \in Call |-> Left[c]]
  BY DEF Left
<1> QED
  BY <1>2, <1>3

(* A list that is fetched again. *)
LEMMA RefetchedIs ==
  ASSUME NEW L, <<>> \in L, NEW f \in FetchOver(L), NEW d
  PROVE  LET g == Refetched(f, d)
         IN /\ g \in FetchOver(L)
            /\ g.pc = "none" <=> view = "none"
            /\ g.pc = "answered" => g.behind
<1> DEFINE g == [f EXCEPT !.behind = f.pc = "answered"]
<1>1. g \in FetchOver(L) /\ g.pc = f.pc
  BY DEF FetchOver
<1>2. f.pc = "answered" => g.behind
  BY DEF FetchOver
<1> HIDE DEF g
<1>3. Refetched(f, d) = IF view = "none" THEN NoFetch
                        ELSE IF d = Null /\ f.pc # "none" THEN g ELSE Asked
  BY DEF Refetched, g
<1> QED
  BY <1>1, <1>2, <1>3, NoFetchIs

(* There may be more lists than there were. *)
LEMMA MoreShapes ==
  ASSUME NEW L, NEW M, L \subseteq M
  PROVE  CallOver(L) \subseteq CallOver(M) /\ FetchOver(L) \subseteq FetchOver(M)
BY DEF CallOver, FetchOver

(* What a step leaves that shows and reads nothing and changes one         *)
(* mutation, which goes back to no order and is not told of anything.      *)
LEMMA CalmStep ==
  ASSUME PageParts, UNCHANGED <<table, data, stale, fetch, behind, view, signedIn>>,
         Unheard' <=> Unheard,
         \A d \in Call : Shown(d)' =>
           /\ Shown(d) /\ call'[d].pc # "settling"
           /\ call'[d].previous = call[d].previous /\ call'[d].ids = call[d].ids
           /\ call'[d].cut = call[d].cut,
         (\A d \in Call : Ordering(d)' => call'[d].pc = "settling")
           => \A d \in Call : Ordering(d) => call[d].pc = "settling"
  PROVE  PageParts'
<1>1. FetchesAreWatched' /\ FetchesAreCurrent'
  BY DEF PageParts, FetchesAreWatched, FetchesAreCurrent
<1>2. OrderMayGoBack'
  BY DEF PageParts, OrderMayGoBack
<1>3. RestIsCurrent'
  BY DEF PageParts, RestIsCurrent, AtRest
<1> QED
  BY <1>1, <1>2, <1>3 DEF PageParts

LEMMA AskStep ==
  ASSUME PageInv, NEW c \in Call, Create(c) \/ Rename(c) \/ Delete(c)
  PROVE  PageInv'
<1>1. PICK L : ShapesOver(L)
  BY DEF PageInv, Shapes
<1>2. UNCHANGED <<table, data, stale, fetch, behind, view, signedIn>>
  BY DEF Create, Rename, Delete
<1>3. \E op \in {"create", "pick", "rename", "remove"} : \E i : Send(c, Sent(op, i))
  BY DEF Create, Rename, Delete
<1>4. PICK op \in {"create", "pick", "rename", "remove"} : \E i : Send(c, Sent(op, i))
  BY <1>3
<1>5. PICK i : Send(c, Sent(op, i))
  BY <1>4
<1> DEFINE r == Sent(op, i)
           M == L \union {i}
<1>6. r \in CallOver(M) /\ r.op = op /\ r.pc = "sent"
  BY <1>1 DEF Sent, CallOver, ShapesOver
<1>7. call[c].pc = "none" /\ call' = [call EXCEPT ![c] = r]
  BY <1>5, <1>6 DEF Send, InFlight
<1> HIDE DEF r
<1>8. ShapesOver(M)'
  BY <1>1, <1>2, <1>6, <1>7, MoreShapes DEF ShapesOver
<1>9. /\ \A d \in Call \ {c} : call'[d] = call[d]
      /\ call'[c] = r
  BY <1>1, <1>7 DEF ShapesOver
<1>10. /\ Unheard' <=> Unheard
       /\ ~Ordering(c)' /\ ~Ordering(c)
       /\ \A d \in Call \ {c} : Ordering(d)' <=> Ordering(d)
  BY <1>6, <1>7, <1>9 DEF Unheard, Ordering, InFlight
<1>11. \A d \in Call : Shown(d)' =>
         /\ Shown(d) /\ call'[d].pc # "settling"
         /\ call'[d].previous = call[d].previous /\ call'[d].ids = call[d].ids
         /\ call'[d].cut = call[d].cut
  BY <1>9, <1>10 DEF Shown, PageInv, PageParts, OrderMayGoBack
<1>12. PageParts'
  BY <1>2, <1>9, <1>10, <1>11, CalmStep DEF PageInv
<1> QED
  BY <1>8, <1>12 DEF PageInv, Shapes

LEMMA ReorderStep ==
  ASSUME PageInv, NEW c \in Call, Reorder(c)
  PROVE  PageInv'
<1>1. PICK L : ShapesOver(L)
  BY DEF PageInv, Shapes
<1>2. /\ view = "taxonomy" /\ data # Null
      /\ stale' = FALSE /\ fetch' = NoFetch
      /\ UNCHANGED <<table, behind, view, signedIn>>
  BY DEF Reorder, Cancelled
<1>3. PICK ids :
        /\ Send(c, [Sent("reorder", Null) EXCEPT
                      !.ids = ids, !.previous = data,
                      !.cut = \/ fetch.pc # "none"
                              \/ \E d \in Call : Ordering(d)])
        /\ data' = Ordered(data, ids)
  BY DEF Reorder
<1>18. PICK M : M = L \union {ids, data}
  OBVIOUS
<1> DEFINE cut == fetch.pc # "none" \/ \E d \in Call : Ordering(d)
           r == [Sent("reorder", Null) EXCEPT !.ids = ids, !.previous = data, !.cut = cut]
<1>4. cut \in BOOLEAN /\ Send(c, r)
  BY <1>3
<1>5. cut <=> fetch.pc # "none" \/ \E d \in Call : Ordering(d)
  OBVIOUS
<1> HIDE DEF cut
<1>17. /\ r \in CallOver(M) /\ r.op = "reorder" /\ r.pc = "sent"
       /\ r.ids = ids /\ r.previous = data /\ r.cut = cut
  BY <1>1, <1>4, <1>18 DEF Sent, CallOver, ShapesOver
<1>6. call[c].pc = "none" /\ call' = [Overtaken(call) EXCEPT ![c] = r]
  BY <1>4, <1>17 DEF Send, InFlight
<1> HIDE DEF r
<1>7. /\ Overtaken(call) \in [Call -> CallOver(L)]
      /\ \A d \in Call : OnlyOvertaken(Overtaken(call)[d], call[d])
  BY <1>1, OvertakenIs DEF ShapesOver
<1>8. /\ \A d \in Call \ {c} : OnlyOvertaken(call'[d], call[d])
      /\ call'[c] = r
  BY <1>6, <1>7
<1>9. ShapesOver(M)'
  <2>1. CallOver(L) \subseteq CallOver(M)
    BY <1>18, MoreShapes
  <2>2. call' \in [Call -> CallOver(M)]
    BY <1>6, <1>7, <1>17, <2>1
  <2>3. Null \in M /\ <<>> \in M
    BY <1>1, <1>18 DEF ShapesOver
  <2>4. fetch' \in FetchOver(M)
    BY <1>2, <2>3, NoFetchIs
  <2> QED
    BY <2>2, <2>3, <2>4 DEF ShapesOver
<1>10. Unheard' <=> Unheard
  BY <1>17, <1>6, <1>8 DEF Unheard, OnlyOvertaken
<1>11. \A d \in Call \ {c} : ~Shown(d)'
  BY <1>8 DEF Shown, Ordering, OnlyOvertaken
<1>12. fetch'.pc = "none" /\ fetch'.pc # "answered"
  BY <1>1, <1>2, NoFetchIs DEF ShapesOver
<1>13. FetchesAreWatched' /\ FetchesAreCurrent'
  BY <1>2, <1>12 DEF PageInv, PageParts, FetchesAreWatched, FetchesAreCurrent
<1>14. r.cut \/ behind \/ Unheard \/ data = table
  <2>1. ~r.cut /\ ~behind /\ ~Unheard => AtRest
    BY <1>2, <1>5, <1>17 DEF AtRest
  <2> QED
    BY <2>1 DEF PageInv, PageParts, RestIsCurrent
<1>15. OrderMayGoBack'
  BY <1>2, <1>3, <1>17, <1>8, <1>10, <1>11, <1>12, <1>14 DEF OrderMayGoBack
<1>16. RestIsCurrent'
  BY <1>17, <1>8 DEF RestIsCurrent, AtRest, Ordering, InFlight
<1> QED
  BY <1>9, <1>13, <1>15, <1>16 DEF PageInv, PageParts, Shapes

(* The server's answers. *)
LEMMA AnswerStep ==
  ASSUME PageInv, NEW c \in Call, Serve(c) \/ Refuse(c) \/ LoseAnswer(c)
  PROVE  PageInv'
<1>1. PICK L : ShapesOver(L)
  BY DEF PageInv, Shapes
<1>2. UNCHANGED <<data, stale, view, signedIn>>
  BY DEF Serve, Refuse, LoseAnswer
<1>8. PICK M : M = L \union {table'}
  OBVIOUS
<1>3. CallOver(L) \subseteq CallOver(M) /\ FetchOver(L) \subseteq FetchOver(M)
  BY <1>8, MoreShapes
<1>4. /\ call \in [Call -> CallOver(L)] /\ fetch \in FetchOver(L)
      /\ Null \in M /\ <<>> \in M
  BY <1>1, <1>8 DEF ShapesOver
<1>5. CASE Serve(c)
  <2>1. /\ call' = [call EXCEPT ![c].pc = "done",
                       ![c].list = IF call[c].op = "reorder" THEN table' ELSE @]
        /\ UNCHANGED <<fetch, behind>> /\ call[c].pc = "sent"
    BY <1>5 DEF Serve
  <2> DEFINE r == [call[c] EXCEPT !.pc = "done",
                     !.list = IF call[c].op = "reorder" THEN table' ELSE @]
  <2>2. /\ r \in CallOver(M) /\ r.pc = "done" /\ r.op = call[c].op
        /\ r.over = call[c].over /\ r.previous = call[c].previous /\ r.ids = call[c].ids
    BY <1>4, <1>8 DEF CallOver
  <2>3. call' = [call EXCEPT ![c] = r]
    BY <1>4, <2>1
  <2> HIDE DEF r
  <2>4. call'[c] = r /\ \A d \in Call \ {c} : call'[d] = call[d]
    BY <1>4, <2>3
  <2>5. ShapesOver(M)'
    BY <1>3, <1>4, <2>1, <2>2, <2>3 DEF ShapesOver
  <2>6. Unheard'
    BY <2>2, <2>4 DEF Unheard
  <2>7. \A d \in Call : Shown(d)' =>
          /\ Shown(d) /\ call'[d].pc # "settling"
          /\ call'[d].previous = call[d].previous /\ call'[d].ids = call[d].ids
    BY <2>1, <2>2, <2>4
    DEF Shown, Ordering, InFlight, PageInv, PageParts, OrderMayGoBack
  <2>8. FetchesAreWatched' /\ FetchesAreCurrent'
    BY <1>2, <2>1, <2>6 DEF PageInv, PageParts, FetchesAreWatched, FetchesAreCurrent
  <2>9. OrderMayGoBack'
    BY <1>2, <2>1, <2>6, <2>7 DEF PageInv, PageParts, OrderMayGoBack
  <2>10. RestIsCurrent'
    BY <2>6 DEF RestIsCurrent, AtRest
  <2> QED
    BY <2>5, <2>8, <2>9, <2>10 DEF PageInv, PageParts, Shapes
<1>6. CASE Refuse(c)
  <2>1. /\ call' = [call EXCEPT ![c].pc = "failed"]
        /\ UNCHANGED <<table, fetch, behind>> /\ call[c].pc = "sent"
    BY <1>6 DEF Refuse
  <2> DEFINE r == [call[c] EXCEPT !.pc = "failed"]
  <2>2. /\ r \in CallOver(L) /\ r.pc = "failed" /\ r.op = call[c].op
        /\ r.over = call[c].over /\ r.previous = call[c].previous /\ r.ids = call[c].ids
        /\ r.cut = call[c].cut
    BY <1>4 DEF CallOver
  <2>3. call' = [call EXCEPT ![c] = r]
    BY <1>4, <2>1
  <2> HIDE DEF r
  <2>4. call'[c] = r /\ \A d \in Call \ {c} : call'[d] = call[d]
    BY <1>4, <2>3
  <2>5. ShapesOver(L)'
    BY <1>1, <2>1, <2>2, <2>3 DEF ShapesOver
  <2>6. Unheard' <=> Unheard
    BY <2>1, <2>2, <2>4 DEF Unheard
  <2>7. \A d \in Call : Shown(d)' =>
          /\ Shown(d) /\ call'[d].pc # "settling"
          /\ call'[d].previous = call[d].previous /\ call'[d].ids = call[d].ids
          /\ call'[d].cut = call[d].cut
    BY <2>1, <2>2, <2>4
    DEF Shown, Ordering, InFlight, PageInv, PageParts, OrderMayGoBack
  <2>8. (\A d \in Call : Ordering(d)' => call'[d].pc = "settling")
          => \A d \in Call : Ordering(d) => call[d].pc = "settling"
    BY <2>1, <2>2, <2>4 DEF Ordering, InFlight
  <2>9. PageParts'
    BY <1>2, <2>1, <2>6, <2>7, <2>8, CalmStep DEF PageInv
  <2> QED
    BY <2>5, <2>9 DEF PageInv, Shapes
<1>7. CASE LoseAnswer(c)
  <2>1. /\ call' = [call EXCEPT ![c].pc = "failed", ![c].list = <<>>]
        /\ behind' = TRUE /\ fetch' = [fetch EXCEPT !.behind = TRUE]
        /\ UNCHANGED table /\ call[c].pc = "done"
    BY <1>7 DEF LoseAnswer
  <2> DEFINE r == [call[c] EXCEPT !.pc = "failed", !.list = <<>>]
             g == [fetch EXCEPT !.behind = TRUE]
  <2>2. /\ r \in CallOver(L) /\ r.pc = "failed" /\ r.op = call[c].op
        /\ r.over = call[c].over /\ r.previous = call[c].previous /\ r.ids = call[c].ids
    BY <1>1, <1>4 DEF CallOver, ShapesOver
  <2>3. g \in FetchOver(L) /\ g.pc = fetch.pc /\ g.behind = TRUE
    BY <1>4 DEF FetchOver
  <2>4. call' = [call EXCEPT ![c] = r] /\ fetch' = g
    BY <1>4, <2>1
  <2> HIDE DEF r, g
  <2>5. call'[c] = r /\ \A d \in Call \ {c} : call'[d] = call[d]
    BY <1>4, <2>4
  <2>6. ShapesOver(L)'
    BY <1>1, <2>2, <2>3, <2>4 DEF ShapesOver
  <2>7. \A d \in Call : Shown(d)' =>
          /\ Shown(d) /\ call'[d].pc # "settling"
          /\ call'[d].previous = call[d].previous /\ call'[d].ids = call[d].ids
    BY <2>1, <2>2, <2>5
    DEF Shown, Ordering, InFlight, PageInv, PageParts, OrderMayGoBack
  <2>8. FetchesAreWatched' /\ FetchesAreCurrent'
    BY <1>2, <2>1, <2>3, <2>4
    DEF PageInv, PageParts, FetchesAreWatched, FetchesAreCurrent
  <2>9. OrderMayGoBack'
    BY <1>2, <2>1, <2>3, <2>4, <2>7 DEF PageInv, PageParts, OrderMayGoBack
  <2>10. RestIsCurrent'
    BY <2>1 DEF RestIsCurrent, AtRest
  <2> QED
    BY <2>6, <2>8, <2>9, <2>10 DEF PageInv, PageParts, Shapes
<1> QED
  BY <1>5, <1>6, <1>7

(* What a step has to see to by which no order is shown any more. *)
LEMMA NothingIsShown ==
  ASSUME \A c \in Call : ~Shown(c)', FetchesAreWatched', FetchesAreCurrent', RestIsCurrent'
  PROVE  PageParts'
BY DEF PageParts, OrderMayGoBack

(* The pages go on: after an answer, or after the refetch that follows.    *)
LEMMA SucceedStep ==
  ASSUME PageInv, NEW c \in Call, Succeed(c) \/ Reordered(c)
  PROVE  PageInv'
<1>1. PICK L : ShapesOver(L)
  BY DEF PageInv, Shapes
<1>2. /\ stale' = TRUE /\ fetch' = Refetched(fetch, data')
      /\ UNCHANGED <<table, behind, view, signedIn>>
  BY DEF Succeed, Reordered, Refresh
<1>3. /\ Overtaken(call) \in [Call -> CallOver(L)]
      /\ \A d \in Call : OnlyOvertaken(Overtaken(call)[d], call[d])
  BY <1>1, OvertakenIs DEF ShapesOver
<1>4. \E r \in CallOver(L) : /\ call' = [Overtaken(call) EXCEPT ![c] = r]
                             /\ r.op = "reorder" => r.over
  <2>1. CASE Succeed(c)
    BY <1>1, <2>1, NoCallIs DEF Succeed, ShapesOver
  <2>2. CASE Reordered(c)
    <3> DEFINE r == [Sent("reorder", Null) EXCEPT !.pc = "settling", !.here = call[c].here,
                                                  !.over = TRUE]
    <3>1. call[c].here \in BOOLEAN
      BY <1>1 DEF ShapesOver, CallOver
    <3>2. r \in CallOver(L) /\ r.over = TRUE
      BY <1>1, <3>1 DEF Sent, CallOver, ShapesOver
    <3>3. call' = [Overtaken(call) EXCEPT ![c] = r]
      BY <2>2 DEF Reordered
    <3> QED
      BY <3>2, <3>3
  <2> QED
    BY <2>1, <2>2
<1>5. PICK r \in CallOver(L) : /\ call' = [Overtaken(call) EXCEPT ![c] = r]
                               /\ r.op = "reorder" => r.over
  BY <1>4
<1>6. /\ fetch' \in FetchOver(L)
      /\ fetch'.pc = "none" <=> view = "none"
      /\ fetch'.pc = "answered" => fetch'.behind
  BY <1>1, <1>2, RefetchedIs DEF ShapesOver
<1>7. ShapesOver(L)'
  BY <1>1, <1>3, <1>5, <1>6 DEF ShapesOver
<1>8. \A d \in Call : ~Shown(d)'
  <2>1. \A d \in Call : call'[d].op = "reorder" => call'[d].over
    BY <1>3, <1>5 DEF OnlyOvertaken
  <2> QED
    BY <2>1 DEF Shown, Ordering
<1>9. FetchesAreWatched' /\ FetchesAreCurrent'
  BY <1>2, <1>6 DEF PageInv, PageParts, FetchesAreWatched, FetchesAreCurrent
<1>10. RestIsCurrent'
  BY <1>2, <1>6 DEF RestIsCurrent, AtRest
<1> QED
  BY <1>7, <1>8, <1>9, <1>10, NothingIsShown DEF PageInv, Shapes

LEMMA EndStep ==
  ASSUME PageInv, NEW c \in Call, Settle(c) \/ Fail(c)
  PROVE  PageInv'
<1>1. PICK L : ShapesOver(L)
  BY DEF PageInv, Shapes
<1>2. /\ NoCall \in CallOver(L) /\ NoCall.pc = "none" /\ NoCall.op = "none"
      /\ call \in [Call -> CallOver(L)]
  BY <1>1, NoCallIs DEF ShapesOver
<1>3. CASE Settle(c) \/ (Fail(c) /\ call[c].op # "reorder")
  <2>1. /\ call' = [call EXCEPT ![c] = NoCall]
        /\ UNCHANGED <<table, data, stale, fetch, behind, view, signedIn>>
        /\ call[c].pc = "settling" \/ (call[c].pc = "failed" /\ call[c].op # "reorder")
    BY <1>3 DEF Settle, Fail
  <2>2. call'[c] = NoCall /\ \A d \in Call \ {c} : call'[d] = call[d]
    BY <1>2, <2>1
  <2>3. ShapesOver(L)'
    BY <1>1, <1>2, <2>1 DEF ShapesOver
  <2>4. Unheard' <=> Unheard
    BY <1>2, <2>1, <2>2 DEF Unheard
  <2>5. \A d \in Call : Shown(d)' =>
          /\ Shown(d) /\ call'[d].pc # "settling"
          /\ call'[d].previous = call[d].previous /\ call'[d].ids = call[d].ids
          /\ call'[d].cut = call[d].cut
    BY <1>2, <2>2 DEF Shown, Ordering, InFlight, PageInv, PageParts, OrderMayGoBack
  <2>6. (\A d \in Call : Ordering(d)' => call'[d].pc = "settling")
          => \A d \in Call : Ordering(d) => call[d].pc = "settling"
    BY <1>2, <2>1, <2>2 DEF Ordering, InFlight
  <2>7. PageParts'
    BY <2>1, <2>4, <2>5, <2>6, CalmStep DEF PageInv
  <2> QED
    BY <2>3, <2>7 DEF PageInv, Shapes
<1>4. CASE Fail(c) /\ call[c].op = "reorder"
  <2>1. /\ call[c].pc = "failed" /\ data' = call[c].previous /\ stale' = FALSE
        /\ behind' = (behind \/ call[c].over \/ call[c].cut)
        /\ call' = [Overtaken(call) EXCEPT ![c] = NoCall]
        /\ UNCHANGED <<table, fetch, view, signedIn>>
    BY <1>4 DEF Fail
  <2>2. /\ Overtaken(call) \in [Call -> CallOver(L)]
        /\ \A d \in Call : OnlyOvertaken(Overtaken(call)[d], call[d])
    BY <1>2, OvertakenIs
  <2>3. call'[c] = NoCall /\ \A d \in Call \ {c} : OnlyOvertaken(call'[d], call[d])
    BY <2>1, <2>2
  <2>4. ShapesOver(L)'
    BY <1>1, <1>2, <2>1, <2>2 DEF ShapesOver
  <2>5. \A d \in Call : ~Shown(d)'
    BY <1>2, <2>3 DEF Shown, Ordering, InFlight, OnlyOvertaken
  <2>6. Unheard' <=> Unheard
    BY <1>2, <2>1, <2>3 DEF Unheard, OnlyOvertaken
  <2>7. ~call[c].over => Shown(c)
    BY <1>4, <2>1 DEF Shown, Ordering, InFlight
  <2>8. fetch.pc # "none" => behind'
    BY <2>1, <2>7 DEF PageInv, PageParts, OrderMayGoBack
  <2>9. behind' \/ Unheard \/ call[c].previous = table
    BY <2>1, <2>7 DEF PageInv, PageParts, OrderMayGoBack
  <2>10. FetchesAreWatched' /\ FetchesAreCurrent'
    BY <2>1, <2>6, <2>8 DEF PageInv, PageParts, FetchesAreWatched, FetchesAreCurrent
  <2>11. RestIsCurrent'
    BY <2>1, <2>6, <2>9 DEF RestIsCurrent, AtRest
  <2> QED
    BY <2>4, <2>5, <2>10, <2>11, NothingIsShown DEF PageInv, Shapes
<1> QED
  BY <1>3, <1>4

(* The fetch: where there is one, no order is shown. *)
LEMMA FetchStep ==
  ASSUME PageInv, Fetched
  PROVE  PageInv'
<1>1. PICK L : ShapesOver(L)
  BY DEF PageInv, Shapes
<1>2. fetch.pc # "none" /\ UNCHANGED <<table, call, view, signedIn>>
  BY DEF Fetched, Read, Land, FetchFails
<1>3. \A d \in Call : ~Shown(d)'
  BY <1>2 DEF PageInv, PageParts, OrderMayGoBack, Shown, Ordering, InFlight
<1>4. Unheard' <=> Unheard
  BY <1>2 DEF Unheard
<1>5. PICK M : M = L \union {table}
  OBVIOUS
<1>6. /\ Null \in M /\ <<>> \in M
      /\ call' \in [Call -> CallOver(M)]
  BY <1>1, <1>2, <1>5, MoreShapes DEF ShapesOver
<1>7. CASE Read
  <2>1. /\ fetch' = [pc |-> "answered", list |-> table, behind |-> FALSE]
        /\ UNCHANGED <<data, stale, behind>>
    BY <1>7 DEF Read
  <2>2. fetch' \in FetchOver(M) /\ fetch'.pc = "answered" /\ fetch'.list = table
    BY <1>5, <2>1 DEF FetchOver
  <2>3. Shapes'
    BY <1>6, <2>2 DEF Shapes, ShapesOver
  <2>4. FetchesAreWatched' /\ FetchesAreCurrent'
    BY <1>2, <2>1, <2>2 DEF PageInv, PageParts, FetchesAreWatched, FetchesAreCurrent
  <2>5. RestIsCurrent'
    BY <2>2 DEF RestIsCurrent, AtRest
  <2> QED
    BY <1>3, <2>3, <2>4, <2>5, NothingIsShown DEF PageInv
<1>8. CASE Land
  <2>1. /\ data' = fetch.list /\ stale' = FALSE /\ behind' = fetch.behind
        /\ fetch' = NoFetch /\ fetch.pc = "answered"
    BY <1>8 DEF Land
  <2>2. fetch' \in FetchOver(M) /\ fetch'.pc = "none"
    BY <1>6, <2>1, NoFetchIs
  <2>3. Shapes'
    BY <1>6, <2>2 DEF Shapes, ShapesOver
  <2>4. FetchesAreWatched' /\ FetchesAreCurrent'
    BY <1>2, <2>2 DEF PageInv, PageParts, FetchesAreWatched, FetchesAreCurrent
  <2>5. fetch.list = table \/ fetch.behind \/ Unheard
    BY <2>1 DEF PageInv, PageParts, FetchesAreCurrent
  <2>6. RestIsCurrent'
    BY <1>2, <1>4, <2>1, <2>5 DEF RestIsCurrent, AtRest
  <2> QED
    BY <1>3, <2>3, <2>4, <2>6, NothingIsShown DEF PageInv
<1>9. CASE FetchFails
  <2>1. fetch' = NoFetch /\ behind' = TRUE /\ UNCHANGED <<data, stale>>
    BY <1>9 DEF FetchFails
  <2>2. fetch' \in FetchOver(M) /\ fetch'.pc = "none"
    BY <1>6, <2>1, NoFetchIs
  <2>3. Shapes'
    BY <1>6, <2>2 DEF Shapes, ShapesOver
  <2>4. FetchesAreWatched' /\ FetchesAreCurrent'
    BY <1>2, <2>2 DEF PageInv, PageParts, FetchesAreWatched, FetchesAreCurrent
  <2>5. RestIsCurrent'
    BY <2>1 DEF RestIsCurrent, AtRest
  <2> QED
    BY <1>3, <2>3, <2>4, <2>5, NothingIsShown DEF PageInv
<1> QED
  BY <1>7, <1>8, <1>9 DEF Fetched

(* Another page; a list that is neither stale nor missing, and that was    *)
(* not being fetched, is the same at rest as it was.                       *)
LEMMA VisitStep ==
  ASSUME PageInv, NEW v \in {"taxonomy", "links", "none"}, Visit(v)
  PROVE  PageInv'
<1>1. PICK L : ShapesOver(L)
  BY DEF PageInv, Shapes
<1>2. /\ signedIn /\ view' = v /\ view # v
      /\ UNCHANGED <<table, data, stale, signedIn, behind>>
  BY DEF Visit
<1>3. /\ Left \in [Call -> CallOver(L)]
      /\ \A c \in Call : OnlyLeft(Left[c], call[c])
  BY <1>1, LeftIs
<1>4. /\ Null \in L /\ <<>> \in L
      /\ NoFetch \in FetchOver(L) /\ NoFetch.pc = "none"
      /\ Asked \in FetchOver(L) /\ Asked.pc = "asked"
  BY <1>1, NoFetchIs DEF ShapesOver
<1>5. CASE v # "none" /\ (stale \/ data = Null)
  <2>1. fetch' = Asked /\ call' = Overtaken(Left)
    BY <1>5 DEF Visit
  <2>2. /\ call' \in [Call -> CallOver(L)]
        /\ \A c \in Call : call'[c].op = "reorder" => call'[c].over
    BY <1>3, <2>1, OvertakenIs DEF OnlyOvertaken
  <2>3. Shapes'
    BY <1>4, <2>1, <2>2 DEF Shapes, ShapesOver
  <2>4. \A c \in Call : ~Shown(c)'
    BY <2>2 DEF Shown, Ordering
  <2>5. FetchesAreWatched' /\ FetchesAreCurrent'
    BY <1>2, <1>4, <1>5, <2>1
    DEF PageInv, PageParts, FetchesAreWatched, FetchesAreCurrent
  <2>6. RestIsCurrent'
    BY <1>4, <2>1 DEF RestIsCurrent, AtRest
  <2> QED
    BY <2>3, <2>4, <2>5, <2>6, NothingIsShown DEF PageInv
<1>6. CASE ~(v # "none" /\ (stale \/ data = Null))
  <2>1. fetch' = NoFetch /\ call' = Left
    BY <1>6 DEF Visit
  <2>2. Shapes'
    BY <1>3, <1>4, <2>1 DEF Shapes, ShapesOver
  <2>3. \A c \in Call : OnlyLeft(call'[c], call[c])
    BY <1>3, <2>1
  <2>4. Unheard' <=> Unheard
    BY <2>3 DEF Unheard, OnlyLeft
  <2>5. \A c \in Call : Shown(c)' =>
          /\ Shown(c) /\ call'[c].pc # "settling"
          /\ call'[c].previous = call[c].previous /\ call'[c].ids = call[c].ids
          /\ call'[c].cut = call[c].cut
    BY <2>3 DEF Shown, Ordering, InFlight, OnlyLeft
  <2>6. (\A c \in Call : Ordering(c)' => call'[c].pc = "settling")
          => \A c \in Call : Ordering(c) => call[c].pc = "settling"
    BY <2>3 DEF Ordering, InFlight, OnlyLeft
  <2>7. FetchesAreWatched' /\ FetchesAreCurrent'
    BY <1>2, <1>4, <2>1 DEF PageInv, PageParts, FetchesAreWatched, FetchesAreCurrent
  <2>8. OrderMayGoBack'
    BY <1>2, <1>4, <2>1, <2>4, <2>5 DEF PageInv, PageParts, OrderMayGoBack
  <2>9. AtRest' => AtRest
    <3> SUFFICES ASSUME AtRest'
                 PROVE  AtRest
      OBVIOUS
    <3>1. (data # Null /\ ~stale) \/ v = "none"
      BY <1>6
    <3>2. data # Null /\ ~stale
      BY <1>2, <3>1 DEF AtRest
    <3>3. fetch.pc = "none"
      BY <1>2, <3>2 DEF AtRest, PageInv, PageParts, FetchesAreCurrent
    <3> QED
      BY <1>2, <2>4, <2>6, <3>2, <3>3 DEF AtRest
  <2>10. RestIsCurrent'
    BY <1>2, <2>9 DEF PageInv, PageParts, RestIsCurrent
  <2> QED
    BY <2>2, <2>7, <2>8, <2>10 DEF PageInv, PageParts
<1> QED
  BY <1>5, <1>6

(* Time, the end of a session, and what others do. *)
LEMMA WorldStep ==
  ASSUME PageInv, Age \/ Collect \/ Invalidated \/ Elsewhere \/ Logout \/ Login
  PROVE  PageInv'
<1>1. PICK L : ShapesOver(L)
  BY DEF PageInv, Shapes
<1>2. /\ Null \in L /\ <<>> \in L
      /\ call \in [Call -> CallOver(L)] /\ fetch \in FetchOver(L)
      /\ NoFetch \in FetchOver(L) /\ NoFetch.pc = "none"
  BY <1>1, NoFetchIs DEF ShapesOver
<1>3. /\ Overtaken(call) \in [Call -> CallOver(L)]
      /\ \A d \in Call : OnlyOvertaken(Overtaken(call)[d], call[d])
  BY <1>2, OvertakenIs
<1>4. CASE Age \/ Login
  <2>1. /\ UNCHANGED <<table, data, fetch, call, behind, view>>
        /\ stale => stale'
        /\ ~signedIn' => ~signedIn
    <3>1. CASE Age
      BY <3>1, Zenon DEF Age
    <3>2. CASE Login
      <4>1. UNCHANGED <<table, data, fetch, call, behind, view, stale>> /\ ~signedIn
        BY <3>2 DEF Login
      <4> QED
        BY <4>1
    <3> QED
      BY <1>4, <3>1, <3>2
  <2>2. Shapes' /\ (Unheard' <=> Unheard)
        /\ \A d \in Call : Shown(d)' <=> Shown(d)
    BY <1>1, <2>1 DEF Shapes, ShapesOver, Unheard, Shown, Ordering, InFlight
  <2>3. FetchesAreWatched' /\ FetchesAreCurrent'
    BY <2>1, <2>2 DEF PageInv, PageParts, FetchesAreWatched, FetchesAreCurrent
  <2>4. OrderMayGoBack'
    BY <2>1, <2>2 DEF PageInv, PageParts, OrderMayGoBack
  <2>5. RestIsCurrent'
    BY <2>1, <2>2 DEF PageInv, PageParts, RestIsCurrent, AtRest, Ordering, InFlight
  <2> QED
    BY <2>2, <2>3, <2>4, <2>5 DEF PageInv, PageParts
<1>5. CASE Collect
  <2>1. /\ view = "none" /\ data' = Null /\ call' = Overtaken(call)
        /\ UNCHANGED <<table, fetch, behind, view, signedIn>>
    BY <1>5 DEF Collect
  <2>2. Shapes' /\ \A d \in Call : ~Shown(d)'
    BY <1>2, <1>3, <2>1 DEF Shapes, ShapesOver, Shown, Ordering, OnlyOvertaken
  <2>3. FetchesAreWatched' /\ FetchesAreCurrent'
    BY <2>1 DEF PageInv, PageParts, FetchesAreWatched, FetchesAreCurrent
  <2>4. RestIsCurrent'
    BY <2>1 DEF RestIsCurrent, AtRest
  <2> QED
    BY <2>2, <2>3, <2>4, NothingIsShown DEF PageInv
<1>6. CASE Invalidated
  <2>1. /\ signedIn /\ stale' = TRUE /\ fetch' = Refetched(fetch, data)
        /\ call' = Overtaken(call) /\ UNCHANGED <<table, data, view, signedIn, behind>>
    BY <1>6 DEF Invalidated
  <2>2. /\ fetch' \in FetchOver(L)
        /\ fetch'.pc = "none" <=> view = "none"
        /\ fetch'.pc = "answered" => fetch'.behind
    BY <1>2, <2>1, RefetchedIs
  <2>3. Shapes' /\ \A d \in Call : ~Shown(d)'
    BY <1>2, <1>3, <2>1, <2>2 DEF Shapes, ShapesOver, Shown, Ordering, OnlyOvertaken
  <2>4. FetchesAreWatched' /\ FetchesAreCurrent'
    BY <2>1, <2>2 DEF PageInv, PageParts, FetchesAreWatched, FetchesAreCurrent
  <2>5. RestIsCurrent'
    BY <2>1, <2>2 DEF RestIsCurrent, AtRest
  <2> QED
    BY <2>3, <2>4, <2>5, NothingIsShown DEF PageInv
<1>7. CASE Elsewhere
  <2>1. /\ behind' = TRUE /\ fetch' = [fetch EXCEPT !.behind = fetch.pc = "answered"]
        /\ UNCHANGED <<data, stale, call, view, signedIn>>
    BY <1>7 DEF Elsewhere
  <2>2. /\ fetch' \in FetchOver(L) /\ fetch'.pc = fetch.pc
        /\ fetch'.pc = "answered" => fetch'.behind
    BY <1>2, <2>1 DEF FetchOver
  <2>3. Shapes' /\ \A d \in Call : Shown(d)' <=> Shown(d)
    BY <1>1, <2>1, <2>2 DEF Shapes, ShapesOver, Shown, Ordering, InFlight
  <2>4. FetchesAreWatched' /\ FetchesAreCurrent'
    BY <2>1, <2>2 DEF PageInv, PageParts, FetchesAreWatched, FetchesAreCurrent
  <2>5. OrderMayGoBack'
    BY <2>1, <2>2, <2>3 DEF PageInv, PageParts, OrderMayGoBack
  <2>6. RestIsCurrent'
    BY <2>1 DEF RestIsCurrent, AtRest
  <2> QED
    BY <2>3, <2>4, <2>5, <2>6 DEF PageInv, PageParts
<1>8. CASE Logout
  <2>1. /\ signedIn' = FALSE /\ view' = "none" /\ data' = Null /\ fetch' = NoFetch
        /\ call' = Overtaken(Left)
    BY <1>8 DEF Logout, Cleared
  <2>2. /\ Left \in [Call -> CallOver(L)]
    BY <1>1, LeftIs
  <2>3. /\ call' \in [Call -> CallOver(L)]
        /\ \A c \in Call : call'[c].op = "reorder" => call'[c].over
    BY <2>1, <2>2, OvertakenIs DEF OnlyOvertaken
  <2>4. Shapes' /\ \A d \in Call : ~Shown(d)'
    BY <1>2, <2>1, <2>3 DEF Shapes, ShapesOver, Shown, Ordering
  <2>5. FetchesAreWatched' /\ FetchesAreCurrent'
    BY <1>2, <2>1 DEF FetchesAreWatched, FetchesAreCurrent
  <2>6. RestIsCurrent'
    BY <2>1 DEF RestIsCurrent, AtRest
  <2> QED
    BY <2>4, <2>5, <2>6, NothingIsShown DEF PageInv
<1> QED
  BY <1>4, <1>5, <1>6, <1>7, <1>8

LEMMA PageInit ==
  ASSUME Init
  PROVE  PageInv
<1>1. /\ data = Null /\ stale = FALSE /\ fetch = NoFetch
      /\ call = [c \in Call |-> NoCall]
      /\ view = "none" /\ signedIn = TRUE /\ behind = FALSE
  BY DEF Init
<1>2. PICK L : L = {Null, <<>>}
  OBVIOUS
<1>3. /\ NoCall \in CallOver(L) /\ NoCall.pc = "none"
      /\ NoFetch \in FetchOver(L) /\ NoFetch.pc = "none"
  BY <1>2, NoCallIs, NoFetchIs
<1>4. call \in [Call -> CallOver(L)] /\ \A c \in Call : call[c].pc = "none"
  BY <1>1, <1>3
<1>5. Shapes
  BY <1>1, <1>2, <1>3, <1>4 DEF Shapes, ShapesOver
<1>6. \A c \in Call : ~Shown(c)
  BY <1>4 DEF Shown, Ordering, InFlight
<1> QED
  BY <1>1, <1>3, <1>5, <1>6 DEF PageInv, PageParts, FetchesAreWatched, FetchesAreCurrent,
     OrderMayGoBack, RestIsCurrent, AtRest

LEMMA PageStep ==
  ASSUME PageInv, [Next]_vars
  PROVE  PageInv'
<1>1. CASE UNCHANGED vars
  BY <1>1 DEF vars, PageInv, PageParts, Shapes, ShapesOver, FetchesAreWatched,
     FetchesAreCurrent, OrderMayGoBack, RestIsCurrent, AtRest, Unheard, Shown, Ordering,
     InFlight
<1>2. ASSUME NEW c \in Call,
             \/ Create(c) \/ Rename(c) \/ Delete(c) \/ Reorder(c)
             \/ Answered(c) \/ Settle(c)
      PROVE  PageInv'
  BY <1>2, AskStep, ReorderStep, AnswerStep, SucceedStep, EndStep DEF Answered
<1> QED
  BY <1>1, <1>2, FetchStep, VisitStep, WorldStep DEF Next

(* The invariant, for every instance. *)
THEOREM PageInvariant == Spec => []PageInv
BY PageInit, PageStep, PTL DEF Spec

(* At rest the list is the server's (the handlers of taxonomy.tsx and the  *)
(* optimistic reorder of admin-api.ts:38-69).                              *)
THEOREM PageIsCurrentHolds == Spec => []PageIsCurrent
<1>1. PageInv => PageIsCurrent
  BY DEF PageInv, PageParts, RestIsCurrent, AtRest, PageIsCurrent, Unheard, Ordering, InFlight
<1> QED
  BY <1>1, PageInvariant, PTL

(* An order that was asked for is shown until something else is done.      *)
THEOREM OrderIsHeldHolds == Spec => []OrderIsHeld
<1>1. PageInv => OrderIsHeld
  BY DEF PageInv, PageParts, OrderMayGoBack, OrderIsHeld, Shown
<1> QED
  BY <1>1, PageInvariant, PTL

(* After a logout no fetch brings the list back (logoutAdmin).             *)
THEOREM StaysClearedHolds == Spec => StaysCleared
<1> DEFINE Step == ~signedIn /\ data = Null /\ data' # Null =>
                     \E c \in Call : InFlight(c) /\ call'[c] # call[c]
<1>1. PageInv /\ [Next]_vars => [Step]_vars
  <2> SUFFICES ASSUME PageInv, Next, ~signedIn, data = Null, data' # Null
               PROVE  \E c \in Call : InFlight(c) /\ call'[c] # call[c]
    OBVIOUS
  <2>1. view = "none" /\ fetch.pc = "none"
    BY DEF PageInv, PageParts, FetchesAreWatched
  <2>2. ~Fetched
    BY <2>1 DEF Fetched, Read, Land, FetchFails
  <2>3. PICK c \in Call : Succeed(c) \/ Reordered(c) \/ Fail(c)
    BY <2>1, <2>2 DEF Next, Answered, Create, Rename, Delete, Reorder, Serve, Refuse,
       LoseAnswer, Settle, Visit, Age, Collect, Invalidated, Elsewhere, Logout, Login
  <2>4. PICK L : ShapesOver(L)
    BY DEF PageInv, Shapes
  <2>5. /\ call[c].pc \in {"done", "failed"}
        /\ call'[c].pc \in {"none", "settling"}
    <3>1. call \in [Call -> CallOver(L)] /\ Overtaken(call) \in [Call -> CallOver(L)]
      BY <2>4, OvertakenIs DEF ShapesOver
    <3>2. NoCall.pc = "none"
      BY <2>4, NoCallIs DEF ShapesOver
    <3>3. CASE Succeed(c)
      BY <3>1, <3>2, <3>3 DEF Succeed
    <3>4. CASE Fail(c)
      BY <3>1, <3>2, <3>4 DEF Fail
    <3>5. CASE Reordered(c)
      <4>1. PICK r : /\ call' = [Overtaken(call) EXCEPT ![c] = r]
                     /\ r = [Sent("reorder", Null) EXCEPT
                               !.pc = "settling", !.here = call[c].here, !.over = TRUE]
        BY <3>5 DEF Reordered
      <4>2. r.pc = "settling"
        BY <4>1 DEF Sent
      <4> QED
        BY <3>1, <3>5, <4>1, <4>2 DEF Reordered
    <3> QED
      BY <2>3, <3>3, <3>4, <3>5
  <2> QED
    BY <2>5 DEF InFlight
<1>2. StaysCleared <=> [][Step]_vars
  BY PTL DEF StaysCleared
<1> QED
  BY <1>1, <1>2, PageInvariant, PTL DEF Spec

-----------------------------------------------------------------------------
(* The lists: no item twice in the server's table, in the cache, in an     *)
(* answer or in what a reorder goes back to, and no order that names one   *)
(* twice.                                                                  *)
Lists == {l \in Seq(Entry) : \A j, k \in DOMAIN l : l[j].item = l[k].item => j = k}
Orders == {ids \in Seq(Item) : \A j, k \in DOMAIN ids : ids[j] = ids[k] => j = k}

Calls ==
  [op : {"none", "create", "pick", "rename", "remove", "reorder"},
   pc : {"none", "sent", "done", "failed", "settling"}, item : Item \union {Null},
   ids : Orders, previous : Lists, list : Lists,
   here : BOOLEAN, over : BOOLEAN, cut : BOOLEAN]

Fetches == [pc : {"none", "asked", "answered"}, list : Lists, behind : BOOLEAN]

(* Mutations: one that creates, renames or removes is about an item. *)
Proper(cs) ==
  /\ cs \in [Call -> Calls]
  /\ \A c \in Call : cs[c].op \notin {"none", "reorder"} => cs[c].item \in Item

(* The inductive invariant of the types. *)
ListsInv ==
  /\ table \in Lists
  /\ data \in Lists \union {Null}
  /\ stale \in BOOLEAN /\ signedIn \in BOOLEAN /\ behind \in BOOLEAN
  /\ fetch \in Fetches
  /\ Proper(call)
  /\ view \in {"taxonomy", "links", "none"}
  /\ events \in 0..MaxEvents

(* The elements of a list. *)
LEMMA ListIs ==
  ASSUME NEW l \in Lists
  PROVE  /\ l \in Seq(Entry) /\ Len(l) \in Nat /\ DOMAIN l = 1..Len(l)
         /\ \A k \in 1..Len(l) : l[k] \in Entry /\ l[k].item \in Item /\ l[k].name \in Nat
         /\ \A j, k \in 1..Len(l) : l[j].item = l[k].item => j = k
         /\ Items(l) = {l[k].item : k \in 1..Len(l)} /\ Items(l) \subseteq Item
<1>1. l \in Seq(Entry) /\ \A j, k \in DOMAIN l : l[j].item = l[k].item => j = k
  BY DEF Lists
<1>2. Len(l) \in Nat /\ DOMAIN l = 1..Len(l) /\ \A k \in 1..Len(l) : l[k] \in Entry
  <2> HIDE DEF Entry
  <2> QED
    BY <1>1
<1>3. \A k \in 1..Len(l) : l[k].item \in Item /\ l[k].name \in Nat
  BY <1>2 DEF Entry
<1> QED
  BY <1>1, <1>2, <1>3 DEF Items

(* What it takes to be a list. *)
LEMMA IsAList ==
  ASSUME NEW l \in Seq(Entry), \A j, k \in 1..Len(l) : l[j].item = l[k].item => j = k
  PROVE  l \in Lists
BY DEF Lists

LEMMA OrderIs ==
  ASSUME NEW ids \in Orders
  PROVE  /\ ids \in Seq(Item) /\ Len(ids) \in Nat /\ DOMAIN ids = 1..Len(ids)
         /\ \A k \in 1..Len(ids) : ids[k] \in Item
         /\ \A j, k \in 1..Len(ids) : ids[j] = ids[k] => j = k
BY DEF Orders

LEMMA NoItems == <<>> \in Lists /\ <<>> \in Orders
BY DEF Lists, Orders

LEMMA ItemsInOrder ==
  ASSUME NEW l \in Lists
  PROVE  [k \in DOMAIN l |-> l[k].item] \in Orders
<1> DEFINE ids == [k \in 1..Len(l) |-> l[k].item]
<1>1. ids \in Seq(Item) /\ DOMAIN ids = 1..Len(l)
  BY ListIs
<1>2. \A j, k \in 1..Len(l) : ids[j] = ids[k] => j = k
  BY ListIs
<1>3. ids = [k \in DOMAIN l |-> l[k].item]
  BY ListIs
<1> HIDE DEF ids
<1> QED
  BY <1>1, <1>2, <1>3 DEF Orders

(* What is kept of a list, or of an order, names no item twice either. *)
LEMMA KeptOfList ==
  ASSUME NEW l \in Lists, NEW S
  PROVE  /\ Kept(l, S) \in Lists
         /\ \A k \in 1..Len(Kept(l, S)) : Kept(l, S)[k] \in S
<1>1. l \in Seq(Entry) /\ \A j, k \in 1..Len(l) : l[j].item = l[k].item => j = k
  BY ListIs
<1>2. Kept(l, S) \in Seq(Entry)
  BY <1>1, KeptIs
<1>3. PICK e : Picks(e, Kept(l, S), l, S, Len(l))
  BY <1>1, KeptIs
<1>4. Len(Kept(l, S)) \in Nat
  BY <1>2
<1>5. \A n \in 1..Len(Kept(l, S)) : /\ e[n] \in 1..Len(l) /\ e[n] \in Nat
                                    /\ Kept(l, S)[n] = l[e[n]] /\ l[e[n]] \in S
  BY <1>3 DEF Picks
<1>6. \A n, m \in 1..Len(Kept(l, S)) : n < m => e[n] < e[m]
  BY <1>3 DEF Picks
<1>7. \A n, m \in 1..Len(Kept(l, S)) : Kept(l, S)[n].item = Kept(l, S)[m].item => n = m
  <2> SUFFICES ASSUME NEW n \in 1..Len(Kept(l, S)), NEW m \in 1..Len(Kept(l, S)),
                      Kept(l, S)[n].item = Kept(l, S)[m].item
               PROVE  n = m
    OBVIOUS
  <2>1. e[n] = e[m] /\ e[n] \in Nat
    BY <1>1, <1>5
  <2>2. ~(n < m) /\ ~(m < n)
    BY <1>6, <2>1
  <2> QED
    BY <1>4, <2>2
<1> QED
  BY <1>2, <1>5, <1>7, IsAList

LEMMA KeptOfOrder ==
  ASSUME NEW ids \in Orders, NEW S
  PROVE  /\ Kept(ids, S) \in Orders
         /\ \A k \in 1..Len(Kept(ids, S)) : Kept(ids, S)[k] \in S
<1>1. ids \in Seq(Item) /\ \A j, k \in 1..Len(ids) : ids[j] = ids[k] => j = k
  BY OrderIs
<1>2. Kept(ids, S) \in Seq(Item)
  BY <1>1, KeptIs
<1>3. PICK e : Picks(e, Kept(ids, S), ids, S, Len(ids))
  BY <1>1, KeptIs
<1>4. Len(Kept(ids, S)) \in Nat
  BY <1>2
<1>5. \A n \in 1..Len(Kept(ids, S)) : /\ e[n] \in 1..Len(ids) /\ e[n] \in Nat
                                      /\ Kept(ids, S)[n] = ids[e[n]] /\ ids[e[n]] \in S
  BY <1>3 DEF Picks
<1>6. \A n, m \in 1..Len(Kept(ids, S)) : n < m => e[n] < e[m]
  BY <1>3 DEF Picks
<1>7. \A n, m \in 1..Len(Kept(ids, S)) : Kept(ids, S)[n] = Kept(ids, S)[m] => n = m
  <2> SUFFICES ASSUME NEW n \in 1..Len(Kept(ids, S)), NEW m \in 1..Len(Kept(ids, S)),
                      Kept(ids, S)[n] = Kept(ids, S)[m]
               PROVE  n = m
    OBVIOUS
  <2>1. e[n] = e[m] /\ e[n] \in Nat
    BY <1>1, <1>5
  <2>2. ~(n < m) /\ ~(m < n)
    BY <1>6, <2>1
  <2> QED
    BY <1>4, <2>2
<1> QED
  BY <1>2, <1>5, <1>7 DEF Orders

LEMMA WithoutIs ==
  ASSUME NEW l \in Lists, NEW i
  PROVE  Without(l, i) \in Lists /\ i \notin Items(Without(l, i))
<1>1. /\ Without(l, i) \in Lists
      /\ \A k \in 1..Len(Without(l, i)) : Without(l, i)[k] \in {e \in ToSet(l) : e.item # i}
  BY KeptOfList DEF Without
<1> QED
  BY <1>1, ListIs

LEMMA OrderedIs ==
  ASSUME NEW l \in Lists, NEW ids \in Orders
  PROVE  Ordered(l, ids) \in Lists
<1> DEFINE known == Kept(ids, Items(l))
<1>1. known \in Orders /\ \A k \in 1..Len(known) : known[k] \in Items(l)
  BY KeptOfOrder
<1>2. Ordered(l, ids) = [k \in DOMAIN known |-> CHOOSE e \in ToSet(l) : e.item = known[k]]
  BY DEF Ordered
<1> HIDE DEF known
<1>3. /\ known \in Seq(Item) /\ Len(known) \in Nat /\ DOMAIN known = 1..Len(known)
      /\ \A j, k \in 1..Len(known) : known[j] = known[k] => j = k
  BY <1>1, OrderIs
<1> DEFINE r == [k \in 1..Len(known) |-> CHOOSE e \in ToSet(l) : e.item = known[k]]
<1>4. ASSUME NEW k \in 1..Len(known)
      PROVE  r[k] \in Entry /\ r[k].item = known[k]
  <2>1. \E e \in ToSet(l) : e.item = known[k]
    BY <1>1, ListIs DEF ToSet
  <2>2. r[k] \in ToSet(l) /\ r[k].item = known[k]
    BY <2>1
  <2> QED
    BY <2>2, ListIs DEF ToSet
<1>5. r = Ordered(l, ids) /\ DOMAIN r = 1..Len(known)
  BY <1>2, <1>3
<1> HIDE DEF r
<1>6. r \in Seq(Entry) /\ Len(r) = Len(known)
  <2>1. r = [k \in 1..Len(known) |-> r[k]]
    BY DEF r
  <2>2. r \in [1..Len(known) -> Entry]
    BY <1>4, <2>1
  <2> QED
    BY <1>3, <2>2
<1>7. \A j, k \in 1..Len(r) : r[j].item = r[k].item => j = k
  BY <1>3, <1>4, <1>6
<1> QED
  BY <1>5, <1>6, <1>7, IsAList

LEMMA RenamedIs ==
  ASSUME NEW l \in Lists, NEW i
  PROVE  Renamed(l, i) \in Lists
<1> DEFINE r == [k \in 1..Len(l) |->
                   IF l[k].item = i THEN [l[k] EXCEPT !.name = @ + 1] ELSE l[k]]
<1>1. r = Renamed(l, i)
  BY ListIs DEF Renamed
<1>2. ASSUME NEW k \in 1..Len(l)
      PROVE  r[k] \in Entry /\ r[k].item = l[k].item
  <2>1. l[k] \in Entry /\ l[k].name \in Nat
    BY ListIs
  <2>2. [l[k] EXCEPT !.name = @ + 1] \in Entry /\ [l[k] EXCEPT !.name = @ + 1].item = l[k].item
    BY <2>1 DEF Entry
  <2> QED
    BY <2>1, <2>2
<1>3. DOMAIN r = 1..Len(l) /\ r = [k \in 1..Len(l) |-> r[k]]
  OBVIOUS
<1> HIDE DEF r
<1>4. r \in Seq(Entry) /\ Len(r) = Len(l)
  <2>1. r \in [1..Len(l) -> Entry]
    BY <1>2, <1>3
  <2> QED
    BY <2>1, ListIs
<1>5. \A j, k \in 1..Len(r) : r[j].item = r[k].item => j = k
  BY <1>2, <1>4, ListIs
<1> QED
  BY <1>1, <1>4, <1>5, IsAList

LEMMA AppendIs ==
  ASSUME NEW l \in Lists, NEW i \in Item, i \notin Items(l)
  PROVE  Append(l, New(i)) \in Lists
<1> DEFINE e == New(i)
<1>1. e \in Entry /\ e.item = i
  BY DEF New, Entry
<1> HIDE DEF e
<1>2. PICK r : r = Append(l, e)
  OBVIOUS
<1>3. /\ r \in Seq(Entry) /\ Len(r) = Len(l) + 1 /\ Len(l) \in Nat
      /\ \A k \in 1..Len(l) : r[k] = l[k]
      /\ r[Len(l) + 1] = e
  <2>1. l \in Seq(Entry)
    BY ListIs
  <2> HIDE DEF Entry
  <2> QED
    BY <1>1, <1>2, <2>1, AppendProperties
<1>4. \A j, k \in 1..Len(r) : r[j].item = r[k].item => j = k
  <2>1. \A k \in 1..Len(l) : r[k].item # i
    BY <1>3, ListIs
  <2>2. \A j, k \in 1..Len(l) : r[j].item = r[k].item => j = k
    BY <1>3, ListIs
  <2>3. \A k \in 1..Len(r) : k \in 1..Len(l) \/ (k = Len(l) + 1 /\ r[k].item = i)
    BY <1>1, <1>3
  <2> QED
    BY <2>1, <2>2, <2>3
<1>5. r \in Lists
  BY <1>3, <1>4, IsAList
<1> QED
  BY <1>2, <1>5 DEF e

LEMMA AppendedIs ==
  ASSUME NEW l \in Lists, NEW i \in Item
  PROVE  Appended(l, New(i)) \in Lists
<1>1. New(i).item = i
  BY DEF New
<1>2. Without(l, i) \in Lists /\ i \notin Items(Without(l, i))
  BY WithoutIs
<1> QED
  BY <1>1, <1>2, AppendIs DEF Appended

(* Where the elements of an order come to be when one of them is taken out *)
(* and put back elsewhere.                                                 *)
LEMMA RemovedIs ==
  ASSUME NEW ids \in Seq(Item), NEW from \in 1..Len(ids)
  PROVE  /\ RemoveAt(ids, from) \in Seq(Item)
         /\ Len(RemoveAt(ids, from)) = Len(ids) - 1
         /\ \A k \in 1..Len(ids) - 1 :
              RemoveAt(ids, from)[k] = IF k < from THEN ids[k] ELSE ids[k + 1]
<1>1. Len(ids) \in Nat /\ from \in Nat
  OBVIOUS
<1>2. PICK a, b : a = SubSeq(ids, 1, from - 1) /\ b = SubSeq(ids, from + 1, Len(ids))
  OBVIOUS
<1>3. /\ a \in Seq(Item) /\ Len(a) = from - 1
      /\ \A k \in 1..from - 1 : a[k] = ids[k]
  BY <1>1, <1>2, SubSeqProperties
<1>4. /\ b \in Seq(Item) /\ Len(b) = Len(ids) - from
      /\ \A k \in 1..Len(ids) - from : b[k] = ids[from + k]
  <2>1. CASE from < Len(ids)
    BY <1>1, <1>2, <2>1, SubSeqProperties
  <2>2. CASE from = Len(ids)
    BY <1>1, <1>2, <2>2, SubSeqEmpty
  <2> QED
    BY <1>1, <2>1, <2>2
<1>5. RemoveAt(ids, from) = a \o b
  BY <1>2 DEF RemoveAt
<1>6. /\ a \o b \in Seq(Item) /\ Len(a \o b) = Len(ids) - 1
      /\ \A k \in 1..Len(ids) - 1 : (a \o b)[k] = IF k < from THEN ids[k] ELSE ids[k + 1]
  <2>1. /\ a \o b \in Seq(Item) /\ Len(a \o b) = Len(ids) - 1
        /\ \A k \in 1..Len(ids) - 1 :
             (a \o b)[k] = IF k <= from - 1 THEN a[k] ELSE b[k - (from - 1)]
    <3>1. Len(a) + Len(b) = Len(ids) - 1
      BY <1>1, <1>3, <1>4
    <3>2. /\ a \o b \in Seq(Item) /\ Len(a \o b) = Len(a) + Len(b)
          /\ \A k \in 1..Len(a) + Len(b) :
               (a \o b)[k] = IF k <= Len(a) THEN a[k] ELSE b[k - Len(a)]
      BY <1>3, <1>4, ConcatProperties
    <3> QED
      BY <1>3, <3>1, <3>2
  <2>2. ASSUME NEW k \in 1..Len(ids) - 1
        PROVE  (a \o b)[k] = IF k < from THEN ids[k] ELSE ids[k + 1]
    <3>1. CASE k < from
      <4>1. k <= from - 1 /\ k \in 1..from - 1
        BY <1>1, <3>1
      <4> QED
        BY <1>3, <2>1, <3>1, <4>1
    <3>2. CASE from <= k
      <4>1. PICK m \in 1..Len(ids) - from : m = k - (from - 1) /\ from + m = k + 1
        BY <1>1, <3>2
      <4>2. ~(k <= from - 1) /\ ~(k < from)
        BY <1>1, <3>2
      <4>3. (a \o b)[k] = b[m] /\ b[m] = ids[from + m]
        BY <1>4, <2>1, <4>1, <4>2
      <4> QED
        BY <4>1, <4>2, <4>3
    <3>3. k < from \/ from <= k
      BY <1>1
    <3> QED
      BY <3>1, <3>2, <3>3
  <2> QED
    BY <2>1, <2>2
<1> QED
  BY <1>5, <1>6

LEMMA InsertedIs ==
  ASSUME NEW ids \in Seq(Item), NEW to \in 1..Len(ids) + 1, NEW i \in Item
  PROVE  /\ InsertAt(ids, to, i) \in Seq(Item)
         /\ Len(InsertAt(ids, to, i)) = Len(ids) + 1
         /\ \A k \in 1..Len(ids) + 1 :
              InsertAt(ids, to, i)[k] =
                IF k < to THEN ids[k] ELSE IF k = to THEN i ELSE ids[k - 1]
<1>1. Len(ids) \in Nat /\ to \in Nat
  OBVIOUS
<1>2. PICK a, b : a = SubSeq(ids, 1, to - 1) /\ b = SubSeq(ids, to, Len(ids))
  OBVIOUS
<1>3. /\ a \in Seq(Item) /\ Len(a) = to - 1
      /\ \A k \in 1..to - 1 : a[k] = ids[k]
  <2>1. CASE to > 1
    BY <1>1, <1>2, <2>1, SubSeqProperties
  <2>2. CASE to = 1
    BY <1>1, <1>2, <2>2, SubSeqEmpty
  <2> QED
    BY <1>1, <2>1, <2>2
<1>4. /\ b \in Seq(Item) /\ Len(b) = Len(ids) + 1 - to
      /\ \A k \in 1..Len(ids) + 1 - to : b[k] = ids[to + k - 1]
  <2>1. CASE to <= Len(ids)
    BY <1>1, <1>2, <2>1, SubSeqProperties
  <2>2. CASE to = Len(ids) + 1
    BY <1>1, <1>2, <2>2, SubSeqEmpty
  <2> QED
    BY <1>1, <2>1, <2>2
<1>5. PICK c : c = a \o <<i>>
  OBVIOUS
<1>6. /\ c \in Seq(Item) /\ Len(c) = to
      /\ \A k \in 1..to - 1 : c[k] = ids[k]
      /\ c[to] = i
  <2>1. <<i>> \in Seq(Item) /\ Len(<<i>>) = 1 /\ <<i>>[1] = i
    OBVIOUS
  <2> QED
    BY <1>1, <1>3, <1>5, <2>1, ConcatProperties
<1>7. InsertAt(ids, to, i) = c \o b
  BY <1>2, <1>5 DEF InsertAt
<1>8. /\ c \o b \in Seq(Item) /\ Len(c \o b) = Len(ids) + 1
      /\ \A k \in 1..Len(ids) + 1 :
           (c \o b)[k] = IF k < to THEN ids[k] ELSE IF k = to THEN i ELSE ids[k - 1]
  <2>1. /\ c \o b \in Seq(Item) /\ Len(c \o b) = Len(ids) + 1
        /\ \A k \in 1..Len(ids) + 1 : (c \o b)[k] = IF k <= to THEN c[k] ELSE b[k - to]
    <3>1. Len(c) + Len(b) = Len(ids) + 1
      BY <1>1, <1>4, <1>6
    <3>2. /\ c \o b \in Seq(Item) /\ Len(c \o b) = Len(c) + Len(b)
          /\ \A k \in 1..Len(c) + Len(b) :
               (c \o b)[k] = IF k <= Len(c) THEN c[k] ELSE b[k - Len(c)]
      BY <1>4, <1>6, ConcatProperties
    <3> QED
      BY <1>6, <3>1, <3>2
  <2>2. ASSUME NEW k \in 1..Len(ids) + 1
        PROVE  (c \o b)[k] = IF k < to THEN ids[k] ELSE IF k = to THEN i ELSE ids[k - 1]
    <3>1. CASE k < to
      <4>1. k <= to /\ k \in 1..to - 1
        BY <1>1, <3>1
      <4> QED
        BY <1>6, <2>1, <3>1, <4>1
    <3>2. CASE k = to
      <4>1. k <= to /\ ~(k < to)
        BY <1>1, <3>2
      <4> QED
        BY <1>6, <2>1, <3>2, <4>1
    <3>3. CASE to < k
      <4>1. PICK m \in 1..Len(ids) + 1 - to : m = k - to /\ to + m - 1 = k - 1
        BY <1>1, <3>3
      <4>2. ~(k <= to) /\ ~(k < to) /\ k # to
        BY <1>1, <3>3
      <4>3. (c \o b)[k] = b[m] /\ b[m] = ids[to + m - 1]
        BY <1>4, <2>1, <4>1, <4>2
      <4> QED
        BY <4>1, <4>2, <4>3
    <3>4. k < to \/ k = to \/ to < k
      BY <1>1
    <3> QED
      BY <3>1, <3>2, <3>3, <3>4
  <2> QED
    BY <2>1, <2>2
<1> QED
  BY <1>7, <1>8

(* Where an element of the new order has been in the old one. *)
MovedFrom(from, to, k) ==
  IF k = to THEN from
  ELSE IF k < to THEN (IF k < from THEN k ELSE k + 1)
  ELSE IF k - 1 < from THEN k - 1 ELSE k

LEMMA MovedFromOnce ==
  ASSUME NEW n \in Nat, NEW from \in 1..n, NEW to \in 1..n, NEW j \in 1..n, NEW k \in 1..n
  PROVE  /\ MovedFrom(from, to, k) \in 1..n
         /\ MovedFrom(from, to, j) = MovedFrom(from, to, k) => j = k
BY DEF MovedFrom

LEMMA MovesAreOrders ==
  ASSUME NEW ids \in Orders, NEW moved \in Moves(ids)
  PROVE  moved \in Orders
<1>1. /\ ids \in Seq(Item) /\ Len(ids) \in Nat /\ DOMAIN ids = 1..Len(ids)
      /\ \A k \in 1..Len(ids) : ids[k] \in Item
      /\ \A j, k \in 1..Len(ids) : ids[j] = ids[k] => j = k
  BY OrderIs
<1>2. PICK from \in 1..Len(ids), to \in 1..Len(ids) :
        moved = InsertAt(RemoveAt(ids, from), to, ids[from])
  BY <1>1 DEF Moves
<1>3. PICK r : r = RemoveAt(ids, from)
  OBVIOUS
<1>4. /\ r \in Seq(Item) /\ Len(r) = Len(ids) - 1
      /\ \A k \in 1..Len(ids) - 1 : r[k] = IF k < from THEN ids[k] ELSE ids[k + 1]
  BY <1>1, <1>3, RemovedIs
<1>5. /\ moved \in Seq(Item) /\ Len(moved) = Len(ids)
      /\ \A k \in 1..Len(ids) :
           moved[k] = IF k < to THEN r[k] ELSE IF k = to THEN ids[from] ELSE r[k - 1]
  <2>1. to \in 1..Len(r) + 1 /\ Len(r) + 1 = Len(ids)
    BY <1>1, <1>4
  <2>2. PICK i \in Item : i = ids[from]
    BY <1>1
  <2>3. moved = InsertAt(r, to, i)
    BY <1>2, <1>3, <2>2
  <2>4. /\ InsertAt(r, to, i) \in Seq(Item)
        /\ Len(InsertAt(r, to, i)) = Len(r) + 1
        /\ \A k \in 1..Len(r) + 1 :
             InsertAt(r, to, i)[k] = IF k < to THEN r[k] ELSE IF k = to THEN i ELSE r[k - 1]
    BY <1>4, <2>1, InsertedIs
  <2> QED
    BY <2>1, <2>2, <2>3, <2>4
<1>6. ASSUME NEW k \in 1..Len(ids)
      PROVE  moved[k] = ids[MovedFrom(from, to, k)]
  <2>1. CASE k = to
    BY <1>1, <1>5, <2>1 DEF MovedFrom
  <2>2. CASE k < to
    BY <1>1, <1>4, <1>5, <2>2 DEF MovedFrom
  <2>3. CASE k > to
    <3>1. k - 1 \in 1..Len(ids) - 1 /\ moved[k] = r[k - 1]
      BY <1>1, <1>5, <2>3
    <3>2. (k - 1) + 1 = k
      OBVIOUS
    <3> QED
      BY <1>1, <1>4, <2>3, <3>1, <3>2 DEF MovedFrom
  <2> QED
    BY <1>1, <2>1, <2>2, <2>3
<1>7. \A j, k \in 1..Len(moved) : moved[j] = moved[k] => j = k
  <2> SUFFICES ASSUME NEW j \in 1..Len(ids), NEW k \in 1..Len(ids), moved[j] = moved[k]
               PROVE  j = k
    BY <1>5
  <2>1. MovedFrom(from, to, j) \in 1..Len(ids) /\ MovedFrom(from, to, k) \in 1..Len(ids)
    BY <1>1, MovedFromOnce
  <2>2. MovedFrom(from, to, j) = MovedFrom(from, to, k)
    BY <1>1, <1>6, <2>1
  <2> QED
    BY <1>1, <2>2, MovedFromOnce
<1> QED
  BY <1>5, <1>7 DEF Orders

-----------------------------------------------------------------------------
(* The records of mutations and fetches, and how steps change them. *)
LEMMA CallsIs ==
  /\ NoCall \in Calls /\ NoCall.op = "none"
  /\ \A op \in {"none", "create", "pick", "rename", "remove", "reorder"} :
       \A i \in Item \union {Null} :
         /\ Sent(op, i) \in Calls
         /\ Sent(op, i).op = op /\ Sent(op, i).item = i
BY NoItems DEF NoCall, Sent, Calls

LEMMA MarkedIs ==
  ASSUME NEW r \in Calls
  PROVE  /\ [r EXCEPT !.over = TRUE] \in Calls
         /\ [r EXCEPT !.over = TRUE].op = r.op /\ [r EXCEPT !.over = TRUE].item = r.item
         /\ [r EXCEPT !.here = FALSE] \in Calls
         /\ [r EXCEPT !.here = FALSE].op = r.op /\ [r EXCEPT !.here = FALSE].item = r.item
BY DEF Calls

LEMMA FetchesIs ==
  /\ NoFetch \in Fetches /\ Asked \in Fetches
  /\ \A f \in Fetches : \A b \in BOOLEAN : [f EXCEPT !.behind = b] \in Fetches
BY NoItems DEF NoFetch, Asked, Fetches

LEMMA ProperCalls ==
  ASSUME NEW cs, Proper(cs)
  PROVE  /\ Proper(Overtaken(cs))
         /\ cs = call => Proper(Left)
         /\ \A c \in Call : \A r \in Calls :
              (r.op \notin {"none", "reorder"} => r.item \in Item) => Proper([cs EXCEPT ![c] = r])
<1>1. Proper(Overtaken(cs))
  <2>1. ASSUME NEW c \in Call
        PROVE  /\ Overtaken(cs)[c] \in Calls /\ Overtaken(cs)[c].op = cs[c].op
               /\ Overtaken(cs)[c].item = cs[c].item
    BY MarkedIs DEF Proper, Overtaken
  <2>2. Overtaken(cs) = [c \in Call |-> Overtaken(cs)[c]]
    BY DEF Overtaken
  <2>3. Overtaken(cs) \in [Call -> Calls]
    BY <2>1, <2>2
  <2> QED
    BY <2>1, <2>3 DEF Proper
<1>2. ASSUME cs = call
      PROVE  Proper(Left)
  <2>1. ASSUME NEW c \in Call
        PROVE  /\ Left[c] \in Calls
               /\ Left[c].op \notin {"none", "reorder"} => Left[c].item \in Item
    <3>1. Left[c] = IF call[c].pc \in {"none", "settling"} THEN NoCall
                    ELSE [call[c] EXCEPT !.here = FALSE]
      BY DEF Left
    <3>2. call[c] \in Calls /\ (call[c].op \notin {"none", "reorder"} => call[c].item \in Item)
      BY <1>2 DEF Proper
    <3>3. CASE call[c].pc \in {"none", "settling"}
      <4>1. Left[c] = NoCall
        BY <3>1, <3>3
      <4> QED
        BY <4>1, CallsIs
    <3>4. CASE call[c].pc \notin {"none", "settling"}
      <4>1. Left[c] = [call[c] EXCEPT !.here = FALSE]
        BY <3>1, <3>4
      <4>2. Left[c] \in Calls /\ Left[c].op = call[c].op /\ Left[c].item = call[c].item
        BY <3>2, <4>1, MarkedIs
      <4> QED
        BY <3>2, <4>2
    <3> QED
      BY <3>3, <3>4
  <2>2. Left = [c \in Call |-> Left[c]]
    BY DEF Left
  <2>3. Left \in [Call -> Calls]
    BY <2>1, <2>2
  <2> QED
    BY <2>1, <2>3 DEF Proper
<1>3. ASSUME NEW c \in Call, NEW r \in Calls, r.op \notin {"none", "reorder"} => r.item \in Item
      PROVE  Proper([cs EXCEPT ![c] = r])
  BY <1>3 DEF Proper
<1> QED
  BY <1>1, <1>2, <1>3

LEMMA RefetchedIsFetch ==
  ASSUME NEW f \in Fetches, NEW d
  PROVE  Refetched(f, d) \in Fetches
<1>1. [f EXCEPT !.behind = f.pc = "answered"] \in Fetches
  <2>1. (f.pc = "answered") \in BOOLEAN
    OBVIOUS
  <2> QED
    BY <2>1, FetchesIs
<1> QED
  BY <1>1, FetchesIs DEF Refetched

LEMMA AskKeepsLists ==
  ASSUME ListsInv, NEW c \in Call, Create(c) \/ Rename(c) \/ Delete(c)
  PROVE  ListsInv'
<1>1. UNCHANGED <<table, data, stale, fetch, behind, view, signedIn>>
  BY DEF Create, Rename, Delete
<1>2. PICK op \in {"create", "pick", "rename", "remove"}, i \in Item : Send(c, Sent(op, i))
  <2>1. CASE Create(c)
    BY <2>1 DEF Create
  <2>2. CASE Rename(c) \/ Delete(c)
    <3>1. data \in Lists
      BY <2>2 DEF Rename, Delete, ListsInv
    <3>2. Items(data) \subseteq Item
      BY <3>1, ListIs
    <3> QED
      BY <2>2, <3>2 DEF Rename, Delete
  <2> QED
    BY <2>1, <2>2
<1>3. PICK r \in Calls : r = Sent(op, i) /\ r.op = op /\ r.item = i
  BY CallsIs
<1>4. Happens /\ call' = [call EXCEPT ![c] = r]
  BY <1>2, <1>3 DEF Send
<1>5. Proper(call')
  BY <1>3, <1>4, ProperCalls DEF ListsInv
<1>6. events' \in 0..MaxEvents
  BY <1>4, PageAssumption DEF Happens, ListsInv
<1> QED
  BY <1>1, <1>5, <1>6 DEF ListsInv, Proper

LEMMA ReorderKeepsLists ==
  ASSUME ListsInv, NEW c \in Call, Reorder(c)
  PROVE  ListsInv'
<1>1. data # Null /\ stale' = FALSE /\ fetch' = NoFetch /\ UNCHANGED <<table, behind, view, signedIn>>
  BY DEF Reorder, Cancelled
<1>2. data \in Lists
  BY <1>1 DEF ListsInv
<1> DEFINE cut == fetch.pc # "none" \/ \E d \in Call : Ordering(d)
<1>3. PICK ids \in Moves([k \in DOMAIN data |-> data[k].item]) :
        /\ Send(c, [Sent("reorder", Null) EXCEPT !.ids = ids, !.previous = data, !.cut = cut])
        /\ data' = Ordered(data, ids)
  BY DEF Reorder
<1>4. ids \in Orders /\ data' \in Lists
  BY <1>2, <1>3, ItemsInOrder, MovesAreOrders, OrderedIs
<1>5. cut \in BOOLEAN
  OBVIOUS
<1> HIDE DEF cut
<1>6. PICK r : r = [Sent("reorder", Null) EXCEPT !.ids = ids, !.previous = data, !.cut = cut]
  OBVIOUS
<1>7. r \in Calls /\ r.op = "reorder"
  <2>1. PICK s \in Calls : s = Sent("reorder", Null) /\ s.op = "reorder"
    BY CallsIs
  <2> QED
    BY <1>2, <1>4, <1>5, <1>6, <2>1 DEF Calls
<1>8. Happens /\ call' = [Overtaken(call) EXCEPT ![c] = r]
  BY <1>3, <1>6, <1>7 DEF Send
<1>9. Proper(call')
  BY <1>7, <1>8, ProperCalls DEF ListsInv
<1>10. events' \in 0..MaxEvents
  BY <1>8, PageAssumption DEF Happens, ListsInv
<1>11. fetch' \in Fetches
  BY <1>1, FetchesIs
<1> QED
  BY <1>1, <1>4, <1>9, <1>10, <1>11 DEF ListsInv, Proper

(* Nobody has an item that the server does not and that is in no mutation. *)
LEMMA ServerKeepsLists ==
  ASSUME ListsInv, NEW c \in Call, Serve(c) \/ Refuse(c) \/ LoseAnswer(c)
  PROVE  ListsInv'
<1>1. UNCHANGED <<data, stale, view, signedIn, events>>
  BY DEF Serve, Refuse, LoseAnswer
<1>2. /\ call \in [Call -> Calls] /\ Proper(call)
      /\ call[c] \in Calls
      /\ call[c].op \notin {"none", "reorder"} => call[c].item \in Item
  BY DEF ListsInv, Proper
<1>3. CASE Serve(c)
  <2>1. table' \in Lists
    <3>1. CASE call[c].op \in {"create", "pick"} /\ call[c].item \notin Items(table)
               /\ table' = Append(table, New(call[c].item))
      BY <1>2, <3>1, AppendIs DEF ListsInv
    <3>2. CASE table' = Renamed(table, call[c].item)
      BY <3>2, RenamedIs DEF ListsInv
    <3>3. CASE table' = Without(table, call[c].item)
      BY <3>3, WithoutIs DEF ListsInv
    <3>4. CASE table' = Ordered(table, call[c].ids)
      <4>1. call[c].ids \in Orders
        BY <1>2 DEF Calls
      <4> QED
        BY <3>4, <4>1, OrderedIs DEF ListsInv
    <3> QED
      BY <1>3, <3>1, <3>2, <3>3, <3>4 DEF Serve
  <2> DEFINE r == [call[c] EXCEPT !.pc = "done",
                     !.list = IF call[c].op = "reorder" THEN table' ELSE @]
  <2>2. r \in Calls /\ r.op = call[c].op /\ r.item = call[c].item
    BY <1>2, <2>1 DEF Calls
  <2>3. call' = [call EXCEPT ![c] = r]
    BY <1>2, <1>3 DEF Serve
  <2> HIDE DEF r
  <2>4. Proper(call')
    BY <1>2, <2>2, <2>3, ProperCalls
  <2>5. UNCHANGED <<fetch, behind>>
    BY <1>3 DEF Serve
  <2> QED
    BY <1>1, <2>1, <2>4, <2>5 DEF ListsInv, Proper
<1>4. CASE Refuse(c)
  <2> DEFINE r == [call[c] EXCEPT !.pc = "failed"]
  <2>1. r \in Calls /\ r.op = call[c].op /\ r.item = call[c].item
    BY <1>2 DEF Calls
  <2>2. call' = [call EXCEPT ![c] = r]
    BY <1>2, <1>4 DEF Refuse
  <2> HIDE DEF r
  <2>3. Proper(call')
    BY <1>2, <2>1, <2>2, ProperCalls
  <2>4. UNCHANGED <<table, fetch, behind>>
    BY <1>4 DEF Refuse
  <2> QED
    BY <1>1, <2>3, <2>4 DEF ListsInv, Proper
<1>5. CASE LoseAnswer(c)
  <2> DEFINE r == [call[c] EXCEPT !.pc = "failed", !.list = <<>>]
  <2>1. r \in Calls /\ r.op = call[c].op /\ r.item = call[c].item
    BY <1>2, NoItems DEF Calls
  <2>2. call' = [call EXCEPT ![c] = r]
    BY <1>2, <1>5 DEF LoseAnswer
  <2> HIDE DEF r
  <2>3. Proper(call')
    BY <1>2, <2>1, <2>2, ProperCalls
  <2>4. table' = table /\ behind' = TRUE /\ fetch' \in Fetches
    BY <1>5, FetchesIs DEF LoseAnswer, ListsInv
  <2> QED
    BY <1>1, <2>3, <2>4 DEF ListsInv, Proper
<1> QED
  BY <1>3, <1>4, <1>5

LEMMA PageKeepsLists ==
  ASSUME ListsInv, NEW c \in Call, Succeed(c) \/ Reordered(c) \/ Fail(c) \/ Settle(c)
  PROVE  ListsInv'
<1>1. UNCHANGED <<table, view, signedIn, events>>
  BY DEF Succeed, Reordered, Fail, Settle
<1>2. /\ Proper(call) /\ Proper(Overtaken(call)) /\ call[c] \in Calls
      /\ call[c].op \notin {"none", "reorder"} => call[c].item \in Item
      /\ \A d : Refetched(fetch, d) \in Fetches
  BY ProperCalls, RefetchedIsFetch DEF ListsInv, Proper
<1>3. Proper([call EXCEPT ![c] = NoCall]) /\ Proper([Overtaken(call) EXCEPT ![c] = NoCall])
  BY <1>2, CallsIs, ProperCalls
<1>4. CASE Succeed(c)
  <2>1. Proper(call') /\ stale' = TRUE /\ behind' = behind /\ fetch' \in Fetches
    BY <1>2, <1>3, <1>4 DEF Succeed
  <2>2. data' \in Lists \union {Null}
    <3>1. CASE call[c].op = "pick"
      <4>1. PICK l \in Lists : l = IF data = Null THEN <<>> ELSE data
        BY NoItems DEF ListsInv
      <4>2. data' = Appended(l, New(call[c].item)) /\ call[c].item \in Item
        BY <1>2, <1>4, <3>1, <4>1 DEF Succeed
      <4> QED
        BY <4>2, AppendedIs
    <3>2. CASE call[c].op # "pick"
      BY <1>4, <3>2 DEF Succeed, ListsInv
    <3> QED
      BY <3>1, <3>2
  <2> QED
    BY <1>1, <2>1, <2>2 DEF ListsInv, Proper
<1>5. CASE Reordered(c)
  <2>1. /\ data' \in Lists /\ stale' = TRUE /\ behind' = behind /\ fetch' \in Fetches
    BY <1>2, <1>5 DEF Reordered, Refresh, Calls
  <2>2. PICK r : /\ call' = [Overtaken(call) EXCEPT ![c] = r]
                 /\ r = [Sent("reorder", Null) EXCEPT
                           !.pc = "settling", !.here = call[c].here, !.over = TRUE]
    BY <1>5 DEF Reordered
  <2>3. r \in Calls /\ r.op = "reorder"
    <3>1. PICK s \in Calls : s = Sent("reorder", Null) /\ s.op = "reorder"
      BY CallsIs
    <3>2. call[c].here \in BOOLEAN
      BY <1>2 DEF Calls
    <3> QED
      BY <2>2, <3>1, <3>2 DEF Calls
  <2>4. Proper(call')
    BY <1>2, <2>2, <2>3, ProperCalls
  <2> QED
    BY <1>1, <2>1, <2>4 DEF ListsInv, Proper
<1>6. CASE Fail(c)
  <2>1. Proper(call') /\ fetch' = fetch
    BY <1>3, <1>6 DEF Fail
  <2>2. call[c].previous \in Lists /\ call[c].over \in BOOLEAN /\ call[c].cut \in BOOLEAN
    BY <1>2 DEF Calls
  <2>3. data' \in Lists \union {Null} /\ stale' \in BOOLEAN /\ behind' \in BOOLEAN
    BY <1>6, <2>2 DEF Fail, ListsInv
  <2> QED
    BY <1>1, <2>1, <2>3 DEF ListsInv, Proper
<1>7. CASE Settle(c)
  BY <1>1, <1>3, <1>7 DEF Settle, ListsInv, Proper
<1> QED
  BY <1>4, <1>5, <1>6, <1>7

LEMMA FetchKeepsLists ==
  ASSUME ListsInv, Fetched
  PROVE  ListsInv'
<1>1. UNCHANGED <<table, call, view, signedIn, events>>
  BY DEF Fetched, Read, Land, FetchFails
<1>2. fetch.list \in Lists /\ fetch.behind \in BOOLEAN
  BY DEF ListsInv, Fetches
<1>3. [pc |-> "answered", list |-> table, behind |-> FALSE] \in Fetches
  BY DEF ListsInv, Fetches
<1>4. fetch' \in Fetches
  BY <1>3, FetchesIs DEF Fetched, Read, Land, FetchFails
<1>5. data' \in Lists \union {Null} /\ stale' \in BOOLEAN /\ behind' \in BOOLEAN
  BY <1>2 DEF Fetched, Read, Land, FetchFails, ListsInv
<1> QED
  BY <1>1, <1>4, <1>5 DEF ListsInv, Proper

LEMMA WorldKeepsLists ==
  ASSUME ListsInv,
         \/ \E v \in {"taxonomy", "links", "none"} : Visit(v)
         \/ Age \/ Collect \/ Invalidated \/ Elsewhere \/ Logout \/ Login
  PROVE  ListsInv'
<1>1. Proper(call) /\ Proper(Overtaken(call)) /\ Proper(Left) /\ Proper(Overtaken(Left))
  <2>1. Proper(call)
    BY DEF ListsInv
  <2>2. Proper(Left) /\ Proper(Overtaken(call))
    BY <2>1, ProperCalls
  <2> QED
    BY <2>1, <2>2, ProperCalls
<1>2. ASSUME NEW v \in {"taxonomy", "links", "none"}, Visit(v)
      PROVE  ListsInv'
  <2>1. Proper(call') /\ fetch' \in Fetches
    BY <1>1, <1>2, FetchesIs DEF Visit
  <2> QED
    BY <1>2, <2>1 DEF Visit, ListsInv, Proper
<1>3. CASE Age
  BY <1>3 DEF Age, ListsInv, Proper
<1>4. CASE Collect
  <2>1. Proper(call')
    BY <1>1, <1>4 DEF Collect
  <2> QED
    BY <1>4, <2>1 DEF Collect, ListsInv, Proper
<1>5. CASE Invalidated
  <2>1. Proper(call') /\ fetch' \in Fetches
    BY <1>1, <1>5, RefetchedIsFetch DEF Invalidated, ListsInv
  <2>2. events' \in 0..MaxEvents
    BY <1>5, PageAssumption DEF Invalidated, Happens, ListsInv
  <2> QED
    BY <1>5, <2>1, <2>2 DEF Invalidated, ListsInv, Proper
<1>6. CASE Elsewhere
  <2>1. table' \in Lists
    <3>1. ASSUME NEW i \in Item, Unused(i), table' = Append(table, New(i))
          PROVE  table' \in Lists
      BY <3>1, AppendIs DEF Unused, ListsInv
    <3>2. ASSUME NEW i, table' \in {Without(table, i), Renamed(table, i)}
          PROVE  table' \in Lists
      BY <3>2, WithoutIs, RenamedIs DEF ListsInv
    <3>3. ASSUME NEW ids \in Moves([k \in DOMAIN table |-> table[k].item]),
                 table' = Ordered(table, ids)
          PROVE  table' \in Lists
      <4>1. [k \in DOMAIN table |-> table[k].item] \in Orders
        BY ItemsInOrder DEF ListsInv
      <4>2. ids \in Orders
        BY <4>1, MovesAreOrders
      <4> QED
        BY <3>3, <4>2, OrderedIs DEF ListsInv
    <3> DEFINE order == [k \in DOMAIN table |-> table[k].item]
    <3>4. \/ \E i \in Item : Unused(i) /\ table' = Append(table, New(i))
          \/ \E i \in Items(table) : table' \in {Without(table, i), Renamed(table, i)}
          \/ \E ids \in Moves(order) : table' = Ordered(table, ids)
      BY <1>6, Zenon DEF Elsewhere
    <3>5. ASSUME NEW ids \in Moves(order), table' = Ordered(table, ids)
          PROVE  table' \in Lists
      BY <3>3, <3>5
    <3> HIDE DEF order
    <3>6. CASE \E i \in Items(table) : table' \in {Without(table, i), Renamed(table, i)}
      BY <3>2, <3>6
    <3>7. CASE \E i \in Item : Unused(i) /\ table' = Append(table, New(i))
      BY <3>1, <3>7
    <3> QED
      BY <3>4, <3>5, <3>6, <3>7
  <2>2. events' \in 0..MaxEvents
    BY <1>6, PageAssumption DEF Elsewhere, Happens, ListsInv
  <2>3. fetch' \in Fetches
    <3>1. (fetch.pc = "answered") \in BOOLEAN
      OBVIOUS
    <3> QED
      BY <1>6, <3>1, FetchesIs DEF Elsewhere, ListsInv
  <2>4. behind' = TRUE /\ UNCHANGED <<data, stale, call, view, signedIn>>
    BY <1>6 DEF Elsewhere
  <2> QED
    BY <2>1, <2>2, <2>3, <2>4 DEF ListsInv, Proper
<1>7. CASE Logout
  <2>1. /\ Proper(call') /\ fetch' \in Fetches /\ data' = Null /\ stale' = FALSE
        /\ signedIn' = FALSE /\ view' = "none" /\ UNCHANGED <<table, behind, events>>
    BY <1>1, <1>7, FetchesIs DEF Logout, Cleared
  <2> QED
    BY <2>1 DEF ListsInv, Proper
<1>8. CASE Login
  BY <1>8 DEF Login, ListsInv, Proper
<1> QED
  BY <1>2, <1>3, <1>4, <1>5, <1>6, <1>7, <1>8

LEMMA ListsInit ==
  ASSUME Init
  PROVE  ListsInv
<1>1. table \in Lists
  BY PageAssumption DEF Init, IsList, Lists
<1>2. fetch \in Fetches
  BY FetchesIs DEF Init
<1>3. call = [c \in Call |-> NoCall]
  BY DEF Init
<1>4. Proper(call)
  BY <1>3, CallsIs DEF Proper
<1>5. /\ data = Null /\ stale = FALSE /\ view = "none" /\ signedIn = TRUE
      /\ behind = FALSE /\ events = 0
  BY DEF Init
<1>6. 0 \in 0..MaxEvents
  BY PageAssumption
<1> QED
  BY <1>1, <1>2, <1>4, <1>5, <1>6 DEF ListsInv

(* The invariant, for every instance. *)
THEOREM ListsInvariant == Spec => []ListsInv
<1>1. ListsInv /\ [Next]_vars => ListsInv'
  <2> SUFFICES ASSUME ListsInv, [Next]_vars
               PROVE  ListsInv'
    OBVIOUS
  <2>1. CASE UNCHANGED vars
    BY <2>1 DEF vars, ListsInv, Proper
  <2>2. ASSUME NEW c \in Call,
               \/ Create(c) \/ Rename(c) \/ Delete(c) \/ Reorder(c)
               \/ Answered(c) \/ Settle(c)
        PROVE  ListsInv'
    BY <2>2, AskKeepsLists, ReorderKeepsLists, ServerKeepsLists, PageKeepsLists DEF Answered
  <2> QED
    BY <2>1, <2>2, FetchKeepsLists, WorldKeepsLists DEF Next
<1> QED
  BY <1>1, ListsInit, PTL DEF Spec

(* No item is ever in a list twice, whatever the order in which the answer *)
(* to its creation, a fetch and a reorder arrive (lines 229-232 of         *)
(* links-page.tsx drop an entry before they add it).                       *)
THEOREM NoItemTwiceHolds == Spec => []NoItemTwice
<1>1. ListsInv => NoItemTwice
  <2> SUFFICES ASSUME ListsInv
               PROVE  NoItemTwice
    OBVIOUS
  <2>1. \A l \in Lists : IsList(l)
    BY DEF Lists, IsList
  <2>2. fetch.list \in Lists
    BY DEF ListsInv, Fetches
  <2>3. \A c \in Call : call[c].previous \in Lists /\ call[c].list \in Lists
    BY DEF ListsInv, Proper, Calls
  <2> QED
    BY <2>1, <2>2, <2>3 DEF ListsInv, NoItemTwice
<1> QED
  BY <1>1, ListsInvariant, PTL

(* The type invariant. *)
THEOREM PageTypeOK == Spec => []TypeOK
<1>1. ListsInv => TypeOK
  <2> SUFFICES ASSUME ListsInv
               PROVE  TypeOK
    OBVIOUS
  <2>1. Lists \subseteq Seq(Entry) /\ Orders \subseteq Seq(Item)
    BY DEF Lists, Orders
  <2>2. Calls \subseteq CallRecord
    BY <2>1 DEF Calls, CallRecord
  <2>3. call \in [Call -> CallRecord]
    BY <2>2 DEF ListsInv, Proper
  <2>4. fetch \in [pc : {"none", "asked", "answered"}, list : Seq(Entry), behind : BOOLEAN]
    BY <2>1 DEF ListsInv, Fetches
  <2> QED
    BY <2>1, <2>3, <2>4 DEF ListsInv, TypeOK
<1> QED
  BY <1>1, ListsInvariant, PTL
=============================================================================
