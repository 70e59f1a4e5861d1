---------------------------- MODULE TaxonomyPage ----------------------------
(***************************************************************************)
(* The list of categories (or of tags) as one administrator's browser has  *)
(* it: the query cache behind the taxonomy page and the pickers of the     *)
(* links page (apps/admin/src/lib/admin-api.ts, routes/_authenticated/     *)
(* taxonomy.tsx, components/features/links-page.tsx), with reorders that   *)
(* are shown before the server has agreed.                                 *)
(*                                                                         *)
(* The server's table changes in one step per request, as ItemOrder says   *)
(* and Taxonomy implements; requests and answers overtake each other.  The *)
(* query cache is TanStack Query, by what the pages call of it: a fetch    *)
(* is dropped when another is asked for, when it is cancelled and when no  *)
(* page shows the list any more; written data counts as fresh.             *)
(***************************************************************************)
EXTENDS Naturals, SequencesExt, Kept

CONSTANTS
  Item,
  Call,         \* bound: mutations that may be in flight at a time
  MaxEvents,    \* bound: mutations, and events that come from elsewhere
  Initial,      \* the tables to begin with
  Null

(* An item and how often it has been renamed: no two names are the same.   *)
Entry == [item : Item, name : Nat]

(* Lists that have no item twice. *)
IsList(l) ==
  /\ l \in Seq(Entry)
  /\ \A j, k \in DOMAIN l : l[j].item = l[k].item => j = k

ASSUME PageAssumption ==
  /\ MaxEvents \in Nat
  /\ \A l \in Initial : IsList(l)

VARIABLES
  table,     \* the server's items in their order
  data,      \* the list in the query cache, Null without one
  stale,     \* was it invalidated, or is it older than staleTime?
  fetch,     \* the fetch of the list
  call,      \* Call -> a mutation in flight, or none
  view,      \* the page or dialog that shows the list, "none" without one
  signedIn,
  behind,    \* may the list, once at rest, not be the server's?
  events     \* how much of the bound is used

vars == <<table, data, stale, fetch, call, view, signedIn, behind, events>>

Items(l) == {l[k].item : k \in DOMAIN l}

NoFetch == [pc |-> "none", list |-> <<>>, behind |-> FALSE]
Asked == [NoFetch EXCEPT !.pc = "asked"]

-----------------------------------------------------------------------------
(* Mutant of Ordered: the ids themselves instead of their items. *)
OrderedIds(l, ids) == Kept(ids, Items(l))

(* orderTaxonomyItems. *)
Ordered(l, ids) ==
  LET known == Kept(ids, Items(l))
  IN [k \in DOMAIN known |-> CHOOSE e \in ToSet(l) : e.item = known[k]]

Without(l, i) == Kept(l, {e \in ToSet(l) : e.item # i})

(* Mutant of Appended: the item may be there already. *)
AppendedTwice(l, e) == Append(l, e)

(* Lines 229-232 of links-page.tsx. *)
Appended(l, e) == Append(Without(l, e.item), e)

Renamed(l, i) ==
  [k \in DOMAIN l |-> IF l[k].item = i THEN [l[k] EXCEPT !.name = @ + 1] ELSE l[k]]

New(i) == [item |-> i, name |-> 0]

(* arrayMove, by which the taxonomy page makes a new order. *)
Moves(ids) ==
  {InsertAt(RemoveAt(ids, from), to, ids[from]) : from, to \in DOMAIN ids} \ {ids}

(* A mutation that has been sent; `here`: does it disable the page that is *)
(* shown?  `over`: has the cache been written, cleared or invalidated      *)
(* since?  `cut`: was a fetch cancelled for it, or does it go back to an   *)
(* order that the server has not agreed to either?                         *)
Sent(op, i) ==
  [op |-> op, pc |-> "sent", item |-> i, ids |-> <<>>, previous |-> <<>>,
   list |-> <<>>, here |-> TRUE, over |-> FALSE, cut |-> FALSE]

NoCall == [Sent("none", Null) EXCEPT !.pc = "none"]
InFlight(c) == call[c].pc # "none"
Ordering(c) == InFlight(c) /\ call[c].op = "reorder"

(* isPending: one mutation at a time for the page, as long as it is shown. *)
Pending == \E c \in Call : InFlight(c) /\ call[c].here

(* The mutations in flight when the cache is written by something else. *)
Overtaken(cs) ==
  [c \in Call |-> IF cs[c].op = "reorder" THEN [cs[c] EXCEPT !.over = TRUE] ELSE cs[c]]

Happens == events < MaxEvents /\ events' = events + 1

Send(c, r) ==
  /\ ~InFlight(c) /\ ~Pending
  /\ Happens
  /\ call' = [IF r.op = "reorder" THEN Overtaken(call) ELSE call EXCEPT ![c] = r]

Unused(i) ==
  /\ i \notin Items(table)
  /\ \A c \in Call : InFlight(c) => call[c].item # i

(* A call of the page, which waits for its first list, or of a picker on   *)
(* the links page, which does not.                                         *)
Create(c) ==
  /\ \/ view = "links"
     \/ view = "taxonomy" /\ (data # Null \/ fetch.pc = "none")
  /\ \E i \in Item :
       /\ Unused(i)
       /\ Send(c, Sent(IF view = "links" THEN "pick" ELSE "create", i))
  /\ UNCHANGED <<table, data, stale, fetch, behind, view, signedIn>>

Rename(c) ==
  /\ view = "taxonomy" /\ data # Null
  /\ \E i \in Items(data) : Send(c, Sent("rename", i))
  /\ UNCHANGED <<table, data, stale, fetch, behind, view, signedIn>>

Delete(c) ==
  /\ view = "taxonomy" /\ data # Null
  /\ \E i \in Items(data) : Send(c, Sent("remove", i))
  /\ UNCHANGED <<table, data, stale, fetch, behind, view, signedIn>>

(* Mutant of Cancelled: the fetch goes on. *)
CancelledNever(f) == f

Cancelled(f) == NoFetch

(* reorderItems and optimisticallyOrderTaxonomy: the fetch is cancelled,   *)
(* the list kept, the new order shown, and then asked for.                 *)
Reorder(c) ==
  /\ view = "taxonomy" /\ data # Null
  /\ \E ids \in Moves([k \in DOMAIN data |-> data[k].item]) :
       /\ Send(c, [Sent("reorder", Null) EXCEPT
                     !.ids = ids, !.previous = data,
                     !.cut = \/ fetch.pc # "none"
                             \/ \E d \in Call : Ordering(d)])
       /\ data' = Ordered(data, ids)
  /\ stale' = FALSE
  /\ fetch' = Cancelled(fetch)
  /\ UNCHANGED <<table, behind, view, signedIn>>

-----------------------------------------------------------------------------
(* The server does what a request asks for and answers with `list`.        *)
Serve(c) ==
  /\ call[c].pc = "sent"
  /\ LET r == call[c]
         known == r.item \in Items(table)
     IN \/ /\ r.op \in {"create", "pick"} /\ ~known
           /\ table' = Append(table, New(r.item))
        \/ /\ r.op = "rename" /\ known
           /\ table' = Renamed(table, r.item)
        \/ /\ r.op = "remove" /\ known
           /\ table' = Without(table, r.item)
        \/ /\ r.op = "reorder" /\ ToSet(r.ids) = Items(table)
           /\ table' = Ordered(table, r.ids)
  /\ call' = [call EXCEPT ![c].pc = "done",
                          ![c].list = IF call[c].op = "reorder" THEN table' ELSE @]
  /\ UNCHANGED <<data, stale, fetch, behind, view, signedIn, events>>

(* It refuses: an item is gone, a name in use, an order incomplete; or the *)
(* request does not reach it.                                              *)
Refuse(c) ==
  /\ call[c].pc = "sent"
  /\ call' = [call EXCEPT ![c].pc = "failed"]
  /\ UNCHANGED <<table, data, stale, fetch, behind, view, signedIn, events>>

(* The answer is lost: the page takes what was done for a failure. *)
LoseAnswer(c) ==
  /\ call[c].pc = "done"
  /\ call' = [call EXCEPT ![c].pc = "failed", ![c].list = <<>>]
  /\ behind' = TRUE
  /\ fetch' = [fetch EXCEPT !.behind = TRUE]
  /\ UNCHANGED <<table, data, stale, view, signedIn, events>>

(* invalidateQueries: a list that is shown is fetched again.  A first      *)
(* fetch that is under way is not repeated, whatever it has read by now.   *)
Refetched(f, d) ==
  IF view = "none" THEN NoFetch
  ELSE IF d = Null /\ f.pc # "none" THEN [f EXCEPT !.behind = f.pc = "answered"]
  ELSE Asked

(* create(), rename(), remove() and createTaxonomy() go on. *)
Succeed(c) ==
  /\ call[c].pc = "done" /\ call[c].op # "reorder"
  /\ data' = IF call[c].op # "pick" THEN data
             ELSE Appended(IF data = Null THEN <<>> ELSE data, New(call[c].item))
  /\ stale' = TRUE
  /\ fetch' = Refetched(fetch, data')
  /\ call' = [Overtaken(call) EXCEPT ![c] = NoCall]
  /\ UNCHANGED <<table, behind, view, signedIn, events>>

(* Mutant of Refresh: the answer is taken for the last word. *)
RefreshNever == stale' = FALSE /\ fetch' = fetch

Refresh == stale' = TRUE /\ fetch' = Refetched(fetch, data')

(* onSuccess of the reorder: its answer is shown, and fetched again; the   *)
(* page waits for that.                                                    *)
Reordered(c) ==
  /\ call[c].pc = "done" /\ call[c].op = "reorder"
  /\ data' = call[c].list
  /\ Refresh
  /\ call' = [Overtaken(call) EXCEPT ![c] = [Sent("reorder", Null) EXCEPT
       !.pc = "settling", !.here = call[c].here, !.over = TRUE]]
  /\ UNCHANGED <<table, behind, view, signedIn, events>>

Settle(c) ==
  /\ call[c].pc = "settling"
  /\ fetch.pc = "none"
  /\ call' = [call EXCEPT ![c] = NoCall]
  /\ UNCHANGED <<table, data, stale, fetch, behind, view, signedIn, events>>

(* rollbackTaxonomyOrder; other failures are only told. *)
Fail(c) ==
  /\ call[c].pc = "failed"
  /\ IF call[c].op = "reorder"
     THEN /\ data' = call[c].previous /\ stale' = FALSE
          /\ behind' = (behind \/ call[c].over \/ call[c].cut)
          /\ call' = [Overtaken(call) EXCEPT ![c] = NoCall]
     ELSE /\ call' = [call EXCEPT ![c] = NoCall]
          /\ UNCHANGED <<data, stale, behind>>
  /\ UNCHANGED <<table, fetch, view, signedIn, events>>

-----------------------------------------------------------------------------
(* The fetch: the server reads, the answer comes, or an error.             *)
Read ==
  /\ fetch.pc = "asked"
  /\ fetch' = [pc |-> "answered", list |-> table, behind |-> FALSE]
  /\ UNCHANGED <<table, data, stale, call, behind, view, signedIn, events>>

Land ==
  /\ fetch.pc = "answered"
  /\ data' = fetch.list /\ stale' = FALSE
  /\ behind' = fetch.behind
  /\ fetch' = NoFetch
  /\ UNCHANGED <<table, call, view, signedIn, events>>

(* Mutant of FetchFails: an error is always retried. *)
FetchRetries ==
  /\ fetch.pc # "none"
  /\ fetch' = Asked
  /\ behind' = TRUE
  /\ UNCHANGED <<table, data, stale, call, view, signedIn, events>>

(* shouldRetry has given up. *)
FetchFails ==
  /\ fetch.pc # "none"
  /\ fetch' = NoFetch
  /\ behind' = TRUE
  /\ UNCHANGED <<table, data, stale, call, view, signedIn, events>>

(* What is pending when a page is left: it disables nothing any more, and  *)
(* does not wait for the fetch, which is cancelled.                        *)
Left ==
  [c \in Call |-> IF call[c].pc \in {"none", "settling"} THEN NoCall
                  ELSE [call[c] EXCEPT !.here = FALSE]]

(* Another page, with or without the list, which is fetched if it is       *)
(* missing or stale.                                                       *)
Visit(v) ==
  /\ signedIn /\ view # v
  /\ view' = v
  /\ IF v # "none" /\ (stale \/ data = Null)
     THEN fetch' = Asked /\ call' = Overtaken(Left)
     ELSE fetch' = NoFetch /\ call' = Left
  /\ UNCHANGED <<table, data, stale, signedIn, behind, events>>

(* A minute passes; five without a page that shows the list. *)
Age ==
  /\ ~stale
  /\ stale' = TRUE
  /\ UNCHANGED <<table, data, fetch, call, behind, view, signedIn, events>>

Collect ==
  /\ view = "none" /\ data # Null
  /\ data' = Null /\ stale' = FALSE
  /\ call' = Overtaken(call)
  /\ UNCHANGED <<table, fetch, behind, view, signedIn, events>>

(* invalidateLinks after the end of a job or an edit of a link. *)
Invalidated ==
  /\ signedIn /\ Happens
  /\ stale' = TRUE
  /\ fetch' = Refetched(fetch, data)
  /\ call' = Overtaken(call)
  /\ UNCHANGED <<table, data, view, signedIn, behind>>

(* Another administrator, or a request that this browser has given up.     *)
Elsewhere ==
  /\ Happens
  /\ \/ \E i \in Item : Unused(i) /\ table' = Append(table, New(i))
     \/ \E i \in Items(table) : table' \in {Without(table, i), Renamed(table, i)}
     \/ \E ids \in Moves([k \in DOMAIN table |-> table[k].item]) :
          table' = Ordered(table, ids)
  /\ behind' = TRUE
  /\ fetch' = [fetch EXCEPT !.behind = fetch.pc = "answered"]
  /\ UNCHANGED <<data, stale, call, view, signedIn>>

(* Mutant of Cleared: what has been asked for is waited for. *)
ClearedData == data' = Null /\ fetch' = fetch

Cleared == data' = Null /\ fetch' = NoFetch

(* logoutAdmin, once the server has answered. *)
Logout ==
  /\ signedIn
  /\ signedIn' = FALSE /\ view' = "none"
  /\ Cleared
  /\ stale' = FALSE
  /\ call' = Overtaken(Left)
  /\ UNCHANGED <<table, behind, events>>

Login ==
  /\ ~signedIn
  /\ signedIn' = TRUE
  /\ UNCHANGED <<table, data, stale, fetch, call, view, behind, events>>

-----------------------------------------------------------------------------
Init ==
  /\ table \in Initial
  /\ data = Null /\ stale = FALSE /\ fetch = NoFetch
  /\ call = [c \in Call |-> NoCall]
  /\ view = "none" /\ signedIn = TRUE
  /\ behind = FALSE
  /\ events = 0

Answered(c) == Serve(c) \/ Refuse(c) \/ LoseAnswer(c) \/ Succeed(c) \/ Reordered(c) \/ Fail(c)

Fetched == Read \/ Land \/ FetchFails

Next ==
  \/ \E c \in Call : Create(c) \/ Rename(c) \/ Delete(c) \/ Reorder(c)
                       \/ Answered(c) \/ Settle(c)
  \/ Fetched
  \/ \E v \in {"taxonomy", "links", "none"} : Visit(v)
  \/ Age \/ Collect \/ Invalidated \/ Elsewhere \/ Logout \/ Login

Spec == Init /\ [][Next]_vars

(* Requests are answered, or time out after ten seconds; the waiting code  *)
(* goes on.  Nothing is assumed of administrators, nor of time.  The       *)
(* browser is online: TanStack Query pauses what it has to send while it   *)
(* is not.                                                                 *)
FairSpec ==
  /\ Spec
  /\ WF_vars(Fetched)
  /\ \A c \in Call : WF_vars(Answered(c)) /\ WF_vars(Settle(c))

-----------------------------------------------------------------------------
CallRecord ==
  [op : {"none", "create", "pick", "rename", "remove", "reorder"},
   pc : {"none", "sent", "done", "failed", "settling"}, item : Item \union {Null},
   ids : Seq(Item), previous : Seq(Entry), list : Seq(Entry),
   here : BOOLEAN, over : BOOLEAN, cut : BOOLEAN]

TypeOK ==
  /\ table \in Seq(Entry)
  /\ data # Null => data \in Seq(Entry)
  /\ stale \in BOOLEAN /\ signedIn \in BOOLEAN /\ behind \in BOOLEAN
  /\ fetch \in [pc : {"none", "asked", "answered"}, list : Seq(Entry), behind : BOOLEAN]
  /\ call \in [Call -> CallRecord]
  /\ view \in {"taxonomy", "links", "none"}
  /\ events \in 0..MaxEvents

(* No list has an item twice, in whatever order an item arrives by the     *)
(* answer to its creation in a picker and by the fetches that other        *)
(* mutations start, nor the one that a reorder goes back to: an item shown *)
(* twice makes every later order one that the server refuses.              *)
NoItemTwice ==
  /\ IsList(table) /\ IsList(fetch.list)
  /\ data # Null => IsList(data)
  /\ \A c \in Call : IsList(call[c].previous) /\ IsList(call[c].list)

(* A list at rest, on a page or still fresh for the next one, is the       *)
(* server's, whatever the order in which reorders, creations, their        *)
(* answers and refetches came; except after a change elsewhere, an answer  *)
(* or a refetch lost, or the rollback of a reorder for which a refetch was *)
(* cancelled or which another answer overtook, until the next refetch; and *)
(* except for a first fetch that the server had answered when a mutation   *)
(* asked for another, since the query cache does not repeat a first fetch  *)
(* (Refetched marks what it brings).                                       *)
PageIsCurrent ==
  /\ \A c \in Call : ~InFlight(c)
  /\ fetch.pc = "none"
  /\ ~behind
  /\ view # "none" \/ (data # Null /\ ~stale)
  => data = table

(* While a reorder is under way the page shows the order that was asked    *)
(* for, whatever was being fetched before, until something else is done.   *)
OrderIsHeld ==
  \A c \in Call :
    Ordering(c) /\ call[c].pc # "settling" /\ ~call[c].over =>
      data = Ordered(call[c].previous, call[c].ids)

(* "Logging out clears the data of the administration in the QueryClient"  *)
(* (apps/admin/README.md): it comes back only with the answer to a         *)
(* mutation that was under way, never with that to a fetch.                *)
StaysCleared ==
  [][~signedIn /\ data = Null /\ data' # Null =>
       \E c \in Call : InFlight(c) /\ call'[c] # call[c]]_vars

(* No page stays disabled: every mutation ends, also a reorder that waits  *)
(* for a refetch which others cancel and restart.                          *)
CallsEnd == \A c \in Call : InFlight(c) ~> ~InFlight(c)
=============================================================================
