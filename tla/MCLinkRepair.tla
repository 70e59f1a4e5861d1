--------------------------- MODULE MCLinkRepair ---------------------------
(***************************************************************************)
(* Instances of LinkRepair for TLC.                                        *)
(***************************************************************************)
EXTENDS LinkRepair, TLC

CONSTANTS
  a, b, x, i,             \* hosts: two proper ones and two that end in Han
  la, lb, lx, li,         \* their links
  a1, a2, b1, x1, x2, x3, i1, \* URLs
  toA, inA, inX, noA, bad, \* dirty raw URLs: to another host, within one, Han in
                          \* the fragment only, which was never stored; invalid
  m1, m2, j1, j2, c, t

MCStoredAs == (toA :> x1) @@ (inA :> a2) @@ (inX :> x2) @@ (noA :> a1) @@ (bad :> i1)
MCCleanOf == (toA :> a1) @@ (inA :> a1) @@ (inX :> x3) @@ (noA :> a1) @@ (bad :> Null)
MCHostOf == (a1 :> a) @@ (a2 :> a) @@ (b1 :> b) @@ (x1 :> x) @@ (x2 :> x) @@ (x3 :> x)
              @@ (i1 :> i)
MCSentAt == (m1 :> 2) @@ (m2 :> 1)
MCLinkOf == (a :> la) @@ (b :> lb) @@ (x :> lx) @@ (i :> li)

Sent(m, raw, j) == [message |-> m, raw |-> raw, job |-> j]

(* Three sources of two messages, in any order, one of a job that is gone. *)
(* The last may be what cleaning makes of the one before, clean already or *)
(* still to be done itself.                                                *)
MCHistories ==
  {<<Sent(m1, r1, j1), Sent(m, r2, j2), Sent(m2, r3, Null)>> :
     m \in {m1, m2}, r1 \in {toA, inX}, r2 \in {toA, inA, bad}, r3 \in {noA, a1}}

State(cat, s, arch, f, tags) ==
  [category |-> cat, status |-> s, archived |-> arch, first |-> f, tags |-> tags]

(* What differs in every respect: a link that is tagged only, and one that *)
(* is organized, older and archived.                                       *)
MCOrganized == {State(Null, "PENDING", FALSE, 2, {t}), State(c, "ORGANIZED", TRUE, 1, {})}
=============================================================================
