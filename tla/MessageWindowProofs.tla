------------------------- MODULE MessageWindowProofs -------------------------
(***************************************************************************)
(* The window of MessageWindow: it never costs a message its place or its  *)
(* context, for every history, every range and any distance.  What is      *)
(* said of the window names p, the number of messages of the range read so *)
(* far: all that it holds, and all that has been yielded, follows from p.  *)
(***************************************************************************)
EXTENDS MessageWindow, Inductions, SequenceTheorems

(* The message of position n of the range, with its context in the range. *)
InRange(n) == n \in 1..Len(Wanted)

Neighbour(n, k) == InRange(k) /\ Near(Wanted[n], Wanted[k])

Beside(n, k) == IF Neighbour(n, k) THEN <<Wanted[k]>> ELSE <<>>

InContext(n) == [message  |-> Wanted[n],
                 next     |-> IF Neighbour(n, n - 1) THEN Wanted[n - 1] ELSE None,
                 previous |-> Beside(n, n + 2) \o Beside(n, n + 1)]

Contexts == [message : Nat, next : Nat \union {None}, previous : Seq(Nat)]

AtMost(m, n) == IF n < m THEN n ELSE m
Less(n, m) == IF m < n THEN n - m ELSE 0

(* The window holds the last messages of the p that were read, the first e *)
(* have been emitted.                                                      *)
WindowIs(p, q) ==
  /\ window \in Seq(Nat)
  /\ Len(window) = q
  /\ \A n \in 1..q : window[n] = Wanted[p - q + n]

EmittedAre(e) == emitted = {Wanted[n] : n \in 1..e}

YieldedAre(y) ==
  /\ yielded \in Seq(Contexts)
  /\ Len(yielded) = y
  /\ \A n \in 1..y : yielded[n] = InContext(n)

ReadAre(p) == \A n \in 1..Len(Wanted) : Wanted[n] < next <=> n <= p

Holds(p, q, e, y) ==
  /\ WindowIs(p, q) /\ EmittedAre(e) /\ YieldedAre(y)
  /\ flushed \in 0..q

Reading(p) ==
  /\ Holds(p, AtMost(3, p), Less(p, 2), Less(p, 2))
  /\ flushed = 0 /\ ReadAre(p)

Offering(p) ==
  /\ Holds(p, AtMost(4, p), Less(p, 3), Less(p, 3))
  /\ flushed = 0 /\ ReadAre(p) /\ p # 0

Flushing(f) ==
  LET p == Len(Wanted)
      q == AtMost(3, p)
      e == Less(p, 2)
  IN /\ Holds(p, q, e, IF p - q + f < e THEN e ELSE p - q + f)
     /\ flushed = f

Failed == \E p \in 0..Len(Wanted) : \E q \in 0..AtMost(4, p) : \E e, y \in 0..p : Holds(p, q, e, y)

WindowParts ==
  /\ pc \in {"reading", "offering", "flushing", "done", "failed"}
  /\ next \in 1..Len(history) + 1
  /\ pc = "reading" => \E p \in 0..Len(Wanted) : Reading(p)
  /\ pc = "offering" => \E p \in 0..Len(Wanted) : Offering(p)
  /\ pc = "flushing" => Flushing(flushed)
  /\ pc = "done" => Flushing(Len(window))
  /\ pc = "failed" => Failed

InputsOK ==
  /\ history \in Histories
  /\ from \in Bounds \union {None}
  /\ to \in Bounds \union {None}

(* The inductive invariant. *)
WindowInv == InputsOK /\ WindowParts

-----------------------------------------------------------------------------
LEMMA HistoryTyped ==
  ASSUME InputsOK
  PROVE  /\ Len(history) \in Nat /\ Position = 1..Len(history)
         /\ \A i \in Position : At(i) \in Int /\ history[i].service \in BOOLEAN
         /\ \A i, j \in Position : i < j => At(i) >= At(j)
         /\ from # None => from \in Int
         /\ to # None => to \in Int
<1>1. /\ history \in Seq([sentAt : Int, service : BOOLEAN])
      /\ \A i, j \in 1..Len(history) : i < j => history[i].sentAt >= history[j].sentAt
      /\ Bounds \subseteq Int
  BY HistoriesAssumption DEF InputsOK
<1> DEFINE Record == [sentAt : Int, service : BOOLEAN]
<1>2. Len(history) \in Nat /\ \A i \in 1..Len(history) : history[i] \in Record
  <2>1. history \in Seq(Record)
    BY <1>1
  <2> HIDE DEF Record
  <2>2. QED
    BY <2>1
<1>3. \A i \in 1..Len(history) : history[i].sentAt \in Int /\ history[i].service \in BOOLEAN
  BY <1>2
<1>4. QED
  BY <1>1, <1>2, <1>3 DEF InputsOK, Position, At

(* The messages of the range, newest first, each once: those that the loop *)
(* neither skips nor finds too old.                                        *)
LEMMA WantedIs ==
  ASSUME InputsOK
  PROVE  /\ Wanted \in Seq(Position) /\ Len(Wanted) \in Nat
         /\ \A n \in 1..Len(Wanted) :
              Wanted[n] \in Position /\ ~Skipped(Wanted[n]) /\ ~TooOld(Wanted[n])
         /\ \A n, k \in 1..Len(Wanted) : n < k => Wanted[n] < Wanted[k]
         /\ \A i \in Position : ~Skipped(i) /\ ~TooOld(i) => \E n \in 1..Len(Wanted) : Wanted[n] = i
<1> DEFINE s == [i \in Position |-> i]
           S == {i \in Position : /\ ~history[i].service
                                  /\ from # None => At(i) >= from
                                  /\ to # None => At(i) <= to}
<1>1. s \in Seq(Position) /\ Len(s) = Len(history) /\ \A i \in Position : s[i] = i
  BY HistoryTyped
<1>2. Wanted = Kept(s, S)
  BY DEF Wanted
<1>3. \A i \in Position : i \in S <=> ~Skipped(i) /\ ~TooOld(i)
  BY HistoryTyped DEF Skipped, TooOld
<1> HIDE DEF s, S
<1>4. PICK e : Picks(e, Wanted, s, S, Len(history))
  BY <1>1, <1>2, KeptIs
<1>5. Wanted \in Seq(Position)
  BY <1>1, <1>2, KeptIs
<1>6. Len(Wanted) \in Nat /\ \A n \in 1..Len(Wanted) : Wanted[n] \in Position
  BY <1>5
<1>7. \A n \in 1..Len(Wanted) : e[n] \in Position /\ Wanted[n] = e[n] /\ e[n] \in S
  BY <1>1, <1>4, HistoryTyped DEF Picks
<1>8. \A n, k \in 1..Len(Wanted) : n < k => Wanted[n] < Wanted[k]
  BY <1>4, <1>7 DEF Picks
<1>9. \A i \in Position : i \in S => \E n \in 1..Len(Wanted) : Wanted[n] = i
  BY <1>1, <1>4, <1>7, HistoryTyped DEF Picks
<1>10. QED
  BY <1>3, <1>5, <1>6, <1>7, <1>8, <1>9

LEMMA WantedOnce ==
  ASSUME InputsOK, NEW n \in 1..Len(Wanted), NEW k \in 1..Len(Wanted), Wanted[n] = Wanted[k]
  PROVE  n = k
<1>1. Len(Wanted) \in Nat /\ Wanted[n] \in Nat /\ Wanted[k] \in Nat
  BY WantedIs, HistoryTyped
<1>2. ~(n < k) /\ ~(k < n)
  BY <1>1, WantedIs
<1>3. QED
  BY <1>1, <1>2

LEMMA InputsKept ==
  ASSUME UNCHANGED inputs
  PROVE  /\ Wanted' = Wanted
         /\ \A n : InContext(n)' = InContext(n)
         /\ InputsOK' <=> InputsOK
         /\ Position' = Position
<1>1. Wanted' = Wanted
  BY DEF inputs, Wanted, Position, At
<1>2. \A n : InContext(n)' = InContext(n)
  BY <1>1 DEF inputs, InContext, Beside, Neighbour, InRange, Near, At
<1>3. QED
  BY <1>1, <1>2 DEF inputs, InputsOK, Position

-----------------------------------------------------------------------------
(* Sequences of one and of two elements. *)
LEMMA OneElement ==
  ASSUME NEW T, NEW s \in Seq(T), Len(s) = 1
  PROVE  s = <<s[1]>>
OBVIOUS

LEMMA TwoElements ==
  ASSUME NEW T, NEW s \in Seq(T), Len(s) = 2
  PROVE  s = <<s[1], s[2]>>
OBVIOUS

LEMMA Pair ==
  ASSUME NEW T, NEW a \in T, NEW b \in T
  PROVE  Append(<<a>>, b) = <<a, b>> /\ <<a>> \o <<b>> = <<a, b>>
<1> DEFINE s == Append(<<a>>, b)
           r == <<a>> \o <<b>>
<1>1. <<a>> \in Seq(T) /\ <<b>> \in Seq(T) /\ Len(<<a>>) = 1 /\ Len(<<b>>) = 1
  OBVIOUS
<1>2. s \in Seq(T) /\ Len(s) = 2 /\ s[1] = a /\ s[2] = b
  BY <1>1, AppendProperties
<1>3. r \in Seq(T) /\ Len(r) = 2 /\ r[1] = a /\ r[2] = b
  BY <1>1, ConcatProperties
<1> HIDE DEF s, r
<1>4. s = <<s[1], s[2]>> /\ r = <<r[1], r[2]>>
  BY <1>2, <1>3, TwoElements
<1>5. QED
  BY <1>2, <1>3, <1>4 DEF s, r

LEMMA OneOfSequence ==
  ASSUME NEW T, NEW s \in Seq(T), NEW k \in 1..Len(s)
  PROVE  SubSeq(s, k, k) = <<s[k]>>
<1> DEFINE r == SubSeq(s, k, k)
<1>1. r \in Seq(T) /\ Len(r) = 1 /\ r[1] = s[k]
  BY SubSeqProperties
<1> HIDE DEF r
<1>2. r = <<r[1]>>
  BY <1>1, OneElement
<1>3. QED
  BY <1>1, <1>2 DEF r

LEMMA TwoOfSequence ==
  ASSUME NEW T, NEW s \in Seq(T), NEW k \in Nat, 1 <= k, k + 1 <= Len(s)
  PROVE  SubSeq(s, k, k + 1) = <<s[k], s[k + 1]>>
<1> DEFINE r == SubSeq(s, k, k + 1)
<1>1. r \in Seq(T) /\ Len(r) = 2 /\ r[1] = s[k] /\ r[2] = s[k + 1]
  BY SubSeqProperties
<1> HIDE DEF r
<1>2. r = <<r[1], r[2]>>
  BY <1>1, TwoElements
<1>3. QED
  BY <1>1, <1>2 DEF r

(* What is kept of none, one and two elements. *)
KeptOne(a, S) == IF a \in S THEN <<a>> ELSE <<>>
KeptTwo(a, b, S) == KeptOne(a, S) \o KeptOne(b, S)

LEMMA KeptOfFew ==
  ASSUME NEW T, NEW a \in T, NEW b \in T, NEW S
  PROVE  /\ Kept(<<>>, S) = <<>>
         /\ Kept(<<a>>, S) = KeptOne(a, S)
         /\ Kept(<<a, b>>, S) = KeptTwo(a, b, S)
<1>1. Kept(<<>>, S) = <<>>
  <2> DEFINE s == <<>>
  <2>1. s \in Seq(T) /\ Len(s) = 0
    OBVIOUS
  <2> HIDE DEF s
  <2>2. PICK k \in [0..Len(s) -> Seq(T)] : IsKept(k, s, S) /\ Kept(s, S) = k[Len(s)]
    BY <2>1, KeptUnfolds
  <2>3. k[0] = <<>>
    BY <2>2 DEF IsKept
  <2>4. QED
    BY <2>1, <2>2, <2>3 DEF s
<1>2. Kept(<<a>>, S) = KeptOne(a, S)
  <2> DEFINE s == <<a>>
  <2>1. s \in Seq(T) /\ Len(s) = 1 /\ s[1] = a
    OBVIOUS
  <2> HIDE DEF s
  <2>2. PICK k \in [0..Len(s) -> Seq(T)] : IsKept(k, s, S) /\ Kept(s, S) = k[Len(s)]
    BY <2>1, KeptUnfolds
  <2>3. k[0] = <<>> /\ k[1] = IF a \in S THEN Append(k[0], a) ELSE k[0]
    BY <2>1, <2>2 DEF IsKept
  <2>4. Append(<<>>, a) = <<a>>
    OBVIOUS
  <2>5. QED
    BY <2>1, <2>2, <2>3, <2>4 DEF s, KeptOne
<1>3. Kept(<<a, b>>, S) = KeptOne(a, S) \o KeptOne(b, S)
  <2> DEFINE s == <<a, b>>
  <2>1. s \in Seq(T) /\ Len(s) = 2 /\ s[1] = a /\ s[2] = b
    OBVIOUS
  <2> HIDE DEF s
  <2>2. PICK k \in [0..Len(s) -> Seq(T)] : IsKept(k, s, S) /\ Kept(s, S) = k[Len(s)]
    BY <2>1, KeptUnfolds
  <2>3. /\ k[0] = <<>>
        /\ k[1] = IF a \in S THEN Append(k[0], a) ELSE k[0]
        /\ k[2] = IF b \in S THEN Append(k[1], b) ELSE k[1]
    <3>1. 1 \in 1..2 /\ 2 \in 1..2 /\ 1 - 1 = 0 /\ 2 - 1 = 1
      OBVIOUS
    <3>2. QED
      BY <2>1, <2>2, <3>1 DEF IsKept
  <2>4. /\ Append(<<>>, a) = <<a>> /\ Append(<<>>, b) = <<b>>
        /\ Append(<<a>>, b) = <<a>> \o <<b>>
        /\ <<a>> \o <<>> = <<a>> /\ <<>> \o <<b>> = <<b>> /\ <<>> \o <<>> = <<>>
    BY Pair
  <2>5. k[2] = KeptOne(a, S) \o KeptOne(b, S)
    BY <2>3, <2>4 DEF KeptOne
  <2>6. QED
    BY <2>1, <2>2, <2>5 DEF s
<1>4. QED
  BY <1>1, <1>2, <1>3 DEF KeptTwo

Reversed(s) == [n \in 1..Len(s) |-> s[Len(s) + 1 - n]]

LEMMA ReversedOfFew ==
  ASSUME NEW T, NEW a \in T, NEW b \in T, NEW S
  PROVE  /\ Reversed(<<>>) = <<>>
         /\ Reversed(KeptOne(a, S)) = KeptOne(a, S)
         /\ Reversed(KeptTwo(a, b, S)) = KeptTwo(b, a, S)
<1>1. /\ Reversed(<<>>) = <<>> /\ Reversed(<<a>>) = <<a>> /\ Reversed(<<b>>) = <<b>>
      /\ Reversed(<<a, b>>) = <<b, a>>
  BY DEF Reversed
<1>2. /\ <<a>> \o <<b>> = <<a, b>> /\ <<b>> \o <<a>> = <<b, a>>
      /\ <<a>> \o <<>> = <<a>> /\ <<>> \o <<a>> = <<a>>
      /\ <<b>> \o <<>> = <<b>> /\ <<>> \o <<b>> = <<b>> /\ <<>> \o <<>> = <<>>
  BY Pair
<1>3. QED
  BY <1>1, <1>2 DEF KeptOne, KeptTwo

(* Two messages are near each other or not. *)
LEMMA NearIsMutual ==
  ASSUME InputsOK, NEW i \in Position, NEW j \in Position
  PROVE  Near(i, j) <=> Near(j, i)
<1>1. At(i) \in Int /\ At(j) \in Int /\ TenMinutes \in Nat
  BY HistoryTyped, HistoriesAssumption
<1>2. QED
  BY <1>1 DEF Near

-----------------------------------------------------------------------------
NearOnes(i) == {j \in Position : Near(i, j)}

(* The context that a window gives a message, by its place in it. *)
LEMMA OlderIs ==
  ASSUME InputsOK, NEW w \in Seq(Position), NEW i, NEW k \in 1..Len(w), IndexIn(w, i) = k
  PROVE  /\ k = Len(w) => Older(w, i) = <<>>
         /\ k + 1 = Len(w) => Older(w, i) = KeptOne(w[k + 1], NearOnes(i))
         /\ k + 2 <= Len(w) => Older(w, i) = KeptTwo(w[k + 2], w[k + 1], NearOnes(i))
<1> DEFINE after == SubSeq(w, k + 1, IF k + 2 < Len(w) THEN k + 2 ELSE Len(w))
<1>1. Older(w, i) = Reversed(Kept(after, NearOnes(i)))
  BY DEF Older, Reversed, NearOnes
<1>2. Len(w) \in Nat /\ k \in Nat /\ \A n \in 1..Len(w) : w[n] \in Position
  OBVIOUS
<1>3. ASSUME k = Len(w)
      PROVE  Older(w, i) = <<>>
  <2>1. after = <<>>
    BY <1>2, <1>3, SubSeqEmpty
  <2>2. w[k] \in Position
    BY <1>2
  <2>3. QED
    BY <1>1, <2>1, <2>2, KeptOfFew, ReversedOfFew
<1>4. ASSUME k + 1 = Len(w)
      PROVE  Older(w, i) = KeptOne(w[k + 1], NearOnes(i))
  <2>1. after = SubSeq(w, k + 1, k + 1) /\ k + 1 \in 1..Len(w)
    BY <1>2, <1>4
  <2>2. after = <<w[k + 1]>> /\ w[k + 1] \in Position
    BY <1>2, <2>1, OneOfSequence
  <2>3. Kept(<<w[k + 1]>>, NearOnes(i)) = KeptOne(w[k + 1], NearOnes(i))
    BY <2>2, KeptOfFew
  <2>4. Reversed(KeptOne(w[k + 1], NearOnes(i))) = KeptOne(w[k + 1], NearOnes(i))
    BY <2>2, ReversedOfFew
  <2> HIDE DEF after
  <2>5. QED
    BY <1>1, <2>2, <2>3, <2>4
<1>5. ASSUME k + 2 <= Len(w)
      PROVE  Older(w, i) = KeptTwo(w[k + 2], w[k + 1], NearOnes(i))
  <2>1. after = SubSeq(w, k + 1, (k + 1) + 1) /\ (k + 1) + 1 <= Len(w) /\ 1 <= k + 1
    BY <1>2, <1>5
  <2>2. after = <<w[k + 1], w[k + 2]>>
    <3>1. k + 1 \in Nat /\ (k + 1) + 1 = k + 2
      BY <1>2
    <3>2. QED
      BY <2>1, <3>1, TwoOfSequence
  <2>3. w[k + 1] \in Position /\ w[k + 2] \in Position
    BY <1>2, <1>5
  <2>4. Kept(<<w[k + 1], w[k + 2]>>, NearOnes(i)) =
          KeptTwo(w[k + 1], w[k + 2], NearOnes(i))
    BY <2>3, KeptOfFew
  <2>5. Reversed(KeptTwo(w[k + 1], w[k + 2], NearOnes(i))) =
          KeptTwo(w[k + 2], w[k + 1], NearOnes(i))
    BY <2>3, ReversedOfFew
  <2> HIDE DEF after
  <2>6. QED
    BY <1>1, <2>2, <2>4, <2>5
<1>6. QED
  BY <1>3, <1>4, <1>5

(* Whether the l-th message of the range belongs to the context of the     *)
(* n-th, and what it adds to it.                                           *)
LEMMA BesideInRange ==
  ASSUME InputsOK, NEW n \in 1..Len(Wanted), NEW l \in 1..Len(Wanted)
  PROVE  /\ Near(Wanted[l], Wanted[n]) <=> Neighbour(n, l)
         /\ KeptOne(Wanted[l], NearOnes(Wanted[n])) = Beside(n, l)
<1>1. Wanted[l] \in Position /\ Wanted[n] \in Position
  BY WantedIs
<1>2. Near(Wanted[l], Wanted[n]) <=> Near(Wanted[n], Wanted[l])
  BY <1>1, NearIsMutual
<1>3. Neighbour(n, l) <=> Near(Wanted[n], Wanted[l])
  BY DEF Neighbour, InRange
<1>4. Wanted[l] \in NearOnes(Wanted[n]) <=> Near(Wanted[n], Wanted[l])
  BY <1>1 DEF NearOnes
<1>5. QED
  BY <1>2, <1>3, <1>4 DEF KeptOne, Beside

LEMMA BesideOutOfRange ==
  ASSUME NEW n, NEW l, l \notin 1..Len(Wanted)
  PROVE  ~Neighbour(n, l) /\ Beside(n, l) = <<>>
BY DEF Neighbour, InRange, Beside

(* The window is enough: a message that has its newer neighbour in the     *)
(* window, unless it is the first of the range, and its two older ones,    *)
(* unless the window ends with the range, is given its context.            *)
LEMMA ContextInWindow ==
  ASSUME InputsOK, NEW p \in Nat, p <= Len(Wanted), NEW q \in Nat, q <= p,
         WindowIs(p, q), NEW k \in 1..q, NEW n \in Nat, n = p - q + k,
         k = 1 => n = 1,
         k + 2 <= q \/ p = Len(Wanted)
  PROVE  /\ n \in 1..Len(Wanted)
         /\ window[k] = Wanted[n]
         /\ GatewayMessage(window, window[k]) = InContext(n)
<1> DEFINE m == Wanted[n]
<1>1. /\ Len(Wanted) \in Nat /\ n \in 1..Len(Wanted) /\ window[k] = m /\ m \in Position
      /\ k \in 1..Len(window) /\ Len(window) = q
  BY WantedIs DEF WindowIs
<1>12. \A l \in 1..q : p - q + l \in 1..Len(Wanted) /\ window[l] = Wanted[p - q + l]
  BY <1>1 DEF WindowIs
<1>2. window \in Seq(Position)
  <2>1. \A l \in 1..Len(window) : window[l] \in Position
    BY <1>1, <1>12, WantedIs
  <2>2. QED
    BY <2>1 DEF WindowIs
<1>3. IndexIn(window, m) = k
  <2>1. \A l \in 1..Len(window) : window[l] = m => l = k
    <3>1. ASSUME NEW l \in 1..Len(window), window[l] = m
          PROVE  l = k
      <4>1. p - q + l \in 1..Len(Wanted) /\ Wanted[p - q + l] = Wanted[n]
        BY <1>1, <1>12, <3>1
      <4>2. p - q + l = n
        BY <1>1, <4>1, WantedOnce
      <4>3. QED
        BY <1>1, <4>2
    <3>2. QED
      BY <3>1
  <2>2. QED
    BY <1>1, <2>1 DEF IndexIn
<1>6. Newer(window, m) = IF Neighbour(n, n - 1) THEN Wanted[n - 1] ELSE None
  <2>1. CASE k = 1
    <3>1. n - 1 \notin 1..Len(Wanted)
      BY <1>1, <2>1
    <3>2. ~Neighbour(n, n - 1)
      BY <3>1, BesideOutOfRange
    <3>3. Newer(window, m) = None
      BY <1>3, <2>1 DEF Newer
    <3>4. QED
      BY <3>2, <3>3
  <2>2. CASE k > 1
    <3>1. k - 1 \in 1..q /\ p - q + (k - 1) = n - 1
      BY <2>2
    <3>2. n - 1 \in 1..Len(Wanted) /\ window[k - 1] = Wanted[n - 1]
      BY <1>12, <3>1
    <3>3. Near(Wanted[n - 1], m) <=> Neighbour(n, n - 1)
      BY <1>1, <3>2, BesideInRange
    <3>4. Newer(window, m) = IF Near(window[k - 1], m) THEN window[k - 1] ELSE None
      BY <1>3, <2>2 DEF Newer
    <3> HIDE DEF m
    <3>5. QED
      BY <3>2, <3>3, <3>4
  <2>3. QED
    BY <2>1, <2>2
<1>7. Older(window, m) = Beside(n, n + 2) \o Beside(n, n + 1)
  <2>1. CASE k + 2 <= q
    <3>1. /\ n + 1 \in 1..Len(Wanted) /\ n + 2 \in 1..Len(Wanted)
          /\ window[k + 1] = Wanted[n + 1] /\ window[k + 2] = Wanted[n + 2]
      <4>1. /\ k + 1 \in 1..q /\ p - q + (k + 1) = n + 1
            /\ k + 2 \in 1..q /\ p - q + (k + 2) = n + 2
        BY <2>1
      <4>2. QED
        BY <1>12, <4>1
    <3>2. Older(window, m) = KeptTwo(Wanted[n + 2], Wanted[n + 1], NearOnes(m))
      <4>1. Older(window, m) = KeptTwo(window[k + 2], window[k + 1], NearOnes(m))
        BY <1>1, <1>2, <1>3, <2>1, OlderIs
      <4> HIDE DEF m
      <4>2. QED
        BY <3>1, <4>1
    <3>3. /\ KeptOne(Wanted[n + 1], NearOnes(m)) = Beside(n, n + 1)
          /\ KeptOne(Wanted[n + 2], NearOnes(m)) = Beside(n, n + 2)
      BY <1>1, <3>1, BesideInRange
    <3> HIDE DEF m
    <3>4. QED
      BY <3>2, <3>3 DEF KeptTwo
  <2>2. CASE k + 1 = q /\ p = Len(Wanted)
    <3>1. /\ n + 1 \in 1..Len(Wanted) /\ n + 2 \notin 1..Len(Wanted)
          /\ window[k + 1] = Wanted[n + 1]
      <4>1. k + 1 \in 1..q /\ p - q + (k + 1) = n + 1 /\ n + 1 = Len(Wanted)
        BY <2>2
      <4>2. n + 2 \notin 1..Len(Wanted)
        BY <1>1, <4>1
      <4>3. QED
        BY <1>12, <4>1, <4>2
    <3>2. Older(window, m) = KeptOne(Wanted[n + 1], NearOnes(m))
      <4>1. Older(window, m) = KeptOne(window[k + 1], NearOnes(m))
        BY <1>1, <1>2, <1>3, <2>2, OlderIs
      <4> HIDE DEF m
      <4>2. QED
        BY <3>1, <4>1
    <3>3. Beside(n, n + 2) = <<>> /\ KeptOne(Wanted[n + 1], NearOnes(m)) = Beside(n, n + 1)
      BY <1>1, <3>1, BesideInRange, BesideOutOfRange
    <3>4. <<>> \o Beside(n, n + 1) = Beside(n, n + 1)
      BY DEF Beside
    <3> HIDE DEF m
    <3>5. QED
      BY <3>2, <3>3, <3>4
  <2>3. CASE k = q /\ p = Len(Wanted)
    <3>1. n + 1 \notin 1..Len(Wanted) /\ n + 2 \notin 1..Len(Wanted)
      BY <1>1, <2>3
    <3>2. Older(window, m) = <<>>
      BY <1>1, <1>2, <1>3, <2>3, OlderIs
    <3>3. Beside(n, n + 2) = <<>> /\ Beside(n, n + 1) = <<>>
      BY <3>1, BesideOutOfRange
    <3> HIDE DEF m
    <3>4. QED
      BY <3>2, <3>3
  <2>4. QED
    BY <2>1, <2>2, <2>3
<1>8. GatewayMessage(window, m) = InContext(n)
  <2> HIDE DEF m
  <2>1. m = Wanted[n]
    BY DEF m
  <2>2. QED
    BY <1>6, <1>7, <2>1 DEF GatewayMessage, InContext
<1>9. QED
  BY <1>1, <1>8

-----------------------------------------------------------------------------
(* The parts of the invariant that a step leaves alone, and what a yield   *)
(* makes of them.                                                          *)
LEMMA PartsKept ==
  ASSUME UNCHANGED inputs, NEW p \in Nat, NEW q \in Nat
  PROVE  /\ UNCHANGED window /\ WindowIs(p, q) => WindowIs(p, q)'
         /\ UNCHANGED emitted /\ EmittedAre(p) => EmittedAre(p)'
         /\ UNCHANGED yielded /\ YieldedAre(p) => YieldedAre(p)'
         /\ UNCHANGED next /\ ReadAre(p) => ReadAre(p)'
<1>1. Wanted' = Wanted /\ \A n : InContext(n)' = InContext(n)
  BY InputsKept
<1>2. QED
  BY <1>1 DEF WindowIs, EmittedAre, YieldedAre, ReadAre, Contexts

LEMMA EverythingKept ==
  ASSUME UNCHANGED inputs, UNCHANGED <<window, emitted, flushed, yielded>>,
         NEW p \in Nat, NEW q \in Nat, NEW e \in Nat, NEW y \in Nat, Holds(p, q, e, y)
  PROVE  Holds(p, q, e, y)'
<1>1. WindowIs(p, q)' /\ EmittedAre(e)' /\ YieldedAre(y)'
  BY PartsKept DEF Holds
<1>2. QED
  BY <1>1 DEF Holds

LEMMA ContextTyped ==
  ASSUME InputsOK, NEW n \in 1..Len(Wanted)
  PROVE  InContext(n) \in Contexts /\ InContext(n).message = Wanted[n]
<1>1. \A k \in 1..Len(Wanted) : Wanted[k] \in Nat
  BY WantedIs, HistoryTyped
<1>2. \A k : Beside(n, k) \in Seq(Nat)
  <2>1. ASSUME NEW k
        PROVE  Beside(n, k) \in Seq(Nat)
    <3>1. CASE Neighbour(n, k)
      <4>1. Wanted[k] \in Nat
        BY <1>1, <3>1 DEF Neighbour, InRange
      <4>2. <<Wanted[k]>> \in Seq(Nat)
        BY <4>1
      <4>3. QED
        BY <3>1, <4>2 DEF Beside
    <3>2. CASE ~Neighbour(n, k)
      BY <3>2 DEF Beside
    <3>3. QED
      BY <3>1, <3>2
  <2>2. QED
    BY <2>1
<1>3. Beside(n, n + 2) \o Beside(n, n + 1) \in Seq(Nat)
  BY <1>2, ConcatProperties
<1>4. (IF Neighbour(n, n - 1) THEN Wanted[n - 1] ELSE None) \in Nat \union {None}
  BY <1>1 DEF Neighbour, InRange
<1>5. Wanted[n] \in Nat
  BY <1>1
<1>6. QED
  BY <1>3, <1>4, <1>5 DEF InContext, Contexts

LEMMA YieldsNext ==
  ASSUME InputsOK, UNCHANGED inputs, NEW y \in Nat, YieldedAre(y), y + 1 \in 1..Len(Wanted),
         yielded' = Append(yielded, InContext(y + 1))
  PROVE  YieldedAre(y + 1)'
<1>1. InContext(y + 1) \in Contexts
  BY ContextTyped
<1>2. yielded \in Seq(Contexts) /\ Len(yielded) = y /\ \A n \in 1..y : yielded[n] = InContext(n)
  BY DEF YieldedAre
<1> DEFINE g == InContext(y + 1)
<1> HIDE DEF g
<1>3. /\ Append(yielded, g) \in Seq(Contexts) /\ Len(Append(yielded, g)) = y + 1
      /\ \A n \in 1..y : Append(yielded, g)[n] = yielded[n]
      /\ Append(yielded, g)[y + 1] = g
  BY <1>1, <1>2 DEF g
<1>4. \A n \in 1..(y + 1) : Append(yielded, g)[n] = InContext(n)
  <2>1. ASSUME NEW n \in 1..(y + 1)
        PROVE  Append(yielded, g)[n] = InContext(n)
    <3>1. CASE n \in 1..y
      BY <1>2, <1>3, <3>1
    <3>2. CASE n = y + 1
      BY <1>3, <3>2 DEF g
    <3>3. n \in 1..y \/ n = y + 1
      OBVIOUS
    <3>4. QED
      BY <3>1, <3>2, <3>3
  <2>2. QED
    BY <2>1
<1>5. \A n : InContext(n)' = InContext(n)
  BY InputsKept
<1>6. yielded' = Append(yielded, g)
  BY DEF g
<1>7. QED
  BY <1>3, <1>4, <1>5, <1>6 DEF YieldedAre, Contexts

LEMMA EmitsNext ==
  ASSUME UNCHANGED inputs, NEW e \in Nat, EmittedAre(e),
         emitted' = emitted \union {Wanted[e + 1]}
  PROVE  EmittedAre(e + 1)'
<1>1. Wanted' = Wanted
  BY InputsKept
<1>2. 1..(e + 1) = 1..e \union {e + 1}
  OBVIOUS
<1>3. QED
  BY <1>1, <1>2 DEF EmittedAre

(* A message of the range has been emitted if it is one of the first e.    *)
LEMMA EmittedFirst ==
  ASSUME InputsOK, NEW e \in Nat, e <= Len(Wanted), EmittedAre(e), NEW n \in 1..Len(Wanted)
  PROVE  Wanted[n] \in emitted <=> n <= e
<1>1. Len(Wanted) \in Nat
  BY WantedIs
<1>2. \A k \in 1..e : k \in 1..Len(Wanted)
  BY <1>1
<1>3. Wanted[n] \in emitted => n <= e
  BY <1>2, WantedOnce DEF EmittedAre
<1>4. QED
  BY <1>3 DEF EmittedAre

-----------------------------------------------------------------------------
LEMMA SkipReads ==
  ASSUME InputsOK, ReadSkip, NEW p \in Nat, ReadAre(p), next \in Nat
  PROVE  ReadAre(p)'
<1>1. Wanted' = Wanted
  BY InputsKept DEF ReadSkip
<1>2. \A n \in 1..Len(Wanted) : Wanted[n] # next /\ Wanted[n] \in Nat
  BY WantedIs, HistoryTyped DEF ReadSkip
<1>3. \A n \in 1..Len(Wanted) : Wanted[n] < next + 1 <=> Wanted[n] < next
  BY <1>2
<1>4. QED
  BY <1>1, <1>3 DEF ReadAre, ReadSkip

(* What is pushed is the next message of the range. *)
LEMMA PushesNext ==
  ASSUME InputsOK, ReadPush, NEW p \in Nat, ReadAre(p), p <= Len(Wanted), next \in Nat, 1 <= next
  PROVE  p + 1 \in 1..Len(Wanted) /\ Wanted[p + 1] = next /\ ReadAre(p + 1)'
<1>1. next \in Position
  BY HistoryTyped DEF ReadPush
<1>2. PICK n \in 1..Len(Wanted) : Wanted[n] = next
  BY <1>1, WantedIs DEF ReadPush
<1>3. Len(Wanted) \in Nat /\ \A k \in 1..Len(Wanted) : Wanted[k] \in Nat
  BY WantedIs, HistoryTyped
<1>4. n > p
  BY <1>2, <1>3 DEF ReadAre
<1>5. ~(p + 1 < n)
  <2> SUFFICES ASSUME p + 1 < n
               PROVE  FALSE
    OBVIOUS
  <2>1. p + 1 \in 1..Len(Wanted) /\ Wanted[p + 1] < Wanted[n]
    BY <1>3, WantedIs
  <2>2. p + 1 <= p
    BY <1>2, <2>1 DEF ReadAre
  <2>3. QED
    BY <2>2
<1>6. n = p + 1
  BY <1>4, <1>5
<1>7. \A k \in 1..Len(Wanted) : Wanted[k] < next + 1 <=> k <= p + 1
  <2>1. ASSUME NEW k \in 1..Len(Wanted)
        PROVE  Wanted[k] < next + 1 <=> k <= p + 1
    <3>1. Wanted[k] = next <=> k = p + 1
      BY <1>2, <1>6, WantedOnce
    <3>2. Wanted[k] < next <=> k <= p
      BY DEF ReadAre
    <3>3. QED
      BY <1>3, <3>1, <3>2
  <2>2. QED
    BY <2>1
<1>8. Wanted' = Wanted /\ next' = next + 1
  BY InputsKept DEF ReadPush
<1>9. QED
  BY <1>2, <1>6, <1>7, <1>8 DEF ReadAre

LEMMA PushedWindow ==
  ASSUME InputsOK, UNCHANGED inputs, NEW p \in Nat, NEW q \in Nat, q <= p, WindowIs(p, q),
         p + 1 \in 1..Len(Wanted), window' = Append(window, Wanted[p + 1])
  PROVE  WindowIs(p + 1, q + 1)'
<1>1. Wanted' = Wanted /\ Wanted[p + 1] \in Nat
  BY InputsKept, WantedIs, HistoryTyped
<1>2. /\ window' \in Seq(Nat) /\ Len(window') = q + 1
      /\ \A n \in 1..q : window'[n] = window[n]
      /\ window'[q + 1] = Wanted[p + 1]
  BY <1>1 DEF WindowIs
<1>3. \A n \in 1..(q + 1) : window'[n] = Wanted[(p + 1) - (q + 1) + n]
  <2>1. ASSUME NEW n \in 1..(q + 1)
        PROVE  window'[n] = Wanted[(p + 1) - (q + 1) + n]
    <3>1. (p + 1) - (q + 1) + n = p - q + n
      OBVIOUS
    <3>2. CASE n \in 1..q
      BY <1>2, <3>1, <3>2 DEF WindowIs
    <3>3. CASE n = q + 1
      <4>1. p - q + n = p + 1
        BY <3>3
      <4>2. QED
        BY <1>2, <3>1, <3>3, <4>1
    <3>4. n \in 1..q \/ n = q + 1
      OBVIOUS
    <3>5. QED
      BY <3>2, <3>3, <3>4
  <2>2. QED
    BY <2>1
<1>4. QED
  BY <1>1, <1>2, <1>3 DEF WindowIs

LEMMA ShiftedWindow ==
  ASSUME UNCHANGED inputs, NEW p \in Nat, NEW q \in Nat, q <= p, WindowIs(p, q + 1),
         window' = Tail(window)
  PROVE  WindowIs(p, q)'
<1>1. Wanted' = Wanted
  BY InputsKept
<1>2. window \in Seq(Nat) /\ Len(window) = q + 1
  BY DEF WindowIs
<1>3. /\ window' \in Seq(Nat) /\ Len(window') = q
      /\ \A n \in 1..q : window'[n] = window[n + 1]
  <2>1. window # <<>>
    BY <1>2
  <2>2. QED
    BY <1>2, <2>1, HeadTailProperties
<1>4. \A n \in 1..q : window'[n] = Wanted[p - q + n]
  <2>1. ASSUME NEW n \in 1..q
        PROVE  window'[n] = Wanted[p - q + n]
    <3>1. n + 1 \in 1..(q + 1) /\ p - (q + 1) + (n + 1) = p - q + n
      OBVIOUS
    <3>2. QED
      BY <1>3, <3>1 DEF WindowIs
  <2>2. QED
    BY <2>1
<1>5. QED
  BY <1>1, <1>3, <1>4 DEF WindowIs

(* The loop only ends after the last message of the range. *)
LEMMA EndIsTheEnd ==
  ASSUME InputsOK, ReadEnd, NEW p \in 0..Len(Wanted), ReadAre(p), next \in 1..Len(history) + 1
  PROVE  p = Len(Wanted)
<1>1. Len(Wanted) \in Nat /\ Len(history) \in Nat /\ Position = 1..Len(history)
  BY WantedIs, HistoryTyped
<1> SUFFICES ASSUME p + 1 \in 1..Len(Wanted)
             PROVE  FALSE
  BY <1>1
<1>2. Wanted[p + 1] \in Position /\ ~TooOld(Wanted[p + 1])
  BY WantedIs
<1>3. ~(Wanted[p + 1] < next)
  <2>1. ~(p + 1 <= p)
    OBVIOUS
  <2>2. QED
    BY <2>1 DEF ReadAre
<1>4. next <= Wanted[p + 1] /\ next \in Position
  BY <1>1, <1>2, <1>3
<1>5. TooOld(next)
  BY <1>1, <1>4 DEF ReadEnd
<1>6. At(Wanted[p + 1]) <= At(next) /\ At(next) \in Int /\ At(Wanted[p + 1]) \in Int
  <2>1. CASE next = Wanted[p + 1]
    BY <1>4, <2>1, HistoryTyped
  <2>2. CASE next < Wanted[p + 1]
    BY <1>2, <1>4, <2>2, HistoryTyped
  <2>3. QED
    BY <1>1, <1>2, <1>4, <2>1, <2>2
<1>7. QED
  BY <1>2, <1>5, <1>6, HistoryTyped DEF TooOld

-----------------------------------------------------------------------------
(* One step of the generator at a time. *)

LEMMA WindowInit == Init => WindowInv
<1> SUFFICES ASSUME Init
             PROVE  WindowInv
  OBVIOUS
<1>1. InputsOK
  BY DEF Init, InputsOK
<1>2. Len(Wanted) \in Nat /\ Len(history) \in Nat /\ \A n \in 1..Len(Wanted) : Wanted[n] \in 1..Len(history)
  BY <1>1, WantedIs, HistoryTyped
<1>3. AtMost(3, 0) = 0 /\ Less(0, 2) = 0
  BY DEF AtMost, Less
<1>4. WindowIs(0, 0) /\ EmittedAre(0) /\ YieldedAre(0)
  BY DEF Init, WindowIs, EmittedAre, YieldedAre
<1>5. ReadAre(0)
  <2>1. \A n \in 1..Len(Wanted) : ~(Wanted[n] < 1) /\ ~(n <= 0)
    BY <1>2
  <2>2. QED
    BY <2>1 DEF Init, ReadAre
<1>6. Reading(0)
  BY <1>3, <1>4, <1>5 DEF Init, Reading, Holds
<1>7. 0 \in 0..Len(Wanted) /\ next \in 1..Len(history) + 1
  BY <1>2 DEF Init
<1>8. QED
  BY <1>1, <1>6, <1>7 DEF Init, WindowInv, WindowParts

LEMMA SkipKeeps ==
  ASSUME WindowInv, ReadSkip
  PROVE  WindowInv'
<1>1. InputsOK /\ Len(Wanted) \in Nat /\ Len(history) \in Nat /\ next \in 1..Len(history) + 1
  BY WantedIs, HistoryTyped DEF WindowInv, WindowParts
<1>2. PICK p \in 0..Len(Wanted) : Reading(p)
  BY DEF ReadSkip, WindowInv, WindowParts
<1>3. ReadAre(p)'
  BY <1>1, <1>2, SkipReads DEF Reading
<1>4. AtMost(3, p) \in Nat /\ Less(p, 2) \in Nat
  BY <1>1 DEF AtMost, Less
<1>5. Holds(p, AtMost(3, p), Less(p, 2), Less(p, 2))'
  BY <1>1, <1>2, <1>4, EverythingKept DEF ReadSkip, Reading
<1>6. Reading(p)'
  BY <1>2, <1>3, <1>5 DEF ReadSkip, Reading, AtMost, Less
<1>7. Wanted' = Wanted /\ InputsOK' /\ history' = history
  BY <1>1, InputsKept DEF ReadSkip, inputs
<1>8. next' \in 1..Len(history') + 1
  BY <1>1, <1>7 DEF ReadSkip
<1>9. p \in 0..Len(Wanted')
  BY <1>7
<1>10. QED
  BY <1>6, <1>7, <1>8, <1>9 DEF ReadSkip, WindowInv, WindowParts

LEMMA PushKeeps ==
  ASSUME WindowInv, ReadPush
  PROVE  WindowInv'
<1>1. InputsOK /\ Len(Wanted) \in Nat /\ Len(history) \in Nat /\ next \in 1..Len(history) + 1
  BY WantedIs, HistoryTyped DEF WindowInv, WindowParts
<1>2. PICK p \in 0..Len(Wanted) : Reading(p)
  BY DEF ReadPush, WindowInv, WindowParts
<1>3. p + 1 \in 1..Len(Wanted) /\ Wanted[p + 1] = next /\ ReadAre(p + 1)'
  BY <1>1, <1>2, PushesNext DEF Reading
<1>4. /\ AtMost(3, p) \in Nat /\ AtMost(3, p) <= p /\ Less(p, 2) \in Nat
      /\ AtMost(4, p + 1) = AtMost(3, p) + 1 /\ Less(p + 1, 3) = Less(p, 2)
  BY <1>1 DEF AtMost, Less
<1>5. /\ WindowIs(p, AtMost(3, p)) /\ EmittedAre(Less(p, 2)) /\ YieldedAre(Less(p, 2))
      /\ flushed = 0
  BY <1>2 DEF Reading, Holds
<1>6. WindowIs(p + 1, AtMost(3, p) + 1)'
  BY <1>1, <1>3, <1>4, <1>5, PushedWindow DEF ReadPush
<1>7. EmittedAre(Less(p, 2))' /\ YieldedAre(Less(p, 2))'
  BY <1>4, <1>5, PartsKept DEF ReadPush
<1>8. Holds(p + 1, AtMost(4, p + 1), Less(p + 1, 3), Less(p + 1, 3))'
  <2>1. flushed' = 0 /\ 0 \in 0..(AtMost(3, p) + 1)
    BY <1>4, <1>5 DEF ReadPush
  <2>2. QED
    BY <1>4, <1>6, <1>7, <2>1 DEF Holds, AtMost, Less
<1>9. Offering(p + 1)'
  BY <1>1, <1>3, <1>5, <1>8 DEF ReadPush, Offering, AtMost, Less
<1>10. Wanted' = Wanted /\ InputsOK' /\ history' = history
  BY <1>1, InputsKept DEF ReadPush, inputs
<1>11. next' \in 1..Len(history') + 1 /\ p + 1 \in 0..Len(Wanted')
  BY <1>1, <1>3, <1>10 DEF ReadPush
<1>12. QED
  BY <1>9, <1>10, <1>11 DEF ReadPush, WindowInv, WindowParts

LEMMA EndKeeps ==
  ASSUME WindowInv, ReadEnd
  PROVE  WindowInv'
<1>1. InputsOK /\ Len(Wanted) \in Nat /\ Len(history) \in Nat /\ next \in 1..Len(history) + 1
  BY WantedIs, HistoryTyped DEF WindowInv, WindowParts
<1>2. PICK p \in 0..Len(Wanted) : Reading(p)
  BY DEF ReadEnd, WindowInv, WindowParts
<1>3. p = Len(Wanted)
  BY <1>1, <1>2, EndIsTheEnd DEF Reading
<1>4. /\ AtMost(3, p) \in Nat /\ Less(p, 2) \in Nat
      /\ (IF p - AtMost(3, p) + 0 < Less(p, 2) THEN Less(p, 2) ELSE p - AtMost(3, p) + 0) = Less(p, 2)
  BY <1>1 DEF AtMost, Less
<1>5. Holds(p, AtMost(3, p), Less(p, 2), Less(p, 2))'
  BY <1>1, <1>2, <1>4, EverythingKept DEF ReadEnd, Reading
<1>6. flushed' = 0 /\ flushed = 0
  BY <1>2 DEF ReadEnd, Reading
<1>7. Wanted' = Wanted /\ InputsOK' /\ history' = history
  BY <1>1, InputsKept DEF ReadEnd, inputs
<1>8. Flushing(0)'
  BY <1>3, <1>4, <1>5, <1>6, <1>7 DEF Flushing, AtMost, Less
<1>9. Flushing(flushed)'
  BY <1>6, <1>8 DEF Flushing
<1>10. next' \in 1..Len(history') + 1
  BY <1>1, <1>7 DEF ReadEnd
<1>11. QED
  BY <1>7, <1>9, <1>10 DEF ReadEnd, WindowInv, WindowParts

LEMMA OfferKeeps ==
  ASSUME WindowInv, Offer
  PROVE  WindowInv'
<1>1. InputsOK /\ Len(Wanted) \in Nat /\ Len(history) \in Nat /\ next \in 1..Len(history) + 1
  BY WantedIs, HistoryTyped DEF WindowInv, WindowParts
<1>2. PICK p \in 0..Len(Wanted) : Offering(p)
  BY DEF Offer, WindowInv, WindowParts
<1>3. /\ WindowIs(p, AtMost(4, p)) /\ EmittedAre(Less(p, 3)) /\ YieldedAre(Less(p, 3))
      /\ flushed = 0 /\ p # 0 /\ p \in Nat /\ Len(window) = AtMost(4, p) /\ p <= Len(Wanted)
      /\ ReadAre(p)
  BY <1>1, <1>2 DEF Offering, Holds, WindowIs
<1>4. Wanted' = Wanted /\ InputsOK' /\ history' = history /\ flushed' = 0 /\ ReadAre(p)'
  BY <1>1, <1>3, InputsKept, PartsKept DEF Offer, inputs
<1>5. Holds(p, AtMost(3, p), Less(p, 2), Less(p, 2))'
  <2>1. CASE p <= 2
    <3>1. AtMost(4, p) = p /\ AtMost(3, p) = p /\ Less(p, 3) = 0 /\ Less(p, 2) = 0
      BY <1>3, <2>1 DEF AtMost, Less
    <3>2. UNCHANGED <<yielded, emitted, window>>
      BY <1>3, <2>1, <3>1 DEF Offer, Shifted
    <3>3. WindowIs(p, p)' /\ EmittedAre(0)' /\ YieldedAre(0)'
      BY <1>3, <3>1, <3>2, PartsKept DEF Offer
    <3>4. flushed' \in 0..p
      BY <1>3, <1>4
    <3>5. QED
      BY <3>1, <3>3, <3>4 DEF Holds, AtMost, Less
  <2>2. CASE p = 3
    <3>1. AtMost(4, p) = 3 /\ AtMost(3, p) = 3 /\ Less(p, 3) = 0 /\ Less(p, 2) = 1
      BY <2>2 DEF AtMost, Less
    <3>2. Candidate(window) = window[1] /\ window' = window
      BY <1>3, <3>1 DEF Offer, Candidate, Shifted
    <3>3. window[1] = Wanted[1] /\ 1 \in 1..Len(Wanted) /\ GatewayMessage(window, window[1]) = InContext(1)
      <4>1. WindowIs(p, 3) /\ 1 \in 1..3 /\ 3 \in Nat /\ 3 <= p /\ 1 = p - 3 + 1 /\ 1 + 2 <= 3
        BY <1>3, <2>2, <3>1
      <4>2. QED
        BY <1>1, <1>3, <4>1, ContextInWindow
    <3>4. Wanted[1] \notin emitted
      <4>1. 0 \in Nat /\ 0 <= Len(Wanted) /\ ~(1 <= 0) /\ EmittedAre(0)
        BY <1>1, <1>3, <3>1
      <4>2. QED
        BY <1>1, <3>3, <4>1, EmittedFirst
    <3>5. /\ yielded' = Append(yielded, InContext(0 + 1))
          /\ emitted' = emitted \union {Wanted[0 + 1]}
      BY <1>3, <3>1, <3>2, <3>3, <3>4 DEF Offer
    <3>6. YieldedAre(0 + 1)'
      BY <1>1, <1>3, <3>1, <3>3, <3>5, YieldsNext DEF Offer
    <3>7. EmittedAre(0 + 1)'
      BY <1>3, <3>1, <3>5, EmitsNext DEF Offer
    <3>8. WindowIs(p, 3)'
      BY <1>3, <3>1, <3>2, PartsKept DEF Offer
    <3>9. flushed' \in 0..3
      BY <1>4
    <3>10. QED
      BY <3>1, <3>6, <3>7, <3>8, <3>9 DEF Holds, AtMost, Less
  <2>3. CASE p >= 4
    <3>1. PICK e \in Nat : e = p - 3
      BY <1>3, <2>3
    <3>2. AtMost(4, p) = 4 /\ AtMost(3, p) = 3 /\ Less(p, 3) = e /\ Less(p, 2) = e + 1
      BY <1>3, <2>3, <3>1 DEF AtMost, Less
    <3>3. Candidate(window) = window[2] /\ window' = Tail(window)
      BY <1>3, <3>2 DEF Offer, Candidate, Shifted
    <3>4. /\ window[2] = Wanted[e + 1] /\ e + 1 \in 1..Len(Wanted)
          /\ GatewayMessage(window, window[2]) = InContext(e + 1)
      <4>1. /\ WindowIs(p, 4) /\ 2 \in 1..4 /\ 4 \in Nat /\ 4 <= p /\ e + 1 = p - 4 + 2
            /\ 2 + 2 <= 4 /\ e + 1 \in Nat /\ 2 # 1
        BY <1>3, <2>3, <3>1, <3>2
      <4>2. QED
        BY <1>1, <1>3, <4>1, ContextInWindow
    <3>5. Wanted[e + 1] \notin emitted
      <4>1. e <= Len(Wanted) /\ ~(e + 1 <= e) /\ EmittedAre(e)
        BY <1>1, <1>3, <3>1, <3>2
      <4>2. QED
        BY <1>1, <3>4, <4>1, EmittedFirst
    <3>6. /\ yielded' = Append(yielded, InContext(e + 1))
          /\ emitted' = emitted \union {Wanted[e + 1]}
      BY <1>3, <3>2, <3>3, <3>4, <3>5 DEF Offer
    <3>7. YieldedAre(e + 1)'
      BY <1>1, <1>3, <3>2, <3>4, <3>6, YieldsNext DEF Offer
    <3>8. EmittedAre(e + 1)'
      BY <1>3, <3>2, <3>6, EmitsNext DEF Offer
    <3>9. WindowIs(p, 3)'
      <4>1. WindowIs(p, 3 + 1) /\ 3 <= p
        BY <1>3, <2>3, <3>2
      <4>2. QED
        BY <1>3, <3>3, <4>1, ShiftedWindow DEF Offer
    <3>10. flushed' \in 0..3
      BY <1>4
    <3>11. QED
      BY <3>2, <3>7, <3>8, <3>9, <3>10 DEF Holds, AtMost, Less
  <2>4. QED
    BY <1>3, <2>1, <2>2, <2>3
<1>6. Reading(p)'
  BY <1>4, <1>5 DEF Reading, AtMost, Less
<1>7. next' \in 1..Len(history') + 1 /\ p \in 0..Len(Wanted')
  BY <1>1, <1>4 DEF Offer
<1>8. QED
  BY <1>4, <1>6, <1>7 DEF Offer, WindowInv, WindowParts


(* The n-th message of the range is the k-th of the last window. *)
FlushOf(p, q, e, f, y, k, n) ==
  /\ p \in Nat /\ q \in Nat /\ e \in Nat /\ f \in Nat /\ f < q
  /\ q = AtMost(3, p) /\ e = Less(p, 2)
  /\ y = IF p - q + f < e THEN e ELSE p - q + f
  /\ k = f + 1 /\ n = p - q + k

LEMMA LastWindow ==
  ASSUME NEW p, NEW q, NEW e, NEW f, NEW y, NEW k, NEW n, FlushOf(p, q, e, f, y, k, n)
  PROVE  /\ q <= p /\ e <= p /\ k \in 1..q /\ n \in 1..p /\ n \in Nat /\ y \in Nat
         /\ n <= e => y = IF n < e THEN e ELSE n
         /\ ~(n <= e) => /\ y + 1 = n
                         /\ y + 1 = IF n < e THEN e ELSE n
                         /\ k = 1 => n = 1
<1>0. /\ p \in Nat /\ q \in Nat /\ e \in Nat /\ f \in Nat /\ f < q
      /\ q = AtMost(3, p) /\ e = Less(p, 2)
      /\ y = IF p - q + f < e THEN e ELSE p - q + f
      /\ k = f + 1 /\ n = p - q + k
  BY DEF FlushOf
<1>1. q <= p /\ e <= p
  BY <1>0 DEF AtMost, Less
<1>2. k \in 1..q /\ n \in 1..p /\ n \in Nat /\ p - q + f \in Nat
  BY <1>0, <1>1
<1>3. PICK r \in Nat : r = p - q + f
  BY <1>2
<1>4. n = r + 1
  BY <1>0, <1>3
<1>5. y = IF r < e THEN e ELSE r
  BY <1>0, <1>3
<1>6. ~(n <= e) => (k = 1 => n = 1)
  <2>1. CASE p <= 3
    <3>1. q = p
      BY <1>0, <2>1 DEF AtMost
    <3>2. QED
      BY <1>0, <3>1
  <2>2. CASE p > 3
    <3>1. q = 3 /\ e = p - 2
      BY <1>0, <2>2 DEF AtMost, Less
    <3>2. QED
      BY <1>0, <3>1
  <2>3. QED
    BY <1>0, <2>1, <2>2
<1>7. QED
  BY <1>0, <1>1, <1>2, <1>4, <1>5, <1>6

LEMMA FlushKeeps ==
  ASSUME WindowInv, Flush
  PROVE  WindowInv'
<1>17. Len(Wanted) \in Nat
  BY WantedIs DEF WindowInv
<1>18. PICK p \in Nat : p = Len(Wanted)
  BY <1>17
<1>1. InputsOK /\ Len(history) \in Nat /\ next \in 1..Len(history) + 1
  BY HistoryTyped DEF WindowInv, WindowParts
<1>2. Flushing(flushed)
  BY DEF Flush, WindowInv, WindowParts
<1>3. PICK q \in Nat : q = AtMost(3, p)
  <2>1. AtMost(3, p) \in Nat
    BY <1>1 DEF AtMost
  <2>2. QED
    BY <2>1
<1>15. PICK e \in Nat : e = Less(p, 2)
  <2>1. Less(p, 2) \in Nat
    BY <1>1 DEF Less
  <2>2. QED
    BY <2>1
<1>4. PICK y : y = IF p - q + flushed < e THEN e ELSE p - q + flushed
  OBVIOUS
<1>5. /\ WindowIs(p, q) /\ EmittedAre(e) /\ YieldedAre(y) /\ flushed \in Nat
      /\ Len(window) = q /\ flushed < q
  <2>1. Holds(p, q, e, y)
    BY <1>2, <1>3, <1>15, <1>18, <1>4 DEF Flushing
  <2>2. flushed \in 0..q
    BY <2>1 DEF Holds
  <2>3. WindowIs(p, q) /\ EmittedAre(e) /\ YieldedAre(y)
    BY <2>1 DEF Holds
  <2>4. Len(window) = q /\ flushed < Len(window)
    BY <2>3 DEF WindowIs, Flush
  <2>5. QED
    BY <2>2, <2>3, <2>4
<1>6. PICK k, n : k = flushed + 1 /\ n = p - q + k
  OBVIOUS
<1>16. /\ q <= p /\ e <= p /\ k \in 1..q /\ n \in 1..p /\ n \in Nat /\ y \in Nat
       /\ n <= e => y = IF n < e THEN e ELSE n
       /\ ~(n <= e) => /\ y + 1 = n
                       /\ y + 1 = IF n < e THEN e ELSE n
                       /\ k = 1 => n = 1
  <2>1. FlushOf(p, q, e, flushed, y, k, n)
    BY <1>3, <1>15, <1>4, <1>5, <1>6 DEF FlushOf
  <2>2. QED
    BY <2>1, LastWindow
<1>7. /\ Wanted' = Wanted /\ InputsOK' /\ history' = history /\ flushed' = k
      /\ WindowIs(p, q)' /\ EmittedAre(e)'
  BY <1>1, <1>5, <1>6, <1>16, InputsKept, PartsKept DEF Flush, inputs
<1>8. window[k] = Wanted[n]
  BY <1>5, <1>6, <1>16 DEF WindowIs
<1>9. Wanted[n] \in emitted <=> n <= e
  BY <1>1, <1>18, <1>5, <1>16, EmittedFirst
<1>10. YieldedAre(IF n < e THEN e ELSE n)'
  <2>1. CASE n <= e
    <3>1. yielded' = yielded
      BY <1>6, <1>8, <1>9, <2>1 DEF Flush
    <3>2. YieldedAre(y)'
      BY <1>5, <1>16, <3>1, PartsKept DEF Flush
    <3>3. QED
      BY <1>16, <2>1, <3>2
  <2>2. CASE ~(n <= e)
    <3>1. GatewayMessage(window, window[k]) = InContext(n)
      BY <1>1, <1>18, <1>5, <1>6, <1>16, <2>2, ContextInWindow
    <3>2. yielded' = Append(yielded, InContext(y + 1))
      BY <1>6, <1>8, <1>9, <1>16, <2>2, <3>1 DEF Flush
    <3>3. YieldedAre(y + 1)'
      BY <1>1, <1>18, <1>5, <1>16, <2>2, <3>2, YieldsNext DEF Flush
    <3>4. QED
      BY <1>16, <2>2, <3>3
  <2>3. QED
    BY <2>1, <2>2
<1>11. Flushing(k)'
  <2>1. /\ Len(Wanted') = p /\ AtMost(3, p) = q /\ Less(p, 2) = e /\ flushed' \in 0..q
        /\ flushed' = k
    BY <1>3, <1>15, <1>16, <1>18, <1>7
  <2>2. (IF p - q + k < e THEN e ELSE p - q + k) = IF n < e THEN e ELSE n
    BY <1>6
  <2>3. Holds(p, q, e, IF p - q + k < e THEN e ELSE p - q + k)'
    BY <1>7, <1>10, <2>1, <2>2 DEF Holds
  <2>4. QED
    BY <2>1, <2>3 DEF Flushing, AtMost, Less
<1>12. Flushing(flushed)'
  BY <1>7, <1>11 DEF Flushing
<1>13. next' \in 1..Len(history') + 1
  BY <1>1, <1>7 DEF Flush
<1>14. QED
  BY <1>7, <1>12, <1>13 DEF Flush, WindowInv, WindowParts

LEMMA FinishKeeps ==
  ASSUME WindowInv, Finish
  PROVE  WindowInv'
<1>1. InputsOK /\ Len(Wanted) \in Nat /\ next \in 1..Len(history) + 1
  BY WantedIs DEF WindowInv, WindowParts
<1>2. Flushing(flushed) /\ flushed' = Len(window') /\ flushed' = flushed
  BY DEF Finish, WindowInv, WindowParts
<1>3. Wanted' = Wanted /\ InputsOK' /\ history' = history
  BY <1>1, InputsKept DEF Finish, inputs
<1>4. Flushing(flushed)'
  <2>0. PICK p \in Nat : p = Len(Wanted)
    BY <1>1
  <2>1. PICK q, e, y : /\ q = AtMost(3, p) /\ e = Less(p, 2)
                       /\ y = IF p - q + flushed < e THEN e ELSE p - q + flushed
    OBVIOUS
  <2>2. Holds(p, q, e, y)
    BY <1>2, <2>0, <2>1 DEF Flushing
  <2>3. q \in Nat /\ e \in Nat /\ y \in Nat
    <3>1. q \in Nat /\ q <= p /\ e \in Nat
      BY <2>1 DEF AtMost, Less
    <3>2. p - q + flushed \in Nat
      BY <2>2, <3>1 DEF Holds
    <3>3. QED
      BY <2>1, <3>1, <3>2
  <2>4. Holds(p, q, e, y)'
    BY <2>2, <2>3, EverythingKept DEF Finish
  <2>5. QED
    BY <1>2, <1>3, <2>0, <2>1, <2>4 DEF Flushing, AtMost, Less
<1>5. Flushing(Len(window))'
  BY <1>2, <1>4 DEF Flushing
<1>6. next' \in 1..Len(history') + 1
  BY <1>1, <1>3 DEF Finish
<1>7. QED
  BY <1>3, <1>5, <1>6 DEF Finish, WindowInv, WindowParts

(* Where the generator stands, whatever it is doing. *)
LEMMA AlwaysSomewhere ==
  ASSUME WindowInv
  PROVE  Failed
<1>1. Len(Wanted) \in Nat
  BY WantedIs DEF WindowInv
<1>2. CASE pc = "reading"
  <2>1. PICK p \in 0..Len(Wanted) : Reading(p)
    BY <1>2 DEF WindowInv, WindowParts
  <2>2. AtMost(3, p) \in 0..AtMost(4, p) /\ Less(p, 2) \in 0..p
    BY <2>1 DEF AtMost, Less
  <2>3. QED
    BY <2>1, <2>2 DEF Reading, Failed
<1>3. CASE pc = "offering"
  <2>1. PICK p \in 0..Len(Wanted) : Offering(p)
    BY <1>3 DEF WindowInv, WindowParts
  <2>2. AtMost(4, p) \in 0..AtMost(4, p) /\ Less(p, 3) \in 0..p
    BY <2>1 DEF AtMost, Less
  <2>3. QED
    BY <2>1, <2>2 DEF Offering, Failed
<1>4. ASSUME Flushing(flushed)
      PROVE  Failed
  <2>0. PICK p \in Nat : p = Len(Wanted)
    BY <1>1
  <2>1. PICK q, e, y : /\ q = AtMost(3, p) /\ e = Less(p, 2)
                       /\ y = IF p - q + flushed < e THEN e ELSE p - q + flushed
    OBVIOUS
  <2>2. Holds(p, q, e, y)
    BY <1>4, <2>0, <2>1 DEF Flushing
  <2>3. q \in 0..AtMost(4, p) /\ e \in 0..p /\ y \in 0..p
    <3>1. q \in Nat /\ q <= p /\ e \in Nat /\ e <= p /\ q <= AtMost(4, p) /\ AtMost(4, p) \in Nat
      BY <2>1 DEF AtMost, Less
    <3>2. flushed \in 0..q
      BY <2>2 DEF Holds
    <3>3. p - q + flushed \in 0..p
      BY <3>1, <3>2
    <3>4. QED
      BY <2>1, <3>1, <3>3
  <2>4. p \in 0..Len(Wanted)
    BY <2>0
  <2>5. QED
    BY <2>2, <2>3, <2>4 DEF Failed
<1>5. CASE pc = "flushing"
  BY <1>4, <1>5 DEF WindowInv, WindowParts
<1>6. CASE pc = "done"
  <2>1. Flushing(Len(window))
    BY <1>6 DEF WindowInv, WindowParts
  <2>2. flushed = Len(window)
    BY <2>1 DEF Flushing
  <2>3. QED
    BY <1>4, <2>1, <2>2
<1>7. QED
  BY <1>2, <1>3, <1>5, <1>6 DEF WindowInv, WindowParts

LEMMA FailKeeps ==
  ASSUME WindowInv, Fail
  PROVE  WindowInv'
<1>1. InputsOK /\ Len(Wanted) \in Nat /\ next \in 1..Len(history) + 1
  BY WantedIs DEF WindowInv, WindowParts
<1>2. Wanted' = Wanted /\ InputsOK' /\ history' = history
  BY <1>1, InputsKept DEF Fail, inputs
<1>3. Failed'
  <2>1. PICK p \in 0..Len(Wanted) : \E q \in 0..AtMost(4, p) : \E e, y \in 0..p : Holds(p, q, e, y)
    BY AlwaysSomewhere DEF Failed
  <2>2. PICK q \in 0..AtMost(4, p), e \in 0..p, y \in 0..p : Holds(p, q, e, y)
    BY <2>1
  <2>3. p \in Nat /\ q \in Nat /\ e \in Nat /\ y \in Nat
    OBVIOUS
  <2>4. Holds(p, q, e, y)'
    BY <2>2, <2>3, EverythingKept DEF Fail
  <2>5. QED
    BY <1>2, <2>4 DEF Failed, AtMost
<1>4. next' \in 1..Len(history') + 1
  BY <1>1, <1>2 DEF Fail
<1>5. QED
  BY <1>2, <1>3, <1>4 DEF Fail, WindowInv, WindowParts

LEMMA StutterKeeps ==
  ASSUME WindowInv, UNCHANGED vars
  PROVE  WindowInv'
<1>1. Wanted' = Wanted /\ (InputsOK' <=> InputsOK) /\ \A n : InContext(n)' = InContext(n)
  BY InputsKept DEF vars, inputs
<1>2. /\ \A p, q, e, y : Holds(p, q, e, y)' <=> Holds(p, q, e, y)
      /\ \A p : ReadAre(p)' <=> ReadAre(p)
  BY <1>1 DEF vars, Holds, WindowIs, EmittedAre, YieldedAre, ReadAre, Contexts
<1>3. /\ \A p : Reading(p)' <=> Reading(p)
      /\ \A p : Offering(p)' <=> Offering(p)
      /\ \A f : Flushing(f)' <=> Flushing(f)
      /\ Failed' <=> Failed
  <2>1. /\ \A p : Reading(p)' <=> Reading(p)
        /\ \A p : Offering(p)' <=> Offering(p)
    BY <1>2 DEF vars, Reading, Offering, AtMost, Less
  <2>2. \A f : Flushing(f)' <=> Flushing(f)
    BY <1>1, <1>2 DEF vars, Flushing, AtMost, Less
  <2>3. Failed' <=> Failed
    BY <1>1, <1>2 DEF Failed, AtMost
  <2>4. QED
    BY <2>1, <2>2, <2>3
<1>5. WindowParts'
  BY <1>1, <1>3 DEF vars, WindowInv, WindowParts
<1>6. QED
  BY <1>1, <1>5 DEF WindowInv

-----------------------------------------------------------------------------
(* At every moment the window holds the last messages of those read, all   *)
(* that are needed for the context of the ones still to come, and the      *)
(* generator has yielded the first of the range, in their context.         *)
THEOREM WindowInvariant == Spec => []WindowInv
<1>1. WindowInv /\ [Next]_vars => WindowInv'
  BY SkipKeeps, PushKeeps, EndKeeps, OfferKeeps, FlushKeeps, FinishKeeps, FailKeeps, StutterKeeps
     DEF Next
<1>2. QED
  BY WindowInit, <1>1, PTL DEF Spec

(* What the window, the emitted messages and the yielded ones are made of. *)
LEMMA WindowMadeOf ==
  ASSUME WindowInv
  PROVE  /\ InputsOK /\ Len(Wanted) \in Nat
         /\ \E q \in 0..4 : window \in [1..q -> Position] /\ Len(window) = q
         /\ pc = "reading" => Len(window) <= 3
         /\ emitted \subseteq Position
         /\ flushed \in 0..Len(window)
         /\ yielded \in Seq(Contexts) /\ Len(yielded) <= Len(Wanted) /\ Len(yielded) \in Nat
         /\ \A n \in 1..Len(yielded) : n \in 1..Len(Wanted) /\ yielded[n] = InContext(n)
<1>1. InputsOK /\ Len(Wanted) \in Nat /\ \A n \in 1..Len(Wanted) : Wanted[n] \in Position
  BY WantedIs DEF WindowInv
<1>2. PICK p \in 0..Len(Wanted) : \E q \in 0..AtMost(4, p) : \E e, y \in 0..p : Holds(p, q, e, y)
  BY AlwaysSomewhere DEF Failed
<1>3. PICK q \in 0..AtMost(4, p), e \in 0..p, y \in 0..p : Holds(p, q, e, y)
  BY <1>2
<1>4. p \in Nat /\ q \in Nat /\ e \in Nat /\ y \in Nat /\ q <= 4 /\ q <= p
  BY <1>1 DEF AtMost
<1>5. WindowIs(p, q) /\ EmittedAre(e) /\ YieldedAre(y) /\ flushed \in 0..q
  BY <1>3 DEF Holds
<1>6. window \in [1..q -> Position] /\ Len(window) = q
  <2>1. \A n \in 1..q : p - q + n \in 1..Len(Wanted)
    BY <1>1, <1>4
  <2>2. \A n \in 1..q : window[n] \in Position
    BY <1>1, <1>5, <2>1 DEF WindowIs
  <2>3. window \in Seq(Nat) /\ Len(window) = q
    BY <1>5 DEF WindowIs
  <2>4. QED
    BY <2>2, <2>3
<1>7. ASSUME pc = "reading"
      PROVE  Len(window) <= 3
  <2>1. PICK r \in 0..Len(Wanted) : Reading(r)
    BY <1>7 DEF WindowInv, WindowParts
  <2>2. Len(window) = AtMost(3, r)
    BY <2>1 DEF Reading, Holds, WindowIs
  <2>3. QED
    BY <2>2 DEF AtMost
<1>8. emitted \subseteq Position
  <2>1. \A n \in 1..e : n \in 1..Len(Wanted)
    BY <1>1, <1>4
  <2>2. QED
    BY <1>1, <1>5, <2>1 DEF EmittedAre
<1>9. /\ yielded \in Seq(Contexts) /\ Len(yielded) = y
      /\ \A n \in 1..y : n \in 1..Len(Wanted) /\ yielded[n] = InContext(n)
  <2>1. \A n \in 1..y : n \in 1..Len(Wanted)
    BY <1>1, <1>4
  <2>2. QED
    BY <1>5, <2>1 DEF YieldedAre
<1>10. q \in 0..4 /\ y <= Len(Wanted)
  BY <1>1, <1>4
<1> HIDE DEF Contexts
<1>11. QED
  BY <1>1, <1>4, <1>5, <1>6, <1>7, <1>8, <1>9, <1>10

LEMMA ContextOfPositions ==
  ASSUME InputsOK, NEW n \in 1..Len(Wanted)
  PROVE  InContext(n) \in [message : Position, next : Position \union {None},
                           previous : UNION {[1..k -> Position] : k \in 0..2}]
<1>1. \A k \in 1..Len(Wanted) : Wanted[k] \in Position
  BY WantedIs
<1>2. (IF Neighbour(n, n - 1) THEN Wanted[n - 1] ELSE None) \in Position \union {None}
  BY <1>1 DEF Neighbour, InRange
<1>3. ASSUME NEW k
      PROVE  Beside(n, k) = <<>> \/ \E a \in Position : Beside(n, k) = <<a>>
  BY <1>1 DEF Beside, Neighbour, InRange
<1>4. Beside(n, n + 2) \o Beside(n, n + 1) \in UNION {[1..k -> Position] : k \in 0..2}
  <2>1. ASSUME NEW a \in Position, NEW b \in Position
        PROVE  /\ <<>> \o <<>> = <<>> /\ <<a>> \o <<>> = <<a>> /\ <<>> \o <<b>> = <<b>>
               /\ <<a>> \o <<b>> = <<a, b>>
    BY Pair
  <2>2. ASSUME NEW a \in Position, NEW b \in Position
        PROVE  /\ <<>> \in [1..0 -> Position] /\ <<a>> \in [1..1 -> Position]
               /\ <<a, b>> \in [1..2 -> Position]
    OBVIOUS
  <2>3. Wanted[n] \in Position
    BY <1>1
  <2>4. \E k \in 0..2 : Beside(n, n + 2) \o Beside(n, n + 1) \in [1..k -> Position]
    <3>1. CASE Beside(n, n + 2) = <<>>
      <4>1. CASE Beside(n, n + 1) = <<>>
        BY <2>1, <2>2, <2>3, <3>1, <4>1
      <4>2. CASE \E b \in Position : Beside(n, n + 1) = <<b>>
        <5>1. PICK b \in Position : Beside(n, n + 1) = <<b>>
          BY <4>2
        <5>2. <<>> \o <<b>> = <<b>> /\ <<b>> \in [1..1 -> Position] /\ 1 \in 0..2
          BY <2>1, <2>2
        <5>3. QED
          BY <3>1, <5>1, <5>2
      <4>3. QED
        BY <1>3, <4>1, <4>2
    <3>2. CASE \E a \in Position : Beside(n, n + 2) = <<a>>
      <4>0. PICK a \in Position : Beside(n, n + 2) = <<a>>
        BY <3>2
      <4>1. CASE Beside(n, n + 1) = <<>>
        <5>1. <<a>> \o <<>> = <<a>> /\ <<a>> \in [1..1 -> Position] /\ 1 \in 0..2
          BY <2>1, <2>2
        <5>2. QED
          BY <4>0, <4>1, <5>1
      <4>2. CASE \E b \in Position : Beside(n, n + 1) = <<b>>
        <5>1. PICK b \in Position : Beside(n, n + 1) = <<b>>
          BY <4>2
        <5>2. <<a>> \o <<b>> = <<a, b>> /\ <<a, b>> \in [1..2 -> Position] /\ 2 \in 0..2
          BY <2>1, <2>2
        <5>3. QED
          BY <4>0, <5>1, <5>2
      <4>3. QED
        BY <1>3, <4>1, <4>2
    <3>3. QED
      BY <1>3, <3>1, <3>2
  <2>5. QED
    BY <2>4
<1>5. Wanted[n] \in Position
  BY <1>1
<1>6. QED
  BY <1>2, <1>4, <1>5 DEF InContext

(* The window never grows beyond four messages, three between two reads,   *)
(* and what is held back, emitted and yielded are messages of the history. *)
THEOREM WindowTypeOK == Spec => []TypeOK
<1>1. WindowInv => TypeOK
  <2> SUFFICES ASSUME WindowInv
               PROVE  TypeOK
    OBVIOUS
  <2>1. next \in 1..Len(history) + 1 /\ pc \in {"reading", "offering", "flushing", "done", "failed"}
    BY DEF WindowInv, WindowParts
  <2>2. window \in UNION {[1..n -> Position] : n \in 0..4}
    BY WindowMadeOf
  <2>3. \A n \in 1..Len(yielded) :
          yielded[n] \in [message : Position, next : Position \union {None},
                          previous : UNION {[1..k -> Position] : k \in 0..2}]
    BY WindowMadeOf, ContextOfPositions
  <2>4. /\ pc = "reading" => Len(window) <= 3
        /\ emitted \subseteq Position
        /\ flushed \in 0..Len(window)
    BY WindowMadeOf
  <2>5. QED
    BY <2>1, <2>2, <2>3, <2>4 DEF TypeOK
<1>2. QED
  BY WindowInvariant, <1>1, PTL

(* Every message is yielded with the neighbours it has in the range, which *)
(* the window, dropped and refilled on the way, never costs it.            *)
THEOREM ContextIsNeighbourhoodHolds == Spec => []ContextIsNeighbourhood
<1>1. ASSUME WindowInv, NEW n \in 1..Len(yielded)
      PROVE  /\ IndexIn(Wanted, yielded[n].message) = n
             /\ yielded[n].next = IF Neighbour(n, n - 1) THEN Wanted[n - 1] ELSE None
             /\ yielded[n].previous = Beside(n, n + 2) \o Beside(n, n + 1)
             /\ \A j : Neighbour(n, j) <=> /\ j \in 1..Len(Wanted)
                                           /\ Near(Wanted[j], yielded[n].message)
  <2>1. InputsOK /\ n \in 1..Len(Wanted) /\ yielded[n] = InContext(n)
    BY <1>1, WindowMadeOf
  <2>2. yielded[n].message = Wanted[n]
    BY <2>1 DEF InContext
  <2>3. IndexIn(Wanted, Wanted[n]) = n
    BY <2>1, WantedOnce DEF IndexIn
  <2>4. \A j \in 1..Len(Wanted) : Near(Wanted[j], Wanted[n]) <=> Neighbour(n, j)
    BY <2>1, BesideInRange
  <2>5. \A j : Neighbour(n, j) => j \in 1..Len(Wanted)
    BY DEF Neighbour, InRange
  <2>6. /\ InContext(n).next = IF Neighbour(n, n - 1) THEN Wanted[n - 1] ELSE None
        /\ InContext(n).previous = Beside(n, n + 2) \o Beside(n, n + 1)
    BY DEF InContext
  <2>7. QED
    BY <2>1, <2>2, <2>3, <2>4, <2>5, <2>6
<1>2. WindowInv => ContextIsNeighbourhood
  BY <1>1 DEF ContextIsNeighbourhood, Beside
<1>3. QED
  BY WindowInvariant, <1>2, PTL

-----------------------------------------------------------------------------
(* The refinement: what has been delivered is the first of the range.      *)
Delivered == [n \in 1..Len(yielded) |-> yielded[n].message]

Outcome == IF pc \in {"done", "failed"} THEN pc ELSE "open"

FirstDelivered ==
  /\ Delivered \in Seq(Nat) /\ Len(Delivered) = Len(yielded)
  /\ Len(yielded) \in Nat /\ Len(Wanted) \in Nat /\ Len(yielded) <= Len(Wanted)
  /\ \A n \in 1..Len(yielded) : Delivered[n] = Wanted[n]
  /\ Wanted \in Seq(Nat)

AllDelivered == pc = "done" => Delivered = Wanted

LEMMA DeliveredIs ==
  ASSUME WindowInv
  PROVE  FirstDelivered
<1>1. /\ InputsOK /\ Len(Wanted) \in Nat /\ Len(yielded) \in Nat /\ Len(yielded) <= Len(Wanted)
      /\ \A n \in 1..Len(yielded) : n \in 1..Len(Wanted) /\ yielded[n] = InContext(n)
  BY WindowMadeOf
<1>2. Wanted \in Seq(Nat) /\ \A n \in 1..Len(Wanted) : Wanted[n] \in Nat
  <2>1. \A n \in 1..Len(Wanted) : Wanted[n] \in Nat
    BY <1>1, WantedIs, HistoryTyped
  <2>2. Wanted \in Seq(Position)
    BY <1>1, WantedIs
  <2>3. QED
    BY <2>1, <2>2
<1>3. \A n \in 1..Len(yielded) : yielded[n].message = Wanted[n]
  BY <1>1, ContextTyped
<1>4. Delivered \in Seq(Nat) /\ Len(Delivered) = Len(yielded)
  BY <1>1, <1>2, <1>3 DEF Delivered
<1>5. \A n \in 1..Len(yielded) : Delivered[n] = Wanted[n]
  BY <1>3 DEF Delivered
<1>6. QED
  BY <1>1, <1>2, <1>4, <1>5 DEF FirstDelivered

(* A yield delivers the next message of the range. *)
LEMMA YieldDelivers ==
  ASSUME WindowInv, FirstDelivered', UNCHANGED inputs, NEW g, yielded' = Append(yielded, g)
  PROVE  /\ Len(Delivered) < Len(Wanted)
         /\ Delivered' = Append(Delivered, Wanted[Len(Delivered) + 1])
<1>1. Wanted' = Wanted
  BY InputsKept
<1>2. /\ Delivered \in Seq(Nat) /\ Len(Delivered) = Len(yielded) /\ Len(yielded) \in Nat
      /\ Len(Wanted) \in Nat
      /\ \A n \in 1..Len(yielded) : Delivered[n] = Wanted[n]
  BY DeliveredIs DEF FirstDelivered
<1>3. /\ Delivered' \in Seq(Nat) /\ Len(Delivered') = Len(yielded') /\ Len(yielded') <= Len(Wanted)
      /\ \A n \in 1..Len(yielded') : Delivered'[n] = Wanted[n]
      /\ \A n \in 1..Len(Wanted) : Wanted[n] \in Nat
  <2>1. /\ Delivered' \in Seq(Nat) /\ Len(Delivered') = Len(yielded') /\ Len(yielded') <= Len(Wanted')
        /\ \A n \in 1..Len(yielded') : Delivered'[n] = Wanted'[n]
        /\ Wanted' \in Seq(Nat)
    BY DEF FirstDelivered
  <2>2. QED
    BY <1>1, <2>1
<1>4. Len(yielded') = Len(yielded) + 1
  <2>1. yielded \in Seq(Contexts)
    BY WindowMadeOf
  <2>2. Len(Append(yielded, g)) = Len(yielded) + 1
    <3>1. yielded \in Seq(Contexts \union {g})
      <4> HIDE DEF Contexts
      <4>1. QED
        BY <2>1
    <3>2. g \in Contexts \union {g}
      OBVIOUS
    <3> HIDE DEF Contexts
    <3>3. QED
      BY <3>1, <3>2, AppendProperties
  <2>3. QED
    BY <2>2
<1>5. PICK y \in Nat : y = Len(yielded)
  BY <1>2
<1>6. PICK w \in Nat : w = Wanted[y + 1]
  BY <1>2, <1>3, <1>4, <1>5
<1>7. /\ Append(Delivered, w) \in Seq(Nat) /\ Len(Append(Delivered, w)) = y + 1
      /\ \A n \in 1..y : Append(Delivered, w)[n] = Delivered[n]
      /\ Append(Delivered, w)[y + 1] = w
  BY <1>2, <1>5
<1>8. \A n \in 1..(y + 1) : Append(Delivered, w)[n] = Delivered'[n]
  <2>1. ASSUME NEW n \in 1..(y + 1)
        PROVE  Append(Delivered, w)[n] = Delivered'[n]
    <3>1. Delivered'[n] = Wanted[n]
      BY <1>3, <1>4, <1>5
    <3>2. n \in 1..y \/ n = y + 1
      OBVIOUS
    <3>3. QED
      BY <1>2, <1>5, <1>6, <1>7, <3>1, <3>2
  <2>2. QED
    BY <2>1
<1>9. Delivered' = Append(Delivered, w)
  <2>1. Len(Delivered') = y + 1 /\ Delivered' \in Seq(Nat)
    BY <1>3, <1>4, <1>5
  <2> DEFINE s == Delivered'
             r == Append(Delivered, w)
  <2>2. s \in Seq(Nat) /\ r \in Seq(Nat) /\ Len(s) = Len(r) /\ \A n \in 1..Len(s) : s[n] = r[n]
    BY <1>7, <1>8, <2>1
  <2> HIDE DEF s, r
  <2>3. s = r
    BY <2>2, SeqEqual
  <2>4. QED
    BY <2>3 DEF s, r
<1>10. QED
  BY <1>2, <1>3, <1>4, <1>5, <1>6, <1>9

(* When everything held back is flushed, everything has been delivered. *)
LEMMA DoneDelivered ==
  ASSUME WindowInv
  PROVE  AllDelivered
<1> SUFFICES ASSUME pc = "done"
             PROVE  Delivered = Wanted
  BY DEF AllDelivered
<1>1. /\ Delivered \in Seq(Nat) /\ Len(Delivered) = Len(yielded) /\ Wanted \in Seq(Nat)
      /\ Len(Wanted) \in Nat
      /\ \A n \in 1..Len(yielded) : Delivered[n] = Wanted[n]
  BY DeliveredIs DEF FirstDelivered
<1>2. PICK p \in Nat : p = Len(Wanted)
  BY <1>1
<1>3. PICK f : f = Len(window)
  OBVIOUS
<1>4. PICK q, e, y : /\ q = AtMost(3, p) /\ e = Less(p, 2)
                     /\ y = IF p - q + f < e THEN e ELSE p - q + f
  OBVIOUS
<1>5. Holds(p, q, e, y)
  BY <1>2, <1>3, <1>4 DEF WindowInv, WindowParts, Flushing
<1>6. f = q /\ Len(yielded) = y
  BY <1>3, <1>5 DEF Holds, WindowIs, YieldedAre
<1>7. y = p
  <2>1. q \in Nat /\ e \in Nat /\ e <= p
    BY <1>4 DEF AtMost, Less
  <2>2. p - q + q = p
    BY <2>1
  <2>3. QED
    BY <1>4, <1>6, <2>1, <2>2
<1>8. QED
  BY <1>1, <1>2, <1>6, <1>7, SeqEqual

(* The generator is a stream of the messages of the range. *)
THEOREM RefinesStreamHolds == Spec => RefinesStream
<1>1. Init => Stream!Init
  <2> SUFFICES ASSUME Init
               PROVE  Stream!Init
    OBVIOUS
  <2>1. WindowInv /\ Wanted \in Seq(Nat)
    BY WindowInit, DeliveredIs DEF FirstDelivered
  <2>2. Delivered = <<>>
    BY DEF Init, Delivered
  <2>3. QED
    BY <2>1, <2>2 DEF Init, Stream!Init, Delivered
<1>2. ASSUME WindowInv, FirstDelivered', AllDelivered', [Next]_vars
      PROVE  [Stream!Next]_<<Wanted, Delivered, Outcome>>
  <2>1. UNCHANGED inputs /\ Wanted' = Wanted
    <3>1. UNCHANGED inputs
      BY <1>2 DEF Next, ReadSkip, ReadPush, ReadEnd, Offer, Flush, Finish, Fail, vars, inputs
    <3>2. QED
      BY <3>1, InputsKept
  <2>2. ASSUME UNCHANGED yielded, Outcome' = Outcome
        PROVE  UNCHANGED <<Wanted, Delivered, Outcome>>
    BY <2>1, <2>2 DEF Delivered
  <2>3. ASSUME NEW g, yielded' = Append(yielded, g), Outcome = "open", Outcome' = "open"
        PROVE  Stream!Next
    <3>1. Len(Delivered) < Len(Wanted) /\ Delivered' = Append(Delivered, Wanted[Len(Delivered) + 1])
      BY <1>2, <2>1, <2>3, YieldDelivers
    <3>2. Stream!Deliver
      BY <2>1, <2>3, <3>1 DEF Stream!Deliver, Delivered, Outcome
    <3>3. QED
      BY <3>2 DEF Stream!Next
  <2>4. CASE ReadSkip \/ ReadPush \/ ReadEnd \/ UNCHANGED vars
    BY <2>2, <2>4 DEF ReadSkip, ReadPush, ReadEnd, vars, Outcome
  <2>5. CASE Offer
    <3>1. Outcome = "open" /\ Outcome' = "open"
      BY <2>5 DEF Offer, Outcome
    <3>2. yielded' = yielded \/ \E g : yielded' = Append(yielded, g)
      BY <2>5 DEF Offer
    <3>3. QED
      BY <2>2, <2>3, <3>1, <3>2
  <2>6. CASE Flush
    <3>1. Outcome = "open" /\ Outcome' = "open"
      BY <2>6 DEF Flush, Outcome
    <3>2. yielded' = yielded \/ \E g : yielded' = Append(yielded, g)
      BY <2>6 DEF Flush
    <3>3. QED
      BY <2>2, <2>3, <3>1, <3>2
  <2>7. CASE Finish
    <3>1. Delivered' = Wanted' /\ Delivered' = Delivered /\ pc' = "done"
      BY <1>2, <2>7 DEF AllDelivered, Finish, Delivered
    <3>2. Outcome = "open" /\ Outcome' = "done"
      BY <2>7 DEF Finish, Outcome
    <3>3. Stream!Finish
      BY <2>1, <3>1, <3>2 DEF Stream!Finish, Delivered, Outcome
    <3>4. QED
      BY <3>3 DEF Stream!Next
  <2>8. CASE Fail
    <3>1. Outcome = "open" /\ Outcome' = "failed" /\ Delivered' = Delivered
      BY <2>8 DEF Fail, Outcome, Delivered
    <3>2. Stream!Fail
      BY <2>1, <3>1 DEF Stream!Fail, Delivered, Outcome
    <3>3. QED
      BY <3>2 DEF Stream!Next
  <2>9. QED
    BY <1>2, <2>4, <2>5, <2>6, <2>7, <2>8 DEF Next
<1>3. WindowInv /\ FirstDelivered' /\ AllDelivered' /\ [Next]_vars
        => [Stream!Next]_<<Wanted, [n \in 1..Len(yielded) |-> yielded[n].message],
                           IF pc \in {"done", "failed"} THEN pc ELSE "open">>
  BY <1>2 DEF Delivered, Outcome
<1>4. WindowInv => FirstDelivered /\ AllDelivered
  BY DeliveredIs, DoneDelivered
<1>5. QED
  BY <1>1, <1>3, <1>4, WindowInvariant, PTL DEF Spec, RefinesStream, Stream!Spec
=============================================================================
