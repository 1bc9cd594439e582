---------------------------- MODULE SpanDiff_proofs ----------------------------
(***************************************************************************)
(* What is proved of the line diffs and of the version pages, for texts of *)
(* any lines and length: the claims of a change quote exactly what         *)
(* changed, the history page shows both of its texts, and its links lead   *)
(* to a version and the one before it.                                     *)
(***************************************************************************)
EXTENDS SpanDiff, VersionHistory, WellFoundedInduction, FiniteSetTheorems, SequenceTheorems, TLAPS

-----------------------------------------------------------------------------
(* Induction, over a set of numbers.                                       *)

LEMMA LeastNumber ==
  ASSUME NEW S \in SUBSET Nat, S # {}
  PROVE  \E least \in S : \A n \in S : least <= n
<1>1. PICK Less : Less = {pair \in Nat \X Nat : pair[1] < pair[2]}
  OBVIOUS
<1>2. OpToRel(<, Nat) = Less
  BY <1>1 DEF OpToRel
<1>3. IsWellFoundedOn(Less, Nat)
  BY <1>2, NatLessThanWellFounded, Zenon
<1>4. \E least \in S : \A n \in S : ~(<<n, least>> \in Less)
  BY <1>3, WFMin, Zenon
<1>5. \A m, n \in Nat : m < n => <<m, n>> \in Less
  BY <1>1
<1>6. PICK least \in S : \A n \in S : ~(<<n, least>> \in Less)
  BY <1>4
<1>7. \A n \in S : ~(n < least)
  BY <1>5, <1>6
<1>8. QED
  BY <1>7

LEMMA NumberInduction ==
  ASSUME NEW S \in SUBSET Nat, 0 \in S, \A n \in S : n + 1 \in S
  PROVE  S = Nat
<1> SUFFICES ASSUME Nat \ S # {} PROVE FALSE
  OBVIOUS
<1>1. PICK least \in Nat \ S : \A n \in Nat \ S : least <= n
  BY LeastNumber
<1>2. least - 1 \in S
  BY <1>1
<1>3. QED
  BY <1>1, <1>2

-----------------------------------------------------------------------------
(* Offsets.                                                                *)

LEMMA TextsAreSequences ==
  ASSUME NEW text \in Texts
  PROVE  /\ text \in Seq(Lines) /\ Len(text) \in 1 .. MaxLines /\ DOMAIN text = 1 .. Len(text)
         /\ text \in [1 .. Len(text) -> Lines] /\ Len(text) \in Nat
<1>1. PICK n \in 1 .. MaxLines : text \in [1 .. n -> Lines]
  BY DEF Texts
<1>2. n \in Nat
  BY SpanAssumption
<1>3. text \in Seq(Lines) /\ Len(text) = n
  BY <1>1, <1>2
<1>4. QED
  BY <1>1, <1>2, <1>3

\* The starts of the first lines, as StartOf defines them.
IsStart(start, text, n) ==
  start = [i \in 1 .. n |-> IF i = 1 THEN 0 ELSE start[i - 1] + WidthOf[text[i - 1]] + 1]

LEMMA StartExists ==
  ASSUME NEW text
  PROVE  \A n \in Nat : \E start : IsStart(start, text, n)
<1> DEFINE S == {n \in Nat : \E start : IsStart(start, text, n)}
<1>1. 0 \in S
  <2>1. PICK start : start = [i \in 1 .. 0 |-> 0]
    OBVIOUS
  <2>2. IsStart(start, text, 0)
    BY <2>1 DEF IsStart
  <2>3. QED
    BY <2>2
<1>2. ASSUME NEW n \in S PROVE n + 1 \in S
  <2>1. PICK start : IsStart(start, text, n)
    OBVIOUS
  <2>2. PICK more : more = [i \in 1 .. n + 1 |-> IF i = 1 THEN 0
                                                 ELSE start[i - 1] + WidthOf[text[i - 1]] + 1]
    OBVIOUS
  <2>3. \A i \in 1 .. n : more[i] = start[i]
    BY <2>1, <2>2 DEF IsStart
  <2>4. \A i \in 1 .. n + 1 : i = 1 \/ i - 1 \in 1 .. n
    OBVIOUS
  <2>5. more = [i \in 1 .. n + 1 |-> IF i = 1 THEN 0
                                     ELSE more[i - 1] + WidthOf[text[i - 1]] + 1]
    BY <2>2, <2>3, <2>4
  <2>6. IsStart(more, text, n + 1)
    BY <2>5 DEF IsStart
  <2>7. QED
    BY <2>6
<1>3. S \subseteq Nat
  OBVIOUS
<1> HIDE DEF S
<1>4. S = Nat
  BY <1>1, <1>2, <1>3, NumberInduction
<1>5. QED
  BY <1>4 DEF S

\* The first line starts at 0, and each other one a line break after the one before it.
LEMMA StartsFollow ==
  ASSUME NEW text \in Texts
  PROVE  /\ StartOf(text)[1] = 0
         /\ \A i \in 2 .. Len(text) :
              StartOf(text)[i] = StartOf(text)[i - 1] + WidthOf[text[i - 1]] + 1
<1>1. Len(text) \in Nat /\ Len(text) \in 1 .. MaxLines
  BY TextsAreSequences
<1>2. StartOf(text) = CHOOSE start : IsStart(start, text, Len(text))
  BY DEF StartOf, IsStart
<1>3. IsStart(StartOf(text), text, Len(text))
  BY <1>1, <1>2, StartExists
<1>4. PICK start : start = StartOf(text)
  OBVIOUS
<1>5. start = [i \in 1 .. Len(text) |-> IF i = 1 THEN 0
                                        ELSE start[i - 1] + WidthOf[text[i - 1]] + 1]
  BY <1>3, <1>4 DEF IsStart
<1>6. 1 \in 1 .. Len(text) /\ \A i \in 2 .. Len(text) : i \in 1 .. Len(text) /\ i # 1
  BY <1>1
<1>7. QED
  BY <1>4, <1>5, <1>6

LEMMA StartsTyped ==
  ASSUME NEW text \in Texts
  PROVE  /\ \A i \in 1 .. Len(text) : WidthOf[text[i]] \in Nat
         /\ \A i \in 1 .. Len(text) : StartOf(text)[i] \in Nat /\ EndOf(text, i) \in Nat
<1>1. Len(text) \in Nat /\ text \in [1 .. Len(text) -> Lines]
  BY TextsAreSequences
<1>2. \A i \in 1 .. Len(text) : WidthOf[text[i]] \in Nat
  BY <1>1, SpanAssumption
<1> DEFINE S == {n \in Nat : n + 1 \in 1 .. Len(text) => StartOf(text)[n + 1] \in Nat}
<1>3. 0 \in S
  BY StartsFollow
<1>4. ASSUME NEW n \in S PROVE n + 1 \in S
  <2>1. SUFFICES ASSUME n + 2 \in 1 .. Len(text) PROVE StartOf(text)[n + 2] \in Nat
    OBVIOUS
  <2>2. n + 2 \in 2 .. Len(text) /\ n + 1 \in 1 .. Len(text) /\ (n + 2) - 1 = n + 1
    BY <1>1, <2>1
  <2>3. StartOf(text)[n + 2] = StartOf(text)[n + 1] + WidthOf[text[n + 1]] + 1
    BY <2>2, StartsFollow
  <2>4. StartOf(text)[n + 1] \in Nat /\ WidthOf[text[n + 1]] \in Nat
    BY <1>2, <2>2
  <2>5. QED
    BY <2>3, <2>4
<1>5. S = Nat
  <2>1. S \subseteq Nat
    OBVIOUS
  <2> HIDE DEF S
  <2>2. QED
    BY <1>3, <1>4, <2>1, NumberInduction
<1>6. ASSUME NEW i \in 1 .. Len(text) PROVE StartOf(text)[i] \in Nat
  <2>1. i - 1 \in Nat /\ (i - 1) + 1 = i
    BY <1>1
  <2>2. i - 1 \in S
    BY <1>5, <2>1
  <2>3. QED
    BY <2>1, <2>2
<1>7. QED
  BY <1>2, <1>6 DEF EndOf

LEMMA LineEnds ==
  ASSUME NEW text \in Texts, NEW i \in 1 .. Len(text)
  PROVE  StartOf(text)[i] <= EndOf(text, i)
BY StartsTyped DEF EndOf

\* A line ends before a later one starts, by a line break at least.
LEMMA StartsGrow ==
  ASSUME NEW text \in Texts, NEW i \in 1 .. Len(text), NEW j \in 1 .. Len(text), i < j
  PROVE  EndOf(text, i) + 1 <= StartOf(text)[j]
<1>1. Len(text) \in Nat
  BY TextsAreSequences
<1> DEFINE S == {n \in Nat : i + n + 1 \in 1 .. Len(text) =>
                               EndOf(text, i) + 1 <= StartOf(text)[i + n + 1]}
<1>2. \A k \in 1 .. Len(text) : /\ StartOf(text)[k] \in Nat /\ EndOf(text, k) \in Nat
                                /\ WidthOf[text[k]] \in Nat
                                /\ EndOf(text, k) = StartOf(text)[k] + WidthOf[text[k]]
  BY StartsTyped DEF EndOf
<1>3. ASSUME NEW k \in 1 .. Len(text), k + 1 \in 1 .. Len(text)
      PROVE  StartOf(text)[k + 1] = EndOf(text, k) + 1
  <2>1. k + 1 \in 2 .. Len(text) /\ (k + 1) - 1 = k
    BY <1>1, <1>3
  <2>2. StartOf(text)[k + 1] = StartOf(text)[k] + WidthOf[text[k]] + 1
    BY <2>1, StartsFollow
  <2>3. QED
    BY <1>2, <2>2
<1>4. 0 \in S
  <2>1. SUFFICES ASSUME i + 1 \in 1 .. Len(text) PROVE EndOf(text, i) + 1 <= StartOf(text)[i + 1]
    BY <1>1
  <2>2. StartOf(text)[i + 1] = EndOf(text, i) + 1 /\ EndOf(text, i) \in Nat
    BY <1>2, <1>3, <2>1
  <2>3. QED
    BY <2>2
<1>5. ASSUME NEW n \in S PROVE n + 1 \in S
  <2>1. SUFFICES ASSUME i + (n + 1) + 1 \in 1 .. Len(text)
                 PROVE  EndOf(text, i) + 1 <= StartOf(text)[i + (n + 1) + 1]
    OBVIOUS
  <2>2. PICK k : k = i + n + 1
    OBVIOUS
  <2>3. k \in 1 .. Len(text) /\ k + 1 \in 1 .. Len(text) /\ i + (n + 1) + 1 = k + 1
    BY <1>1, <2>1, <2>2
  <2>4. EndOf(text, i) + 1 <= StartOf(text)[k]
    BY <2>2, <2>3
  <2>5. StartOf(text)[k + 1] = EndOf(text, k) + 1
    BY <1>3, <2>3
  <2>6. EndOf(text, i) + 1 <= StartOf(text)[k + 1]
    <3>1. /\ EndOf(text, i) \in Nat /\ StartOf(text)[k] \in Nat /\ EndOf(text, k) \in Nat
          /\ StartOf(text)[k] <= EndOf(text, k)
      BY <2>3, StartsTyped, LineEnds
    <3>2. QED
      BY <2>4, <2>5, <3>1
  <2>7. QED
    BY <2>3, <2>6
<1>6. S = Nat
  <2>1. S \subseteq Nat
    OBVIOUS
  <2> HIDE DEF S
  <2>2. QED
    BY <1>4, <1>5, <2>1, NumberInduction
<1>7. j - i - 1 \in Nat /\ i + (j - i - 1) + 1 = j
  BY <1>1
<1>8. j - i - 1 \in S
  BY <1>6, <1>7
<1>9. QED
  BY <1>7, <1>8

\* Lines are told apart by where they start, and by where they end.
LEMMA OffsetsOrder ==
  ASSUME NEW text \in Texts, NEW i \in 1 .. Len(text), NEW j \in 1 .. Len(text)
  PROVE  /\ StartOf(text)[i] <= StartOf(text)[j] <=> i <= j
         /\ EndOf(text, i) <= EndOf(text, j) <=> i <= j
         /\ StartOf(text)[i] = StartOf(text)[j] <=> i = j
         /\ EndOf(text, i) = EndOf(text, j) <=> i = j
<1>1. /\ StartOf(text)[i] \in Nat /\ EndOf(text, i) \in Nat
      /\ StartOf(text)[j] \in Nat /\ EndOf(text, j) \in Nat
      /\ StartOf(text)[i] <= EndOf(text, i) /\ StartOf(text)[j] <= EndOf(text, j)
  BY StartsTyped, LineEnds
<1>2. i < j => EndOf(text, i) + 1 <= StartOf(text)[j]
  BY StartsGrow
<1>3. j < i => EndOf(text, j) + 1 <= StartOf(text)[i]
  BY StartsGrow
<1>4. i \in Int /\ j \in Int
  OBVIOUS
<1>5. QED
  BY <1>1, <1>2, <1>3, <1>4

-----------------------------------------------------------------------------
(* The table of longest common subsequences.                               *)

\* How much of the two texts is left at a place.
Left(old, new, at) == (Len(old) + 1 - at[1]) + (Len(new) + 1 - at[2])

Ahead(old, new, at) == {to \in Places(old, new) : Left(old, new, to) < Left(old, new, at)}

AtEnd(old, new, at) == at[1] > Len(old) \/ at[2] > Len(new)

LEMMA PlacesAhead ==
  ASSUME NEW old \in Seq(Lines), NEW new \in Seq(Lines), NEW at \in Places(old, new)
  PROVE  /\ at = <<at[1], at[2]>>
         /\ at[1] \in 1 .. Len(old) + 1 /\ at[2] \in 1 .. Len(new) + 1
         /\ Left(old, new, at) \in Nat
         /\ at[1] <= Len(old) => <<at[1] + 1, at[2]>> \in Ahead(old, new, at)
         /\ at[2] <= Len(new) => <<at[1], at[2] + 1>> \in Ahead(old, new, at)
         /\ at[1] <= Len(old) /\ at[2] <= Len(new) =>
              <<at[1] + 1, at[2] + 1>> \in Ahead(old, new, at)
<1>1. Len(old) \in Nat /\ Len(new) \in Nat
  OBVIOUS
<1>2. PICK i \in 1 .. Len(old) + 1, j \in 1 .. Len(new) + 1 : at = <<i, j>>
  BY DEF Places
<1>3. at[1] = i /\ at[2] = j
  BY <1>2
<1>4. \A k \in 1 .. Len(old) + 1, l \in 1 .. Len(new) + 1 :
        /\ <<k, l>> \in Places(old, new)
        /\ Left(old, new, <<k, l>>) = (Len(old) + 1 - k) + (Len(new) + 1 - l)
        /\ Left(old, new, <<k, l>>) \in Nat
  BY <1>1 DEF Places, Left
<1>5. i <= Len(old) => i + 1 \in 1 .. Len(old) + 1
  BY <1>1
<1>6. j <= Len(new) => j + 1 \in 1 .. Len(new) + 1
  BY <1>1
<1>7. ASSUME NEW k \in 1 .. Len(old) + 1, NEW l \in 1 .. Len(new) + 1, k + l > i + j
      PROVE  <<k, l>> \in Ahead(old, new, at)
  <2>1. Left(old, new, at) = (Len(old) + 1 - i) + (Len(new) + 1 - j)
    BY <1>2, <1>4
  <2>2. Left(old, new, <<k, l>>) = (Len(old) + 1 - k) + (Len(new) + 1 - l)
    BY <1>4
  <2>3. Left(old, new, <<k, l>>) < Left(old, new, at)
    BY <1>1, <1>7, <2>1, <2>2
  <2>4. <<k, l>> \in Places(old, new)
    BY <1>4
  <2>5. QED
    BY <2>3, <2>4 DEF Ahead
<1>8. i <= Len(old) => <<i + 1, j>> \in Ahead(old, new, at)
  BY <1>5, <1>7
<1>9. j <= Len(new) => <<i, j + 1>> \in Ahead(old, new, at)
  BY <1>6, <1>7
<1>10. i <= Len(old) /\ j <= Len(new) => <<i + 1, j + 1>> \in Ahead(old, new, at)
  BY <1>5, <1>6, <1>7
<1>11. QED
  BY <1>2, <1>3, <1>4, <1>8, <1>9, <1>10

LEMMA NextPlaces ==
  ASSUME NEW old \in Seq(Lines), NEW new \in Seq(Lines), NEW at \in Places(old, new),
         ~AtEnd(old, new, at)
  PROVE  /\ at[1] \in 1 .. Len(old) /\ at[2] \in 1 .. Len(new)
         /\ <<at[1] + 1, at[2]>> \in Ahead(old, new, at)
         /\ <<at[1], at[2] + 1>> \in Ahead(old, new, at)
         /\ <<at[1] + 1, at[2] + 1>> \in Ahead(old, new, at)
<1>1. Len(old) \in Nat /\ Len(new) \in Nat
  OBVIOUS
<1>2. at[1] \in 1 .. Len(old) + 1 /\ at[2] \in 1 .. Len(new) + 1
  BY PlacesAhead
<1>3. at[1] \in 1 .. Len(old) /\ at[2] \in 1 .. Len(new)
  BY <1>1, <1>2 DEF AtEnd
<1>4. QED
  BY <1>1, <1>3, PlacesAhead, SMTT(30)

LEMMA PlacesInReach ==
  ASSUME NEW old \in Seq(Lines), NEW new \in Seq(Lines), NEW at \in Places(old, new)
  PROVE  Left(old, new, at) <= Len(old) + Len(new)
<1>1. Len(old) \in Nat /\ Len(new) \in Nat
  OBVIOUS
<1>2. at[1] \in 1 .. Len(old) + 1 /\ at[2] \in 1 .. Len(new) + 1
  BY PlacesAhead
<1>3. QED
  BY <1>1, <1>2 DEF Left

\* An entry of the table, from the entries ahead of it.
LcsAt(lcs, old, new, at) ==
  LET i == at[1]
      j == at[2]
  IN IF i > Len(old) \/ j > Len(new) THEN 0
     ELSE IF old[i] = new[j] THEN lcs[<<i + 1, j + 1>>] + 1
     ELSE IF lcs[<<i + 1, j>>] >= lcs[<<i, j + 1>>] THEN lcs[<<i + 1, j>>] ELSE lcs[<<i, j + 1>>]

IsTable(lcs, old, new) == lcs = [at \in Places(old, new) |-> LcsAt(lcs, old, new, at)]

LEMMA LcsLooksAhead ==
  ASSUME NEW old \in Seq(Lines), NEW new \in Seq(Lines), NEW at \in Places(old, new),
         NEW f, NEW g, \A to \in Ahead(old, new, at) : f[to] = g[to]
  PROVE  LcsAt(f, old, new, at) = LcsAt(g, old, new, at)
<1>1. CASE AtEnd(old, new, at)
  BY <1>1 DEF AtEnd, LcsAt
<1>2. CASE ~AtEnd(old, new, at)
  <2>1. /\ f[<<at[1] + 1, at[2]>>] = g[<<at[1] + 1, at[2]>>]
        /\ f[<<at[1], at[2] + 1>>] = g[<<at[1], at[2] + 1>>]
        /\ f[<<at[1] + 1, at[2] + 1>>] = g[<<at[1] + 1, at[2] + 1>>]
    BY <1>2, NextPlaces
  <2>2. QED
    BY <2>1 DEF LcsAt
<1>3. QED
  BY <1>1, <1>2

\* What holds at a place when it holds everywhere ahead of it holds everywhere.
LEMMA PlaceInduction ==
  ASSUME NEW old \in Seq(Lines), NEW new \in Seq(Lines), NEW S \in SUBSET Places(old, new),
         \A at \in Places(old, new) : Ahead(old, new, at) \subseteq S => at \in S
  PROVE  S = Places(old, new)
<1> DEFINE N == {Left(old, new, at) : at \in Places(old, new) \ S}
<1>1. \A at \in Places(old, new) : Left(old, new, at) \in Nat
  BY PlacesAhead
<1> SUFFICES ASSUME Places(old, new) \ S # {} PROVE FALSE
  OBVIOUS
<1>2. N \in SUBSET Nat /\ N # {}
  BY <1>1
<1>3. PICK least \in N : \A n \in N : least <= n
  <2> HIDE DEF N
  <2>1. QED
    BY <1>2, LeastNumber
<1>4. PICK at \in Places(old, new) \ S : Left(old, new, at) = least
  BY <1>3
<1>5. Ahead(old, new, at) \subseteq S
  <2>1. SUFFICES ASSUME NEW to \in Ahead(old, new, at), to \notin S PROVE FALSE
    OBVIOUS
  <2>2. to \in Places(old, new) /\ Left(old, new, to) < Left(old, new, at)
    BY DEF Ahead
  <2>3. Left(old, new, to) \in N /\ Left(old, new, to) \in Nat /\ least \in Nat
    BY <1>1, <1>2, <1>3, <2>1, <2>2
  <2>4. least <= Left(old, new, to)
    BY <1>3, <2>3
  <2>5. QED
    BY <1>4, <2>2, <2>3, <2>4
<1>6. QED
  BY <1>4, <1>5

\* step gives the value at a place, one of V, from the values ahead of it.
StepsAhead(step, V, old, new) ==
  /\ V # {}
  /\ step \in [Places(old, new) \X [Places(old, new) -> V] -> V]
  /\ \A at \in Places(old, new), f, g \in [Places(old, new) -> V] :
       (\A to \in Ahead(old, new, at) : f[to] = g[to]) => step[<<at, f>>] = step[<<at, g>>]

LEMMA RecursionExists ==
  ASSUME NEW old \in Seq(Lines), NEW new \in Seq(Lines), NEW V, NEW step,
         StepsAhead(step, V, old, new)
  PROVE  \E f \in [Places(old, new) -> V] : \A at \in Places(old, new) : f[at] = step[<<at, f>>]
<1>0. PICK P : P = Places(old, new)
  OBVIOUS
<1> PICK v \in V : TRUE
  BY DEF StepsAhead
<1>1. \A at \in P : Left(old, new, at) \in Nat
  BY <1>0, PlacesAhead
<1>2. \A at \in P, f, g \in [P -> V] :
        (\A to \in Ahead(old, new, at) : f[to] = g[to]) => step[<<at, f>>] = step[<<at, g>>]
  BY <1>0 DEF StepsAhead
<1>3. \A at \in P, f \in [P -> V] : step[<<at, f>>] \in V
  <2>1. TAKE at \in P, f \in [P -> V]
  <2>2. <<at, f>> \in Places(old, new) \X [Places(old, new) -> V]
    BY <1>0
  <2>3. QED
    BY <2>2 DEF StepsAhead
<1> DEFINE Until(f, n) == \A at \in P : Left(old, new, at) <= n => f[at] = step[<<at, f>>]
           S == {n \in Nat : \E f \in [P -> V] : Until(f, n)}
<1>4. ASSUME NEW n \in Nat, NEW f \in [P -> V],
             \A at \in P : Left(old, new, at) < n => f[at] = step[<<at, f>>]
      PROVE  \E g \in [P -> V] : Until(g, n)
  <2>1. PICK g : g = [at \in P |-> IF Left(old, new, at) < n THEN f[at] ELSE step[<<at, f>>]]
    OBVIOUS
  <2>2. g \in [P -> V]
    BY <1>3, <2>1
  <2>3. ASSUME NEW at \in P, Left(old, new, at) <= n PROVE g[at] = step[<<at, g>>]
    <3>1. \A to \in Ahead(old, new, at) : to \in P /\ Left(old, new, to) < n
      BY <1>0, <1>1, <2>3 DEF Ahead
    <3>2. \A to \in Ahead(old, new, at) : g[to] = f[to]
      BY <2>1, <3>1
    <3>3. step[<<at, g>>] = step[<<at, f>>]
      BY <1>2, <2>2, <3>2
    <3>4. QED
      BY <1>4, <2>1, <3>3
  <2>4. QED
    BY <2>2, <2>3
<1>5. 0 \in S
  <2>1. PICK f : f = [at \in P |-> v]
    OBVIOUS
  <2>2. f \in [P -> V]
    BY <2>1
  <2>3. \A at \in P : ~(Left(old, new, at) < 0)
    BY <1>1
  <2>4. \E g \in [P -> V] : Until(g, 0)
    BY <1>4, <2>2, <2>3
  <2>5. QED
    BY <2>4
<1>6. ASSUME NEW n \in S PROVE n + 1 \in S
  <2>1. PICK f \in [P -> V] : Until(f, n)
    OBVIOUS
  <2>2. n \in Nat /\ n + 1 \in Nat
    OBVIOUS
  <2>3. ASSUME NEW at \in P, Left(old, new, at) < n + 1 PROVE f[at] = step[<<at, f>>]
    <3>1. Left(old, new, at) <= n
      BY <1>1, <2>2, <2>3
    <3>2. QED
      BY <2>1, <3>1
  <2>4. \E g \in [P -> V] : Until(g, n + 1)
    BY <1>4, <2>2, <2>3
  <2>5. QED
    BY <2>2, <2>4
<1>7. S = Nat
  <2>1. S \subseteq Nat
    OBVIOUS
  <2> HIDE DEF S
  <2>2. QED
    BY <1>5, <1>6, <2>1, NumberInduction
<1>8. Len(old) + Len(new) \in Nat
  OBVIOUS
<1>9. PICK f \in [P -> V] : Until(f, Len(old) + Len(new))
  <2>1. Len(old) + Len(new) \in S
    BY <1>7, <1>8
  <2>2. QED
    BY <2>1
<1>10. \A at \in P : f[at] = step[<<at, f>>]
  BY <1>0, <1>9, PlacesInReach
<1>11. QED
  BY <1>0, <1>10

LEMMA EntriesCount ==
  ASSUME NEW old, NEW new, NEW at, NEW f,
         f[<<at[1] + 1, at[2]>>] \in Nat, f[<<at[1], at[2] + 1>>] \in Nat,
         f[<<at[1] + 1, at[2] + 1>>] \in Nat
  PROVE  LcsAt(f, old, new, at) \in Nat
<1>1. f[<<at[1] + 1, at[2] + 1>>] + 1 \in Nat
  OBVIOUS
<1>2. QED
  BY <1>1 DEF LcsAt

LEMMA TableExists ==
  ASSUME NEW old \in Seq(Lines), NEW new \in Seq(Lines)
  PROVE  \E lcs : IsTable(lcs, old, new)
<1>0. PICK P : P = Places(old, new)
  OBVIOUS
<1>1. PICK step : step = [x \in P \X [P -> Nat] |-> LcsAt(x[2], old, new, x[1])]
  OBVIOUS
<1>2. \A at \in P, f \in [P -> Nat] : step[<<at, f>>] = LcsAt(f, old, new, at)
  BY <1>1
<1>3. ASSUME NEW at \in P, NEW f \in [P -> Nat] PROVE LcsAt(f, old, new, at) \in Nat
  <2>1. CASE AtEnd(old, new, at)
    BY <2>1 DEF AtEnd, LcsAt
  <2>2. CASE ~AtEnd(old, new, at)
    <3>1. \A to \in Ahead(old, new, at) : f[to] \in Nat
      BY <1>0, <1>3 DEF Ahead
    <3>2. /\ f[<<at[1] + 1, at[2]>>] \in Nat
          /\ f[<<at[1], at[2] + 1>>] \in Nat
          /\ f[<<at[1] + 1, at[2] + 1>>] \in Nat
      BY <1>0, <2>2, <3>1, NextPlaces
    <3>3. QED
      BY <3>2, EntriesCount
  <2>3. QED
    BY <2>1, <2>2
<1>4. step \in [P \X [P -> Nat] -> Nat]
  <2>1. \A x \in P \X [P -> Nat] : x[1] \in P /\ x[2] \in [P -> Nat]
    OBVIOUS
  <2>2. \A x \in P \X [P -> Nat] : LcsAt(x[2], old, new, x[1]) \in Nat
    BY <1>3, <2>1
  <2>3. QED
    BY <1>1, <2>2
<1>5. StepsAhead(step, Nat, old, new)
  <2>1. SUFFICES ASSUME NEW at \in P, NEW f \in [P -> Nat], NEW g \in [P -> Nat],
                        \A to \in Ahead(old, new, at) : f[to] = g[to]
                 PROVE  step[<<at, f>>] = step[<<at, g>>]
    BY <1>0, <1>4 DEF StepsAhead
  <2>2. LcsAt(f, old, new, at) = LcsAt(g, old, new, at)
    BY <1>0, <2>1, LcsLooksAhead
  <2>3. QED
    BY <1>2, <2>2
<1>6. PICK lcs \in [P -> Nat] : \A at \in P : lcs[at] = step[<<at, lcs>>]
  <2>1. \E f \in [Places(old, new) -> Nat] : \A at \in Places(old, new) : f[at] = step[<<at, f>>]
    BY <1>5, RecursionExists
  <2>2. QED
    BY <1>0, <2>1
<1>7. lcs = [at \in P |-> LcsAt(lcs, old, new, at)]
  BY <1>2, <1>6
<1>8. QED
  BY <1>0, <1>7 DEF IsTable

LEMMA TableUnfolds ==
  ASSUME NEW old \in Seq(Lines), NEW new \in Seq(Lines), NEW at \in Places(old, new)
  PROVE  LcsTable(old, new)[at] = LcsAt(LcsTable(old, new), old, new, at)
<1>1. LcsTable(old, new) = CHOOSE lcs : IsTable(lcs, old, new)
  BY DEF LcsTable, IsTable, LcsAt
<1>2. IsTable(LcsTable(old, new), old, new)
  BY <1>1, TableExists
<1>3. PICK lcs : lcs = LcsTable(old, new)
  OBVIOUS
<1>4. lcs = [to \in Places(old, new) |-> LcsAt(lcs, old, new, to)]
  BY <1>2, <1>3 DEF IsTable
<1>5. QED
  BY <1>3, <1>4

-----------------------------------------------------------------------------
(* The table counts, and the walk through it keeps, a longest common part. *)

\* The lines K of new can be read in old, in order, both from a place on.
Embeds(emb, K, old, new) ==
  /\ \A k \in K : old[emb[k]] = new[k]
  /\ \A k, l \in K : k < l => emb[k] < emb[l]

CommonFrom(K, old, new, at) ==
  /\ K \subseteq at[2] .. Len(new)
  /\ \E emb \in [K -> at[1] .. Len(old)] : Embeds(emb, K, old, new)

LEMMA CommonAhead ==
  ASSUME NEW old \in Seq(Lines), NEW new \in Seq(Lines), NEW at \in Places(old, new),
         NEW K, CommonFrom(K, old, new, at), ~AtEnd(old, new, at)
  PROVE  /\ old[at[1]] = new[at[2]] /\ K # {} =>
              \E k \in K : CommonFrom(K \ {k}, old, new, <<at[1] + 1, at[2] + 1>>)
         /\ old[at[1]] # new[at[2]] =>
              \/ CommonFrom(K, old, new, <<at[1] + 1, at[2]>>)
              \/ CommonFrom(K, old, new, <<at[1], at[2] + 1>>)
<1>0. PICK i, j : i = at[1] /\ j = at[2]
  OBVIOUS
<1>1. Len(old) \in Nat /\ Len(new) \in Nat /\ i \in 1 .. Len(old) /\ j \in 1 .. Len(new)
  <2>1. at[1] \in 1 .. Len(old) /\ at[2] \in 1 .. Len(new)
    BY NextPlaces
  <2>2. QED
    BY <1>0, <2>1
<1>2. K \subseteq j .. Len(new)
  BY <1>0 DEF CommonFrom
<1>3. PICK emb \in [K -> i .. Len(old)] : Embeds(emb, K, old, new)
  BY <1>0 DEF CommonFrom
<1>4. \A k \in K : k \in Nat /\ k >= j /\ k <= Len(new) /\ emb[k] \in i .. Len(old)
  BY <1>1, <1>2, <1>3
<1>5. ASSUME K # {} PROVE \E k \in K : CommonFrom(K \ {k}, old, new, <<i + 1, j + 1>>)
  <2>1. PICK k \in K : \A l \in K : k <= l
    <3>1. K \in SUBSET Nat
      BY <1>4
    <3>2. QED
      BY <1>5, <3>1, LeastNumber
  <2>2. \A l \in K \ {k} : k < l /\ l \in j + 1 .. Len(new) /\ emb[l] \in i + 1 .. Len(old)
    <3>1. TAKE l \in K \ {k}
    <3>2. k < l
      BY <1>4, <2>1
    <3>3. emb[k] < emb[l]
      BY <1>3, <3>2 DEF Embeds
    <3>4. QED
      BY <1>1, <1>4, <3>2, <3>3
  <2>3. PICK rest : rest = [l \in K \ {k} |-> emb[l]]
    OBVIOUS
  <2>4. rest \in [K \ {k} -> i + 1 .. Len(old)]
    BY <2>2, <2>3
  <2>5. Embeds(rest, K \ {k}, old, new)
    BY <1>3, <2>3 DEF Embeds
  <2>6. K \ {k} \subseteq j + 1 .. Len(new)
    BY <2>2
  <2>7. QED
    BY <2>4, <2>5, <2>6 DEF CommonFrom
<1>6. ASSUME old[i] # new[j], j \in K PROVE CommonFrom(K, old, new, <<i + 1, j>>)
  <2>1. emb[j] # i
    BY <1>3, <1>6 DEF Embeds
  <2>2. \A k \in K : emb[k] \in i + 1 .. Len(old)
    <3>1. TAKE k \in K
    <3>2. emb[j] \in i + 1 .. Len(old)
      BY <1>1, <1>4, <1>6, <2>1
    <3>3. CASE k = j
      BY <3>2, <3>3
    <3>4. CASE k # j
      <4>1. j < k
        BY <1>1, <1>4, <3>4
      <4>2. emb[j] < emb[k]
        BY <1>3, <1>6, <4>1 DEF Embeds
      <4>3. QED
        BY <1>1, <1>4, <3>2, <4>2
    <3>5. QED
      BY <3>3, <3>4
  <2>3. emb \in [K -> i + 1 .. Len(old)]
    BY <1>3, <2>2
  <2>4. QED
    BY <1>2, <1>3, <2>3 DEF CommonFrom
<1>7. ASSUME j \notin K PROVE CommonFrom(K, old, new, <<i, j + 1>>)
  <2>1. K \subseteq j + 1 .. Len(new)
    BY <1>1, <1>4, <1>7
  <2>2. QED
    BY <1>3, <2>1 DEF CommonFrom
<1>8. QED
  BY <1>0, <1>5, <1>6, <1>7

LEMMA CommonIsFinite ==
  ASSUME NEW old \in Seq(Lines), NEW new \in Seq(Lines), NEW at \in Places(old, new),
         NEW K, CommonFrom(K, old, new, at)
  PROVE  IsFiniteSet(K) /\ Cardinality(K) \in Nat
<1>1. at[2] \in Int /\ Len(new) \in Int
  <2>1. at[2] \in 1 .. Len(new) + 1
    BY PlacesAhead
  <2>2. Len(new) \in Nat
    OBVIOUS
  <2>3. QED
    BY <2>1, <2>2
<1>2. IsFiniteSet(at[2] .. Len(new))
  BY <1>1, FS_Interval
<1>3. QED
  BY <1>2, FS_Subset, FS_CardinalityType DEF CommonFrom

\* The table counts.
LEMMA TableIsNat ==
  ASSUME NEW old \in Seq(Lines), NEW new \in Seq(Lines)
  PROVE  \A at \in Places(old, new) : LcsTable(old, new)[at] \in Nat
<1> DEFINE S == {at \in Places(old, new) : LcsTable(old, new)[at] \in Nat}
<1>1. ASSUME NEW at \in Places(old, new), Ahead(old, new, at) \subseteq S PROVE at \in S
  <2>1. CASE AtEnd(old, new, at)
    <3>1. LcsAt(LcsTable(old, new), old, new, at) = 0
      BY <2>1 DEF AtEnd, LcsAt
    <3>2. QED
      BY <3>1, TableUnfolds
  <2>2. CASE ~AtEnd(old, new, at)
    <3>1. PICK lcs : lcs = LcsTable(old, new)
      OBVIOUS
    <3>2. /\ lcs[<<at[1] + 1, at[2]>>] \in Nat
          /\ lcs[<<at[1], at[2] + 1>>] \in Nat
          /\ lcs[<<at[1] + 1, at[2] + 1>>] \in Nat
      BY <1>1, <2>2, <3>1, NextPlaces
    <3>3. LcsAt(lcs, old, new, at) \in Nat
      BY <3>2, EntriesCount
    <3>4. QED
      BY <3>1, <3>3, TableUnfolds
  <2>3. QED
    BY <2>1, <2>2
<1>2. S = Places(old, new)
  <2>1. S \in SUBSET Places(old, new)
    OBVIOUS
  <2> HIDE DEF S
  <2>2. QED
    BY <1>1, <2>1, PlaceInduction
<1>3. QED
  BY <1>2

\* No common part is longer than the table says.
LEMMA TableBounds ==
  ASSUME NEW old \in Seq(Lines), NEW new \in Seq(Lines)
  PROVE  \A at \in Places(old, new) : \A K :
           CommonFrom(K, old, new, at) => Cardinality(K) <= LcsTable(old, new)[at]
<1> DEFINE Bounded(at) == \A K : CommonFrom(K, old, new, at) => Cardinality(K) <= LcsTable(old, new)[at]
           S == {at \in Places(old, new) : Bounded(at)}
<1>1. ASSUME NEW at \in Places(old, new), Ahead(old, new, at) \subseteq S,
             NEW K, CommonFrom(K, old, new, at)
      PROVE  Cardinality(K) <= LcsTable(old, new)[at]
  <2>1. PICK lcs : lcs = LcsTable(old, new)
    OBVIOUS
  <2>2. lcs[at] = LcsAt(lcs, old, new, at)
    BY <2>1, TableUnfolds
  <2>3. IsFiniteSet(K) /\ Cardinality(K) \in Nat
    BY <1>1, CommonIsFinite
  <2>4. CASE AtEnd(old, new, at)
    <3>1. K = {}
      <4>1. Len(old) \in Nat /\ Len(new) \in Nat
        OBVIOUS
      <4>2. at[1] \in 1 .. Len(old) + 1 /\ at[2] \in 1 .. Len(new) + 1
        BY PlacesAhead
      <4>3. at[1] .. Len(old) = {} \/ at[2] .. Len(new) = {}
        BY <2>4, <4>1, <4>2 DEF AtEnd
      <4>4. QED
        BY <1>1, <4>3 DEF CommonFrom
    <3>2. Cardinality(K) = 0
      BY <3>1, FS_EmptySet
    <3>3. lcs[at] = 0
      BY <2>2, <2>4 DEF AtEnd, LcsAt
    <3>4. QED
      BY <2>1, <3>2, <3>3
  <2>5. CASE ~AtEnd(old, new, at)
    <3>1. PICK down, right, both :
            /\ down = <<at[1] + 1, at[2]>> /\ right = <<at[1], at[2] + 1>>
            /\ both = <<at[1] + 1, at[2] + 1>>
      OBVIOUS
    <3>2. \A to \in {down, right, both} : to \in Ahead(old, new, at) /\ to \in Places(old, new)
      BY <2>5, <3>1, NextPlaces DEF Ahead
    <3>3. \A to \in {down, right, both} : lcs[to] \in Nat /\ Bounded(to)
      <4>1. \A to \in {down, right, both} : lcs[to] \in Nat
        BY <2>1, <3>2, TableIsNat
      <4>2. \A to \in {down, right, both} : Bounded(to)
        BY <1>1, <3>2
      <4>3. QED
        BY <4>1, <4>2
    <3>4. CASE old[at[1]] = new[at[2]]
      <4>1. lcs[at] = lcs[both] + 1
        BY <2>2, <2>5, <3>1, <3>4 DEF AtEnd, LcsAt
      <4>2. CASE K = {}
        BY <2>1, <3>3, <4>1, <4>2, FS_EmptySet
      <4>3. CASE K # {}
        <5>1. PICK k \in K : CommonFrom(K \ {k}, old, new, both)
          BY <1>1, <2>5, <3>1, <3>4, <4>3, CommonAhead
        <5>2. Cardinality(K \ {k}) = Cardinality(K) - 1
          BY <2>3, FS_RemoveElement
        <5>3. Cardinality(K \ {k}) <= lcs[both]
          BY <2>1, <3>3, <5>1
        <5>4. QED
          BY <2>1, <2>3, <3>3, <4>1, <5>2, <5>3
      <4>4. QED
        BY <4>2, <4>3
    <3>5. CASE old[at[1]] # new[at[2]]
      <4>1. lcs[at] = IF lcs[down] >= lcs[right] THEN lcs[down] ELSE lcs[right]
        BY <2>2, <2>5, <3>1, <3>5 DEF AtEnd, LcsAt
      <4>2. CommonFrom(K, old, new, down) \/ CommonFrom(K, old, new, right)
        BY <1>1, <2>5, <3>1, <3>5, CommonAhead
      <4>3. Cardinality(K) <= lcs[down] \/ Cardinality(K) <= lcs[right]
        BY <2>1, <3>3, <4>2
      <4>4. QED
        BY <2>1, <2>3, <3>3, <4>1, <4>3
    <3>6. QED
      BY <3>4, <3>5
  <2>6. QED
    BY <2>4, <2>5
<1>2. S = Places(old, new)
  <2>1. S \in SUBSET Places(old, new)
    OBVIOUS
  <2>2. \A at \in Places(old, new) : Ahead(old, new, at) \subseteq S => at \in S
    BY <1>1
  <2> HIDE DEF S
  <2>3. QED
    BY <2>1, <2>2, PlaceInduction
<1>3. QED
  BY <1>2

\* The lines kept from a place on, from those kept ahead of it.
KeepAt(keep, lcs, old, new, at) ==
  LET i == at[1]
      j == at[2]
  IN IF i > Len(old) \/ j > Len(new) THEN {}
     ELSE IF old[i] = new[j] THEN {j} \cup keep[<<i + 1, j + 1>>]
     ELSE IF lcs[<<i + 1, j>>] >= lcs[<<i, j + 1>>] THEN keep[<<i + 1, j>>] ELSE keep[<<i, j + 1>>]

IsWalk(keep, lcs, old, new) ==
  keep = [at \in Places(old, new) |-> KeepAt(keep, lcs, old, new, at)]

LEMMA KeepLooksAhead ==
  ASSUME NEW old \in Seq(Lines), NEW new \in Seq(Lines), NEW at \in Places(old, new), NEW lcs,
         NEW f, NEW g, \A to \in Ahead(old, new, at) : f[to] = g[to]
  PROVE  KeepAt(f, lcs, old, new, at) = KeepAt(g, lcs, old, new, at)
<1>1. CASE AtEnd(old, new, at)
  BY <1>1 DEF AtEnd, KeepAt
<1>2. CASE ~AtEnd(old, new, at)
  <2>1. /\ f[<<at[1] + 1, at[2]>>] = g[<<at[1] + 1, at[2]>>]
        /\ f[<<at[1], at[2] + 1>>] = g[<<at[1], at[2] + 1>>]
        /\ f[<<at[1] + 1, at[2] + 1>>] = g[<<at[1] + 1, at[2] + 1>>]
    BY <1>2, NextPlaces
  <2>2. QED
    BY <2>1 DEF KeepAt
<1>3. QED
  BY <1>1, <1>2

LEMMA KeptAreLines ==
  ASSUME NEW old, NEW new \in Seq(Lines), NEW at, NEW f, NEW lcs, at[2] \in 1 .. Len(new) + 1,
         f[<<at[1] + 1, at[2]>>] \subseteq 1 .. Len(new),
         f[<<at[1], at[2] + 1>>] \subseteq 1 .. Len(new),
         f[<<at[1] + 1, at[2] + 1>>] \subseteq 1 .. Len(new)
  PROVE  KeepAt(f, lcs, old, new, at) \subseteq 1 .. Len(new)
<1>1. Len(new) \in Nat
  OBVIOUS
<1>2. at[2] > Len(new) \/ {at[2]} \subseteq 1 .. Len(new)
  BY <1>1
<1>3. QED
  BY <1>2 DEF KeepAt

LEMMA WalkExists ==
  ASSUME NEW old \in Seq(Lines), NEW new \in Seq(Lines), NEW lcs
  PROVE  \E keep : IsWalk(keep, lcs, old, new)
<1>0. PICK P, V : P = Places(old, new) /\ V = SUBSET (1 .. Len(new))
  OBVIOUS
<1>1. PICK step : step = [x \in P \X [P -> V] |-> KeepAt(x[2], lcs, old, new, x[1])]
  OBVIOUS
<1>2. \A at \in P, f \in [P -> V] : step[<<at, f>>] = KeepAt(f, lcs, old, new, at)
  BY <1>1
<1>3. ASSUME NEW at \in P, NEW f \in [P -> V] PROVE KeepAt(f, lcs, old, new, at) \in V
  <2>1. CASE AtEnd(old, new, at)
    <3>1. KeepAt(f, lcs, old, new, at) = {}
      BY <2>1 DEF AtEnd, KeepAt
    <3>2. QED
      BY <1>0, <3>1
  <2>2. CASE ~AtEnd(old, new, at)
    <3>1. \A to \in Ahead(old, new, at) : f[to] \in V
      BY <1>0, <1>3 DEF Ahead
    <3>2. \A to \in Ahead(old, new, at) : f[to] \subseteq 1 .. Len(new)
      BY <1>0, <3>1
    <3>3. /\ f[<<at[1] + 1, at[2]>>] \subseteq 1 .. Len(new)
          /\ f[<<at[1], at[2] + 1>>] \subseteq 1 .. Len(new)
          /\ f[<<at[1] + 1, at[2] + 1>>] \subseteq 1 .. Len(new)
      BY <1>0, <2>2, <3>2, NextPlaces
    <3>4. at[2] \in 1 .. Len(new) + 1
      BY <1>0, PlacesAhead
    <3>5. KeepAt(f, lcs, old, new, at) \subseteq 1 .. Len(new)
      BY <3>3, <3>4, KeptAreLines
    <3>6. QED
      BY <1>0, <3>5
  <2>3. QED
    BY <2>1, <2>2
<1>4. step \in [P \X [P -> V] -> V]
  <2>1. \A x \in P \X [P -> V] : x[1] \in P /\ x[2] \in [P -> V]
    OBVIOUS
  <2>2. \A x \in P \X [P -> V] : KeepAt(x[2], lcs, old, new, x[1]) \in V
    BY <1>3, <2>1
  <2>3. QED
    BY <1>1, <2>2
<1>5. StepsAhead(step, V, old, new)
  <2>1. V # {}
    BY <1>0
  <2>2. ASSUME NEW at \in P, NEW f \in [P -> V], NEW g \in [P -> V],
               \A to \in Ahead(old, new, at) : f[to] = g[to]
        PROVE  step[<<at, f>>] = step[<<at, g>>]
    <3>1. KeepAt(f, lcs, old, new, at) = KeepAt(g, lcs, old, new, at)
      BY <1>0, <2>2, KeepLooksAhead
    <3>2. QED
      BY <1>2, <3>1
  <2>3. QED
    BY <1>0, <1>4, <2>1, <2>2, ZenonT(30) DEF StepsAhead
<1>6. PICK keep \in [P -> V] : \A at \in P : keep[at] = step[<<at, keep>>]
  <2>1. \E f \in [Places(old, new) -> V] : \A at \in Places(old, new) : f[at] = step[<<at, f>>]
    BY <1>5, RecursionExists
  <2>2. QED
    BY <1>0, <2>1
<1>7. keep = [at \in P |-> KeepAt(keep, lcs, old, new, at)]
  BY <1>2, <1>6
<1>8. QED
  BY <1>0, <1>7 DEF IsWalk

\* What the walk keeps is common, and as much as the table says.
LEMMA WalkKeeps ==
  ASSUME NEW old \in Seq(Lines), NEW new \in Seq(Lines), NEW keep,
         IsWalk(keep, LcsTable(old, new), old, new)
  PROVE  \A at \in Places(old, new) :
           /\ CommonFrom(keep[at], old, new, at)
           /\ Cardinality(keep[at]) = LcsTable(old, new)[at]
<1> DEFINE Kept(at) == /\ CommonFrom(keep[at], old, new, at)
                       /\ Cardinality(keep[at]) = LcsTable(old, new)[at]
           S == {at \in Places(old, new) : Kept(at)}
<1>1. ASSUME NEW at \in Places(old, new), Ahead(old, new, at) \subseteq S PROVE Kept(at)
  <2>0. Len(old) \in Nat /\ Len(new) \in Nat
    OBVIOUS
  <2>1. PICK lcs : lcs = LcsTable(old, new)
    OBVIOUS
  <2>2. lcs[at] = LcsAt(lcs, old, new, at)
    BY <2>1, TableUnfolds
  <2>3. keep[at] = KeepAt(keep, lcs, old, new, at)
    <3>1. keep = [to \in Places(old, new) |-> KeepAt(keep, lcs, old, new, to)]
      BY <2>1 DEF IsWalk
    <3>2. QED
      BY <3>1
  <2>4. CASE AtEnd(old, new, at)
    <3>1. keep[at] = {} /\ lcs[at] = 0
      BY <2>2, <2>3, <2>4 DEF AtEnd, LcsAt, KeepAt
    <3>2. CommonFrom({}, old, new, at)
      <4>1. PICK emb : emb = [k \in {} |-> 0]
        OBVIOUS
      <4>2. emb \in [{} -> at[1] .. Len(old)] /\ Embeds(emb, {}, old, new)
        BY <4>1 DEF Embeds
      <4>3. QED
        BY <4>2 DEF CommonFrom
    <3>3. QED
      BY <2>1, <3>1, <3>2, FS_EmptySet
  <2>5. CASE ~AtEnd(old, new, at)
    <3>1. PICK i, j, down, right, both :
            /\ i = at[1] /\ j = at[2]
            /\ down = <<i + 1, j>> /\ right = <<i, j + 1>> /\ both = <<i + 1, j + 1>>
      OBVIOUS
    <3>2. i \in 1 .. Len(old) /\ j \in 1 .. Len(new)
      BY <2>5, <3>1, NextPlaces
    <3>3. \A to \in {down, right, both} : to \in Ahead(old, new, at) /\ to \in Places(old, new)
      <4>1. /\ <<at[1] + 1, at[2]>> \in Ahead(old, new, at)
            /\ <<at[1], at[2] + 1>> \in Ahead(old, new, at)
            /\ <<at[1] + 1, at[2] + 1>> \in Ahead(old, new, at)
        BY <2>5, NextPlaces
      <4>2. \A to \in {down, right, both} : to \in Ahead(old, new, at)
        BY <3>1, <4>1
      <4>3. QED
        BY <4>2 DEF Ahead
    <3>4. \A to \in {down, right, both} : /\ CommonFrom(keep[to], old, new, to)
                                          /\ Cardinality(keep[to]) = lcs[to]
      BY <1>1, <2>1, <3>3
    <3>5. CASE old[i] = new[j]
      <4>1. keep[at] = {j} \cup keep[both] /\ lcs[at] = lcs[both] + 1
        BY <2>2, <2>3, <2>5, <3>1, <3>5 DEF AtEnd, LcsAt, KeepAt
      <4>2. keep[both] \subseteq j + 1 .. Len(new)
        BY <3>1, <3>4 DEF CommonFrom
      <4>3. PICK emb \in [keep[both] -> i + 1 .. Len(old)] : Embeds(emb, keep[both], old, new)
        BY <3>1, <3>4 DEF CommonFrom
      <4>4. Cardinality(keep[at]) = lcs[at]
        <5>1. IsFiniteSet(keep[both]) /\ j \notin keep[both]
          BY <3>2, <3>3, <3>4, <4>2, CommonIsFinite
        <5>2. Cardinality(keep[both] \cup {j}) = Cardinality(keep[both]) + 1
          BY <5>1, FS_AddElement
        <5>3. keep[both] \cup {j} = keep[at]
          BY <4>1
        <5>4. QED
          BY <3>4, <4>1, <5>2, <5>3
      <4>5. PICK more : more = [k \in keep[at] |-> IF k = j THEN i ELSE emb[k]]
        OBVIOUS
      <4>6. \A k \in keep[at] : k = j \/ (k \in keep[both] /\ k > j /\ emb[k] \in i + 1 .. Len(old))
        BY <3>2, <4>1, <4>2, <4>3
      <4>7. more \in [keep[at] -> i .. Len(old)]
        BY <2>0, <3>2, <4>5, <4>6
      <4>8. Embeds(more, keep[at], old, new)
        <5>1. ASSUME NEW k \in keep[at] PROVE old[more[k]] = new[k]
          BY <3>5, <4>3, <4>5, <4>6 DEF Embeds
        <5>2. ASSUME NEW k \in keep[at], NEW l \in keep[at], k < l PROVE more[k] < more[l]
          <6>1. l # j
            BY <3>2, <4>2, <4>6, <5>2, SMTT(30)
          <6>2. l \in keep[both] /\ more[l] = emb[l] /\ emb[l] \in i + 1 .. Len(old)
            BY <4>5, <4>6, <6>1
          <6>3. CASE k = j
            BY <3>2, <4>5, <6>2, <6>3
          <6>4. CASE k # j
            BY <4>3, <4>5, <4>6, <5>2, <6>2, <6>4 DEF Embeds
          <6>5. QED
            BY <6>3, <6>4
        <5>3. QED
          BY <5>1, <5>2 DEF Embeds
      <4>9. keep[at] \subseteq j .. Len(new)
        BY <2>0, <3>2, <4>1, <4>2
      <4>10. QED
        BY <2>1, <3>1, <4>4, <4>7, <4>8, <4>9 DEF CommonFrom
    <3>6. CASE old[i] # new[j]
      <4>1. \/ keep[at] = keep[down] /\ lcs[at] = lcs[down]
            \/ keep[at] = keep[right] /\ lcs[at] = lcs[right]
        BY <2>2, <2>3, <2>5, <3>1, <3>6 DEF AtEnd, LcsAt, KeepAt
      <4>2. Cardinality(keep[at]) = lcs[at]
        BY <3>4, <4>1
      <4>3. ASSUME CommonFrom(keep[at], old, new, down) PROVE CommonFrom(keep[at], old, new, at)
        <5>1. PICK emb \in [keep[at] -> i + 1 .. Len(old)] : Embeds(emb, keep[at], old, new)
          BY <3>1, <4>3 DEF CommonFrom
        <5>2. emb \in [keep[at] -> i .. Len(old)]
          BY <2>0, <3>2, <5>1
        <5>3. keep[at] \subseteq j .. Len(new)
          BY <3>1, <4>3 DEF CommonFrom
        <5>4. QED
          BY <3>1, <5>1, <5>2, <5>3 DEF CommonFrom
      <4>4. ASSUME CommonFrom(keep[at], old, new, right) PROVE CommonFrom(keep[at], old, new, at)
        <5>1. PICK emb \in [keep[at] -> i .. Len(old)] : Embeds(emb, keep[at], old, new)
          BY <3>1, <4>4 DEF CommonFrom
        <5>2. keep[at] \subseteq j + 1 .. Len(new)
          BY <3>1, <4>4 DEF CommonFrom
        <5>3. keep[at] \subseteq j .. Len(new)
          BY <2>0, <3>2, <5>2
        <5>4. QED
          BY <3>1, <5>1, <5>3 DEF CommonFrom
      <4>5. QED
        BY <2>1, <3>4, <4>1, <4>2, <4>3, <4>4
    <3>7. QED
      BY <3>5, <3>6
  <2>6. QED
    BY <2>4, <2>5
<1>2. S = Places(old, new)
  <2>1. S \in SUBSET Places(old, new)
    OBVIOUS
  <2>2. \A at \in Places(old, new) : Ahead(old, new, at) \subseteq S => at \in S
    BY <1>1
  <2> HIDE DEF S
  <2>3. QED
    BY <2>1, <2>2, PlaceInduction
<1>3. QED
  BY <1>2

\* The lines of new that the code keeps are a longest part in common.
LEMMA KeepIsLongest ==
  ASSUME NEW old \in Seq(Lines), NEW new \in Seq(Lines)
  PROVE  /\ LcsKeep(old, new) \subseteq 1 .. Len(new)
         /\ IsLongestCommon(LcsKeep(old, new), old, new)
<1>1. PICK keep : /\ LcsKeep(old, new) = keep[<<1, 1>>]
                  /\ IsWalk(keep, LcsTable(old, new), old, new)
  <2>1. PICK keep : keep = CHOOSE walk : IsWalk(walk, LcsTable(old, new), old, new)
    OBVIOUS
  <2>2. LcsKeep(old, new) = keep[<<1, 1>>]
    BY <2>1 DEF LcsKeep, IsWalk, KeepAt
  <2>3. IsWalk(keep, LcsTable(old, new), old, new)
    BY <2>1, WalkExists
  <2>4. QED
    BY <2>2, <2>3
<1>2. <<1, 1>> \in Places(old, new)
  <2>1. Len(old) \in Nat /\ Len(new) \in Nat
    OBVIOUS
  <2>2. QED
    BY <2>1 DEF Places
<1>3. PICK kept : kept = LcsKeep(old, new)
  OBVIOUS
<1>4. /\ CommonFrom(kept, old, new, <<1, 1>>)
      /\ Cardinality(kept) = LcsTable(old, new)[<<1, 1>>]
  BY <1>1, <1>2, <1>3, WalkKeeps
<1>5. DOMAIN old = 1 .. Len(old) /\ DOMAIN new = 1 .. Len(new)
  OBVIOUS
<1>6. \A K \in SUBSET (1 .. Len(new)) : IsCommon(K, old, new) <=> CommonFrom(K, old, new, <<1, 1>>)
  BY <1>5 DEF IsCommon, CommonFrom, Embeds
<1>7. kept \subseteq 1 .. Len(new)
  BY <1>4 DEF CommonFrom
<1>8. ASSUME NEW more \in SUBSET (DOMAIN new), Cardinality(more) > Cardinality(kept)
      PROVE  ~IsCommon(more, old, new)
  <2>1. SUFFICES ASSUME CommonFrom(more, old, new, <<1, 1>>) PROVE FALSE
    BY <1>5, <1>6
  <2>2. Cardinality(more) <= Cardinality(kept)
    BY <1>2, <1>4, <2>1, TableBounds
  <2>3. Cardinality(more) \in Nat /\ Cardinality(kept) \in Nat
    BY <1>2, <1>4, <2>1, CommonIsFinite
  <2>4. QED
    BY <1>8, <2>2, <2>3
<1>9. IsLongestCommon(kept, old, new)
  BY <1>4, <1>6, <1>7, <1>8 DEF IsLongestCommon
<1>10. QED
  BY <1>3, <1>7, <1>9

-----------------------------------------------------------------------------
(* Runs of lines that are not kept.                                        *)

\* Every line that is not kept is in a run.
LEMMA RunsReach ==
  ASSUME NEW n \in Nat, NEW kept \in SUBSET (1 .. n), NEW i \in (1 .. n) \ kept
  PROVE  \E run \in Runs(kept, n) : run[1] <= i /\ i <= run[2]
<1>1. PICK first \in 1 .. i : /\ (first .. i) \cap kept = {}
                              /\ first - 1 \in kept \cup {0}
  <2> DEFINE N == {s \in 1 .. i : (s .. i) \cap kept = {}}
  <2>1. i \in N
    BY SMT
  <2>2. N \in SUBSET Nat
    OBVIOUS
  <2>3. PICK first \in N : \A s \in N : first <= s
    <3> HIDE DEF N
    <3>1. QED
      BY <2>1, <2>2, LeastNumber
  <2>4. ASSUME first - 1 \notin kept \cup {0} PROVE FALSE
    <3>1. first - 1 \in 1 .. i /\ (first - 1 .. i) \subseteq {first - 1} \cup (first .. i)
      BY <2>3, <2>4
    <3>2. first - 1 \in N
      BY <2>3, <2>4, <3>1
    <3>3. first <= first - 1 /\ first \in Nat
      BY <2>2, <2>3, <3>2
    <3>4. QED
      BY <3>3
  <2>5. QED
    BY <2>3, <2>4
<1>2. PICK last \in i .. n : /\ (i .. last) \cap kept = {}
                             /\ last + 1 \in kept \cup {n + 1}
  <2> DEFINE N == {e \in i .. n + 1 : e \in kept \cup {n + 1}}
  <2>1. n + 1 \in N
    BY SMT
  <2>2. N \in SUBSET Nat
    OBVIOUS
  <2>3. PICK end \in N : \A e \in N : end <= e
    <3> HIDE DEF N
    <3>1. QED
      BY <2>1, <2>2, LeastNumber
  <2>4. end # i
    BY <2>3
  <2>5. end - 1 \in i .. n /\ (end - 1) + 1 = end
    BY <2>3, <2>4
  <2>6. (i .. end - 1) \cap kept = {}
    <3>1. SUFFICES ASSUME NEW e \in i .. end - 1, e \in kept PROVE FALSE
      OBVIOUS
    <3>2. e \in N
      BY <2>3, <3>1
    <3>3. end <= e /\ end \in Nat /\ e \in Nat
      BY <2>2, <2>3, <3>2
    <3>4. QED
      BY <3>1, <3>3
  <2>7. QED
    BY <2>3, <2>5, <2>6
<1>3. (first .. last) \cap kept = {}
  <2>1. (first .. last) \subseteq (first .. i) \cup (i .. last)
    BY <1>1, <1>2
  <2>2. QED
    BY <1>1, <1>2, <2>1
<1>4. first \in 1 .. n /\ last \in 1 .. n /\ first <= i /\ i <= last /\ first <= last
  BY <1>1, <1>2
<1>5. <<first, last>> \in Runs(kept, n)
  BY <1>1, <1>2, <1>3, <1>4 DEF Runs
<1>6. QED
  BY <1>4, <1>5

LEMMA RunsTyped ==
  ASSUME NEW n \in Nat, NEW kept, NEW run \in Runs(kept, n)
  PROVE  /\ run[1] \in 1 .. n /\ run[2] \in 1 .. n /\ run[1] <= run[2]
         /\ (run[1] .. run[2]) \cap kept = {}
         /\ run[1] - 1 \in kept \cup {0} /\ run[2] + 1 \in kept \cup {n + 1}
         /\ run = <<run[1], run[2]>>
BY DEF Runs

\* Two runs are apart, by a kept line at least.
LEMMA RunsApart ==
  ASSUME NEW n \in Nat, NEW kept \in SUBSET (1 .. n),
         NEW r \in Runs(kept, n), NEW q \in Runs(kept, n), r # q
  PROVE  r[2] + 1 < q[1] \/ q[2] + 1 < r[1]
<1>1. ASSUME NEW a \in Runs(kept, n), NEW b \in Runs(kept, n), a[1] < b[1] PROVE a[2] + 1 < b[1]
  <2>1. /\ a[1] \in 1 .. n /\ a[2] \in 1 .. n /\ b[1] \in 1 .. n
        /\ (a[1] .. a[2]) \cap kept = {} /\ b[1] - 1 \in kept \cup {0}
    BY RunsTyped
  <2>2. b[1] - 1 \in kept /\ b[1] - 1 >= a[1]
    BY <1>1, <2>1
  <2>3. QED
    BY <2>1, <2>2
<1>2. ASSUME NEW a \in Runs(kept, n), NEW b \in Runs(kept, n), a[1] = b[1] PROVE ~(a[2] < b[2])
  <2>1. /\ a[1] \in 1 .. n /\ a[2] \in 1 .. n /\ b[2] \in 1 .. n /\ a[1] <= a[2]
        /\ (b[1] .. b[2]) \cap kept = {} /\ a[2] + 1 \in kept \cup {n + 1}
    BY RunsTyped
  <2>2. SUFFICES ASSUME a[2] < b[2] PROVE FALSE
    OBVIOUS
  <2>3. a[2] + 1 \in kept /\ a[2] + 1 \in b[1] .. b[2]
    BY <1>2, <2>1, <2>2
  <2>4. QED
    BY <2>1, <2>3
<1>3. /\ r[1] \in 1 .. n /\ r[2] \in 1 .. n /\ q[1] \in 1 .. n /\ q[2] \in 1 .. n
      /\ r = <<r[1], r[2]>> /\ q = <<q[1], q[2]>>
  BY RunsTyped
<1>4. CASE r[1] = q[1]
  <2>1. ~(r[2] < q[2]) /\ ~(q[2] < r[2])
    BY <1>2, <1>4
  <2>2. r[2] = q[2]
    BY <1>3, <2>1
  <2>3. QED
    BY <1>3, <1>4, <2>2
<1>5. CASE r[1] # q[1]
  <2>1. r[1] < q[1] \/ q[1] < r[1]
    BY <1>3, <1>5
  <2>2. QED
    BY <1>1, <2>1
<1>6. QED
  BY <1>4, <1>5

-----------------------------------------------------------------------------
(* Spans.                                                                  *)

\* A run of the changed lines of a text, and its span.
LEMMA SpanOfRun ==
  ASSUME NEW text \in Texts, NEW kept \in SUBSET (1 .. Len(text)), NEW run \in Runs(kept, Len(text)),
         NEW pin, pin = Span(text, run[1], run[2])
  PROVE  /\ run[1] \in 1 .. Len(text) /\ run[2] \in 1 .. Len(text) /\ run[1] <= run[2]
         /\ pin.charStart = StartOf(text)[run[1]] /\ pin.charEnd = EndOf(text, run[2])
         /\ pin.quoteText = SubSeq(text, run[1], run[2])
         /\ pin.charStart \in Nat /\ pin.charEnd \in Nat
         /\ \A i \in 1 .. Len(text) : Covers(pin, text, i) <=> run[1] <= i /\ i <= run[2]
<1>1. Len(text) \in Nat
  BY TextsAreSequences
<1>2. run[1] \in 1 .. Len(text) /\ run[2] \in 1 .. Len(text) /\ run[1] <= run[2]
  BY <1>1, RunsTyped
<1>3. /\ pin.charStart = StartOf(text)[run[1]] /\ pin.charEnd = EndOf(text, run[2])
      /\ pin.quoteText = SubSeq(text, run[1], run[2])
  BY DEF Span
<1>4. pin.charStart \in Nat /\ pin.charEnd \in Nat
  BY <1>2, <1>3, StartsTyped
<1>5. \A i \in 1 .. Len(text) : Covers(pin, text, i) <=> run[1] <= i /\ i <= run[2]
  BY <1>2, <1>3, OffsetsOrder DEF Covers
<1>6. QED
  BY <1>2, <1>3, <1>4, <1>5

\* A quote is blank when its lines are.
LEMMA QuoteLines ==
  ASSUME NEW text \in Texts, NEW first \in 1 .. Len(text), NEW last \in 1 .. Len(text), first <= last
  PROVE  IsBlank(SubSeq(text, first, last)) <=> \A i \in first .. last : text[i] \in BlankLines
<1>1. text \in Seq(Lines) /\ Len(text) \in Nat
  BY TextsAreSequences
<1>2. PICK quote : quote = SubSeq(text, first, last)
  OBVIOUS
<1>3. /\ DOMAIN quote = 1 .. last - first + 1
      /\ \A k \in 1 .. last - first + 1 : quote[k] = text[first + k - 1]
  BY <1>1, <1>2
<1>4. ASSUME \A k \in DOMAIN quote : quote[k] \in BlankLines, NEW i \in first .. last
      PROVE  text[i] \in BlankLines
  <2>1. i - first + 1 \in 1 .. last - first + 1 /\ first + (i - first + 1) - 1 = i
    OBVIOUS
  <2>2. QED
    BY <1>3, <1>4, <2>1
<1>5. ASSUME \A i \in first .. last : text[i] \in BlankLines, NEW k \in DOMAIN quote
      PROVE  quote[k] \in BlankLines
  <2>1. first + k - 1 \in first .. last
    BY <1>3
  <2>2. QED
    BY <1>3, <1>5, <2>1
<1>6. QED
  BY <1>2, <1>4, <1>5 DEF IsBlank

\* A span that is not blank passes the gate.
LEMMA SpansVerify ==
  ASSUME NEW text \in Texts, NEW first \in 1 .. Len(text), NEW last \in 1 .. Len(text), first <= last,
         ~IsBlank(SubSeq(text, first, last))
  PROVE  Verifies(Span(text, first, last), text)
<1>0. PICK pin : pin = Span(text, first, last)
  OBVIOUS
<1>1. Len(text) \in Nat /\ Len(text) \in 1 .. Len(text) /\ text \in [1 .. Len(text) -> Lines]
      /\ DOMAIN text = 1 .. Len(text)
  BY TextsAreSequences
<1>2. /\ pin.charStart = StartOf(text)[first] /\ pin.charEnd = EndOf(text, last)
      /\ pin.quoteText = SubSeq(text, first, last)
  BY <1>0 DEF Span
<1>3. \A i \in 1 .. Len(text) : StartOf(text)[i] \in Nat /\ EndOf(text, i) \in Nat
  BY StartsTyped
<1>4. pin.charStart < pin.charEnd
  <2>1. CASE first = last
    <3>1. text[first] \notin BlankLines
      BY <2>1, QuoteLines
    <3>2. WidthOf[text[first]] \in Nat /\ WidthOf[text[first]] # 0
      BY <1>1, <3>1, SpanAssumption
    <3>3. QED
      BY <1>2, <1>3, <2>1, <3>2 DEF EndOf
  <2>2. CASE first # last
    <3>1. EndOf(text, first) + 1 <= StartOf(text)[last]
      BY <2>2, StartsGrow
    <3>2. StartOf(text)[first] <= EndOf(text, first) /\ StartOf(text)[last] <= EndOf(text, last)
      BY LineEnds
    <3>3. QED
      BY <1>2, <1>3, <3>1, <3>2
  <2>3. QED
    BY <2>1, <2>2
<1>5. pin.charEnd <= EndOf(text, Len(text))
  BY <1>1, <1>2, OffsetsOrder
<1>6. Slice(text, pin.charStart, pin.charEnd) = pin.quoteText
  <2>1. first \in DOMAIN text /\ last \in DOMAIN text
    BY <1>1
  <2>2. PICK i : i = CHOOSE a \in DOMAIN text : StartOf(text)[a] = pin.charStart
    OBVIOUS
  <2>3. i = first
    BY <1>1, <1>2, <2>1, <2>2, OffsetsOrder
  <2>4. PICK j : j = CHOOSE b \in DOMAIN text : EndOf(text, b) = pin.charEnd
    OBVIOUS
  <2>5. j = last
    BY <1>1, <1>2, <2>1, <2>4, OffsetsOrder
  <2>6. \E a \in DOMAIN text, b \in DOMAIN text :
          a <= b /\ StartOf(text)[a] = pin.charStart /\ EndOf(text, b) = pin.charEnd
    BY <1>2, <2>1
  <2>7. Slice(text, pin.charStart, pin.charEnd) = SubSeq(text, i, j)
    BY <2>2, <2>4, <2>6 DEF Slice
  <2>8. QED
    BY <1>2, <2>3, <2>5, <2>7
<1>7. QED
  BY <1>0, <1>4, <1>5, <1>6 DEF Verifies

-----------------------------------------------------------------------------
(* The claims of a capture.                                                *)

\* A claim is the span of a run of changed lines that are not all blank.
LEMMA PinsAreSpans ==
  ASSUME NEW old \in Texts, NEW new \in Texts, old # new, NEW pin \in DiffChangedSpans(old, new)
  PROVE  \E run \in Runs(LcsKeep(old, new), Len(new)) :
           pin = Span(new, run[1], run[2]) /\ ~IsBlank(SubSeq(new, run[1], run[2]))
<1>1. PICK run \in Runs(LcsKeep(old, new), Len(new)) :
        pin = Span(new, run[1], run[2]) /\ ~IsBlank(pin.quoteText)
  BY DEF DiffChangedSpans
<1>2. pin.quoteText = SubSeq(new, run[1], run[2])
  BY <1>1 DEF Span
<1>3. QED
  BY <1>1, <1>2

LEMMA RunsPinned ==
  ASSUME NEW old \in Texts, NEW new \in Texts, old # new,
         NEW run \in Runs(LcsKeep(old, new), Len(new)), ~IsBlank(SubSeq(new, run[1], run[2]))
  PROVE  Span(new, run[1], run[2]) \in DiffChangedSpans(old, new)
<1>1. Span(new, run[1], run[2]).quoteText = SubSeq(new, run[1], run[2])
  BY DEF Span
<1>2. QED
  BY <1>1 DEF DiffChangedSpans

\* What is true of the claims: they are those of the change from old to new.
SpanInv ==
  \E old, new \in Texts :
    /\ earlier = old /\ page = new
    /\ IF new = old THEN pins = {} /\ verified = TRUE
       ELSE /\ pins = DiffChangedSpans(old, new) /\ pins # {}
            /\ verified = Publishable(pins, new)

LEMMA SpanStart == SpanInit => SpanInv
BY DEF SpanInit, SpanInv

LEMMA SpanStep == SpanInv /\ [SpanNext]_spanVars => SpanInv'
<1>1. ASSUME SpanInv, NEW text \in Texts, Recapture(text) PROVE SpanInv'
  <2>1. PICK old \in Texts : old = page
    BY <1>1 DEF SpanInv
  <2>2. PICK claims : claims = DiffChangedSpans(old, text)
    OBVIOUS
  <2>3. /\ earlier' = old /\ page' = text /\ text # old
        /\ pins' = claims /\ claims # {} /\ verified' = Publishable(claims, text)
    BY <1>1, <2>1, <2>2 DEF Recapture
  <2>4. verified' = Publishable(pins', text)
    BY <2>3
  <2>5. \E from, to \in Texts :
          /\ earlier' = from /\ page' = to /\ to # from
          /\ pins' = DiffChangedSpans(from, to) /\ pins' # {} /\ verified' = Publishable(pins', to)
    BY <2>2, <2>3, <2>4
  <2>6. QED
    BY <2>5 DEF SpanInv
<1>2. ASSUME SpanInv, UNCHANGED spanVars PROVE SpanInv'
  BY <1>2 DEF SpanInv, spanVars
<1>3. QED
  BY <1>1, <1>2 DEF SpanNext

LEMMA SpanInvHolds == SpanSpec => []SpanInv
BY SpanStart, SpanStep, PTL DEF SpanSpec

LEMMA SpanTypes == SpanInv => SpanTypeOK
<1>1. SUFFICES ASSUME SpanInv PROVE SpanTypeOK
  OBVIOUS
<1>2. earlier \in Texts /\ page \in Texts
  BY <1>1 DEF SpanInv
<1>3. ASSUME NEW pin \in pins PROVE pin.charStart \in Nat /\ pin.charEnd \in Nat
  <2>1. page # earlier /\ pin \in DiffChangedSpans(earlier, page)
    BY <1>1, <1>3 DEF SpanInv
  <2>2. PICK run \in Runs(LcsKeep(earlier, page), Len(page)) : pin = Span(page, run[1], run[2])
    BY <1>2, <2>1, PinsAreSpans
  <2>3. earlier \in Seq(Lines) /\ page \in Seq(Lines)
    BY <1>2, TextsAreSequences
  <2>4. LcsKeep(earlier, page) \subseteq 1 .. Len(page)
    BY <2>3, KeepIsLongest
  <2>5. QED
    BY <1>2, <2>2, <2>4, SpanOfRun
<1>4. verified \in BOOLEAN
  BY <1>1 DEF SpanInv, Publishable
<1>5. QED
  BY <1>2, <1>3, <1>4 DEF SpanTypeOK

\* Types of the diffs: what is stored is a text, and what is quoted has offsets.
THEOREM SpansTyped == SpanSpec => []SpanTypeOK
BY SpanTypes, SpanInvHolds, PTL

LEMMA ClaimsPinned == SpanInv => ClaimsPinTheChange
<1> SUFFICES ASSUME SpanInv, page # earlier PROVE ClaimsPinTheChange
  BY DEF ClaimsPinTheChange
<1>1. /\ earlier \in Texts /\ page \in Texts
      /\ pins = DiffChangedSpans(earlier, page) /\ pins # {} /\ verified = Publishable(pins, page)
  BY DEF SpanInv
<1>2. PICK kept : kept = LcsKeep(earlier, page)
  OBVIOUS
<1>3. /\ earlier \in Seq(Lines) /\ page \in Seq(Lines) /\ Len(page) \in Nat
      /\ DOMAIN page = 1 .. Len(page)
  BY <1>1, TextsAreSequences
<1>4. kept \in SUBSET (1 .. Len(page)) /\ IsLongestCommon(kept, earlier, page)
  BY <1>2, <1>3, KeepIsLongest
<1>5. ASSUME NEW pin \in pins
      PROVE  \E run \in Runs(kept, Len(page)) :
               pin = Span(page, run[1], run[2]) /\ ~IsBlank(SubSeq(page, run[1], run[2]))
  BY <1>1, <1>2, <1>5, PinsAreSpans
<1>6. ASSUME NEW run \in Runs(kept, Len(page)), ~IsBlank(SubSeq(page, run[1], run[2]))
      PROVE  Span(page, run[1], run[2]) \in pins
  BY <1>1, <1>2, <1>6, RunsPinned
<1>7. verified
  <2>1. ASSUME NEW pin \in pins PROVE Verifies(pin, page)
    <3>1. PICK run \in Runs(kept, Len(page)) :
            pin = Span(page, run[1], run[2]) /\ ~IsBlank(SubSeq(page, run[1], run[2]))
      BY <1>5
    <3>2. run[1] \in 1 .. Len(page) /\ run[2] \in 1 .. Len(page) /\ run[1] <= run[2]
      BY <1>3, RunsTyped
    <3>3. QED
      BY <1>1, <3>1, <3>2, SpansVerify
  <2>2. QED
    BY <1>1, <2>1 DEF Publishable
<1>8. ASSUME NEW i \in DOMAIN page, NEW quoting, quoting = {pin \in pins : Covers(pin, page, i)}
      PROVE  IF i \in kept THEN quoting = {}
             ELSE Cardinality(quoting) = 1 \/ (quoting = {} /\ page[i] \in BlankLines)
  <2>0. i \in 1 .. Len(page)
    BY <1>3
  <2>1. ASSUME NEW pin \in quoting
        PROVE  \E run \in Runs(kept, Len(page)) :
                 /\ pin = Span(page, run[1], run[2]) /\ ~IsBlank(SubSeq(page, run[1], run[2]))
                 /\ run[1] <= i /\ i <= run[2]
    <3>1. PICK run \in Runs(kept, Len(page)) :
            pin = Span(page, run[1], run[2]) /\ ~IsBlank(SubSeq(page, run[1], run[2]))
      BY <1>5, <1>8
    <3>2. \A l \in 1 .. Len(page) : Covers(pin, page, l) <=> run[1] <= l /\ l <= run[2]
      BY <1>1, <1>4, <3>1, SpanOfRun
    <3>3. QED
      BY <1>8, <2>0, <2>1, <3>1, <3>2
  <2>2. CASE i \in kept
    <3>1. SUFFICES ASSUME NEW pin \in quoting PROVE FALSE
      BY <2>2
    <3>2. PICK run \in Runs(kept, Len(page)) : run[1] <= i /\ i <= run[2]
      BY <2>1
    <3>3. run[1] \in Nat /\ run[2] \in Nat /\ (run[1] .. run[2]) \cap kept = {}
      BY <1>3, RunsTyped
    <3>4. QED
      BY <2>0, <2>2, <3>2, <3>3
  <2>3. CASE i \notin kept
    <3>1. PICK run \in Runs(kept, Len(page)) : run[1] <= i /\ i <= run[2]
      BY <1>3, <1>4, <2>0, <2>3, RunsReach
    <3>2. run[1] \in 1 .. Len(page) /\ run[2] \in 1 .. Len(page) /\ run[1] <= run[2]
      BY <1>3, RunsTyped
    <3>3. ASSUME NEW other \in Runs(kept, Len(page)), other[1] <= i, i <= other[2] PROVE other = run
      <4>1. other[1] \in 1 .. Len(page) /\ other[2] \in 1 .. Len(page)
        BY <1>3, RunsTyped
      <4>2. ~(run[2] + 1 < other[1]) /\ ~(other[2] + 1 < run[1])
        BY <2>0, <3>1, <3>2, <3>3, <4>1
      <4>3. QED
        BY <1>3, <1>4, <4>2, RunsApart
    <3>4. CASE IsBlank(SubSeq(page, run[1], run[2]))
      <4>1. quoting = {}
        BY <2>1, <3>3, <3>4
      <4>2. i \in run[1] .. run[2]
        BY <2>0, <3>1, <3>2
      <4>3. page[i] \in BlankLines
        BY <1>1, <3>2, <3>4, <4>2, QuoteLines
      <4>4. QED
        BY <2>3, <4>1, <4>3
    <3>5. CASE ~IsBlank(SubSeq(page, run[1], run[2]))
      <4>1. PICK pin : pin = Span(page, run[1], run[2])
        OBVIOUS
      <4>2. pin \in pins
        BY <1>6, <3>5, <4>1
      <4>3. Covers(pin, page, i)
        BY <1>1, <1>4, <2>0, <3>1, <4>1, SpanOfRun
      <4>4. quoting = {pin}
        BY <1>8, <2>1, <3>3, <4>1, <4>2, <4>3
      <4>5. QED
        BY <2>3, <4>4, FS_Singleton
    <3>6. QED
      BY <3>4, <3>5
  <2>4. QED
    BY <2>2, <2>3
<1>9. ASSUME NEW p \in pins, NEW q \in pins, p # q
      PROVE  p.charEnd + 1 < q.charStart \/ q.charEnd + 1 < p.charStart
  <2>1. ASSUME NEW a \in Runs(kept, Len(page)), NEW b \in Runs(kept, Len(page)), a[2] + 1 < b[1]
        PROVE  EndOf(page, a[2]) + 1 < StartOf(page)[b[1]]
    <3>1. a[2] \in 1 .. Len(page) /\ b[1] \in 1 .. Len(page)
      BY <1>3, RunsTyped
    <3>2. a[2] + 1 \in 1 .. Len(page) /\ a[2] < a[2] + 1
      BY <1>3, <2>1, <3>1
    <3>3. /\ EndOf(page, a[2]) + 1 <= StartOf(page)[a[2] + 1]
          /\ EndOf(page, a[2] + 1) + 1 <= StartOf(page)[b[1]]
      BY <1>1, <2>1, <3>1, <3>2, StartsGrow
    <3>4. StartOf(page)[a[2] + 1] <= EndOf(page, a[2] + 1)
      BY <1>1, <3>2, LineEnds
    <3>5. /\ EndOf(page, a[2]) \in Nat /\ StartOf(page)[a[2] + 1] \in Nat
          /\ EndOf(page, a[2] + 1) \in Nat /\ StartOf(page)[b[1]] \in Nat
      BY <1>1, <3>1, <3>2, StartsTyped
    <3>6. QED
      BY <3>3, <3>4, <3>5
  <2>2. PICK r \in Runs(kept, Len(page)) : p = Span(page, r[1], r[2])
    BY <1>5
  <2>3. PICK s \in Runs(kept, Len(page)) : q = Span(page, s[1], s[2])
    BY <1>5
  <2>4. /\ p.charStart = StartOf(page)[r[1]] /\ p.charEnd = EndOf(page, r[2])
        /\ q.charStart = StartOf(page)[s[1]] /\ q.charEnd = EndOf(page, s[2])
    BY <2>2, <2>3 DEF Span
  <2>5. r[2] + 1 < s[1] \/ s[2] + 1 < r[1]
    BY <1>3, <1>4, <1>9, <2>2, <2>3, RunsApart
  <2>6. QED
    BY <2>1, <2>4, <2>5
<1>10. \A i \in DOMAIN page :
         LET quoting == {pin \in pins : Covers(pin, page, i)}
         IN IF i \in kept THEN quoting = {}
            ELSE Cardinality(quoting) = 1 \/ (quoting = {} /\ page[i] \in BlankLines)
  BY <1>8
<1>11. kept \in SUBSET (DOMAIN page)
  BY <1>3, <1>4
<1>12. QED
  BY <1>4, <1>7, <1>9, <1>10, <1>11 DEF ClaimsPinTheChange

-----------------------------------------------------------------------------
(* The diff of the history page.                                           *)

SameEntry(a, i, j) == [op |-> "same", text |-> a[i], fromLine |-> i, toLine |-> j]
DelEntry(a, i) == [op |-> "del", text |-> a[i], fromLine |-> i, toLine |-> 0]
AddEntry(b, j) == [op |-> "add", text |-> b[j], fromLine |-> 0, toLine |-> j]

Entries(a, b) ==
  [op : {"same", "del", "add"}, text : Lines, fromLine : 0 .. Len(a), toLine : 0 .. Len(b)]

\* The entries shown from a place on, from those shown from a place ahead of it.
OutAt(out, lcs, a, b, at) ==
  LET i == at[1]
      j == at[2]
  IN IF i > Len(a) /\ j > Len(b) THEN <<>>
     ELSE IF i > Len(a) THEN <<AddEntry(b, j)>> \o out[<<i, j + 1>>]
     ELSE IF j > Len(b) THEN <<DelEntry(a, i)>> \o out[<<i + 1, j>>]
     ELSE IF a[i] = b[j] THEN <<SameEntry(a, i, j)>> \o out[<<i + 1, j + 1>>]
     ELSE IF lcs[<<i + 1, j>>] >= lcs[<<i, j + 1>>] THEN <<DelEntry(a, i)>> \o out[<<i + 1, j>>]
     ELSE <<AddEntry(b, j)>> \o out[<<i, j + 1>>]

IsOut(out, lcs, a, b) == out = [at \in Places(a, b) |-> OutAt(out, lcs, a, b, at)]

\* The ways to go on from line i of a and line j of b.
OutGoesOn(out, lcs, a, b, at, i, j) ==
  \/ i > Len(a) /\ j > Len(b) /\ OutAt(out, lcs, a, b, at) = <<>>
  \/ /\ i \in 1 .. Len(a) /\ <<i + 1, j>> \in Ahead(a, b, at)
     /\ OutAt(out, lcs, a, b, at) = <<DelEntry(a, i)>> \o out[<<i + 1, j>>]
     /\ j > Len(b) \/ (j <= Len(b) /\ a[i] # b[j] /\ lcs[<<i + 1, j>>] >= lcs[<<i, j + 1>>])
  \/ /\ j \in 1 .. Len(b) /\ <<i, j + 1>> \in Ahead(a, b, at)
     /\ OutAt(out, lcs, a, b, at) = <<AddEntry(b, j)>> \o out[<<i, j + 1>>]
     /\ i > Len(a) \/ (i <= Len(a) /\ a[i] # b[j] /\ ~(lcs[<<i + 1, j>>] >= lcs[<<i, j + 1>>]))
  \/ /\ i \in 1 .. Len(a) /\ j \in 1 .. Len(b) /\ a[i] = b[j]
     /\ <<i + 1, j + 1>> \in Ahead(a, b, at)
     /\ OutAt(out, lcs, a, b, at) = <<SameEntry(a, i, j)>> \o out[<<i + 1, j + 1>>]

LEMMA OutCases ==
  ASSUME NEW a \in Seq(Lines), NEW b \in Seq(Lines), NEW at \in Places(a, b), NEW lcs, NEW out
  PROVE  OutGoesOn(out, lcs, a, b, at, at[1], at[2])
<1>0. PICK i, j : i = at[1] /\ j = at[2]
  OBVIOUS
<1> SUFFICES OutGoesOn(out, lcs, a, b, at, i, j)
  BY <1>0
<1>1. Len(a) \in Nat /\ Len(b) \in Nat
  OBVIOUS
<1>2. i \in 1 .. Len(a) + 1 /\ j \in 1 .. Len(b) + 1
  BY <1>0, PlacesAhead
<1>3. i <= Len(a) => i \in 1 .. Len(a) /\ <<i + 1, j>> \in Ahead(a, b, at)
  <2>1. at[1] <= Len(a) => <<at[1] + 1, at[2]>> \in Ahead(a, b, at)
    BY PlacesAhead
  <2>2. QED
    BY <1>0, <1>1, <1>2, <2>1
<1>4. j <= Len(b) => j \in 1 .. Len(b) /\ <<i, j + 1>> \in Ahead(a, b, at)
  <2>1. at[2] <= Len(b) => <<at[1], at[2] + 1>> \in Ahead(a, b, at)
    BY PlacesAhead
  <2>2. QED
    BY <1>0, <1>1, <1>2, <2>1
<1>5. i <= Len(a) /\ j <= Len(b) => <<i + 1, j + 1>> \in Ahead(a, b, at)
  <2>1. at[1] <= Len(a) /\ at[2] <= Len(b) => <<at[1] + 1, at[2] + 1>> \in Ahead(a, b, at)
    BY PlacesAhead
  <2>2. QED
    BY <1>0, <2>1
<1>6. (i > Len(a) <=> ~(i <= Len(a))) /\ (j > Len(b) <=> ~(j <= Len(b)))
  BY <1>1, <1>2
<1>7. CASE i > Len(a) /\ j > Len(b)
  BY <1>0, <1>7 DEF OutAt, OutGoesOn
<1>8. CASE i > Len(a) /\ j <= Len(b)
  <2>1. OutAt(out, lcs, a, b, at) = <<AddEntry(b, j)>> \o out[<<i, j + 1>>]
    BY <1>0, <1>6, <1>8 DEF OutAt
  <2>2. QED
    BY <1>0, <1>4, <1>8, <2>1 DEF OutGoesOn
<1>9. CASE i <= Len(a) /\ j > Len(b)
  <2>1. OutAt(out, lcs, a, b, at) = <<DelEntry(a, i)>> \o out[<<i + 1, j>>]
    BY <1>0, <1>6, <1>9 DEF OutAt
  <2>2. QED
    BY <1>0, <1>3, <1>9, <2>1 DEF OutGoesOn
<1>10. CASE i <= Len(a) /\ j <= Len(b)
  <2>1. CASE a[i] = b[j]
    <3>1. OutAt(out, lcs, a, b, at) = <<SameEntry(a, i, j)>> \o out[<<i + 1, j + 1>>]
      BY <1>0, <1>6, <1>10, <2>1 DEF OutAt
    <3>2. QED
      BY <1>0, <1>3, <1>4, <1>5, <1>10, <2>1, <3>1 DEF OutGoesOn
  <2>2. CASE a[i] # b[j] /\ lcs[<<i + 1, j>>] >= lcs[<<i, j + 1>>]
    <3>1. OutAt(out, lcs, a, b, at) = <<DelEntry(a, i)>> \o out[<<i + 1, j>>]
      BY <1>0, <1>6, <1>10, <2>2 DEF OutAt
    <3>2. QED
      BY <1>0, <1>3, <1>10, <2>2, <3>1 DEF OutGoesOn
  <2>3. CASE a[i] # b[j] /\ ~(lcs[<<i + 1, j>>] >= lcs[<<i, j + 1>>])
    <3>1. OutAt(out, lcs, a, b, at) = <<AddEntry(b, j)>> \o out[<<i, j + 1>>]
      BY <1>0, <1>6, <1>10, <2>3 DEF OutAt
    <3>2. QED
      BY <1>0, <1>4, <1>10, <2>3, <3>1 DEF OutGoesOn
  <2>4. QED
    BY <2>1, <2>2, <2>3
<1>11. QED
  BY <1>6, <1>7, <1>8, <1>9, <1>10

LEMMA EntriesTyped ==
  ASSUME NEW a \in Seq(Lines), NEW b \in Seq(Lines)
  PROVE  /\ \A i \in 1 .. Len(a) : DelEntry(a, i) \in Entries(a, b)
         /\ \A j \in 1 .. Len(b) : AddEntry(b, j) \in Entries(a, b)
         /\ \A i \in 1 .. Len(a), j \in 1 .. Len(b) : SameEntry(a, i, j) \in Entries(a, b)
<1>1. Len(a) \in Nat /\ Len(b) \in Nat
  OBVIOUS
<1>2. /\ \A i \in 1 .. Len(a) : a[i] \in Lines /\ i \in 0 .. Len(a)
      /\ \A j \in 1 .. Len(b) : b[j] \in Lines /\ j \in 0 .. Len(b)
      /\ 0 \in 0 .. Len(a) /\ 0 \in 0 .. Len(b)
  BY <1>1
<1>3. \A i \in 1 .. Len(a) : DelEntry(a, i) \in Entries(a, b)
  BY <1>2 DEF DelEntry, Entries
<1>4. \A j \in 1 .. Len(b) : AddEntry(b, j) \in Entries(a, b)
  BY <1>2 DEF AddEntry, Entries
<1>5. \A i \in 1 .. Len(a), j \in 1 .. Len(b) : SameEntry(a, i, j) \in Entries(a, b)
  BY <1>2 DEF SameEntry, Entries
<1>6. QED
  BY <1>3, <1>4, <1>5

LEMMA OutTyped ==
  ASSUME NEW a \in Seq(Lines), NEW b \in Seq(Lines), NEW at \in Places(a, b), NEW lcs, NEW out,
         \A to \in Ahead(a, b, at) : out[to] \in Seq(Entries(a, b))
  PROVE  OutAt(out, lcs, a, b, at) \in Seq(Entries(a, b))
<1>1. PICK i, j : i = at[1] /\ j = at[2]
  OBVIOUS
<1>2. \/ OutAt(out, lcs, a, b, at) = <<>>
      \/ i \in 1 .. Len(a) /\ <<i + 1, j>> \in Ahead(a, b, at)
         /\ OutAt(out, lcs, a, b, at) = <<DelEntry(a, i)>> \o out[<<i + 1, j>>]
      \/ j \in 1 .. Len(b) /\ <<i, j + 1>> \in Ahead(a, b, at)
         /\ OutAt(out, lcs, a, b, at) = <<AddEntry(b, j)>> \o out[<<i, j + 1>>]
      \/ i \in 1 .. Len(a) /\ j \in 1 .. Len(b) /\ <<i + 1, j + 1>> \in Ahead(a, b, at)
         /\ OutAt(out, lcs, a, b, at) = <<SameEntry(a, i, j)>> \o out[<<i + 1, j + 1>>]
  <2>1. OutGoesOn(out, lcs, a, b, at, at[1], at[2])
    BY OutCases
  <2>2. OutGoesOn(out, lcs, a, b, at, i, j)
    BY <1>1, <2>1
  <2>3. QED
    BY <2>2 DEF OutGoesOn
<1>3. /\ \A k \in 1 .. Len(a) : DelEntry(a, k) \in Entries(a, b)
      /\ \A l \in 1 .. Len(b) : AddEntry(b, l) \in Entries(a, b)
      /\ \A k \in 1 .. Len(a), l \in 1 .. Len(b) : SameEntry(a, k, l) \in Entries(a, b)
  BY EntriesTyped
<1>4. PICK V : V = Seq(Entries(a, b))
  OBVIOUS
<1>5. <<>> \in V /\ \A e \in Entries(a, b), rest \in V : <<e>> \o rest \in V
  BY <1>4
<1>6. \A to \in Ahead(a, b, at) : out[to] \in V
  BY <1>4
<1>7. \/ OutAt(out, lcs, a, b, at) = <<>>
      \/ \E e \in Entries(a, b), to \in Ahead(a, b, at) : OutAt(out, lcs, a, b, at) = <<e>> \o out[to]
  BY <1>2, <1>3, Zenon
<1>8. QED
  BY <1>4, <1>5, <1>6, <1>7

LEMMA OutExists ==
  ASSUME NEW a \in Seq(Lines), NEW b \in Seq(Lines), NEW lcs
  PROVE  \E out : IsOut(out, lcs, a, b)
<1>0. PICK P, V : P = Places(a, b) /\ V = Seq(Entries(a, b))
  OBVIOUS
<1>1. PICK step : step = [x \in P \X [P -> V] |-> OutAt(x[2], lcs, a, b, x[1])]
  OBVIOUS
<1>2. \A at \in P, f \in [P -> V] : step[<<at, f>>] = OutAt(f, lcs, a, b, at)
  BY <1>1
<1>3. <<>> \in V /\ \A e \in Entries(a, b), rest \in V : <<e>> \o rest \in V
  BY <1>0
<1>4. ASSUME NEW at \in P, NEW f \in [P -> V] PROVE OutAt(f, lcs, a, b, at) \in V
  <2>1. \A to \in Ahead(a, b, at) : f[to] \in V
    BY <1>0, <1>4 DEF Ahead
  <2>2. at \in Places(a, b)
    BY <1>0
  <2>3. QED
    BY <1>0, <2>1, <2>2, OutTyped
<1>5. step \in [P \X [P -> V] -> V]
  <2>1. \A x \in P \X [P -> V] : x[1] \in P /\ x[2] \in [P -> V]
    OBVIOUS
  <2>2. \A x \in P \X [P -> V] : OutAt(x[2], lcs, a, b, x[1]) \in V
    BY <1>4, <2>1
  <2>3. QED
    BY <1>1, <2>2
<1>6. ASSUME NEW at \in P, NEW f \in [P -> V], NEW g \in [P -> V],
             \A to \in Ahead(a, b, at) : f[to] = g[to]
      PROVE  step[<<at, f>>] = step[<<at, g>>]
  <2>1. PICK i, j : i = at[1] /\ j = at[2]
    OBVIOUS
  <2>2. at \in Places(a, b)
    BY <1>0, <1>6
  <2>3. /\ i <= Len(a) => f[<<i + 1, j>>] = g[<<i + 1, j>>]
        /\ j <= Len(b) => f[<<i, j + 1>>] = g[<<i, j + 1>>]
        /\ i <= Len(a) /\ j <= Len(b) => f[<<i + 1, j + 1>>] = g[<<i + 1, j + 1>>]
    <3>1. /\ at[1] <= Len(a) => <<at[1] + 1, at[2]>> \in Ahead(a, b, at)
          /\ at[2] <= Len(b) => <<at[1], at[2] + 1>> \in Ahead(a, b, at)
          /\ at[1] <= Len(a) /\ at[2] <= Len(b) => <<at[1] + 1, at[2] + 1>> \in Ahead(a, b, at)
      BY <2>2, PlacesAhead
    <3>2. QED
      BY <1>6, <2>1, <3>1
  <2>4. (i > Len(a) <=> ~(i <= Len(a))) /\ (j > Len(b) <=> ~(j <= Len(b)))
    <3>1. at[1] \in 1 .. Len(a) + 1 /\ at[2] \in 1 .. Len(b) + 1
      BY <2>2, PlacesAhead
    <3>2. Len(a) \in Nat /\ Len(b) \in Nat
      OBVIOUS
    <3>3. QED
      BY <2>1, <3>1, <3>2
  <2>5. OutAt(f, lcs, a, b, at) = OutAt(g, lcs, a, b, at)
    BY <2>1, <2>3, <2>4 DEF OutAt
  <2>6. QED
    BY <1>2, <2>5
<1>7. StepsAhead(step, V, a, b)
  <2>1. V # {}
    BY <1>3
  <2>2. QED
    BY <1>0, <1>5, <1>6, <2>1, ZenonT(30) DEF StepsAhead
<1>8. PICK out \in [P -> V] : \A at \in P : out[at] = step[<<at, out>>]
  <2>1. \E f \in [Places(a, b) -> V] : \A at \in Places(a, b) : f[at] = step[<<at, f>>]
    BY <1>7, RecursionExists
  <2>2. QED
    BY <1>0, <2>1
<1>9. out = [at \in P |-> OutAt(out, lcs, a, b, at)]
  BY <1>2, <1>8
<1>10. QED
  BY <1>0, <1>9 DEF IsOut

\* ShowsText, for the lines of a text from one on.
ShowsFrom(diff, number, text, first) ==
  /\ \A k \in DOMAIN diff :
       number[k] # 0 => number[k] \in first .. Len(text) /\ diff[k].text = text[number[k]]
  /\ \A k, l \in DOMAIN diff : k < l /\ number[k] # 0 /\ number[l] # 0 => number[k] < number[l]
  /\ \A i \in first .. Len(text) : \E k \in DOMAIN diff : number[k] = i

\* diff is rest with one entry before it.
OneMore(diff, e, rest, E) == e \in E /\ rest \in Seq(E) /\ diff = <<e>> \o rest

LEMMA Prepended ==
  ASSUME NEW E, NEW e, NEW rest, NEW diff, OneMore(diff, e, rest, E)
  PROVE  /\ diff \in Seq(E) /\ 1 \in DOMAIN diff /\ diff[1] = e
         /\ DOMAIN diff \subseteq Nat /\ DOMAIN rest \subseteq Nat
         /\ \A k \in DOMAIN rest : k + 1 \in DOMAIN diff /\ diff[k + 1] = rest[k]
         /\ \A k \in DOMAIN diff : k # 1 => k > 1 /\ k - 1 \in DOMAIN rest /\ diff[k] = rest[k - 1]
<1> USE DEF OneMore
<1>1. Len(rest) \in Nat /\ DOMAIN rest = 1 .. Len(rest)
  OBVIOUS
<1>2. diff \in Seq(E) /\ Len(diff) = Len(rest) + 1 /\ DOMAIN diff = 1 .. Len(diff)
  OBVIOUS
<1>3. diff[1] = e /\ \A k \in 1 .. Len(rest) : diff[k + 1] = rest[k]
  OBVIOUS
<1>4. ASSUME NEW k \in DOMAIN diff, k # 1 PROVE k > 1 /\ k - 1 \in DOMAIN rest /\ diff[k] = rest[k - 1]
  <2>1. k - 1 \in 1 .. Len(rest) /\ (k - 1) + 1 = k
    BY <1>1, <1>2, <1>4
  <2>2. diff[(k - 1) + 1] = rest[k - 1]
    BY <1>3, <2>1
  <2>3. QED
    BY <1>1, <2>1, <2>2
<1>5. \A k \in DOMAIN rest : k + 1 \in DOMAIN diff /\ diff[k + 1] = rest[k]
  BY <1>1, <1>2, <1>3
<1>6. QED
  BY <1>1, <1>2, <1>3, <1>4, <1>5

\* An entry that leaves the text out, or that shows its next line.
LEMMA ShowsOneMore ==
  ASSUME NEW E, NEW e, NEW rest, NEW diff, OneMore(diff, e, rest, E),
         NEW text \in Seq(Lines), NEW first \in Nat \ {0}, NEW next \in Nat, NEW of, NEW number,
         ShowsFrom(rest, of, text, next),
         \A k \in DOMAIN rest : number[k + 1] = of[k],
         \/ number[1] = 0 /\ next = first
         \/ number[1] = first /\ first <= Len(text) /\ next = first + 1 /\ e.text = text[first]
  PROVE  ShowsFrom(diff, number, text, first)
<1>1. /\ 1 \in DOMAIN diff /\ diff[1] = e
      /\ DOMAIN diff \subseteq Nat /\ DOMAIN rest \subseteq Nat
  BY Prepended
<1>2. \A k \in DOMAIN rest : k + 1 \in DOMAIN diff /\ diff[k + 1] = rest[k]
  BY Prepended
<1>3. \A k \in DOMAIN diff : k # 1 => k > 1 /\ k - 1 \in DOMAIN rest /\ diff[k] = rest[k - 1]
  BY Prepended
<1>4. Len(text) \in Nat
  OBVIOUS
<1>5. \A k \in DOMAIN diff : k # 1 => number[k] = of[k - 1]
  <2>1. TAKE k \in DOMAIN diff
  <2>2. HAVE k # 1
  <2>3. k - 1 \in DOMAIN rest /\ (k - 1) + 1 = k
    BY <1>1, <1>3, <2>2
  <2>4. number[(k - 1) + 1] = of[k - 1]
    BY <2>3
  <2>5. QED
    BY <2>3, <2>4
<1>6. \A k \in DOMAIN rest : of[k] # 0 => of[k] \in next .. Len(text) /\ rest[k].text = text[of[k]]
  BY DEF ShowsFrom
<1>7. ASSUME NEW k \in DOMAIN diff, number[k] # 0
      PROVE  number[k] \in first .. Len(text) /\ diff[k].text = text[number[k]]
  <2>1. CASE k = 1
    BY <1>1, <1>4, <1>7, <2>1
  <2>2. CASE k # 1
    <3>1. k - 1 \in DOMAIN rest /\ diff[k] = rest[k - 1] /\ number[k] = of[k - 1]
      BY <1>3, <1>5, <2>2
    <3>2. of[k - 1] \in next .. Len(text) /\ rest[k - 1].text = text[of[k - 1]]
      BY <1>6, <1>7, <3>1
    <3>3. of[k - 1] \in first .. Len(text)
      BY <1>4, <3>2
    <3>4. QED
      BY <3>1, <3>2, <3>3
  <2>3. QED
    BY <2>1, <2>2
<1>8. ASSUME NEW k \in DOMAIN diff, NEW l \in DOMAIN diff, k < l, number[k] # 0, number[l] # 0
      PROVE  number[k] < number[l]
  <2>1. k \in Nat /\ l \in Nat
    BY <1>1
  <2>2. l # 1
    <3>1. SUFFICES ASSUME l = 1 PROVE FALSE
      OBVIOUS
    <3>2. k # 1
      BY <1>8, <2>1, <3>1
    <3>3. k > 1
      BY <1>3, <3>2
    <3>4. QED
      BY <1>8, <2>1, <3>1, <3>3
  <2>3. l - 1 \in DOMAIN rest /\ number[l] = of[l - 1]
    BY <1>3, <1>5, <2>2
  <2>4. of[l - 1] \in next .. Len(text)
    BY <1>6, <1>8, <2>3
  <2>5. CASE k = 1
    BY <1>4, <1>8, <2>3, <2>4, <2>5
  <2>6. CASE k # 1
    <3>1. k - 1 \in DOMAIN rest /\ number[k] = of[k - 1] /\ k - 1 < l - 1
      BY <1>3, <1>5, <1>8, <2>1, <2>6
    <3>2. of[k - 1] < of[l - 1]
      BY <1>8, <2>3, <3>1 DEF ShowsFrom
    <3>3. QED
      BY <2>3, <3>1, <3>2
  <2>7. QED
    BY <2>5, <2>6
<1>9. ASSUME NEW i \in first .. Len(text) PROVE \E k \in DOMAIN diff : number[k] = i
  <2>1. CASE i \in next .. Len(text)
    <3>1. PICK k \in DOMAIN rest : of[k] = i
      BY <2>1 DEF ShowsFrom
    <3>2. k + 1 \in DOMAIN diff /\ number[k + 1] = i
      BY <1>2, <3>1
    <3>3. QED
      BY <3>2
  <2>2. CASE i \notin next .. Len(text)
    <3>1. number[1] = i
      BY <1>4, <2>2
    <3>2. QED
      BY <1>1, <3>1
  <2>3. QED
    BY <2>1, <2>2
<1>10. QED
  BY <1>7, <1>8, <1>9 DEF ShowsFrom

\* The lines of the later text that a diff keeps.
KeptBy(diff) == {diff[k].toLine : k \in {l \in DOMAIN diff : diff[l].op = "same"}}

LEMMA KeepsOneMore ==
  ASSUME NEW E, NEW e, NEW rest, NEW diff, OneMore(diff, e, rest, E)
  PROVE  KeptBy(diff) = IF e.op = "same" THEN {e.toLine} \cup KeptBy(rest) ELSE KeptBy(rest)
<1>1. 1 \in DOMAIN diff /\ diff[1] = e /\ DOMAIN diff \subseteq Nat /\ DOMAIN rest \subseteq Nat
  BY Prepended
<1>2. \A k \in DOMAIN rest : k + 1 \in DOMAIN diff /\ diff[k + 1] = rest[k]
  BY Prepended
<1>3. \A k \in DOMAIN diff : k # 1 => k > 1 /\ k - 1 \in DOMAIN rest /\ diff[k] = rest[k - 1]
  BY Prepended
<1>4. ASSUME NEW j \in KeptBy(diff) PROVE (e.op = "same" /\ j = e.toLine) \/ j \in KeptBy(rest)
  <2>1. PICK k \in DOMAIN diff : diff[k].op = "same" /\ diff[k].toLine = j
    BY DEF KeptBy
  <2>2. CASE k = 1
    BY <1>1, <2>1, <2>2
  <2>3. CASE k # 1
    <3>1. k - 1 \in DOMAIN rest /\ rest[k - 1].op = "same" /\ rest[k - 1].toLine = j
      BY <1>3, <2>1, <2>3
    <3>2. QED
      BY <3>1 DEF KeptBy
  <2>4. QED
    BY <2>2, <2>3
<1>5. ASSUME NEW j \in KeptBy(rest) PROVE j \in KeptBy(diff)
  <2>1. PICK k \in DOMAIN rest : rest[k].op = "same" /\ rest[k].toLine = j
    BY DEF KeptBy
  <2>2. k + 1 \in DOMAIN diff /\ diff[k + 1].op = "same" /\ diff[k + 1].toLine = j
    BY <1>2, <2>1
  <2>3. QED
    BY <2>2 DEF KeptBy
<1>6. e.op = "same" => e.toLine \in KeptBy(diff)
  BY <1>1 DEF KeptBy
<1>7. CASE e.op = "same"
  BY <1>4, <1>5, <1>6, <1>7
<1>8. CASE e.op # "same"
  BY <1>4, <1>5, <1>8
<1>9. QED
  BY <1>7, <1>8

FromLines(diff) == [k \in DOMAIN diff |-> diff[k].fromLine]

ToLines(diff) == [k \in DOMAIN diff |-> diff[k].toLine]

OpsTell(diff) ==
  \A k \in DOMAIN diff : /\ diff[k].op = "add" <=> diff[k].fromLine = 0
                         /\ diff[k].op = "del" <=> diff[k].toLine = 0

\* A diff of a from line i on and b from line j on, which keeps the lines kept of b.
ShownFrom(diff, a, b, i, j, kept) ==
  /\ diff \in Seq(Entries(a, b))
  /\ OpsTell(diff)
  /\ ShowsFrom(diff, FromLines(diff), a, i)
  /\ ShowsFrom(diff, ToLines(diff), b, j)
  /\ KeptBy(diff) = kept

LEMMA NothingShown ==
  ASSUME NEW a \in Seq(Lines), NEW b \in Seq(Lines), NEW i \in Nat, NEW j \in Nat,
         i > Len(a), j > Len(b)
  PROVE  ShownFrom(<<>>, a, b, i, j, {})
<1>1. PICK diff : diff = <<>>
  OBVIOUS
<1>2. diff \in Seq(Entries(a, b)) /\ DOMAIN diff = {}
  BY <1>1
<1>3. i .. Len(a) = {} /\ j .. Len(b) = {}
  <2>1. Len(a) \in Nat /\ Len(b) \in Nat
    OBVIOUS
  <2>2. QED
    BY <2>1
<1>4. ShownFrom(diff, a, b, i, j, {})
  BY <1>2, <1>3 DEF ShownFrom, OpsTell, ShowsFrom, KeptBy
<1>5. QED
  BY <1>1, <1>4

LEMMA OneMoreShown ==
  ASSUME NEW a \in Seq(Lines), NEW b \in Seq(Lines),
         NEW i \in Nat \ {0}, NEW j \in Nat \ {0}, NEW nextI \in Nat, NEW nextJ \in Nat,
         NEW e \in Entries(a, b), NEW rest, NEW kept,
         ShownFrom(rest, a, b, nextI, nextJ, kept),
         e.op = "add" <=> e.fromLine = 0,
         e.op = "del" <=> e.toLine = 0,
         \/ e.fromLine = 0 /\ nextI = i
         \/ e.fromLine = i /\ i <= Len(a) /\ nextI = i + 1 /\ e.text = a[i],
         \/ e.toLine = 0 /\ nextJ = j
         \/ e.toLine = j /\ j <= Len(b) /\ nextJ = j + 1 /\ e.text = b[j]
  PROVE  ShownFrom(<<e>> \o rest, a, b, i, j, IF e.op = "same" THEN {e.toLine} \cup kept ELSE kept)
<1>1. PICK diff : diff = <<e>> \o rest
  OBVIOUS
<1>2. PICK E : E = Entries(a, b)
  OBVIOUS
<1>3. OneMore(diff, e, rest, E)
  BY <1>1, <1>2 DEF ShownFrom, OneMore
<1>4. /\ diff \in Seq(E) /\ 1 \in DOMAIN diff /\ diff[1] = e
      /\ \A k \in DOMAIN rest : k + 1 \in DOMAIN diff /\ diff[k + 1] = rest[k]
      /\ \A k \in DOMAIN diff : k # 1 => k > 1 /\ k - 1 \in DOMAIN rest /\ diff[k] = rest[k - 1]
  BY <1>3, Prepended
<1>5. OpsTell(diff)
  <2>1. SUFFICES ASSUME NEW k \in DOMAIN diff
                 PROVE  /\ diff[k].op = "add" <=> diff[k].fromLine = 0
                        /\ diff[k].op = "del" <=> diff[k].toLine = 0
    BY DEF OpsTell
  <2>2. CASE k = 1
    BY <1>4, <2>2
  <2>3. CASE k # 1
    <3>1. k - 1 \in DOMAIN rest /\ diff[k] = rest[k - 1]
      BY <1>4, <2>3
    <3>2. QED
      BY <3>1 DEF ShownFrom, OpsTell
  <2>4. QED
    BY <2>2, <2>3
<1>6. ShowsFrom(diff, FromLines(diff), a, i)
  <2>1. ShowsFrom(rest, FromLines(rest), a, nextI)
    BY DEF ShownFrom
  <2>2. FromLines(diff)[1] = e.fromLine /\ \A k \in DOMAIN rest : FromLines(diff)[k + 1] = FromLines(rest)[k]
    BY <1>4 DEF FromLines
  <2>3. \/ FromLines(diff)[1] = 0 /\ nextI = i
        \/ FromLines(diff)[1] = i /\ i <= Len(a) /\ nextI = i + 1 /\ e.text = a[i]
    BY <2>2
  <2>4. QED
    BY <1>3, <2>1, <2>2, <2>3, ShowsOneMore
<1>7. ShowsFrom(diff, ToLines(diff), b, j)
  <2>1. ShowsFrom(rest, ToLines(rest), b, nextJ)
    BY DEF ShownFrom
  <2>2. ToLines(diff)[1] = e.toLine /\ \A k \in DOMAIN rest : ToLines(diff)[k + 1] = ToLines(rest)[k]
    BY <1>4 DEF ToLines
  <2>3. \/ ToLines(diff)[1] = 0 /\ nextJ = j
        \/ ToLines(diff)[1] = j /\ j <= Len(b) /\ nextJ = j + 1 /\ e.text = b[j]
    BY <2>2
  <2>4. QED
    BY <1>3, <2>1, <2>2, <2>3, ShowsOneMore
<1>8. KeptBy(diff) = IF e.op = "same" THEN {e.toLine} \cup kept ELSE kept
  <2>1. KeptBy(rest) = kept
    BY DEF ShownFrom
  <2>2. KeptBy(diff) = IF e.op = "same" THEN {e.toLine} \cup KeptBy(rest) ELSE KeptBy(rest)
    BY <1>3, KeepsOneMore
  <2>3. QED
    BY <2>1, <2>2
<1>9. QED
  BY <1>1, <1>2, <1>4, <1>5, <1>6, <1>7, <1>8 DEF ShownFrom

\* The diff shows both texts, and keeps the lines that the walk keeps.
LEMMA OutShows ==
  ASSUME NEW a \in Seq(Lines), NEW b \in Seq(Lines), NEW lcs, NEW keep, NEW out,
         IsWalk(keep, lcs, a, b), IsOut(out, lcs, a, b)
  PROVE  \A at \in Places(a, b) : ShownFrom(out[at], a, b, at[1], at[2], keep[at])
<1> DEFINE S == {at \in Places(a, b) : ShownFrom(out[at], a, b, at[1], at[2], keep[at])}
<1>1. ASSUME NEW at \in Places(a, b), Ahead(a, b, at) \subseteq S
      PROVE  ShownFrom(out[at], a, b, at[1], at[2], keep[at])
  <2>1. PICK i, j : i = at[1] /\ j = at[2]
    OBVIOUS
  <2>2. Len(a) \in Nat /\ Len(b) \in Nat
    OBVIOUS
  <2>3. i \in 1 .. Len(a) + 1 /\ j \in 1 .. Len(b) + 1
    BY <2>1, PlacesAhead
  <2>4. i \in Nat \ {0} /\ j \in Nat \ {0} /\ i + 1 \in Nat /\ j + 1 \in Nat
    BY <2>2, <2>3
  <2>5. /\ (i > Len(a) <=> ~(i <= Len(a))) /\ (j > Len(b) <=> ~(j <= Len(b)))
        /\ \A k \in 1 .. Len(a) : k <= Len(a) /\ k # 0
        /\ \A k \in 1 .. Len(b) : k <= Len(b) /\ k # 0
    BY <2>2, <2>3
  <2>6. out[at] = OutAt(out, lcs, a, b, at)
    <3>1. out = [to \in Places(a, b) |-> OutAt(out, lcs, a, b, to)]
      BY DEF IsOut
    <3>2. QED
      BY <3>1
  <2>7. keep[at] = KeepAt(keep, lcs, a, b, at)
    <3>1. keep = [to \in Places(a, b) |-> KeepAt(keep, lcs, a, b, to)]
      BY DEF IsWalk
    <3>2. QED
      BY <3>1
  <2>8. keep[at] = IF i > Len(a) \/ j > Len(b) THEN {}
                   ELSE IF a[i] = b[j] THEN {j} \cup keep[<<i + 1, j + 1>>]
                   ELSE IF lcs[<<i + 1, j>>] >= lcs[<<i, j + 1>>] THEN keep[<<i + 1, j>>]
                   ELSE keep[<<i, j + 1>>]
    BY <2>1, <2>7 DEF KeepAt
  <2>9. OutGoesOn(out, lcs, a, b, at, i, j)
    <3>1. OutGoesOn(out, lcs, a, b, at, at[1], at[2])
      BY OutCases
    <3>2. QED
      BY <2>1, <3>1
  <2>10. ASSUME NEW k, NEW l, <<k, l>> \in Ahead(a, b, at)
         PROVE  ShownFrom(out[<<k, l>>], a, b, k, l, keep[<<k, l>>])
    <3>1. <<k, l>> \in S
      BY <1>1, <2>10
    <3>2. QED
      BY <3>1
  <2>11. ASSUME NEW to \in Places(a, b), AtEnd(a, b, to) PROVE keep[to] = {}
    <3>1. keep = [there \in Places(a, b) |-> KeepAt(keep, lcs, a, b, there)]
      BY DEF IsWalk
    <3>2. keep[to] = KeepAt(keep, lcs, a, b, to)
      BY <3>1
    <3>3. QED
      BY <2>11, <3>2 DEF KeepAt, AtEnd
  <2>12. CASE i > Len(a) /\ j > Len(b) /\ OutAt(out, lcs, a, b, at) = <<>>
    <3>1. keep[at] = {} /\ out[at] = <<>>
      BY <2>6, <2>8, <2>12
    <3>2. ShownFrom(<<>>, a, b, i, j, {})
      BY <2>4, <2>12, NothingShown
    <3>3. QED
      BY <2>1, <3>1, <3>2
  <2>13. CASE /\ i \in 1 .. Len(a) /\ <<i + 1, j>> \in Ahead(a, b, at)
              /\ OutAt(out, lcs, a, b, at) = <<DelEntry(a, i)>> \o out[<<i + 1, j>>]
              /\ j > Len(b) \/ (j <= Len(b) /\ a[i] # b[j] /\ lcs[<<i + 1, j>>] >= lcs[<<i, j + 1>>])
    <3>1. PICK e, rest, kept : e = DelEntry(a, i) /\ rest = out[<<i + 1, j>>] /\ kept = keep[<<i + 1, j>>]
      OBVIOUS
    <3>2. /\ e \in Entries(a, b) /\ e.op = "del" /\ e.op # "same" /\ e.op # "add"
          /\ e.fromLine = i /\ e.toLine = 0 /\ e.text = a[i]
      BY <2>13, <3>1, EntriesTyped DEF DelEntry
    <3>3. ShownFrom(rest, a, b, i + 1, j, kept)
      BY <2>10, <2>13, <3>1
    <3>4. keep[at] = kept
      <4>1. CASE j > Len(b)
        <5>1. <<i + 1, j>> \in Places(a, b) /\ AtEnd(a, b, <<i + 1, j>>)
          BY <2>13, <4>1 DEF Ahead, AtEnd
        <5>2. QED
          BY <2>8, <2>11, <3>1, <4>1, <5>1
      <4>2. CASE j <= Len(b) /\ a[i] # b[j] /\ lcs[<<i + 1, j>>] >= lcs[<<i, j + 1>>]
        BY <2>5, <2>8, <2>13, <3>1, <4>2
      <4>3. QED
        BY <2>13, <4>1, <4>2
    <3>5. ShownFrom(<<e>> \o rest, a, b, i, j, IF e.op = "same" THEN {e.toLine} \cup kept ELSE kept)
      BY <2>4, <2>5, <2>13, <3>2, <3>3, OneMoreShown
    <3>6. QED
      BY <2>1, <2>6, <2>13, <3>1, <3>2, <3>4, <3>5
  <2>14. CASE /\ j \in 1 .. Len(b) /\ <<i, j + 1>> \in Ahead(a, b, at)
              /\ OutAt(out, lcs, a, b, at) = <<AddEntry(b, j)>> \o out[<<i, j + 1>>]
              /\ i > Len(a) \/ (i <= Len(a) /\ a[i] # b[j] /\ ~(lcs[<<i + 1, j>>] >= lcs[<<i, j + 1>>]))
    <3>1. PICK e, rest, kept : e = AddEntry(b, j) /\ rest = out[<<i, j + 1>>] /\ kept = keep[<<i, j + 1>>]
      OBVIOUS
    <3>2. /\ e \in Entries(a, b) /\ e.op = "add" /\ e.op # "same" /\ e.op # "del"
          /\ e.fromLine = 0 /\ e.toLine = j /\ e.text = b[j]
      BY <2>14, <3>1, EntriesTyped DEF AddEntry
    <3>3. ShownFrom(rest, a, b, i, j + 1, kept)
      BY <2>10, <2>14, <3>1
    <3>4. keep[at] = kept
      <4>1. CASE i > Len(a)
        <5>1. <<i, j + 1>> \in Places(a, b) /\ AtEnd(a, b, <<i, j + 1>>)
          BY <2>14, <4>1 DEF Ahead, AtEnd
        <5>2. QED
          BY <2>8, <2>11, <3>1, <4>1, <5>1
      <4>2. CASE i <= Len(a) /\ a[i] # b[j] /\ ~(lcs[<<i + 1, j>>] >= lcs[<<i, j + 1>>])
        BY <2>5, <2>8, <2>14, <3>1, <4>2
      <4>3. QED
        BY <2>14, <4>1, <4>2
    <3>5. ShownFrom(<<e>> \o rest, a, b, i, j, IF e.op = "same" THEN {e.toLine} \cup kept ELSE kept)
      BY <2>4, <2>5, <2>14, <3>2, <3>3, OneMoreShown
    <3>6. QED
      BY <2>1, <2>6, <2>14, <3>1, <3>2, <3>4, <3>5
  <2>15. CASE /\ i \in 1 .. Len(a) /\ j \in 1 .. Len(b) /\ a[i] = b[j]
              /\ <<i + 1, j + 1>> \in Ahead(a, b, at)
              /\ OutAt(out, lcs, a, b, at) = <<SameEntry(a, i, j)>> \o out[<<i + 1, j + 1>>]
    <3>1. PICK e, rest, kept : /\ e = SameEntry(a, i, j)
                               /\ rest = out[<<i + 1, j + 1>>] /\ kept = keep[<<i + 1, j + 1>>]
      OBVIOUS
    <3>2. /\ e \in Entries(a, b) /\ e.op = "same" /\ e.op # "add" /\ e.op # "del"
          /\ e.fromLine = i /\ e.toLine = j /\ e.text = a[i] /\ e.text = b[j]
      BY <2>15, <3>1, EntriesTyped DEF SameEntry
    <3>3. ShownFrom(rest, a, b, i + 1, j + 1, kept)
      BY <2>10, <2>15, <3>1
    <3>4. keep[at] = {e.toLine} \cup kept
      BY <2>5, <2>8, <2>15, <3>1, <3>2
    <3>5. ShownFrom(<<e>> \o rest, a, b, i, j, IF e.op = "same" THEN {e.toLine} \cup kept ELSE kept)
      BY <2>4, <2>5, <2>15, <3>2, <3>3, OneMoreShown
    <3>6. QED
      BY <2>1, <2>6, <2>15, <3>1, <3>2, <3>4, <3>5
  <2>16. QED
    BY <2>9, <2>12, <2>13, <2>14, <2>15 DEF OutGoesOn
<1>2. S = Places(a, b)
  <2>1. S \in SUBSET Places(a, b)
    OBVIOUS
  <2>2. \A at \in Places(a, b) : Ahead(a, b, at) \subseteq S => at \in S
    BY <1>1
  <2> HIDE DEF S
  <2>3. QED
    BY <2>1, <2>2, PlaceInduction
<1>3. QED
  BY <1>2

\* The history page shows two texts as they are (diffLines), whatever they are.
LEMMA DiffShowsBoth ==
  ASSUME NEW from \in Texts, NEW to \in Texts
  PROVE  ShownFrom(DiffLines(from, to), ViewLines(from), ViewLines(to), 1, 1,
                   LcsKeep(ViewLines(from), ViewLines(to)))
<1>1. PICK a, b : a = ViewLines(from) /\ b = ViewLines(to)
  OBVIOUS
<1>2. a \in Seq(Lines) /\ b \in Seq(Lines)
  <2>1. from \in Seq(Lines) /\ to \in Seq(Lines)
    BY TextsAreSequences
  <2>2. QED
    BY <1>1, <2>1 DEF ViewLines
<1>3. PICK lcs : lcs = LcsTable(a, b)
  OBVIOUS
<1>4. PICK keep : keep = CHOOSE walk : IsWalk(walk, lcs, a, b)
  OBVIOUS
<1>5. IsWalk(keep, lcs, a, b)
  BY <1>2, <1>4, WalkExists
<1>6. LcsKeep(a, b) = keep[<<1, 1>>]
  BY <1>3, <1>4 DEF LcsKeep, IsWalk, KeepAt
<1>7. PICK out : out = CHOOSE diff : IsOut(diff, lcs, a, b)
  OBVIOUS
<1>8. IsOut(out, lcs, a, b)
  BY <1>2, <1>7, OutExists
<1>9. DiffLines(from, to) = out[<<1, 1>>]
  <2>1. DiffLines(from, to) =
          (CHOOSE diff : IsOut(diff, LcsTable(ViewLines(from), ViewLines(to)),
                               ViewLines(from), ViewLines(to)))[<<1, 1>>]
    BY DEF DiffLines, IsOut, OutAt, SameEntry, DelEntry, AddEntry
  <2>2. QED
    BY <1>1, <1>3, <1>7, <2>1, Zenon
<1>10. <<1, 1>> \in Places(a, b)
  <2>1. Len(a) \in Nat /\ Len(b) \in Nat
    BY <1>2
  <2>2. QED
    BY <2>1 DEF Places
<1>11. ShownFrom(out[<<1, 1>>], a, b, <<1, 1>>[1], <<1, 1>>[2], keep[<<1, 1>>])
  BY <1>2, <1>5, <1>8, <1>10, OutShows
<1>12. QED
  BY <1>1, <1>6, <1>9, <1>11

LEMMA HistoryShows == SpanInv => HistoryShowsBoth
<1> SUFFICES ASSUME SpanInv PROVE HistoryShowsBoth
  OBVIOUS
<1>1. earlier \in Texts /\ page \in Texts
  BY DEF SpanInv
<1>2. PICK a, b : a = ViewLines(earlier) /\ b = ViewLines(page)
  OBVIOUS
<1>3. a \in Seq(Lines) /\ b \in Seq(Lines) /\ DOMAIN a = 1 .. Len(a) /\ DOMAIN b = 1 .. Len(b)
  <2>1. earlier \in Seq(Lines) /\ page \in Seq(Lines)
    BY <1>1, TextsAreSequences
  <2>2. a \in Seq(Lines) /\ b \in Seq(Lines)
    BY <1>2, <2>1 DEF ViewLines
  <2>3. QED
    BY <2>2
<1>4. PICK diff : diff = DiffLines(earlier, page)
  OBVIOUS
<1>5. ShownFrom(diff, a, b, 1, 1, LcsKeep(a, b))
  BY <1>1, <1>2, <1>4, DiffShowsBoth
<1>6. ShowsText(diff, FromLines(diff), a) /\ ShowsText(diff, ToLines(diff), b)
  BY <1>3, <1>5 DEF ShownFrom, ShowsFrom, ShowsText
<1>7. IsLongestCommon(KeptBy(diff), a, b)
  BY <1>3, <1>5, KeepIsLongest DEF ShownFrom
<1>8. OpsTell(diff)
  BY <1>5 DEF ShownFrom
<1>9. QED
  BY <1>2, <1>4, <1>6, <1>7, <1>8 DEF HistoryShowsBoth, FromLines, ToLines, KeptBy, OpsTell

\* The claims of a change quote the page at their offsets, and together they
\* quote exactly what changed (diffChangedSpans, verifyCitation and the gate).
THEOREM ClaimsQuoteTheChange == SpanSpec => []ClaimsPinTheChange
BY ClaimsPinned, SpanInvHolds, PTL

\* The history page shows both of its texts, and keeps a longest part that
\* they have in common (diffLines).
THEOREM HistoryShowsItsTexts == SpanSpec => []HistoryShowsBoth
BY HistoryShows, SpanInvHolds, PTL

-----------------------------------------------------------------------------
(* The version pages.                                                       *)

\* The rows of a section are its versions from the first to the last, none missing.
VersionRow == [kind : PageKinds, version : 1 .. MaxVersions]

RowsWithoutGaps ==
  /\ versionRows \subseteq VersionRow
  /\ \A kind \in PageKinds : \E n \in 0 .. MaxVersions : Numbers(versionRows, kind) = 1 .. n

\* What a page names is stored, and a link leads to a version and the one before it.
IsStored(kind, version) == [kind |-> kind, version |-> version] \in versionRows

LinksAreStored(shown) ==
  \A link \in shown.links :
    /\ link.from \in Int /\ link.to \in Int /\ link.from = link.to - 1
    /\ IsStored(shown.kind, link.from) /\ IsStored(shown.kind, link.to)

PagesName(shown) ==
  /\ shown.shows \in {"nothing", "missing", "short", "competitor", "history"}
  /\ shown.shows = "competitor" =>
       \A card \in shown.cards : card.kind \in PageKinds /\ IsStored(card.kind, card.version)
  /\ shown.shows = "history" =>
       /\ shown.kind \in PageKinds
       /\ IsStored(shown.kind, shown.from) /\ IsStored(shown.kind, shown.to)
       /\ LinksAreStored(shown)

\* The inductive invariant of the version pages.
PagesInv == RowsWithoutGaps /\ PagesName(tab) /\ LinksCompareNeighbours

\* Versions that are 1 .. n stand in that order.
LEMMA InOrder ==
  ASSUME NEW rows, NEW kind, NEW n \in Nat, Numbers(rows, kind) = 1 .. n
  PROVE  /\ VersionsOfKind(rows, kind) = [i \in 1 .. n |-> i]
         /\ Len(VersionsOfKind(rows, kind)) = n
<1>1. \A m \in Nat : Cardinality(1 .. m) = m
  <2> SUFFICES ASSUME NEW m \in Nat PROVE Cardinality(1 .. m) = m
    OBVIOUS
  <2>1. Cardinality(1 .. m) = IF 1 > m THEN 0 ELSE m - 1 + 1
    BY FS_Interval
  <2>2. QED
    BY <2>1
<1>2. \A v \in 1 .. n : Cardinality({w \in 1 .. n : w < v}) = v - 1
  <2> SUFFICES ASSUME NEW v \in 1 .. n PROVE Cardinality({w \in 1 .. n : w < v}) = v - 1
    OBVIOUS
  <2>1. {w \in 1 .. n : w < v} = 1 .. (v - 1) /\ v - 1 \in Nat
    OBVIOUS
  <2>2. QED
    BY <1>1, <2>1
<1>3. \A i \in 1 .. n : (CHOOSE v \in 1 .. n : Cardinality({w \in 1 .. n : w < v}) = i - 1) = i
  <2> SUFFICES ASSUME NEW i \in 1 .. n
               PROVE  (CHOOSE v \in 1 .. n : Cardinality({w \in 1 .. n : w < v}) = i - 1) = i
    OBVIOUS
  <2> DEFINE Before(v) == Cardinality({w \in 1 .. n : w < v})
  <2>1. \A v \in 1 .. n : Before(v) = v - 1
    BY <1>2
  <2> HIDE DEF Before
  <2>2. (CHOOSE v \in 1 .. n : Before(v) = i - 1) = i
    <3>1. PICK v : v = CHOOSE u \in 1 .. n : Before(u) = i - 1
      OBVIOUS
    <3>2. v \in 1 .. n /\ Before(v) = i - 1
      BY <2>1, <3>1
    <3>3. QED
      BY <2>1, <3>1, <3>2
  <2>3. QED
    BY <2>2 DEF Before
<1>4. VersionsOfKind(rows, kind)
        = [i \in 1 .. n |-> CHOOSE v \in 1 .. n : Cardinality({w \in 1 .. n : w < v}) = i - 1]
  <2>1. PICK versions : versions = Numbers(rows, kind)
    OBVIOUS
  <2>2. VersionsOfKind(rows, kind)
          = [i \in 1 .. Cardinality(versions) |->
               CHOOSE v \in versions : Cardinality({w \in versions : w < v}) = i - 1]
    BY <2>1 DEF VersionsOfKind
  <2>3. versions = 1 .. n /\ Cardinality(versions) = n
    BY <1>1, <2>1
  <2>4. QED
    BY <2>2, <2>3
<1>5. VersionsOfKind(rows, kind) = [i \in 1 .. n |-> i]
  BY <1>3, <1>4
<1>6. [i \in 1 .. n |-> i] \in Seq(Nat) /\ Len([i \in 1 .. n |-> i]) = n
  OBVIOUS
<1>7. QED
  BY <1>5, <1>6

\* The versions of a section, as the pages see them.
LEMMA VersionsSeen ==
  ASSUME RowsWithoutGaps, NEW kind \in PageKinds
  PROVE  \E n \in 0 .. MaxVersions :
           /\ VersionsOfKind(versionRows, kind) = [i \in 1 .. n |-> i]
           /\ Len(VersionsOfKind(versionRows, kind)) = n
           /\ Numbers(versionRows, kind) = 1 .. n
           /\ \A v : IsStored(kind, v) <=> v \in 1 .. n
<1>1. PICK n \in 0 .. MaxVersions : Numbers(versionRows, kind) = 1 .. n
  BY DEF RowsWithoutGaps
<1>2. n \in Nat
  BY VersionAssumption
<1>3. ASSUME NEW v PROVE IsStored(kind, v) <=> v \in Numbers(versionRows, kind)
  <2>1. ASSUME v \in Numbers(versionRows, kind) PROVE IsStored(kind, v)
    <3>1. PICK row \in versionRows : row.kind = kind /\ row.version = v
      BY <2>1 DEF Numbers
    <3>2. row = [kind |-> kind, version |-> v]
      BY <3>1 DEF RowsWithoutGaps, VersionRow
    <3>3. QED
      BY <3>1, <3>2 DEF IsStored
  <2>2. ASSUME IsStored(kind, v) PROVE v \in Numbers(versionRows, kind)
    <3>1. PICK row : row = [kind |-> kind, version |-> v]
      OBVIOUS
    <3>2. row \in versionRows /\ row.kind = kind /\ row.version = v
      BY <2>2, <3>1 DEF IsStored
    <3>3. QED
      BY <3>2 DEF Numbers
  <2>3. QED
    BY <2>1, <2>2
<1>4. QED
  BY <1>1, <1>2, <1>3, InOrder

\* A history page names stored versions, those of a link that is followed among them.
LEMMA HistoryPageNames ==
  ASSUME RowsWithoutGaps, NEW kind, NEW from, NEW to, NEW asked, NEW shown,
         shown = HistoryPage(kind, from, to, asked)
  PROVE  /\ PagesName(shown)
         /\ shown.shows \in {"missing", "short", "history"}
         /\ shown.shows = "history" =>
              /\ shown.asked = asked
              /\ kind \in PageKinds
              /\ shown.from \in Int /\ shown.to \in Int
              /\ IsStored(kind, from) /\ IsStored(kind, to) => shown.from = from /\ shown.to = to
              /\ from = Absent /\ to = Absent =>
                   /\ shown.from = shown.to - 1
                   /\ \A v : IsStored(kind, v) => v <= shown.to
<1>1. CASE kind \notin PageKinds
  <2>1. shown = [shows |-> "missing"]
    BY <1>1 DEF HistoryPage
  <2>2. shown.shows = "missing"
    BY <2>1
  <2>3. QED
    BY <2>2 DEF PagesName
<1>2. CASE kind \in PageKinds
  <2>1. PICK n \in 0 .. MaxVersions :
          /\ VersionsOfKind(versionRows, kind) = [i \in 1 .. n |-> i]
          /\ Len(VersionsOfKind(versionRows, kind)) = n
          /\ \A v : IsStored(kind, v) <=> v \in 1 .. n
    BY <1>2, VersionsSeen
  <2>2. n \in Nat
    BY VersionAssumption
  <2>3. PICK versions : versions = [i \in 1 .. n |-> i]
    OBVIOUS
  <2>4. versions = VersionsOfKind(versionRows, kind) /\ Len(versions) = n
    BY <2>1, <2>3
  <2>5. shown = IF n < 2 THEN [shows |-> "short"]
               ELSE [shows |-> "history", kind |-> kind, asked |-> asked,
                     from  |-> PickVersion(versions, from, versions[n - 1]),
                     to    |-> PickVersion(versions, to, versions[n]),
                     links |-> VersionDiffLinks(versions)]
    BY <1>2, <2>4 DEF HistoryPage
  <2>6. CASE n < 2
    <3>1. shown.shows = "short"
      BY <2>5, <2>6
    <3>2. QED
      BY <3>1 DEF PagesName
  <2>7. CASE ~(n < 2)
    <3>1. /\ shown.shows = "history" /\ shown.kind = kind /\ shown.asked = asked
          /\ shown.from = PickVersion(versions, from, versions[n - 1])
          /\ shown.to = PickVersion(versions, to, versions[n])
          /\ shown.links = VersionDiffLinks(versions)
      BY <2>5, <2>7
    <3>2. /\ n - 1 \in 1 .. n /\ n \in 1 .. n
          /\ versions[n - 1] = n - 1 /\ versions[n] = n
      BY <2>2, <2>3, <2>7
    <3>3. \A raw, otherwise : PickVersion(versions, raw, otherwise) =
                                IF raw \in 1 .. n THEN raw ELSE otherwise
      BY <2>3 DEF PickVersion
    <3>4. shown.from \in 1 .. n /\ shown.to \in 1 .. n
      BY <3>1, <3>2, <3>3
    <3>5. LinksAreStored(shown)
      <4>1. SUFFICES ASSUME NEW i \in 2 .. n
                     PROVE  /\ versions[i - 1] \in Int /\ versions[i] \in Int
                            /\ versions[i - 1] = versions[i] - 1
                            /\ IsStored(kind, versions[i - 1]) /\ IsStored(kind, versions[i])
        BY <2>4, <3>1 DEF LinksAreStored, VersionDiffLinks
      <4>2. versions[i - 1] = i - 1 /\ versions[i] = i /\ i - 1 \in 1 .. n /\ i \in 1 .. n
        BY <2>2, <2>3
      <4>3. QED
        BY <2>1, <4>2
    <3>6. PagesName(shown)
      BY <1>2, <2>1, <3>1, <3>4, <3>5 DEF PagesName
    <3>7. Absent \notin 1 .. n
      BY VersionAssumption
    <3>8. QED
      BY <1>2, <2>1, <2>2, <3>1, <3>2, <3>3, <3>4, <3>6, <3>7
  <2>8. QED
    BY <2>6, <2>7
<1>3. QED
  BY <1>1, <1>2

LEMMA PagesStep == PagesInv /\ [VersionNext]_versionVars => PagesInv'
<1> SUFFICES ASSUME PagesInv, [VersionNext]_versionVars PROVE PagesInv'
  OBVIOUS
<1>i. RowsWithoutGaps /\ PagesName(tab) /\ LinksCompareNeighbours
  BY DEF PagesInv
<1>k. ASSUME UNCHANGED versionRows
      PROVE  RowsWithoutGaps' /\ (PagesName(tab') => PagesName(tab)')
  BY <1>k, <1>i DEF RowsWithoutGaps, PagesName, LinksAreStored, IsStored, Numbers
<1>1. ASSUME NEW kind \in PageKinds, PublishVersion(kind) PROVE PagesInv'
  <2>1. PICK n \in 0 .. MaxVersions :
          /\ Len(VersionsOfKind(versionRows, kind)) = n
          /\ Numbers(versionRows, kind) = 1 .. n
    BY <1>i, VersionsSeen
  <2>2. n \in Nat /\ MaxVersions \in Nat
    BY VersionAssumption
  <2>3. /\ n + 1 <= MaxVersions /\ tab' = tab
        /\ versionRows' = versionRows \cup {[kind |-> kind, version |-> n + 1]}
    BY <1>1, <2>1 DEF PublishVersion
  <2>4. versionRows' \subseteq VersionRow
    BY <1>i, <2>2, <2>3 DEF RowsWithoutGaps, VersionRow
  <2>5. PICK row : row = [kind |-> kind, version |-> n + 1]
    OBVIOUS
  <2>6. row.kind = kind /\ row.version = n + 1 /\ versionRows' = versionRows \cup {row}
    BY <2>3, <2>5
  <2>7. Numbers(versionRows', kind) = Numbers(versionRows, kind) \cup {n + 1}
    BY <2>6 DEF Numbers
  <2>8. Numbers(versionRows', kind) = 1 .. n + 1 /\ n + 1 \in 0 .. MaxVersions
    <3>1. 1 .. n + 1 = (1 .. n) \cup {n + 1} /\ n + 1 \in 0 .. MaxVersions
      BY <2>2, <2>3
    <3>2. QED
      BY <2>1, <2>7, <3>1
  <2>9. \A other \in PageKinds \ {kind} : Numbers(versionRows', other) = Numbers(versionRows, other)
    BY <2>6 DEF Numbers
  <2>10. RowsWithoutGaps'
    BY <1>i, <2>4, <2>8, <2>9 DEF RowsWithoutGaps, Numbers
  <2>11. PagesName(tab)' /\ LinksCompareNeighbours'
    BY <1>i, <2>3 DEF PagesName, LinksAreStored, IsStored, LinksCompareNeighbours
  <2>12. QED
    BY <2>10, <2>11 DEF PagesInv
<1>2. CASE OpenCompetitor
  <2>1. tab' = [shows |-> "competitor", cards |-> {Card(head) : head \in LatestByKind(versionRows)}]
        /\ versionRows' = versionRows
    BY <1>2 DEF OpenCompetitor, CompetitorPage
  <2>2. ASSUME NEW head \in LatestByKind(versionRows)
        PROVE  Card(head).kind \in PageKinds /\ IsStored(Card(head).kind, Card(head).version)
    <3>1. head \in versionRows /\ Card(head).kind = head.kind /\ Card(head).version = head.version
      BY DEF LatestByKind, Card
    <3>2. head = [kind |-> head.kind, version |-> head.version] /\ head.kind \in PageKinds
      BY <1>i, <3>1 DEF RowsWithoutGaps, VersionRow
    <3>3. QED
      BY <3>1, <3>2 DEF IsStored
  <2>3. tab'.shows = "competitor" /\ tab'.cards = {Card(head) : head \in LatestByKind(versionRows)}
    BY <2>1
  <2>4. \A card \in tab'.cards : card.kind \in PageKinds /\ IsStored(card.kind, card.version)
    BY <2>2, <2>3
  <2>5. PagesName(tab')
    BY <2>3, <2>4 DEF PagesName
  <2>6. QED
    BY <1>k, <2>1, <2>3, <2>5 DEF PagesInv, LinksCompareNeighbours
<1>3. CASE OpenHistory
  <2>1. PICK card \in tab.cards :
          /\ tab.shows = "competitor" /\ versionRows' = versionRows
          /\ tab' = HistoryPage(card.kind, Absent, Absent, [by |-> "card", version |-> card.version])
    BY <1>3 DEF OpenHistory
  <2>2. IsStored(card.kind, card.version)
    BY <1>i, <2>1 DEF PagesName
  <2>3. PICK shown, asked : shown = tab' /\ asked = [by |-> "card", version |-> card.version]
    OBVIOUS
  <2>p. shown = HistoryPage(card.kind, Absent, Absent, asked)
    BY <2>1, <2>3
  <2>4. PagesName(shown) /\ (shown.shows = "history" =>
          /\ shown.asked = asked
          /\ shown.from = shown.to - 1
          /\ card.version <= shown.to /\ shown.to \in Int)
    BY <1>i, <2>2, <2>p, HistoryPageNames
  <2>5. card.version \in Int
    BY <1>i, <2>2 DEF IsStored, RowsWithoutGaps, VersionRow
  <2>6. shown.shows = "history" => shown.asked.by = "card" /\ shown.to >= shown.asked.version
    BY <2>3, <2>4, <2>5
  <2>7. LinksCompareNeighbours'
    BY <2>3, <2>4, <2>6 DEF LinksCompareNeighbours
  <2>8. QED
    BY <1>k, <2>1, <2>3, <2>4, <2>7 DEF PagesInv
<1>4. CASE FollowLink
  <2>1. PICK link \in tab.links :
          /\ tab.shows = "history" /\ versionRows' = versionRows
          /\ tab' = HistoryPage(tab.kind, link.from, link.to, [by |-> "link", version |-> link.to])
    BY <1>4 DEF FollowLink
  <2>2. /\ link.from = link.to - 1
        /\ IsStored(tab.kind, link.from) /\ IsStored(tab.kind, link.to)
    BY <1>i, <2>1 DEF PagesName, LinksAreStored
  <2>3. PICK shown, asked : shown = tab' /\ asked = [by |-> "link", version |-> link.to]
    OBVIOUS
  <2>p. shown = HistoryPage(tab.kind, link.from, link.to, asked)
    BY <2>1, <2>3
  <2>4. PagesName(shown) /\ (shown.shows = "history" =>
          /\ shown.asked = asked
          /\ shown.from = link.from /\ shown.to = link.to)
    BY <1>i, <2>2, <2>p, HistoryPageNames
  <2>5. shown.shows = "history" => /\ shown.asked.by = "link" /\ shown.to = shown.asked.version
                                  /\ shown.from = shown.to - 1
    BY <2>2, <2>3, <2>4
  <2>6. LinksCompareNeighbours'
    BY <2>3, <2>5 DEF LinksCompareNeighbours
  <2>7. QED
    BY <1>k, <2>1, <2>3, <2>4, <2>6 DEF PagesInv
<1>5. CASE TypeAddress
  <2>1. PICK kind \in PageKinds \cup {"unknown"}, from, to \in {Absent} \cup 0 .. MaxVersions :
          tab' = HistoryPage(kind, from, to, [by |-> "address"]) /\ versionRows' = versionRows
    BY <1>5 DEF TypeAddress
  <2>2. PICK shown, asked : shown = tab' /\ asked = [by |-> "address"]
    OBVIOUS
  <2>p. shown = HistoryPage(kind, from, to, asked)
    BY <2>1, <2>2
  <2>3. PagesName(shown) /\ (shown.shows = "history" => shown.asked = asked)
    BY <1>i, <2>p, HistoryPageNames
  <2>a. asked.by = "address"
    BY <2>2
  <2>4. LinksCompareNeighbours'
    BY <2>2, <2>3, <2>a DEF LinksCompareNeighbours
  <2>5. QED
    BY <1>k, <2>1, <2>2, <2>3, <2>4 DEF PagesInv
<1>6. CASE UNCHANGED versionVars
  BY <1>6, <1>i, <1>k DEF versionVars, PagesInv, LinksCompareNeighbours
<1>7. QED
  BY <1>1, <1>2, <1>3, <1>4, <1>5, <1>6 DEF VersionNext

LEMMA PagesStart == VersionInit => PagesInv
<1> SUFFICES ASSUME VersionInit PROVE PagesInv
  OBVIOUS
<1>1. versionRows = {} /\ tab = Blank /\ tab.shows = "nothing"
  BY DEF VersionInit, Blank
<1>2. \A kind : Numbers(versionRows, kind) = 1 .. 0
  BY <1>1 DEF Numbers
<1>3. 0 \in 0 .. MaxVersions
  BY VersionAssumption
<1>4. RowsWithoutGaps
  BY <1>1, <1>2, <1>3 DEF RowsWithoutGaps
<1>5. QED
  BY <1>1, <1>4 DEF PagesInv, PagesName, LinksCompareNeighbours

LEMMA PagesTyped == PagesInv => VersionTypeOK
BY DEF PagesInv, RowsWithoutGaps, VersionRow, PagesName, IsStored, VersionTypeOK

\* Whoever follows what the pages offer is shown a version against the one before it,
\* however many sections and versions there are.
\* (versionDiffLinks pairs each version with the one before it, competitor-views.ts)
THEOREM NeighboursCompared == VersionSpec => []LinksCompareNeighbours
BY PagesStart, PagesStep, PTL DEF VersionSpec, PagesInv
=============================================================================
