--------------------------- MODULE Synthesis_proofs ---------------------------
(***************************************************************************)
(* Synthesis for any number of overlapping nights, any competitors, deltas *)
(* and faults: the month passes the cap by at most one run for each night  *)
(* and one call of the tick, the versions of a section form one chain, what*)
(* is published is metered, and the nights implement SectionHistory.       *)
(***************************************************************************)
EXTENDS Synthesis, FiniteSetTheorems, SequenceTheorems, TLAPS

\* Fewer runs in flight reserve no more.
LEMMA ReservationsGrow ==
  ASSUME NEW m \in Nat, NEW j \in Nat, NEW k \in Nat, j <= k
  PROVE  j * m <= k * m
OBVIOUS

\* Metering a run uses up its reservation.
LEMMA ReservationUsed ==
  ASSUME NEW m \in Nat, NEW k \in Nat, k > 0
  PROVE  (k - 1) * m = k * m - m
OBVIOUS

-----------------------------------------------------------------------------
(* Projections are numbers: the sections form a finite set.                *)

LEMMA KindsListed ==
  Kinds \subseteq {"pricing", "overview", "product", "gtm", "team"}
                  \cup {"pricing_counter", "why_we_win", "landmines", "objections"}
BY DEF Kinds, Dossier, Classes, DossierAffected, BattlecardAffected

LEMMA KindsFinite == IsFiniteSet(Kinds)
<1> DEFINE A1 == {} \cup {"pricing"}           A2 == A1 \cup {"overview"}
           A3 == A2 \cup {"product"}           A4 == A3 \cup {"gtm"}
           A5 == A4 \cup {"team"}              A6 == A5 \cup {"pricing_counter"}
           A7 == A6 \cup {"why_we_win"}        A8 == A7 \cup {"landmines"}
           A9 == A8 \cup {"objections"}
<1>1. Kinds \subseteq A9
  BY KindsListed
<1> HIDE DEF A1, A2, A3, A4, A5, A6, A7, A8, A9
<1>2. IsFiniteSet(A1) /\ IsFiniteSet(A2) /\ IsFiniteSet(A3)
  BY FS_EmptySet, FS_AddElement DEF A1, A2, A3
<1>3. IsFiniteSet(A4) /\ IsFiniteSet(A5) /\ IsFiniteSet(A6)
  BY <1>2, FS_AddElement DEF A4, A5, A6
<1>4. IsFiniteSet(A7) /\ IsFiniteSet(A8) /\ IsFiniteSet(A9)
  BY <1>3, FS_AddElement DEF A7, A8, A9
<1>5. QED
  BY <1>1, <1>4, FS_Subset

LEMMA AffectedInKinds ==
  ASSUME NEW D \in SUBSET Deltas
  PROVE  Affected(D) \in SUBSET Kinds
<1>1. ASSUME NEW d \in D PROVE AffectedBy(d) \subseteq Kinds
  <2>1. Class[d] \in Classes
    BY ClassAssumption
  <2>2. QED
    BY <2>1 DEF AffectedBy, Kinds, Dossier
<1>2. QED
  BY <1>1 DEF Affected

LEMMA AffectedFinite ==
  ASSUME NEW D \in SUBSET Deltas
  PROVE  Cardinality(Affected(D)) \in Nat
BY AffectedInKinds, KindsFinite, FS_Subset, FS_CardinalityType

-----------------------------------------------------------------------------
(* What the budget argument needs to know of the types.                    *)

NightOK(night) ==
  /\ DOMAIN night = DOMAIN Idle
  /\ night.phase \in {"idle", "competitors", "collected", "writing", "publishing"}
  /\ night.deltas \subseteq Deltas
  /\ night.spentBefore \in Nat
  /\ night.cost \in Nat
  /\ night.phase \notin {"writing", "publishing"} => night.cost = 0

SpendTypeOK ==
  /\ material \subseteq Deltas
  /\ spent \in Nat
  /\ DOMAIN nights = Nights
  /\ \A n \in Nights : NightOK(nights[n])

LEMMA IdleOK == NightOK(Idle)
BY DEF NightOK, Idle

\* What a step does to the night it belongs to.
OnlyNight(n, night) ==
  /\ nights' = [nights EXCEPT ![n] = night]
  /\ NightOK(night)

\* The night back in the loop over the competitors, or idle, is out of flight.
Leaves(n) ==
  /\ n \in Nights
  /\ \E night : OnlyNight(n, night) /\ night.phase \notin {"writing", "publishing"}

\* The night goes on with its run, which it may only make dearer below the cap.
Continues(n) ==
  /\ n \in InFlight
  /\ \E night : /\ OnlyNight(n, night)
                /\ night.phase \in {"writing", "publishing"}
                /\ \/ night.cost = nights[n].cost
                   \/ /\ UnderCap(n)
                      /\ \E cost \in Costs : night.cost = nights[n].cost + cost

\* The gate lets the night through with an empty bill.
Enters(n) ==
  /\ n \in Nights
  /\ WithinBudget(spent, Projected(n))
  /\ \E night : OnlyNight(n, night) /\ night.cost = 0

\* Every step is one of: the tick pays, a night is metered and leaves, or the month
\* stays and one night, or none, moves.
SpendStep ==
  \/ /\ WithinBudget(spent, Estimate)
     /\ \E cost \in Costs : spent' = spent + cost
     /\ nights' = nights
  \/ \E n \in InFlight : Leaves(n) /\ spent' = spent + nights[n].cost
  \/ /\ spent' = spent
     /\ nights' = nights \/ \E n \in Nights : Leaves(n) \/ Continues(n) \/ Enters(n)

\* Back to the loop.
LEMMA NextCompetitorLeaves ==
  ASSUME SpendTypeOK, NEW n \in Nights, NextCompetitor(n)
  PROVE  Leaves(n)
<1> DEFINE night == [Idle EXCEPT !.phase = "competitors", !.todo = nights[n].todo]
<1>1. NightOK(night) /\ night.phase = "competitors"
  BY DEF NightOK, Idle
<1>2. nights' = [nights EXCEPT ![n] = night]
  BY DEF NextCompetitor
<1> HIDE DEF night
<1>3. QED
  BY <1>1, <1>2 DEF Leaves, OnlyNight

LEMMA StepIsSpendStep == SpendTypeOK /\ [Next]_vars => SpendStep
<1> SUFFICES ASSUME SpendTypeOK, [Next]_vars PROVE SpendStep
  OBVIOUS
<1>t. \A n \in Nights : NightOK(nights[n])
  BY DEF SpendTypeOK
<1>d. DOMAIN Idle = {"phase", "todo", "competitor", "deltas", "queue", "spentBefore",
                     "cost", "planned", "heads"}
  BY DEF Idle
<1>l. ASSUME NEW n \in Nights, Leaves(n), spent' = spent PROVE SpendStep
  BY <1>l DEF SpendStep
<1>1. CASE UNCHANGED vars
  BY <1>1 DEF vars, SpendStep
<1>2. ASSUME NEW d \in Deltas, ConfirmDelta(d) PROVE SpendStep
  BY <1>2 DEF ConfirmDelta, SpendStep
<1>3. ASSUME NEW cost \in Costs, TickSpends(cost) PROVE SpendStep
  BY <1>3 DEF TickSpends, SpendStep
<1>4. ASSUME NEW n \in Nights, StartNight(n) PROVE SpendStep
  <2> DEFINE night == [Idle EXCEPT !.phase = "competitors", !.todo = Competitors]
  <2>1. NightOK(night) /\ night.phase = "competitors"
    BY DEF NightOK, Idle
  <2>2. nights' = [nights EXCEPT ![n] = night] /\ spent' = spent
    BY <1>4 DEF StartNight
  <2> HIDE DEF night
  <2>3. QED
    BY <1>l, <2>1, <2>2 DEF Leaves, OnlyNight
<1>5. ASSUME NEW n \in Nights, NEW c \in Competitors, SkipCompetitor(n, c) PROVE SpendStep
  <2> DEFINE night == [nights[n] EXCEPT !.todo = @ \ {c}]
  <2>1. NightOK(night) /\ night.phase = "competitors"
    BY <1>5, <1>t, <1>d DEF SkipCompetitor, At, NightOK
  <2>2. nights' = [nights EXCEPT ![n] = night] /\ spent' = spent
    BY <1>5 DEF SkipCompetitor, SpendTypeOK
  <2> HIDE DEF night
  <2>3. QED
    BY <1>l, <2>1, <2>2 DEF Leaves, OnlyNight
<1>6. ASSUME NEW n \in Nights, NEW c \in Competitors, Collect(n, c) PROVE SpendStep
  <2> DEFINE night == [Idle EXCEPT !.phase = "collected", !.todo = nights[n].todo \ {c},
                                   !.competitor = c, !.deltas = MaterialOf(c)]
  <2>1. MaterialOf(c) \subseteq Deltas
    BY DEF MaterialOf, SpendTypeOK
  <2>2. NightOK(night) /\ night.phase = "collected"
    BY <2>1 DEF NightOK, Idle
  <2>3. nights' = [nights EXCEPT ![n] = night] /\ spent' = spent
    BY <1>6 DEF Collect
  <2> HIDE DEF night
  <2>4. QED
    BY <1>l, <2>2, <2>3 DEF Leaves, OnlyNight
<1>7. ASSUME NEW n \in Nights, AllowSynthesis(n) PROVE SpendStep
  <2> DEFINE night == [nights[n] EXCEPT !.phase = "writing",
                         !.queue = Affected(nights[n].deltas), !.spentBefore = spent]
  <2>1. NightOK(night)
    BY <1>t, <1>d DEF NightOK, SpendTypeOK
  <2>2. night.cost = 0
    BY <1>7, <1>t, <1>d DEF NightOK, AllowSynthesis, At
  <2>3. nights' = [nights EXCEPT ![n] = night] /\ spent' = spent
    BY <1>7 DEF AllowSynthesis, SpendTypeOK
  <2> HIDE DEF night
  <2>4. QED
    BY <1>7, <2>1, <2>2, <2>3 DEF Enters, OnlyNight, SpendStep, AllowSynthesis
<1>8. ASSUME NEW n \in Nights, NEW k \in Kinds, SkipKind(n, k) PROVE SpendStep
  <2> DEFINE night == [nights[n] EXCEPT !.queue = @ \ {k}]
  <2>1. NightOK(night) /\ night.phase = "writing" /\ night.cost = nights[n].cost
    BY <1>8, <1>t, <1>d DEF SkipKind, IsNextKind, At, NightOK
  <2>2. nights' = [nights EXCEPT ![n] = night] /\ spent' = spent /\ n \in InFlight
    BY <1>8 DEF SkipKind, IsNextKind, At, InFlight, SpendTypeOK
  <2> HIDE DEF night
  <2>3. Continues(n)
    BY <2>1, <2>2 DEF Continues, OnlyNight
  <2>4. QED
    BY <2>2, <2>3 DEF SpendStep
<1>9. ASSUME NEW n \in Nights, NEW k \in Kinds, NEW cost \in Costs, SynthesizeKind(n, k, cost)
      PROVE  SpendStep
  <2>1. PICK claims \in SUBSET Candidates(n, k) :
          nights' = [nights EXCEPT ![n] =
            [@ EXCEPT !.queue = nights[n].queue \ {k},
                      !.cost = nights[n].cost + cost,
                      !.planned = nights[n].planned \cup
                        {[kind |-> k, claims |-> claims, passed |-> Publishable(claims)]}]]
    BY <1>9 DEF SynthesizeKind
  <2> DEFINE night ==
        [nights[n] EXCEPT !.queue = nights[n].queue \ {k},
                          !.cost = nights[n].cost + cost,
                          !.planned = nights[n].planned \cup
                            {[kind |-> k, claims |-> claims, passed |-> Publishable(claims)]}]
  <2>2. cost \in Nat
    BY SynthesisAssumption
  <2>3. NightOK(night) /\ night.phase = "writing" /\ night.cost = nights[n].cost + cost
    BY <1>9, <1>t, <1>d, <2>2 DEF SynthesizeKind, IsNextKind, At, NightOK
  <2>4. nights' = [nights EXCEPT ![n] = night]
    BY <2>1 DEF SpendTypeOK
  <2>5. spent' = spent /\ n \in InFlight /\ UnderCap(n)
    BY <1>9 DEF SynthesizeKind, IsNextKind, At, InFlight
  <2> HIDE DEF night
  <2>6. Continues(n)
    BY <2>3, <2>4, <2>5 DEF Continues, OnlyNight
  <2>7. QED
    BY <2>5, <2>6 DEF SpendStep
<1>10. ASSUME NEW n \in Nights, ReadHeads(n) PROVE SpendStep
  <2> DEFINE night == [nights[n] EXCEPT !.phase = "publishing", !.queue = {},
                         !.heads = [k \in Kinds |-> Latest(nights[n].competitor, k)]]
  <2>1. NightOK(night) /\ night.phase = "publishing" /\ night.cost = nights[n].cost
    BY <1>10, <1>t, <1>d DEF ReadHeads, At, NightOK
  <2>2. nights' = [nights EXCEPT ![n] = night] /\ spent' = spent /\ n \in InFlight
    BY <1>10 DEF ReadHeads, At, InFlight, SpendTypeOK
  <2> HIDE DEF night
  <2>3. Continues(n)
    BY <2>1, <2>2 DEF Continues, OnlyNight
  <2>4. QED
    BY <2>2, <2>3 DEF SpendStep
<1>11. ASSUME NEW n \in Nights, DenySynthesis(n) \/ RunFails(n) \/ PublishConflicts(n)
       PROVE  SpendStep
  BY <1>11, <1>l, NextCompetitorLeaves DEF DenySynthesis, RunFails, PublishConflicts
<1>12. ASSUME NEW n \in Nights, PublishSections(n) PROVE SpendStep
  <2>1. Leaves(n) /\ n \in InFlight /\ spent' = spent + nights[n].cost
    BY <1>12, NextCompetitorLeaves DEF PublishSections, At, InFlight
  <2>2. QED
    BY <2>1 DEF SpendStep
<1>13. ASSUME NEW n \in Nights, FinishNight(n) \/ Crash(n) PROVE SpendStep
  <2>1. nights' = [nights EXCEPT ![n] = Idle] /\ spent' = spent
    BY <1>13 DEF FinishNight, Crash
  <2>2. Idle.phase = "idle"
    BY DEF Idle
  <2>3. QED
    BY <1>l, <2>1, <2>2, IdleOK DEF Leaves, OnlyNight
<1>14. QED
  BY <1>1, <1>2, <1>3, <1>4, <1>5, <1>6, <1>7, <1>8, <1>9, <1>10, <1>11, <1>12, <1>13
     DEF Next, RunSynthesis

-----------------------------------------------------------------------------
(* The invariant.                                                          *)

\* One night's step leaves the others alone.
LEMMA OthersStay ==
  ASSUME SpendTypeOK, NEW n \in Nights, NEW night, OnlyNight(n, night)
  PROVE  /\ DOMAIN nights' = Nights
         /\ nights'[n] = night
         /\ \A m \in Nights : m # n => nights'[m] = nights[m]
         /\ \A m \in Nights : NightOK(nights'[m])
BY DEF SpendTypeOK, OnlyNight

LEMMA SpendTypeInductive == SpendTypeOK /\ [Next]_vars => SpendTypeOK'
<1> SUFFICES ASSUME SpendTypeOK, [Next]_vars PROVE SpendTypeOK'
  OBVIOUS
<1>1. SpendStep
  BY StepIsSpendStep
<1>2. material' \subseteq Deltas
  BY DEF SpendTypeOK, Next, vars, ConfirmDelta, TickSpends, StartNight, RunSynthesis,
         SkipCompetitor, Collect, DenySynthesis, AllowSynthesis, SkipKind,
         SynthesizeKind, RunFails, ReadHeads, PublishSections, PublishConflicts,
         FinishNight, Crash
<1>3. spent' \in Nat
  <2>1. \A cost \in Costs : cost \in Nat
    BY SynthesisAssumption
  <2>2. \A n \in InFlight : nights[n].cost \in Nat
    BY DEF InFlight, SpendTypeOK, NightOK
  <2>3. QED
    BY <1>1, <2>1, <2>2 DEF SpendStep, SpendTypeOK
<1>4. nights' = nights \/ \E n \in Nights : \E night : OnlyNight(n, night)
  BY <1>1 DEF SpendStep, Leaves, Continues, Enters, InFlight
<1>5. DOMAIN nights' = Nights /\ \A n \in Nights : NightOK(nights'[n])
  BY <1>4, OthersStay DEF SpendTypeOK
<1>6. QED
  BY <1>2, <1>3, <1>5 DEF SpendTypeOK, NightOK

\* The nights in flight are some of the nights.
LEMMA InFlightFinite ==
  /\ IsFiniteSet(InFlight) /\ Cardinality(InFlight) \in Nat
  /\ Cardinality(InFlight) <= Cardinality(Nights) /\ Cardinality(Nights) \in Nat
BY SynthesisAssumption, FS_Subset, FS_CardinalityType DEF InFlight

\* No run in flight is ever dearer than the limit.
LEMMA RunsStayBelowLimit ==
  SpendTypeOK /\ RunsAreReserved /\ SpendStep
    => \A n \in InFlight' : nights'[n].cost <= RunLimit
<1> SUFFICES ASSUME SpendTypeOK, RunsAreReserved, SpendStep, NEW m \in InFlight'
             PROVE  nights'[m].cost <= RunLimit
  OBVIOUS
<1>c. Cap \in Nat \ {0} /\ MaxCost \in Nat \ {0} /\ RunLimit \in Nat
  BY SynthesisAssumption DEF RunLimit
<1>m. m \in Nights
  BY DEF InFlight
<1>b. \A n \in InFlight : nights[n].cost <= RunLimit
  BY DEF RunsAreReserved
<1>1. CASE nights' = nights
  BY <1>1, <1>b DEF InFlight
<1>2. ASSUME NEW n \in Nights, Leaves(n) PROVE nights'[m].cost <= RunLimit
  <2>1. PICK night : OnlyNight(n, night) /\ night.phase \notin {"writing", "publishing"}
    BY <1>2 DEF Leaves
  <2>2. m # n /\ nights'[m] = nights[m]
    BY <1>m, <2>1, OthersStay DEF InFlight
  <2>3. QED
    BY <1>b, <2>2 DEF InFlight
<1>3. ASSUME NEW n \in Nights, Continues(n) PROVE nights'[m].cost <= RunLimit
  <2>1. PICK night : /\ OnlyNight(n, night)
                     /\ \/ night.cost = nights[n].cost
                        \/ /\ UnderCap(n)
                           /\ \E cost \in Costs : night.cost = nights[n].cost + cost
    BY <1>3 DEF Continues
  <2>2. CASE m # n
    <3>1. nights'[m] = nights[m]
      BY <1>m, <2>1, <2>2, OthersStay
    <3>2. QED
      BY <1>b, <3>1 DEF InFlight
  <2>3. CASE m = n /\ night.cost = nights[n].cost
    BY <1>3, <1>b, <2>1, <2>3, OthersStay DEF Continues
  <2>4. ASSUME m = n, UnderCap(n), NEW cost \in Costs, night.cost = nights[n].cost + cost
        PROVE  nights'[m].cost <= RunLimit
    <3>1. nights'[m].cost = nights[n].cost + cost
      BY <2>1, <2>4, OthersStay
    <3>2. nights[n].spentBefore \in Nat /\ nights[n].cost \in Nat
      BY DEF SpendTypeOK, NightOK
    <3>3. cost \in Nat /\ cost <= MaxCost
      BY SynthesisAssumption
    <3>4. nights[n].spentBefore + nights[n].cost < Cap
      BY <2>4 DEF UnderCap
    <3>5. QED
      BY <1>c, <3>1, <3>2, <3>3, <3>4 DEF RunLimit
  <2>5. QED
    BY <2>1, <2>2, <2>3, <2>4
<1>4. ASSUME NEW n \in Nights, Enters(n) PROVE nights'[m].cost <= RunLimit
  <2>1. PICK night : OnlyNight(n, night) /\ night.cost = 0
    BY <1>4 DEF Enters
  <2>2. CASE m = n
    BY <1>c, <2>1, <2>2, OthersStay
  <2>3. CASE m # n
    <3>1. nights'[m] = nights[m]
      BY <1>m, <2>1, <2>3, OthersStay
    <3>2. QED
      BY <1>b, <3>1 DEF InFlight
  <2>4. QED
    BY <2>2, <2>3
<1>5. QED
  BY <1>1, <1>2, <1>3, <1>4 DEF SpendStep, InFlight

\* A month within the cap, and one call, leave room for every night.
LEMMA RoomForAll ==
  ASSUME NEW s \in Nat, s <= Cap + MaxCost, NEW k \in Nat, NEW n \in Nat, k <= n
  PROVE  s + k * RunLimit <= Cap + MaxCost + n * RunLimit
<1>1. RunLimit \in Nat /\ Cap \in Nat /\ MaxCost \in Nat
  BY SynthesisAssumption DEF RunLimit
<1>2. k * RunLimit <= n * RunLimit /\ k * RunLimit \in Nat /\ n * RunLimit \in Nat
  BY <1>1, ReservationsGrow
<1> DEFINE kr == k * RunLimit
           nr == n * RunLimit
<1>3. kr <= nr /\ kr \in Nat /\ nr \in Nat
  BY <1>2
<1> HIDE DEF kr, nr
<1>4. s + kr <= Cap + MaxCost + nr
  BY <1>1, <1>3
<1>5. QED
  BY <1>4 DEF kr, nr

LEMMA ReservedStep == SpendTypeOK /\ RunsAreReserved /\ [Next]_vars => RunsAreReserved'
<1> SUFFICES ASSUME SpendTypeOK, RunsAreReserved, [Next]_vars PROVE RunsAreReserved'
  OBVIOUS
<1> DEFINE k == Cardinality(InFlight)
           total == Cardinality(Nights)
           Room == spent + k * RunLimit <= Cap + MaxCost + total * RunLimit
<1>1. SpendStep /\ SpendTypeOK'
  BY StepIsSpendStep, SpendTypeInductive
<1>2. \A n \in InFlight' : nights'[n].cost <= RunLimit
  BY <1>1, RunsStayBelowLimit
<1>3. /\ k \in Nat /\ k' \in Nat /\ total \in Nat /\ k <= total /\ k' <= total
      /\ IsFiniteSet(InFlight) /\ IsFiniteSet(InFlight')
  BY SynthesisAssumption, FS_Subset, FS_CardinalityType DEF InFlight
<1>4. spent \in Nat /\ spent' \in Nat /\ RunLimit \in Nat /\ Cap \in Nat /\ MaxCost \in Nat
  BY <1>1, SynthesisAssumption DEF SpendTypeOK, RunLimit
<1>5. Room
  BY DEF RunsAreReserved
<1>6. SUFFICES Room'
  BY <1>2 DEF RunsAreReserved
<1>7. ASSUME spent' <= Cap + MaxCost PROVE Room'
  <2> HIDE DEF k, total
  <2>1. spent' + k' * RunLimit <= Cap + MaxCost + total * RunLimit
    BY <1>3, <1>4, <1>7, RoomForAll
  <2>2. QED
    BY <2>1 DEF total, k, RunLimit
<1>8. ASSUME spent' = spent, InFlight' \subseteq InFlight PROVE Room'
  <2>1. k' <= k
    BY <1>3, <1>8, FS_Subset
  <2> DEFINE kr == k * RunLimit
             kr1 == k' * RunLimit
             nr == total * RunLimit
  <2>2. kr1 <= kr /\ kr \in Nat /\ kr1 \in Nat /\ nr \in Nat
    BY <1>3, <1>4, <2>1, ReservationsGrow
  <2>3. spent + kr <= Cap + MaxCost + nr
    BY <1>5
  <2> HIDE DEF k, total, kr, kr1, nr
  <2>4. spent + kr1 <= Cap + MaxCost + nr
    BY <1>4, <2>2, <2>3
  <2>5. QED
    BY <1>8, <2>4 DEF kr1, nr, k, total, RunLimit
<1>9. CASE /\ WithinBudget(spent, Estimate)
           /\ \E cost \in Costs : spent' = spent + cost
  <2>1. spent' <= Cap + MaxCost
    BY <1>4, <1>9, SynthesisAssumption DEF WithinBudget
  <2>2. QED
    BY <1>7, <2>1
<1>10. ASSUME NEW n \in InFlight, Leaves(n), spent' = spent + nights[n].cost PROVE Room'
  <2>1. n \in Nights
    BY DEF InFlight
  <2>2. PICK night : OnlyNight(n, night) /\ night.phase \notin {"writing", "publishing"}
    BY <1>10 DEF Leaves
  <2>3. InFlight' = InFlight \ {n}
    BY <2>1, <2>2, OthersStay DEF InFlight
  <2>4. k > 0 /\ k' = k - 1
    BY <1>3, <2>3, FS_RemoveElement, FS_EmptySet
  <2>5. nights[n].cost <= RunLimit /\ nights[n].cost \in Nat
    BY <2>1 DEF RunsAreReserved, SpendTypeOK, NightOK
  <2> DEFINE kr == k * RunLimit
             kr1 == k' * RunLimit
             nr == total * RunLimit
             cost == nights[n].cost
  <2>6. kr1 = kr - RunLimit /\ kr \in Nat /\ kr1 \in Nat /\ nr \in Nat
    BY <1>3, <1>4, <2>4, ReservationUsed
  <2>7. spent + kr <= Cap + MaxCost + nr
    BY <1>5
  <2>8. spent' = spent + cost /\ cost <= RunLimit /\ cost \in Nat
    BY <1>10, <2>5
  <2> HIDE DEF k, total, kr, kr1, nr, cost
  <2>9. spent' + kr1 <= Cap + MaxCost + nr
    BY <1>4, <2>6, <2>7, <2>8
  <2>10. QED
    BY <2>9 DEF kr1, nr, k, total, RunLimit
<1>11. CASE spent' = spent /\ nights' = nights
  BY <1>8, <1>11 DEF InFlight
<1>12. ASSUME NEW n \in Nights, spent' = spent, Leaves(n) PROVE Room'
  <2>1. PICK night : OnlyNight(n, night) /\ night.phase \notin {"writing", "publishing"}
    BY <1>12 DEF Leaves
  <2>2. InFlight' \subseteq InFlight
    BY <2>1, OthersStay DEF InFlight
  <2>3. QED
    BY <1>8, <1>12, <2>2
<1>13. ASSUME NEW n \in Nights, spent' = spent, Continues(n) PROVE Room'
  <2>1. PICK night : OnlyNight(n, night)
    BY <1>13 DEF Continues
  <2>2. InFlight' \subseteq InFlight
    BY <1>13, <2>1, OthersStay DEF Continues, InFlight
  <2>3. QED
    BY <1>8, <1>13, <2>2
<1>14. ASSUME NEW n \in Nights, spent' = spent, Enters(n) PROVE Room'
  <2>1. Projected(n) \in Nat
    <3>1. Cardinality(Affected(nights[n].deltas)) \in Nat
      BY AffectedFinite DEF SpendTypeOK, NightOK
    <3>2. QED
      BY <3>1, SynthesisAssumption DEF Projected
  <2>2. spent' <= Cap + MaxCost
    BY <1>4, <1>14, <2>1 DEF Enters, WithinBudget
  <2>3. QED
    BY <1>7, <2>2
<1>15. QED
  BY <1>1, <1>9, <1>10, <1>11, <1>12, <1>13, <1>14 DEF SpendStep

LEMMA InitiallyReserved == Init => SpendTypeOK /\ RunsAreReserved
<1> SUFFICES ASSUME Init PROVE SpendTypeOK /\ RunsAreReserved
  OBVIOUS
<1>1. SpendTypeOK
  BY IdleOK DEF Init, SpendTypeOK
<1>2. InFlight = {} /\ spent = 0
  BY DEF Init, InFlight, Idle
<1>3. Cardinality(InFlight) = 0 /\ Cardinality(Nights) \in Nat
  BY <1>2, FS_EmptySet, InFlightFinite
<1>4. 0 + 0 * RunLimit <= Cap + MaxCost + Cardinality(Nights) * RunLimit
  BY <1>3, RoomForAll, SynthesisAssumption
<1>5. QED
  BY <1>1, <1>2, <1>3, <1>4 DEF RunsAreReserved

\* Whatever the nights and the tick interleave, every run still to be metered is
\* reserved, and none is dearer than the limit.
THEOREM Reserved == Spec => []RunsAreReserved
<1>1. SpendTypeOK /\ RunsAreReserved /\ [Next]_vars => (SpendTypeOK /\ RunsAreReserved)'
  BY SpendTypeInductive, ReservedStep
<1>2. QED
  BY InitiallyReserved, <1>1, PTL DEF Spec

\* The metered spend passes the cap by at most one run per overlapping night and
\* one call of the tick.
THEOREM SoftCap == Spec => []OvershootIsOneRunPerNight
<1>1. SpendTypeOK /\ RunsAreReserved => OvershootIsOneRunPerNight
  <2> SUFFICES ASSUME SpendTypeOK, RunsAreReserved PROVE OvershootIsOneRunPerNight
    OBVIOUS
  <2> DEFINE kr == Cardinality(InFlight) * RunLimit
             nr == Cardinality(Nights) * RunLimit
  <2>1. RunLimit \in Nat /\ Cap \in Nat /\ MaxCost \in Nat /\ spent \in Nat
    BY SynthesisAssumption DEF RunLimit, SpendTypeOK
  <2>2. kr \in Nat /\ nr \in Nat
    BY <2>1, InFlightFinite
  <2>3. spent + kr <= Cap + MaxCost + nr
    BY DEF RunsAreReserved
  <2> HIDE DEF kr, nr
  <2>4. spent <= Cap + MaxCost + nr
    BY <2>1, <2>2, <2>3
  <2>5. QED
    BY <2>4 DEF OvershootIsOneRunPerNight, nr
<1>2. SpendTypeOK /\ RunsAreReserved /\ [Next]_vars => (SpendTypeOK /\ RunsAreReserved)'
  BY SpendTypeInductive, ReservedStep
<1>3. QED
  BY InitiallyReserved, <1>1, <1>2, PTL DEF Spec


-----------------------------------------------------------------------------
(* The chains of versions.                                                 *)

\* A section is planned once, after it left the queue, from the deltas collected,
\* with the verdict of the gate.
PlannedOK(night) ==
  /\ \A p \in night.planned :
       /\ p.kind \in Affected(night.deltas) \ night.queue
       /\ \A d \in p.claims : /\ d \in night.deltas \ Uncited
                              /\ p.kind \in AffectedBy(d)
       /\ p.passed = Publishable(p.claims)
  /\ \A p, q \in night.planned : p.kind = q.kind => p = q

\* What holds of the local state of a night, whatever the others do.
NightTyped(night) ==
  /\ night \in NightState
  /\ \A d \in night.deltas : Owner[d] = night.competitor
  /\ night.queue \subseteq Affected(night.deltas)
  /\ IsFiniteSet(night.planned)
  /\ night.phase \notin {"writing", "publishing"} => night.planned = {}
  /\ PlannedOK(night)

\* The latest rows a publishing night read are rows of their sections.
HeadsExist(night) ==
  night.phase = "publishing" =>
    \A k \in Kinds : night.heads[k] \in {None} \cup RowsOf(night.competitor, k)

\* The versions of a section number its rows, and each row supersedes the row of the
\* version before its own.
Numbered(rows) ==
  /\ \A i \in rows : sections[i].version \in 1 .. Cardinality(rows)
  /\ \A v \in 1 .. Cardinality(rows) : \E i \in rows : sections[i].version = v
  /\ \A i, j \in rows : sections[i].version = sections[j].version => i = j
  /\ \A i \in rows : IF sections[i].version = 1
                     THEN sections[i].supersedes = None
                     ELSE \E j \in rows : /\ sections[i].supersedes = j
                                          /\ sections[j].version = sections[i].version - 1

\* The inductive invariant of the chains.
ChainInv ==
  /\ material \subseteq Deltas /\ spent \in Nat
  /\ sections \in Seq(Section)
  /\ nights \in [Nights -> NightState]
  /\ \A n \in Nights : NightTyped(nights[n]) /\ HeadsExist(nights[n])
  /\ \A i \in DOMAIN sections :
       /\ sections[i].claims # {}
       /\ \A d \in sections[i].claims :
            d \in Citable(<<sections[i].competitor, sections[i].kind>>)
  /\ \A c \in Competitors, k \in Kinds : Numbered(RowsOf(c, k))

\* The rows of a section are finitely many positions.
LEMMA RowsFinite ==
  ASSUME sections \in Seq(Section), NEW c, NEW k
  PROVE  /\ IsFiniteSet(RowsOf(c, k)) /\ Cardinality(RowsOf(c, k)) \in Nat
         /\ RowsOf(c, k) \subseteq DOMAIN sections
         /\ DOMAIN sections = 1 .. Len(sections) /\ Len(sections) \in Nat
<1>1. DOMAIN sections = 1 .. Len(sections) /\ Len(sections) \in Nat
  BY LenProperties
<1>2. IsFiniteSet(1 .. Len(sections))
  BY <1>1, FS_Interval
<1>3. RowsOf(c, k) \subseteq DOMAIN sections
  BY DEF RowsOf
<1>4. QED
  BY <1>1, <1>2, <1>3, FS_Subset, FS_CardinalityType

\* The latest row of a section is one of its rows.
LEMMA LatestIsRow ==
  ASSUME sections \in Seq(Section), NEW c, NEW k, Numbered(RowsOf(c, k))
  PROVE  Latest(c, k) \in {None} \cup RowsOf(c, k) /\ Latest(c, k) \in Nat
<1>f. /\ IsFiniteSet(RowsOf(c, k)) /\ Cardinality(RowsOf(c, k)) \in Nat
      /\ RowsOf(c, k) \subseteq Nat
  BY RowsFinite
<1>1. CASE RowsOf(c, k) = {}
  BY <1>1 DEF Latest, None
<1>2. CASE RowsOf(c, k) # {}
  <2>1. Cardinality(RowsOf(c, k)) \in 1 .. Cardinality(RowsOf(c, k))
    <3>1. Cardinality(RowsOf(c, k)) # 0
      BY <1>f, <1>2, FS_EmptySet
    <3>2. QED
      BY <3>1, <1>f
  <2>2. PICK i \in RowsOf(c, k) : sections[i].version = Cardinality(RowsOf(c, k))
    BY <2>1 DEF Numbered
  <2>3. \A j \in RowsOf(c, k) : sections[j].version <= sections[i].version
    BY <2>2, <1>f DEF Numbered
  <2>4. i \in LatestSections(c, k)
    BY <2>3 DEF LatestSections
  <2>5. LatestSections(c, k) \subseteq RowsOf(c, k)
    BY DEF LatestSections
  <2>6. QED
    BY <1>f, <1>2, <2>4, <2>5 DEF Latest
<1>3. QED
  BY <1>1, <1>2

\* What the publishing transaction does to the rows: it appends, each row once.
LEMMA InsertedRows ==
  ASSUME sections \in Seq(Section), NEW rows \in SUBSET Section, IsFiniteSet(rows)
  PROVE  /\ Inserted(rows) \in Seq(Section)
         /\ Len(Inserted(rows)) = Len(sections) + Cardinality(rows)
         /\ DOMAIN sections \subseteq DOMAIN Inserted(rows)
         /\ \A i \in DOMAIN sections : Inserted(rows)[i] = sections[i]
         /\ \A i \in DOMAIN Inserted(rows) \ DOMAIN sections : Inserted(rows)[i] \in rows
         /\ \A row \in rows : \E i \in DOMAIN Inserted(rows) \ DOMAIN sections :
              /\ Inserted(rows)[i] = row
              /\ \A j \in DOMAIN Inserted(rows) \ DOMAIN sections :
                   Inserted(rows)[j] = row => j = i
<1> DEFINE n == Cardinality(rows)
           m == Len(sections)
           s == SetToSeq(rows)
           t == Inserted(rows)
<1>1. n \in Nat /\ ExistsBijection(1 .. n, rows)
  BY FS_CardinalityType
<1>2. s \in [1 .. n -> rows] /\ IsInjective(s)
  <2>1. PICK f : f \in Bijection(1 .. n, rows)
    BY <1>1 DEF ExistsBijection
  <2>2. f \in [1 .. n -> rows] /\ IsInjective(f)
    BY <2>1 DEF Bijection, Injection
  <2>3. QED
    BY <2>2 DEF SetToSeq
<1>3. \A row \in rows : \E i \in 1 .. n : s[i] = row
  <2>1. s \in Injection(1 .. n, rows)
    BY <1>2 DEF Injection
  <2>2. Cardinality(1 .. n) = n
    BY <1>1, FS_Interval
  <2>3. s \in Surjection(1 .. n, rows)
    BY <2>1, <2>2, FS_Injection
  <2>4. QED
    BY <2>3 DEF Surjection
<1>4. s \in Seq(Section) /\ Len(s) = n /\ DOMAIN s = 1 .. n
  <2>1. s \in [1 .. n -> Section]
    BY <1>2
  <2>2. QED
    BY <1>1, <2>1
<1>5. m \in Nat /\ DOMAIN sections = 1 .. m
  BY LenProperties
<1>6. t = sections \o s
  BY DEF Inserted
<1>7. t \in Seq(Section) /\ Len(t) = m + n
  BY <1>4, <1>6, ConcatProperties
<1>8. DOMAIN t = 1 .. m + n
  BY <1>7, LenProperties
<1>9. \A i \in 1 .. m + n : t[i] = IF i <= m THEN sections[i] ELSE s[i - m]
  BY <1>4, <1>6, ConcatProperties
<1> HIDE DEF n, m, s, t
<1>10. \A i \in DOMAIN t \ DOMAIN sections : i - m \in 1 .. n /\ t[i] = s[i - m]
  BY <1>1, <1>5, <1>8, <1>9
<1>11. ASSUME NEW row \in rows
       PROVE  \E i \in DOMAIN t \ DOMAIN sections :
                /\ t[i] = row
                /\ \A j \in DOMAIN t \ DOMAIN sections : t[j] = row => j = i
  <2>1. PICK x \in 1 .. n : s[x] = row
    BY <1>3
  <2>2. m + x \in DOMAIN t \ DOMAIN sections /\ (m + x) - m = x
    BY <1>1, <1>5, <1>8
  <2>3. t[m + x] = row
    BY <2>1, <2>2, <1>10
  <2>4. ASSUME NEW j \in DOMAIN t \ DOMAIN sections, t[j] = row PROVE j = m + x
    <3>1. j - m \in 1 .. n /\ s[j - m] = row
      BY <2>4, <1>10
    <3>2. j - m = x
      BY <3>1, <2>1, <1>2 DEF IsInjective
    <3>3. j \in Nat
      BY <1>8, <1>1, <1>5
    <3>4. QED
      BY <3>2, <3>3, <1>5, <1>1
  <2>5. QED
    BY <2>2, <2>3, <2>4
<1>12. /\ DOMAIN sections \subseteq DOMAIN t
       /\ \A i \in DOMAIN sections : t[i] = sections[i]
  BY <1>1, <1>5, <1>8, <1>9
<1>13. \A i \in DOMAIN t \ DOMAIN sections : t[i] \in rows
  BY <1>10, <1>2
<1>14. QED
  BY <1>7, <1>11, <1>12, <1>13 DEF t, m, n

\* A section gains its next version, which supersedes the one before and cites what
\* the section may cite.
Extended(c, k, i) ==
  /\ i \notin DOMAIN sections
  /\ RowsOf(c, k)' = RowsOf(c, k) \cup {i}
  /\ sections'[i].version = Cardinality(RowsOf(c, k)) + 1
  /\ IF Cardinality(RowsOf(c, k)) = 0
     THEN sections'[i].supersedes = None
     ELSE \E j \in RowsOf(c, k) : /\ sections'[i].supersedes = j
                                  /\ sections[j].version = Cardinality(RowsOf(c, k))
  /\ sections'[i].claims # {} /\ sections'[i].claims \subseteq Citable(<<c, k>>)

\* What any step does to the rows: every section stays, or gains a version.
RowsGrow ==
  /\ sections' \in Seq(Section)
  /\ \A i \in DOMAIN sections : i \in DOMAIN sections' /\ sections'[i] = sections[i]
  /\ \A c \in Competitors, k \in Kinds :
       \/ RowsOf(c, k)' = RowsOf(c, k)
       \/ \E i \in DOMAIN sections' : Extended(c, k, i)

\* A version that passed the gate cites what its section may cite.
LEMMA PassedCites ==
  ASSUME NEW night, NightTyped(night), NEW p \in night.planned, p.passed
  PROVE  p.claims # {} /\ p.claims \subseteq Citable(<<night.competitor, p.kind>>)
<1>1. p \in Plan /\ night.deltas \subseteq Deltas
  BY DEF NightTyped, NightState
<1>2. p.claims # {} /\ p.claims \cap Corrupt = {}
  BY DEF NightTyped, PlannedOK, Publishable
<1>3. ASSUME NEW d \in p.claims PROVE d \in Citable(<<night.competitor, p.kind>>)
  <2>1. d \in night.deltas \ Uncited /\ p.kind \in AffectedBy(d) /\ d \notin Corrupt
    BY <1>2 DEF NightTyped, PlannedOK
  <2>2. Owner[d] = night.competitor /\ d \in Deltas
    BY <1>1, <2>1 DEF NightTyped
  <2>3. QED
    BY <2>1, <2>2 DEF Citable
<1>4. QED
  BY <1>2, <1>3

\* The head a publishing night read is the last version, or the constraint fails.
LEMMA NextVersion ==
  ASSUME ChainInv, NEW n \in Nights, At(n, "publishing"), VersionsFree(n),
         NEW p \in Passed(n)
  PROVE  LET c == nights[n].competitor
             rows == RowsOf(c, p.kind)
             h == nights[n].heads[p.kind]
         IN  /\ VersionAfter(h) = Cardinality(rows) + 1
             /\ IF Cardinality(rows) = 0
                THEN h = None
                ELSE h \in rows /\ sections[h].version = Cardinality(rows)
<1> DEFINE c == nights[n].competitor
           rows == RowsOf(c, p.kind)
           h == nights[n].heads[p.kind]
<1>1. p.kind \in Kinds /\ c \in Competitors /\ p \in nights[n].planned
  BY DEF ChainInv, NightTyped, NightState, Plan, Passed
<1>2. h \in {None} \cup rows
  BY <1>1 DEF ChainInv, HeadsExist, At
<1>3. Numbered(rows)
  BY <1>1 DEF ChainInv
<1>4. /\ IsFiniteSet(rows) /\ Cardinality(rows) \in Nat
      /\ rows \subseteq DOMAIN sections /\ DOMAIN sections = 1 .. Len(sections)
      /\ Len(sections) \in Nat
  BY RowsFinite DEF ChainInv
<1>5. \A i \in rows : sections[i].version # VersionAfter(h)
  BY <1>4 DEF VersionsFree, RowsOf
<1> HIDE DEF c, rows, h
<1>6. CASE h = None
  <2>1. VersionAfter(h) = 1
    BY <1>6 DEF VersionAfter
  <2>2. ~(1 \in 1 .. Cardinality(rows))
    BY <2>1, <1>5, <1>3 DEF Numbered
  <2>3. Cardinality(rows) = 0
    BY <2>2, <1>4
  <2>4. QED
    BY <2>1, <2>3, <1>6 DEF c, rows, h
<1>7. CASE h # None
  <2>1. h \in rows
    BY <1>2, <1>7
  <2>2. sections[h].version \in 1 .. Cardinality(rows)
    BY <2>1, <1>3 DEF Numbered
  <2>3. VersionAfter(h) = sections[h].version + 1
    BY <1>7 DEF VersionAfter
  <2>4. ~(sections[h].version + 1 \in 1 .. Cardinality(rows))
    BY <2>3, <1>5, <1>3 DEF Numbered
  <2>5. sections[h].version = Cardinality(rows) /\ Cardinality(rows) # 0
    BY <2>2, <2>4, <1>4
  <2>6. QED
    BY <2>1, <2>3, <2>5 DEF c, rows, h
<1>8. QED
  BY <1>6, <1>7

LEMMA PublishedRows ==
  ASSUME ChainInv, NEW n \in Nights, At(n, "publishing"), VersionsFree(n)
  PROVE  LET rows == {RowFor(n, p) : p \in Passed(n)}
         IN  rows \in SUBSET Section /\ IsFiniteSet(rows)
<1> DEFINE rows == {RowFor(n, p) : p \in Passed(n)}
<1>1. ASSUME NEW p \in Passed(n) PROVE RowFor(n, p) \in Section
  <2>1. p \in Plan /\ p.kind \in Kinds /\ nights[n].competitor \in Competitors
    BY DEF ChainInv, NightTyped, NightState, Plan, Passed
  <2>2. Cardinality(RowsOf(nights[n].competitor, p.kind)) \in Nat
    BY RowsFinite DEF ChainInv
  <2>3. VersionAfter(nights[n].heads[p.kind]) \in Nat
    BY <2>2, NextVersion
  <2>4. nights[n].heads[p.kind] \in Nat
    BY <2>1 DEF ChainInv, NightTyped, NightState
  <2>5. QED
    BY <2>1, <2>3, <2>4 DEF RowFor, Section, Plan
<1>2. IsFiniteSet(Passed(n))
  BY FS_Subset DEF Passed, ChainInv, NightTyped
<1>3. IsFiniteSet(rows)
  <2>1. DEFINE f == [p \in Passed(n) |-> RowFor(n, p)]
  <2>2. f \in Surjection(Passed(n), rows)
    BY DEF Surjection
  <2>3. QED
    BY <1>2, <2>2, FS_Surjection
<1>4. QED
  BY <1>1, <1>3

LEMMA PublishGrows ==
  ASSUME ChainInv, NEW n \in Nights, PublishSections(n)
  PROVE  RowsGrow
<1> DEFINE rows == {RowFor(n, p) : p \in Passed(n)}
           New == DOMAIN sections' \ DOMAIN sections
<1>1. At(n, "publishing") /\ VersionsFree(n) /\ sections' = Inserted(rows)
  BY DEF PublishSections
<1>2. rows \in SUBSET Section /\ IsFiniteSet(rows)
  BY <1>1, PublishedRows
<1>3. sections \in Seq(Section)
  BY DEF ChainInv
<1> HIDE DEF rows
<1>4. /\ sections' \in Seq(Section)
      /\ DOMAIN sections \subseteq DOMAIN sections'
      /\ \A i \in DOMAIN sections : sections'[i] = sections[i]
      /\ \A i \in New : sections'[i] \in rows
      /\ \A row \in rows : \E i \in New :
           sections'[i] = row /\ \A j \in New : sections'[j] = row => j = i
  BY <1>1, <1>2, <1>3, InsertedRows
<1> HIDE DEF New
<1>5. ASSUME NEW c \in Competitors, NEW k \in Kinds
      PROVE  \/ RowsOf(c, k)' = RowsOf(c, k)
             \/ \E i \in DOMAIN sections' : Extended(c, k, i)
  <2>1. RowsOf(c, k)' = RowsOf(c, k)
          \cup {i \in New : sections'[i].competitor = c /\ sections'[i].kind = k}
    BY <1>4 DEF RowsOf, New
  <2>2. CASE \E p \in Passed(n) : nights[n].competitor = c /\ p.kind = k
    <3>1. PICK p \in Passed(n) : nights[n].competitor = c /\ p.kind = k
      BY <2>2
    <3>2. RowFor(n, p) \in rows
      BY DEF rows
    <3>3. PICK i \in New : /\ sections'[i] = RowFor(n, p)
                           /\ \A j \in New : sections'[j] = RowFor(n, p) => j = i
      BY <3>2, <1>4
    <3>4. ASSUME NEW j \in New, sections'[j].competitor = c, sections'[j].kind = k
          PROVE  j = i
      <4>1. PICK q \in Passed(n) : sections'[j] = RowFor(n, q)
        BY <1>4 DEF rows
      <4>2. q.kind = p.kind
        BY <3>1, <3>4, <4>1 DEF RowFor
      <4>3. q = p
        BY <4>2 DEF Passed, ChainInv, NightTyped, PlannedOK
      <4>4. QED
        BY <3>3, <4>1, <4>3
    <3>5. sections'[i].competitor = c /\ sections'[i].kind = k
      BY <3>1, <3>3 DEF RowFor
    <3>6. RowsOf(c, k)' = RowsOf(c, k) \cup {i}
      BY <2>1, <3>4, <3>5
    <3>7. p \in nights[n].planned /\ p.passed
      BY DEF Passed
    <3>8. NightTyped(nights[n])
      BY DEF ChainInv
    <3>9. p.claims # {} /\ p.claims \subseteq Citable(<<c, k>>)
      BY <3>1, <3>7, <3>8, PassedCites
    <3>10. /\ VersionAfter(nights[n].heads[k]) = Cardinality(RowsOf(c, k)) + 1
           /\ IF Cardinality(RowsOf(c, k)) = 0
              THEN nights[n].heads[k] = None
              ELSE /\ nights[n].heads[k] \in RowsOf(c, k)
                   /\ sections[nights[n].heads[k]].version = Cardinality(RowsOf(c, k))
      BY <1>1, <3>1, NextVersion
    <3>11. /\ sections'[i].version = VersionAfter(nights[n].heads[k])
           /\ sections'[i].supersedes = nights[n].heads[k]
           /\ sections'[i].claims = p.claims
      BY <3>1, <3>3 DEF RowFor
    <3>12. i \in DOMAIN sections' /\ i \notin DOMAIN sections
      BY DEF New
    <3>13. QED
      BY <3>6, <3>9, <3>10, <3>11, <3>12 DEF Extended
  <2>3. CASE ~ \E p \in Passed(n) : nights[n].competitor = c /\ p.kind = k
    <3>1. ASSUME NEW i \in New, sections'[i].competitor = c, sections'[i].kind = k
          PROVE  FALSE
      <4>1. PICK q \in Passed(n) : sections'[i] = RowFor(n, q)
        BY <1>4 DEF rows
      <4>2. QED
        BY <2>3, <3>1, <4>1 DEF RowFor
    <3>2. QED
      BY <2>1, <3>1
  <2>4. QED
    BY <2>2, <2>3
<1>6. QED
  BY <1>4, <1>5 DEF RowsGrow

\* A section that gains its next version is still numbered.
LEMMA NumberedStep ==
  ASSUME ChainInv, RowsGrow, NEW c \in Competitors, NEW k \in Kinds
  PROVE  Numbered(RowsOf(c, k))'
<1> DEFINE rows == RowsOf(c, k)
           m == Cardinality(rows)
<1>1. /\ IsFiniteSet(rows) /\ m \in Nat
      /\ rows \subseteq DOMAIN sections
  BY RowsFinite DEF ChainInv
<1>2. \A i \in rows : sections'[i] = sections[i]
  BY <1>1 DEF RowsGrow
<1>3. Numbered(rows)
  BY DEF ChainInv
<1>4. CASE rows' = rows
  BY <1>2, <1>3, <1>4 DEF Numbered
<1>5. CASE \E i \in DOMAIN sections' : Extended(c, k, i)
  <2>1. PICK x \in DOMAIN sections' : Extended(c, k, x)
    BY <1>5
  <2>2. x \notin rows /\ rows' = rows \cup {x}
    BY <2>1, <1>1 DEF Extended
  <2>3. Cardinality(rows') = m + 1
    BY <1>1, <2>2, FS_AddElement
  <2>4. sections'[x].version = m + 1
    BY <2>1 DEF Extended
  <2>5. \A i \in rows : sections'[i].version \in 1 .. m
    BY <1>2, <1>3 DEF Numbered
  <2>6. \A i \in rows' : sections'[i].version \in 1 .. m + 1
    BY <2>2, <2>4, <2>5, <1>1
  <2>7. ASSUME NEW v \in 1 .. m + 1 PROVE \E i \in rows' : sections'[i].version = v
    <3>1. CASE v = m + 1
      BY <3>1, <2>2, <2>4
    <3>2. CASE v # m + 1
      <4>1. v \in 1 .. m
        BY <3>2, <1>1
      <4>2. PICK i \in rows : sections[i].version = v
        BY <4>1, <1>3 DEF Numbered
      <4>3. QED
        BY <4>2, <2>2, <1>2
    <3>3. QED
      BY <3>1, <3>2
  <2>8. ASSUME NEW i \in rows', NEW j \in rows', sections'[i].version = sections'[j].version
        PROVE  i = j
    <3>1. CASE i \in rows /\ j \in rows
      <4>1. sections[i].version = sections[j].version
        BY <3>1, <2>8, <1>2
      <4>2. QED
        BY <3>1, <4>1, <1>3 DEF Numbered
    <3>2. \A r \in rows : sections'[r].version # m + 1
      BY <2>5, <1>1
    <3>3. QED
      BY <3>1, <3>2, <2>2, <2>4, <2>8
  <2>9. ASSUME NEW i \in rows'
        PROVE  IF sections'[i].version = 1
               THEN sections'[i].supersedes = None
               ELSE \E j \in rows' : /\ sections'[i].supersedes = j
                                     /\ sections'[j].version = sections'[i].version - 1
    <3>1. CASE i \in rows
      <4>1. IF sections[i].version = 1
            THEN sections[i].supersedes = None
            ELSE \E j \in rows : /\ sections[i].supersedes = j
                                 /\ sections[j].version = sections[i].version - 1
        BY <3>1, <1>3 DEF Numbered
      <4>2. QED
        BY <3>1, <4>1, <1>2, <2>2
    <3>2. CASE i = x /\ m = 0
      BY <3>2, <2>1, <2>4 DEF Extended
    <3>3. CASE i = x /\ m # 0
      <4>1. PICK j \in rows : sections'[x].supersedes = j /\ sections[j].version = m
        BY <3>3, <2>1 DEF Extended
      <4>2. sections'[x].version - 1 = m /\ sections'[x].version # 1
        BY <3>3, <2>4, <1>1
      <4>3. QED
        BY <3>3, <4>1, <4>2, <2>2, <1>2
    <3>4. QED
      BY <3>1, <3>2, <3>3, <2>2
  <2>10. QED
    BY <2>3, <2>6, <2>7, <2>8, <2>9 DEF Numbered
<1>6. QED
  BY <1>4, <1>5 DEF RowsGrow

\* A night without plans: idle, in the loop, or with its deltas collected.
LEMMA PlainNight ==
  ASSUME NEW night \in NightState, night.phase \in {"idle", "competitors", "collected"},
         \A d \in night.deltas : Owner[d] = night.competitor,
         night.queue = {}, night.planned = {}
  PROVE  NightTyped(night) /\ HeadsExist(night)
BY FS_EmptySet DEF NightTyped, PlannedOK, HeadsExist

LEMMA IdleState ==
  ASSUME Competitors # {}
  PROVE  /\ Idle \in NightState
         /\ Idle.phase = "idle" /\ Idle.deltas = {} /\ Idle.queue = {}
         /\ Idle.planned = {}
<1>1. (CHOOSE c \in Competitors : TRUE) \in Competitors
  OBVIOUS
<1>2. QED
  BY <1>1 DEF Idle, NightState, None

LEMMA IdleTyped ==
  ASSUME Competitors # {}
  PROVE  NightTyped(Idle) /\ HeadsExist(Idle) /\ Idle.planned = {}
BY IdleState, PlainNight

\* A night in the loop over the competitors.
LEMMA LoopNight ==
  ASSUME Competitors # {}, NEW T \in SUBSET Competitors, NEW night,
         night = [Idle EXCEPT !.phase = "competitors", !.todo = T]
  PROVE  NightTyped(night) /\ HeadsExist(night) /\ night.planned = {}
<1>1. night \in NightState
  BY IdleState DEF NightState
<1>2. /\ night.phase = "competitors" /\ night.deltas = {} /\ night.queue = {}
      /\ night.planned = {}
  BY IdleState DEF NightState
<1>3. QED
  BY <1>1, <1>2, PlainNight

\* What a step adds to the plans of a night, its bill pays.
Billed(n, night) ==
  \/ night.planned = {}
  \/ night.planned = nights[n].planned /\ night.cost = nights[n].cost
  \/ \E p : \E cost \in Costs :
       /\ night.planned = nights[n].planned \cup {p}
       /\ night.cost = nights[n].cost + cost

NightMoves(n) ==
  \E night : /\ nights' = [nights EXCEPT ![n] = night]
             /\ NightTyped(night) /\ HeadsExist(night) /\ Billed(n, night)

LEMMA BackInLoop ==
  ASSUME Competitors # {}, NEW n \in Nights, ChainInv, NextCompetitor(n)
  PROVE  NightMoves(n)
<1> DEFINE night == [Idle EXCEPT !.phase = "competitors", !.todo = nights[n].todo]
<1>2. nights[n].todo \in SUBSET Competitors
  BY DEF ChainInv, NightTyped, NightState
<1>4. nights' = [nights EXCEPT ![n] = night]
  BY DEF NextCompetitor
<1>e. night = [Idle EXCEPT !.phase = "competitors", !.todo = nights[n].todo]
  OBVIOUS
<1> HIDE DEF night
<1>3. NightTyped(night) /\ HeadsExist(night) /\ night.planned = {}
  BY <1>2, <1>e, LoopNight
<1>5. QED
  BY <1>3, <1>4 DEF NightMoves, Billed

LEMMA NightStepMoves ==
  ASSUME Competitors # {}, NEW n \in Nights, ChainInv,
         StartNight(n) \/ RunSynthesis(n) \/ FinishNight(n) \/ Crash(n)
  PROVE  NightMoves(n)
<1> DEFINE me == nights[n]
<1>t. NightTyped(me)
  BY DEF ChainInv
<1>s. /\ me \in NightState
      /\ me.phase \in {"idle", "competitors", "collected", "writing", "publishing"}
      /\ me.todo \in SUBSET Competitors /\ me.competitor \in Competitors
      /\ me.deltas \in SUBSET Deltas /\ me.queue \in SUBSET Kinds
      /\ me.spentBefore \in Nat /\ me.cost \in Nat /\ me.planned \in SUBSET Plan
      /\ me.heads \in [Kinds -> Nat]
  BY <1>t DEF NightTyped, NightState
<1>1. CASE StartNight(n)
  <2> DEFINE night == [Idle EXCEPT !.phase = "competitors", !.todo = Competitors]
  <2>2. nights' = [nights EXCEPT ![n] = night]
    BY <1>1 DEF StartNight
  <2>e. night = [Idle EXCEPT !.phase = "competitors", !.todo = Competitors]
    OBVIOUS
  <2> HIDE DEF night
  <2>1. NightTyped(night) /\ HeadsExist(night) /\ night.planned = {}
    BY <2>e, LoopNight
  <2>3. QED
    BY <2>1, <2>2 DEF NightMoves, Billed
<1>2. CASE FinishNight(n) \/ Crash(n)
  <2>1. nights' = [nights EXCEPT ![n] = Idle]
    BY <1>2 DEF FinishNight, Crash
  <2>2. QED
    BY <2>1, IdleTyped DEF NightMoves, Billed
<1>3. CASE DenySynthesis(n) \/ RunFails(n) \/ PublishSections(n) \/ PublishConflicts(n)
  <2>1. NextCompetitor(n)
    BY <1>3 DEF DenySynthesis, RunFails, PublishSections, PublishConflicts
  <2>2. QED
    BY <2>1, BackInLoop
<1>4. ASSUME NEW c \in Competitors, SkipCompetitor(n, c) PROVE NightMoves(n)
  <2> DEFINE night == [me EXCEPT !.todo = me.todo \ {c}]
  <2>1. nights' = [nights EXCEPT ![n] = night]
    BY <1>4 DEF SkipCompetitor
  <2>2. night \in NightState
    BY <1>s DEF NightState
  <2>3. /\ night.planned = me.planned /\ night.cost = me.cost /\ night.queue = me.queue
        /\ night.deltas = me.deltas /\ night.competitor = me.competitor
        /\ night.phase = "competitors" /\ me.phase = "competitors"
    BY <1>4, <1>s DEF SkipCompetitor, At, NightState
  <2> HIDE DEF night
  <2>4. NightTyped(night)
    BY <1>t, <2>2, <2>3 DEF NightTyped, PlannedOK
  <2>5. QED
    BY <2>1, <2>3, <2>4 DEF NightMoves, Billed, HeadsExist
<1>5. ASSUME NEW c \in Competitors, Collect(n, c) PROVE NightMoves(n)
  <2> DEFINE night == [Idle EXCEPT !.phase = "collected", !.todo = me.todo \ {c},
                                   !.competitor = c, !.deltas = MaterialOf(c)]
  <2>1. nights' = [nights EXCEPT ![n] = night]
    BY <1>5 DEF Collect
  <2>2. MaterialOf(c) \in SUBSET Deltas /\ \A d \in MaterialOf(c) : Owner[d] = c
    BY DEF MaterialOf, ChainInv
  <2>f. me.todo \ {c} \in SUBSET Competitors
    BY <1>s
  <2>g. /\ night \in NightState /\ night.phase = "collected" /\ night.planned = {}
        /\ night.queue = {} /\ night.deltas = MaterialOf(c) /\ night.competitor = c
    BY <2>2, <2>f, IdleState DEF NightState
  <2> HIDE DEF night
  <2>3. NightTyped(night) /\ HeadsExist(night) /\ night.planned = {}
    BY <2>2, <2>g, PlainNight
  <2>4. QED
    BY <2>1, <2>3 DEF NightMoves, Billed
<1>6. CASE AllowSynthesis(n)
  <2> DEFINE night == [me EXCEPT !.phase = "writing", !.queue = Affected(me.deltas),
                                 !.spentBefore = spent]
  <2>1. nights' = [nights EXCEPT ![n] = night]
    BY <1>6 DEF AllowSynthesis
  <2>2. spent \in Nat /\ me.planned = {}
    BY <1>6, <1>t DEF AllowSynthesis, At, ChainInv, NightTyped
  <2>3. Affected(me.deltas) \in SUBSET Kinds
    BY <1>s, AffectedInKinds
  <2>4. night \in NightState
    BY <1>s, <2>2, <2>3 DEF NightState
  <2>5. /\ night.planned = {} /\ night.queue = Affected(me.deltas)
        /\ night.deltas = me.deltas /\ night.competitor = me.competitor
        /\ night.phase = "writing"
    BY <2>2, <1>s DEF NightState
  <2>6. IsFiniteSet({})
    BY FS_EmptySet
  <2> HIDE DEF night
  <2>7. NightTyped(night)
    BY <1>t, <2>4, <2>5, <2>6 DEF NightTyped, PlannedOK
  <2>8. QED
    BY <2>1, <2>5, <2>7 DEF NightMoves, Billed, HeadsExist
<1>7. ASSUME NEW k \in Kinds, SkipKind(n, k) PROVE NightMoves(n)
  <2> DEFINE night == [me EXCEPT !.queue = me.queue \ {k}]
  <2>1. nights' = [nights EXCEPT ![n] = night]
    BY <1>7 DEF SkipKind
  <2>2. night \in NightState
    BY <1>s DEF NightState
  <2>3. /\ night.planned = me.planned /\ night.cost = me.cost
        /\ night.queue = me.queue \ {k}
        /\ night.deltas = me.deltas /\ night.competitor = me.competitor
        /\ night.phase = "writing"
    BY <1>7, <1>s DEF SkipKind, IsNextKind, At, NightState
  <2> HIDE DEF night
  <2>4. NightTyped(night)
    BY <1>t, <2>2, <2>3 DEF NightTyped, PlannedOK
  <2>5. QED
    BY <2>1, <2>3, <2>4 DEF NightMoves, Billed, HeadsExist
<1>8. ASSUME NEW k \in Kinds, NEW cost \in Costs, SynthesizeKind(n, k, cost)
      PROVE  NightMoves(n)
  <2>1. PICK claims \in SUBSET Candidates(n, k) :
          nights' = [nights EXCEPT ![n] =
            [@ EXCEPT !.queue = nights[n].queue \ {k},
                      !.cost = nights[n].cost + cost,
                      !.planned = nights[n].planned \cup
                        {[kind |-> k, claims |-> claims, passed |-> Publishable(claims)]}]]
    BY <1>8 DEF SynthesizeKind
  <2> DEFINE p == [kind |-> k, claims |-> claims, passed |-> Publishable(claims)]
             night == [me EXCEPT !.queue = me.queue \ {k}, !.cost = me.cost + cost,
                                 !.planned = me.planned \cup {p}]
  <2>2. nights' = [nights EXCEPT ![n] = night]
    BY <2>1
  <2>3. At(n, "writing") /\ k \in me.queue
    BY <1>8 DEF SynthesizeKind, IsNextKind
  <2>4. cost \in Nat
    BY SynthesisAssumption
  <2>5. \A d \in claims : d \in me.deltas \ Uncited /\ k \in AffectedBy(d)
    BY DEF Candidates
  <2>6. Publishable(claims) \in BOOLEAN
    BY DEF Publishable
  <2>7. p \in Plan /\ p.kind = k /\ p.claims = claims /\ p.passed = Publishable(claims)
    BY <2>5, <2>6, <1>s DEF Plan
  <2> HIDE DEF p
  <2>a. /\ me.planned \cup {p} \in SUBSET Plan /\ me.cost + cost \in Nat
        /\ me.queue \ {k} \in SUBSET Kinds
    BY <1>s, <2>4, <2>7
  <2>8. night \in NightState
    BY <1>s, <2>a DEF NightState
  <2>9. /\ night.planned = me.planned \cup {p} /\ night.cost = me.cost + cost
        /\ night.queue = me.queue \ {k}
        /\ night.deltas = me.deltas /\ night.competitor = me.competitor
        /\ night.phase = "writing"
    BY <2>3, <1>s DEF At, NightState
  <2> HIDE DEF night
  <2>10. k \in Affected(me.deltas) /\ \A q \in me.planned : q.kind # k
    BY <1>t, <2>3 DEF NightTyped, PlannedOK
  <2>11. PlannedOK(night)
    BY <1>t, <2>5, <2>7, <2>9, <2>10 DEF NightTyped, PlannedOK
  <2>12. IsFiniteSet(night.planned)
    BY <1>t, <2>9, FS_AddElement DEF NightTyped
  <2>13. NightTyped(night)
    BY <1>t, <2>8, <2>9, <2>11, <2>12 DEF NightTyped
  <2>14. QED
    BY <2>2, <2>9, <2>13 DEF NightMoves, Billed, HeadsExist
<1>9. CASE ReadHeads(n)
  <2> DEFINE night == [me EXCEPT !.phase = "publishing", !.queue = {},
                            !.heads = [k \in Kinds |-> Latest(me.competitor, k)]]
  <2>1. nights' = [nights EXCEPT ![n] = night]
    BY <1>9 DEF ReadHeads
  <2>2. \A k \in Kinds : /\ Latest(me.competitor, k) \in {None} \cup RowsOf(me.competitor, k)
                         /\ Latest(me.competitor, k) \in Nat
    BY <1>s, LatestIsRow DEF ChainInv
  <2>3. night \in NightState
    BY <1>s, <2>2 DEF NightState
  <2>4. /\ night.planned = me.planned /\ night.cost = me.cost /\ night.queue = {}
        /\ night.deltas = me.deltas /\ night.competitor = me.competitor
        /\ night.heads = [k \in Kinds |-> Latest(me.competitor, k)]
        /\ night.phase = "publishing"
    BY <1>s DEF NightState
  <2> HIDE DEF night
  <2>5. NightTyped(night)
    BY <1>t, <2>3, <2>4 DEF NightTyped, PlannedOK
  <2>6. HeadsExist(night)
    BY <2>2, <2>4 DEF HeadsExist
  <2>7. QED
    BY <2>1, <2>4, <2>5, <2>6 DEF NightMoves, Billed
<1>10. QED
  BY <1>1, <1>2, <1>3, <1>4, <1>5, <1>6, <1>7, <1>8, <1>9 DEF RunSynthesis

\* Every step grows the rows and moves one night, or none.
LEMMA ChainStep ==
  ASSUME Competitors # {}, ChainInv, [Next]_vars
  PROVE  RowsGrow /\ (nights' = nights \/ \E n \in Nights : NightMoves(n))
<1>1. \/ sections' = sections
      \/ \E n \in Nights : PublishSections(n)
  BY DEF Next, vars, ConfirmDelta, TickSpends, StartNight, RunSynthesis, SkipCompetitor,
         Collect, DenySynthesis, AllowSynthesis, SkipKind, SynthesizeKind, RunFails,
         ReadHeads, PublishConflicts, FinishNight, Crash
<1>2. ASSUME sections' = sections PROVE RowsGrow
  BY <1>2 DEF RowsGrow, RowsOf, ChainInv
<1>3. RowsGrow
  BY <1>1, <1>2, PublishGrows
<1>4. \/ nights' = nights
      \/ \E n \in Nights : StartNight(n) \/ RunSynthesis(n) \/ FinishNight(n) \/ Crash(n)
  BY DEF Next, vars, ConfirmDelta, TickSpends
<1>5. QED
  BY <1>3, <1>4, NightStepMoves

LEMMA MaterialStep ==
  ASSUME ChainInv, [Next]_vars
  PROVE  material' \subseteq Deltas /\ spent' \in Nat /\ spent' >= spent
<1>c. spent \in Nat /\ material \subseteq Deltas
  BY DEF ChainInv
<1>d. \A cost \in Costs : cost \in Nat
  BY SynthesisAssumption
<1>n. \A n \in Nights : nights[n].cost \in Nat
  BY DEF ChainInv, NightTyped, NightState
<1>1. material' \subseteq Deltas
  BY <1>c DEF Next, vars, ConfirmDelta, TickSpends, StartNight, RunSynthesis,
         SkipCompetitor, Collect, DenySynthesis, AllowSynthesis, SkipKind,
         SynthesizeKind, RunFails, ReadHeads, PublishSections, PublishConflicts,
         FinishNight, Crash
<1>2. \/ spent' = spent
      \/ \E cost \in Costs : spent' = spent + cost
      \/ \E n \in Nights : spent' = spent + nights[n].cost
  BY DEF Next, vars, ConfirmDelta, TickSpends, StartNight, RunSynthesis,
         SkipCompetitor, Collect, DenySynthesis, AllowSynthesis, SkipKind,
         SynthesizeKind, RunFails, ReadHeads, PublishSections, PublishConflicts,
         FinishNight, Crash
<1>3. QED
  BY <1>c, <1>d, <1>n, <1>1, <1>2

LEMMA ChainInductive ==
  ASSUME Competitors # {}
  PROVE  ChainInv /\ [Next]_vars => ChainInv'
<1> SUFFICES ASSUME ChainInv, [Next]_vars PROVE ChainInv'
  OBVIOUS
<1>1. RowsGrow /\ (nights' = nights \/ \E n \in Nights : NightMoves(n))
  BY ChainStep
<1>2. material' \subseteq Deltas /\ spent' \in Nat
  BY MaterialStep
<1>3. ASSUME NEW c \in Competitors, NEW k \in Kinds PROVE Numbered(RowsOf(c, k))'
  BY <1>1, NumberedStep
<1>4. \A c \in Competitors, k \in Kinds : RowsOf(c, k) \subseteq RowsOf(c, k)'
  BY <1>1 DEF RowsGrow, RowsOf
<1>5. ASSUME NEW night, NightTyped(night), HeadsExist(night) PROVE HeadsExist(night)'
  <2>1. night.competitor \in Competitors
    BY <1>5 DEF NightTyped, NightState
  <2>2. QED
    BY <1>4, <1>5, <2>1 DEF HeadsExist
<1>6. /\ nights' \in [Nights -> NightState]
      /\ \A n \in Nights : NightTyped(nights'[n]) /\ HeadsExist(nights'[n])
  <2>1. CASE nights' = nights
    BY <2>1 DEF ChainInv
  <2>2. CASE \E n \in Nights : NightMoves(n)
    <3>1. PICK n \in Nights : NightMoves(n)
      BY <2>2
    <3>2. PICK night : /\ nights' = [nights EXCEPT ![n] = night]
                       /\ NightTyped(night) /\ HeadsExist(night)
      BY <3>1 DEF NightMoves
    <3>3. \A m \in Nights : nights'[m] = IF m = n THEN night ELSE nights[m]
      BY <3>2 DEF ChainInv
    <3>4. nights' \in [Nights -> NightState]
      BY <3>2 DEF ChainInv, NightTyped
    <3>5. QED
      BY <3>2, <3>3, <3>4 DEF ChainInv
  <2>3. QED
    BY <1>1, <2>1, <2>2
<1>7. ASSUME NEW n \in Nights PROVE (NightTyped(nights[n]) /\ HeadsExist(nights[n]))'
  <2>1. PICK night : night = nights'[n]
    OBVIOUS
  <2>2. HeadsExist(night)'
    BY <1>5, <1>6, <2>1
  <2>3. QED
    BY <1>6, <2>1, <2>2 DEF HeadsExist, NightTyped, PlannedOK
<1>8. ASSUME NEW i \in DOMAIN sections'
      PROVE  /\ sections'[i].claims # {}
             /\ \A d \in sections'[i].claims :
                  d \in Citable(<<sections'[i].competitor, sections'[i].kind>>)
  <2>1. CASE i \in DOMAIN sections
    BY <1>1, <2>1 DEF RowsGrow, ChainInv
  <2>2. CASE i \notin DOMAIN sections
    <3>1. sections'[i] \in Section
      BY <1>1, ElementOfSeq, LenProperties DEF RowsGrow
    <3>2. PICK c \in Competitors, k \in Kinds :
            sections'[i].competitor = c /\ sections'[i].kind = k
      BY <3>1 DEF Section
    <3>3. i \in RowsOf(c, k)' /\ i \notin RowsOf(c, k)
      BY <2>2, <3>2 DEF RowsOf
    <3>4. PICK j \in DOMAIN sections' : Extended(c, k, j)
      BY <1>1, <3>3 DEF RowsGrow
    <3>5. j = i
      BY <3>3, <3>4 DEF Extended
    <3>6. QED
      BY <3>2, <3>4, <3>5 DEF Extended
  <2>3. QED
    BY <2>1, <2>2
<1>9. sections' \in Seq(Section)
  BY <1>1 DEF RowsGrow
<1>10. QED
  BY <1>2, <1>3, <1>6, <1>7, <1>8, <1>9 DEF ChainInv

LEMMA InitiallyChained ==
  ASSUME Competitors # {}
  PROVE  Init => ChainInv
<1> SUFFICES ASSUME Init PROVE ChainInv
  OBVIOUS
<1>1. /\ material = {} /\ sections = <<>> /\ spent = 0
      /\ nights = [n \in Nights |-> Idle]
  BY DEF Init
<1>2. sections \in Seq(Section) /\ DOMAIN sections = {}
  BY <1>1
<1>3. \A c, k : RowsOf(c, k) = {}
  BY <1>2 DEF RowsOf
<1>4. Cardinality({}) = 0
  BY FS_EmptySet
<1>5. Numbered({})
  BY <1>4 DEF Numbered
<1>6. \A c \in Competitors, k \in Kinds : Numbered(RowsOf(c, k))
  BY <1>3, <1>5
<1>7. nights \in [Nights -> NightState]
  BY <1>1, IdleState
<1>8. QED
  BY <1>1, <1>2, <1>6, <1>7, IdleTyped DEF ChainInv

\* The inductive invariant of the chains: the versions of each section number its
\* rows, each row supersedes the one before, and every plan of every night is a
\* section its deltas affect, claimed from those deltas.
THEOREM Chained ==
  ASSUME Competitors # {}
  PROVE  Spec => []ChainInv
<1>1. Init => ChainInv
  BY InitiallyChained
<1>2. ChainInv /\ [Next]_vars => ChainInv'
  BY ChainInductive
<1>3. QED
  BY <1>1, <1>2, PTL DEF Spec

\* The variables keep their types, and no night ever plans a section its deltas do
\* not affect: the assertion before publishing (synthesis.ts) cannot fail.
THEOREM TypeCorrect ==
  ASSUME Competitors # {}
  PROVE  Spec => []TypeOK
<1>1. Init => ChainInv /\ world \in World
  BY InitiallyChained DEF Init, World
<1>2. ChainInv /\ world \in World /\ [Next]_vars => (ChainInv /\ world \in World)'
  <2> SUFFICES ASSUME ChainInv, world \in World, [Next]_vars PROVE world' \in World
    BY ChainInductive DEF World
  <2>1. \/ world' = world
        \/ world' = [world EXCEPT !.ticks = @ + 1]
        \/ world' = [world EXCEPT !.started = @ + 1]
    BY DEF Next, vars, ConfirmDelta, TickSpends, StartNight, RunSynthesis,
         SkipCompetitor, Collect, DenySynthesis, AllowSynthesis, SkipKind,
         SynthesizeKind, RunFails, ReadHeads, PublishSections, PublishConflicts,
         FinishNight, Crash
  <2>2. QED
    BY <2>1 DEF World
<1>3. ChainInv /\ world \in World => TypeOK
  <2> SUFFICES ASSUME ChainInv, world \in World PROVE TypeOK
    OBVIOUS
  <2>1. /\ material \subseteq Deltas /\ sections \in Seq(Section) /\ spent \in Nat
        /\ nights \in [Nights -> NightState] /\ \A n \in Nights : NightTyped(nights[n])
    BY DEF ChainInv
  <2>3. \A n \in Nights : nights[n].queue \cup {p.kind : p \in nights[n].planned}
                            \subseteq Affected(nights[n].deltas)
    BY <2>1 DEF NightTyped, PlannedOK
  <2>4. QED
    BY <2>1, <2>3 DEF TypeOK
<1>4. QED
  BY <1>1, <1>2, <1>3, PTL DEF Spec

\* However nights overlap, fail and die, the versions of each section form one chain:
\* the unique constraint alone keeps it from forking.
THEOREM LinearChains ==
  ASSUME Competitors # {}
  PROVE  Spec => []ChainsAreLinear
<1>1. ChainInv => ChainsAreLinear
  <2> SUFFICES ASSUME ChainInv, NEW i \in DOMAIN sections
               PROVE  LET row == sections[i]
                          before == {j \in RowsOf(row.competitor, row.kind) :
                                       sections[j].version = row.version - 1}
                      IN  /\ \A j \in RowsOf(row.competitor, row.kind) :
                               sections[j].version = row.version => j = i
                          /\ IF row.version = 1 THEN row.supersedes = None
                                                ELSE before = {row.supersedes}
    BY DEF ChainsAreLinear
  <2> DEFINE row == sections[i]
             rows == RowsOf(row.competitor, row.kind)
             before == {j \in rows : sections[j].version = row.version - 1}
  <2>1. row \in Section
    BY ElementOfSeq, LenProperties DEF ChainInv
  <2>2. Numbered(rows)
    BY <2>1 DEF Section, ChainInv
  <2>3. i \in rows
    BY DEF RowsOf
  <2>4. \A j \in rows : sections[j].version = row.version => j = i
    BY <2>2, <2>3 DEF Numbered
  <2>5. IF row.version = 1 THEN row.supersedes = None
        ELSE \E j \in rows : row.supersedes = j /\ sections[j].version = row.version - 1
    BY <2>2, <2>3 DEF Numbered
  <2>6. \A j, k \in rows : sections[j].version = sections[k].version => j = k
    BY <2>2 DEF Numbered
  <2>7. row.version # 1 => before = {row.supersedes}
    <3> SUFFICES ASSUME row.version # 1 PROVE before = {row.supersedes}
      OBVIOUS
    <3>1. PICK j \in rows : row.supersedes = j /\ sections[j].version = row.version - 1
      BY <2>5
    <3> HIDE DEF rows, row
    <3>2. QED
      BY <3>1, <2>6
  <2>8. QED
    BY <2>4, <2>5, <2>7
<1>2. QED
  BY Chained, <1>1, PTL

-----------------------------------------------------------------------------
(* What is published is metered.                                           *)

\* The bill of each run covers its plans, and the month covers the rows.
BilledInv ==
  /\ \A n \in Nights : Cardinality(nights[n].planned) <= nights[n].cost
  /\ PublishedIsMetered

LEMMA BilledStep ==
  ASSUME Competitors # {}, 0 \notin Costs
  PROVE  ChainInv /\ BilledInv /\ [Next]_vars => BilledInv'
<1> SUFFICES ASSUME ChainInv, BilledInv, [Next]_vars PROVE BilledInv'
  OBVIOUS
<1>c. \A cost \in Costs : cost \in Nat /\ cost >= 1
  BY SynthesisAssumption
<1>n. \A n \in Nights : /\ nights[n].cost \in Nat
                        /\ IsFiniteSet(nights[n].planned)
                        /\ Cardinality(nights[n].planned) \in Nat
                        /\ Cardinality(nights[n].planned) <= nights[n].cost
  BY FS_CardinalityType DEF ChainInv, NightTyped, NightState, BilledInv
<1>s. nights' = nights \/ \E n \in Nights : NightMoves(n)
  BY ChainStep
<1>1. \A n \in Nights : Cardinality(nights'[n].planned) <= nights'[n].cost
  <2>1. CASE nights' = nights
    BY <2>1, <1>n
  <2>2. CASE \E n \in Nights : NightMoves(n)
    <3>0. PICK n \in Nights : NightMoves(n)
      BY <2>2
    <3>1. PICK night : /\ nights' = [nights EXCEPT ![n] = night]
                       /\ NightTyped(night) /\ Billed(n, night)
      BY <3>0 DEF NightMoves
    <3>2. \A m \in Nights : nights'[m] = IF m = n THEN night ELSE nights[m]
      BY <3>1 DEF ChainInv
    <3>3. night.cost \in Nat
      BY <3>1 DEF NightTyped, NightState
    <3>4. Cardinality(night.planned) <= night.cost
      <4>1. CASE night.planned = {}
        <5>1. Cardinality(night.planned) = 0
          BY <4>1, FS_EmptySet
        <5>2. QED
          BY <5>1, <3>3
      <4>2. CASE night.planned = nights[n].planned /\ night.cost = nights[n].cost
        BY <4>2, <1>n
      <4>3. CASE \E p : \E cost \in Costs :
                   /\ night.planned = nights[n].planned \cup {p}
                   /\ night.cost = nights[n].cost + cost
        <5>1. PICK p, cost : /\ cost \in Costs
                             /\ night.planned = nights[n].planned \cup {p}
                             /\ night.cost = nights[n].cost + cost
          BY <4>3
        <5>2. Cardinality(night.planned) = IF p \in nights[n].planned
                                           THEN Cardinality(nights[n].planned)
                                           ELSE Cardinality(nights[n].planned) + 1
          BY <5>1, <1>n, FS_AddElement
        <5>3. QED
          BY <5>1, <5>2, <1>n, <1>c
      <4>4. QED
        BY <3>1, <4>1, <4>2, <4>3 DEF Billed
    <3>5. QED
      BY <3>2, <3>4, <1>n
  <2>3. QED
    BY <1>s, <2>1, <2>2
<1>2. Len(sections') <= spent'
  <2>s. sections \in Seq(Section) /\ Len(sections) \in Nat /\ spent \in Nat
        /\ Len(sections) <= spent
    BY LenProperties DEF ChainInv, BilledInv, PublishedIsMetered
  <2>1. CASE sections' = sections
    <3>1. spent' \in Nat /\ spent' >= spent
      BY MaterialStep
    <3>2. QED
      BY <2>1, <2>s, <3>1
  <2>2. CASE \E n \in Nights : PublishSections(n)
    <3>1. PICK n \in Nights : PublishSections(n)
      BY <2>2
    <3> DEFINE rows == {RowFor(n, p) : p \in Passed(n)}
               f == [p \in Passed(n) |-> RowFor(n, p)]
    <3>2. /\ At(n, "publishing") /\ VersionsFree(n)
          /\ sections' = Inserted(rows) /\ spent' = spent + nights[n].cost
      BY <3>1 DEF PublishSections
    <3>3. rows \in SUBSET Section /\ IsFiniteSet(rows)
      BY <3>2, PublishedRows
    <3>4. Passed(n) \subseteq nights[n].planned
      BY DEF Passed
    <3>5. IsFiniteSet(Passed(n)) /\ Cardinality(Passed(n)) <= Cardinality(nights[n].planned)
      BY <3>4, <1>n, FS_Subset
    <3>6. f \in Surjection(Passed(n), rows)
      BY DEF Surjection
    <3> HIDE DEF rows, f
    <3>7. Cardinality(rows) <= Cardinality(Passed(n))
      BY <3>5, <3>6, FS_Surjection
    <3>8. Len(sections') = Len(sections) + Cardinality(rows)
      BY <3>2, <3>3, <2>s, InsertedRows
    <3>9. Cardinality(rows) \in Nat /\ Cardinality(Passed(n)) \in Nat
      BY <3>3, <3>5, FS_CardinalityType
    <3>10. QED
      BY <3>2, <3>5, <3>7, <3>8, <3>9, <2>s, <1>n
  <2>3. QED
    BY <2>1, <2>2 DEF Next, vars, ConfirmDelta, TickSpends, StartNight, RunSynthesis,
         SkipCompetitor, Collect, DenySynthesis, AllowSynthesis, SkipKind,
         SynthesizeKind, RunFails, ReadHeads, PublishConflicts, FinishNight, Crash
<1>3. QED
  BY <1>1, <1>2 DEF BilledInv, PublishedIsMetered

\* Whatever is lost around it, a version on the page has its call on the bill, when no
\* call is free.
THEOREM Metered ==
  ASSUME Competitors # {}, 0 \notin Costs
  PROVE  Spec => []PublishedIsMetered
<1>1. Init => ChainInv /\ BilledInv
  <2> SUFFICES ASSUME Init PROVE BilledInv
    BY InitiallyChained
  <2>1. \A n \in Nights : nights[n].planned = {} /\ nights[n].cost = 0
    BY DEF Init, Idle
  <2>2. Cardinality({}) = 0
    BY FS_EmptySet
  <2>3. sections = <<>> /\ spent = 0
    BY DEF Init
  <2>4. ASSUME NEW n \in Nights PROVE Cardinality(nights[n].planned) <= nights[n].cost
    <3>1. nights[n].planned = {} /\ nights[n].cost = 0
      BY <2>1
    <3>2. Cardinality(nights[n].planned) = 0
      BY <3>1, FS_EmptySet
    <3>3. QED
      BY <3>1, <3>2
  <2>5. Len(sections) <= spent
    BY <2>3
  <2>6. QED
    BY <2>4, <2>5 DEF BilledInv, PublishedIsMetered
<1>2. ChainInv /\ BilledInv /\ [Next]_vars => (ChainInv /\ BilledInv)'
  BY ChainInductive, BilledStep
<1>3. BilledInv => PublishedIsMetered
  BY DEF BilledInv
<1>4. QED
  BY <1>1, <1>2, <1>3, PTL DEF Spec

-----------------------------------------------------------------------------
(* The refinement of SectionHistory.                                       *)

\* A section that stays, stays in its history; one that gains a version appends it.
LEMMA HistoryGrows ==
  ASSUME ChainInv, RowsGrow, NEW slot \in Competitors \X Kinds
  PROVE  \/ HistoryOf(slot)' = HistoryOf(slot)
         \/ \E cites \in (SUBSET Citable(slot)) \ {{}} :
              HistoryOf(slot)' = Append(HistoryOf(slot), cites)
<1>1. PICK c \in Competitors, k \in Kinds : slot = <<c, k>>
  OBVIOUS
<1> DEFINE rows == RowsOf(c, k)
           m == Cardinality(rows)
           At1(v) == CHOOSE i \in rows : sections[i].version = v
<1>2. slot[1] = c /\ slot[2] = k
  BY <1>1
<1>3. /\ m \in Nat /\ IsFiniteSet(rows)
      /\ rows \subseteq DOMAIN sections
  BY RowsFinite DEF ChainInv
<1>4. \A i \in rows : sections'[i] = sections[i]
  BY <1>3 DEF RowsGrow
<1>5. Numbered(rows)
  BY DEF ChainInv
<1>6. HistoryOf(slot) = [v \in 1 .. m |-> sections[At1(v)].claims]
  BY <1>2 DEF HistoryOf
<1>7. HistoryOf(slot)' = [v \in 1 .. Cardinality(rows') |->
                            sections'[CHOOSE i \in rows' : sections'[i].version = v].claims]
  BY <1>2 DEF HistoryOf
<1>8. ASSUME NEW v \in 1 .. m
      PROVE  At1(v) \in rows /\ sections[At1(v)].version = v
  BY <1>5 DEF Numbered
<1>9. CASE rows' = rows
  <2>1. ASSUME NEW v \in 1 .. m
        PROVE  (CHOOSE i \in rows' : sections'[i].version = v) = At1(v)
    <3>1. \A i : (i \in rows' /\ sections'[i].version = v)
                   <=> (i \in rows /\ sections[i].version = v)
      BY <1>4, <1>9
    <3>2. PICK j \in rows : sections[j].version = v
      BY <1>5 DEF Numbered
    <3>3. \A i \in rows : sections[i].version = v => i = j
      BY <3>2, <1>5 DEF Numbered
    <3>4. At1(v) = j
      BY <3>3, <1>8
    <3>5. (CHOOSE i \in rows' : sections'[i].version = v) = j
      BY <3>1, <3>2, <3>3
    <3>6. QED
      BY <3>4, <3>5
  <2> DEFINE After(v) == CHOOSE i \in rows' : sections'[i].version = v
  <2>2. \A v \in 1 .. m : sections'[After(v)].claims = sections[At1(v)].claims
    BY <1>4, <1>8, <2>1
  <2>5. HistoryOf(slot)' = [v \in 1 .. m |-> sections'[After(v)].claims]
    BY <1>7, <1>9
  <2> HIDE DEF m, After, At1
  <2>3. HistoryOf(slot)' = [v \in 1 .. m |-> sections[At1(v)].claims]
    BY <2>2, <2>5
  <2>4. QED
    BY <1>6, <2>3
<1>10. CASE \E i \in DOMAIN sections' : Extended(c, k, i)
  <2>1. PICK x \in DOMAIN sections' : Extended(c, k, x)
    BY <1>10
  <2>2. x \notin rows /\ rows' = rows \cup {x}
    BY <2>1, <1>3 DEF Extended
  <2>3. Cardinality(rows') = m + 1
    BY <1>3, <2>2, FS_AddElement
  <2>4. sections'[x].version = m + 1
    BY <2>1 DEF Extended
  <2> DEFINE cites == sections'[x].claims
             h == HistoryOf(slot)
             g == HistoryOf(slot)'
             After(v) == CHOOSE i \in rows' : sections'[i].version = v
  <2>5. cites \in (SUBSET Citable(slot)) \ {{}}
    BY <2>1, <1>1 DEF Extended
  <2>6. \A i \in rows : sections[i].version \in 1 .. m
    BY <1>5 DEF Numbered
  <2>7. ASSUME NEW v \in 1 .. m PROVE After(v) = At1(v)
    <3>1. PICK j \in rows : sections[j].version = v
      BY <1>5 DEF Numbered
    <3>2. \A i \in rows : sections[i].version = v => i = j
      BY <3>1, <1>5 DEF Numbered
    <3>3. v # m + 1
      BY <1>3
    <3>4. \A i \in rows' : sections'[i].version = v => i = j
      BY <3>2, <3>3, <2>2, <2>4, <1>4
    <3>5. j \in rows' /\ sections'[j].version = v
      BY <3>1, <2>2, <1>4
    <3>6. After(v) = j
      BY <3>4, <3>5
    <3>7. At1(v) = j
      BY <3>2, <1>8
    <3>8. QED
      BY <3>6, <3>7
  <2>8. After(m + 1) = x
    <3>1. \A i \in rows' : sections'[i].version = m + 1 => i = x
      <4>1. \A i \in rows : sections'[i].version # m + 1
        BY <2>6, <1>4, <1>3
      <4>2. QED
        BY <4>1, <2>2
    <3>2. x \in rows' /\ sections'[x].version = m + 1
      BY <2>2, <2>4
    <3>3. QED
      BY <3>1, <3>2
  <2>9. g = [v \in 1 .. m + 1 |-> sections'[After(v)].claims]
    BY <1>7, <2>3
  <2>10. \A v \in 1 .. m : sections'[After(v)].claims = sections[At1(v)].claims
    BY <2>7, <1>8, <1>4
  <2> HIDE DEF g, h, cites, m, After, At1
  <2>11. h \in Seq(SUBSET Deltas) /\ Len(h) = m
    <3>1. \A v \in 1 .. m : sections[At1(v)].claims \in SUBSET Deltas
      <4>1. ASSUME NEW i \in DOMAIN sections PROVE sections[i].claims \in SUBSET Deltas
        <5>1. sections \in Seq(Section)
          BY DEF ChainInv
        <5>2. sections[i] \in Section
          BY <5>1, ElementOfSeq, LenProperties
        <5>3. QED
          BY <5>2 DEF Section
      <4>2. QED
        BY <4>1, <1>3, <1>8
    <3>2. h = [v \in 1 .. m |-> sections[At1(v)].claims]
      BY <1>6 DEF h
    <3>3. h \in [1 .. m -> SUBSET Deltas]
      BY <3>1, <3>2
    <3>4. QED
      BY <3>3, <1>3
  <2>12. cites \in SUBSET Deltas
    BY <2>5 DEF Citable
  <2>13. /\ Append(h, cites) \in Seq(SUBSET Deltas) /\ Len(Append(h, cites)) = m + 1
         /\ \A v \in 1 .. m + 1 : Append(h, cites)[v] = IF v <= m THEN h[v] ELSE cites
    BY <2>11, <2>12, <1>3
  <2>14. \A v \in 1 .. m : h[v] = sections[At1(v)].claims
    BY <1>6 DEF h
  <2>15. \A v \in 1 .. m + 1 :
           sections'[After(v)].claims = IF v <= m THEN h[v] ELSE cites
    <3>1. \A v \in 1 .. m + 1 : v <= m => v \in 1 .. m
      BY <1>3
    <3>2. \A v \in 1 .. m + 1 : ~(v <= m) => v = m + 1
      BY <1>3
    <3>3. sections'[After(m + 1)].claims = cites
      BY <2>8 DEF cites
    <3>4. QED
      BY <3>1, <3>2, <3>3, <2>10, <2>14
  <2>16. g = Append(h, cites)
    <3>1. \A v \in 1 .. m + 1 : Append(h, cites)[v] \in SUBSET Deltas
      BY <2>13, ElementOfSeq
    <3>2. \A v \in 1 .. m + 1 : g[v] = Append(h, cites)[v]
      BY <2>9, <2>13, <2>15
    <3>3. g \in [1 .. m + 1 -> SUBSET Deltas]
      BY <2>9, <3>1, <3>2
    <3>4. g \in Seq(SUBSET Deltas) /\ Len(g) = m + 1
      BY <3>3, <1>3
    <3>5. QED
      BY <2>13, <3>2, <3>4, SeqEqual
  <2>17. QED
    BY <2>5, <2>16 DEF g, h
<1>11. QED
  BY <1>1, <1>9, <1>10 DEF RowsGrow

\* Overlapping nights that fail and die anywhere implement the history of sections:
\* each step adds at most one version to a section, which cites only what the section
\* may cite, and rewrites none.
THEOREM Refinement ==
  ASSUME Competitors # {}
  PROVE  Spec => ImplementsHistory
<1>1. Init => History!Init
  <2> SUFFICES ASSUME Init PROVE History!Init
    OBVIOUS
  <2>1. \A c, k : RowsOf(c, k) = {}
    BY DEF Init, RowsOf
  <2>2. Cardinality({}) = 0
    BY FS_EmptySet
  <2>3. ASSUME NEW slot \in Competitors \X Kinds PROVE HistoryOf(slot) = <<>>
    <3>1. RowsOf(slot[1], slot[2]) = {}
      BY <2>1
    <3>2. Cardinality(RowsOf(slot[1], slot[2])) = 0
      BY <3>1, <2>2
    <3>3. DOMAIN HistoryOf(slot) = {}
      BY <3>2 DEF HistoryOf
    <3>4. HistoryOf(slot) \in Seq({}) /\ Len(HistoryOf(slot)) = 0
      BY <3>2 DEF HistoryOf
    <3>5. QED
      BY <3>4, EmptySeq
  <2>4. QED
    BY <2>3 DEF History!Init
<1>2. ChainInv /\ [Next]_vars
        => [History!Revise]_([slot \in Competitors \X Kinds |-> HistoryOf(slot)])
  <2> SUFFICES ASSUME ChainInv, [Next]_vars PROVE History!Revise
    OBVIOUS
  <2>1. RowsGrow
    BY ChainStep
  <2>2. \A slot \in Competitors \X Kinds :
          \/ HistoryOf(slot)' = HistoryOf(slot)
          \/ \E cites \in (SUBSET Citable(slot)) \ {{}} :
               HistoryOf(slot)' = Append(HistoryOf(slot), cites)
    BY <2>1, HistoryGrows
  <2>3. QED
    BY <2>2 DEF History!Revise, History!Version
<1>3. QED
  BY Chained, <1>1, <1>2, PTL DEF Spec, ImplementsHistory, History!Spec
=============================================================================
