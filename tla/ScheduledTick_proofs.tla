------------------------- MODULE ScheduledTick_proofs -------------------------
(***************************************************************************)
(* Proofs about ScheduledTick, for any sources, contents, classes, number  *)
(* of overlapping ticks, budget and set of faults.                         *)
(***************************************************************************)
EXTENDS ScheduledTick, SequenceTheorems, TLAPS

IInv == TypeOK /\ EvidenceInv

-----------------------------------------------------------------------------
(* What the writes of the store return.                                    *)

\* A tick's rest state is well typed.
LEMMA IdleType == Idle \in TickState
BY StoreAssumption DEF Idle, TickState, Phases, Health, None

\* A coverage row keeps the accounting well typed.
LEMMA CoverageType ==
  ASSUME TypeOK, NEW f \in Nat, NEW n \in Nat, NEW c \in Nat
  PROVE  WithCoverage(f, n, c) \in Coverage
BY SMTT(30) DEF TypeOK, StoreTypeOK, Coverage, WithCoverage

\* Inserting a snapshot adds one row at the end and leaves the others alone.
LEMMA SnapshotAppended ==
  ASSUME TypeOK, NEW s \in Sources, NEW c \in Contents, NEW at \in Nat,
         NEW v \in {"fetch", "confirmation"},
         snapshots' = WithSnapshot(s, c, at, v)
  PROVE  /\ snapshots' \in Seq(Snapshot)
         /\ Len(snapshots) + 1 \in DOMAIN snapshots'
         /\ DOMAIN snapshots \subseteq DOMAIN snapshots'
         /\ \A j \in DOMAIN snapshots : j < Len(snapshots) + 1 /\ snapshots'[j] = snapshots[j]
         /\ snapshots'[Len(snapshots) + 1].source = s
         /\ snapshots'[Len(snapshots) + 1].content = c
         /\ snapshots'[Len(snapshots) + 1].vantage = v
<1> DEFINE row == [source |-> s, content |-> c, fetchedAt |-> at, vantage |-> v]
<1>1. row \in Snapshot
  BY DEF Snapshot
<1>2. snapshots \in Seq(Snapshot)
  BY DEF TypeOK, StoreTypeOK
<1>3. snapshots' = Append(snapshots, row) /\ row.source = s /\ row.content = c /\ row.vantage = v
  BY DEF WithSnapshot
<1> HIDE DEF row
<1>4. /\ snapshots' \in Seq(Snapshot) /\ Len(snapshots') = Len(snapshots) + 1
      /\ snapshots'[Len(snapshots) + 1] = row
      /\ \A j \in 1 .. Len(snapshots) : snapshots'[j] = snapshots[j]
  BY <1>1, <1>2, <1>3, AppendProperties
<1>5. /\ DOMAIN snapshots = 1 .. Len(snapshots) /\ DOMAIN snapshots' = 1 .. Len(snapshots')
      /\ Len(snapshots) \in Nat
  BY <1>2, <1>4, LenProperties
<1>6. /\ Len(snapshots) + 1 \in DOMAIN snapshots'
      /\ DOMAIN snapshots \subseteq DOMAIN snapshots'
      /\ \A j \in DOMAIN snapshots : j < Len(snapshots) + 1
  BY <1>4, <1>5
<1>7. QED
  BY <1>3, <1>4, <1>5, <1>6

\* A transition rewrites the state of one delta and, for "confirmed", its proof.
LEMMA DeltaMoved ==
  ASSUME TypeOK, NEW i \in DOMAIN deltas, NEW to \in DeltaStates, NEW proof \in Nat,
         deltas' = WithTransition(i, to, proof)
  PROVE  /\ deltas' \in Seq(Delta)
         /\ DOMAIN deltas' = DOMAIN deltas
         /\ \A j \in DOMAIN deltas : j # i => deltas'[j] = deltas[j]
         /\ deltas'[i].state = to
         /\ deltas'[i].confirmedBy = IF to = "confirmed" THEN proof
                                                     ELSE deltas[i].confirmedBy
         /\ deltas'[i].source = deltas[i].source
         /\ deltas'[i].from = deltas[i].from
         /\ deltas'[i].to = deltas[i].to
         /\ deltas'[i].class = deltas[i].class
<1> DEFINE row == [deltas[i] EXCEPT !.state = to,
                     !.confirmedBy = IF to = "confirmed" THEN proof ELSE @]
<1>1. deltas \in Seq(Delta) /\ deltas[i] \in Delta
  BY ElementOfSeq, LenProperties DEF TypeOK, StoreTypeOK
<1>2. row \in Delta
  BY <1>1 DEF Delta
<1>3. WithTransition(i, to, proof) = [deltas EXCEPT ![i] = row]
  BY <1>1 DEF WithTransition, Delta
<1>4. /\ row.state = to
      /\ row.confirmedBy = IF to = "confirmed" THEN proof ELSE deltas[i].confirmedBy
      /\ row.source = deltas[i].source /\ row.from = deltas[i].from
      /\ row.to = deltas[i].to /\ row.class = deltas[i].class
  BY <1>1 DEF Delta
<1> HIDE DEF row
<1>5. [deltas EXCEPT ![i] = row] \in Seq(Delta)
  BY <1>1, <1>2, ExceptSeq, LenProperties
<1>6. QED
  BY <1>1, <1>3, <1>4, <1>5

\* A loop iteration that ends leaves the tick well typed.
LEMMA ResumeType ==
  ASSUME TypeOK, NEW t \in Ticks, NEW phase \in Phases, Resume(t, phase)
  PROVE  /\ ticks' \in [Ticks -> TickState]
         /\ ticks'[t].phase = phase
         /\ ticks'[t].queue = ticks[t].queue
         /\ \A u \in Ticks : u # t => ticks'[u] = ticks[u]
<1>1. Idle \in TickState
  BY IdleType
<1>2. ticks[t] \in TickState
  BY DEF TypeOK
<1>3. QED
  BY <1>1, <1>2 DEF TypeOK, Resume, TickState, None

\* Updating the record of one tick with a well-typed record.
LEMMA TickUpdated ==
  ASSUME TypeOK, NEW t \in Ticks, NEW me \in TickState,
         ticks' = [ticks EXCEPT ![t] = me]
  PROVE  /\ ticks' \in [Ticks -> TickState]
         /\ ticks'[t] = me
         /\ \A u \in Ticks : u # t => ticks'[u] = ticks[u]
BY DEF TypeOK

\* The latest snapshot is a stored one.
LEMMA LatestIsStored ==
  ASSUME TypeOK, NEW s \in Sources
  PROVE  LatestSnapshots(s) \subseteq DOMAIN snapshots /\ DOMAIN snapshots \subseteq Nat
BY LenProperties DEF TypeOK, StoreTypeOK, LatestSnapshots, LastInserted,
   NewestByFetchedAt, SnapshotsOf

\* Ids of deltas are numbers.
LEMMA DeltaIds == ASSUME TypeOK PROVE DOMAIN deltas \subseteq Nat
BY LenProperties DEF TypeOK, StoreTypeOK

\* What a source visit does to the tick.
LEMMA VisitType ==
  ASSUME TypeOK, NEW t \in Ticks, NEW s \in Sources, NEW phase \in Phases,
         NEW c \in Contents, Visit(t, s, phase, c)
  PROVE  /\ ticks' \in [Ticks -> TickState]
         /\ ticks'[t].phase = phase
         /\ ticks'[t].queue = ticks[t].queue
         /\ \A u \in Ticks : u # t => ticks'[u] = ticks[u]
BY DEF TypeOK, Visit, TickState

\* The initial state is well typed.
LEMMA InitType == Init => TypeOK
<1>1. Idle \in TickState
  BY IdleType
<1>2. QED
  BY <1>1 DEF Init, StoreInit, TypeOK, StoreTypeOK, Coverage, Health, World, None

\* Every step keeps every variable in its type.
LEMMA TypeStep == TypeOK /\ EvidenceInv /\ [Next]_vars => TypeOK'
<1> SUFFICES ASSUME TypeOK, EvidenceInv, [Next]_vars PROVE TypeOK'
  OBVIOUS
<1>c. Costs \subseteq Nat
  BY TickAssumption
<1>i. Idle \in TickState /\ Idle.content \in Contents /\ Idle.source \in Sources
  BY IdleType DEF TickState
<1>r. /\ WithCoverage(0, 0, 0) \in Coverage /\ WithCoverage(1, 0, 0) \in Coverage
      /\ \A c \in Costs : WithCoverage(0, 1, c) \in Coverage
  BY <1>c, CoverageType
<1>w. Attempted => world' \in World
  BY DEF TypeOK, Attempted, World
<1>v. ASSUME NEW t \in Ticks, NEW s \in Sources, NEW phase \in Phases, NEW c \in Contents,
             Visit(t, s, phase, c)
      PROVE  ticks' \in [Ticks -> TickState]
  BY <1>v, VisitType
<1>e. ASSUME NEW t \in Ticks, NEW phase \in Phases, Resume(t, phase)
      PROVE  ticks' \in [Ticks -> TickState]
  BY <1>e, ResumeType
<1>ph. Phases = {"idle", "sources", "fetched", "baseline", "changed", "affordable",
                 "completed", "failed", "confirming", "refetched", "publishing"}
  BY DEF Phases
<1>t. \A t \in Ticks : ticks[t] \in TickState
  BY DEF TypeOK
<1>u. ASSUME NEW t \in Ticks, NEW me \in TickState, ticks' = [ticks EXCEPT ![t] = me]
      PROVE  ticks' \in [Ticks -> TickState]
  BY <1>u, TickUpdated
<1>1. CASE UNCHANGED vars
  BY <1>1 DEF vars, storeVars, TypeOK, StoreTypeOK
<1>2. ASSUME NEW t \in Ticks, StartTick(t) PROVE TypeOK'
  <2>1. clock + 1 \in Nat /\ health \in [Sources -> Health]
    BY DEF TypeOK, StoreTypeOK
  <2>2. [Idle EXCEPT !.phase = "sources", !.now = clock + 1,
                     !.listed = health, !.todo = Sources] \in TickState
    BY <1>i, <1>ph, <2>1 DEF TickState
  <2>3. QED
    BY <1>2, <2>1, <2>2, <1>u DEF StartTick, TypeOK, StoreTypeOK, storeVars
<1>3. ASSUME NEW t \in Ticks, NEW s \in Sources, SkipSource(t, s) PROVE TypeOK'
  BY <1>3 DEF SkipSource, TypeOK, StoreTypeOK, storeVars, TickState
<1>4. ASSUME NEW t \in Ticks, NEW s \in Sources, FetchBlocked(t, s) PROVE TypeOK'
  BY <1>4, <1>i, <1>r, <1>w, <1>v, <1>ph DEF FetchBlocked, TypeOK, StoreTypeOK
<1>5. ASSUME NEW t \in Ticks, NEW s \in Sources, FetchFails(t, s) PROVE TypeOK'
  BY <1>5, <1>i, <1>r, <1>w, <1>v, <1>ph DEF FetchFails, TypeOK, StoreTypeOK
<1>6. ASSUME NEW t \in Ticks, NEW s \in Sources, FetchSucceeds(t, s) PROVE TypeOK'
  BY <1>6, <1>w, <1>v, <1>ph DEF FetchSucceeds, TypeOK, StoreTypeOK, storeVars
<1>7. ASSUME NEW t \in Ticks, NothingToCompare(t) PROVE TypeOK'
  BY <1>7, ZenonT(30) DEF NothingToCompare, TypeOK, StoreTypeOK, storeVars, TickState, Phases
<1>8. ASSUME NEW t \in Ticks, Unchanged(t) PROVE TypeOK'
  BY <1>8, <1>r, ZenonT(30) DEF Unchanged, TypeOK, StoreTypeOK, TickState, Phases
<1>9. ASSUME NEW t \in Ticks, ContentChanged(t) PROVE TypeOK'
  <2>1. ticks[t] \in TickState /\ ticks[t].source \in Sources
    BY DEF TypeOK, TickState
  <2>2. PICK p \in LatestSnapshots(ticks[t].source) :
          ticks' = [ticks EXCEPT ![t] = [@ EXCEPT !.phase = "changed", !.previous = p]]
    BY <1>9 DEF ContentChanged
  <2>3. p \in Nat
    BY <2>1, LatestIsStored
  <2>4. [ticks[t] EXCEPT !.phase = "changed", !.previous = p] \in TickState
    BY <1>t, <1>ph, <2>3 DEF TickState
  <2>5. QED
    BY <1>9, <1>u, <2>2, <2>4 DEF ContentChanged, TypeOK, StoreTypeOK, storeVars
<1>10. ASSUME NEW t \in Ticks, NoSpansThrows(t) PROVE TypeOK'
  BY <1>10, <1>e, <1>ph DEF NoSpansThrows, TypeOK, StoreTypeOK, storeVars
<1>11. ASSUME NEW t \in Ticks, BudgetAllows(t) PROVE TypeOK'
  BY <1>11, ZenonT(30) DEF BudgetAllows, TypeOK, StoreTypeOK, storeVars, TickState, Phases
<1>12. ASSUME NEW t \in Ticks, BudgetDenies(t) PROVE TypeOK'
  BY <1>12, <1>e, <1>r, <1>ph DEF BudgetDenies, TypeOK, StoreTypeOK
<1>13. ASSUME NEW t \in Ticks, NEW class \in TriageClasses, NEW cost \in Costs,
              CommitDelta(t, class, cost)
       PROVE TypeOK'
  <2> DEFINE me == ticks[t]
             row == [source |-> me.source, from |-> me.previous,
                     to |-> Len(snapshots) + 1, class |-> class,
                     state |-> DeltaStateFor(class), confirmedBy |-> None,
                     createdAt |-> me.now]
  <2>1. me \in TickState
    BY DEF TypeOK
  <2>2. Len(snapshots) \in Nat
    BY LenProperties DEF TypeOK, StoreTypeOK
  <2>3. row \in Delta
    BY <2>1, <2>2 DEF TickState, Delta, DeltaStateFor, DeltaStates, None
  <2>4. snapshots' \in Seq(Snapshot)
    BY <1>13, <2>1, SnapshotAppended DEF CommitDelta, TickState
  <2>5. deltas' \in Seq(Delta)
    <3>1. deltas' = Append(deltas, row)
      BY <1>13 DEF CommitDelta
    <3> HIDE DEF row
    <3>2. QED
      BY <2>3, <3>1, AppendProperties DEF TypeOK, StoreTypeOK
  <2>6. ticks' \in [Ticks -> TickState] /\ world' \in World
    <3>1. ticks' \in [Ticks -> TickState]
      BY <1>13, ZenonT(30) DEF CommitDelta, TypeOK, TickState, Phases
    <3>2. world' \in World
      BY <1>13, <1>c DEF CommitDelta, TypeOK, World
    <3>3. QED
      BY <3>1, <3>2
  <2>7. QED
    BY <1>13, <1>r, <2>4, <2>5, <2>6 DEF CommitDelta, TypeOK, StoreTypeOK
<1>14. ASSUME NEW t \in Ticks, NEW cost \in Costs, ClassifyFails(t, cost) PROVE TypeOK'
  <2>1. world' \in World
    BY <1>14, <1>c DEF ClassifyFails, TypeOK, World
  <2>2. ticks' \in [Ticks -> TickState]
    BY <1>14, <1>e, <1>ph DEF ClassifyFails
  <2>3. QED
    BY <1>14, <2>1, <2>2 DEF ClassifyFails, TypeOK, StoreTypeOK, storeVars
<1>15. ASSUME NEW t \in Ticks, CommitBaseline(t) PROVE TypeOK'
  <2>1. ticks[t] \in TickState
    BY DEF TypeOK
  <2>2. snapshots' \in Seq(Snapshot)
    BY <1>15, <2>1, SnapshotAppended DEF CommitBaseline, TickState
  <2>3. QED
    BY <1>15, <1>r, <2>2, ZenonT(30) DEF CommitBaseline, TypeOK, StoreTypeOK, TickState, Phases
<1>16. ASSUME NEW t \in Ticks, MarkSourceFetched(t) PROVE TypeOK'
  <2>1. health' \in [Sources -> Health]
    BY <1>16 DEF MarkSourceFetched, WithFetched, TypeOK, StoreTypeOK, TickState, Health
  <2>2. QED
    BY <1>16, <1>e, <1>ph, <2>1 DEF MarkSourceFetched, TypeOK, StoreTypeOK
<1>17. ASSUME NEW t \in Ticks, MarkSourceFailed(t) PROVE TypeOK'
  <2>1. health' \in [Sources -> Health]
    <3>1. ticks[t].source \in Sources /\ health \in [Sources -> Health]
      BY <1>t DEF TickState, TypeOK, StoreTypeOK
    <3>2. [health[ticks[t].source] EXCEPT !.failures = @ + 1] \in Health
      BY <3>1 DEF Health
    <3>3. health' = [health EXCEPT ![ticks[t].source] =
                       [health[ticks[t].source] EXCEPT !.failures = @ + 1]]
      BY <1>17, <3>1 DEF MarkSourceFailed, WithFailure, Health
    <3>4. QED
      BY <3>1, <3>2, <3>3
  <2>2. QED
    BY <1>17, <1>e, <1>ph, <2>1 DEF MarkSourceFailed, TypeOK, StoreTypeOK
<1>18. ASSUME NEW t \in Ticks, ListPending(t) PROVE TypeOK'
  <2>1. PricingDeltasIn("pending") \subseteq Nat
    BY DeltaIds DEF PricingDeltasIn
  <2>2. [ticks[t] EXCEPT !.phase = "confirming",
                        !.queue = PricingDeltasIn("pending")] \in TickState
    BY <1>t, <1>ph, <2>1 DEF TickState
  <2>3. QED
    BY <1>18, <1>u, <2>2 DEF ListPending, TypeOK, StoreTypeOK, storeVars
<1>19. ASSUME NEW t \in Ticks, NEW i \in DOMAIN deltas, RefetchFails(t, i) PROVE TypeOK'
  <2>1. ticks' \in [Ticks -> TickState]
    BY <1>19 DEF RefetchFails, TypeOK, TickState
  <2>2. QED
    BY <1>19, <1>r, <1>w, <2>1 DEF RefetchFails, TypeOK, StoreTypeOK
<1>20. ASSUME NEW t \in Ticks, NEW i \in DOMAIN deltas, Refetch(t, i) PROVE TypeOK'
  <2>1. i \in Nat
    BY DeltaIds
  <2>2. PICK c \in Contents :
          ticks' = [ticks EXCEPT ![t] =
                     [@ EXCEPT !.phase = "refetched", !.queue = ticks[t].queue \ {i},
                               !.delta = i, !.content = c]]
    BY <1>20 DEF Refetch
  <2>3. [ticks[t] EXCEPT !.phase = "refetched", !.queue = ticks[t].queue \ {i},
                         !.delta = i, !.content = c] \in TickState
    BY <1>t, <1>ph, <2>1 DEF TickState
  <2>4. ticks' \in [Ticks -> TickState]
    BY <1>u, <2>2, <2>3
  <2>5. QED
    BY <1>20, <1>w, <2>4 DEF Refetch, TypeOK, StoreTypeOK, storeVars
<1>21. ASSUME NEW t \in Ticks, CommitVerdict(t) PROVE TypeOK'
  <2> DEFINE i == ticks[t].delta
             proof == Len(snapshots) + 1
  <2>1. ticks[t] \in TickState /\ proof \in Nat
    BY LenProperties DEF TypeOK, StoreTypeOK
  <2>2. i \in DOMAIN deltas /\ deltas[i] \in Delta
    <3>1. i \in DOMAIN deltas
      BY <1>21 DEF CommitVerdict, EvidenceInv, HeldIds
    <3>2. QED
      BY <3>1, ElementOfSeq, LenProperties DEF TypeOK, StoreTypeOK
  <2>3. Verdict(t) \in DeltaStates
    BY DEF Verdict, DeltaStates
  <2>4. snapshots' \in Seq(Snapshot)
    BY <1>21, <2>1, <2>2, SnapshotAppended DEF CommitVerdict, TickState, Delta
  <2>5. deltas' = WithTransition(i, Verdict(t), proof)
    BY <1>21 DEF CommitVerdict
  <2>6. deltas' \in Seq(Delta)
    BY <2>1, <2>2, <2>3, <2>5, DeltaMoved
  <2>7. ticks' \in [Ticks -> TickState]
    BY <1>21, <1>e, <1>ph DEF CommitVerdict
  <2>8. QED
    BY <1>21, <1>r, <2>4, <2>6, <2>7 DEF CommitVerdict, TypeOK, StoreTypeOK
<1>22. ASSUME NEW t \in Ticks, VerdictRejected(t) PROVE TypeOK'
  BY <1>22, <1>e, <1>ph DEF VerdictRejected, TypeOK, StoreTypeOK, storeVars
<1>23. ASSUME NEW t \in Ticks, ListConfirmed(t) PROVE TypeOK'
  <2>1. PricingDeltasIn("confirmed") \subseteq Nat
    BY DeltaIds DEF PricingDeltasIn
  <2>2. [ticks[t] EXCEPT !.phase = "publishing",
                        !.queue = PricingDeltasIn("confirmed")] \in TickState
    BY <1>t, <1>ph, <2>1 DEF TickState
  <2>3. QED
    BY <1>23, <1>u, <2>2 DEF ListConfirmed, TypeOK, StoreTypeOK, storeVars
<1>24. ASSUME NEW t \in Ticks, NEW i \in DOMAIN deltas, PublishDelta(t, i) PROVE TypeOK'
  <2>1. deltas' = WithTransition(i, "published", None) => deltas' \in Seq(Delta)
    BY DeltaMoved DEF DeltaStates, None
  <2>2. deltas' \in Seq(Delta)
    BY <1>24, <2>1 DEF PublishDelta, TypeOK, StoreTypeOK
  <2>3. ticks' \in [Ticks -> TickState]
    BY <1>24 DEF PublishDelta, TypeOK, TickState
  <2>4. QED
    BY <1>24, <2>2, <2>3 DEF PublishDelta, TypeOK, StoreTypeOK
<1>25. ASSUME NEW t \in Ticks, FinishTick(t) PROVE TypeOK'
  BY <1>25, <1>i DEF FinishTick, TypeOK, StoreTypeOK, storeVars
<1>26. ASSUME NEW t \in Ticks, Crash(t) PROVE TypeOK'
  <2>1. PICK cost \in Costs \cup {0} : world' = [world EXCEPT !.billed = @ + cost]
    BY <1>26 DEF Crash
  <2>2. world' \in World
    BY <1>c, <2>1 DEF TypeOK, World
  <2>3. QED
    BY <1>26, <1>i, <2>2 DEF Crash, TypeOK, StoreTypeOK, storeVars
<1>27. QED
  BY <1>1, <1>2, <1>3, <1>4, <1>5, <1>6, <1>7, <1>8, <1>9, <1>10, <1>11, <1>12, <1>13,
     <1>14, <1>15, <1>16, <1>17, <1>18, <1>19, <1>20, <1>21, <1>22, <1>23, <1>24, <1>25,
     <1>26 DEF Next, CheckSource, ConfirmAndPublish

-----------------------------------------------------------------------------
(* The evidence.                                                           *)

\* History only grows: a row that a step leaves alone keeps its evidence.
LEMMA EvidenceKept ==
  ASSUME NEW i \in DOMAIN deltas, DeltaEvidence(i),
         deltas'[i] = deltas[i],
         DOMAIN snapshots \subseteq DOMAIN snapshots',
         \A j \in DOMAIN snapshots : snapshots'[j] = snapshots[j]
  PROVE  DeltaEvidence(i)'
BY DEF DeltaEvidence, Pricing, ReproducedBy

\* A tick that a step leaves alone still holds meaningful ids, because a row
\* keeps its class.
LEMMA IdsKept ==
  ASSUME NEW u \in Ticks, HeldIds(u), ticks'[u] = ticks[u],
         DOMAIN deltas \subseteq DOMAIN deltas',
         \A i \in DOMAIN deltas : deltas'[i].class = deltas[i].class
  PROVE  HeldIds(u)'
BY DEF HeldIds, At, Pricing

\* A step of tick t that leaves the history alone.
LEMMA HistoryKept ==
  ASSUME EvidenceInv, NEW t \in Ticks, UNCHANGED <<snapshots, deltas>>,
         \A u \in Ticks : u # t => ticks'[u] = ticks[u],
         HeldIds(t)'
  PROVE  EvidenceInv'
BY EvidenceKept, IdsKept DEF EvidenceInv

\* A step of tick t that only adds a snapshot.
LEMMA OnlyObserved ==
  ASSUME TypeOK, EvidenceInv, NEW t \in Ticks, deltas' = deltas,
         NEW s \in Sources, NEW c \in Contents, NEW at \in Nat,
         NEW v \in {"fetch", "confirmation"},
         snapshots' = WithSnapshot(s, c, at, v),
         \A u \in Ticks : u # t => ticks'[u] = ticks[u],
         HeldIds(t)'
  PROVE  EvidenceInv'
<1>1. /\ DOMAIN snapshots \subseteq DOMAIN snapshots'
      /\ \A j \in DOMAIN snapshots : snapshots'[j] = snapshots[j]
  BY SnapshotAppended
<1>2. QED
  BY <1>1, EvidenceKept, IdsKept DEF EvidenceInv

\* Nothing is known at first, so nothing is claimed.
LEMMA InitEvidence == Init => EvidenceInv
<1> SUFFICES ASSUME Init PROVE EvidenceInv
  OBVIOUS
<1>1. DOMAIN deltas = {}
  BY DEF Init, StoreInit
<1>2. \A t \in Ticks : ticks[t].queue = {} /\ ~At(t, "refetched")
  <2>1. Idle.queue = {} /\ Idle.phase = "idle"
    BY DEF Idle
  <2>2. QED
    BY <2>1 DEF Init, At
<1>3. QED
  BY <1>1, <1>2 DEF EvidenceInv, HeldIds

\* Every step keeps the evidence: the two that matter are the verdict, which adds
\* the snapshot it rests on, and the publish, which looks at the row again.
LEMMA EvidenceStep == TypeOK /\ EvidenceInv /\ [Next]_vars => EvidenceInv'
<1> SUFFICES ASSUME TypeOK, EvidenceInv, [Next]_vars PROVE EvidenceInv'
  OBVIOUS
<1>c. Costs \subseteq Nat
  BY TickAssumption
<1>t. \A t \in Ticks : ticks[t] \in TickState
  BY DEF TypeOK
<1>p. Phases = {"idle", "sources", "fetched", "baseline", "changed", "affordable",
                "completed", "failed", "confirming", "refetched", "publishing"}
  BY DEF Phases
<1>q. \A t \in Ticks : \A i \in ticks[t].queue : i \in DOMAIN deltas /\ Pricing(i)
  BY DEF EvidenceInv, HeldIds
<1>i. Idle \in TickState /\ Idle.queue = {} /\ Idle.phase = "idle"
  BY IdleType DEF Idle
\* A step of t after which t is idle or in its loops with a queue it had before.
<1>h. ASSUME NEW t \in Ticks, UNCHANGED <<snapshots, deltas>>,
             \A u \in Ticks : u # t => ticks'[u] = ticks[u],
             \A i \in ticks'[t].queue : i \in DOMAIN deltas /\ Pricing(i),
             ticks'[t].phase # "refetched"
      PROVE  EvidenceInv'
  <2>1. HeldIds(t)'
    BY <1>h DEF HeldIds, At, Pricing
  <2>2. QED
    BY <1>h, <2>1, HistoryKept
<1>v. ASSUME NEW t \in Ticks, NEW s \in Sources, NEW phase \in Phases \ {"refetched"},
             NEW c \in Contents,
             Visit(t, s, phase, c), UNCHANGED <<snapshots, deltas>>
      PROVE  EvidenceInv'
  <2>1. /\ ticks'[t].phase = phase /\ ticks'[t].queue = ticks[t].queue
        /\ \A u \in Ticks : u # t => ticks'[u] = ticks[u]
    BY <1>v, VisitType
  <2>2. QED
    BY <1>v, <2>1, <1>h, <1>q
<1>e. ASSUME NEW t \in Ticks, NEW phase \in Phases \ {"refetched"},
             Resume(t, phase), UNCHANGED <<snapshots, deltas>>
      PROVE  EvidenceInv'
  <2>1. /\ ticks'[t].phase = phase /\ ticks'[t].queue = ticks[t].queue
        /\ \A u \in Ticks : u # t => ticks'[u] = ticks[u]
    BY <1>e, ResumeType
  <2>2. QED
    BY <1>e, <2>1, <1>h, <1>q
<1>1. CASE UNCHANGED vars
  BY <1>1 DEF vars, storeVars, EvidenceInv, DeltaEvidence, HeldIds, Pricing, ReproducedBy, At
<1>2. ASSUME NEW t \in Ticks, StartTick(t) PROVE EvidenceInv'
  <2>1. ticks'[t].queue = {} /\ ticks'[t].phase = "sources"
    BY <1>2, <1>i DEF StartTick, TypeOK, TickState
  <2>2. QED
    BY <1>2, <1>h, <2>1 DEF StartTick, storeVars
<1>3. ASSUME NEW t \in Ticks, NEW s \in Sources, SkipSource(t, s) PROVE EvidenceInv'
  <2>1. ticks'[t].queue = ticks[t].queue /\ ticks'[t].phase = "sources"
    BY <1>3, <1>t DEF SkipSource, TypeOK, TickState, At
  <2>2. QED
    BY <1>3, <1>h, <1>q, <2>1 DEF SkipSource, storeVars
<1>4. ASSUME NEW t \in Ticks, NEW s \in Sources,
             FetchBlocked(t, s) \/ FetchFails(t, s) \/ FetchSucceeds(t, s)
      PROVE  EvidenceInv'
  <2>1. Idle.content \in Contents
    BY <1>i DEF TickState
  <2>2. QED
    BY <1>4, <1>v, <1>p, <2>1 DEF FetchBlocked, FetchFails, FetchSucceeds, storeVars
<1>5. ASSUME NEW t \in Ticks, NothingToCompare(t) \/ Unchanged(t) \/ BudgetAllows(t)
      PROVE  EvidenceInv'
  <2>1. PICK phase \in {"baseline", "completed", "affordable"} :
          ticks' = [ticks EXCEPT ![t].phase = phase]
    BY <1>5 DEF NothingToCompare, Unchanged, BudgetAllows
  <2>2. ticks'[t].queue = ticks[t].queue /\ ticks'[t].phase = phase
    BY <1>t, <2>1 DEF TypeOK, TickState
  <2>3. QED
    BY <1>5, <1>h, <1>q, <2>1, <2>2
       DEF NothingToCompare, Unchanged, BudgetAllows, storeVars
<1>6. ASSUME NEW t \in Ticks, ContentChanged(t) PROVE EvidenceInv'
  <2>1. PICK p \in LatestSnapshots(ticks[t].source) :
          ticks' = [ticks EXCEPT ![t] = [@ EXCEPT !.phase = "changed", !.previous = p]]
    BY <1>6 DEF ContentChanged
  <2>2. ticks'[t].queue = ticks[t].queue /\ ticks'[t].phase = "changed"
    BY <1>t, <2>1 DEF TypeOK, TickState
  <2>3. QED
    BY <1>6, <1>h, <1>q, <2>1, <2>2 DEF ContentChanged, storeVars
<1>7. ASSUME NEW t \in Ticks,
             \/ NoSpansThrows(t) \/ BudgetDenies(t) \/ VerdictRejected(t)
             \/ MarkSourceFetched(t) \/ MarkSourceFailed(t)
             \/ \E cost \in Costs : ClassifyFails(t, cost)
      PROVE  EvidenceInv'
  <2>1. UNCHANGED <<snapshots, deltas>>
    BY <1>7 DEF NoSpansThrows, BudgetDenies, VerdictRejected, MarkSourceFetched,
                MarkSourceFailed, ClassifyFails, storeVars
  <2>2. PICK phase \in {"sources", "confirming"} : Resume(t, phase)
    BY <1>7 DEF NoSpansThrows, BudgetDenies, VerdictRejected, MarkSourceFetched,
                MarkSourceFailed, ClassifyFails
  <2>3. QED
    BY <1>e, <1>p, <2>1, <2>2
<1>8. ASSUME NEW t \in Ticks, CommitBaseline(t) PROVE EvidenceInv'
  <2>1. /\ ticks'[t].queue = ticks[t].queue /\ ticks'[t].phase = "completed"
        /\ \A u \in Ticks : u # t => ticks'[u] = ticks[u]
    BY <1>8, <1>t DEF CommitBaseline, TypeOK, TickState
  <2>2. HeldIds(t)'
    BY <1>8, <1>q, <2>1 DEF CommitBaseline, HeldIds, At, Pricing
  <2>3. QED
    BY <1>8, <1>t, <2>1, <2>2, OnlyObserved DEF CommitBaseline, TickState
<1>9. ASSUME NEW t \in Ticks, NEW class \in TriageClasses, NEW cost \in Costs,
             CommitDelta(t, class, cost)
      PROVE  EvidenceInv'
  <2> DEFINE me == ticks[t]
             row == [source |-> me.source, from |-> me.previous,
                     to |-> Len(snapshots) + 1, class |-> class,
                     state |-> DeltaStateFor(class), confirmedBy |-> None,
                     createdAt |-> me.now]
  <2>1. me \in TickState /\ deltas \in Seq(Delta)
    BY DEF TypeOK, StoreTypeOK
  <2>2. Len(snapshots) \in Nat /\ row \in Delta
    BY <2>1, LenProperties
       DEF TypeOK, StoreTypeOK, TickState, Delta, DeltaStateFor, DeltaStates, None
  <2>3. /\ DOMAIN snapshots \subseteq DOMAIN snapshots'
        /\ \A j \in DOMAIN snapshots : snapshots'[j] = snapshots[j]
        /\ Len(snapshots) + 1 \in DOMAIN snapshots'
        /\ snapshots'[Len(snapshots) + 1].source = me.source
    <3>1. me.source \in Sources /\ me.content \in Contents /\ me.now \in Nat
      BY <2>1 DEF TickState
    <3>2. snapshots' = WithSnapshot(me.source, me.content, me.now, "fetch")
      BY <1>9 DEF CommitDelta
    <3> HIDE DEF me
    <3>3. QED
      BY <3>1, <3>2, SnapshotAppended
  <2> PICK new \in Nat : new = Len(deltas) + 1
    BY <2>1, LenProperties
  <2>4. /\ DOMAIN deltas' = DOMAIN deltas \cup {new}
        /\ DOMAIN deltas \subseteq DOMAIN deltas'
        /\ \A i \in DOMAIN deltas : deltas'[i] = deltas[i]
        /\ deltas'[new] = row
    <3>1. deltas' = Append(deltas, row)
      BY <1>9 DEF CommitDelta
    <3> HIDE DEF row
    <3>2. QED
      BY <2>1, <2>2, <3>1, AppendProperties, LenProperties
  <2>5. DeltaEvidence(new)'
    <3>1. /\ deltas'[new].to = Len(snapshots) + 1
          /\ deltas'[new].source = me.source
          /\ deltas'[new].class = class
          /\ deltas'[new].state = DeltaStateFor(class)
          /\ deltas'[new].confirmedBy = None
      BY <2>4
    <3> HIDE DEF row
    <3>2. DeltaStateFor(class) # "confirmed"
      BY DEF DeltaStateFor
    <3>3. class = "pricing_change" => DeltaStateFor(class) = "pending"
      BY DEF DeltaStateFor
    <3>4. QED
      BY <2>3, <3>1, <3>2, <3>3 DEF DeltaEvidence, Pricing
  <2>6. \A i \in DOMAIN deltas : DeltaEvidence(i)'
    BY <2>3, <2>4, EvidenceKept DEF EvidenceInv
  <2>7. /\ ticks'[t].queue = me.queue /\ ticks'[t].phase = "completed"
        /\ \A u \in Ticks : u # t => ticks'[u] = ticks[u]
    BY <1>9, <2>1 DEF CommitDelta, TypeOK, TickState
  <2>8. \A u \in Ticks : HeldIds(u)'
    <3>1. HeldIds(t)'
      BY <1>q, <2>4, <2>7 DEF HeldIds, At, Pricing
    <3>2. QED
      BY <2>4, <2>7, <3>1, IdsKept DEF EvidenceInv
  <2>9. QED
    BY <2>4, <2>5, <2>6, <2>8 DEF EvidenceInv
<1>10. ASSUME NEW t \in Ticks, NEW phase \in {"confirming", "publishing"},
              NEW state \in DeltaStates, UNCHANGED <<snapshots, deltas>>,
              ticks' = [ticks EXCEPT ![t] = [@ EXCEPT !.phase = phase,
                                                     !.queue = PricingDeltasIn(state)]]
       PROVE  EvidenceInv'
  <2>1. ticks'[t].queue = PricingDeltasIn(state) /\ ticks'[t].phase = phase
    BY <1>10, <1>t DEF TypeOK, TickState
  <2>2. \A i \in PricingDeltasIn(state) : i \in DOMAIN deltas /\ Pricing(i)
    BY DEF PricingDeltasIn, Pricing
  <2>3. QED
    BY <1>10, <1>h, <2>1, <2>2
<1>11. ASSUME NEW t \in Ticks, ListPending(t) \/ ListConfirmed(t) PROVE EvidenceInv'
  BY <1>10, <1>11 DEF ListPending, ListConfirmed, storeVars, DeltaStates
<1>12. ASSUME NEW t \in Ticks, NEW i \in DOMAIN deltas, RefetchFails(t, i) PROVE EvidenceInv'
  <2>1. ticks'[t].queue = ticks[t].queue \ {i} /\ ticks'[t].phase = "confirming"
    BY <1>12, <1>t DEF RefetchFails, TypeOK, TickState, At
  <2>2. QED
    BY <1>12, <1>h, <1>q, <2>1 DEF RefetchFails
\* Only price changes are queued for confirmation: a stale id stays one, because
\* a row keeps its class.
<1>13. ASSUME NEW t \in Ticks, NEW i \in DOMAIN deltas, Refetch(t, i) PROVE EvidenceInv'
  <2>1. PICK c \in Contents :
          ticks' = [ticks EXCEPT ![t] =
                     [@ EXCEPT !.phase = "refetched", !.queue = ticks[t].queue \ {i},
                               !.delta = i, !.content = c]]
    BY <1>13 DEF Refetch
  <2>2. ticks'[t].queue = ticks[t].queue \ {i} /\ ticks'[t].delta = i
    BY <1>t, <2>1 DEF TypeOK, TickState
  <2>3. Pricing(i)
    BY <1>13, <1>q DEF Refetch
  <2>4. HeldIds(t)'
    BY <1>13, <1>q, <2>2, <2>3 DEF Refetch, HeldIds, Pricing, storeVars, At
  <2>5. QED
    BY <1>13, <2>1, <2>4, HistoryKept DEF Refetch, storeVars
<1>14. ASSUME NEW t \in Ticks, CommitVerdict(t) PROVE EvidenceInv'
  <2> DEFINE me == ticks[t]
  <2>1. PICK proof \in Nat : proof = Len(snapshots) + 1 /\ proof # None
    BY LenProperties DEF TypeOK, StoreTypeOK, None
  <2> PICK i \in DOMAIN deltas : i = ticks[t].delta /\ Pricing(i)
    BY <1>14 DEF CommitVerdict, EvidenceInv, HeldIds
  <2>2. DeltaEvidence(i) /\ deltas[i] \in Delta /\ Pricing(i)
    BY ElementOfSeq, LenProperties DEF EvidenceInv, TypeOK, StoreTypeOK
  <2>3. Verdict(t) \in {"confirmed", "dismissed"} /\ Verdict(t) \in DeltaStates
    BY DEF Verdict, DeltaStates
  <2>4. /\ DOMAIN snapshots \subseteq DOMAIN snapshots'
        /\ \A j \in DOMAIN snapshots : snapshots'[j] = snapshots[j]
        /\ proof \in DOMAIN snapshots'
        /\ snapshots'[proof].source = deltas[i].source
        /\ snapshots'[proof].content = me.content
        /\ snapshots'[proof].vantage = "confirmation"
        /\ \A j \in DOMAIN snapshots : j < proof
    <3>1. me.content \in Contents /\ me.now \in Nat /\ deltas[i].source \in Sources
      BY <1>t, <2>2 DEF TickState, Delta
    <3>2. snapshots' = WithSnapshot(deltas[i].source, me.content, me.now, "confirmation")
      BY <1>14 DEF CommitVerdict
    <3> HIDE DEF me
    <3>3. QED
      BY <2>1, <3>1, <3>2, SnapshotAppended
  <2>5. deltas' = WithTransition(i, Verdict(t), proof)
    BY <1>14, <2>1 DEF CommitVerdict
  <2>6. /\ DOMAIN deltas' = DOMAIN deltas
        /\ \A j \in DOMAIN deltas : j # i => deltas'[j] = deltas[j]
        /\ \A j \in DOMAIN deltas : deltas'[j].class = deltas[j].class
        /\ deltas'[i].state = Verdict(t)
        /\ deltas'[i].confirmedBy = IF Verdict(t) = "confirmed" THEN proof
                                                               ELSE deltas[i].confirmedBy
        /\ deltas'[i].source = deltas[i].source
        /\ deltas'[i].to = deltas[i].to
    BY <2>1, <2>2, <2>3, <2>5, DeltaMoved
  \* The transition is allowed, so the delta was pending and names no proof.
  <2>7. deltas[i].state = "pending" /\ deltas[i].confirmedBy = None
    BY <1>14, <2>1, <2>2, <2>3
       DEF CommitVerdict, DeltaTransitionAllowed, AllowedDeltaTransitions, DeltaEvidence
  <2>8. DeltaEvidence(i)'
    <3>1. Verdict(t) = "confirmed" => me.content = snapshots[deltas[i].to].content
      BY DEF Verdict, Reproduces
    <3>2. deltas'[i].to \in DOMAIN snapshots /\ snapshots[deltas[i].to].source = deltas[i].source
      BY <2>2, <2>6 DEF DeltaEvidence
    <3>3. Verdict(t) = "confirmed" => ReproducedBy(i, proof)'
      BY <2>4, <2>6, <3>1, <3>2 DEF ReproducedBy
    <3>4. QED
      BY <2>2, <2>3, <2>4, <2>6, <2>7, <3>2, <3>3 DEF DeltaEvidence, Pricing
  <2>9. \A j \in DOMAIN deltas : j # i => DeltaEvidence(j)'
    BY <2>4, <2>6, EvidenceKept DEF EvidenceInv
  <2>10. /\ ticks'[t].queue = me.queue /\ ticks'[t].phase = "confirming"
         /\ \A u \in Ticks : u # t => ticks'[u] = ticks[u]
    BY <1>14, <1>p, ResumeType DEF CommitVerdict
  <2>11. HeldIds(t)'
    BY <1>q, <2>6, <2>10 DEF HeldIds, At, Pricing
  <2>12. \A u \in Ticks : HeldIds(u)'
    BY <2>6, <2>10, <2>11, IdsKept DEF EvidenceInv
  <2>13. QED
    BY <2>6, <2>8, <2>9, <2>12 DEF EvidenceInv
<1>15. ASSUME NEW t \in Ticks, NEW i \in DOMAIN deltas, PublishDelta(t, i) PROVE EvidenceInv'
  <2>1. /\ ticks'[t].queue = ticks[t].queue \ {i} /\ ticks'[t].phase = "publishing"
        /\ \A u \in Ticks : u # t => ticks'[u] = ticks[u]
    BY <1>15, <1>t DEF PublishDelta, TypeOK, TickState, At
  <2>2. CASE ~DeltaTransitionAllowed(i, "published", None)
    <3>1. UNCHANGED <<snapshots, deltas>>
      BY <1>15, <2>2 DEF PublishDelta
    <3>2. QED
      BY <1>q, <1>h, <2>1, <3>1
  <2>3. CASE DeltaTransitionAllowed(i, "published", None)
    <3>1. deltas' = WithTransition(i, "published", None) /\ snapshots' = snapshots
      BY <1>15, <2>3 DEF PublishDelta
    <3>2. /\ DOMAIN deltas' = DOMAIN deltas
          /\ \A j \in DOMAIN deltas : j # i => deltas'[j] = deltas[j]
          /\ \A j \in DOMAIN deltas : deltas'[j].class = deltas[j].class
          /\ deltas'[i].state = "published"
          /\ deltas'[i].confirmedBy = deltas[i].confirmedBy
          /\ deltas'[i].source = deltas[i].source
          /\ deltas'[i].to = deltas[i].to
      BY <3>1, DeltaMoved DEF DeltaStates, None
    \* The guard sees the row as it is now, whatever the list said: a price
    \* change can only have been confirmed.
    <3>3. DeltaEvidence(i) /\ (Pricing(i) => deltas[i].state = "confirmed")
      BY <2>3 DEF DeltaTransitionAllowed, AllowedDeltaTransitions, EvidenceInv, Pricing
    <3>4. DeltaEvidence(i)'
      BY <3>1, <3>2, <3>3 DEF DeltaEvidence, Pricing, ReproducedBy
    <3>5. \A j \in DOMAIN deltas : j # i => DeltaEvidence(j)'
      BY <3>1, <3>2, EvidenceKept DEF EvidenceInv
    <3>6. HeldIds(t)'
      BY <1>q, <2>1, <3>2 DEF HeldIds, At, Pricing
    <3>7. \A u \in Ticks : HeldIds(u)'
      BY <2>1, <3>2, <3>6, IdsKept DEF EvidenceInv
    <3>8. QED
      BY <3>2, <3>4, <3>5, <3>7 DEF EvidenceInv
  <2>4. QED
    BY <2>2, <2>3
<1>16. ASSUME NEW t \in Ticks, FinishTick(t) \/ Crash(t) PROVE EvidenceInv'
  <2>1. ticks' = [ticks EXCEPT ![t] = Idle] /\ UNCHANGED <<snapshots, deltas>>
    BY <1>16 DEF FinishTick, Crash, storeVars
  <2>2. ticks'[t] = Idle /\ \A u \in Ticks : u # t => ticks'[u] = ticks[u]
    BY <2>1 DEF TypeOK
  <2>3. QED
    BY <1>i, <1>h, <2>1, <2>2
<1>17. QED
  BY <1>1, <1>2, <1>3, <1>4, <1>5, <1>6, <1>7, <1>8, <1>9, <1>11, <1>12, <1>13, <1>14,
     <1>15, <1>16 DEF Next, CheckSource, ConfirmAndPublish

-----------------------------------------------------------------------------
(* The theorems.                                                           *)

\* Type correctness and the evidence together are an invariant of the tick,
\* for any number of overlapping ticks and any faults.
THEOREM Inductive == Spec => []IInv
<1>1. Init => IInv
  BY InitType, InitEvidence DEF IInv
<1>2. IInv /\ [Next]_vars => IInv'
  BY TypeStep, EvidenceStep DEF IInv
<1>3. QED
  BY <1>1, <1>2, PTL DEF Spec

\* Every variable keeps its type.
THEOREM TypeCorrect == Spec => []TypeOK
<1>1. IInv => TypeOK
  BY DEF IInv
<1>2. QED
  BY <1>1, Inductive, PTL

\* The ids a tick holds stay meaningful and every row keeps its evidence.
THEOREM Evidence == Spec => []EvidenceInv
<1>1. IInv => EvidenceInv
  BY DEF IInv
<1>2. QED
  BY <1>1, Inductive, PTL

\* No price change is confirmed or published unless the snapshot it names
\* reproduces it.
THEOREM NoFalseAlert == Spec => []PricingAlertsAreReproduced
<1>1. IInv => PricingAlertsAreReproduced
  BY DEF IInv, EvidenceInv, DeltaEvidence, PricingAlertsAreReproduced
<1>2. QED
  BY <1>1, Inductive, PTL

\* What VerdictsAreFinal asks of a step.
Final == \A i \in DOMAIN deltas :
           /\ deltas[i].state \in {"dismissed", "published"} => deltas'[i] = deltas[i]
           /\ deltas[i].confirmedBy # None => deltas'[i].confirmedBy = deltas[i].confirmedBy

\* Only three writes touch the deltas: one appends, and the guard of the other
\* two refuses a row that is already decided.
LEMMA FinalStep == TypeOK /\ EvidenceInv /\ [Next]_vars => [Final]_deltas
<1> SUFFICES ASSUME TypeOK, EvidenceInv, [Next]_vars, deltas' # deltas PROVE Final
  OBVIOUS
<1>1. ASSUME NEW t \in Ticks, NEW class \in TriageClasses, NEW cost \in Costs,
             CommitDelta(t, class, cost)
      PROVE  Final
  <2>1. PICK row : deltas' = Append(deltas, row)
    BY <1>1 DEF CommitDelta
  <2>2. \A i \in DOMAIN deltas : deltas'[i] = deltas[i]
    BY <2>1 DEF TypeOK, StoreTypeOK
  <2>3. QED
    BY <2>2 DEF Final
<1>2. ASSUME NEW i \in DOMAIN deltas, NEW to \in DeltaStates, NEW proof \in Nat,
             DeltaTransitionAllowed(i, to, proof), deltas' = WithTransition(i, to, proof)
      PROVE  Final
  <2>1. /\ \A j \in DOMAIN deltas : j # i => deltas'[j] = deltas[j]
        /\ deltas'[i].confirmedBy = IF to = "confirmed" THEN proof ELSE deltas[i].confirmedBy
    BY <1>2, DeltaMoved
  <2>2. deltas[i].state \notin {"dismissed", "published"}
    BY <1>2 DEF DeltaTransitionAllowed, AllowedDeltaTransitions
  <2>3. to = "confirmed" => deltas[i].confirmedBy = None
    BY <1>2 DEF DeltaTransitionAllowed, AllowedDeltaTransitions, EvidenceInv, DeltaEvidence
  <2>4. QED
    BY <2>1, <2>2, <2>3 DEF Final
<1>3. ASSUME NEW t \in Ticks, CommitVerdict(t) PROVE Final
  <2>1. ticks[t].delta \in DOMAIN deltas
    BY <1>3 DEF CommitVerdict, EvidenceInv, HeldIds
  <2>2. Verdict(t) \in DeltaStates /\ Len(snapshots) + 1 \in Nat
    BY LenProperties DEF Verdict, DeltaStates, TypeOK, StoreTypeOK
  <2>3. QED
    BY <1>2, <1>3, <2>1, <2>2 DEF CommitVerdict
<1>4. ASSUME NEW t \in Ticks, NEW i \in DOMAIN deltas, PublishDelta(t, i) PROVE Final
  BY <1>2, <1>4 DEF PublishDelta, DeltaStates, None
<1>5. QED
  BY <1>1, <1>3, <1>4
     DEF Next, CheckSource, ConfirmAndPublish, vars, storeVars, StartTick, SkipSource,
         FetchBlocked, FetchFails, FetchSucceeds, NothingToCompare, Unchanged,
         ContentChanged, NoSpansThrows, BudgetAllows, BudgetDenies, ClassifyFails,
         CommitBaseline, MarkSourceFetched, MarkSourceFailed, ListPending, RefetchFails,
         Refetch, VerdictRejected, ListConfirmed, FinishTick, Crash

\* No tick rewrites a verdict or the evidence it names, however stale its list.
THEOREM Verdicts == Spec => VerdictsAreFinal
<1>1. IInv /\ [Next]_vars => [Final]_deltas
  BY FinalStep DEF IInv
<1>2. Spec => [][Final]_deltas
  BY <1>1, Inductive, PTL DEF Spec
<1>3. QED
  BY <1>2 DEF VerdictsAreFinal, Final

-----------------------------------------------------------------------------
(* Overlapping, crashing, budgeted ticks implement PricingFirewall.        *)

\* The refinement mapping of ScheduledTick's instance, by name.
Observation == [source: Sources, content: Contents]
Finding == [source: Sources, class: TriageClasses, fate: DeltaStates, seen: Nat, proof: Nat]

Evidences == [j \in DOMAIN snapshots |->
                [source |-> snapshots[j].source, content |-> snapshots[j].content]]
Findings == [i \in DOMAIN deltas |->
               [source |-> deltas[i].source, class |-> deltas[i].class,
                fate |-> deltas[i].state, seen |-> deltas[i].to,
                proof |-> deltas[i].confirmedBy]]

\* A pair of sequences as long as the stored ones.
Mapped == /\ Evidences \in Seq(Observation) /\ Len(Evidences) = Len(snapshots)
          /\ Findings \in Seq(Finding) /\ Len(Findings) = Len(deltas)

\* The mapped history is well typed.
LEMMA MappedType == TypeOK => Mapped
<1> SUFFICES ASSUME TypeOK PROVE Mapped
  OBVIOUS
<1>1. /\ snapshots \in Seq(Snapshot) /\ Len(snapshots) \in Nat
      /\ DOMAIN snapshots = 1 .. Len(snapshots)
      /\ deltas \in Seq(Delta) /\ Len(deltas) \in Nat
      /\ DOMAIN deltas = 1 .. Len(deltas)
  BY LenProperties DEF TypeOK, StoreTypeOK
<1>2. \A j \in DOMAIN snapshots :
        [source |-> snapshots[j].source, content |-> snapshots[j].content] \in Observation
  <2>1. \A j \in DOMAIN snapshots : snapshots[j] \in Snapshot
    BY <1>1, ElementOfSeq
  <2>2. QED
    BY <2>1 DEF Snapshot, Observation
<1>3. \A i \in DOMAIN deltas :
        [source |-> deltas[i].source, class |-> deltas[i].class,
         fate |-> deltas[i].state, seen |-> deltas[i].to,
         proof |-> deltas[i].confirmedBy] \in Finding
  <2>1. \A i \in DOMAIN deltas : deltas[i] \in Delta
    BY <1>1, ElementOfSeq
  <2>2. QED
    BY <2>1 DEF Delta, Finding
<1>4. Evidences \in [1 .. Len(snapshots) -> Observation]
  BY <1>1, <1>2 DEF Evidences
<1>5. Findings \in [1 .. Len(deltas) -> Finding]
  BY <1>1, <1>3 DEF Findings
<1>6. ASSUME NEW S, NEW n \in Nat, NEW f \in [1 .. n -> S]
      PROVE  f \in Seq(S) /\ Len(f) = n
  <2>1. f \in Seq(S)
    BY SeqDef
  <2>2. 1 .. Len(f) = 1 .. n /\ Len(f) \in Nat
    BY <2>1, LenProperties
  <2>3. QED
    BY <2>1, <2>2
<1>7. QED
  BY <1>1, <1>4, <1>5, <1>6 DEF Mapped

\* A stored snapshot is an observation at the end of the evidence.
LEMMA SnapshotObserved ==
  ASSUME TypeOK, TypeOK', NEW s \in Sources, NEW c \in Contents, NEW at \in Nat,
         NEW v \in {"fetch", "confirmation"}, snapshots' = WithSnapshot(s, c, at, v)
  PROVE  Evidences' = Append(Evidences, [source |-> s, content |-> c])
<1> DEFINE row == [source |-> s, content |-> c, fetchedAt |-> at, vantage |-> v]
           seen == [source |-> s, content |-> c]
           n == Len(snapshots)
<1>1. /\ Evidences \in Seq(Observation) /\ Len(Evidences) = n
      /\ Evidences' \in Seq(Observation) /\ Len(Evidences') = Len(snapshots')
  <2>1. (TypeOK => Mapped)'
    BY MappedType, PTL
  <2>2. QED
    BY <2>1, MappedType DEF Mapped
<1>2. /\ snapshots \in Seq(Snapshot) /\ row \in Snapshot /\ seen \in Observation /\ n \in Nat
      /\ DOMAIN snapshots = 1 .. n
  BY LenProperties DEF TypeOK, StoreTypeOK, Snapshot, Observation
<1>3. /\ Len(snapshots') = n + 1 /\ DOMAIN snapshots' = 1 .. (n + 1)
      /\ snapshots'[n + 1] = row
      /\ \A j \in 1 .. n : snapshots'[j] = snapshots[j]
  <2>1. snapshots' = Append(snapshots, row)
    BY DEF WithSnapshot
  <2> HIDE DEF row
  <2>2. QED
    BY <1>2, <2>1, AppendProperties, LenProperties
<1>4. /\ \A j \in 1 .. n : Evidences'[j] = Evidences[j]
      /\ Evidences'[n + 1] = seen
  BY <1>2, <1>3 DEF Evidences
<1> HIDE DEF seen, n, row
<1>5. /\ Append(Evidences, seen) \in Seq(Observation)
      /\ Len(Append(Evidences, seen)) = n + 1
      /\ Append(Evidences, seen)[n + 1] = seen
      /\ \A j \in 1 .. n : Append(Evidences, seen)[j] = Evidences[j]
  BY <1>1, <1>2, AppendProperties
<1>6. Evidences' = Append(Evidences, seen)
  <2>1. \A j \in 1 .. (n + 1) : Evidences'[j] = Append(Evidences, seen)[j]
    BY <1>2, <1>4, <1>5
  <2>2. QED
    BY <1>1, <1>3, <1>5, <2>1, SeqEqual
<1>7. QED
  BY <1>6 DEF seen

\* A stored delta is a finding at the end of the findings.
LEMMA DeltaFound ==
  ASSUME TypeOK, TypeOK', NEW row \in Delta, deltas' = Append(deltas, row)
  PROVE  Findings' = Append(Findings,
           [source |-> row.source, class |-> row.class, fate |-> row.state,
            seen |-> row.to, proof |-> row.confirmedBy])
<1> DEFINE found == [source |-> row.source, class |-> row.class, fate |-> row.state,
                     seen |-> row.to, proof |-> row.confirmedBy]
           n == Len(deltas)
<1>1. /\ Findings \in Seq(Finding) /\ Len(Findings) = n
      /\ Findings' \in Seq(Finding) /\ Len(Findings') = Len(deltas')
  <2>1. (TypeOK => Mapped)'
    BY MappedType, PTL
  <2>2. QED
    BY <2>1, MappedType DEF Mapped
<1>2. /\ deltas \in Seq(Delta) /\ found \in Finding /\ n \in Nat /\ DOMAIN deltas = 1 .. n
  BY LenProperties DEF TypeOK, StoreTypeOK, Delta, Finding
<1>3. /\ Len(deltas') = n + 1 /\ DOMAIN deltas' = 1 .. (n + 1)
      /\ deltas'[n + 1] = row
      /\ \A j \in 1 .. n : deltas'[j] = deltas[j]
  BY <1>2, AppendProperties, LenProperties
<1>4. /\ \A j \in 1 .. n : Findings'[j] = Findings[j]
      /\ Findings'[n + 1] = found
  BY <1>2, <1>3 DEF Findings
<1> HIDE DEF found, n
<1>5. /\ Append(Findings, found) \in Seq(Finding)
      /\ Len(Append(Findings, found)) = n + 1
      /\ Append(Findings, found)[n + 1] = found
      /\ \A j \in 1 .. n : Append(Findings, found)[j] = Findings[j]
  BY <1>1, <1>2, AppendProperties
<1>6. Findings' = Append(Findings, found)
  <2>1. \A j \in 1 .. (n + 1) : Findings'[j] = Append(Findings, found)[j]
    BY <1>2, <1>4, <1>5
  <2>2. QED
    BY <1>1, <1>3, <1>5, <2>1, SeqEqual
<1>7. QED
  BY <1>6 DEF found

\* A transition changes the fate of one finding and, for "confirmed", its proof.
LEMMA FateChanged ==
  ASSUME TypeOK, NEW i \in DOMAIN deltas, NEW to \in DeltaStates, NEW proof \in Nat,
         deltas' = WithTransition(i, to, proof)
  PROVE  /\ i \in DOMAIN Findings
         /\ Findings' = [Findings EXCEPT ![i] =
              [source |-> deltas[i].source, class |-> deltas[i].class, fate |-> to,
               seen |-> deltas[i].to,
               proof |-> IF to = "confirmed" THEN proof ELSE deltas[i].confirmedBy]]
<1>1. /\ DOMAIN deltas' = DOMAIN deltas
      /\ \A j \in DOMAIN deltas : j # i => deltas'[j] = deltas[j]
      /\ deltas'[i].state = to
      /\ deltas'[i].confirmedBy = IF to = "confirmed" THEN proof ELSE deltas[i].confirmedBy
      /\ deltas'[i].source = deltas[i].source
      /\ deltas'[i].to = deltas[i].to
      /\ deltas'[i].class = deltas[i].class
  BY DeltaMoved
<1>2. QED
  BY <1>1 DEF Findings

\* Confirming a finding rewrites two of its fields.
LEMMA FindingConfirmed ==
  ASSUME NEW f \in Finding, NEW p \in Nat, NEW g,
         g = [f EXCEPT !.fate = "confirmed", !.proof = p]
  PROVE  g = [source |-> f.source, class |-> f.class, fate |-> "confirmed",
              seen |-> f.seen, proof |-> p]
<1>1. "confirmed" \in DeltaStates
  BY DEF DeltaStates
<1>2. g \in Finding
  BY <1>1 DEF Finding
<1>3. /\ g.source = f.source /\ g.class = f.class /\ g.fate = "confirmed"
      /\ g.seen = f.seen /\ g.proof = p
  BY DEF Finding
<1>4. QED
  BY <1>2, <1>3 DEF Finding

\* The initial history maps to the empty one.
LEMMA InitRefines == Init => Firewall!Init
<1> SUFFICES ASSUME Init PROVE Evidences = <<>> /\ Findings = <<>>
  BY DEF Firewall!Init, Evidences, Findings
<1>1. snapshots = <<>> /\ deltas = <<>>
  BY DEF Init, StoreInit
<1>2. DOMAIN snapshots = {} /\ DOMAIN deltas = {}
  BY <1>1
<1>3. QED
  BY <1>2 DEF Evidences, Findings

\* Every step of a tick is a step of the firewall, or leaves it alone.
LEMMA StepRefines ==
  TypeOK /\ TypeOK' /\ EvidenceInv /\ [Next]_vars => [Firewall!Next]_<<Evidences, Findings>>
<1> SUFFICES ASSUME TypeOK, TypeOK', EvidenceInv, [Next]_vars
             PROVE  Firewall!Next \/ UNCHANGED <<Evidences, Findings>>
  OBVIOUS
<1>t. \A t \in Ticks : ticks[t] \in TickState
  BY DEF TypeOK
<1>l. Len(Evidences) = Len(snapshots) /\ Len(snapshots) \in Nat
  BY MappedType, LenProperties DEF Mapped, TypeOK, StoreTypeOK
\* The first look at a source.
<1>1. ASSUME NEW t \in Ticks, CommitBaseline(t) PROVE Firewall!Next
  <2>1. PICK s \in Sources, c \in Contents :
          Evidences' = Append(Evidences, [source |-> s, content |-> c])
    BY <1>1, <1>t, SnapshotObserved DEF CommitBaseline, TickState
  <2>2. Findings' = Findings
    BY <1>1 DEF CommitBaseline, Findings
  <2>3. Firewall!Observe(s, c)
    BY <2>1, <2>2 DEF Firewall!Observe, Firewall!Seen, Evidences, Findings
  <2>4. QED
    BY <2>3 DEF Firewall!Next
\* A look that shows something new.
<1>2. ASSUME NEW t \in Ticks, NEW class \in TriageClasses, NEW cost \in Costs,
             CommitDelta(t, class, cost)
      PROVE  Firewall!Next
  <2>1. PICK s \in Sources, c \in Contents, at \in Nat, from \in Nat :
          /\ snapshots' = WithSnapshot(s, c, at, "fetch")
          /\ deltas' = Append(deltas,
               [source |-> s, from |-> from, to |-> Len(snapshots) + 1, class |-> class,
                state |-> DeltaStateFor(class), confirmedBy |-> None, createdAt |-> at])
    BY <1>2, <1>t DEF CommitDelta, TickState
  <2> DEFINE row == [source |-> s, from |-> from, to |-> Len(snapshots) + 1,
                     class |-> class, state |-> DeltaStateFor(class),
                     confirmedBy |-> None, createdAt |-> at]
  <2>2. Evidences' = Append(Evidences, [source |-> s, content |-> c])
    BY <2>1, SnapshotObserved
  <2>3. row \in Delta
    BY <1>l DEF Delta, DeltaStateFor, DeltaStates, None
  <2>4. /\ row.source = s /\ row.class = class /\ row.state = DeltaStateFor(class)
        /\ row.to = Len(snapshots) + 1 /\ row.confirmedBy = 0
    BY DEF None
  <2>5. deltas' = Append(deltas, row)
    BY <2>1
  <2> HIDE DEF row
  <2>6. Findings' = Append(Findings,
          [source |-> s, class |-> class, fate |-> DeltaStateFor(class),
           seen |-> Len(Evidences) + 1, proof |-> 0])
    BY <1>l, <2>3, <2>4, <2>5, DeltaFound
  <2>7. DeltaStateFor(class) = Firewall!FirstFate(class)
    BY DEF DeltaStateFor, Firewall!FirstFate
  <2>8. Firewall!Detect(s, c, class)
    BY <2>2, <2>6, <2>7
       DEF Firewall!Detect, Firewall!Seen, Firewall!Found, Evidences, Findings
  <2>9. QED
    BY <2>8 DEF Firewall!Next
\* A verdict: the second look reproduces the first one or refutes it.
<1>3. ASSUME NEW t \in Ticks, CommitVerdict(t) PROVE Firewall!Next
  <2>1. PICK i \in DOMAIN deltas : i = ticks[t].delta /\ Pricing(i)
    BY <1>3 DEF CommitVerdict, EvidenceInv, HeldIds
  <2>2. PICK proof \in Nat : proof = Len(snapshots) + 1
    BY <1>l
  <2>3. PICK c \in Contents : c = ticks[t].content
    BY <1>t DEF TickState
  <2>4. /\ deltas[i] \in Delta
        /\ deltas[i].to \in DOMAIN snapshots
        /\ deltas[i].state = "pending" => deltas[i].confirmedBy = None
    BY ElementOfSeq, LenProperties DEF EvidenceInv, DeltaEvidence, TypeOK, StoreTypeOK
  <2>5. /\ Verdict(t) \in {"confirmed", "dismissed"}
        /\ Verdict(t) = "confirmed" <=> c = snapshots[deltas[i].to].content
    BY <2>1, <2>3 DEF Verdict, Reproduces
  <2>6. deltas[i].state = "pending"
    BY <1>3, <2>1, <2>5
       DEF CommitVerdict, DeltaTransitionAllowed, AllowedDeltaTransitions
  <2>7. Evidences' = Append(Evidences, [source |-> deltas[i].source, content |-> c])
    <3>1. deltas[i].source \in Sources /\ ticks[t].now \in Nat
      BY <1>t, <2>4 DEF TickState, Delta
    <3>2. snapshots' = WithSnapshot(deltas[i].source, c, ticks[t].now, "confirmation")
      BY <1>3, <2>1, <2>3 DEF CommitVerdict
    <3>3. QED
      BY <3>1, <3>2, SnapshotObserved
  <2>8. /\ i \in DOMAIN Findings
        /\ Findings' = [Findings EXCEPT ![i] =
             [source |-> deltas[i].source, class |-> deltas[i].class,
              fate |-> Verdict(t), seen |-> deltas[i].to,
              proof |-> IF Verdict(t) = "confirmed" THEN proof ELSE deltas[i].confirmedBy]]
    BY <1>3, <2>1, <2>2, <2>5, FateChanged DEF CommitVerdict, DeltaStates
  <2>9. /\ Findings[i] = [source |-> deltas[i].source, class |-> deltas[i].class,
                          fate |-> deltas[i].state, seen |-> deltas[i].to,
                          proof |-> deltas[i].confirmedBy]
        /\ Evidences[deltas[i].to].content = snapshots[deltas[i].to].content
    BY <2>4 DEF Findings, Evidences
  <2>10. Firewall!Undecided(i)
    <3>1. Findings[i].class = "pricing_change" /\ Findings[i].fate = "pending"
      BY <2>1, <2>6, <2>9 DEF Pricing
    <3>2. QED
      BY <3>1 DEF Firewall!Undecided, Findings
  <2>11. CASE Verdict(t) = "confirmed"
    <3>1. Findings' = [Findings EXCEPT ![i].fate = "confirmed",
                                       ![i].proof = Len(Evidences) + 1]
      <4>1. [Findings[i] EXCEPT !.fate = "confirmed", !.proof = Len(Evidences) + 1]
              = [source |-> deltas[i].source, class |-> deltas[i].class,
                 fate |-> "confirmed", seen |-> deltas[i].to, proof |-> proof]
        <5>1. Len(Evidences) + 1 = proof
          BY <1>l, <2>2
        <5>2. Findings[i] \in Finding
          <6>1. Findings[i] \in [source: Sources, class: TriageClasses, fate: DeltaStates,
                                 seen: Nat, proof: Nat]
            BY <2>4, <2>9 DEF Delta
          <6>2. QED
            BY <6>1 DEF Finding
        <5>3. /\ Findings[i].source = deltas[i].source
              /\ Findings[i].class = deltas[i].class
              /\ Findings[i].seen = deltas[i].to
          BY <2>9
        <5>4. PICK g : g = [Findings[i] EXCEPT !.fate = "confirmed", !.proof = proof]
          OBVIOUS
        <5>5. g = [source |-> Findings[i].source, class |-> Findings[i].class,
                   fate |-> "confirmed", seen |-> Findings[i].seen, proof |-> proof]
          BY <5>2, <5>4, FindingConfirmed
        <5>6. QED
          BY <5>1, <5>3, <5>4, <5>5
      <4>2. Findings' = [Findings EXCEPT ![i] =
              [source |-> deltas[i].source, class |-> deltas[i].class,
               fate |-> "confirmed", seen |-> deltas[i].to, proof |-> proof]]
        BY <2>8, <2>11
      <4>3. Findings' = [Findings EXCEPT ![i] =
              [Findings[i] EXCEPT !.fate = "confirmed", !.proof = Len(Evidences) + 1]]
        BY <4>1, <4>2
      <4>4. QED
        BY <2>8, <4>3
    <3>2. Evidences' = Append(Evidences, [source |-> Findings[i].source,
                                          content |-> Evidences[Findings[i].seen].content])
      BY <2>5, <2>7, <2>9, <2>11
    <3>3. Firewall!Reproduce(i)
      BY <2>10, <3>1, <3>2 DEF Firewall!Reproduce, Firewall!Seen, Evidences, Findings
    <3>4. QED
      BY <2>8, <3>3 DEF Firewall!Next, Findings
  <2>12. CASE Verdict(t) = "dismissed"
    <3>1. Findings' = [Findings EXCEPT ![i].fate = "dismissed"]
      <4>1. [Findings[i] EXCEPT !.fate = "dismissed"]
              = [source |-> deltas[i].source, class |-> deltas[i].class,
                 fate |-> "dismissed", seen |-> deltas[i].to,
                 proof |-> deltas[i].confirmedBy]
        BY <2>9
      <4>2. Findings' = [Findings EXCEPT ![i] =
              [source |-> deltas[i].source, class |-> deltas[i].class,
               fate |-> "dismissed", seen |-> deltas[i].to,
               proof |-> deltas[i].confirmedBy]]
        BY <2>8, <2>12
      <4>3. QED
        BY <4>1, <4>2
    <3>2. /\ Evidences' = Append(Evidences, [source |-> Findings[i].source, content |-> c])
          /\ c # Evidences[Findings[i].seen].content
      BY <2>5, <2>7, <2>9, <2>12
    <3>3. Firewall!Refute(i, c)
      BY <2>10, <3>1, <3>2 DEF Firewall!Refute, Firewall!Seen, Evidences, Findings
    <3>4. QED
      BY <2>8, <3>3 DEF Firewall!Next, Findings
  <2>13. QED
    BY <2>5, <2>11, <2>12
\* The publish edge: the guard lets a price change through only when confirmed.
<1>4. ASSUME NEW t \in Ticks, NEW i \in DOMAIN deltas, PublishDelta(t, i)
      PROVE  Firewall!Next \/ UNCHANGED <<Evidences, Findings>>
  <2>1. Evidences' = Evidences
    BY <1>4 DEF PublishDelta, Evidences
  <2>2. CASE ~DeltaTransitionAllowed(i, "published", None)
    BY <1>4, <2>1, <2>2 DEF PublishDelta, Findings
  <2>3. CASE DeltaTransitionAllowed(i, "published", None)
    <3>1. deltas[i].state = "confirmed"
      BY <1>4, <2>3 DEF PublishDelta, EvidenceInv, HeldIds, Pricing,
                        DeltaTransitionAllowed, AllowedDeltaTransitions
    <3>2. /\ i \in DOMAIN Findings
          /\ Findings' = [Findings EXCEPT ![i] =
               [source |-> deltas[i].source, class |-> deltas[i].class,
                fate |-> "published", seen |-> deltas[i].to,
                proof |-> deltas[i].confirmedBy]]
      BY <1>4, <2>3, FateChanged DEF PublishDelta, DeltaStates, None
    <3>3. Findings[i] = [source |-> deltas[i].source, class |-> deltas[i].class,
                         fate |-> deltas[i].state, seen |-> deltas[i].to,
                         proof |-> deltas[i].confirmedBy]
      BY DEF Findings
    <3>4. Findings' = [Findings EXCEPT ![i].fate = "published"]
      <4>1. [Findings[i] EXCEPT !.fate = "published"]
              = [source |-> deltas[i].source, class |-> deltas[i].class,
                 fate |-> "published", seen |-> deltas[i].to,
                 proof |-> deltas[i].confirmedBy]
        BY <3>3
      <4>2. QED
        BY <3>2, <4>1
    <3>5. Findings[i].fate = "confirmed"
      BY <3>1, <3>3
    <3>6. Firewall!Publish(i)
      BY <2>1, <3>4, <3>5 DEF Firewall!Publish, Evidences, Findings
    <3>7. QED
      BY <3>2, <3>6 DEF Firewall!Next, Findings
  <2>4. QED
    BY <2>2, <2>3
\* Everything else leaves the history alone.
<1>5. CASE UNCHANGED <<snapshots, deltas>>
  BY <1>5 DEF Evidences, Findings
<1>6. QED
  BY <1>1, <1>2, <1>3, <1>4, <1>5
     DEF Next, CheckSource, ConfirmAndPublish, vars, storeVars, StartTick, SkipSource,
         FetchBlocked, FetchFails, FetchSucceeds, NothingToCompare, Unchanged,
         ContentChanged, NoSpansThrows, BudgetAllows, BudgetDenies, ClassifyFails,
         MarkSourceFetched, MarkSourceFailed, ListPending, RefetchFails, Refetch,
         VerdictRejected, ListConfirmed, FinishTick, Crash

\* Ticks implement the firewall.
THEOREM Refinement == Spec => ImplementsFirewall
<1>1. Init => Firewall!Init
  BY InitRefines
<1>2. IInv /\ IInv' /\ [Next]_vars => [Firewall!Next]_(Firewall!vars)
  BY StepRefines DEF IInv, Firewall!vars, Evidences, Findings
<1>3. Spec => Firewall!Spec
  BY <1>1, <1>2, Inductive, PTL DEF Spec, Firewall!Spec
<1>4. QED
  BY <1>3 DEF ImplementsFirewall
=============================================================================
