---------------------- MODULE ScheduledTickSerial_proofs ----------------------
(***************************************************************************)
(* What holds when ticks do not overlap: the cron's ticks one after the    *)
(* other, any number of sources, and, where a theorem does not say         *)
(* otherwise, any faults.  One tick in flight is the hypothesis OneTick;   *)
(* the run overlap_reports_twice shows what is lost without it.            *)
(***************************************************************************)
EXTENDS ScheduledTickHistory_proofs, WellFoundedInduction

OneTick == \A t, u \in Ticks : t = u

-----------------------------------------------------------------------------
(* The loop: what the tick knows of the snapshots it works on.             *)

Visiting(t) == ticks[t].phase \in {"fetched", "baseline", "changed", "affordable"}

\* No snapshot of s has been taken at the tick's instant yet.
Fresh(t, s) == \A j \in SnapshotsOf(s) : snapshots[j].fetchedAt < ticks[t].now

TickInv(t) ==
  /\ ~At(t, "idle") => ticks[t].now = clock /\ clock # 0
  /\ ticks[t].phase \in {"idle", "confirming", "refetched", "publishing"} => ticks[t].todo = {}
  /\ \A s \in ticks[t].todo : Fresh(t, s)
  /\ Visiting(t) => ticks[t].source \notin ticks[t].todo /\ Fresh(t, ticks[t].source)
  /\ At(t, "baseline") => LatestSnapshots(ticks[t].source) = {}
  /\ At(t, "changed") \/ At(t, "affordable")
       => ticks[t].previous \in LatestSnapshots(ticks[t].source)
  /\ At(t, "confirming") \/ At(t, "refetched")
       => ticks[t].queue \subseteq PricingDeltasIn("pending")
  /\ At(t, "refetched") => ticks[t].delta \in PricingDeltasIn("pending") \ ticks[t].queue

LoopInv ==
  /\ \A j \in DOMAIN snapshots : snapshots[j].fetchedAt # 0 /\ snapshots[j].fetchedAt <= clock
  /\ \A t \in Ticks : TickInv(t)

\* Reads depend on the history only.
LEMMA ReadsKept ==
  /\ UNCHANGED snapshots => \A s : /\ SnapshotsOf(s)' = SnapshotsOf(s)
                                   /\ LatestSnapshots(s)' = LatestSnapshots(s)
  /\ UNCHANGED deltas => \A state : PricingDeltasIn(state)' = PricingDeltasIn(state)
BY DEF SnapshotsOf, LatestSnapshots, LastInserted, NewestByFetchedAt, PricingDeltasIn

\* A snapshot of one source, taken now.
LEMMA StampAdded ==
  ASSUME TypeOK, LoopInv, NEW t \in Ticks, NEW r \in Sources, NEW v \in {"fetch", "confirmation"},
         ~At(t, "idle"), clock' = clock,
         snapshots' = WithSnapshot(r, ticks[t].content, ticks[t].now, v)
  PROVE  /\ \A j \in DOMAIN snapshots' : snapshots'[j].fetchedAt # 0 /\ snapshots'[j].fetchedAt <= clock'
         /\ \A s \in Sources \ {r} : /\ SnapshotsOf(s)' = SnapshotsOf(s)
                                     /\ ticks'[t].now = ticks[t].now => (Fresh(t, s) => Fresh(t, s)')
<1>1. ticks[t].content \in Contents /\ ticks[t].now \in Nat /\ clock \in Nat
  BY TickFields DEF TypeOK
<1>2. ticks[t].now = clock /\ clock # 0
  BY DEF LoopInv, TickInv
<1>3. /\ DOMAIN snapshots' = DOMAIN snapshots \cup {Len(snapshots) + 1}
      /\ \A j \in DOMAIN snapshots : snapshots'[j] = snapshots[j]
      /\ snapshots'[Len(snapshots) + 1].fetchedAt = ticks[t].now
      /\ \A s : SnapshotsOf(s)' = SnapshotsOf(s) \cup (IF s = r THEN {Len(snapshots) + 1} ELSE {})
  BY <1>1, SnapshotAdded
<1>4. \A j \in DOMAIN snapshots' : snapshots'[j].fetchedAt # 0 /\ snapshots'[j].fetchedAt <= clock'
  BY <1>1, <1>2, <1>3 DEF LoopInv
<1>5. \A s \in Sources \ {r} : SnapshotsOf(s)' = SnapshotsOf(s) /\ SnapshotsOf(s) \subseteq DOMAIN snapshots
  BY <1>3 DEF SnapshotsOf
<1>6. QED
  BY <1>3, <1>4, <1>5 DEF Fresh

LEMMA LoopStep ==
  ASSUME OneTick, TypeOK, EvidenceInv, LoopInv, NEW t \in Ticks, Step(t)
  PROVE  LoopInv'
<1>i. TickInv(t)
  BY DEF LoopInv
<1>o. TickInv(t)' => \A u \in Ticks : TickInv(u)'
  BY DEF OneTick
<1>f. /\ ticks[t].source \in Sources /\ ticks[t].todo \subseteq Sources
      /\ ticks[t].now \in Nat /\ clock \in Nat
  BY TickFields DEF TypeOK
\* Without a new snapshot.
<1>k. ASSUME UNCHANGED <<snapshots, clock>>, TickInv(t)' PROVE LoopInv'
  BY <1>k, <1>o DEF LoopInv
<1>1. CASE Started(t)
  <2>1. /\ snapshots' = snapshots /\ clock' = clock + 1 /\ ticks'[t].now = clock + 1
        /\ ticks'[t].phase = "sources"
    BY <1>1 DEF Started, storeVars
  <2>2. \A j \in DOMAIN snapshots : snapshots[j].fetchedAt \in Nat
    <3>1. \A j \in DOMAIN snapshots : snapshots[j] \in Snapshot
      BY ElementOfSeq, LenProperties DEF TypeOK, StoreTypeOK
    <3>2. QED
      BY <3>1 DEF Snapshot
  <2>3. /\ \A j \in DOMAIN snapshots' : snapshots'[j].fetchedAt # 0 /\ snapshots'[j].fetchedAt <= clock'
        /\ \A s : Fresh(t, s)'
    BY <1>f, <2>1, <2>2 DEF LoopInv, Fresh, SnapshotsOf
  <2>4. TickInv(t)'
    BY <1>f, <2>1, <2>3 DEF TickInv, At, Visiting
  <2>5. QED
    BY <1>o, <2>3, <2>4 DEF LoopInv
<1>2. CASE Skipped(t)
  <2>1. TickInv(t)'
    BY <1>2, <1>i DEF Skipped, GoesOn, TickInv, At, Visiting, Fresh, SnapshotsOf, storeVars
  <2>2. QED
    BY <1>2, <1>k, <2>1 DEF Skipped, storeVars
<1>3. CASE Visited(t)
  <2>1. TickInv(t)'
    BY <1>3, <1>i DEF Visited, GoesOn, TickInv, At, Visiting, Fresh, SnapshotsOf, History
  <2>2. QED
    BY <1>3, <1>k, <2>1 DEF Visited, History
<1>4. CASE Compared(t)
  <2>1. TickInv(t)'
    BY <1>4, <1>i, ReadsKept DEF Compared, Stays, GoesOn, TickInv, At, Visiting, Fresh, History
  <2>2. QED
    BY <1>4, <1>k, <2>1 DEF Compared, History
<1>5. CASE Afforded(t)
  <2>1. TickInv(t)'
    BY <1>5, <1>i, ReadsKept DEF Afforded, Stays, GoesOn, TickInv, At, Visiting, Fresh, storeVars
  <2>2. QED
    BY <1>5, <1>k, <2>1 DEF Afforded, storeVars
<1>6. CASE GaveUp(t)
  <2>1. TickInv(t)'
    BY <1>6, <1>i DEF GaveUp, GoesOn, TickInv, At, Visiting, Fresh, SnapshotsOf, History
  <2>2. QED
    BY <1>6, <1>k, <2>1 DEF GaveUp, History
\* The stored observation is of a source that is done with for this tick.
<1>s. ASSUME snapshots' = WithSnapshot(ticks[t].source, ticks[t].content, ticks[t].now, "fetch"),
             Visiting(t), ticks'[t].phase = "completed", Stays(t), clock' = clock
      PROVE  LoopInv'
  <2>1. ~At(t, "idle") /\ ticks[t].source \notin ticks[t].todo
    BY <1>i, <1>s DEF TickInv, At, Visiting
  <2>2. \A j \in DOMAIN snapshots' : snapshots'[j].fetchedAt # 0 /\ snapshots'[j].fetchedAt <= clock'
    BY <1>f, <1>s, <2>1, StampAdded
  <2>3. \A s \in ticks[t].todo : Fresh(t, s) => Fresh(t, s)'
    BY <1>f, <1>s, <2>1, StampAdded DEF Stays, GoesOn
  <2>4. TickInv(t)'
    BY <1>i, <1>s, <2>1, <2>3 DEF TickInv, At, Visiting, Stays, GoesOn
  <2>5. QED
    BY <1>o, <2>2, <2>4 DEF LoopInv
<1>7. CASE StoredBaseline(t)
  BY <1>7, <1>s DEF StoredBaseline, Visiting, At
<1>8. ASSUME NEW class \in TriageClasses, NEW cost \in Costs, StoredDelta(t, class, cost)
      PROVE  LoopInv'
  BY <1>8, <1>s DEF StoredDelta, Visiting, At
<1>9. CASE Marked(t)
  <2>1. TickInv(t)'
    BY <1>9, <1>i DEF Marked, GoesOn, TickInv, At, Visiting, Fresh, SnapshotsOf, History
  <2>2. QED
    BY <1>9, <1>k, <2>1 DEF Marked, History
<1>10. CASE Listed(t)
  <2>1. TickInv(t)'
    BY <1>10, <1>i, ReadsKept DEF Listed, TickInv, At, Visiting, Fresh, storeVars
  <2>2. QED
    BY <1>10, <1>k, <2>1 DEF Listed, storeVars
<1>11. ASSUME NEW i \in DOMAIN deltas, Refetched(t, i) PROVE LoopInv'
  <2>1. TickInv(t)'
    BY <1>11, <1>i, ReadsKept DEF Refetched, TickInv, At, Visiting, Fresh, History
  <2>2. QED
    BY <1>11, <1>k, <2>1 DEF Refetched, History
<1>12. CASE Judged(t)
  <2> DEFINE i == ticks[t].delta
  <2>1. /\ i \in DOMAIN deltas /\ deltas[i].source \in Sources /\ DOMAIN deltas' = DOMAIN deltas
        /\ \A j \in DOMAIN deltas : j # i => deltas'[j] = deltas[j]
    BY <1>12, VerdictStored
  <2>2. ~At(t, "idle") /\ ticks[t].todo = {} /\ ticks[t].queue \subseteq PricingDeltasIn("pending") \ {i}
    BY <1>12, <1>i DEF Judged, TickInv, At
  <2>3. \A j \in DOMAIN snapshots' : snapshots'[j].fetchedAt # 0 /\ snapshots'[j].fetchedAt <= clock'
    BY <1>12, <2>1, <2>2, StampAdded DEF Judged
  <2>4. ticks[t].queue \subseteq PricingDeltasIn("pending")'
    BY <2>1, <2>2 DEF PricingDeltasIn
  <2> HIDE DEF i
  <2>5. TickInv(t)'
    BY <1>12, <1>i, <2>2, <2>4 DEF Judged, GoesOn, TickInv, At, Visiting
  <2>6. QED
    BY <1>o, <2>3, <2>5 DEF LoopInv
<1>13. CASE Rejected(t)
  <2>1. TickInv(t)'
    BY <1>13, <1>i, ReadsKept DEF Rejected, GoesOn, TickInv, At, Visiting, Fresh, storeVars
  <2>2. QED
    BY <1>13, <1>k, <2>1 DEF Rejected, storeVars
<1>14. ASSUME NEW i \in DOMAIN deltas, Published(t, i) PROVE LoopInv'
  <2>1. TickInv(t)'
    BY <1>14, <1>i, ReadsKept DEF Published, TickInv, At, Visiting, Fresh
  <2>2. QED
    BY <1>14, <1>k, <2>1 DEF Published
<1>15. CASE Stopped(t)
  <2>1. TickInv(t)'
    BY <1>15 DEF Stopped, TickInv, At, Visiting
  <2>2. QED
    BY <1>15, <1>k, <2>1 DEF Stopped, storeVars
<1>16. QED
  BY <1>1, <1>2, <1>3, <1>4, <1>5, <1>6, <1>7, <1>8, <1>9, <1>10, <1>11, <1>12, <1>13, <1>14,
     <1>15 DEF Step

-----------------------------------------------------------------------------
(* The latest snapshot.                                                    *)

LEMMA GreatestNumber ==
  ASSUME NEW n \in Nat, NEW T \in SUBSET (0 .. n), T # {}
  PROVE  \E m \in T : \A k \in T : k <= m
<1> DEFINE Above(m) == 0 .. (n - m)
           F == {Above(m) : m \in T}
<1>1. \A m \in T : n - m \in Nat
  OBVIOUS
<1>2. F # {} /\ F \subseteq FiniteSubsetsOf(Nat)
  <2>1. \A m \in T : Above(m) \in FiniteSubsetsOf(Nat)
    BY <1>1, FS_Interval DEF FiniteSubsetsOf
  <2>2. QED
    BY <2>1
<1>3. PICK x \in F : \A y \in F : ~ (<<y, x>> \in StrictSubsetOrdering(Nat))
  BY <1>2, FS_StrictSubsetOrderingWellFounded, WFMin
<1>4. PICK m \in T : x = Above(m)
  OBVIOUS
<1>5. ASSUME NEW k \in T, ~(k <= m) PROVE FALSE
  <2>1. Above(k) \in F /\ Above(k) \in SUBSET Nat /\ x \in SUBSET Nat
    BY <1>4
  <2>2. Above(k) \subseteq x /\ n - m \in x /\ n - m \notin Above(k)
    BY <1>1, <1>4, <1>5
  <2>3. QED
    BY <1>3, <2>1, <2>2 DEF StrictSubsetOrdering
<1>6. QED
  BY <1>5

\* A source that has snapshots has a latest one, in both stores.
LEMMA LatestExists ==
  ASSUME TypeOK, LoopInv, NEW s \in Sources, SnapshotsOf(s) # {}
  PROVE  LatestSnapshots(s) # {}
<1>t. /\ DOMAIN snapshots = 1 .. Len(snapshots) /\ Len(snapshots) \in Nat /\ clock \in Nat
      /\ \A j \in DOMAIN snapshots : snapshots[j].fetchedAt \in Nat
  <2>1. \A j \in DOMAIN snapshots : snapshots[j] \in Snapshot
    BY ElementOfSeq, LenProperties DEF TypeOK, StoreTypeOK
  <2>2. QED
    BY <2>1, LenProperties DEF TypeOK, StoreTypeOK, Snapshot
<1>1. CASE SnapshotOrder = "insertion"
  <2>1. SnapshotsOf(s) \in SUBSET (0 .. Len(snapshots))
    BY <1>t DEF SnapshotsOf
  <2>2. \E m \in SnapshotsOf(s) : \A k \in SnapshotsOf(s) : k <= m
    BY <1>t, <2>1, GreatestNumber
  <2>3. QED
    BY <1>1, <2>2 DEF LatestSnapshots, LastInserted
<1>2. CASE SnapshotOrder # "insertion"
  <2> DEFINE Stamps == {snapshots[j].fetchedAt : j \in SnapshotsOf(s)}
  <2>1. Stamps \in SUBSET (0 .. clock) /\ Stamps # {}
    <3>1. \A j \in SnapshotsOf(s) : snapshots[j].fetchedAt \in 0 .. clock
      BY <1>t DEF SnapshotsOf, LoopInv
    <3>2. QED
      BY <3>1
  <2>2. PICK m \in Stamps : \A k \in Stamps : k <= m
    <3> HIDE DEF Stamps
    <3>1. QED
      BY <1>t, <2>1, GreatestNumber
  <2>3. PICK j \in SnapshotsOf(s) : snapshots[j].fetchedAt = m
    OBVIOUS
  <2>4. \A k \in SnapshotsOf(s) : snapshots[k].fetchedAt <= snapshots[j].fetchedAt
    BY <2>2, <2>3
  <2>5. QED
    BY <1>2, <2>3, <2>4 DEF LatestSnapshots, NewestByFetchedAt
<1>3. QED
  BY <1>1, <1>2

-----------------------------------------------------------------------------
(* What a delta reports.                                                   *)

\* Delta i leads from one snapshot of its source to a later and newer one.
Leads(i) ==
  LET d == deltas[i] IN
  /\ d.from \in SnapshotsOf(d.source) /\ d.to \in SnapshotsOf(d.source)
  /\ d.from < d.to
  /\ snapshots[d.from].fetchedAt < snapshots[d.to].fetchedAt

Explained(j) ==
  \/ snapshots[j].vantage = "confirmation"
  \/ \A i \in DOMAIN snapshots : i < j => snapshots[i].source # snapshots[j].source
  \/ \E i \in DOMAIN deltas : deltas[i].to = j

ReportInv ==
  /\ \A i \in DOMAIN deltas : Leads(i)
  /\ OneDeltaPerBaseline
  /\ \A j \in DOMAIN snapshots : Explained(j)

\* Rows that stay keep what they say.
LEMMA ReportKept ==
  ASSUME ReportInv,
         DOMAIN snapshots \subseteq DOMAIN snapshots',
         \A j \in DOMAIN snapshots' \ DOMAIN snapshots : \A i \in DOMAIN snapshots : i < j,
         \A j \in DOMAIN snapshots : snapshots'[j] = snapshots[j],
         DOMAIN deltas \subseteq DOMAIN deltas',
         \A i \in DOMAIN deltas : /\ deltas'[i].source = deltas[i].source
                                  /\ deltas'[i].from = deltas[i].from
                                  /\ deltas'[i].to = deltas[i].to,
         DOMAIN snapshots \subseteq Nat, DOMAIN snapshots' \subseteq Nat
  PROVE  /\ \A i \in DOMAIN deltas : Leads(i)'
         /\ \A j \in DOMAIN snapshots : Explained(j)'
<1>1. ASSUME NEW i \in DOMAIN deltas PROVE Leads(i)'
  BY DEF ReportInv, Leads, SnapshotsOf
<1>2. ASSUME NEW j \in DOMAIN snapshots PROVE Explained(j)'
  <2>1. Explained(j)
    BY DEF ReportInv
  <2>2. CASE \A i \in DOMAIN snapshots : i < j => snapshots[i].source # snapshots[j].source
    <3>1. \A i \in DOMAIN snapshots' : i < j => i \in DOMAIN snapshots
      OBVIOUS
    <3>2. QED
      BY <2>2, <3>1 DEF Explained
  <2>3. CASE snapshots[j].vantage = "confirmation" \/ \E i \in DOMAIN deltas : deltas[i].to = j
    BY <2>3 DEF Explained
  <2>4. QED
    BY <2>1, <2>2, <2>3 DEF Explained
<1>3. QED
  BY <1>1, <1>2

LEMMA ReportStep ==
  ASSUME TypeOK, EvidenceInv, LoopInv, ReportInv, NEW t \in Ticks, Step(t)
  PROVE  ReportInv'
<1>0. PICK k \in Nat, n \in Nat : k = Len(snapshots) + 1 /\ n = Len(deltas) + 1
  <2>1. Len(snapshots) + 1 \in Nat /\ Len(deltas) + 1 \in Nat
    BY LenProperties DEF TypeOK, StoreTypeOK
  <2>2. QED
    BY <2>1
<1>i. TickInv(t)
  BY DEF LoopInv
<1>f. /\ ticks[t].source \in Sources /\ ticks[t].content \in Contents /\ ticks[t].now \in Nat
      /\ DOMAIN deltas \subseteq Nat /\ DOMAIN snapshots \subseteq Nat
  BY TickFields, DeltaIds, LatestIsStored
\* One more snapshot, and rows of deltas that say the same of theirs.
<1>a. ASSUME NEW r \in Sources, NEW v \in {"fetch", "confirmation"},
             snapshots' = WithSnapshot(r, ticks[t].content, ticks[t].now, v)
      PROVE  /\ DOMAIN snapshots' = DOMAIN snapshots \cup {k} /\ k \notin DOMAIN snapshots
             /\ \A j \in DOMAIN snapshots : j < k /\ snapshots'[j] = snapshots[j]
             /\ snapshots'[k].source = r /\ snapshots'[k].vantage = v
             /\ snapshots'[k].fetchedAt = ticks[t].now
  BY <1>0, <1>a, <1>f, SnapshotAdded
<1>1. CASE UNCHANGED History
  BY <1>1 DEF History, ReportInv, Leads, Explained, OneDeltaPerBaseline, SnapshotsOf
\* The first observation of its source needs no delta.
<1>2. CASE StoredBaseline(t)
  <2>1. SnapshotsOf(ticks[t].source) = {}
    BY <1>2, <1>f, <1>i, LatestExists DEF StoredBaseline, TickInv
  <2>2. /\ DOMAIN snapshots' = DOMAIN snapshots \cup {k} /\ k \notin DOMAIN snapshots
        /\ \A j \in DOMAIN snapshots : j < k /\ snapshots'[j] = snapshots[j]
        /\ snapshots'[k].source = ticks[t].source /\ deltas' = deltas
    BY <1>2, <1>a, <1>f DEF StoredBaseline
  <2>3. /\ \A i \in DOMAIN deltas : Leads(i)'
        /\ \A j \in DOMAIN snapshots : Explained(j)'
    BY <1>f, <2>2, ReportKept
  <2>4. Explained(k)'
    <3>1. \A i \in DOMAIN snapshots' : i < k => snapshots'[i].source # snapshots'[k].source
      BY <1>f, <2>1, <2>2 DEF SnapshotsOf
    <3>2. QED
      BY <3>1 DEF Explained
  <2>5. QED
    BY <2>2, <2>3, <2>4 DEF ReportInv, OneDeltaPerBaseline
<1>3. ASSUME NEW class \in TriageClasses, NEW cost \in Costs, StoredDelta(t, class, cost)
      PROVE  ReportInv'
  <2> DEFINE s == ticks[t].source
             p == ticks[t].previous
  <2>1. /\ DOMAIN snapshots' = DOMAIN snapshots \cup {k} /\ k \notin DOMAIN snapshots
        /\ \A j \in DOMAIN snapshots : j < k /\ snapshots'[j] = snapshots[j]
        /\ snapshots'[k].source = s /\ snapshots'[k].fetchedAt = ticks[t].now
    BY <1>3, <1>a, <1>f DEF StoredDelta
  <2>2. /\ DOMAIN deltas' = DOMAIN deltas \cup {n} /\ n \notin DOMAIN deltas
        /\ \A i \in DOMAIN deltas : deltas'[i] = deltas[i]
        /\ deltas'[n].source = s /\ deltas'[n].from = p /\ deltas'[n].to = k
    BY <1>0, <1>3, DeltaStored
  <2>3. p \in LatestSnapshots(s) /\ Fresh(t, s)
    BY <1>3, <1>i DEF StoredDelta, TickInv, At, Visiting
  <2>4. p \in SnapshotsOf(s) /\ p \in DOMAIN snapshots
    BY <2>3 DEF LatestSnapshots, LastInserted, NewestByFetchedAt, SnapshotsOf
  <2>5. snapshots[p].fetchedAt < ticks[t].now
    BY <2>3, <2>4 DEF Fresh
  <2> HIDE DEF s, p
  <2>6. /\ \A i \in DOMAIN deltas : Leads(i)'
        /\ \A j \in DOMAIN snapshots : Explained(j)'
    BY <1>f, <2>1, <2>2, ReportKept
  <2>7. Leads(n)'
    BY <2>1, <2>2, <2>4, <2>5 DEF Leads, SnapshotsOf
  <2>8. Explained(k)'
    <3>1. \E i \in DOMAIN deltas' : deltas'[i].to = k
      BY <2>2
    <3>2. QED
      BY <3>1 DEF Explained
  \* A delta that started from the latest snapshot would have led to a later one.
  <2>9. \A i \in DOMAIN deltas : deltas[i].source = s => deltas[i].from # p
    <3> SUFFICES ASSUME NEW i \in DOMAIN deltas, deltas[i].source = s, deltas[i].from = p
                 PROVE  FALSE
      OBVIOUS
    <3>1. /\ deltas[i].to \in SnapshotsOf(s) /\ p < deltas[i].to
          /\ snapshots[p].fetchedAt < snapshots[deltas[i].to].fetchedAt
      BY DEF ReportInv, Leads
    <3>2. /\ deltas[i].to \in Nat /\ p \in Nat
          /\ snapshots[p].fetchedAt \in Nat /\ snapshots[deltas[i].to].fetchedAt \in Nat
      <4>1. deltas[i].to \in DOMAIN snapshots
        BY <3>1 DEF SnapshotsOf
      <4>2. snapshots[p] \in Snapshot /\ snapshots[deltas[i].to] \in Snapshot
        BY <2>4, <4>1, ElementOfSeq, LenProperties DEF TypeOK, StoreTypeOK
      <4>3. QED
        BY <1>f, <2>4, <4>1, <4>2 DEF Snapshot
    <3>3. QED
      BY <2>3, <3>1, <3>2 DEF LatestSnapshots, LastInserted, NewestByFetchedAt
  <2>10. OneDeltaPerBaseline'
    BY <2>2, <2>9 DEF OneDeltaPerBaseline, ReportInv
  <2>11. QED
    BY <2>1, <2>2, <2>6, <2>7, <2>8, <2>10 DEF ReportInv
\* A confirmation reports nothing.
<1>4. CASE Judged(t)
  <2>1. /\ DOMAIN deltas' = DOMAIN deltas
        /\ \A i \in DOMAIN deltas : /\ deltas'[i].source = deltas[i].source
                                    /\ deltas'[i].from = deltas[i].from
                                    /\ deltas'[i].to = deltas[i].to
        /\ deltas[ticks[t].delta].source \in Sources
    BY <1>4, VerdictStored
  <2>2. /\ DOMAIN snapshots' = DOMAIN snapshots \cup {k} /\ k \notin DOMAIN snapshots
        /\ \A j \in DOMAIN snapshots : j < k /\ snapshots'[j] = snapshots[j]
        /\ snapshots'[k].vantage = "confirmation"
    BY <1>4, <1>a, <2>1 DEF Judged
  <2>3. /\ \A i \in DOMAIN deltas : Leads(i)'
        /\ \A j \in DOMAIN snapshots : Explained(j)'
    BY <1>f, <2>1, <2>2, ReportKept
  <2>4. Explained(k)'
    BY <2>2 DEF Explained
  <2>5. QED
    BY <2>1, <2>2, <2>3, <2>4 DEF ReportInv, OneDeltaPerBaseline
<1>5. ASSUME NEW i \in DOMAIN deltas, Published(t, i) PROVE ReportInv'
  <2>1. /\ DOMAIN deltas' = DOMAIN deltas
        /\ \A j \in DOMAIN deltas : /\ deltas'[j].source = deltas[j].source
                                    /\ deltas'[j].from = deltas[j].from
                                    /\ deltas'[j].to = deltas[j].to
        /\ snapshots' = snapshots
    BY <1>5, EdgeStored DEF Published
  <2>2. /\ \A j \in DOMAIN deltas : Leads(j)'
        /\ \A j \in DOMAIN snapshots : Explained(j)'
    BY <1>f, <2>1, ReportKept
  <2>3. QED
    BY <2>1, <2>2 DEF ReportInv, OneDeltaPerBaseline
<1>6. QED
  BY <1>1, <1>2, <1>3, <1>4, <1>5, HistorySteps

LEMMA LoopInductive == OneTick => (Spec => []LoopInv)
<1> SUFFICES ASSUME OneTick PROVE Spec => []LoopInv
  OBVIOUS
<1>1. Init => LoopInv
  <2> SUFFICES ASSUME Init PROVE LoopInv
    OBVIOUS
  <2>1. \A t \in Ticks : ticks[t].phase = "idle" /\ ticks[t].todo = {}
    BY DEF Init, Idle
  <2>2. DOMAIN snapshots = {}
    BY DEF Init, StoreInit
  <2>3. QED
    BY <2>1, <2>2 DEF LoopInv, TickInv, At, Visiting
<1>2. TypeOK /\ EvidenceInv /\ LoopInv /\ [Next]_vars => LoopInv'
  <2> SUFFICES ASSUME TypeOK, EvidenceInv, LoopInv, [Next]_vars PROVE LoopInv'
    OBVIOUS
  <2>1. CASE UNCHANGED vars
    BY <2>1, ReadsKept DEF vars, storeVars, LoopInv, TickInv, At, Visiting, Fresh
  <2>2. QED
    BY <2>1, Steps, LoopStep
<1>3. QED
  BY <1>1, <1>2, TypeCorrect, Evidence, PTL DEF Spec

LEMMA ReportInductive == OneTick => (Spec => []ReportInv)
<1> SUFFICES ASSUME OneTick PROVE Spec => []ReportInv
  OBVIOUS
<1>0. Spec => []LoopInv
  BY LoopInductive
<1>1. Init => ReportInv
  BY DEF Init, StoreInit, ReportInv, OneDeltaPerBaseline
<1>2. TypeOK /\ EvidenceInv /\ LoopInv /\ ReportInv /\ [Next]_vars => ReportInv'
  <2> SUFFICES ASSUME TypeOK, EvidenceInv, LoopInv, ReportInv, [Next]_vars PROVE ReportInv'
    OBVIOUS
  <2>1. CASE UNCHANGED vars
    BY <2>1 DEF vars, storeVars, ReportInv, Leads, Explained, OneDeltaPerBaseline, SnapshotsOf
  <2>2. QED
    BY <2>1, Steps, ReportStep
<1>3. QED
  BY <1>0, <1>1, <1>2, TypeCorrect, Evidence, PTL DEF Spec

\* Ticks that do not overlap report a change once, whichever store they run on and
\* wherever they crash: a delta leads to a snapshot newer than the one it starts from,
\* so that one is never the latest again.
THEOREM OneReport == ASSUME OneTick PROVE Spec => []OneDeltaPerBaseline
<1>1. Spec => []ReportInv
  BY ReportInductive
<1>2. ReportInv => OneDeltaPerBaseline
  BY DEF ReportInv
<1>3. QED
  BY <1>1, <1>2, PTL

\* Ticks that do not overlap absorb no change: every observation of a source but the first
\* is what some delta reports, whatever the budget denied and wherever a tick crashed.
THEOREM NothingAbsorbed == ASSUME OneTick PROVE Spec => []EveryObservationIsExplained
<1>1. Spec => []ReportInv
  BY ReportInductive
<1>2. ReportInv => EveryObservationIsExplained
  BY DEF ReportInv, Explained, EveryObservationIsExplained
<1>3. QED
  BY <1>1, <1>2, PTL

-----------------------------------------------------------------------------
(* One row for each attempt.                                               *)

\* No two pages differ by lines one of them only loses.
PagesOnlyEdited == \A c, d \in Contents : ChangedSpans(c, d) = {} => c = d

\* Every attempt has its row, or is still under way.
CoveredInv == coverage.rows + Cardinality(Uncovered) = world.attempts

LEMMA CoveredStep ==
  ASSUME TypeOK, TypeOK', CoveredInv, NEW t \in Ticks, Others(t), Step(t),
         ~Rejected(t), PagesOnlyEdited, "classify" \notin Faults, "crash" \notin Faults
  PROVE  CoveredInv'
<1> DEFINE before == Cardinality(Uncovered)
           after == Cardinality(Uncovered')
<1>t. /\ coverage.rows \in Nat /\ world \in World /\ world.attempts \in Nat
      /\ coverage'.rows \in Nat /\ world'.attempts \in Nat
  BY DEF TypeOK, StoreTypeOK, Coverage, World
<1>m. /\ before \in Nat /\ after \in Nat
      /\ (t \in Uncovered <=> t \in Uncovered') => after = before
      /\ t \notin Uncovered /\ t \in Uncovered' => after = before + 1
      /\ t \in Uncovered /\ t \notin Uncovered' => after = before - 1
  BY UncoveredMoves
<1>r. coverage.rows + before = world.attempts
  BY DEF CoveredInv
<1>u. t \in Uncovered <=> ticks[t].phase \in {"fetched", "baseline", "changed", "affordable",
                                              "refetched"}
  BY DEF Uncovered
<1>v. t \in Uncovered' <=> ticks'[t].phase \in {"fetched", "baseline", "changed", "affordable",
                                                "refetched"}
  BY DEF Uncovered
<1>a. Attempted => world'.attempts = world.attempts + 1
  BY <1>t DEF Attempted, World
<1>c. \A failed, found, cost : WithCoverage(failed, found, cost).rows = coverage.rows + 1
  BY CoverageAdded
<1> HIDE DEF before, after
\* Only a row, a new attempt, or both.
<1>q. ASSUME \/ coverage'.rows = coverage.rows /\ world'.attempts = world.attempts
                /\ (t \in Uncovered <=> t \in Uncovered')
             \/ coverage'.rows = coverage.rows /\ world'.attempts = world.attempts + 1
                /\ t \notin Uncovered /\ t \in Uncovered'
             \/ coverage'.rows = coverage.rows + 1 /\ world'.attempts = world.attempts + 1
                /\ (t \in Uncovered <=> t \in Uncovered')
             \/ coverage'.rows = coverage.rows + 1 /\ world'.attempts = world.attempts
                /\ t \in Uncovered /\ t \notin Uncovered'
      PROVE  CoveredInv'
  <2>1. coverage'.rows + after = world'.attempts
    BY <1>m, <1>q, <1>r, <1>t
  <2>2. QED
    BY <2>1 DEF CoveredInv, after
<1>1. CASE Started(t) \/ Skipped(t) \/ Afforded(t) \/ Listed(t) \/ Marked(t)
  <2>1. coverage' = coverage /\ world' = world /\ (t \in Uncovered <=> t \in Uncovered')
    BY <1>1, <1>u, <1>v DEF Started, Skipped, Afforded, Listed, Marked, At, storeVars
  <2>2. QED
    BY <1>q, <2>1
<1>2. CASE Visited(t)
  <2>1. /\ world'.attempts = world.attempts + 1 /\ t \notin Uncovered
        /\ \/ coverage' = coverage /\ t \in Uncovered'
           \/ coverage' = WithCoverage(1, 0, 0) /\ t \notin Uncovered'
    BY <1>2, <1>a, <1>u, <1>v DEF Visited, At
  <2>2. QED
    BY <1>c, <1>q, <2>1
<1>3. CASE Compared(t)
  <2>1. /\ world' = world /\ t \in Uncovered
        /\ \/ coverage' = coverage /\ t \in Uncovered'
           \/ coverage' = WithCoverage(0, 0, 0) /\ t \notin Uncovered'
    BY <1>3, <1>u, <1>v DEF Compared, At
  <2>2. QED
    BY <1>c, <1>q, <2>1
\* A page that only lost lines would be dropped without a row.
<1>4. CASE GaveUp(t)
  <2>1. ~ /\ At(t, "fetched")
          /\ \E p \in LatestSnapshots(ticks[t].source) :
               /\ snapshots[p].content # ticks[t].content
               /\ ChangedSpans(snapshots[p].content, ticks[t].content) = {}
    <3>1. ASSUME NEW p \in LatestSnapshots(ticks[t].source) PROVE snapshots[p].content \in Contents
      <4>1. p \in DOMAIN snapshots
        BY LatestIsStored, TickFields
      <4>2. snapshots[p] \in Snapshot
        BY <4>1, ElementOfSeq, LenProperties DEF TypeOK, StoreTypeOK
      <4>3. QED
        BY <4>2 DEF Snapshot
    <3>2. QED
      BY <3>1, TickFields DEF PagesOnlyEdited
  <2>2. /\ world' = world /\ coverage' = WithCoverage(0, 0, 0)
        /\ t \in Uncovered /\ t \notin Uncovered'
    BY <1>4, <1>u, <1>v, <2>1 DEF GaveUp, At
  <2>3. QED
    BY <1>c, <1>q, <2>2
<1>5. CASE StoredBaseline(t) \/ Judged(t)
  <2>1. /\ world' = world /\ coverage' = WithCoverage(0, 0, 0)
        /\ t \in Uncovered /\ t \notin Uncovered'
    BY <1>5, <1>u, <1>v DEF StoredBaseline, Judged, At
  <2>2. QED
    BY <1>c, <1>q, <2>1
<1>6. ASSUME NEW class \in TriageClasses, NEW cost \in Costs, StoredDelta(t, class, cost)
      PROVE  CoveredInv'
  <2>1. /\ coverage' = WithCoverage(0, 1, cost) /\ t \in Uncovered /\ t \notin Uncovered'
    BY <1>6, <1>u, <1>v DEF StoredDelta, At
  <2>2. world'.attempts = world.attempts
    BY <1>6, <1>t DEF StoredDelta, World
  <2>3. QED
    BY <1>c, <1>q, <2>1, <2>2
<1>7. ASSUME NEW i \in DOMAIN deltas, Refetched(t, i) PROVE CoveredInv'
  <2>1. /\ world'.attempts = world.attempts + 1 /\ t \notin Uncovered
        /\ \/ coverage' = coverage /\ t \in Uncovered'
           \/ coverage' = WithCoverage(1, 0, 0) /\ t \notin Uncovered'
    BY <1>7, <1>a, <1>u, <1>v DEF Refetched, At
  <2>2. QED
    BY <1>c, <1>q, <2>1
<1>8. CASE Stopped(t) \/ \E i \in DOMAIN deltas : Published(t, i)
  <2>1. coverage' = coverage /\ world' = world /\ (t \in Uncovered <=> t \in Uncovered')
    BY <1>8, <1>u, <1>v DEF Stopped, Published, At, storeVars
  <2>2. QED
    BY <1>q, <2>1
<1>9. QED
  BY <1>1, <1>2, <1>3, <1>4, <1>5, <1>6, <1>7, <1>8 DEF Step

\* A tick without rivals is never refused: what it confirms is still pending.
LEMMA NeverRejected ==
  ASSUME TypeOK, EvidenceInv, LoopInv, NEW t \in Ticks
  PROVE  ~Rejected(t)
<1> SUFFICES ASSUME Rejected(t) PROVE FALSE
  OBVIOUS
<1>1. deltas[ticks[t].delta].state = "pending"
  BY DEF Rejected, LoopInv, TickInv, PricingDeltasIn
<1>2. Len(snapshots) + 1 # None
  BY LenProperties DEF TypeOK, StoreTypeOK, None
<1>3. Verdict(t) \in {"confirmed", "dismissed"}
  BY DEF Verdict
<1>4. QED
  BY <1>1, <1>2, <1>3 DEF Rejected, DeltaTransitionAllowed, AllowedDeltaTransitions

\* Ticks that do not overlap leave one coverage row for each attempt, while no process dies,
\* the answers of the model parse and no page only loses lines: fetches may fail and budgets
\* may run out.
THEOREM AttemptsCovered ==
  ASSUME OneTick, PagesOnlyEdited, "classify" \notin Faults, "crash" \notin Faults
  PROVE  Spec => []EveryAttemptIsCovered
<1>0. Spec => []LoopInv
  BY LoopInductive
<1>1. Init => CoveredInv
  <2> SUFFICES ASSUME Init PROVE CoveredInv
    OBVIOUS
  <2>1. Uncovered = {}
    BY DEF Init, Uncovered, Idle
  <2>2. Cardinality(Uncovered) = 0
    BY <2>1, FS_EmptySet
  <2>3. QED
    BY <2>2 DEF Init, StoreInit, CoveredInv
<1>2. TypeOK /\ TypeOK' /\ EvidenceInv /\ LoopInv /\ CoveredInv /\ [Next]_vars => CoveredInv'
  <2> SUFFICES ASSUME TypeOK, TypeOK', EvidenceInv, LoopInv, CoveredInv, [Next]_vars
               PROVE  CoveredInv'
    OBVIOUS
  <2>1. CASE UNCHANGED vars
    BY <2>1 DEF vars, storeVars, CoveredInv, Uncovered
  <2>2. QED
    BY <2>1, Steps, CoveredStep, NeverRejected
<1>3. TypeOK /\ CoveredInv => EveryAttemptIsCovered
  <2> SUFFICES ASSUME TypeOK, CoveredInv, \A t \in Ticks : At(t, "idle")
               PROVE  coverage.rows = world.attempts
    BY DEF EveryAttemptIsCovered
  <2>1. Uncovered = {}
    BY DEF Uncovered, At
  <2>2. Cardinality(Uncovered) = 0
    BY <2>1, FS_EmptySet
  <2>3. coverage.rows \in Nat
    BY DEF TypeOK, StoreTypeOK, Coverage
  <2>4. QED
    BY <2>2, <2>3 DEF CoveredInv
<1>4. QED
  BY <1>0, <1>1, <1>2, <1>3, TypeCorrect, Evidence, PTL DEF Spec

-----------------------------------------------------------------------------
(* One observation per fire of the cadence, when no process dies.          *)

Observations(s) == {j \in SnapshotsOf(s) : snapshots[j].vantage = "fetch"}

\* The health of a source knows of every observation but the one being marked; the
\* loop goes by that health; and a visit comes after the fire it answers.
FireInv ==
  /\ \A s \in Sources, j \in DOMAIN snapshots :
       j \in Observations(s)
         => \/ snapshots[j].fetchedAt <= health[s].lastFetchedAt
            \/ \E t \in Ticks : At(t, "completed") /\ ticks[t].source = s
  /\ \A t \in Ticks :
       /\ \A s \in ticks[t].todo : ticks[t].listed[s].lastFetchedAt = health[s].lastFetchedAt
       /\ At(t, "completed") => ticks[t].source \notin ticks[t].todo
       /\ At(t, "failed") => ticks[t].source \notin ticks[t].todo
       /\ Visiting(t) =>
            \A j \in Observations(ticks[t].source) :
              snapshots[j].fetchedAt < PreviousFire(Period[ticks[t].source], ticks[t].now)
  /\ OneObservationPerFire

\* Without a new snapshot, and without a source becoming unknown.
LEMMA FireKept ==
  ASSUME OneTick, FireInv, NEW t \in Ticks, snapshots' = snapshots, health' = health,
         At(t, "completed") => ticks'[t].phase = "completed" /\ ticks'[t].source = ticks[t].source
  PROVE  /\ \A s \in Sources, j \in DOMAIN snapshots' :
              j \in Observations(s)'
                => \/ snapshots'[j].fetchedAt <= health'[s].lastFetchedAt
                   \/ \E u \in Ticks : At(u, "completed")' /\ ticks'[u].source = s
         /\ OneObservationPerFire'
         /\ \A s : Observations(s)' = Observations(s)
BY DEF FireInv, OneTick, Observations, SnapshotsOf, OneObservationPerFire, At

LEMMA FireStep ==
  ASSUME OneTick, TypeOK, EvidenceInv, LoopInv, FireInv, NEW t \in Ticks, Step(t),
         "crash" \notin Faults
  PROVE  FireInv'
<1>o. \A u \in Ticks : u = t
  BY DEF OneTick
<1>i. TickInv(t)
  BY DEF LoopInv
<1>f. /\ ticks[t].source \in Sources /\ ticks[t].content \in Contents /\ ticks[t].now \in Nat
      /\ ticks[t].todo \subseteq Sources
  BY TickFields
<1>d. \A j \in DOMAIN snapshots : /\ snapshots[j].fetchedAt \in Nat /\ snapshots[j].source \in Sources
                                  /\ snapshots[j].fetchedAt # 0
  <2>1. \A j \in DOMAIN snapshots : snapshots[j] \in Snapshot
    BY ElementOfSeq, LenProperties DEF TypeOK, StoreTypeOK
  <2>2. QED
    BY <2>1 DEF Snapshot, LoopInv
\* Steps that leave snapshots and health alone.
<1>k. ASSUME snapshots' = snapshots, health' = health,
             At(t, "completed") => ticks'[t].phase = "completed" /\ ticks'[t].source = ticks[t].source,
             /\ \A s \in ticks'[t].todo : ticks'[t].listed[s].lastFetchedAt = health[s].lastFetchedAt
             /\ ticks'[t].phase \in {"completed", "failed"} => ticks'[t].source \notin ticks'[t].todo
             /\ ticks'[t].phase \in {"fetched", "baseline", "changed", "affordable"} =>
                  \A j \in Observations(ticks'[t].source) :
                    snapshots[j].fetchedAt < PreviousFire(Period[ticks'[t].source], ticks'[t].now)
      PROVE  FireInv'
  <2>1. /\ \A s \in Sources, j \in DOMAIN snapshots' :
              j \in Observations(s)'
                => \/ snapshots'[j].fetchedAt <= health'[s].lastFetchedAt
                   \/ \E u \in Ticks : At(u, "completed")' /\ ticks'[u].source = s
        /\ OneObservationPerFire'
        /\ \A s : Observations(s)' = Observations(s)
    BY <1>k, FireKept
  <2>2. QED
    BY <1>k, <1>o, <2>1 DEF FireInv, At, Visiting
<1>1. CASE Started(t)
  BY <1>1, <1>k DEF Started, At, storeVars
<1>2. CASE Skipped(t)
  BY <1>2, <1>k DEF Skipped, GoesOn, At, storeVars, FireInv
\* A due source: what is known of it precedes the fire.
<1>3. CASE Visited(t)
  <2> DEFINE s == ticks'[t].source
  <2>1. /\ s \in ticks[t].todo /\ s \in Sources /\ At(t, "sources")
        /\ IsSourceDue(s, ticks[t].listed[s].lastFetchedAt, ticks[t].now)
        /\ ticks'[t].todo = ticks[t].todo \ {s} /\ ticks'[t].now = ticks[t].now
        /\ ticks'[t].listed = ticks[t].listed
        /\ snapshots' = snapshots /\ health' = health
    BY <1>3, <1>f DEF Visited, Fetchable, GoesOn, History
  <2> HIDE DEF s
  <2>2. ticks[t].listed[s].lastFetchedAt = health[s].lastFetchedAt
    BY <2>1 DEF FireInv
  <2>3. \A j \in Observations(s) : j \in DOMAIN snapshots /\ snapshots[j].fetchedAt <= health[s].lastFetchedAt
    BY <1>o, <2>1 DEF FireInv, At, Observations, SnapshotsOf
  <2>4. health[s].lastFetchedAt \in Nat /\ PreviousFire(Period[s], ticks[t].now) \in Nat
    <3>1. health[s].lastFetchedAt \in Nat
      BY <2>1 DEF TypeOK, StoreTypeOK, Health
    <3>2. Period[s] \in Nat /\ Period[s] # 0
      BY <2>1, TickAssumption DEF IsSourceDue
    <3>3. ticks[t].now \div Period[s] \in Nat
      BY <1>f, <3>2
    <3>4. QED
      BY <3>1, <3>2, <3>3 DEF PreviousFire
  <2>5. \A j \in Observations(s) : snapshots[j].fetchedAt < PreviousFire(Period[s], ticks[t].now)
    BY <1>d, <2>1, <2>2, <2>3, <2>4 DEF IsSourceDue, None
  <2>6. \A r \in ticks'[t].todo : ticks'[t].listed[r].lastFetchedAt = health[r].lastFetchedAt
    BY <2>1 DEF FireInv
  <2>7. ~At(t, "completed") /\ s \notin ticks'[t].todo
    BY <2>1 DEF At
  <2>8. QED
    BY <1>k, <2>1, <2>5, <2>6, <2>7 DEF s
<1>4. CASE Compared(t) \/ Afforded(t)
  <2>1. /\ snapshots' = snapshots /\ health' = health /\ Visiting(t) /\ ~At(t, "completed")
        /\ ticks'[t].todo = ticks[t].todo /\ ticks'[t].source = ticks[t].source
        /\ ticks'[t].now = ticks[t].now /\ ticks'[t].listed = ticks[t].listed
    BY <1>4 DEF Compared, Afforded, Stays, GoesOn, Visiting, At, History, storeVars
  <2>2. ticks[t].source \notin ticks[t].todo
    BY <1>i, <2>1 DEF TickInv
  <2>3. QED
    BY <1>k, <2>1, <2>2 DEF FireInv
<1>5. CASE GaveUp(t)
  BY <1>5, <1>k DEF GaveUp, GoesOn, At, History, FireInv
\* The observation answers the fire, and waits for its mark.
<1>s. ASSUME snapshots' = WithSnapshot(ticks[t].source, ticks[t].content, ticks[t].now, "fetch"),
             Visiting(t), ticks'[t].phase = "completed", Stays(t), health' = health
      PROVE  FireInv'
  <2>0. PICK k \in Nat : k = Len(snapshots) + 1
    BY LenProperties DEF TypeOK, StoreTypeOK
  <2>1. /\ DOMAIN snapshots' = DOMAIN snapshots \cup {k} /\ k \notin DOMAIN snapshots
        /\ \A j \in DOMAIN snapshots : j < k /\ snapshots'[j] = snapshots[j]
        /\ snapshots'[k].source = ticks[t].source /\ snapshots'[k].fetchedAt = ticks[t].now
    BY <1>f, <1>s, <2>0, SnapshotAdded
  <2>2. /\ ticks'[t].source = ticks[t].source /\ ticks'[t].todo = ticks[t].todo
        /\ ticks'[t].now = ticks[t].now /\ ticks'[t].listed = ticks[t].listed
    BY <1>s DEF Stays, GoesOn
  <2>3. ASSUME NEW s \in Sources, NEW j \in DOMAIN snapshots', j \in Observations(s)'
        PROVE  \/ snapshots'[j].fetchedAt <= health'[s].lastFetchedAt
               \/ \E u \in Ticks : At(u, "completed")' /\ ticks'[u].source = s
    <3>1. CASE s = ticks[t].source
      BY <1>s, <2>2, <3>1 DEF At
    <3>2. CASE s # ticks[t].source
      <4>1. j \in Observations(s) /\ j \in DOMAIN snapshots
        BY <2>1, <2>3, <3>2 DEF Observations, SnapshotsOf
      <4>2. ~At(t, "completed")
        BY <1>s DEF Visiting, At
      <4>3. QED
        BY <1>o, <1>s, <2>1, <4>1, <4>2 DEF FireInv
    <3>3. QED
      BY <3>1, <3>2
  <2>4. ASSUME NEW i \in DOMAIN snapshots', NEW j \in DOMAIN snapshots', i < j,
               snapshots'[i].source = snapshots'[j].source,
               snapshots'[i].vantage = "fetch", snapshots'[j].vantage = "fetch"
        PROVE  snapshots'[i].fetchedAt
                 < PreviousFire(Period[snapshots'[j].source], snapshots'[j].fetchedAt)
    <3>1. i \in DOMAIN snapshots
      BY <2>0, <2>1, <2>4, LatestIsStored, <1>f
    <3>2. CASE j \in DOMAIN snapshots
      BY <2>1, <2>4, <3>1, <3>2 DEF FireInv, OneObservationPerFire
    <3>3. CASE j = k
      <4>1. i \in Observations(ticks[t].source)
        BY <2>1, <2>4, <3>1, <3>3 DEF Observations, SnapshotsOf
      <4>2. QED
        BY <1>s, <2>1, <3>1, <3>3, <4>1 DEF FireInv
    <3>4. QED
      BY <2>1, <3>2, <3>3
  <2>5. ticks[t].source \notin ticks[t].todo
    BY <1>i, <1>s DEF TickInv
  <2>6. QED
    BY <1>o, <1>s, <2>2, <2>3, <2>4, <2>5 DEF FireInv, OneObservationPerFire, At, Visiting
<1>6. CASE StoredBaseline(t)
  BY <1>6, <1>s DEF StoredBaseline, Visiting, At
<1>7. ASSUME NEW class \in TriageClasses, NEW cost \in Costs, StoredDelta(t, class, cost)
      PROVE  FireInv'
  BY <1>7, <1>s DEF StoredDelta, Visiting, At
\* The mark takes over: no observation is younger than the tick.
<1>8. CASE Marked(t)
  <2> DEFINE s == ticks[t].source
  <2>1. /\ snapshots' = snapshots /\ ticks'[t].phase = "sources" /\ ticks'[t].todo = ticks[t].todo
        /\ ticks'[t].listed = ticks[t].listed /\ s \in Sources
        /\ s \notin ticks[t].todo
    BY <1>8, <1>f DEF Marked, GoesOn, History, FireInv
  <2>2. \A r \in Sources \ {s} : health'[r] = health[r]
    BY <1>8 DEF Marked, WithFetched, WithFailure, TypeOK, StoreTypeOK
  <2>3. \/ At(t, "completed") /\ health'[s].lastFetchedAt = ticks[t].now
        \/ At(t, "failed") /\ health'[s].lastFetchedAt = health[s].lastFetchedAt
    <3>1. CASE At(t, "completed") /\ health' = WithFetched(s, ticks[t].now)
      BY <2>1, <3>1 DEF WithFetched, TypeOK, StoreTypeOK
    <3>2. CASE At(t, "failed") /\ health' = WithFailure(s)
      BY <2>1, <3>2 DEF WithFailure, TypeOK, StoreTypeOK, Health
    <3>3. QED
      BY <1>8, <3>1, <3>2 DEF Marked
  <2>4. ASSUME NEW r \in Sources, NEW j \in DOMAIN snapshots', j \in Observations(r)'
        PROVE  snapshots'[j].fetchedAt <= health'[r].lastFetchedAt
    <3>1. j \in DOMAIN snapshots /\ j \in Observations(r) /\ snapshots'[j] = snapshots[j]
      BY <2>1, <2>4 DEF Observations, SnapshotsOf
    <3>2. snapshots[j].fetchedAt <= ticks[t].now
      BY <1>8, <1>i, <3>1 DEF LoopInv, TickInv, Marked, At
    <3>3. CASE r = s /\ At(t, "completed")
      BY <2>3, <3>1, <3>2, <3>3 DEF At
    <3>4. CASE r # s \/ ~At(t, "completed")
      <4>1. snapshots[j].fetchedAt <= health[r].lastFetchedAt
        BY <1>o, <3>1, <3>4 DEF FireInv
      <4>2. health'[r].lastFetchedAt = health[r].lastFetchedAt
        BY <2>2, <2>3, <3>4
      <4>3. QED
        BY <3>1, <4>1, <4>2
    <3>5. QED
      BY <3>3, <3>4
  <2> HIDE DEF s
  <2>5. \A r \in ticks'[t].todo : ticks'[t].listed[r].lastFetchedAt = health'[r].lastFetchedAt
    BY <1>f, <2>1, <2>2 DEF FireInv
  <2>6. OneObservationPerFire'
    BY <2>1 DEF OneObservationPerFire, FireInv
  <2>7. QED
    BY <1>o, <2>1, <2>4, <2>5, <2>6 DEF FireInv, At, Visiting
<1>9. CASE Listed(t) \/ Rejected(t)
  BY <1>9, <1>k DEF Listed, Rejected, GoesOn, At, storeVars, FireInv
<1>10. ASSUME NEW i \in DOMAIN deltas, Refetched(t, i) \/ Published(t, i) PROVE FireInv'
  BY <1>10, <1>k DEF Refetched, Published, At, History, FireInv
\* A confirmation is no observation.
<1>11. CASE Judged(t)
  <2>0. PICK k \in Nat : k = Len(snapshots) + 1
    BY LenProperties DEF TypeOK, StoreTypeOK
  <2>1. /\ deltas[ticks[t].delta].source \in Sources
        /\ ticks'[t].phase = "confirming" /\ ticks'[t].todo = {} /\ ~At(t, "completed")
        /\ health' = health
    BY <1>11, <1>i, VerdictStored DEF Judged, TickInv, At
  <2>2. /\ DOMAIN snapshots' = DOMAIN snapshots \cup {k} /\ k \notin DOMAIN snapshots
        /\ \A j \in DOMAIN snapshots : j < k /\ snapshots'[j] = snapshots[j]
        /\ snapshots'[k].vantage = "confirmation"
    BY <1>11, <1>f, <2>0, <2>1, SnapshotAdded DEF Judged
  <2>3. \A s \in Sources, j \in DOMAIN snapshots' :
          j \in Observations(s)' => snapshots'[j].fetchedAt <= health'[s].lastFetchedAt
    BY <1>o, <2>1, <2>2 DEF FireInv, Observations, SnapshotsOf
  <2>4. OneObservationPerFire'
    BY <2>2 DEF OneObservationPerFire, FireInv
  <2>5. QED
    BY <1>o, <2>1, <2>3, <2>4 DEF FireInv, At, Visiting
<1>12. CASE Stopped(t)
  BY <1>12, <1>k DEF Stopped, At, storeVars
<1>13. QED
  BY <1>1, <1>2, <1>3, <1>4, <1>5, <1>6, <1>7, <1>8, <1>9, <1>10, <1>11, <1>12 DEF Step

\* Ticks that do not overlap and do not die observe a source once for each fire of its
\* cadence, whatever the cadence and however often fetches and answers fail.
THEOREM OncePerFire ==
  ASSUME OneTick, "crash" \notin Faults
  PROVE  Spec => []OneObservationPerFire
<1>0. Spec => []LoopInv
  BY LoopInductive
<1>1. Init => FireInv
  <2> SUFFICES ASSUME Init PROVE FireInv
    OBVIOUS
  <2>1. \A t \in Ticks : ticks[t].phase = "idle" /\ ticks[t].todo = {}
    BY DEF Init, Idle
  <2>2. DOMAIN snapshots = {}
    BY DEF Init, StoreInit
  <2>3. QED
    BY <2>1, <2>2 DEF FireInv, At, Visiting, OneObservationPerFire
<1>2. TypeOK /\ EvidenceInv /\ LoopInv /\ FireInv /\ [Next]_vars => FireInv'
  <2> SUFFICES ASSUME TypeOK, EvidenceInv, LoopInv, FireInv, [Next]_vars PROVE FireInv'
    OBVIOUS
  <2>1. CASE UNCHANGED vars
    BY <2>1 DEF vars, storeVars, FireInv, At, Visiting, Observations, SnapshotsOf,
       OneObservationPerFire
  <2>2. QED
    BY <2>1, Steps, FireStep
<1>3. FireInv => OneObservationPerFire
  BY DEF FireInv
<1>4. QED
  BY <1>0, <1>1, <1>2, <1>3, TypeCorrect, Evidence, PTL DEF Spec

-----------------------------------------------------------------------------
(* The firewall drains when no re-fetch fails.                             *)

\* Nothing pending is missing from the queue of the confirmation pass, and nothing
\* confirmed from the queue of the publish edge.
DrainInv ==
  \A t \in Ticks :
    /\ At(t, "confirming") => PricingDeltasIn("pending") \subseteq ticks[t].queue
    /\ At(t, "refetched")
         => PricingDeltasIn("pending") \subseteq ticks[t].queue \cup {ticks[t].delta}
    /\ At(t, "publishing") => /\ PricingDeltasIn("pending") = {}
                              /\ PricingDeltasIn("confirmed") \subseteq ticks[t].queue

LEMMA DrainStep ==
  ASSUME OneTick, TypeOK, EvidenceInv, LoopInv, DrainInv, NEW t \in Ticks, Step(t),
         "fetch" \notin Faults
  PROVE  DrainInv'
<1>o. \A u \in Ticks : u = t
  BY DEF OneTick
<1>q. ASSUME ticks'[t].phase \notin {"confirming", "refetched", "publishing"} PROVE DrainInv'
  BY <1>o, <1>q DEF DrainInv, At
<1>1. CASE \/ Started(t) \/ Skipped(t) \/ Visited(t) \/ Compared(t) \/ Afforded(t) \/ GaveUp(t)
           \/ StoredBaseline(t) \/ Marked(t) \/ Stopped(t)
           \/ \E class \in TriageClasses, cost \in Costs : StoredDelta(t, class, cost)
  BY <1>1, <1>q DEF Started, Skipped, Visited, Compared, Afforded, GaveUp, StoredBaseline,
     StoredDelta, Marked, Stopped
<1>2. CASE Listed(t)
  BY <1>2, <1>o, ReadsKept DEF Listed, DrainInv, At, storeVars
<1>3. ASSUME NEW i \in DOMAIN deltas, Refetched(t, i) PROVE DrainInv'
  BY <1>3, <1>o, ReadsKept DEF Refetched, DrainInv, At, History
<1>4. CASE Judged(t)
  <2>1. /\ DOMAIN deltas' = DOMAIN deltas
        /\ deltas'[ticks[t].delta].state # "pending"
        /\ \A j \in DOMAIN deltas : j # ticks[t].delta => deltas'[j] = deltas[j]
    BY <1>4, VerdictStored
  <2>2. PricingDeltasIn("pending")' \subseteq PricingDeltasIn("pending") \ {ticks[t].delta}
    BY <2>1 DEF PricingDeltasIn
  <2>3. QED
    BY <1>4, <1>o, <2>2 DEF Judged, GoesOn, DrainInv, At
<1>5. ASSUME NEW i \in DOMAIN deltas, Published(t, i) PROVE DrainInv'
  <2>1. /\ DOMAIN deltas' = DOMAIN deltas
        /\ \A j \in DOMAIN deltas : /\ j # i => deltas'[j] = deltas[j]
                                    /\ deltas'[j].class = deltas[j].class
        /\ deltas'[i] = deltas[i] \/ deltas'[i].state = "published"
        /\ deltas[i].state = "confirmed" => deltas'[i].state = "published"
    BY <1>5, EdgeStored
  <2>2. /\ PricingDeltasIn("pending")' \subseteq PricingDeltasIn("pending")
        /\ PricingDeltasIn("confirmed")' \subseteq PricingDeltasIn("confirmed") \ {i}
    BY <2>1 DEF PricingDeltasIn
  <2>3. QED
    BY <1>5, <1>o, <2>2 DEF Published, DrainInv, At
<1>6. QED
  BY <1>1, <1>2, <1>3, <1>4, <1>5, NeverRejected DEF Step

LEMMA DrainInductive == OneTick /\ "fetch" \notin Faults => (Spec => []DrainInv)
<1> SUFFICES ASSUME OneTick, "fetch" \notin Faults PROVE Spec => []DrainInv
  OBVIOUS
<1>0. Spec => []LoopInv
  BY LoopInductive
<1>1. Init => DrainInv
  <2> SUFFICES ASSUME Init PROVE DrainInv
    OBVIOUS
  <2>1. \A t \in Ticks : ticks[t].phase = "idle"
    BY DEF Init, Idle
  <2>2. QED
    BY <2>1 DEF DrainInv, At
<1>2. TypeOK /\ EvidenceInv /\ LoopInv /\ DrainInv /\ [Next]_vars => DrainInv'
  <2> SUFFICES ASSUME TypeOK, EvidenceInv, LoopInv, DrainInv, [Next]_vars PROVE DrainInv'
    OBVIOUS
  <2>1. CASE UNCHANGED vars
    BY <2>1, ReadsKept DEF vars, storeVars, DrainInv, At
  <2>2. QED
    BY <2>1, Steps, DrainStep
<1>3. QED
  BY <1>0, <1>1, <1>2, TypeCorrect, Evidence, PTL DEF Spec

\* Ticks that do not overlap drain the firewall while fetches succeed: a tick that ends has
\* published or dismissed every price change it found or inherited, from a crash too.
THEOREM Drained ==
  ASSUME OneTick, "fetch" \notin Faults
  PROVE  Spec => TicksDrainTheFirewall
<1>1. Spec => []DrainInv
  BY DrainInductive
<1>2. TypeOK /\ DrainInv
        => [\A t \in Ticks :
              FinishTick(t) =>
                \A i \in DOMAIN deltas :
                  Pricing(i) => deltas[i].state \in {"published", "dismissed"}]_vars
  <2> SUFFICES ASSUME TypeOK, DrainInv, NEW t \in Ticks, FinishTick(t), NEW i \in DOMAIN deltas,
                      Pricing(i)
               PROVE  deltas[i].state \in {"published", "dismissed"}
    OBVIOUS
  <2>1. PricingDeltasIn("pending") = {} /\ PricingDeltasIn("confirmed") = {}
    BY DEF DrainInv, FinishTick
  <2>2. deltas[i].state \notin {"pending", "confirmed"}
    BY <2>1 DEF PricingDeltasIn, Pricing
  <2>3. deltas[i].state \in DeltaStates
    <3>1. deltas[i] \in Delta
      BY ElementOfSeq, LenProperties DEF TypeOK, StoreTypeOK
    <3>2. QED
      BY <3>1 DEF Delta
  <2>4. QED
    BY <2>2, <2>3 DEF DeltaStates
<1>3. QED
  BY <1>1, <1>2, TypeCorrect, PTL DEF TicksDrainTheFirewall

-----------------------------------------------------------------------------
(* Flaps are never alerted, in the store that reads in insertion order.    *)

\* The source of delta j was seen again after the delta was found.
Superseded(j) == \E k \in DOMAIN snapshots : /\ snapshots[k].source = deltas[j].source
                                              /\ k > deltas[j].to

\* A change that may still be dismissed is of a source the tick is done with, a
\* dismissed one is no longer the latest of its source, and no delta starts from either.
FlapInv ==
  /\ \A t \in Ticks :
       /\ At(t, "idle") => PricingDeltasIn("pending") = {}
       /\ \A j \in PricingDeltasIn("pending") :
            /\ deltas[j].source \notin ticks[t].todo
            /\ Visiting(t) => deltas[j].source # ticks[t].source
  /\ \A j \in PricingDeltasIn("dismissed") : Superseded(j)
  /\ \A i \in DOMAIN deltas, j \in PricingDeltasIn("pending") \cup PricingDeltasIn("dismissed") :
       deltas[i].from # deltas[j].to

LEMMA SupersededKept ==
  ASSUME NEW j, Superseded(j), DOMAIN snapshots \subseteq DOMAIN snapshots',
         \A k \in DOMAIN snapshots : snapshots'[k] = snapshots[k],
         deltas'[j].source = deltas[j].source, deltas'[j].to = deltas[j].to
  PROVE  Superseded(j)'
BY DEF Superseded

\* A step that only moves the tick.
LEMMA FlapKept ==
  ASSUME OneTick, FlapInv, NEW t \in Ticks, UNCHANGED <<snapshots, deltas>>,
         ticks'[t].phase = "idle" => PricingDeltasIn("pending") = {},
         ticks'[t].todo \subseteq ticks[t].todo \/ PricingDeltasIn("pending") = {},
         ticks'[t].phase \in {"fetched", "baseline", "changed", "affordable"} =>
           \/ ticks'[t].source \in ticks[t].todo
           \/ ticks'[t].source = ticks[t].source /\ Visiting(t)
           \/ PricingDeltasIn("pending") = {}
  PROVE  FlapInv'
<1>1. \A u \in Ticks : u = t
  BY DEF OneTick
<1>2. /\ \A s : SnapshotsOf(s)' = SnapshotsOf(s)
      /\ \A state : PricingDeltasIn(state)' = PricingDeltasIn(state)
  BY ReadsKept
<1>3. ASSUME NEW j \in PricingDeltasIn("pending")
      PROVE  /\ deltas'[j].source \notin ticks'[t].todo
             /\ Visiting(t)' => deltas'[j].source # ticks'[t].source
  BY <1>3 DEF FlapInv, Visiting
<1>4. QED
  BY <1>1, <1>2, <1>3 DEF FlapInv, At, Superseded

LEMMA FlapStep ==
  ASSUME OneTick, TypeOK, EvidenceInv, LoopInv, DrainInv, ReportInv, FlapInv,
         NEW t \in Ticks, Step(t), SnapshotOrder = "insertion", "crash" \notin Faults
  PROVE  FlapInv'
<1>0. PICK k \in Nat, n \in Nat : k = Len(snapshots) + 1 /\ n = Len(deltas) + 1
  <2>1. Len(snapshots) + 1 \in Nat /\ Len(deltas) + 1 \in Nat
    BY LenProperties DEF TypeOK, StoreTypeOK
  <2>2. QED
    BY <2>1
<1>o. \A u \in Ticks : u = t
  BY DEF OneTick
<1>i. TickInv(t)
  BY DEF LoopInv
<1>f. /\ ticks[t].source \in Sources /\ ticks[t].content \in Contents /\ ticks[t].now \in Nat
      /\ DOMAIN snapshots \subseteq Nat
  BY TickFields, LatestIsStored
\* One more snapshot.
<1>a. ASSUME NEW r \in Sources, NEW v \in {"fetch", "confirmation"},
             snapshots' = WithSnapshot(r, ticks[t].content, ticks[t].now, v)
      PROVE  /\ DOMAIN snapshots' = DOMAIN snapshots \cup {k} /\ k \notin DOMAIN snapshots
             /\ \A j \in DOMAIN snapshots : j < k /\ snapshots'[j] = snapshots[j]
             /\ snapshots'[k].source = r
  BY <1>0, <1>a, <1>f, SnapshotAdded
<1>1. CASE Started(t)
  BY <1>1, FlapKept DEF Started, storeVars, FlapInv
<1>2. CASE \/ Skipped(t) \/ Visited(t) \/ Compared(t) \/ Afforded(t) \/ GaveUp(t) \/ Marked(t)
  BY <1>2, FlapKept DEF Skipped, Visited, Compared, Afforded, GaveUp, Marked, Stays, History,
     storeVars, Visiting, At
<1>3. CASE Listed(t) \/ Rejected(t) \/ \E i \in DOMAIN deltas : Refetched(t, i)
  BY <1>3, FlapKept DEF Listed, Rejected, Refetched, History, storeVars
\* Only a tick that drained the firewall stops.
<1>4. CASE Stopped(t)
  <2>1. PricingDeltasIn("pending") = {}
    BY <1>4 DEF Stopped, DrainInv
  <2>2. QED
    BY <1>4, <2>1, FlapKept DEF Stopped, storeVars
<1>5. CASE StoredBaseline(t)
  <2>1. /\ DOMAIN snapshots \subseteq DOMAIN snapshots'
        /\ \A j \in DOMAIN snapshots : snapshots'[j] = snapshots[j]
    BY <1>5, <1>a, <1>f DEF StoredBaseline
  <2>2. /\ deltas' = deltas /\ \A state : PricingDeltasIn(state)' = PricingDeltasIn(state)
        /\ ticks'[t].phase = "completed" /\ ticks'[t].todo = ticks[t].todo
    BY <1>5, ReadsKept DEF StoredBaseline, Stays
  <2>3. \A j \in PricingDeltasIn("dismissed") : Superseded(j)'
    BY <2>1, <2>2, SupersededKept DEF FlapInv
  <2>4. QED
    BY <1>o, <2>2, <2>3 DEF FlapInv, At, Visiting
<1>6. ASSUME NEW class \in TriageClasses, NEW cost \in Costs, StoredDelta(t, class, cost)
      PROVE  FlapInv'
  <2> DEFINE s == ticks[t].source
             p == ticks[t].previous
  <2>1. /\ DOMAIN snapshots \subseteq DOMAIN snapshots' /\ k \notin DOMAIN snapshots
        /\ \A j \in DOMAIN snapshots : j < k /\ snapshots'[j] = snapshots[j]
    BY <1>6, <1>a, <1>f DEF StoredDelta
  <2>2. /\ DOMAIN deltas' = DOMAIN deltas \cup {n} /\ n \notin DOMAIN deltas
        /\ \A i \in DOMAIN deltas : deltas'[i] = deltas[i]
        /\ deltas'[n].source = s /\ deltas'[n].from = p /\ deltas'[n].to = k
        /\ deltas'[n].class = class /\ deltas'[n].state = DeltaStateFor(class)
    BY <1>0, <1>6, DeltaStored
  <2>3. /\ p \in SnapshotsOf(s) /\ p \in DOMAIN snapshots /\ \A j \in SnapshotsOf(s) : j <= p
        /\ s \notin ticks[t].todo /\ Visiting(t)
    BY <1>6, <1>i DEF StoredDelta, TickInv, At, Visiting, LatestSnapshots, LastInserted, SnapshotsOf
  <2>4. /\ ticks'[t].phase = "completed" /\ ticks'[t].todo = ticks[t].todo
    BY <1>6 DEF StoredDelta, Stays
  <2> HIDE DEF s, p
  <2>5. /\ PricingDeltasIn("pending")' \subseteq PricingDeltasIn("pending") \cup {n}
        /\ PricingDeltasIn("dismissed")' = PricingDeltasIn("dismissed")
    BY <2>2 DEF PricingDeltasIn, DeltaStateFor
  <2>6. \A i \in DOMAIN deltas : /\ deltas[i].from \in DOMAIN snapshots
                                 /\ deltas[i].to \in DOMAIN snapshots
                                 /\ deltas[i].to \in SnapshotsOf(deltas[i].source)
    BY DEF ReportInv, Leads, SnapshotsOf
  \* The latest snapshot of the source introduced no change that may be a flap.
  <2>7. \A j \in PricingDeltasIn("pending") \cup PricingDeltasIn("dismissed") : p # deltas[j].to
    <3> SUFFICES ASSUME NEW j \in PricingDeltasIn("pending") \cup PricingDeltasIn("dismissed"),
                        p = deltas[j].to
                 PROVE  FALSE
      OBVIOUS
    <3>1. deltas[j].source = s
      BY <2>3, <2>6 DEF SnapshotsOf, PricingDeltasIn
    <3>2. CASE j \in PricingDeltasIn("pending")
      BY <2>3, <3>1, <3>2 DEF FlapInv, s
    <3>3. CASE j \in PricingDeltasIn("dismissed")
      <4>1. PICK m \in SnapshotsOf(s) : m > p
        BY <3>1, <3>3 DEF FlapInv, Superseded, SnapshotsOf
      <4>2. m \in Nat /\ p \in Nat /\ m <= p
        BY <1>f, <2>3 DEF SnapshotsOf
      <4>3. QED
        BY <4>1, <4>2
    <3>4. QED
      BY <3>2, <3>3
  <2>8. \A j \in PricingDeltasIn("pending")' : deltas'[j].source \notin ticks'[t].todo
    <3> SUFFICES ASSUME NEW j \in PricingDeltasIn("pending")'
                 PROVE  deltas'[j].source \notin ticks'[t].todo
      OBVIOUS
    <3>1. CASE j = n
      BY <2>2, <2>3, <2>4, <3>1
    <3>2. CASE j \in PricingDeltasIn("pending")
      BY <2>2, <2>4, <3>2 DEF FlapInv, PricingDeltasIn
    <3>3. QED
      BY <2>5, <3>1, <3>2
  <2>9. \A j \in PricingDeltasIn("dismissed") : Superseded(j)'
    <3> SUFFICES ASSUME NEW j \in PricingDeltasIn("dismissed") PROVE Superseded(j)'
      OBVIOUS
    <3>1. deltas'[j] = deltas[j] /\ Superseded(j)
      BY <2>2 DEF PricingDeltasIn, FlapInv
    <3>2. QED
      BY <2>1, <3>1, SupersededKept
  <2>10. \A i \in DOMAIN deltas',
            j \in PricingDeltasIn("pending")' \cup PricingDeltasIn("dismissed")' :
           deltas'[i].from # deltas'[j].to
    <3> SUFFICES ASSUME NEW i \in DOMAIN deltas',
                        NEW j \in PricingDeltasIn("pending") \cup PricingDeltasIn("dismissed") \cup {n}
                 PROVE  deltas'[i].from # deltas'[j].to
      BY <2>5
    <3>1. deltas'[i].from \in DOMAIN snapshots
      BY <2>2, <2>3, <2>6
    <3>2. CASE j = n
      BY <2>1, <2>2, <3>1, <3>2
    <3>3. CASE j # n /\ i # n
      BY <2>2, <3>3 DEF FlapInv, PricingDeltasIn
    <3>4. CASE j # n /\ i = n
      BY <2>2, <2>7, <3>4 DEF PricingDeltasIn
    <3>5. QED
      BY <3>2, <3>3, <3>4
  <2>11. QED
    BY <1>o, <2>4, <2>5, <2>8, <2>9, <2>10 DEF FlapInv, At, Visiting
\* A refuting re-fetch becomes the latest snapshot of the source.
<1>7. CASE Judged(t)
  <2> DEFINE d == ticks[t].delta
  <2>1. /\ d \in DOMAIN deltas /\ deltas[d].source \in Sources /\ deltas'[d].state # "pending"
        /\ DOMAIN deltas' = DOMAIN deltas /\ d \in PricingDeltasIn("pending")
        /\ \A j \in DOMAIN deltas : /\ j # d => deltas'[j] = deltas[j]
                                    /\ deltas'[j].source = deltas[j].source
                                    /\ deltas'[j].class = deltas[j].class
                                    /\ deltas'[j].from = deltas[j].from
                                    /\ deltas'[j].to = deltas[j].to
    BY <1>7, VerdictStored DEF PricingDeltasIn, Pricing
  <2>2. /\ DOMAIN snapshots' = DOMAIN snapshots \cup {k} /\ snapshots'[k].source = deltas[d].source
        /\ \A j \in DOMAIN snapshots : j < k /\ snapshots'[j] = snapshots[j]
    BY <1>7, <1>a, <2>1 DEF Judged
  <2>3. /\ ticks'[t].phase = "confirming" /\ ticks'[t].todo = {}
    BY <1>7, <1>i DEF Judged, TickInv, At
  <2> HIDE DEF d
  <2>4. /\ PricingDeltasIn("pending")' \subseteq PricingDeltasIn("pending")
        /\ PricingDeltasIn("dismissed")' \subseteq PricingDeltasIn("dismissed") \cup {d}
    BY <2>1 DEF PricingDeltasIn
  <2>5. ASSUME NEW j \in PricingDeltasIn("dismissed")' PROVE Superseded(j)'
    <3>1. CASE j = d
      <4>1. deltas[d].to \in DOMAIN snapshots
        BY <2>1 DEF ReportInv, Leads, SnapshotsOf
      <4>2. k \in DOMAIN snapshots' /\ k > deltas[d].to
        BY <1>f, <2>2, <4>1
      <4>3. QED
        BY <2>1, <2>2, <3>1, <4>2 DEF Superseded
    <3>2. CASE j # d
      <4>1. j \in PricingDeltasIn("dismissed") /\ deltas'[j] = deltas[j]
        BY <2>1, <2>4, <3>2 DEF PricingDeltasIn
      <4>2. QED
        BY <2>2, <4>1, SupersededKept DEF FlapInv
    <3>3. QED
      BY <3>1, <3>2
  <2>6. \A i \in DOMAIN deltas',
           j \in PricingDeltasIn("pending")' \cup PricingDeltasIn("dismissed")' :
          deltas'[i].from # deltas'[j].to
    BY <2>1, <2>4 DEF FlapInv, PricingDeltasIn
  <2>7. QED
    BY <1>o, <2>3, <2>5, <2>6 DEF FlapInv, At, Visiting
<1>8. ASSUME NEW i \in DOMAIN deltas, Published(t, i) PROVE FlapInv'
  <2>1. /\ DOMAIN deltas' = DOMAIN deltas /\ snapshots' = snapshots
        /\ \A j \in DOMAIN deltas : /\ j # i => deltas'[j] = deltas[j]
                                    /\ deltas'[j].source = deltas[j].source
                                    /\ deltas'[j].class = deltas[j].class
                                    /\ deltas'[j].from = deltas[j].from
                                    /\ deltas'[j].to = deltas[j].to
        /\ deltas'[i] = deltas[i] \/ deltas'[i].state = "published"
        /\ ticks'[t].phase = "publishing" /\ ticks'[t].todo = ticks[t].todo
    BY <1>8, EdgeStored DEF Published
  <2>2. /\ PricingDeltasIn("pending")' \subseteq PricingDeltasIn("pending")
        /\ PricingDeltasIn("dismissed")' \subseteq PricingDeltasIn("dismissed")
        /\ \A s : SnapshotsOf(s)' = SnapshotsOf(s)
    BY <2>1, ReadsKept DEF PricingDeltasIn
  <2>3. PricingDeltasIn("pending") \subseteq DOMAIN deltas /\ PricingDeltasIn("dismissed") \subseteq DOMAIN deltas
    BY DEF PricingDeltasIn
  <2>4. \A j \in PricingDeltasIn("dismissed") : Superseded(j)'
    BY <2>1, <2>3, SupersededKept DEF FlapInv
  <2>5. QED
    BY <1>o, <2>1, <2>2, <2>3, <2>4 DEF FlapInv, At, Visiting
<1>9. QED
  BY <1>1, <1>2, <1>3, <1>4, <1>5, <1>6, <1>7, <1>8 DEF Step

\* Ticks that do not overlap, over the store that answers in insertion order, never alert a
\* flap, while fetches succeed and no process dies: no published price change starts from
\* the very snapshot that a dismissed one had introduced.
THEOREM NoFlapAlert ==
  ASSUME OneTick, SnapshotOrder = "insertion", "fetch" \notin Faults, "crash" \notin Faults
  PROVE  Spec => []FlapsNeverAlert
<1>0. (Spec => []LoopInv) /\ (Spec => []ReportInv) /\ (Spec => []DrainInv)
  BY LoopInductive, ReportInductive, DrainInductive
<1>1. Init => FlapInv
  <2> SUFFICES ASSUME Init PROVE FlapInv
    OBVIOUS
  <2>1. DOMAIN deltas = {} /\ \A state : PricingDeltasIn(state) = {}
    BY DEF Init, StoreInit, PricingDeltasIn
  <2>2. QED
    BY <2>1 DEF FlapInv
<1>2. TypeOK /\ EvidenceInv /\ LoopInv /\ DrainInv /\ ReportInv /\ FlapInv /\ [Next]_vars
        => FlapInv'
  <2> SUFFICES ASSUME TypeOK, EvidenceInv, LoopInv, DrainInv, ReportInv, FlapInv, [Next]_vars
               PROVE  FlapInv'
    OBVIOUS
  <2>1. CASE UNCHANGED vars
    BY <2>1, ReadsKept DEF vars, storeVars, FlapInv, Superseded, At, Visiting
  <2>2. QED
    BY <2>1, Steps, FlapStep
<1>3. FlapInv => FlapsNeverAlert
  BY DEF FlapInv, FlapsNeverAlert, Pricing, PricingDeltasIn
<1>4. QED
  BY <1>0, <1>1, <1>2, <1>3, TypeCorrect, Evidence, PTL DEF Spec
=============================================================================
