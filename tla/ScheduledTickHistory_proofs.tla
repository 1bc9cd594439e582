--------------------- MODULE ScheduledTickHistory_proofs ---------------------
(***************************************************************************)
(* What the ticks leave in the history, in the coverage receipt and in the *)
(* health of the sources.  Some of it holds however ticks overlap, crash   *)
(* and fail; the rest holds for one tick at a time, or when nothing fails, *)
(* and its theorems say which.                                             *)
(***************************************************************************)
EXTENDS ScheduledTick_proofs, FiniteSetTheorems

-----------------------------------------------------------------------------
(* The kinds of step, by what they do to the tick that takes them.         *)

Others(t) == \A u \in Ticks : u # t => ticks'[u] = ticks[u]

\* The tick goes on with the clock, the listing and the ids it had.
GoesOn(t) == /\ ticks'[t].now = ticks[t].now
             /\ ticks'[t].listed = ticks[t].listed
             /\ ticks'[t].queue = ticks[t].queue

History == <<snapshots, deltas>>

Started(t) ==
  /\ At(t, "idle")
  /\ clock' = clock + 1
  /\ ticks'[t].phase = "sources" /\ ticks'[t].now = clock + 1 /\ ticks'[t].listed = health
  /\ ticks'[t].todo = Sources /\ ticks'[t].queue = {}
  /\ UNCHANGED <<storeVars, world>>

Skipped(t) ==
  /\ At(t, "sources") /\ ticks'[t].phase = "sources"
  /\ ticks'[t].todo \subseteq ticks[t].todo /\ GoesOn(t)
  /\ UNCHANGED <<storeVars, clock, world>>

Visited(t) ==
  /\ At(t, "sources") /\ ticks'[t].phase \in {"fetched", "completed", "failed"}
  /\ ticks'[t].source \in ticks[t].todo
  /\ Fetchable(t, ticks'[t].source)
  /\ ticks'[t].todo = ticks[t].todo \ {ticks'[t].source} /\ GoesOn(t)
  /\ coverage' = IF ticks'[t].phase = "fetched" THEN coverage ELSE WithCoverage(1, 0, 0)
  /\ ticks'[t].phase = "failed" => "fetch" \in Faults
  /\ Attempted
  /\ UNCHANGED <<History, health, clock>>

\* The source under work stays the same.
Stays(t) == ticks'[t].todo = ticks[t].todo /\ ticks'[t].source = ticks[t].source /\ GoesOn(t)

Compared(t) ==
  /\ At(t, "fetched") /\ Stays(t)
  /\ \/ ticks'[t].phase = "baseline" /\ LatestSnapshots(ticks[t].source) = {}
                                     /\ coverage' = coverage
     \/ ticks'[t].phase = "changed" /\ ticks'[t].previous \in LatestSnapshots(ticks[t].source)
                                    /\ coverage' = coverage
     \/ ticks'[t].phase = "completed" /\ coverage' = WithCoverage(0, 0, 0)
  /\ UNCHANGED <<History, health, clock, world>>

Afforded(t) ==
  /\ At(t, "changed") /\ ticks'[t].phase = "affordable" /\ Stays(t)
  /\ ticks'[t].previous = ticks[t].previous
  /\ UNCHANGED <<storeVars, clock, world>>

\* No span, no budget, or no answer of the model that parses.
GaveUp(t) ==
  /\ ticks'[t].phase = "sources" /\ ticks'[t].todo = ticks[t].todo /\ GoesOn(t)
  /\ \/ /\ At(t, "fetched")
        /\ \E p \in LatestSnapshots(ticks[t].source) :
             /\ snapshots[p].content # ticks[t].content
             /\ ChangedSpans(snapshots[p].content, ticks[t].content) = {}
        /\ UNCHANGED <<coverage, world>>
     \/ At(t, "changed") /\ coverage' = WithCoverage(0, 0, 0) /\ UNCHANGED world
     \/ /\ At(t, "affordable") /\ "classify" \in Faults
        /\ coverage' = coverage /\ world'.attempts = world.attempts /\ world'.billed >= world.billed
  /\ UNCHANGED <<History, health, clock>>

StoredBaseline(t) ==
  /\ At(t, "baseline") /\ ticks'[t].phase = "completed" /\ Stays(t)
  /\ snapshots' = WithSnapshot(ticks[t].source, ticks[t].content, ticks[t].now, "fetch")
  /\ coverage' = WithCoverage(0, 0, 0)
  /\ UNCHANGED <<deltas, health, clock, world>>

StoredDelta(t, class, cost) ==
  /\ At(t, "affordable") /\ ticks'[t].phase = "completed" /\ Stays(t)
  /\ snapshots' = WithSnapshot(ticks[t].source, ticks[t].content, ticks[t].now, "fetch")
  /\ deltas' = Append(deltas,
       [source |-> ticks[t].source, from |-> ticks[t].previous, to |-> Len(snapshots) + 1,
        class |-> class, state |-> DeltaStateFor(class), confirmedBy |-> None,
        createdAt |-> ticks[t].now])
  /\ coverage' = WithCoverage(0, 1, cost)
  /\ world' = [world EXCEPT !.billed = @ + cost]
  /\ UNCHANGED <<health, clock>>

Marked(t) ==
  /\ ticks'[t].phase = "sources" /\ ticks'[t].todo = ticks[t].todo /\ GoesOn(t)
  /\ \/ At(t, "completed") /\ health' = WithFetched(ticks[t].source, ticks[t].now)
     \/ At(t, "failed") /\ health' = WithFailure(ticks[t].source)
  /\ UNCHANGED <<History, coverage, clock, world>>

Listed(t) ==
  /\ ticks'[t].now = ticks[t].now /\ ticks'[t].todo = ticks[t].todo
  /\ ticks'[t].listed = ticks[t].listed
  /\ \/ /\ At(t, "sources") /\ ticks[t].todo = {} /\ ticks'[t].phase = "confirming"
        /\ ticks'[t].queue = PricingDeltasIn("pending")
     \/ /\ At(t, "confirming") /\ ticks[t].queue = {} /\ ticks'[t].phase = "publishing"
        /\ ticks'[t].queue = PricingDeltasIn("confirmed")
  /\ UNCHANGED <<storeVars, clock, world>>

Refetched(t, i) ==
  /\ At(t, "confirming") /\ i \in ticks[t].queue
  /\ ticks'[t].now = ticks[t].now /\ ticks'[t].todo = ticks[t].todo
  /\ ticks'[t].listed = ticks[t].listed
  /\ ticks'[t].queue = ticks[t].queue \ {i}
  /\ \/ ticks'[t].phase = "confirming" /\ "fetch" \in Faults /\ coverage' = WithCoverage(1, 0, 0)
     \/ ticks'[t].phase = "refetched" /\ ticks'[t].delta = i /\ coverage' = coverage
  /\ Attempted
  /\ UNCHANGED <<History, health, clock>>

Judged(t) ==
  /\ At(t, "refetched") /\ ticks'[t].phase = "confirming"
  /\ ticks'[t].todo = ticks[t].todo /\ GoesOn(t)
  /\ DeltaTransitionAllowed(ticks[t].delta, Verdict(t), Len(snapshots) + 1)
  /\ snapshots' = WithSnapshot(deltas[ticks[t].delta].source, ticks[t].content, ticks[t].now,
                               "confirmation")
  /\ deltas' = WithTransition(ticks[t].delta, Verdict(t), Len(snapshots) + 1)
  /\ coverage' = WithCoverage(0, 0, 0)
  /\ UNCHANGED <<health, clock, world>>

Rejected(t) ==
  /\ At(t, "refetched") /\ ticks'[t].phase = "confirming"
  /\ ticks'[t].todo = ticks[t].todo /\ GoesOn(t)
  /\ ~DeltaTransitionAllowed(ticks[t].delta, Verdict(t), Len(snapshots) + 1)
  /\ UNCHANGED <<storeVars, clock, world>>

Published(t, i) ==
  /\ At(t, "publishing") /\ ticks'[t].phase = "publishing" /\ i \in ticks[t].queue
  /\ ticks'[t].now = ticks[t].now /\ ticks'[t].todo = ticks[t].todo
  /\ ticks'[t].listed = ticks[t].listed
  /\ ticks'[t].queue = ticks[t].queue \ {i}
  /\ deltas' = IF DeltaTransitionAllowed(i, "published", None)
               THEN WithTransition(i, "published", None)
               ELSE deltas
  /\ UNCHANGED <<snapshots, coverage, health, clock, world>>

Stopped(t) ==
  /\ ticks'[t].phase = "idle" /\ ticks'[t].todo = {} /\ ticks'[t].queue = {}
  /\ \/ At(t, "publishing") /\ ticks[t].queue = {} /\ UNCHANGED world
     \/ "crash" \in Faults
  /\ world'.attempts = world.attempts /\ world'.billed >= world.billed
  /\ UNCHANGED <<storeVars, clock>>

Step(t) ==
  \/ Started(t) \/ Skipped(t) \/ Visited(t) \/ Compared(t) \/ Afforded(t) \/ GaveUp(t)
  \/ StoredBaseline(t)
  \/ \E class \in TriageClasses, cost \in Costs : StoredDelta(t, class, cost)
  \/ Marked(t) \/ Listed(t)
  \/ \E i \in DOMAIN deltas : Refetched(t, i) \/ Published(t, i)
  \/ Judged(t) \/ Rejected(t) \/ Stopped(t)

\* Every step is of one of these kinds, and of one tick.
LEMMA Steps ==
  ASSUME TypeOK, [Next]_vars
  PROVE  UNCHANGED vars \/ \E t \in Ticks : Others(t) /\ Step(t)
<1>t. \A t \in Ticks : ticks[t] \in TickState
  BY DEF TypeOK
<1>i. /\ Idle.phase = "idle" /\ Idle.todo = {} /\ Idle.queue = {}
      /\ Idle \in TickState
  BY IdleType DEF Idle
<1>w. world \in World
  BY DEF TypeOK
<1>c. Costs \subseteq Nat
  BY TickAssumption
<1>u. ASSUME NEW t \in Ticks, NEW me, ticks' = [ticks EXCEPT ![t] = me]
      PROVE  Others(t) /\ ticks'[t] = me
  BY <1>u DEF TypeOK, Others
<1>e. ASSUME NEW t \in Ticks, NEW phase, Resume(t, phase)
      PROVE  /\ Others(t) /\ ticks'[t].phase = phase
             /\ ticks'[t].todo = ticks[t].todo /\ GoesOn(t)
  <2> DEFINE me == [ticks[t] EXCEPT !.phase = phase, !.source = Idle.source,
                                    !.content = Idle.content, !.previous = None,
                                    !.delta = None]
  <2>1. ticks' = [ticks EXCEPT ![t] = me]
    BY <1>e DEF Resume
  <2>2. /\ me.phase = phase /\ me.todo = ticks[t].todo /\ me.now = ticks[t].now
        /\ me.listed = ticks[t].listed /\ me.queue = ticks[t].queue
    BY <1>t DEF TickState
  <2> HIDE DEF me
  <2>3. QED
    BY <1>u, <2>1, <2>2 DEF GoesOn
<1>p. ASSUME NEW t \in Ticks, NEW phase, ticks' = [ticks EXCEPT ![t].phase = phase]
      PROVE  /\ Others(t) /\ Stays(t)
             /\ ticks'[t].phase = phase /\ ticks'[t].previous = ticks[t].previous
  <2> DEFINE me == [ticks[t] EXCEPT !.phase = phase]
  <2>1. ticks' = [ticks EXCEPT ![t] = me]
    BY <1>p, <1>t DEF TickState
  <2>2. /\ me.phase = phase /\ me.todo = ticks[t].todo /\ me.now = ticks[t].now
        /\ me.listed = ticks[t].listed /\ me.queue = ticks[t].queue
        /\ me.source = ticks[t].source /\ me.previous = ticks[t].previous
    BY <1>t DEF TickState
  <2> HIDE DEF me
  <2>3. QED
    BY <1>u, <2>1, <2>2 DEF GoesOn, Stays
<1>v. ASSUME NEW t \in Ticks, NEW s \in Sources, NEW phase, NEW c, Visit(t, s, phase, c)
      PROVE  /\ Others(t) /\ At(t, "sources") /\ ticks'[t].phase = phase /\ GoesOn(t)
             /\ ticks'[t].source = s /\ s \in ticks[t].todo /\ Fetchable(t, s)
             /\ ticks'[t].todo = ticks[t].todo \ {s}
  <2> DEFINE me == [ticks[t] EXCEPT !.phase = phase, !.todo = ticks[t].todo \ {s},
                                    !.source = s, !.content = c]
  <2>1. ticks' = [ticks EXCEPT ![t] = me] /\ At(t, "sources") /\ s \in ticks[t].todo /\ Fetchable(t, s)
    BY <1>v DEF Visit
  <2>2. /\ me.phase = phase /\ me.todo = ticks[t].todo \ {s} /\ me.now = ticks[t].now
        /\ me.listed = ticks[t].listed /\ me.queue = ticks[t].queue /\ me.source = s
    BY <1>t DEF TickState
  <2> HIDE DEF me
  <2>3. QED
    BY <1>u, <2>1, <2>2 DEF GoesOn
\* An id is struck off the queue.
<1>s. ASSUME NEW t \in Ticks, NEW i, ticks' = [ticks EXCEPT ![t].queue = @ \ {i}]
      PROVE  /\ Others(t) /\ ticks'[t].phase = ticks[t].phase
             /\ ticks'[t].queue = ticks[t].queue \ {i}
             /\ ticks'[t].now = ticks[t].now /\ ticks'[t].todo = ticks[t].todo
             /\ ticks'[t].listed = ticks[t].listed
  <2> DEFINE me == [ticks[t] EXCEPT !.queue = ticks[t].queue \ {i}]
  <2>1. ticks' = [ticks EXCEPT ![t] = me]
    BY <1>s, <1>t DEF TickState
  <2>2. /\ me.phase = ticks[t].phase /\ me.queue = ticks[t].queue \ {i} /\ me.now = ticks[t].now
        /\ me.listed = ticks[t].listed /\ me.todo = ticks[t].todo
    BY <1>t DEF TickState
  <2> HIDE DEF me
  <2>3. QED
    BY <1>u, <2>1, <2>2
<1>1. ASSUME NEW t \in Ticks, StartTick(t) PROVE Others(t) /\ Started(t)
  <2> DEFINE me == [Idle EXCEPT !.phase = "sources", !.now = clock + 1,
                                !.listed = health, !.todo = Sources]
  <2>1. /\ ticks' = [ticks EXCEPT ![t] = me] /\ clock' = clock + 1
        /\ At(t, "idle") /\ UNCHANGED <<storeVars, world>>
    BY <1>1 DEF StartTick
  <2>2. me.phase = "sources" /\ me.now = clock + 1 /\ me.listed = health /\ me.todo = Sources
        /\ me.queue = {}
    BY DEF Idle
  <2> HIDE DEF me
  <2>3. QED
    BY <1>u, <2>1, <2>2 DEF Started
<1>2. ASSUME NEW t \in Ticks, NEW s \in Sources, SkipSource(t, s) PROVE Others(t) /\ Skipped(t)
  <2> DEFINE me == [ticks[t] EXCEPT !.todo = ticks[t].todo \ {s}]
  <2>1. /\ ticks' = [ticks EXCEPT ![t] = me]
        /\ At(t, "sources") /\ UNCHANGED <<storeVars, clock, world>>
    BY <1>2, <1>t DEF SkipSource, TickState
  <2>2. me.phase = ticks[t].phase /\ me.now = ticks[t].now /\ me.listed = ticks[t].listed
        /\ me.todo \subseteq ticks[t].todo /\ me.queue = ticks[t].queue
    BY <1>t DEF TickState
  <2> HIDE DEF me
  <2>3. QED
    BY <1>u, <2>1, <2>2 DEF Skipped, GoesOn, At
<1>3. ASSUME NEW t \in Ticks, NEW s \in Sources,
             FetchBlocked(t, s) \/ FetchFails(t, s) \/ FetchSucceeds(t, s)
      PROVE  Others(t) /\ Visited(t)
  <2>1. CASE FetchBlocked(t, s)
    BY <1>v, <2>1 DEF FetchBlocked, Visited, History
  <2>2. CASE FetchFails(t, s)
    BY <1>v, <2>2 DEF FetchFails, Visited, History
  <2>3. CASE FetchSucceeds(t, s)
    BY <1>v, <2>3 DEF FetchSucceeds, Visited, History, storeVars
  <2>4. QED
    BY <1>3, <2>1, <2>2, <2>3
<1>4. ASSUME NEW t \in Ticks, NothingToCompare(t) \/ Unchanged(t) \/ ContentChanged(t)
      PROVE  Others(t) /\ Compared(t)
  <2>1. CASE NothingToCompare(t)
    BY <1>p, <2>1 DEF NothingToCompare, Compared, History, storeVars
  <2>2. CASE Unchanged(t)
    BY <1>p, <2>2 DEF Unchanged, Compared, History
  <2>3. CASE ContentChanged(t)
    <3>1. PICK p \in LatestSnapshots(ticks[t].source) :
            ticks' = [ticks EXCEPT ![t] = [@ EXCEPT !.phase = "changed", !.previous = p]]
      BY <2>3 DEF ContentChanged
    <3> DEFINE me == [ticks[t] EXCEPT !.phase = "changed", !.previous = p]
    <3>2. ticks' = [ticks EXCEPT ![t] = me]
      BY <3>1
    <3>3. /\ me.phase = "changed" /\ me.previous = p /\ me.now = ticks[t].now
          /\ me.listed = ticks[t].listed /\ me.queue = ticks[t].queue
          /\ me.todo = ticks[t].todo /\ me.source = ticks[t].source
      BY <1>t DEF TickState
    <3> HIDE DEF me
    <3>4. QED
      BY <1>u, <2>3, <3>2, <3>3
         DEF ContentChanged, Compared, History, storeVars, Stays, GoesOn
  <2>4. QED
    BY <1>4, <2>1, <2>2, <2>3
<1>5. ASSUME NEW t \in Ticks, BudgetAllows(t) PROVE Others(t) /\ Afforded(t)
  BY <1>5, <1>p DEF BudgetAllows, Afforded
<1>6. ASSUME NEW t \in Ticks, NoSpansThrows(t) \/ BudgetDenies(t) PROVE Others(t) /\ GaveUp(t)
  BY <1>6, <1>e DEF NoSpansThrows, BudgetDenies, GaveUp, History, storeVars
<1>7. ASSUME NEW t \in Ticks, NEW cost \in Costs, ClassifyFails(t, cost)
      PROVE  Others(t) /\ GaveUp(t)
  <2>1. world'.attempts = world.attempts /\ world'.billed >= world.billed
    BY <1>7, <1>c, <1>w DEF ClassifyFails, World
  <2>2. QED
    BY <1>7, <1>e, <2>1 DEF ClassifyFails, GaveUp, History, storeVars
<1>8. ASSUME NEW t \in Ticks, CommitBaseline(t) PROVE Others(t) /\ StoredBaseline(t)
  BY <1>8, <1>p DEF CommitBaseline, StoredBaseline
<1>9. ASSUME NEW t \in Ticks, NEW class \in TriageClasses, NEW cost \in Costs,
             CommitDelta(t, class, cost)
      PROVE  Others(t) /\ StoredDelta(t, class, cost)
  BY <1>9, <1>p DEF CommitDelta, StoredDelta
<1>10. ASSUME NEW t \in Ticks, MarkSourceFetched(t) \/ MarkSourceFailed(t)
       PROVE  Others(t) /\ Marked(t)
  BY <1>10, <1>e DEF MarkSourceFetched, MarkSourceFailed, Marked, History
<1>11. ASSUME NEW t \in Ticks, ListPending(t) \/ ListConfirmed(t) PROVE Others(t) /\ Listed(t)
  <2>1. CASE ListPending(t)
    <3> DEFINE me == [ticks[t] EXCEPT !.phase = "confirming", !.queue = PricingDeltasIn("pending")]
    <3>1. ticks' = [ticks EXCEPT ![t] = me]
      BY <2>1 DEF ListPending
    <3>2. /\ me.phase = "confirming" /\ me.queue = PricingDeltasIn("pending")
          /\ me.now = ticks[t].now /\ me.listed = ticks[t].listed /\ me.todo = ticks[t].todo
      BY <1>t DEF TickState
    <3> HIDE DEF me
    <3>3. QED
      BY <1>u, <2>1, <3>1, <3>2 DEF ListPending, Listed
  <2>2. CASE ListConfirmed(t)
    <3> DEFINE me == [ticks[t] EXCEPT !.phase = "publishing", !.queue = PricingDeltasIn("confirmed")]
    <3>1. ticks' = [ticks EXCEPT ![t] = me]
      BY <2>2 DEF ListConfirmed
    <3>2. /\ me.phase = "publishing" /\ me.queue = PricingDeltasIn("confirmed")
          /\ me.now = ticks[t].now /\ me.listed = ticks[t].listed /\ me.todo = ticks[t].todo
      BY <1>t DEF TickState
    <3> HIDE DEF me
    <3>3. QED
      BY <1>u, <2>2, <3>1, <3>2 DEF ListConfirmed, Listed
  <2>3. QED
    BY <1>11, <2>1, <2>2
<1>12. ASSUME NEW t \in Ticks, NEW i, RefetchFails(t, i) PROVE Others(t) /\ Refetched(t, i)
  BY <1>12, <1>s DEF RefetchFails, Refetched, History, At
<1>13. ASSUME NEW t \in Ticks, NEW i, Refetch(t, i) PROVE Others(t) /\ Refetched(t, i)
  <2>1. PICK c \in Contents :
          ticks' = [ticks EXCEPT ![t] =
                     [@ EXCEPT !.phase = "refetched", !.queue = ticks[t].queue \ {i},
                               !.delta = i, !.content = c]]
    BY <1>13 DEF Refetch
  <2> DEFINE me == [ticks[t] EXCEPT !.phase = "refetched", !.queue = ticks[t].queue \ {i},
                                    !.delta = i, !.content = c]
  <2>2. ticks' = [ticks EXCEPT ![t] = me]
    BY <2>1
  <2>3. /\ me.phase = "refetched" /\ me.queue = ticks[t].queue \ {i} /\ me.delta = i
        /\ me.now = ticks[t].now /\ me.listed = ticks[t].listed /\ me.todo = ticks[t].todo
    BY <1>t DEF TickState
  <2> HIDE DEF me
  <2>4. QED
    BY <1>13, <1>u, <2>2, <2>3 DEF Refetch, Refetched, History, storeVars
<1>14. ASSUME NEW t \in Ticks, NEW i, PublishDelta(t, i) PROVE Others(t) /\ Published(t, i)
  BY <1>14, <1>s DEF PublishDelta, Published, At
<1>15. ASSUME NEW t \in Ticks, CommitVerdict(t) PROVE Others(t) /\ Judged(t)
  BY <1>15, <1>e DEF CommitVerdict, Judged
<1>16. ASSUME NEW t \in Ticks, VerdictRejected(t) PROVE Others(t) /\ Rejected(t)
  BY <1>16, <1>e DEF VerdictRejected, Rejected
<1>17. ASSUME NEW t \in Ticks, FinishTick(t) PROVE Others(t) /\ Stopped(t)
  <2>1. world'.attempts = world.attempts /\ world'.billed >= world.billed
    BY <1>17, <1>w DEF FinishTick, World
  <2>2. QED
    BY <1>17, <1>i, <1>u, <2>1 DEF FinishTick, Stopped
<1>18. ASSUME NEW t \in Ticks, Crash(t) PROVE Others(t) /\ Stopped(t)
  <2>1. world'.attempts = world.attempts /\ world'.billed >= world.billed
    BY <1>18, <1>c, <1>w DEF Crash, World
  <2>2. QED
    BY <1>18, <1>i, <1>u, <2>1 DEF Crash, Stopped
<1>19. QED
  BY <1>1, <1>2, <1>3, <1>4, <1>5, <1>6, <1>7, <1>8, <1>9, <1>10, <1>11, <1>12, <1>13,
     <1>14, <1>15, <1>16, <1>17, <1>18 DEF Next, CheckSource, ConfirmAndPublish, Step

-----------------------------------------------------------------------------
(* What a step adds to the history.                                        *)

\* A snapshot is added at the end.
LEMMA SnapshotAdded ==
  ASSUME TypeOK, NEW s \in Sources, NEW c \in Contents, NEW at \in Nat,
         NEW v \in {"fetch", "confirmation"}, snapshots' = WithSnapshot(s, c, at, v)
  PROVE  /\ Len(snapshots) \in Nat /\ DOMAIN snapshots = 1 .. Len(snapshots)
         /\ DOMAIN snapshots' = DOMAIN snapshots \cup {Len(snapshots) + 1}
         /\ Len(snapshots) + 1 \notin DOMAIN snapshots
         /\ \A j \in DOMAIN snapshots : j < Len(snapshots) + 1 /\ snapshots'[j] = snapshots[j]
         /\ snapshots'[Len(snapshots) + 1].source = s
         /\ snapshots'[Len(snapshots) + 1].vantage = v
         /\ snapshots'[Len(snapshots) + 1].fetchedAt = at
         /\ \A r : SnapshotsOf(r)' = SnapshotsOf(r) \cup (IF r = s THEN {Len(snapshots) + 1} ELSE {})
<1> DEFINE row == [source |-> s, content |-> c, fetchedAt |-> at, vantage |-> v]
<1>1. row \in Snapshot /\ row.source = s /\ row.vantage = v /\ row.fetchedAt = at
  BY DEF Snapshot
<1>2. snapshots \in Seq(Snapshot) /\ snapshots' = Append(snapshots, row)
  BY DEF TypeOK, StoreTypeOK, WithSnapshot
<1> HIDE DEF row
<1>3. /\ snapshots' \in Seq(Snapshot) /\ Len(snapshots') = Len(snapshots) + 1
      /\ snapshots'[Len(snapshots) + 1] = row
      /\ \A j \in 1 .. Len(snapshots) : snapshots'[j] = snapshots[j]
  BY <1>1, <1>2, AppendProperties
<1>4. /\ DOMAIN snapshots = 1 .. Len(snapshots) /\ DOMAIN snapshots' = 1 .. Len(snapshots')
      /\ Len(snapshots) \in Nat
  BY <1>2, <1>3, LenProperties
<1>5. /\ DOMAIN snapshots' = DOMAIN snapshots \cup {Len(snapshots) + 1}
      /\ Len(snapshots) + 1 \notin DOMAIN snapshots
      /\ \A j \in DOMAIN snapshots : j < Len(snapshots) + 1 /\ snapshots'[j] = snapshots[j]
  BY <1>3, <1>4
<1>6. ASSUME NEW r
      PROVE  SnapshotsOf(r)' = SnapshotsOf(r) \cup (IF r = s THEN {Len(snapshots) + 1} ELSE {})
  BY <1>1, <1>3, <1>5 DEF SnapshotsOf
<1>7. QED
  BY <1>1, <1>3, <1>4, <1>5, <1>6

\* A delta is added at the end.
LEMMA DeltaAdded ==
  ASSUME TypeOK, NEW row \in Delta, deltas' = Append(deltas, row)
  PROVE  /\ Len(deltas) \in Nat /\ Len(deltas') = Len(deltas) + 1
         /\ DOMAIN deltas' = DOMAIN deltas \cup {Len(deltas) + 1}
         /\ Len(deltas) + 1 \notin DOMAIN deltas
         /\ \A i \in DOMAIN deltas : deltas'[i] = deltas[i]
         /\ deltas'[Len(deltas) + 1] = row
<1>1. deltas \in Seq(Delta)
  BY DEF TypeOK, StoreTypeOK
<1>2. /\ deltas' \in Seq(Delta) /\ Len(deltas') = Len(deltas) + 1
      /\ deltas'[Len(deltas) + 1] = row
      /\ \A j \in 1 .. Len(deltas) : deltas'[j] = deltas[j]
  BY <1>1, AppendProperties
<1>3. /\ DOMAIN deltas = 1 .. Len(deltas) /\ DOMAIN deltas' = 1 .. Len(deltas')
      /\ Len(deltas) \in Nat
  BY <1>1, <1>2, LenProperties
<1>4. QED
  BY <1>2, <1>3

\* The row of a changed page.
LEMMA DeltaRowType ==
  ASSUME TypeOK, NEW t \in Ticks, NEW class \in TriageClasses
  PROVE  [source |-> ticks[t].source, from |-> ticks[t].previous, to |-> Len(snapshots) + 1,
          class |-> class, state |-> DeltaStateFor(class), confirmedBy |-> None,
          createdAt |-> ticks[t].now] \in Delta
<1>1. Len(snapshots) \in Nat /\ ticks[t] \in TickState
  BY LenProperties DEF TypeOK, StoreTypeOK
<1>2. QED
  BY <1>1 DEF TickState, Delta, DeltaStateFor, DeltaStates, None

\* What a changed page adds, by field.
LEMMA DeltaStored ==
  ASSUME TypeOK, NEW t \in Ticks, NEW class \in TriageClasses, NEW cost \in Costs,
         StoredDelta(t, class, cost)
  PROVE  LET n == Len(deltas) + 1 IN
         /\ Len(deltas) \in Nat /\ Len(deltas') = Len(deltas) + 1
         /\ DOMAIN deltas' = DOMAIN deltas \cup {n} /\ n \notin DOMAIN deltas
         /\ \A i \in DOMAIN deltas : deltas'[i] = deltas[i]
         /\ deltas'[n].source = ticks[t].source /\ deltas'[n].class = class
         /\ deltas'[n].from = ticks[t].previous /\ deltas'[n].to = Len(snapshots) + 1
         /\ deltas'[n].state = DeltaStateFor(class)
<1> DEFINE row == [source |-> ticks[t].source, from |-> ticks[t].previous,
                   to |-> Len(snapshots) + 1, class |-> class,
                   state |-> DeltaStateFor(class), confirmedBy |-> None,
                   createdAt |-> ticks[t].now]
<1>1. row \in Delta /\ deltas' = Append(deltas, row)
  BY DeltaRowType DEF StoredDelta
<1>2. /\ row.source = ticks[t].source /\ row.class = class /\ row.from = ticks[t].previous
      /\ row.to = Len(snapshots) + 1 /\ row.state = DeltaStateFor(class)
  OBVIOUS
<1> HIDE DEF row
<1>3. QED
  BY <1>1, <1>2, DeltaAdded

\* A tick's record is well typed.
LEMMA TickFields ==
  ASSUME TypeOK, NEW t \in Ticks
  PROVE  /\ ticks[t].source \in Sources /\ ticks[t].content \in Contents /\ ticks[t].now \in Nat
         /\ ticks[t].todo \subseteq Sources /\ ticks[t].queue \subseteq Nat
         /\ ticks[t].listed \in [Sources -> Health] /\ ticks[t].phase \in Phases
         /\ ticks[t].previous \in Nat /\ ticks[t].delta \in Nat
BY DEF TypeOK, TickState

\* What a verdict adds.
LEMMA VerdictStored ==
  ASSUME TypeOK, EvidenceInv, NEW t \in Ticks, Judged(t)
  PROVE  LET i == ticks[t].delta IN
         /\ i \in DOMAIN deltas /\ Pricing(i) /\ deltas[i].source \in Sources
         /\ deltas[i].state = "pending" /\ deltas'[i].state = Verdict(t)
         /\ Verdict(t) \in {"confirmed", "dismissed"}
         /\ DOMAIN deltas' = DOMAIN deltas /\ Len(deltas') = Len(deltas)
         /\ \A j \in DOMAIN deltas : /\ j # i => deltas'[j] = deltas[j]
                                     /\ deltas'[j].source = deltas[j].source
                                     /\ deltas'[j].class = deltas[j].class
                                     /\ deltas'[j].from = deltas[j].from
                                     /\ deltas'[j].to = deltas[j].to
<1> DEFINE i == ticks[t].delta
<1>1. i \in DOMAIN deltas /\ Pricing(i)
  BY DEF Judged, EvidenceInv, HeldIds
<1>2. Verdict(t) \in DeltaStates /\ Verdict(t) \in {"confirmed", "dismissed"}
  BY DEF Verdict, DeltaStates
<1>3. Len(snapshots) + 1 \in Nat
  BY LenProperties DEF TypeOK, StoreTypeOK
<1>4. deltas[i].state = "pending"
  BY <1>2 DEF Judged, DeltaTransitionAllowed, AllowedDeltaTransitions
<1>5. deltas' = WithTransition(i, Verdict(t), Len(snapshots) + 1)
  BY DEF Judged
<1>6. deltas[i].source \in Sources
  <2>1. deltas[i] \in Delta
    BY <1>1, ElementOfSeq, LenProperties DEF TypeOK, StoreTypeOK
  <2>2. QED
    BY <2>1 DEF Delta
<1> HIDE DEF i
<1>7. /\ deltas' \in Seq(Delta) /\ DOMAIN deltas' = DOMAIN deltas
      /\ \A j \in DOMAIN deltas : j # i => deltas'[j] = deltas[j]
      /\ deltas'[i].state = Verdict(t)
      /\ deltas'[i].source = deltas[i].source /\ deltas'[i].from = deltas[i].from
      /\ deltas'[i].to = deltas[i].to /\ deltas'[i].class = deltas[i].class
  BY <1>1, <1>2, <1>3, <1>5, DeltaMoved
<1>8. Len(deltas') = Len(deltas)
  <2>1. deltas \in Seq(Delta)
    BY DEF TypeOK, StoreTypeOK
  <2>2. 1 .. Len(deltas') = 1 .. Len(deltas) /\ Len(deltas) \in Nat /\ Len(deltas') \in Nat
    BY <1>7, <2>1, LenProperties
  <2>3. QED
    BY <2>2
<1>9. QED
  BY <1>1, <1>2, <1>4, <1>6, <1>7, <1>8 DEF i

\* What the publish edge changes: a confirmed price change, or one that needs none.
LEMMA EdgeStored ==
  ASSUME TypeOK, NEW t \in Ticks, NEW i \in DOMAIN deltas, Published(t, i)
  PROVE  /\ DOMAIN deltas' = DOMAIN deltas /\ Len(deltas') = Len(deltas)
         /\ \A j \in DOMAIN deltas : /\ j # i => deltas'[j] = deltas[j]
                                     /\ deltas'[j].source = deltas[j].source
                                     /\ deltas'[j].class = deltas[j].class
                                     /\ deltas'[j].from = deltas[j].from
                                     /\ deltas'[j].to = deltas[j].to
         /\ deltas'[i] = deltas[i] \/ deltas'[i].state = "published"
         /\ deltas'[i] # deltas[i] /\ Pricing(i) => deltas[i].state = "confirmed"
         /\ deltas[i].state = "confirmed" => deltas'[i].state = "published"
<1>1. CASE ~DeltaTransitionAllowed(i, "published", None)
  BY <1>1 DEF Published, DeltaTransitionAllowed, AllowedDeltaTransitions, None
<1>2. CASE DeltaTransitionAllowed(i, "published", None)
  <2>1. deltas' = WithTransition(i, "published", None)
    BY <1>2 DEF Published
  <2>2. /\ deltas' \in Seq(Delta) /\ DOMAIN deltas' = DOMAIN deltas
        /\ \A j \in DOMAIN deltas : j # i => deltas'[j] = deltas[j]
        /\ deltas'[i].state = "published"
        /\ deltas'[i].source = deltas[i].source /\ deltas'[i].from = deltas[i].from
        /\ deltas'[i].to = deltas[i].to /\ deltas'[i].class = deltas[i].class
    BY <2>1, DeltaMoved DEF DeltaStates, None
  <2>3. Pricing(i) => deltas[i].state = "confirmed"
    BY <1>2 DEF DeltaTransitionAllowed, AllowedDeltaTransitions, Pricing
  <2>4. Len(deltas') = Len(deltas)
    <3>1. deltas \in Seq(Delta)
      BY DEF TypeOK, StoreTypeOK
    <3>2. 1 .. Len(deltas') = 1 .. Len(deltas) /\ Len(deltas) \in Nat /\ Len(deltas') \in Nat
      BY <2>2, <3>1, LenProperties
    <3>3. QED
      BY <3>2
  <2>5. QED
    BY <2>2, <2>3, <2>4
<1>3. QED
  BY <1>1, <1>2

-----------------------------------------------------------------------------
(* One confirmation for each verdict: any ticks, any faults.               *)

LEMMA RowsAreFinite ==
  ASSUME TypeOK
  PROVE  IsFiniteSet(DOMAIN snapshots) /\ IsFiniteSet(DOMAIN deltas)
<1>1. /\ DOMAIN snapshots = 1 .. Len(snapshots) /\ Len(snapshots) \in Nat
      /\ DOMAIN deltas = 1 .. Len(deltas) /\ Len(deltas) \in Nat
  BY LenProperties DEF TypeOK, StoreTypeOK
<1>2. IsFiniteSet(1 .. Len(snapshots)) /\ IsFiniteSet(1 .. Len(deltas))
  BY <1>1, FS_Interval
<1>3. QED
  BY <1>1, <1>2

\* Only these steps change the history.
LEMMA HistorySteps ==
  ASSUME NEW t \in Ticks, Step(t)
  PROVE  \/ UNCHANGED History
         \/ StoredBaseline(t)
         \/ \E class \in TriageClasses, cost \in Costs : StoredDelta(t, class, cost)
         \/ Judged(t)
         \/ \E i \in DOMAIN deltas : Published(t, i)
BY DEF Step, History, storeVars, Started, Skipped, Visited, Compared, Afforded, GaveUp, Marked,
       Listed, Refetched, Rejected, Stopped

LEMMA ConfirmationsStep ==
  ASSUME TypeOK, EvidenceInv, OneConfirmationPerVerdict, NEW t \in Ticks, Step(t)
  PROVE  OneConfirmationPerVerdict'
<1>f. IsFiniteSet(Decided) /\ IsFiniteSet(Confirmations)
  BY RowsAreFinite, FS_Subset DEF Decided, Confirmations
<1>t. /\ ticks[t].source \in Sources /\ ticks[t].content \in Contents /\ ticks[t].now \in Nat
      /\ DOMAIN deltas \subseteq Nat
  BY TickFields, DeltaIds
<1>1. CASE UNCHANGED History
  BY <1>1 DEF History, OneConfirmationPerVerdict, Decided, Confirmations, Pricing
\* A fetch of the loop is no confirmation.
<1>b. ASSUME snapshots' = WithSnapshot(ticks[t].source, ticks[t].content, ticks[t].now, "fetch")
      PROVE  Confirmations' = Confirmations
  BY <1>b, <1>t, SnapshotAdded DEF Confirmations
<1>2. CASE StoredBaseline(t)
  BY <1>2, <1>b DEF StoredBaseline, OneConfirmationPerVerdict, Decided, Pricing
\* A new price change is pending.
<1>3. ASSUME NEW class \in TriageClasses, NEW cost \in Costs, StoredDelta(t, class, cost)
      PROVE  OneConfirmationPerVerdict'
  <2>1. Confirmations' = Confirmations
    BY <1>3, <1>b DEF StoredDelta
  <2> DEFINE n == Len(deltas) + 1
  <2>2. /\ DOMAIN deltas' = DOMAIN deltas \cup {n} /\ n \notin DOMAIN deltas
        /\ \A i \in DOMAIN deltas : deltas'[i] = deltas[i]
        /\ deltas'[n].class = class /\ deltas'[n].state = DeltaStateFor(class)
    BY <1>3, DeltaStored
  <2>3. Decided' = Decided
    BY <2>2 DEF Decided, Pricing, DeltaStateFor
  <2>4. QED
    BY <2>1, <2>3 DEF OneConfirmationPerVerdict
\* A verdict decides one delta and adds one confirmation.
<1>4. CASE Judged(t)
  <2> DEFINE i == ticks[t].delta
             k == Len(snapshots) + 1
  <2>1. /\ i \in DOMAIN deltas /\ Pricing(i) /\ deltas[i].state = "pending"
        /\ deltas'[i].state \in {"confirmed", "dismissed"}
        /\ DOMAIN deltas' = DOMAIN deltas
        /\ \A j \in DOMAIN deltas : /\ j # i => deltas'[j] = deltas[j]
                                    /\ deltas'[j].class = deltas[j].class
        /\ deltas[i].source \in Sources
    BY <1>4, VerdictStored
  <2>2. /\ DOMAIN snapshots' = DOMAIN snapshots \cup {k} /\ k \notin DOMAIN snapshots
        /\ \A j \in DOMAIN snapshots : snapshots'[j] = snapshots[j]
        /\ snapshots'[k].vantage = "confirmation"
    BY <1>4, <1>t, <2>1, SnapshotAdded DEF Judged
  <2> HIDE DEF i, k
  <2>3. Decided' = Decided \cup {i} /\ i \notin Decided
    BY <2>1 DEF Decided, Pricing
  <2>4. Confirmations' = Confirmations \cup {k} /\ k \notin Confirmations
    BY <2>2 DEF Confirmations
  <2>5. /\ Cardinality(Decided') = Cardinality(Decided) + 1
        /\ Cardinality(Confirmations') = Cardinality(Confirmations) + 1
    BY <1>f, <2>3, <2>4, FS_AddElement
  <2>6. QED
    BY <2>5 DEF OneConfirmationPerVerdict
\* The publish edge moves only what is decided, or is no price change.
<1>5. ASSUME NEW i \in DOMAIN deltas, Published(t, i) PROVE OneConfirmationPerVerdict'
  <2>1. /\ DOMAIN deltas' = DOMAIN deltas
        /\ \A j \in DOMAIN deltas : /\ j # i => deltas'[j] = deltas[j]
                                    /\ deltas'[j].class = deltas[j].class
        /\ deltas'[i] = deltas[i] \/ deltas'[i].state = "published"
        /\ deltas'[i] # deltas[i] /\ Pricing(i) => deltas[i].state = "confirmed"
    BY <1>5, EdgeStored
  <2>2. Decided' = Decided
    BY <2>1 DEF Decided, Pricing
  <2>3. Confirmations' = Confirmations
    BY <1>5 DEF Published, Confirmations
  <2>4. QED
    BY <2>2, <2>3 DEF OneConfirmationPerVerdict
<1>6. QED
  BY <1>1, <1>2, <1>3, <1>4, <1>5, HistorySteps

\* However ticks overlap and crash, every verdict kept its evidence and no tick that
\* lost the race for a delta left a confirmation snapshot behind.
THEOREM Confirmed == Spec => []OneConfirmationPerVerdict
<1>1. Init => OneConfirmationPerVerdict
  <2> SUFFICES ASSUME Init PROVE OneConfirmationPerVerdict
    OBVIOUS
  <2>1. Decided = {} /\ Confirmations = {}
    BY DEF Init, StoreInit, Decided, Confirmations
  <2>2. QED
    BY <2>1 DEF OneConfirmationPerVerdict
<1>2. TypeOK /\ EvidenceInv /\ OneConfirmationPerVerdict /\ [Next]_vars
        => OneConfirmationPerVerdict'
  <2> SUFFICES ASSUME TypeOK, EvidenceInv, OneConfirmationPerVerdict, [Next]_vars
               PROVE  OneConfirmationPerVerdict'
    OBVIOUS
  <2>1. CASE UNCHANGED vars
    BY <2>1 DEF vars, storeVars, OneConfirmationPerVerdict, Decided, Confirmations, Pricing
  <2>2. QED
    BY <2>1, Steps, ConfirmationsStep
<1>3. QED
  BY <1>1, <1>2, TypeCorrect, Evidence, PTL DEF Spec

-----------------------------------------------------------------------------
(* The coverage receipt: any ticks, any faults.                            *)

\* The ticks whose fetch has not reached the receipt yet.
Uncovered == {t \in Ticks : ticks[t].phase \in {"fetched", "baseline", "changed", "affordable",
                                                "refetched"}}

\* The receipt and the history agree, and the fetches under way are attempts too.
ReceiptInv ==
  /\ coverage.deltasFound = Len(deltas)
  /\ coverage.llmCalls = Len(deltas)
  /\ coverage.rows + Cardinality(Uncovered) <= world.attempts
  /\ coverage.llmCost <= world.billed

\* Two sets that differ in one element at most.
LEMMA CardinalityMoves ==
  ASSUME NEW A, NEW B, NEW x, IsFiniteSet(A), IsFiniteSet(B), A \ {x} = B \ {x}
  PROVE  /\ Cardinality(A) \in Nat /\ Cardinality(B) \in Nat
         /\ (x \in A <=> x \in B) => Cardinality(B) = Cardinality(A)
         /\ x \notin A /\ x \in B => Cardinality(B) = Cardinality(A) + 1
         /\ x \in A /\ x \notin B => Cardinality(B) = Cardinality(A) - 1
<1>1. Cardinality(A) \in Nat /\ Cardinality(B) \in Nat
  BY FS_CardinalityType
<1>2. /\ Cardinality(A \ {x}) = IF x \in A THEN Cardinality(A) - 1 ELSE Cardinality(A)
      /\ Cardinality(B \ {x}) = IF x \in B THEN Cardinality(B) - 1 ELSE Cardinality(B)
  BY FS_RemoveElement
<1>3. QED
  BY <1>1, <1>2

\* A step of one tick moves that tick only in or out.
LEMMA UncoveredMoves ==
  ASSUME NEW t \in Ticks, Others(t)
  PROVE  /\ Cardinality(Uncovered) \in Nat /\ Cardinality(Uncovered') \in Nat
         /\ (t \in Uncovered <=> t \in Uncovered') => Cardinality(Uncovered') = Cardinality(Uncovered)
         /\ t \notin Uncovered /\ t \in Uncovered'
              => Cardinality(Uncovered') = Cardinality(Uncovered) + 1
         /\ t \in Uncovered /\ t \notin Uncovered'
              => Cardinality(Uncovered') = Cardinality(Uncovered) - 1
<1>1. IsFiniteSet(Uncovered) /\ IsFiniteSet(Uncovered')
  BY TickAssumption, FS_Subset DEF Uncovered
<1>2. Uncovered \ {t} = Uncovered' \ {t}
  BY DEF Uncovered, Others
<1>3. QED
  BY <1>1, <1>2, CardinalityMoves

\* What a coverage row adds.
LEMMA CoverageAdded ==
  ASSUME NEW failed, NEW found, NEW cost
  PROVE  LET row == WithCoverage(failed, found, cost) IN
         /\ row.rows = coverage.rows + 1
         /\ row.deltasFound = coverage.deltasFound + found
         /\ row.llmCalls = coverage.llmCalls + found
         /\ row.llmCost = coverage.llmCost + cost
BY DEF WithCoverage

LEMMA ReceiptStep ==
  ASSUME TypeOK, TypeOK', EvidenceInv, ReceiptInv, NEW t \in Ticks, Others(t), Step(t)
  PROVE  ReceiptInv'
<1> DEFINE before == Cardinality(Uncovered)
           after == Cardinality(Uncovered')
<1>t. /\ coverage.rows \in Nat /\ coverage.deltasFound \in Nat /\ coverage.llmCalls \in Nat
      /\ coverage.llmCost \in Nat /\ world \in World
      /\ world.attempts \in Nat /\ world.billed \in Nat /\ Costs \subseteq Nat
      /\ world'.attempts \in Nat /\ world'.billed \in Nat
  BY TickAssumption DEF TypeOK, StoreTypeOK, Coverage, World
<1>m. /\ before \in Nat /\ after \in Nat
      /\ (t \in Uncovered <=> t \in Uncovered') => after = before
      /\ t \notin Uncovered /\ t \in Uncovered' => after = before + 1
      /\ t \in Uncovered /\ t \notin Uncovered' => after = before - 1
  BY UncoveredMoves
<1>r. /\ coverage.deltasFound = Len(deltas) /\ coverage.llmCalls = Len(deltas)
      /\ coverage.rows + before <= world.attempts /\ coverage.llmCost <= world.billed
  BY DEF ReceiptInv
<1>c. \A failed \in {0, 1} : LET row == WithCoverage(failed, 0, 0) IN
        /\ row.rows = coverage.rows + 1 /\ row.deltasFound = coverage.deltasFound
        /\ row.llmCalls = coverage.llmCalls /\ row.llmCost = coverage.llmCost
  BY <1>t, CoverageAdded
<1>a. Attempted => world'.attempts = world.attempts + 1 /\ world'.billed = world.billed
  BY <1>t DEF Attempted, World
<1>u. t \in Uncovered <=> ticks[t].phase \in {"fetched", "baseline", "changed", "affordable",
                                              "refetched"}
  BY DEF Uncovered
<1>v. t \in Uncovered' <=> ticks'[t].phase \in {"fetched", "baseline", "changed", "affordable",
                                                "refetched"}
  BY DEF Uncovered
<1> HIDE DEF before, after
\* A step that finds no delta, told by the row it writes.
<1>q. ASSUME Len(deltas') = Len(deltas),
             \/ coverage' = coverage /\ after <= before /\ world'.attempts = world.attempts
             \/ coverage' = coverage /\ after <= before + 1 /\ world'.attempts = world.attempts + 1
             \/ /\ coverage' \in {WithCoverage(0, 0, 0), WithCoverage(1, 0, 0)}
                /\ after <= before /\ world'.attempts = world.attempts + 1
             \/ /\ coverage' \in {WithCoverage(0, 0, 0), WithCoverage(1, 0, 0)}
                /\ after <= before - 1 /\ world'.attempts = world.attempts,
             world'.billed >= world.billed
      PROVE  ReceiptInv'
  <2>1. /\ coverage'.deltasFound = Len(deltas') /\ coverage'.llmCalls = Len(deltas')
        /\ coverage'.llmCost = coverage.llmCost
    BY <1>c, <1>q, <1>r
  <2>2. coverage'.rows + after <= world'.attempts
    <3>1. coverage' # coverage => coverage'.rows = coverage.rows + 1
      BY <1>c, <1>q
    <3>2. /\ before \in Nat /\ after \in Nat /\ coverage.rows \in Nat
          /\ world.attempts \in Nat /\ coverage.rows + before <= world.attempts
      BY <1>m, <1>r, <1>t
    <3>3. CASE coverage' = coverage
      <4>1. \/ after <= before /\ world'.attempts = world.attempts
            \/ after <= before + 1 /\ world'.attempts = world.attempts + 1
        BY <1>q, <3>2, <3>3
      <4>2. QED
        BY <3>2, <3>3, <4>1
    <3>4. CASE coverage' # coverage
      <4>1. \/ after <= before /\ world'.attempts = world.attempts + 1
            \/ after <= before - 1 /\ world'.attempts = world.attempts
        BY <1>q, <3>4
      <4>2. QED
        BY <3>1, <3>2, <3>4, <4>1
    <3>5. QED
      BY <3>3, <3>4
  <2>3. coverage'.llmCost <= world'.billed
    BY <1>q, <1>r, <1>t, <2>1
  <2>4. QED
    BY <2>1, <2>2, <2>3 DEF ReceiptInv, after
<1>1. CASE Started(t)
  <2>1. Len(deltas') = Len(deltas) /\ coverage' = coverage /\ world' = world /\ after <= before
    BY <1>1, <1>m, <1>u, <1>v DEF Started, At, storeVars
  <2>2. QED
    BY <1>q, <1>t, <2>1
<1>2. CASE Skipped(t) \/ Afforded(t) \/ Rejected(t) \/ Listed(t)
  <2>1. Len(deltas') = Len(deltas) /\ coverage' = coverage /\ world' = world /\ after <= before
    BY <1>2, <1>m, <1>u, <1>v DEF Skipped, Afforded, Rejected, Listed, At, storeVars
  <2>2. QED
    BY <1>q, <1>t, <2>1
<1>3. CASE Visited(t)
  <2>1. Len(deltas') = Len(deltas) /\ world'.attempts = world.attempts + 1
        /\ world'.billed = world.billed
    BY <1>3, <1>a DEF Visited, History
  <2>2. CASE ticks'[t].phase = "fetched"
    <3>1. coverage' = coverage /\ after <= before + 1
      BY <1>3, <1>m, <1>u, <1>v, <2>2 DEF Visited, At
    <3>2. QED
      BY <1>q, <1>t, <2>1, <3>1
  <2>3. CASE ticks'[t].phase # "fetched"
    <3>1. coverage' = WithCoverage(1, 0, 0) /\ after <= before
      BY <1>3, <1>m, <1>u, <1>v, <2>3 DEF Visited, At
    <3>2. QED
      BY <1>q, <1>t, <2>1, <3>1
  <2>4. QED
    BY <2>2, <2>3
<1>4. CASE Compared(t)
  <2>1. Len(deltas') = Len(deltas) /\ world' = world
    BY <1>4 DEF Compared, History
  <2>2. \/ coverage' = coverage /\ after <= before
        \/ coverage' = WithCoverage(0, 0, 0) /\ after <= before - 1
    BY <1>4, <1>m, <1>u, <1>v DEF Compared, At
  <2>3. QED
    BY <1>q, <1>t, <2>1, <2>2
<1>5. CASE GaveUp(t)
  <2>1. Len(deltas') = Len(deltas) /\ world'.attempts = world.attempts
    BY <1>5 DEF GaveUp, History
  <2>2. world'.billed >= world.billed
    BY <1>5, <1>t DEF GaveUp
  <2>3. \/ coverage' = coverage
        \/ coverage' = WithCoverage(0, 0, 0)
    BY <1>5 DEF GaveUp
  <2>4. after <= before - 1
    BY <1>5, <1>m, <1>u, <1>v DEF GaveUp, At
  <2>5. after <= before
    BY <1>m, <2>4
  <2>6. QED
    BY <1>q, <2>1, <2>2, <2>3, <2>4, <2>5
<1>6. CASE StoredBaseline(t)
  <2>1. Len(deltas') = Len(deltas) /\ world' = world /\ coverage' = WithCoverage(0, 0, 0)
    BY <1>6 DEF StoredBaseline
  <2>2. after <= before - 1
    BY <1>6, <1>m, <1>u, <1>v DEF StoredBaseline, At
  <2>3. QED
    BY <1>q, <1>t, <2>1, <2>2
\* A delta is stored, counted and paid for in one step.
<1>7. ASSUME NEW class \in TriageClasses, NEW cost \in Costs, StoredDelta(t, class, cost)
      PROVE  ReceiptInv'
  <2>1. Len(deltas') = Len(deltas) + 1
    BY <1>7, DeltaStored
  <2>2. /\ coverage'.rows = coverage.rows + 1
        /\ coverage'.deltasFound = coverage.deltasFound + 1
        /\ coverage'.llmCalls = coverage.llmCalls + 1
        /\ coverage'.llmCost = coverage.llmCost + cost
    BY <1>7, CoverageAdded DEF StoredDelta
  <2>3. world'.attempts = world.attempts /\ world'.billed = world.billed + cost
    BY <1>7, <1>t DEF StoredDelta, World
  <2>4. after <= before - 1
    BY <1>7, <1>m, <1>u, <1>v DEF StoredDelta, At
  <2>5. cost \in Nat
    BY <1>t
  <2>6. coverage'.rows + after <= world'.attempts
    <3>1. /\ before \in Nat /\ after \in Nat /\ coverage.rows \in Nat
          /\ world.attempts \in Nat /\ coverage.rows + before <= world.attempts
      BY <1>m, <1>r, <1>t
    <3>2. coverage'.rows = coverage.rows + 1 /\ world'.attempts = world.attempts
      BY <2>2, <2>3
    <3>3. QED
      BY <2>4, <3>1, <3>2
  <2>7. coverage'.llmCost <= world'.billed
    <3>1. coverage.llmCost \in Nat /\ world.billed \in Nat /\ coverage.llmCost <= world.billed
      BY <1>r, <1>t
    <3>2. coverage'.llmCost = coverage.llmCost + cost /\ world'.billed = world.billed + cost
      BY <2>2, <2>3
    <3>3. QED
      BY <2>5, <3>1, <3>2
  <2>8. coverage'.deltasFound = Len(deltas') /\ coverage'.llmCalls = Len(deltas')
    BY <1>r, <2>1, <2>2
  <2>9. QED
    BY <2>6, <2>7, <2>8 DEF ReceiptInv, after
<1>8. CASE Marked(t)
  <2>1. Len(deltas') = Len(deltas) /\ coverage' = coverage /\ world' = world /\ after <= before
    BY <1>8, <1>m, <1>u, <1>v DEF Marked, At, History
  <2>2. QED
    BY <1>q, <1>t, <2>1
<1>9. ASSUME NEW i \in DOMAIN deltas, Refetched(t, i) PROVE ReceiptInv'
  <2>1. Len(deltas') = Len(deltas) /\ world'.attempts = world.attempts + 1
        /\ world'.billed = world.billed
    BY <1>9, <1>a DEF Refetched, History
  <2>2. CASE ticks'[t].phase = "refetched"
    <3>1. coverage' = coverage /\ after <= before + 1
      BY <1>9, <1>m, <1>u, <1>v, <2>2 DEF Refetched, At
    <3>2. QED
      BY <1>q, <1>t, <2>1, <3>1
  <2>3. CASE ticks'[t].phase # "refetched"
    <3>1. coverage' = WithCoverage(1, 0, 0) /\ after <= before
      BY <1>9, <1>m, <1>u, <1>v, <2>3 DEF Refetched, At
    <3>2. QED
      BY <1>q, <1>t, <2>1, <3>1
  <2>4. QED
    BY <2>2, <2>3
<1>10. CASE Judged(t)
  <2>1. Len(deltas') = Len(deltas) /\ world' = world /\ coverage' = WithCoverage(0, 0, 0)
    BY <1>10, VerdictStored DEF Judged
  <2>2. after <= before - 1
    BY <1>10, <1>m, <1>u, <1>v DEF Judged, At
  <2>3. QED
    BY <1>q, <1>t, <2>1, <2>2
<1>11. ASSUME NEW i \in DOMAIN deltas, Published(t, i) PROVE ReceiptInv'
  <2>1. Len(deltas') = Len(deltas) /\ world' = world /\ coverage' = coverage
    BY <1>11, EdgeStored DEF Published
  <2>2. after <= before
    BY <1>11, <1>m, <1>u, <1>v DEF Published, At
  <2>3. QED
    BY <1>q, <1>t, <2>1, <2>2
<1>12. CASE Stopped(t)
  <2>1. Len(deltas') = Len(deltas) /\ coverage' = coverage
        /\ world'.attempts = world.attempts /\ world'.billed >= world.billed
    BY <1>12 DEF Stopped, storeVars
  <2>2. after <= before
    BY <1>12, <1>m, <1>v DEF Stopped
  <2>3. QED
    BY <1>q, <2>1, <2>2
<1>13. QED
  BY <1>1, <1>2, <1>3, <1>4, <1>5, <1>6, <1>7, <1>8, <1>9, <1>10, <1>11, <1>12 DEF Step

\* However ticks overlap, crash and fail, the coverage receipt agrees with the history: a
\* delta is counted, and its model call metered, exactly when it is stored, and neither the
\* rows nor the metered spend ever exceed what was really fetched and billed.
THEOREM Receipt == Spec => []CoverageMatchesHistory
<1>1. Init => ReceiptInv
  <2> SUFFICES ASSUME Init PROVE ReceiptInv
    OBVIOUS
  <2>1. Uncovered = {}
    BY DEF Init, Uncovered, Idle
  <2>2. Cardinality(Uncovered) = 0
    BY <2>1, FS_EmptySet
  <2>3. QED
    BY <2>2 DEF Init, StoreInit, ReceiptInv
<1>2. TypeOK /\ TypeOK' /\ EvidenceInv /\ ReceiptInv /\ [Next]_vars => ReceiptInv'
  <2> SUFFICES ASSUME TypeOK, TypeOK', EvidenceInv, ReceiptInv, [Next]_vars PROVE ReceiptInv'
    OBVIOUS
  <2>1. CASE UNCHANGED vars
    BY <2>1 DEF vars, storeVars, ReceiptInv, Uncovered
  <2>2. QED
    BY <2>1, Steps, ReceiptStep
<1>3. TypeOK /\ ReceiptInv => CoverageMatchesHistory
  <2> SUFFICES ASSUME TypeOK, ReceiptInv PROVE CoverageMatchesHistory
    OBVIOUS
  <2>1. IsFiniteSet(Uncovered)
    BY TickAssumption, FS_Subset DEF Uncovered
  <2>2. Cardinality(Uncovered) \in Nat
    BY <2>1, FS_CardinalityType
  <2>3. coverage.rows \in Nat /\ world.attempts \in Nat
    BY DEF TypeOK, StoreTypeOK, Coverage, World
  <2>4. QED
    BY <2>2, <2>3 DEF ReceiptInv, CoverageMatchesHistory
<1>4. QED
  BY <1>1, <1>2, <1>3, TypeCorrect, Evidence, PTL DEF Spec

-----------------------------------------------------------------------------
(* Paused sources: any ticks, any faults.                                  *)

\* Tick t listed source s below the threshold and may still count a failure of it.
MayFail(t, s) ==
  /\ ticks[t].listed[s].failures < PauseAfter
  /\ \/ s \in ticks[t].todo
     \/ At(t, "failed") /\ ticks[t].source = s

Failing(s) == {t \in Ticks : MayFail(t, s)}

\* The streak of a source, with the failures still to be counted, stays below the
\* threshold plus one for each tick.
PauseInv ==
  /\ \A s \in Sources : health[s].failures + Cardinality(Failing(s)) < PauseAfter + Cardinality(Ticks)
  /\ \A t \in Ticks : At(t, "failed") => /\ MayFail(t, ticks[t].source)
                                         /\ ticks[t].source \notin ticks[t].todo

\* The ticks under way never count more than one failure each.
LEMMA FailingBounds ==
  ASSUME NEW s \in Sources
  PROVE  /\ IsFiniteSet(Failing(s)) /\ IsFiniteSet(Failing(s)')
         /\ Cardinality(Failing(s)) \in Nat /\ Cardinality(Failing(s)') \in Nat
         /\ Cardinality(Ticks) \in Nat /\ Cardinality(Failing(s)') <= Cardinality(Ticks)
<1>1. IsFiniteSet(Failing(s)) /\ IsFiniteSet(Failing(s)')
  BY TickAssumption, FS_Subset DEF Failing
<1>2. Failing(s)' \subseteq Ticks
  BY DEF Failing
<1>3. QED
  BY <1>1, <1>2, TickAssumption, FS_CardinalityType, FS_Subset

\* Only a tick that starts can fail more than before.
LEMMA FailingShrinks ==
  ASSUME TypeOK, PauseInv, NEW t \in Ticks, Step(t), ~Started(t)
  PROVE  /\ \A s \in Sources : MayFail(t, s)' => MayFail(t, s)
         /\ ticks'[t].phase = "failed" => /\ MayFail(t, ticks[t].source)'
                                          /\ ticks'[t].source \notin ticks'[t].todo
<1>1. CASE Visited(t)
  <2>1. /\ ticks'[t].source \in ticks[t].todo /\ ticks'[t].listed = ticks[t].listed
        /\ ticks'[t].todo = ticks[t].todo \ {ticks'[t].source}
        /\ ticks[t].listed[ticks'[t].source].failures < PauseAfter
    BY <1>1 DEF Visited, GoesOn, Fetchable
  <2>2. QED
    BY <2>1 DEF MayFail, At
<1>2. CASE ~Visited(t)
  <2>1. ticks'[t].phase # "failed" /\ ticks'[t].todo \subseteq ticks[t].todo
    BY <1>2 DEF Step, Skipped, Compared, Afforded, GaveUp, StoredBaseline, StoredDelta, Marked,
       Listed, Refetched, Judged, Rejected, Published, Stopped, Stays
  <2>2. ticks'[t].listed = ticks[t].listed \/ ticks'[t].todo = {}
    BY <1>2 DEF Step, Skipped, Compared, Afforded, GaveUp, StoredBaseline, StoredDelta, Marked,
       Listed, Refetched, Judged, Rejected, Published, Stopped, Stays, GoesOn
  <2>3. QED
    BY <2>1, <2>2 DEF MayFail, At
<1>3. QED
  BY <1>1, <1>2

\* Only a mark changes the health of a source.
LEMMA HealthSteps ==
  ASSUME NEW t \in Ticks, Step(t)
  PROVE  health' = health \/ Marked(t)
BY DEF Step, storeVars, Started, Skipped, Visited, Compared, Afforded, GaveUp, StoredBaseline,
       StoredDelta, Listed, Refetched, Judged, Rejected, Published, Stopped

LEMMA PauseStep ==
  ASSUME TypeOK, TypeOK', PauseInv, NEW t \in Ticks, Others(t), Step(t)
  PROVE  PauseInv'
<1>p. PauseAfter \in Nat /\ PauseAfter > 0
  BY TickAssumption
<1>h. \A s \in Sources : /\ health[s].failures \in Nat /\ health'[s].failures \in Nat
  BY DEF TypeOK, StoreTypeOK, Health
<1>o. \A u \in Ticks : u # t => \A s \in Sources : MayFail(u, s)' <=> MayFail(u, s)
  BY DEF Others, MayFail, At
<1>1. CASE Started(t)
  <2>1. /\ ticks'[t].listed = health /\ health' = health /\ ticks'[t].phase # "failed"
    BY <1>1 DEF Started, storeVars
  <2>2. ASSUME NEW s \in Sources
        PROVE  health'[s].failures + Cardinality(Failing(s)') < PauseAfter + Cardinality(Ticks)
    <3>1. CASE health[s].failures < PauseAfter
      BY <1>h, <1>p, <2>1, <3>1, FailingBounds
    <3>2. CASE ~(health[s].failures < PauseAfter)
      <4>1. Failing(s)' \subseteq Failing(s)
        BY <1>o, <2>1, <3>2 DEF Failing, MayFail
      <4>2. Cardinality(Failing(s)') <= Cardinality(Failing(s))
        BY <4>1, FailingBounds, FS_Subset
      <4>3. QED
        BY <1>h, <1>p, <2>1, <4>2, FailingBounds DEF PauseInv
    <3>3. QED
      BY <3>1, <3>2
  <2>3. QED
    BY <1>o, <2>1, <2>2 DEF PauseInv, At, Others, MayFail
<1>2. CASE ~Started(t)
  <2>1. \A s \in Sources : Failing(s)' \subseteq Failing(s)
    BY <1>2, <1>o, FailingShrinks DEF Failing
  <2>2. \A u \in Ticks : At(u, "failed")' => /\ MayFail(u, ticks[u].source)'
                                             /\ ticks'[u].source \notin ticks'[u].todo
    BY <1>2, FailingShrinks DEF PauseInv, At, Others, MayFail
  <2>3. ASSUME NEW s \in Sources
        PROVE  health'[s].failures + Cardinality(Failing(s)') < PauseAfter + Cardinality(Ticks)
    <3>1. Cardinality(Failing(s)') <= Cardinality(Failing(s))
      BY <2>1, FailingBounds, FS_Subset
    <3>2. CASE health'[s].failures <= health[s].failures
      BY <1>h, <1>p, <3>1, <3>2, FailingBounds DEF PauseInv
    <3>3. CASE health'[s].failures = 0
      BY <1>h, <1>p, <3>3, FailingBounds
    \* The failure is counted, and the tick cannot count another.
    <3>4. CASE At(t, "failed") /\ s = ticks[t].source /\ Marked(t)
      <4>1. /\ t \in Failing(s) /\ s \notin ticks[t].todo
        BY <3>4 DEF PauseInv, Failing
      <4>2. t \notin Failing(s)'
        BY <3>4, <4>1 DEF Failing, MayFail, Marked, At
      <4>3. health'[s].failures = health[s].failures + 1
        BY <3>4 DEF Marked, At, WithFailure, TypeOK, StoreTypeOK, Health
      <4>4. Failing(s)' \subseteq Failing(s) \ {t}
        BY <2>1, <4>2
      <4>5. /\ Cardinality(Failing(s) \ {t}) = Cardinality(Failing(s)) - 1
            /\ IsFiniteSet(Failing(s) \ {t})
        BY <4>1, FailingBounds, FS_RemoveElement
      <4>6. Cardinality(Failing(s)') <= Cardinality(Failing(s)) - 1
        BY <4>4, <4>5, FS_Subset
      <4>7. QED
        BY <1>h, <1>p, <4>3, <4>6, FailingBounds DEF PauseInv
    <3>5. \/ health'[s].failures <= health[s].failures
          \/ health'[s].failures = 0
          \/ At(t, "failed") /\ s = ticks[t].source /\ Marked(t)
      <4>1. CASE health' = health
        BY <1>h, <4>1
      <4>2. CASE Marked(t) /\ At(t, "completed")
        <5>1. health' = WithFetched(ticks[t].source, ticks[t].now)
          BY <4>2 DEF Marked, At
        <5>2. health'[s] = health[s] \/ health'[s].failures = 0
          BY <5>1 DEF WithFetched, TypeOK, StoreTypeOK
        <5>3. QED
          BY <1>h, <5>2
      <4>3. CASE Marked(t) /\ At(t, "failed")
        <5>1. health' = WithFailure(ticks[t].source)
          BY <4>3 DEF Marked, At
        <5>2. s # ticks[t].source => health'[s] = health[s]
          BY <5>1 DEF WithFailure, TypeOK, StoreTypeOK
        <5>3. QED
          BY <1>h, <4>3, <5>2
      <4>4. QED
        BY <4>1, <4>2, <4>3, HealthSteps DEF Marked
    <3>6. QED
      BY <3>2, <3>3, <3>4, <3>5
  <2>4. QED
    BY <2>2, <2>3 DEF PauseInv
<1>3. QED
  BY <1>1, <1>2

\* However ticks overlap, crash and fail, a source is tried at most once more by each tick
\* in flight after its streak reached the threshold.
THEOREM Paused == Spec => []PausedSourcesStayPaused
<1>1. Init => PauseInv
  <2> SUFFICES ASSUME Init PROVE PauseInv
    OBVIOUS
  <2>1. \A t \in Ticks : ticks[t].phase = "idle" /\ ticks[t].todo = {}
    BY DEF Init, Idle
  <2>2. \A s \in Sources : Failing(s) = {} /\ health[s].failures = 0
    BY <2>1 DEF Init, StoreInit, Failing, MayFail, At
  <2>3. Cardinality(Ticks) \in Nat /\ PauseAfter \in Nat /\ PauseAfter > 0
    BY TickAssumption, FS_CardinalityType
  <2>4. \A s \in Sources : health[s].failures + Cardinality(Failing(s)) < PauseAfter + Cardinality(Ticks)
    <3>1. \A s \in Sources : Cardinality(Failing(s)) = 0
      BY <2>2, FS_EmptySet
    <3>2. TAKE s \in Sources
    <3>3. health[s].failures = 0 /\ Cardinality(Failing(s)) = 0
      BY <2>2, <3>1
    <3> HIDE DEF Failing
    <3>4. QED
      BY <2>3, <3>3
  <2>5. QED
    BY <2>1, <2>4 DEF PauseInv, At
<1>2. TypeOK /\ TypeOK' /\ PauseInv /\ [Next]_vars => PauseInv'
  <2> SUFFICES ASSUME TypeOK, TypeOK', PauseInv, [Next]_vars PROVE PauseInv'
    OBVIOUS
  <2>1. CASE UNCHANGED vars
    BY <2>1 DEF vars, storeVars, PauseInv, Failing, MayFail, At
  <2>2. QED
    BY <2>1, Steps, PauseStep
<1>3. TypeOK /\ PauseInv => PausedSourcesStayPaused
  <2> SUFFICES ASSUME TypeOK, PauseInv, NEW s \in Sources
               PROVE  health[s].failures < PauseAfter + Cardinality(Ticks)
    BY DEF PausedSourcesStayPaused
  <2>1. /\ Cardinality(Failing(s)) \in Nat /\ Cardinality(Ticks) \in Nat /\ PauseAfter \in Nat
        /\ health[s].failures \in Nat
    BY FailingBounds, TickAssumption DEF TypeOK, StoreTypeOK, Health
  <2>2. QED
    BY <2>1 DEF PauseInv
<1>4. QED
  BY <1>1, <1>2, <1>3, TypeCorrect, PTL DEF Spec

-----------------------------------------------------------------------------
(* The meter and the receipt when ticks neither die nor throw: any ticks.  *)

\* The model call of a changed page is metered with the delta it found.
LEMMA MeterStep ==
  ASSUME TypeOK, coverage.llmCost = world.billed, NEW t \in Ticks, Step(t),
         "classify" \notin Faults, "crash" \notin Faults
  PROVE  coverage'.llmCost = world'.billed
<1>t. coverage.llmCost \in Nat /\ world \in World
  BY DEF TypeOK, StoreTypeOK, Coverage
<1>c. \A failed \in {0, 1} : WithCoverage(failed, 0, 0).llmCost = coverage.llmCost
  BY <1>t, CoverageAdded
<1>1. ASSUME NEW class \in TriageClasses, NEW cost \in Costs, StoredDelta(t, class, cost)
      PROVE  coverage'.llmCost = world'.billed
  <2>1. coverage'.llmCost = coverage.llmCost + cost
    BY <1>1, CoverageAdded DEF StoredDelta
  <2>2. world'.billed = world.billed + cost
    BY <1>1, <1>t DEF StoredDelta, World
  <2>3. QED
    BY <2>1, <2>2
<1>2. CASE ~\E class \in TriageClasses, cost \in Costs : StoredDelta(t, class, cost)
  <2>1. world'.billed = world.billed
    BY <1>2, <1>t DEF Step, Started, Skipped, Visited, Compared, Afforded, GaveUp, StoredBaseline,
       Marked, Listed, Refetched, Judged, Rejected, Published, Stopped, Attempted, World
  <2>2. coverage' = coverage \/ \E failed \in {0, 1} : coverage' = WithCoverage(failed, 0, 0)
    BY <1>2 DEF Step, storeVars, Started, Skipped, Visited, Compared, Afforded, GaveUp,
       StoredBaseline, Marked, Listed, Refetched, Judged, Rejected, Published, Stopped
  <2>3. QED
    BY <1>c, <2>1, <2>2
<1>3. QED
  BY <1>1, <1>2

\* However ticks overlap, while the answers of the model parse and no process dies, the
\* budget is charged with exactly what the model was paid for.
THEOREM Metered ==
  ASSUME "classify" \notin Faults, "crash" \notin Faults
  PROVE  Spec => []SpendIsMetered
<1> DEFINE Inv == coverage.llmCost = world.billed
<1>1. Init => Inv
  BY DEF Init, StoreInit
<1>2. TypeOK /\ Inv /\ [Next]_vars => Inv'
  <2> SUFFICES ASSUME TypeOK, Inv, [Next]_vars PROVE Inv'
    OBVIOUS
  <2>1. CASE UNCHANGED vars
    BY <2>1 DEF vars, storeVars
  <2>2. QED
    BY <2>1, Steps, MeterStep
<1>3. Inv => SpendIsMetered
  BY DEF SpendIsMetered
<1> HIDE DEF Inv
<1>4. QED
  BY <1>1, <1>2, <1>3, TypeCorrect, PTL DEF Spec

-----------------------------------------------------------------------------
(* The soft cap, for any number of overlapping ticks.                      *)

\* Fewer admitted ticks reserve no more.
LEMMA ReservationsGrow ==
  ASSUME NEW m \in Nat, NEW j \in Nat, NEW k \in Nat, j <= k
  PROVE  j * m <= k * m
OBVIOUS

\* One call uses up one reservation.
LEMMA ReservationUsed ==
  ASSUME NEW m \in Nat, NEW k \in Nat, k > 0
  PROVE  (k - 1) * m = k * m - m
OBVIOUS

\* The gate's mark, once more with what is reserved on both sides.
LEMMA GateLeavesRoom ==
  ASSUME NEW s \in Nat, NEW e \in Nat, NEW c \in Nat, NEW km \in Nat, NEW nm \in Nat,
         s + e <= c, km <= nm
  PROVE  s + km + e <= c + nm
OBVIOUS

\* A call that costs no more than was reserved for it.
LEMMA CallPaid ==
  ASSUME NEW s \in Nat, NEW e \in Nat, NEW c \in Nat, NEW km \in Nat, NEW nm \in Nat,
         NEW m \in Nat, NEW cost \in Nat, s + km + e <= c + nm, cost <= m, km - m \in Nat
  PROVE  (s + cost) + (km - m) + e <= c + nm
OBVIOUS

\* Reservations given back.
LEMMA RoomKept ==
  ASSUME NEW s \in Nat, NEW e \in Nat, NEW c \in Nat, NEW km \in Nat, NEW nm \in Nat,
         NEW jm \in Nat, s + km + e <= c + nm, jm <= km
  PROVE  s + jm + e <= c + nm
OBVIOUS

\* The admitted ticks are some of the ticks.
LEMMA AdmittedFinite ==
  /\ IsFiniteSet(Admitted) /\ Cardinality(Admitted) \in Nat
  /\ Cardinality(Admitted) <= Cardinality(Ticks) /\ Cardinality(Ticks) \in Nat
BY TickAssumption, FS_Subset, FS_CardinalityType DEF Admitted

\* What a step does to the spend and the admitted ticks: the gate admits one,
\* the commit of a delta meters one, and everything else at most loses some.
Admits(t) ==
  /\ WithinBudget(coverage.llmCost)
  /\ coverage'.llmCost = coverage.llmCost

Meters(t, cost) ==
  /\ t \in Admitted
  /\ Admitted' = Admitted \ {t}
  /\ coverage'.llmCost = coverage.llmCost + cost

Loses == /\ Admitted' \subseteq Admitted
         /\ coverage'.llmCost = coverage.llmCost

\* Every step is one of the three.
LEMMA SpendStep ==
  TypeOK /\ [Next]_vars => \/ \E t \in Ticks : Admits(t)
                           \/ \E t \in Ticks, cost \in Costs : Meters(t, cost)
                           \/ Loses
<1> SUFFICES ASSUME TypeOK, [Next]_vars
             PROVE  \/ \E t \in Ticks : Admits(t)
                    \/ \E t \in Ticks, cost \in Costs : Meters(t, cost)
                    \/ Loses
  OBVIOUS
<1>t. \A t \in Ticks : ticks[t] \in TickState
  BY DEF TypeOK
<1>k. coverage.llmCost \in Nat
  BY DEF TypeOK, StoreTypeOK, Coverage
<1>f. \A f, n \in Nat : WithCoverage(f, n, 0).llmCost = coverage.llmCost
  BY <1>k DEF WithCoverage
<1>r. ASSUME NEW t \in Ticks, NEW phase \in Phases \ {"affordable"},
             Resume(t, phase), coverage'.llmCost = coverage.llmCost
      PROVE  Loses
  BY <1>r, ResumeType DEF Loses, Admitted, At
<1>v. ASSUME NEW t \in Ticks, NEW s \in Sources, NEW phase \in Phases \ {"affordable"},
             NEW c \in Contents, Visit(t, s, phase, c), coverage'.llmCost = coverage.llmCost
      PROVE  Loses
  BY <1>v, VisitType DEF Loses, Admitted, At
<1>u. ASSUME NEW t \in Ticks, NEW me \in TickState, ticks' = [ticks EXCEPT ![t] = me],
             me.phase # "affordable" \/ ticks[t].phase = "affordable",
             coverage'.llmCost = coverage.llmCost
      PROVE  Loses
  BY <1>u, TickUpdated DEF Loses, Admitted, At
<1>p. Phases = {"idle", "sources", "fetched", "baseline", "changed", "affordable",
                "completed", "failed", "confirming", "refetched", "publishing"}
  BY DEF Phases
<1>i. Idle \in TickState /\ Idle.content \in Contents /\ Idle.phase = "idle"
  BY IdleType DEF TickState, Idle
<1>q. ASSUME NEW state \in DeltaStates PROVE PricingDeltasIn(state) \in SUBSET Nat
  BY DeltaIds DEF PricingDeltasIn
<1>1. CASE UNCHANGED vars
  BY <1>1 DEF vars, storeVars, Loses, Admitted, At
<1>2. ASSUME NEW t \in Ticks, StartTick(t) PROVE Loses
  <2>1. clock + 1 \in Nat /\ health \in [Sources -> Health]
    BY DEF TypeOK, StoreTypeOK
  <2> DEFINE me == [Idle EXCEPT !.phase = "sources", !.now = clock + 1,
                                !.listed = health, !.todo = Sources]
  <2>2. me \in TickState /\ me.phase = "sources"
    BY <1>i, <1>p, <2>1 DEF TickState
  <2>3. ticks' = [ticks EXCEPT ![t] = me] /\ coverage' = coverage
    BY <1>2 DEF StartTick, storeVars
  <2> HIDE DEF me
  <2>4. QED
    BY <1>u, <2>2, <2>3
<1>3. ASSUME NEW t \in Ticks, NEW s \in Sources,
             \/ SkipSource(t, s) \/ FetchBlocked(t, s) \/ FetchFails(t, s)
             \/ FetchSucceeds(t, s)
      PROVE  Loses
  <2>1. CASE SkipSource(t, s)
    BY <2>1, <1>t DEF SkipSource, storeVars, Loses, Admitted, At, TypeOK, TickState
  <2>2. CASE FetchBlocked(t, s)
    BY <2>2, <1>f, <1>i, <1>p, <1>v DEF FetchBlocked
  <2>3. CASE FetchFails(t, s)
    BY <2>3, <1>f, <1>i, <1>p, <1>v DEF FetchFails
  <2>4. CASE FetchSucceeds(t, s)
    BY <2>4, <1>i, <1>p, <1>v DEF FetchSucceeds, storeVars
  <2>5. QED
    BY <1>3, <2>1, <2>2, <2>3, <2>4
<1>4. ASSUME NEW t \in Ticks,
             NothingToCompare(t) \/ Unchanged(t) \/ ContentChanged(t) \/ CommitBaseline(t)
      PROVE  Loses
  <2>1. coverage' = coverage \/ coverage' = WithCoverage(0, 0, 0)
    BY <1>4 DEF NothingToCompare, Unchanged, ContentChanged, CommitBaseline, storeVars
  <2>2. \A u \in Ticks : u # t => ticks'[u] = ticks[u]
    BY <1>4 DEF NothingToCompare, Unchanged, ContentChanged, CommitBaseline, TypeOK
  <2>3. ticks'[t].phase # "affordable"
    BY <1>4, <1>t, ZenonT(30)
       DEF NothingToCompare, Unchanged, ContentChanged, CommitBaseline, TypeOK, TickState
  <2>4. QED
    BY <1>f, <2>1, <2>2, <2>3 DEF Loses, Admitted, At
<1>5. ASSUME NEW t \in Ticks, BudgetAllows(t) PROVE Admits(t)
  BY <1>5 DEF BudgetAllows, Admits, storeVars
<1>6. ASSUME NEW t \in Ticks,
             \/ NoSpansThrows(t) \/ BudgetDenies(t) \/ VerdictRejected(t)
             \/ MarkSourceFetched(t) \/ MarkSourceFailed(t) \/ CommitVerdict(t)
             \/ \E cost \in Costs : ClassifyFails(t, cost)
      PROVE  Loses
  <2>1. coverage' = coverage \/ coverage' = WithCoverage(0, 0, 0)
    BY <1>6 DEF NoSpansThrows, BudgetDenies, VerdictRejected, MarkSourceFetched,
                      MarkSourceFailed, CommitVerdict, ClassifyFails, storeVars
  <2>2. PICK phase \in {"sources", "confirming"} : Resume(t, phase)
    BY <1>6 DEF NoSpansThrows, BudgetDenies, VerdictRejected, MarkSourceFetched,
                MarkSourceFailed, CommitVerdict, ClassifyFails
  <2>3. QED
    BY <1>f, <1>p, <1>r, <2>1, <2>2
<1>7. ASSUME NEW t \in Ticks, NEW class \in TriageClasses, NEW cost \in Costs,
             CommitDelta(t, class, cost)
      PROVE  Meters(t, cost)
  <2>1. coverage'.llmCost = coverage.llmCost + cost
    BY <1>7 DEF CommitDelta, WithCoverage
  <2>2. t \in Admitted /\ ticks' = [ticks EXCEPT ![t].phase = "completed"]
    BY <1>7 DEF CommitDelta, Admitted
  <2>3. Admitted' = Admitted \ {t}
    BY <1>t, <2>2 DEF Admitted, At, TypeOK, TickState
  <2>4. QED
    BY <2>1, <2>2, <2>3 DEF Meters
<1>8. ASSUME NEW t \in Ticks,
             \/ ListPending(t) \/ ListConfirmed(t) \/ FinishTick(t) \/ Crash(t)
             \/ \E i \in DOMAIN deltas :
                  RefetchFails(t, i) \/ Refetch(t, i) \/ PublishDelta(t, i)
      PROVE  Loses
  <2>1. coverage' = coverage \/ coverage' = WithCoverage(1, 0, 0)
    BY <1>8 DEF ListPending, ListConfirmed, FinishTick, Crash, RefetchFails, Refetch,
                      PublishDelta, storeVars
  <2>2. \A u \in Ticks : u # t => ticks'[u] = ticks[u]
    BY <1>8 DEF ListPending, ListConfirmed, FinishTick, Crash, RefetchFails, Refetch,
                PublishDelta, TypeOK
  <2>3. ticks'[t].phase # "affordable"
    <3>1. CASE ListPending(t) \/ ListConfirmed(t)
      <4>1. PICK phase \in {"confirming", "publishing"}, q \in SUBSET Nat :
              ticks' = [ticks EXCEPT ![t] = [@ EXCEPT !.phase = phase, !.queue = q]]
        BY <3>1, <1>q DEF ListPending, ListConfirmed, DeltaStates
      <4>2. QED
        BY <4>1, <1>t DEF TypeOK, TickState
    <3>2. CASE FinishTick(t) \/ Crash(t)
      BY <3>2, <1>i DEF FinishTick, Crash, TypeOK
    <3>3. CASE \E i \in DOMAIN deltas : RefetchFails(t, i) \/ PublishDelta(t, i)
      BY <3>3, <1>t DEF RefetchFails, PublishDelta, TypeOK, TickState, At
    <3>4. CASE \E i \in DOMAIN deltas : Refetch(t, i)
      BY <3>4, <1>t DEF Refetch, TypeOK, TickState
    <3>5. QED
      BY <1>8, <3>1, <3>2, <3>3, <3>4
  <2>4. QED
    BY <1>f, <2>1, <2>2, <2>3 DEF Loses, Admitted, At
<1>9. QED
  BY <1>1, <1>2, <1>3, <1>4, <1>5, <1>6, <1>7, <1>8 DEF Next, CheckSource, ConfirmAndPublish

\* The reservation survives every step.
LEMMA ReservedStep == TypeOK /\ TypeOK' /\ SpendIsReserved /\ [Next]_vars => SpendIsReserved'
<1> SUFFICES ASSUME TypeOK, TypeOK', SpendIsReserved, [Next]_vars PROVE SpendIsReserved'
  OBVIOUS
<1> DEFINE spent == coverage.llmCost
           k == Cardinality(Admitted)
           n == Cardinality(Ticks)
<1>1. /\ spent \in Nat /\ spent' \in Nat /\ k \in Nat /\ k' \in Nat /\ n \in Nat
      /\ k <= n /\ k' <= n /\ IsFiniteSet(Admitted) /\ IsFiniteSet(Admitted')
  BY TickAssumption, FS_Subset, FS_CardinalityType
     DEF TypeOK, StoreTypeOK, Coverage, Admitted
<1>2. k * MaxCost \in Nat /\ k' * MaxCost \in Nat /\ n * MaxCost \in Nat
  BY <1>1, TickAssumption
<1>n. Estimate \in Nat /\ Cap \in Nat /\ MaxCost \in Nat
  BY TickAssumption
<1>3. ASSUME NEW t \in Ticks, Admits(t) PROVE SpendIsReserved'
  <2>1. k' * MaxCost <= n * MaxCost
    BY <1>1, ReservationsGrow, TickAssumption
  <2>2. spent' + Estimate <= Cap
    BY <1>3 DEF Admits, WithinBudget
  <2> HIDE DEF spent, k, n
  <2>3. spent' + k' * MaxCost + Estimate <= Cap + n * MaxCost
    BY <1>1, <1>2, <2>1, <2>2, <1>n, GateLeavesRoom
  <2>4. QED
    BY <2>3 DEF SpendIsReserved, spent, k, n
<1>4. ASSUME NEW t \in Ticks, NEW cost \in Costs, Meters(t, cost) PROVE SpendIsReserved'
  <2>1. k > 0 /\ k' = k - 1
    BY <1>1, <1>4, FS_RemoveElement, FS_EmptySet DEF Meters
  <2>2. k' * MaxCost = k * MaxCost - MaxCost
    BY <1>1, <2>1, ReservationUsed, TickAssumption
  <2>3. spent + k * MaxCost + Estimate <= Cap + n * MaxCost
    BY <1>4 DEF SpendIsReserved, Meters
  <2>4. spent' = spent + cost /\ cost <= MaxCost /\ cost \in Nat
    BY <1>4, TickAssumption DEF Meters
  <2> HIDE DEF spent, k, n
  <2>5. spent' + k' * MaxCost + Estimate <= Cap + n * MaxCost
    <3>1. k * MaxCost - MaxCost \in Nat
      BY <1>2, <2>2
    <3>2. (spent + cost) + (k * MaxCost - MaxCost) + Estimate <= Cap + n * MaxCost
      BY <1>1, <1>2, <1>n, <2>3, <2>4, <3>1, CallPaid
    <3>3. QED
      BY <2>2, <2>4, <3>2
  <2>6. QED
    BY <2>5 DEF SpendIsReserved, spent, k, n
<1>5. CASE Loses
  <2>1. SUFFICES ASSUME spent' > 0 \/ Admitted' # {}
                 PROVE  spent' + k' * MaxCost + Estimate <= Cap + n * MaxCost
    BY DEF SpendIsReserved
  <2>2. spent' = spent /\ spent + k * MaxCost + Estimate <= Cap + n * MaxCost
    BY <1>5, <2>1 DEF SpendIsReserved, Loses
  <2>3. k' <= k
    BY <1>1, <1>5, FS_Subset DEF Loses
  <2>4. k' * MaxCost <= k * MaxCost
    BY <1>1, <2>3, ReservationsGrow, TickAssumption
  <2> HIDE DEF spent, k, n
  <2>5. spent + k' * MaxCost + Estimate <= Cap + n * MaxCost
    BY <1>1, <1>2, <1>n, <2>2, <2>4, RoomKept
  <2>6. QED
    BY <2>2, <2>5
<1>6. QED
  BY <1>3, <1>4, <1>5, SpendStep

\* Whatever the ticks interleave, every call still to come is reserved.
THEOREM Reserved == Spec => []SpendIsReserved
<1>1. Init => SpendIsReserved
  <2> SUFFICES ASSUME Init PROVE SpendIsReserved
    OBVIOUS
  <2>1. coverage.llmCost = 0 /\ Admitted = {}
    BY DEF Init, StoreInit, Admitted, At, Idle
  <2>2. QED
    BY <2>1 DEF SpendIsReserved
<1>2. TypeOK /\ TypeOK' /\ SpendIsReserved /\ [Next]_vars => SpendIsReserved'
  BY ReservedStep
<1>3. QED
  BY <1>1, <1>2, TypeCorrect, PTL DEF Spec

\* The metered spend passes the cap by at most one call per overlapping tick.
THEOREM SoftCap == Spec => []OvershootIsOneCallPerTick
<1>1. TypeOK /\ SpendIsReserved => OvershootIsOneCallPerTick
  <2> SUFFICES ASSUME TypeOK, SpendIsReserved, coverage.llmCost > 0
               PROVE  coverage.llmCost + Estimate <= Cap + Cardinality(Ticks) * MaxCost
    BY DEF OvershootIsOneCallPerTick
  <2>1. coverage.llmCost + Cardinality(Admitted) * MaxCost + Estimate
          <= Cap + Cardinality(Ticks) * MaxCost
    BY DEF SpendIsReserved
  <2>2. Cardinality(Admitted) * MaxCost \in Nat /\ Cardinality(Ticks) * MaxCost \in Nat
    BY AdmittedFinite, TickAssumption
  <2>3. coverage.llmCost \in Nat
    BY DEF TypeOK, StoreTypeOK, Coverage
  <2>4. QED
    BY <2>1, <2>2, <2>3, TickAssumption
<1>2. QED
  BY <1>1, Reserved, TypeCorrect, PTL
=============================================================================
