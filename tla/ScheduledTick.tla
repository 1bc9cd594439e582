---------------------------- MODULE ScheduledTick ----------------------------
(***************************************************************************)
(* The fetch-and-confirm cron: runScheduledTick, and the ingest and price  *)
(* confirmation it drives, over the store of FlankStore.                   *)
(*                                                                         *)
(* The Inngest function states no concurrency limit, so a tick that        *)
(* outlives the cron interval, or a retry, runs beside the next one: Ticks *)
(* is the set of ticks that may be in flight together, and every await of  *)
(* the code ends an action, so that they interleave there.  A crash loses  *)
(* a tick's memory and nothing else; the retry is a fresh tick.            *)
(*                                                                         *)
(* The watched sites are not modelled: a fetch may return any content,     *)
(* which is what an A/B-tested page does.  One workspace and one calendar  *)
(* month: monthToDateCostMicros is the sum of all coverage rows.           *)
(***************************************************************************)
EXTENDS FlankStore, FiniteSets

CONSTANTS
  Ticks,       \* ticks that may overlap
  Blocked,     \* the sources whose legalStatus is "blocked"
  Period,      \* Period[s]: instants between two fires of s's cadence, 0 if
               \* the cadence cannot be parsed
  PauseAfter,  \* failures in a row after which a source is skipped
  Costs,       \* what one triage call may cost
  MaxCost,     \* an upper bound of those costs
  Estimate,    \* what the budget gate projects for it
  Cap,         \* the tier's monthly budget
  Faults,      \* what may go wrong: "fetch", "classify", "crash"
  MaxClock     \* bound: ticks started in a behaviour

ASSUME TickAssumption ==
  /\ IsFiniteSet(Ticks)
  /\ Blocked \subseteq Sources
  /\ Period \in [Sources -> Nat]
  /\ PauseAfter \in Nat \ {0}
  /\ MaxCost \in Nat
  /\ Costs \subseteq 0 .. MaxCost
  /\ Estimate \in Nat
  /\ Cap \in Nat
  /\ MaxClock \in Nat

VARIABLES
  clock,   \* the last instant at which a tick started
  ticks,   \* the local state of each tick
  world    \* external: fetches made and model calls billed so far

vars == <<storeVars, clock, ticks, world>>

Phases == {"idle", "sources", "fetched", "baseline", "changed", "affordable",
           "completed", "failed", "confirming", "refetched", "publishing"}

TickState ==
  [phase: Phases, now: Nat,
   listed: [Sources -> Health],  \* health as listSourcesForScheduling saw it
   todo: SUBSET Sources,         \* sources the loop has not reached
   source: Sources,              \* the source being checked
   content: Contents,            \* what its fetch returned
   previous: Nat,                \* the snapshot it is compared with
   queue: SUBSET Nat,            \* listed deltas the loop has not reached
   delta: Nat]                   \* the delta being confirmed

Idle == [phase |-> "idle", now |-> 0,
         listed |-> [s \in Sources |-> [lastFetchedAt |-> None, failures |-> 0]],
         todo |-> {}, source |-> CHOOSE s \in Sources : TRUE,
         content |-> CHOOSE c \in Contents : TRUE,
         previous |-> None, queue |-> {}, delta |-> None]

Init ==
  /\ StoreInit
  /\ clock = 0
  /\ ticks = [t \in Ticks |-> Idle]
  /\ world = [attempts |-> 0, billed |-> 0]

At(t, phase) == ticks[t].phase = phase

\* Tick t goes back to its loop, forgetting the iteration that just ended.
Resume(t, phase) ==
  ticks' = [ticks EXCEPT ![t] =
              [@ EXCEPT !.phase = phase, !.source = Idle.source,
                        !.content = Idle.content, !.previous = None,
                        !.delta = None]]

Attempted == world' = [world EXCEPT !.attempts = @ + 1]

-----------------------------------------------------------------------------
(* runScheduledTick: the loop over the sources.                            *)

\* The most recent fire of a cadence.  A cadence fires just before the instants
\* that are multiples of its period; a fire is named after that instant, so a
\* fetch precedes it when its own instant is smaller.
PreviousFire(period, now) == (now \div period) * period

\* Mutant: a fetch at the instant of the fire itself counts as older.
IsSourceDueAgain(s, lastFetchedAt, now) ==
  /\ Period[s] # 0
  /\ \/ lastFetchedAt = None
     \/ lastFetchedAt <= PreviousFire(Period[s], now)

IsSourceDue(s, lastFetchedAt, now) ==
  /\ Period[s] # 0
  /\ \/ lastFetchedAt = None
     \/ lastFetchedAt < PreviousFire(Period[s], now)

\* Mutant: one failure too many.
FetchableOnceMore(t, s) ==
  /\ ticks[t].listed[s].failures <= PauseAfter
  /\ IsSourceDue(s, ticks[t].listed[s].lastFetchedAt, ticks[t].now)

Fetchable(t, s) ==
  /\ ticks[t].listed[s].failures < PauseAfter
  /\ IsSourceDue(s, ticks[t].listed[s].lastFetchedAt, ticks[t].now)

StartTick(t) ==
  /\ At(t, "idle")
  /\ clock < MaxClock
  /\ clock' = clock + 1
  /\ ticks' = [ticks EXCEPT ![t] =
                 [Idle EXCEPT !.phase = "sources", !.now = clock + 1,
                              !.listed = health, !.todo = Sources]]
  /\ UNCHANGED <<storeVars, world>>

\* A paused source, or one that is not due.
SkipSource(t, s) ==
  /\ At(t, "sources") /\ s \in ticks[t].todo
  /\ ~Fetchable(t, s)
  /\ ticks' = [ticks EXCEPT ![t].todo = @ \ {s}]
  /\ UNCHANGED <<storeVars, clock, world>>

\* The iteration for s, up to the outcome of the fetch.
Visit(t, s, phase, content) ==
  /\ At(t, "sources") /\ s \in ticks[t].todo
  /\ Fetchable(t, s)
  /\ ticks' = [ticks EXCEPT ![t] =
                 [@ EXCEPT !.phase = phase, !.todo = ticks[t].todo \ {s},
                           !.source = s, !.content = content]]

\* Mutant: the early return forgets the coverage row.
FetchBlockedSilently(t, s) ==
  /\ s \in Blocked
  /\ Visit(t, s, "completed", Idle.content)
  /\ Attempted
  /\ UNCHANGED <<storeVars, clock>>

\* A blocked source is never fetched; the check still leaves a coverage row
\* and counts as completed.
FetchBlocked(t, s) ==
  /\ s \in Blocked
  /\ Visit(t, s, "completed", Idle.content)
  /\ coverage' = WithCoverage(1, 0, 0)
  /\ Attempted
  /\ UNCHANGED <<snapshots, deltas, health, clock>>

\* The fetcher throws, the status is 400 or more, or the payload cannot be
\* normalized.
FetchFails(t, s) ==
  /\ "fetch" \in Faults /\ s \notin Blocked
  /\ Visit(t, s, "failed", Idle.content)
  /\ coverage' = WithCoverage(1, 0, 0)
  /\ Attempted
  /\ UNCHANGED <<snapshots, deltas, health, clock>>

FetchSucceeds(t, s) ==
  /\ s \notin Blocked
  /\ \E c \in Contents : Visit(t, s, "fetched", c)
  /\ Attempted
  /\ UNCHANGED <<storeVars, clock>>

-----------------------------------------------------------------------------
(* ingestFetch.                                                            *)

\* The spans triage sees are the regions of the new text that the old one does
\* not have.  Lines that only disappear leave none.
ChangedSpans(old, new) == new \ old

NothingToCompare(t) ==
  /\ At(t, "fetched")
  /\ LatestSnapshots(ticks[t].source) = {}
  /\ ticks' = [ticks EXCEPT ![t].phase = "baseline"]
  /\ UNCHANGED <<storeVars, clock, world>>

\* The hash gate: equal content is counted and goes no further.
Unchanged(t) ==
  /\ At(t, "fetched")
  /\ \E p \in LatestSnapshots(ticks[t].source) :
       snapshots[p].content = ticks[t].content
  /\ coverage' = WithCoverage(0, 0, 0)
  /\ ticks' = [ticks EXCEPT ![t].phase = "completed"]
  /\ UNCHANGED <<snapshots, deltas, health, clock, world>>

ContentChanged(t) ==
  /\ At(t, "fetched")
  /\ \E p \in LatestSnapshots(ticks[t].source) :
       /\ ChangedSpans(snapshots[p].content, ticks[t].content) # {}
       /\ ticks' = [ticks EXCEPT ![t] = [@ EXCEPT !.phase = "changed",
                                                  !.previous = p]]
  /\ UNCHANGED <<storeVars, clock, world>>

\* assertTriageAllowed throws when the hashes differ and no span does; the
\* tick counts an error and moves on.
NoSpansThrows(t) ==
  /\ At(t, "fetched")
  /\ \E p \in LatestSnapshots(ticks[t].source) :
       /\ snapshots[p].content # ticks[t].content
       /\ ChangedSpans(snapshots[p].content, ticks[t].content) = {}
  /\ Resume(t, "sources")
  /\ UNCHANGED <<storeVars, clock, world>>

\* Mutant: the projection is left out.
WithinBudgetSoFar(spent) == spent <= Cap

WithinBudget(spent) == spent + Estimate <= Cap

BudgetAllows(t) ==
  /\ At(t, "changed")
  /\ WithinBudget(coverage.llmCost)
  /\ ticks' = [ticks EXCEPT ![t].phase = "affordable"]
  /\ UNCHANGED <<storeVars, clock, world>>

\* Mutant: the new snapshot is kept although the change was not triaged.
BudgetAbsorbs(t) ==
  /\ At(t, "changed")
  /\ ~WithinBudget(coverage.llmCost)
  /\ snapshots' = WithSnapshot(ticks[t].source, ticks[t].content, ticks[t].now, "fetch")
  /\ coverage' = WithCoverage(0, 0, 0)
  /\ Resume(t, "sources")
  /\ UNCHANGED <<deltas, health, clock, world>>

\* skipped_over_budget: nothing is stored but the coverage row, and the health
\* of the source is left alone.
BudgetDenies(t) ==
  /\ At(t, "changed")
  /\ ~WithinBudget(coverage.llmCost)
  /\ coverage' = WithCoverage(0, 0, 0)
  /\ Resume(t, "sources")
  /\ UNCHANGED <<snapshots, deltas, health, clock, world>>

\* Mutant: noise is closed under a name the state machine does not have.
NoiseIsClosed(class) == CASE class = "noise" -> "closed"
                          [] class = "pricing_change" -> "pending"
                          [] OTHER -> "published"

\* Mutant: only noise is withheld.
MaterialIsPublished(class) == IF class = "noise" THEN "dismissed" ELSE "published"

\* Every claim quotes a span of the snapshot it is pinned to, so gatePublish
\* never withholds here and the state follows from the class alone.
DeltaStateFor(class) == CASE class = "noise" -> "dismissed"
                          [] class = "pricing_change" -> "pending"
                          [] OTHER -> "published"

\* Mutant: a dismissed change is not counted.
CommitDeltaUncounted(t, class, cost) ==
  LET me == ticks[t] IN
  /\ At(t, "affordable")
  /\ snapshots' = WithSnapshot(me.source, me.content, me.now, "fetch")
  /\ deltas' = Append(deltas,
       [source |-> me.source, from |-> me.previous, to |-> Len(snapshots) + 1,
        class |-> class, state |-> DeltaStateFor(class), confirmedBy |-> None,
        createdAt |-> me.now])
  /\ coverage' = WithCoverage(0, IF class = "noise" THEN 0 ELSE 1, cost)
  /\ world' = [world EXCEPT !.billed = @ + cost]
  /\ ticks' = [ticks EXCEPT ![t].phase = "completed"]
  /\ UNCHANGED <<health, clock>>

\* The transaction of a changed page: snapshot, delta and coverage together,
\* with the model call inside it.
CommitDelta(t, class, cost) ==
  LET me == ticks[t] IN
  /\ At(t, "affordable")
  /\ snapshots' = WithSnapshot(me.source, me.content, me.now, "fetch")
  /\ deltas' = Append(deltas,
       [source |-> me.source, from |-> me.previous, to |-> Len(snapshots) + 1,
        class |-> class, state |-> DeltaStateFor(class), confirmedBy |-> None,
        createdAt |-> me.now])
  /\ coverage' = WithCoverage(0, 1, cost)
  /\ world' = [world EXCEPT !.billed = @ + cost]
  /\ ticks' = [ticks EXCEPT ![t].phase = "completed"]
  /\ UNCHANGED <<health, clock>>

\* The model was called, but its answer or its usage does not parse: the
\* transaction rolls back and the exception ends the iteration.
ClassifyFails(t, cost) ==
  /\ "classify" \in Faults
  /\ At(t, "affordable")
  /\ world' = [world EXCEPT !.billed = @ + cost]
  /\ Resume(t, "sources")
  /\ UNCHANGED <<storeVars, clock>>

CommitBaseline(t) ==
  LET me == ticks[t] IN
  /\ At(t, "baseline")
  /\ snapshots' = WithSnapshot(me.source, me.content, me.now, "fetch")
  /\ coverage' = WithCoverage(0, 0, 0)
  /\ ticks' = [ticks EXCEPT ![t].phase = "completed"]
  /\ UNCHANGED <<deltas, health, clock, world>>

\* Back in the tick: the outcome becomes the source's health.
MarkSourceFetched(t) ==
  /\ At(t, "completed")
  /\ health' = WithFetched(ticks[t].source, ticks[t].now)
  /\ Resume(t, "sources")
  /\ UNCHANGED <<snapshots, deltas, coverage, clock, world>>

MarkSourceFailed(t) ==
  /\ At(t, "failed")
  /\ health' = WithFailure(ticks[t].source)
  /\ Resume(t, "sources")
  /\ UNCHANGED <<snapshots, deltas, coverage, clock, world>>

-----------------------------------------------------------------------------
(* The confirmation pass and the publish edge.                             *)

ListPending(t) ==
  /\ At(t, "sources") /\ ticks[t].todo = {}
  /\ ticks' = [ticks EXCEPT ![t] = [@ EXCEPT !.phase = "confirming",
                                             !.queue = PricingDeltasIn("pending")]]
  /\ UNCHANGED <<storeVars, clock, world>>

RefetchFails(t, i) ==
  /\ "fetch" \in Faults
  /\ At(t, "confirming") /\ i \in ticks[t].queue
  /\ coverage' = WithCoverage(1, 0, 0)
  /\ ticks' = [ticks EXCEPT ![t].queue = @ \ {i}]
  /\ Attempted
  /\ UNCHANGED <<snapshots, deltas, health, clock>>

Refetch(t, i) ==
  /\ At(t, "confirming") /\ i \in ticks[t].queue
  /\ \E c \in Contents :
       ticks' = [ticks EXCEPT ![t] =
                   [@ EXCEPT !.phase = "refetched", !.queue = ticks[t].queue \ {i},
                             !.delta = i, !.content = c]]
  /\ Attempted
  /\ UNCHANGED <<storeVars, clock>>

\* Mutant: compared with the snapshot before the change.
ReproducesBaseline(t) ==
  ticks[t].content = snapshots[deltas[ticks[t].delta].from].content

Reproduces(t) ==
  ticks[t].content = snapshots[deltas[ticks[t].delta].to].content

Verdict(t) == IF Reproduces(t) THEN "confirmed" ELSE "dismissed"

\* The transaction of a verdict: the confirmation snapshot, the transition and
\* the coverage row.
CommitVerdict(t) ==
  LET me == ticks[t]  proof == Len(snapshots) + 1 IN
  /\ At(t, "refetched")
  /\ DeltaTransitionAllowed(me.delta, Verdict(t), proof)
  /\ snapshots' = WithSnapshot(deltas[me.delta].source, me.content, me.now,
                               "confirmation")
  /\ deltas' = WithTransition(me.delta, Verdict(t), proof)
  /\ coverage' = WithCoverage(0, 0, 0)
  /\ Resume(t, "confirming")
  /\ UNCHANGED <<health, clock, world>>

\* Mutant: the snapshot was written outside the transaction.
VerdictRejectedLate(t) ==
  LET me == ticks[t] IN
  /\ At(t, "refetched")
  /\ ~DeltaTransitionAllowed(me.delta, Verdict(t), Len(snapshots) + 1)
  /\ snapshots' = WithSnapshot(deltas[me.delta].source, me.content, me.now,
                               "confirmation")
  /\ Resume(t, "confirming")
  /\ UNCHANGED <<deltas, coverage, health, clock, world>>

\* Another tick decided the delta first: the guard throws and the transaction,
\* snapshot and coverage row included, rolls back.
VerdictRejected(t) ==
  /\ At(t, "refetched")
  /\ ~DeltaTransitionAllowed(ticks[t].delta, Verdict(t), Len(snapshots) + 1)
  /\ Resume(t, "confirming")
  /\ UNCHANGED <<storeVars, clock, world>>

\* Mutant: the list is as old as the tick.
ListConfirmedBefore(t) ==
  /\ At(t, "confirming") /\ ticks[t].queue = {}
  /\ ticks' = [ticks EXCEPT ![t] =
                  [@ EXCEPT !.phase = "publishing",
                            !.queue = {i \in PricingDeltasIn("confirmed") :
                                         deltas[i].createdAt < ticks[t].now}]]
  /\ UNCHANGED <<storeVars, clock, world>>

ListConfirmed(t) ==
  /\ At(t, "confirming") /\ ticks[t].queue = {}
  /\ ticks' = [ticks EXCEPT ![t] = [@ EXCEPT !.phase = "publishing",
                                             !.queue = PricingDeltasIn("confirmed")]]
  /\ UNCHANGED <<storeVars, clock, world>>

PublishDelta(t, i) ==
  /\ At(t, "publishing") /\ i \in ticks[t].queue
  /\ deltas' = IF DeltaTransitionAllowed(i, "published", None)
               THEN WithTransition(i, "published", None)
               ELSE deltas
  /\ ticks' = [ticks EXCEPT ![t].queue = @ \ {i}]
  /\ UNCHANGED <<snapshots, coverage, health, clock, world>>

FinishTick(t) ==
  /\ At(t, "publishing") /\ ticks[t].queue = {}
  /\ ticks' = [ticks EXCEPT ![t] = Idle]
  /\ UNCHANGED <<storeVars, clock, world>>

\* The process dies at any await.  If it dies inside the transaction of a
\* changed page the model call may have been billed already.
Crash(t) ==
  /\ "crash" \in Faults
  /\ ~At(t, "idle")
  /\ \E cost \in IF At(t, "affordable") THEN Costs \cup {0} ELSE {0} :
       world' = [world EXCEPT !.billed = @ + cost]
  /\ ticks' = [ticks EXCEPT ![t] = Idle]
  /\ UNCHANGED <<storeVars, clock>>

-----------------------------------------------------------------------------
CheckSource(t) ==
  \/ \E s \in Sources : \/ SkipSource(t, s)
                        \/ FetchBlocked(t, s)
                        \/ FetchFails(t, s)
                        \/ FetchSucceeds(t, s)
  \/ NothingToCompare(t) \/ Unchanged(t) \/ ContentChanged(t) \/ NoSpansThrows(t)
  \/ BudgetAllows(t) \/ BudgetDenies(t)
  \/ \E class \in TriageClasses, cost \in Costs : CommitDelta(t, class, cost)
  \/ \E cost \in Costs : ClassifyFails(t, cost)
  \/ CommitBaseline(t)
  \/ MarkSourceFetched(t) \/ MarkSourceFailed(t)

ConfirmAndPublish(t) ==
  \/ ListPending(t)
  \/ \E i \in DOMAIN deltas : \/ RefetchFails(t, i)
                              \/ Refetch(t, i)
                              \/ PublishDelta(t, i)
  \/ CommitVerdict(t) \/ VerdictRejected(t)
  \/ ListConfirmed(t)

Next == \E t \in Ticks : \/ StartTick(t)
                         \/ CheckSource(t)
                         \/ ConfirmAndPublish(t)
                         \/ FinishTick(t)
                         \/ Crash(t)

Spec == Init /\ [][Next]_vars

-----------------------------------------------------------------------------
(* The abstract specification: snapshots are its evidence, deltas its      *)
(* findings.                                                               *)

Firewall == INSTANCE PricingFirewall WITH
  evidence <- [j \in DOMAIN snapshots |->
                 [source |-> snapshots[j].source, content |-> snapshots[j].content]],
  findings <- [i \in DOMAIN deltas |->
                 [source |-> deltas[i].source, class |-> deltas[i].class,
                  fate |-> deltas[i].state, seen |-> deltas[i].to,
                  proof |-> deltas[i].confirmedBy]]

\* Overlapping, crashing, budgeted ticks implement the firewall: every step adds
\* an observation, a finding or a verdict the abstract machine allows there.
ImplementsFirewall == Firewall!Spec

-----------------------------------------------------------------------------
World == [attempts: Nat, billed: Nat]

\* Every variable has its type.
TypeOK ==
  /\ StoreTypeOK
  /\ clock \in Nat
  /\ ticks \in [Ticks -> TickState]
  /\ world \in World

Pricing(i) == deltas[i].class = "pricing_change"

\* Snapshot j shows, after the one that introduced delta i and from the
\* confirmation vantage, the same content of the same source.
ReproducedBy(i, j) ==
  /\ j \in DOMAIN snapshots
  /\ j > deltas[i].to
  /\ snapshots[j].vantage = "confirmation"
  /\ snapshots[j].source = deltas[i].source
  /\ snapshots[j].content = snapshots[deltas[i].to].content

\* The pricing firewall (Invariant 3): a price change is confirmed or published
\* only when the snapshot it names as its confirmation reproduces it, whatever
\* ticks overlap and wherever they crash.
PricingAlertsAreReproduced ==
  \A i \in DOMAIN deltas :
    Pricing(i) /\ deltas[i].state \in {"confirmed", "published"}
      => ReproducedBy(i, deltas[i].confirmedBy)

\* A verdict is final: once a delta is dismissed or published, or names its
\* confirmation, no later tick rewrites that, even one that listed the delta
\* while it was still pending.
VerdictsAreFinal ==
  [][\A i \in DOMAIN deltas :
       /\ deltas[i].state \in {"dismissed", "published"} => deltas'[i] = deltas[i]
       /\ deltas[i].confirmedBy # None
            => deltas'[i].confirmedBy = deltas[i].confirmedBy]_deltas

\* What the row of delta i says about the snapshots: it names the one that
\* introduced it, only a price change is ever confirmed, an undecided or
\* dismissed one names no confirmation, and an alert is reproduced.
DeltaEvidence(i) ==
  /\ deltas[i].to \in DOMAIN snapshots
  /\ snapshots[deltas[i].to].source = deltas[i].source
  /\ deltas[i].state = "confirmed" => Pricing(i)
  /\ deltas[i].state \in {"pending", "dismissed"} => deltas[i].confirmedBy = None
  /\ Pricing(i) /\ deltas[i].state \in {"confirmed", "published"}
       => ReproducedBy(i, deltas[i].confirmedBy)

\* What the ids a tick listed earlier still mean when it acts on them: the queued
\* ones and the one under confirmation are price changes.
HeldIds(t) ==
  \A i \in ticks[t].queue \cup (IF At(t, "refetched") THEN {ticks[t].delta} ELSE {}) :
    i \in DOMAIN deltas /\ Pricing(i)

\* The inductive strengthening of the firewall: the firewall at every row, and
\* what it takes for a tick that acts on stale ids to keep it.
EvidenceInv == /\ \A i \in DOMAIN deltas : DeltaEvidence(i)
               /\ \A t \in Ticks : HeldIds(t)

Decided == {i \in DOMAIN deltas : Pricing(i) /\ deltas[i].state # "pending"}

Confirmations == {j \in DOMAIN snapshots : snapshots[j].vantage = "confirmation"}

\* Every verdict kept its evidence and every confirmation snapshot belongs to a
\* verdict: ticks that lose the race for a delta leave nothing behind.
OneConfirmationPerVerdict == Cardinality(Decided) = Cardinality(Confirmations)

\* One change is reported once: no two deltas of a source start from the same
\* snapshot.
OneDeltaPerBaseline ==
  \A i, j \in DOMAIN deltas :
    deltas[i].source = deltas[j].source /\ i # j => deltas[i].from # deltas[j].from

\* No change is absorbed: every observation of the fetch loop but a source's
\* first is what some delta reports.  A change over budget is therefore found
\* again later, and one whose transaction died was never stored.
EveryObservationIsExplained ==
  \A j \in DOMAIN snapshots :
    \/ snapshots[j].vantage = "confirmation"
    \/ \A i \in DOMAIN snapshots : i < j => snapshots[i].source # snapshots[j].source
    \/ \E i \in DOMAIN deltas : deltas[i].to = j

\* The coverage receipt agrees with the history it summarizes: a delta is
\* counted, and its model call metered, exactly when it is stored.
CoverageMatchesHistory ==
  /\ coverage.deltasFound = Len(deltas)
  /\ coverage.llmCalls = Len(deltas)
  /\ coverage.rows <= world.attempts
  /\ coverage.llmCost <= world.billed

\* The soft cap: the gate lets a call through only while its projection fits, so
\* the metered spend can pass that mark by no more than one call for each tick
\* that read the total before the others committed.
OvershootIsOneCallPerTick ==
  coverage.llmCost > 0
    => coverage.llmCost + Estimate <= Cap + Cardinality(Ticks) * MaxCost

\* The ticks the budget gate let through and whose call is still to come.
Admitted == {t \in Ticks : At(t, "affordable")}

\* Its inductive strengthening: the calls still to come are already reserved.
SpendIsReserved ==
  coverage.llmCost > 0 \/ Admitted # {}
    => coverage.llmCost + Cardinality(Admitted) * MaxCost + Estimate
         <= Cap + Cardinality(Ticks) * MaxCost

\* A source is tried at most once more by each overlapping tick after its
\* streak reached the threshold.
PausedSourcesStayPaused ==
  \A s \in Sources : health[s].failures < PauseAfter + Cardinality(Ticks)

\* Each observation of a source by the fetch loop answers its own fire of the
\* cadence: between two of them the cadence fired.
OneObservationPerFire ==
  \A i, j \in DOMAIN snapshots :
    /\ i < j
    /\ snapshots[i].source = snapshots[j].source
    /\ snapshots[i].vantage = "fetch" /\ snapshots[j].vantage = "fetch"
    => snapshots[i].fetchedAt
         < PreviousFire(Period[snapshots[j].source], snapshots[j].fetchedAt)

\* One coverage row per fetch attempt (entities.ts, schema.ts): when no tick is
\* at work the rows and the attempts agree.
EveryAttemptIsCovered ==
  (\A t \in Ticks : At(t, "idle")) => coverage.rows = world.attempts

\* What the model was paid for is what the budget is charged with.
SpendIsMetered ==
  (\A t \in Ticks : At(t, "idle")) => coverage.llmCost = world.billed

\* A flap is dismissed and never alerted: no published price change starts from
\* the very snapshot that a dismissed one had introduced.
FlapsNeverAlert ==
  \A i, j \in DOMAIN deltas :
    /\ Pricing(i) /\ deltas[i].state = "published"
    /\ Pricing(j) /\ deltas[j].state = "dismissed"
    => deltas[i].from # deltas[j].to

\* A clean tick drains the firewall: when it ends, every price change it found
\* or inherited has been published or dismissed.
TicksDrainTheFirewall ==
  [][\A t \in Ticks :
       FinishTick(t) =>
         \A i \in DOMAIN deltas :
           Pricing(i) => deltas[i].state \in {"published", "dismissed"}]_vars
=============================================================================
