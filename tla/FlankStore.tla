----------------------------- MODULE FlankStore -----------------------------
(***************************************************************************)
(* The rows of the FlankStore contract that the ingest and confirmation    *)
(* pipeline reads and writes: snapshots and deltas (append-only history),  *)
(* the coverage accounting, and the health of each source.  One row of     *)
(* history is one element of a sequence and its id is its position, so an  *)
(* id is never reused and None stands for SQL's NULL.                      *)
(*                                                                         *)
(* Two implementations of the contract exist and they differ in one point  *)
(* that matters here, the row latestSnapshot returns; SnapshotOrder picks  *)
(* which one is modelled.                                                  *)
(***************************************************************************)
EXTENDS Naturals, Sequences

CONSTANTS
  Sources,        \* the watched pages and feeds
  Contents,       \* normalized texts, each the set of its lines
  TriageClasses,  \* what the triage model may answer
  SnapshotOrder   \* "fetched_at" (Drizzle) or "insertion" (in memory)

ASSUME StoreAssumption ==
  /\ Sources # {}
  /\ Contents # {}
  /\ SnapshotOrder \in {"fetched_at", "insertion"}

VARIABLES snapshots, deltas, coverage, health

storeVars == <<snapshots, deltas, coverage, health>>

None == 0

DeltaStates == {"pending", "confirmed", "dismissed", "published"}

Snapshot == [source: Sources, content: Contents, fetchedAt: Nat,
             vantage: {"fetch", "confirmation"}]

Delta == [source: Sources, from: Nat, to: Nat, class: TriageClasses,
          state: DeltaStates, confirmedBy: Nat, createdAt: Nat]

\* coverage_run rows are only ever counted and summed: the sums are the state.
Coverage == [rows: Nat, fetchFailures: Nat, deltasFound: Nat, llmCalls: Nat,
             llmCost: Nat]

Health == [lastFetchedAt: Nat, failures: Nat]

StoreTypeOK ==
  /\ snapshots \in Seq(Snapshot)
  /\ deltas \in Seq(Delta)
  /\ coverage \in Coverage
  /\ health \in [Sources -> Health]

StoreInit ==
  /\ snapshots = <<>>
  /\ deltas = <<>>
  /\ coverage = [rows |-> 0, fetchFailures |-> 0, deltasFound |-> 0,
                 llmCalls |-> 0, llmCost |-> 0]
  /\ health = [s \in Sources |-> [lastFetchedAt |-> None, failures |-> 0]]

-----------------------------------------------------------------------------
(* Reads.                                                                  *)

SnapshotsOf(s) == {i \in DOMAIN snapshots : snapshots[i].source = s}

\* Mutant: ascending order.
OldestByFetchedAt(s) ==
  {i \in SnapshotsOf(s) :
     \A j \in SnapshotsOf(s) : snapshots[i].fetchedAt <= snapshots[j].fetchedAt}

\* ORDER BY fetched_at DESC LIMIT 1: rows that share the newest timestamp tie,
\* and the database may return any of them.
NewestByFetchedAt(s) ==
  {i \in SnapshotsOf(s) :
     \A j \in SnapshotsOf(s) : snapshots[j].fetchedAt <= snapshots[i].fetchedAt}

\* Mutant: confirmation snapshots are not candidates.
LastFetched(s) ==
  {i \in SnapshotsOf(s) :
     /\ snapshots[i].vantage = "fetch"
     /\ \A j \in SnapshotsOf(s) : snapshots[j].vantage = "fetch" => j <= i}

LastInserted(s) == {i \in SnapshotsOf(s) : \A j \in SnapshotsOf(s) : j <= i}

LatestSnapshots(s) == IF SnapshotOrder = "insertion" THEN LastInserted(s)
                                                     ELSE NewestByFetchedAt(s)

PricingDeltasIn(state) ==
  {i \in DOMAIN deltas : /\ deltas[i].state = state
                         /\ deltas[i].class = "pricing_change"}

-----------------------------------------------------------------------------
(* Writes.  Each one gives the next value of the table it writes.          *)

WithSnapshot(s, content, at, vantage) ==
  Append(snapshots, [source |-> s, content |-> content, fetchedAt |-> at,
                     vantage |-> vantage])

AllowedDeltaTransitions ==
  {<<"pending", "confirmed">>, <<"pending", "dismissed">>,
   <<"pending", "published">>, <<"confirmed", "published">>}

\* Mutant: the state the row already has is not looked at.
TransitionUnchecked(i, to, proof) == to = "confirmed" => proof # None

\* assertDeltaTransition, and the UPDATE trigger that evaluates it once more on
\* the row as it is when the write happens.
DeltaTransitionAllowed(i, to, proof) ==
  /\ <<deltas[i].state, to>> \in AllowedDeltaTransitions
  /\ ~ /\ deltas[i].class = "pricing_change"
       /\ deltas[i].state = "pending"
       /\ to = "published"
  /\ to = "confirmed" => proof # None

WithTransition(i, to, proof) ==
  [deltas EXCEPT ![i].state = to,
                 ![i].confirmedBy = IF to = "confirmed" THEN proof ELSE @]

\* Mutant: the cost never reaches the row.
WithCoverageUnmetered(failed, found, cost) ==
  [rows |-> coverage.rows + 1,
   fetchFailures |-> coverage.fetchFailures + failed,
   deltasFound |-> coverage.deltasFound + found,
   llmCalls |-> coverage.llmCalls + found,
   llmCost |-> coverage.llmCost]

\* One coverage_run row: failed and found are 1 when the fetch failed and when a
\* delta was found, which is also when the model was called.
WithCoverage(failed, found, cost) ==
  [rows |-> coverage.rows + 1,
   fetchFailures |-> coverage.fetchFailures + failed,
   deltasFound |-> coverage.deltasFound + found,
   llmCalls |-> coverage.llmCalls + found,
   llmCost |-> coverage.llmCost + cost]

WithFetched(s, at) == [health EXCEPT ![s] = [lastFetchedAt |-> at, failures |-> 0]]

WithFailure(s) == [health EXCEPT ![s].failures = @ + 1]
=============================================================================
