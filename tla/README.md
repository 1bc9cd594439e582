# Flank, specified

TLA+ modules, model-checking configurations and machine-checked proofs for
Flank, a competitive-intelligence service: it watches the public pages of
competitors, keeps an append-only history of what changed, lets a price change
through only after a second look reproduced it, alerts, and regenerates
dossiers and battlecards with citations. Paths below are relative to
`src/packages/` unless they start with `src/`.

## 1. The system

Four Inngest crons run over one `FlankStore` (PostgreSQL through Drizzle in
production, an in-memory twin in tests). They share nothing else: every
interaction goes through rows.

| component | state it keeps | operations | who reads it |
|---|---|---|---|
| fetch-and-confirm tick, every 15 min (`pipeline/src/scheduler.ts`, `fetch-ingest.ts`, `ingest.ts`, `pricing-confirmation.ts`) | none of its own; lists read at its start | fetch the due sources, triage a change inside the budget, confirm pending price changes with a second fetch, publish confirmed ones | everything downstream |
| store (`core/src/store.ts`, `core/src/entities.ts`, `db/src/drizzle-store.ts`, `pipeline/src/memory-store.ts`) | snapshots, deltas, claims (append-only), coverage rows, source health, section versions, alerts, bundle deliveries, users | insert, latest, transition under a guard, sum of the month's cost | all |
| COGS budget (`core/src/cogs.ts`) | none; the sum of coverage rows | price a call, project one, decide | tick, synthesis |
| delivery sweep, every 5 min, singleton (`pipeline/src/delivery.ts`, `alerts.ts`, `notifier-impls.ts`, `db/src/drizzle-alerts.ts`) | alert rows: queued, failed, delivered | enqueue per delta and destination, send the oldest, record | users |
| nightly synthesis, 04:00 (`pipeline/src/synthesis.ts`, `core/src/sections.ts`, `core/src/citation.ts`) | section version chains | budget gate, model calls, citation gate, publish versions | OKF delivery, web |
| OKF delivery, 05:00, singleton (`pipeline/src/okf-delivery.ts`, `okf-export/src/*`) | delivery records with manifests | project, diff with the last manifest, push, record | customers' repositories |
| identity (`src/apps/web/auth.ts`, `lib/auth/*`, `linkOrCreateUserBySubject`) | users, memberships, session and hint cookies | link or create on login, choose the workspace | web |
| identity provider bootstrap (`src/scripts/ferriskey-bootstrap.ts`) | none; what the provider has | create realm, client, addresses, user, password; run again after a failure | operators |
| page fetcher and adapters (`pipeline/src/http-fetcher.ts`, `core/src/net-policy.ts`, `pipeline/src/adapters/*`) | the request under way and its timer | judge an address, look its host up, follow redirects, read the body, normalize it | tick |
| model clients (`pipeline/src/anthropic-*.ts`, `mock-*.ts`, `cassette.ts`) | none | answer a triage or a section with the tokens it took | tick, synthesis |
| in-memory transactions (`pipeline/src/memory-store.ts`) | a copy of every map | take it, put it back | tests, demo |
| web views (`src/apps/web/app/authed`, `lib/views/*`) | what the reader's tab shows | competitor page, history of a section, logs | users |
| pure parts: span diff, hash, citation gate, cadence, OKF document library | none | functions | |

What is hard here:

* the tick states no concurrency limit: a slow tick or a retry runs beside the
  next one, and both work from lists they read earlier;
* every `await` is a place to die; only `withTransaction` is atomic;
* the model call happens inside the transaction of a changed page, the provider
  call of an alert outside any;
* snapshots are ordered by a timestamp that all snapshots of one tick share;
* the budget is read before the call it gates;
* retries without bound, and a bounded batch of the oldest work first.

Per component, what makes it correct:

* **tick**: a price change is visible only if an independent later observation of
  the same source reproduced it; a verdict is final; no change is absorbed; one
  change is reported once; the budget is a soft cap with a known overshoot;
  every attempt and every paid call leaves a coverage row; a paused source stays
  paused; one observation per fire of the cadence.
* **delivery**: nothing is sent before the firewall cleared it; delivered is
  final; a duplicate has a lost outcome behind it; a failed alert is retried
  next; every working destination is served.
* **synthesis**: only verified citations of the right section and competitor are
  published; chains do not fork; what is published is metered; the soft cap.
* **OKF delivery**: a repository shows only what was published and never goes back
  on it; what a bundle no longer has is deleted; in the end the repository equals the
  projection, whatever failed on the way.
* **identity**: one account per subject and per address, whoever signs in first; a
  request acts for an account its subject has earned, in a workspace it was granted.
* **bootstrap**: a run that says it is done leaves a provider the login works with,
  and a failed run can always be repeated.
* **fetcher**: every source of a tick gets its coverage row, however its hosts
  redirect.
* **model clients and COGS**: the meter does not drift from what the calls cost.
* **in-memory transactions**: a roll back undoes the transaction and nothing else.
* **diffs and views**: the quotes of a change are what changed, at their offsets; a
  link of the history leads to a version and the one before it.

## 2. Modules

| module | models |
|---|---|
| `FlankStore` | the rows the tick reads and writes, and the store's operations on them |
| `ScheduledTick` | `runScheduledTick`, `fetchAndIngest`, `ingestFetch`, `confirmPricingDelta` |
| `PricingFirewall` | abstract: observations, findings and verdicts |
| `AlertDelivery` | `runDeliverySweep`, `composeAlerts`, the alert rows, the notifiers |
| `AlertOutbox` | abstract: promised, received and settled messages |
| `Synthesis` | `runNightlySynthesis`, `runSynthesis`, the section rows |
| `SectionHistory` | abstract: the versions of each section and what they cite |
| `OkfProjection` | `projectWorkspaceBundle`: slugs, links, documents, findings |
| `OkfDelivery` | `runOkfDelivery`, `GitHubBundlePublisher`, the delivery records |
| `BundleMirror` | abstract: the versions published and the versions each repository shows |
| `Identity` | `linkOrCreateUserBySubject`, sessions, `resolveWorkspace` |
| `Provisioning` | the bootstrap script |
| `PageFetch` | `HttpFetcher`, the refusals of the adapters |
| `ModelCalls` | prices, projections, the clients and the meter |
| `MemoryStore` | `MemoryFlankStore` and its transactions |
| `SpanDiff` | `diffChangedSpans`, `pinClaims`, `verifyClaim`, `diffLines` |
| `VersionHistory` | the competitor page and the history page |
| `MCScheduledTick`, `MCAlertDelivery`, `MCSynthesis` | small instances for TLC |
| `Services` | the eight smaller services side by side, of which a behaviour runs one |
| `MCServices` | an instance of it for TLC |
| `ScheduledTick_proofs` | typing, the inductive invariant, the firewall, final verdicts, `ScheduledTick` implements `PricingFirewall` |
| `ScheduledTickHistory_proofs` | what holds however ticks overlap: the soft cap, confirmations, receipts, pauses, the meter |
| `ScheduledTickSerial_proofs` | what holds of one tick at a time: reports, coverage, cadence, flaps |
| `AlertDelivery_proofs` | typing, final rows, copies, retries, the outbox |
| `Synthesis_proofs` | the soft cap, linear chains, the meter, `Synthesis` implements `SectionHistory` |
| `OkfDelivery_proofs` | what a branch holds, `OkfDelivery` implements `BundleMirror`, typing |
| `SpanDiff_proofs` | the two diffs on any texts, the version pages |
| `Services_proofs` | the main invariant of the bootstrap, the meter, the store in memory and sign-ins, and the typing of all services |

### FlankStore and ScheduledTick

A history table is a sequence and an id is a position in it. A page's content is
the set of its lines, which keeps what the pipeline looks at: whether two texts
are equal and which lines of the new one the old one does not have. Coverage
rows are only ever counted and summed, so the sums are the state. `SnapshotOrder`
selects which `latestSnapshot` is modelled: `ORDER BY fetched_at` with arbitrary
ties, or last inserted.

A tick is a record: the loop it is in, the source health it read at its start
(`listed`), the sources not reached, the iteration's data, the listed deltas not
reached. Each action is the code between two awaits that other ticks can notice.
A transaction is one action: `CommitDelta` is the body of
`handleChangedContent`, `CommitVerdict` that of `confirmPricingDelta`.
`ClassifyFails` and `VerdictRejected` are their roll backs: the first may be
billed, the second leaves nothing. `Crash` drops a tick at any point.

The tick's `now` is a logical clock that grows with each start. A cadence of period
p fires just before the instants that are multiples of p; period 0 stands for a
cadence that cannot be parsed, which is never due.

The fetched site is unconstrained: any content at each fetch. The triage answer
is any class with any cost of `Costs`. `withTransaction` is serializable enough
for what is in it (each transaction inserts its own rows and one guarded
update, which the trigger re-evaluates on the row as it then is).

### AlertDelivery

`order` is the alert table sorted by (enqueuedAt, id): a new row goes behind the
rows that are older than its sweep, and anywhere among those of the sweep, since
ids are random. `status` is the delivery status. A sweep holds what it still
has to enqueue and, as a set of rows, what is left of the batch it listed; it is at
the first of them in the order (`Current`), since no row changes its place relative
to another. `DeliverableRows` are the places of queued and failed rows. Sending and recording are two actions;
between them the sweep may crash, or its write may fail (`RecordFails`), which
counts the copy as `lost`. `SendTimesOut` is a request aborted after the
provider accepted. `received` is the provider's side: a Slack webhook keeps every
copy, the e-mail provider one per alert id. The deltas are moved by an external
action with the store's transitions (`DecideDelta`), so that enqueue, publish and
configuration of destinations interleave.

### Synthesis

A section row is its competitor, kind, version, predecessor and the claims it
cites; its text is left out, and with it the previous text the model is shown. A
claim is named after its delta, since triage stores one claim per delta. A night
is a record: the competitors its loop has not reached, and for the one it is at,
the deltas it collected, the sections still to write, the month's cost as the gate
read it, the cost of its calls, and the versions it planned. The reads before the
gate are one action (`Collect`); `ReadHeads` and `PublishSections` are the two
halves of the transaction, between which another night may commit. The
transaction reads and inserts section by section; reading all heads first loses
nothing, since a version another night takes in between conflicts in either
order. `PublishConflicts` is the unique constraint: the transaction and its
coverage row roll back and the calls are not metered. `RunFails` is any other
exception of one competitor, which the loop survives; `Crash` ends the night.
`TickSpends` and `ConfirmDelta` are the tick, seen from here; each call of the
tick is gated and metered in one step, since `ScheduledTick` is where its own
overlap is modelled.

### OkfProjection, OkfDelivery and BundleMirror

A slug is the words of a name that `slugify` keeps, a path the sequence of its
segments, and the text of a file the set of facts it shows, so that a manifest,
which holds hashes, is the files themselves. `SlugOf` appends the id to a name
that is shared, which may collide with a third one; `Throws` is the duplicate path
that `buildBundle` refuses before anything is validated, and nothing is recorded of
it. A section's text may hold a link (`Rows`), since a model writes it.

A sweep reads the competitors, then the sections of each one by one
(`ReadSections`), while synthesis publishes. `push` is its one target at a time.
Inside the publisher the calls before the ref moves leave nothing reachable, so
they are `ResolveHead`, `CallFails` and `MoveRef`; `behind` says that the tip has
moved since it was read, which the unforced update refuses. A request that times
out, or whose sweep dies, stays in `late` and the host may carry it out as long as
the tip fits. The host is external: its other users commit, merge and delete the
branch, the last only once it is merged, and it is taken to accept the deletion of
a path that is not there. The manifest is the workspace's latest published one,
whatever its target: `latest` is indexed by workspace. Two targets that share a
workspace therefore diverge, and what is promised is about a target that is alone
in its workspace (`Sole`). `lost` collects the paths of pushes whose outcome
nobody recorded; a file among them that the next bundle no longer has stays in the
repository for ever.

`BundleMirror` knows only versions: published ones, and those each repository's
log shows. `Mirror` maps the version chains and the log file to them.

### Identity and Provisioning

A sign-in is three statements: by subject, by address, then the write, with other
sign-ins between them; the two unique columns decide the last. An account whose
address the provider has verified takes the subject of whoever signs in with it,
also when it had another. `proofs` is history: who created an account or proved
its address. The in-memory `seedUser` does not check that addresses are unique,
PostgreSQL does, and `Identity` is about PostgreSQL.
A request resolves its workspace from live memberships and the hint cookie: the
membership the hint names, or the account's oldest (`RoomsOf`, `ResolvesTo`); signing
out clears the hint, a session that expires leaves it.

`Provisioning` has one action per request of the script. `Break` is a request that
fails before or after its effect. Statuses 409 and 422 both mean that the thing
exists, and 409 stands for them. A run that dies between the demo user and its
password leaves a user whom later runs skip (`stranded`).

### PageFetch, ModelCalls and MemoryStore

`PageFetch` is the loop of a tick over its sources, from await to await of the
fetcher. `timer` is the abort timer: it starts with a request and is cleared when
the headers arrive, so the lookup of a host and the body have none. Hosts are
names or addresses, addresses internal or external; a host name resolves to any
set of addresses. A body is what is true of it: which of the adapters accept it.
An RSS document has elements and is therefore HTML enough for a pricing source.

`ModelCalls` counts in units of 1/40 micro-dollar, of which every rate is a
multiple, so that rounding is exact. A run is gated by its projection, calls the
client once per section, and adds its cost to the meter with its other writes. An
answer that is not JSON of the right shape has been paid for and is not metered;
nor is an earlier call of the same run. `MaxExact` stands for 2^53 - 1.

In `MemoryStore` a table is a set of rows with the columns that the checks read.
`ConsistentIn` says of any copy of the tables that references and keys hold,
`UniqueIn` that ids are unique, and `SeedAssumption` that both hold of the rows the
store is seeded with, and that seeded and candidate rows have the columns the checks
read. Nothing is assumed of the candidates' values. A
transaction is open from `Begin`, which copies all maps, to `End` or `Rollback`,
which puts the copy back: calls that other callers made meanwhile are undone with
it, so `RollbackIsWhole` speaks of behaviours without such overlap. PostgreSQL
does not do this; whoever relies on the twin should not run two callers on it.

### SpanDiff and VersionHistory

A text is a sequence of lines with widths, an offset counts their characters and
one for each line break; a line without characters is blank. The two diffs walk the
same table, a function of a place in each text (`Places`), and differ in what they
keep. A source is captured again and again (`Recapture`); the texts of two
consecutive captures are also the pair the history page is given.

In `VersionHistory` a page is what the tab shows, computed from the rows when it is
opened; its links are followed after further versions were published. An address
that is typed may name any versions: when it names only the later one, the page
compares it with the second newest, which can be the same one or a later one. What
is promised is about links.

## 3. Runs

| run | question | bounds | states |
|---|---|---|---|
| `tick_overlap` | do two overlapping ticks that crash and lose fetches keep the firewall, and implement it? | 1 source, 2 prices, 2 classes, 3 tick starts, pause after 1 failure | 1.6 M |
| `tick_serial` | one tick at a time with every fault and a budget that runs out: absorbed or repeated changes, receipts | 1 source | 390 k |
| `tick_budget` | how far do overlapping ticks pass the cap? | 2 ticks, costs 1 and 2, cap 2, 4 starts | 590 k |
| `tick_reliable` | without faults: flaps, coverage, metering, cadence, nothing left undecided | 3 sources: normal, blocked, unparseable cadence; 3 prices; in-memory order | 60 k |
| `delivery_sweep` | duplicates, order of retries, refinement and liveness with one sweep | 2 deltas, 2 webhooks one of which is dead, 3 sends a sweep, 2 faults | 83 k |
| `delivery_overlap` | what the constraints guarantee when sweeps overlap | 2 deltas (one without claims), a webhook and a mail address, 2 sweeps, 1 send, 2 faults | 109 k |
| `synthesis` | do nights that overlap with each other and with the tick keep linear, verified chains, implement `SectionHistory`, meter what they publish and respect the cap? | 2 competitors, 3 deltas (one unverifiable, one without a claim), 2 nights, 2 starts, cap 3, costs 1 and 2, 1 call of the tick | 760 k |
| `services` | one behaviour of one of eight components: does a repository follow what is published; is a roll back whole; are requests earned; does a tick outlast its hosts; do diffs and links tell the truth; does the meter follow the calls; can the bootstrap be repeated? | delivery: 5 competitors (shared names, one that collides, one with an empty slug), 3 targets, 2 workspaces, 2 versions, 1 mishap; memory: 2 callers, 2 calls; identity: 2 browsers, 4 profiles, 1 grant; fetching: 4 pages, 5 addresses, 3 redirects; texts of 3 lines of 3 widths; 3 versions of 2 kinds; 3 runs of 2 jobs; 4 runs of the script | 180 k |
| `flap_alerts` | finding | 1 source, 2 prices, no fault | |
| `deletion_is_silent` | finding | 1 source, a page that may lose a line | |
| `overlap_reports_twice` | finding | 2 ticks, no fault | |
| `dead_channel_starves` | finding | 2 sends a sweep, 2 dead rows | |

Why the bounds suffice: a false alert needs a change, a verdict and another
tick that still holds the delta, which three starts of two ticks contain; a second
report needs two ticks on one baseline; a flap needs two prices, three a chain of
two changes. The budget run has room for one call under the cap and one beside
it. Sources do not influence each other except through the order of the loop and
the budget, so most runs have one; `tick_reliable` has three that take different
branches. In the delivery runs the batch is one larger than the dead rows in
`delivery_sweep` and exactly as large in `dead_channel_starves`. In `synthesis` two
starts give a chain of two versions, a fork and a conflict, and a
leadership hire affects three sections, enough for one run to pass the cap of three
with calls that cost two.
In `services` the components share no state, so one run holds them all and
`service` says which one moves. One mishap is enough for each
divergence between a repository and its record (a push without a record, a record
without the last file, a late request); five competitors give a collision of names
that appears and disappears when a second one joins; two callers are an overlap;
four profiles contain two subjects of one address and two addresses of one
subject; three redirects are the code's own limit; three lines are the shortest
text with a kept line between two changed ones; three versions leave a link that is
older than the newest pair. The caps and usages are placed on both sides of each
boundary: a run that fits its projection exactly, one that reports more, fractions of
a micro-dollar, and a sum too large to be exact.
The deadlock check is off in the tick runs because `MaxClock` ends a behaviour, in
`synthesis`, where `MaxNights` does, and in `services`, where the bounds on calls,
grants and runs end one and a tick of the fetcher is over when its sources are done;
it is on in the delivery runs, which go on for ever.

### Findings

* **`flap_alerts`.** All snapshots of one tick carry its timestamp, and
  `latestSnapshot` orders by that alone (`db/src/drizzle-store.ts:219`). A flap and
  the confirmation that refuted it tie; if the database returns the flap, the next tick
  reads the unchanged true price as a change, reproduces it and publishes a price
  change that starts from the dismissed flap. `DESIGN.md:175-176` says a flap is
  never alerted. With the in-memory order `tick_reliable` shows the property.
* **`deletion_is_silent`.** An edit that only removes lines makes
  `assertTriageAllowed` throw; the attempt leaves no coverage row, against
  `core/src/entities.ts:114`, and the same happens at every later tick.
* **`overlap_reports_twice`.** The tick has no concurrency limit and reads the
  latest snapshot outside the transaction: two ticks in flight both report one
  edit, against `DESIGN.md:166-167`.
* **`dead_channel_starves`.** Unsent rows are retried oldest first, without a limit
  on attempts, at most `maxSends` at a time: that many rows of a destination that
  refuses everything starve all others, against `core/src/store.ts:331-333`.

Two consequences are no findings of a run. The comment at
`pipeline/src/synthesis.ts:203-204` bounds the overshoot by the section in flight;
that holds for a night alone, and `OvershootIsOneRunPerNight` is what holds when the
tick or a second night spends after the gate read the total. And the refuting
observation of a confirmation becomes the next baseline, so when a price changes
twice in the window the second price is dismissed and never reported again.

## 4. Fairness

The tick modules state none: what they say are invariants and action
properties. `TicksDrainTheFirewall` is an action property about the step that ends
a tick, not a promise that ticks end.

`Synthesis` states none either: its properties are safety.

`AlertDelivery` assumes weak fairness of `Sweep(w)`: the cron fires every five
minutes for ever, and a sweep that is not killed goes on. Faults (crashes, failed
writes, transient refusals, timeouts) are finite in number (`MaxFaults`), so that
a destination that is not dead eventually accepts; a dead destination refuses for
ever. Neither assumption says that a given alert is tried: that is the property.

`OkfDelivery` assumes weak fairness of `SweepStep`: the cron starts a sweep every day
and a sweep that is not killed goes on, answers of the host included. Mishaps are
finite in number. Nothing is assumed of the host carrying out late requests, of
merges, or of the people who write. `PageFetch` assumes weak fairness of
`FetcherStep`, which is the code's own part: taking the next source, and the timer.
Nothing is assumed of name servers and hosts, and so `EverySourceIsCovered` names the
two waits without a timer as the only ones that may last for ever. In `Services`
`FairStep` is these two, for the service that runs. The other services are safety
only.

## 5. Proofs

tlapm checks every proof. Each theorem holds for every value of the constants that
its module's assumptions admit (any sources, contents, classes, finite sets of
ticks, sweeps and nights, budget, period and faults), and TLC evaluates those
assumptions on every run. Where a theorem needs more, its statement says so. Such
hypotheses are the conditions under which the code gives the guarantee, and each is
the setting of the run that checks the same property: `OneTick` and `OneSweep` (no
two at once), an absent fault (`"crash" \notin Faults`), `PagesOnlyEdited` (no page
only loses lines, see the finding), the insertion order of snapshots (see the other
one), a cost for every call.

### Any number of ticks

* `ScheduledTick_proofs!TypeCorrect`: `Spec => []TypeOK`.
* `Evidence`: `Spec => []EvidenceInv`, the inductive invariant of the firewall.
  `PricingAlertsAreReproduced` is not inductive: publishing acts on ids a tick
  listed earlier, and confirming writes the id of a snapshot stored in the same
  step. `DeltaEvidence` adds what a row says in every state (a pending or
  dismissed delta names no confirmation, only a price change is ever confirmed,
  the snapshot that introduced it exists and is of the same source) and
  `HeldIds` what a held id still means (the delta exists and is a price
  change). A step keeps it because snapshots and deltas are only appended and a
  transition goes through the guard; the proof has one step per action.
* `NoFalseAlert`: `Spec => []PricingAlertsAreReproduced`, and `Verdicts`:
  `Spec => VerdictsAreFinal`, an action property, both from `Evidence`.
* `ScheduledTickHistory_proofs!Reserved` and `SoftCap`: the overshoot is at most
  `MaxCost` for each tick. A tick that has passed the gate will spend later;
  `SpendIsReserved` charges such ticks in advance: passing the gate pays for one of
  the |Ticks| reservations, committing turns it into spend.
* `ScheduledTick_proofs!Refinement`: `Spec => ImplementsFirewall`. Initial
  states map to initial states, and each step adds an observation, a finding or a
  verdict the abstract machine allows, or stutters; `Reproduce` needs `HeldIds` of
  the delta under confirmation.
* `Confirmed`: as many confirmations as decided price
  changes. Both grow in the one step that wins the race for a delta, which `Evidence`
  says is a price change; a loser's transaction rolls back.
* `Receipt`: `CoverageMatchesHistory`. The clause on rows is not inductive alone,
  since a fetch counts as an attempt before it has a row; `ReceiptInv` counts the
  ticks in between (`Uncovered`).
* `Paused`: `PausedSourcesStayPaused`. `PauseInv` reserves one failure for each tick
  that listed the source below the threshold and may still count one (`MayFail`).
* `Metered`: `SpendIsMetered` when neither calls nor ticks die, since the bill and
  the meter then move together.

### One tick at a time

`LoopInv` is what a tick alone may rely on: its reads are still what the store holds
(the baseline is the latest snapshot, the queues are pending or confirmed), the
snapshots it has yet to add are newer than all others. `ReportInv` says of every
delta that it leads from a snapshot to a later one of its source.

* `OneReport` and `NothingAbsorbed`: no two deltas start from one snapshot, and each
  observation but the first is reported. Both are parts of `ReportInv`: a delta is
  stored with the snapshot that introduces it, from the one that was latest.
* `AttemptsCovered`: one row per attempt. `OncePerFire`: one observation per fire of
  the cadence; its invariant relates each source's newest observation to the time
  its health row says it was fetched, which is what the cadence looks at.
* `Drained`: `TicksDrainTheFirewall`, an action property. `DrainInv` says that no
  pending delta is missing from the queue of the confirmation pass and no confirmed
  one from that of the publish edge.
* `NoFlapAlert`: the latest snapshot is never the flap of a dismissed delta, since
  the refuting confirmation was inserted after it.

### Alert delivery

`RowsInv` (`RowsStayConsistent`) is the invariant under all of it: the rows in the
order are those with a status, each listed once, and a sweep holds only stored rows.

* `TypeCorrect`; `DeliveredStays`: `DeliveredIsFinal`, for any overlapping sweeps.
* `CopiesStayAccounted`: `CopiesInv`. The bound on copies is not inductive, since a
  sweep that listed a row before it was delivered sends it again. Until delivery the
  copies are accounted for one by one, and from then on each sweep that still holds
  the row has its copy reserved. `OverlapBound` (`OverlapIsBounded`) follows for any
  sweeps, and `Duplicates` (`DuplicatesHaveAReason`) for a sweep alone.
* `FailedAreRetried`: `FailedAreRetriedNext` for a sweep alone. `RetryInv` adds that
  what is enqueued goes behind the failed rows and that a sweep works on rows it would
  list again.
* `OutboxSafety`: the initial states and steps of a sweep alone are those of
  `AlertOutbox`: the safety part of `ImplementsOutbox`.

### Synthesis

* `Reserved` and `SoftCap`: the month passes the cap by at most one call of the tick
  and one run of each night. `RunsAreReserved` reserves a full run for each night in
  flight; the gate pays for one, the publishing transaction turns it into spend, and
  everything else (`SpendStep` lists the cases) at most gives one back.
* `Chained`: `ChainInv`. That chains are linear needs that the versions of a section
  are exactly 1 to their number (`Numbered`), that the heads a night has read exist,
  and that its plans are one row per section and cite what may be cited. Publishing
  appends a set of rows in some order, and the unique key is what makes each planned
  version the next one. `TypeCorrect` and `LinearChains` (`ChainsAreLinear`) follow.
* `Metered`: `PublishedIsMetered` when no call is free. `BilledInv` says that a
  night's bill covers its plans.
* `Refinement`: `Spec => ImplementsHistory`; a publishing step maps to one step that
  grows the histories of the sections it writes, all others stutter.

The last four assume that there is a competitor: the record of an idle night names an
arbitrary one.

### OKF delivery

* `NothingLeftBehind`: `NothingIsLeftBehind`. `SweepInv` knows where a sweep is in the
  list of targets (`PushShape`), that the files of a request that may still be carried
  out are lost already (`LateAreLost`), that a push deletes what the manifest it
  replaces has and its bundle has not (`DeletionsPlanned`), and that the tip a push is
  built on exists (`TipStands`). For a target alone in its workspace the branch is then
  listed or lost at every step (`BranchIsListed`).
* `DeliveryMirrors`: `OkfSpec => ImplementsMirror`. What matters of a repository is the
  versions in its log. `MirrorInv` says of every log it shows, or may come to show by a
  request carried out late, that it names published versions without gaps and ends each
  section in a verified one (`LogsAreSound`), that a late request shows no less than the
  branch does (`LateShowMore`: the ref is never forced), that what a sweep has read is a
  prefix of what is stored and goes as far as every such log (`ReadsAreFresh`), and that
  the push under way inherits both (`PushesAreSound`). Reads are torn, section by
  section, and this suffices: the store only grows. From a sound log follows what
  `BundleMirror` lets a repository show.

### Diffs and version pages

The table of the diffs is a recursive function, and what it computes for every pair of
texts is proved here. Induction is by a least counterexample: `LeastNumber` takes the
least element of a set of numbers from the well-foundedness of `<` on `Nat`, with a set
in place of a predicate, and `PlaceInduction` and `RecursionExists` carry it over to the
places of two texts. What is defined by such a recursion is shown to exist before
anything else is said of it.

* `ClaimsQuoteTheChange`: `ClaimsPinTheChange` for all lines and texts of any length. The
  table counts a longest common part and the walk keeps one (`KeepIsLongest`), runs of
  other lines are apart by a kept line, a span covers the lines of its run by the
  arithmetic of offsets, and every span that is not blank passes the gate. Lines are told
  apart by their offsets unless they are empty, and an empty line is blank.
* `HistoryShowsItsTexts`: `HistoryShowsBoth`, along the walk from its end: a diff from a
  place on shows both rests, and an entry before it shows the next line of one or both.
* `NeighboursCompared`: `LinksCompareNeighbours`. `PagesInv` says that the versions of a
  kind have no gap, that a page names stored ones, and that each of its links leads to a
  version and the one before it; publishing adds rows and takes none away.
* `SpansTyped`: `SpanTypeOK`.

### The other services

* `SetupCompletes`: `RerunsCompleteTheSetup`. `SetupInv` says, step by step, what the
  script has left behind itself, and that a user without a password was stranded.
* `SpendFollows`: `SpendFollowsTheCalls`, for a month that starts within its cap. Each
  rounding is off by at most half a unit; `SpendInv` keeps, for the run under way, its
  cost within half a unit for each call made and the sum below what the gate admitted.
  That a projection bounds a call of any job needs the arithmetic of the rates only.
* `RollbackWhole`: `RollbackIsWhole`, for every consistent seed. `StoreInv` adds that
  the copies held by open transactions are whole, and `SettledInv` that outside
  overlaps the one copy is what was settled.
* `RequestsEarned`: `RequestsAreEarned`. A sign-in links an account it looked up two
  statements ago; `LinksAreVerified` says that it still has the verified address.

`Services` runs them side by side. They share no state, so a step of one leaves the
others where they are (`EachServiceSteps`) and the invariants above hold together.

* `DiffsAreTruthful`: `DiffsTellTheTruth`, the three properties of the diffs and pages.
* `ServicesTyped`: `ServicesTypeOK`. `ServicesInv` is the conjunction of the services'
  invariants with what typing adds to them: where the files of every bundle are and that
  each late request was a mishap (`OkfTypesInv`), that rows keep ids of their own, in
  the copies too (`KeysInv`), that what is granted and proved names an account there is
  and a sign-in has found one exactly when it is about to link (`AccountsInv`), that
  only a request has a timer (`FetchInv`), and, for a month that starts beyond its cap,
  that it admits no run (`SpentOut`).

### Only model-checked

Every invariant, action property and refinement of the runs is stated by a theorem, but
for what fairness gives. Only TLC checks liveness, which the prover has no rule for:

* `EveryDestinationIsServed`, and the liveness part of `ImplementsOutbox` (`OutboxSafety`
  is its initial states and steps).
* `TargetsCatchUp` and `TickIsCovered`.

Also, a theorem speaks of a component's own specification (`OkfSpec`, `MemorySpec` and so
on) unless it names `ServicesSpec`; the run checks the property in `MCServices`, whose
initial states are those of `ServicesSpec` with idle services fixed to one.

## 6. Plan

Done: the tick with its firewall, budget and refinement; alert delivery; synthesis
with its history; OKF delivery with its projection and mirror; identity and its
bootstrap; the fetcher; model calls; the in-memory store; the diffs and the version
pages. Proved: every invariant the runs check, and the four refinements (that of the
outbox without its liveness).

What would extend it:

1. A composed module of tick and alert delivery: from an observed price change to a
   message, end to end, with the two safety theorems composed.
2. The contract of the store (`pipeline/src/store-contract.ts`) as an abstract store that
   both `FlankStore` and `MemoryStore` implement.

## 7. Not modelled

What a page's text becomes (`pipeline/src/adapters`): the tick takes any content or a
failure, and only the refusals of the adapters are in `PageFetch`. The address ranges
behind `Internal`. Prompts, and the wording of answers. Rendering of alerts and
Markdown, frontmatter, and lint findings that do not block. The timeline, the alert
log, the coverage receipt and the bundle download: they map rows to fields and keep
no state. Row mapping. Seeds, fixtures, evaluation scripts and the store's contract
tests. Reviews and app stores have no adapter in the code.
Tenancy checks are left out of the tick and the sweep: both act on one
workspace at a time and take its id from the row they process; they are in
`MemoryStore`. A month boundary within a behaviour is left out: the month's sum is
the sum of all coverage rows.
