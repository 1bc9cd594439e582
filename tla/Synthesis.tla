------------------------------ MODULE Synthesis ------------------------------
(***************************************************************************)
(* The nightly synthesis: runNightlySynthesis over every competitor, each  *)
(* with runSynthesis.  From the confirmed material deltas of a competitor  *)
(* it asks the model for a new version of each affected section, gates the *)
(* citations, and publishes the survivors in one transaction together with *)
(* the coverage row that meters the calls.                                 *)
(*                                                                         *)
(* The model is called outside the transaction and the Inngest function    *)
(* states no concurrency limit, so a retry may run beside the night it     *)
(* retries, and the tick spends from the same budget.  A claim is named    *)
(* after its delta.  One workspace, one month.                             *)
(***************************************************************************)
EXTENDS Naturals, Sequences, FiniteSets, SequencesExt

CONSTANTS
  Competitors,
  Deltas,      \* the material deltas the pipeline may confirm
  Owner,       \* Owner[d]: the competitor whose source changed
  Class,       \* Class[d]: its triage class
  Uncited,     \* deltas without a claim
  Corrupt,     \* claims whose quote is not in their snapshot
  Nights,      \* nights that may overlap
  Costs,       \* what one call may cost
  MaxCost,     \* an upper bound of those costs
  Estimate,    \* what one section is projected to cost
  Cap,         \* the tier's monthly budget
  Faults,      \* what may go wrong: "throw", "crash"
  MaxNights,   \* bound: nights started in a behaviour
  MaxTicks     \* bound: calls the tick pays for in a behaviour

ASSUME SynthesisAssumption ==
  /\ Owner \in [Deltas -> Competitors]
  /\ Uncited \subseteq Deltas
  /\ Corrupt \subseteq Deltas
  /\ IsFiniteSet(Nights)
  /\ MaxCost \in Nat \ {0}
  /\ Costs \subseteq 0 .. MaxCost
  /\ Estimate \in Nat
  /\ Cap \in Nat \ {0}
  /\ MaxNights \in Nat
  /\ MaxTicks \in Nat

\* AFFECTED_SECTIONS.
DossierAffected ==
  [pricing_change  |-> {"pricing", "overview"},
   feature_launch  |-> {"product", "overview"},
   repositioning   |-> {"gtm", "overview"},
   leadership_hire |-> {"team", "overview"},
   hiring_signal   |-> {"team"},
   noise           |-> {}]

BattlecardAffected ==
  [pricing_change  |-> {"pricing_counter", "why_we_win"},
   feature_launch  |-> {"why_we_win", "landmines"},
   repositioning   |-> {"why_we_win", "objections"},
   leadership_hire |-> {"landmines"},
   hiring_signal   |-> {},
   noise           |-> {}]

Classes == DOMAIN DossierAffected

ASSUME ClassAssumption == Class \in [Deltas -> Classes \ {"noise"}]

Dossier == UNION {DossierAffected[class] : class \in Classes}

Kinds == Dossier \cup UNION {BattlecardAffected[class] : class \in Classes}

AffectedBy(d) == DossierAffected[Class[d]] \cup BattlecardAffected[Class[d]]

VARIABLES
  material,   \* external: the deltas confirmed or published so far
  sections,   \* the section rows; an id is a position
  spent,      \* the month's metered cost
  nights,     \* the local state of each night
  world       \* how many nights started and calls the tick paid for

vars == <<material, sections, spent, nights, world>>

None == 0

Section == [competitor: Competitors, kind: Kinds, version: Nat,
            supersedes: Nat, claims: SUBSET Deltas]

Plan == [kind: Kinds, claims: SUBSET Deltas, passed: BOOLEAN]

NightState ==
  [phase: {"idle", "competitors", "collected", "writing", "publishing"},
   todo: SUBSET Competitors,     \* competitors the loop has not reached
   competitor: Competitors,
   deltas: SUBSET Deltas,        \* the material deltas it collected
   queue: SUBSET Kinds,          \* affected sections not yet synthesized
   spentBefore: Nat,             \* the month's cost as the gate read it
   cost: Nat,                    \* of the calls of this run
   planned: SUBSET Plan,
   heads: [Kinds -> Nat]]        \* the latest rows the transaction read

Idle == [phase |-> "idle", todo |-> {},
         competitor |-> CHOOSE c \in Competitors : TRUE,
         deltas |-> {}, queue |-> {}, spentBefore |-> 0, cost |-> 0,
         planned |-> {}, heads |-> [k \in Kinds |-> None]]

Init ==
  /\ material = {}
  /\ sections = <<>>
  /\ spent = 0
  /\ nights = [n \in Nights |-> Idle]
  /\ world = [started |-> 0, ticks |-> 0]

At(n, phase) == nights[n].phase = phase

\* Back to the loop over the competitors.
NextCompetitor(n) ==
  nights' = [nights EXCEPT ![n] =
               [Idle EXCEPT !.phase = "competitors", !.todo = nights[n].todo]]

-----------------------------------------------------------------------------
(* Around the night.                                                       *)

\* External: the tick confirms or publishes a delta.
ConfirmDelta(d) ==
  /\ d \notin material
  /\ material' = material \cup {d}
  /\ UNCHANGED <<sections, spent, nights, world>>

WithinBudget(already, projected) == already + projected <= Cap

\* External: the tick pays for a triage call out of the same budget.
TickSpends(cost) ==
  /\ world.ticks < MaxTicks
  /\ WithinBudget(spent, Estimate)
  /\ spent' = spent + cost
  /\ world' = [world EXCEPT !.ticks = @ + 1]
  /\ UNCHANGED <<material, sections, nights>>

-----------------------------------------------------------------------------
(* One night.                                                              *)

StartNight(n) ==
  /\ At(n, "idle")
  /\ world.started < MaxNights
  /\ world' = [world EXCEPT !.started = @ + 1]
  /\ nights' = [nights EXCEPT ![n] =
                  [Idle EXCEPT !.phase = "competitors", !.todo = Competitors]]
  /\ UNCHANGED <<material, sections, spent>>

MaterialOf(c) == {d \in material : Owner[d] = c}

SkipCompetitor(n, c) ==
  /\ At(n, "competitors") /\ c \in nights[n].todo
  /\ MaterialOf(c) = {}
  /\ nights' = [nights EXCEPT ![n].todo = @ \ {c}]
  /\ UNCHANGED <<material, sections, spent, world>>

Collect(n, c) ==
  /\ At(n, "competitors") /\ c \in nights[n].todo
  /\ MaterialOf(c) # {}
  /\ nights' = [nights EXCEPT ![n] =
                  [Idle EXCEPT !.phase = "collected", !.todo = nights[n].todo \ {c},
                               !.competitor = c, !.deltas = MaterialOf(c)]]
  /\ UNCHANGED <<material, sections, spent, world>>

\* unionAffectedKinds.
Affected(deltas) == UNION {AffectedBy(d) : d \in deltas}

\* The whole affected set is projected before any call.
Projected(n) == Estimate * Cardinality(Affected(nights[n].deltas))

\* Over budget: a coverage row of cost 0 and on to the next competitor.
DenySynthesis(n) ==
  /\ At(n, "collected")
  /\ ~WithinBudget(spent, Projected(n))
  /\ NextCompetitor(n)
  /\ UNCHANGED <<material, sections, spent, world>>

\* Mutant: the affected sections are computed from a second read of the deltas.
AllowFreshSynthesis(n) ==
  /\ At(n, "collected")
  /\ WithinBudget(spent, Projected(n))
  /\ nights' = [nights EXCEPT ![n] = [@ EXCEPT !.phase = "writing",
                     !.queue = Affected(MaterialOf(nights[n].competitor)),
                     !.spentBefore = spent]]
  /\ UNCHANGED <<material, sections, spent, world>>

AllowSynthesis(n) ==
  /\ At(n, "collected")
  /\ WithinBudget(spent, Projected(n))
  /\ nights' = [nights EXCEPT ![n] = [@ EXCEPT !.phase = "writing",
                                               !.queue = Affected(nights[n].deltas),
                                               !.spentBefore = spent]]
  /\ UNCHANGED <<material, sections, spent, world>>

\* Mutant: only what the gate read counts.
UnderCapAtStart(n) == nights[n].spentBefore < Cap

\* The soft cap, tested before each section.
UnderCap(n) == nights[n].spentBefore + nights[n].cost < Cap

\* Dossier sections are written before battlecards; the order among them is that
\* of a query without ORDER BY.
IsNextKind(n, k) ==
  /\ At(n, "writing")
  /\ k \in nights[n].queue
  /\ k \notin Dossier => nights[n].queue \cap Dossier = {}
  /\ UnderCap(n)

Candidates(n, k) == {d \in nights[n].deltas : k \in AffectedBy(d) /\ d \notin Uncited}

\* Nothing to cite: the model is not called.
SkipKind(n, k) ==
  /\ IsNextKind(n, k)
  /\ Candidates(n, k) = {}
  /\ nights' = [nights EXCEPT ![n].queue = @ \ {k}]
  /\ UNCHANGED <<material, sections, spent, world>>

\* Mutant: a section may go without citations.
NoFailedClaim(claims) == claims \cap Corrupt = {}

\* gateSectionPublish.
Publishable(claims) == claims # {} /\ claims \cap Corrupt = {}

\* The model answers and cites; ids it was not offered are dropped.
SynthesizeKind(n, k, cost) ==
  /\ IsNextKind(n, k)
  /\ Candidates(n, k) # {}
  /\ \E claims \in SUBSET Candidates(n, k) :
       nights' = [nights EXCEPT ![n] =
         [@ EXCEPT !.queue = nights[n].queue \ {k},
                   !.cost = nights[n].cost + cost,
                   !.planned = nights[n].planned \cup
                     {[kind |-> k, claims |-> claims, passed |-> Publishable(claims)]}]]
  /\ UNCHANGED <<material, sections, spent, world>>

\* A read of the store, an answer that does not parse or the commit throws: the
\* competitor is given up, and calls already billed are not metered.
RunFails(n) ==
  /\ "throw" \in Faults
  /\ nights[n].phase \in {"collected", "writing", "publishing"}
  /\ NextCompetitor(n)
  /\ UNCHANGED <<material, sections, spent, world>>

-----------------------------------------------------------------------------
(* The publishing transaction.                                             *)

RowsOf(c, k) ==
  {i \in DOMAIN sections : sections[i].competitor = c /\ sections[i].kind = k}

\* ORDER BY version DESC LIMIT 1.
LatestSections(c, k) ==
  {i \in RowsOf(c, k) : \A j \in RowsOf(c, k) : sections[j].version <= sections[i].version}

Latest(c, k) == IF RowsOf(c, k) = {} THEN None
                                     ELSE CHOOSE i \in LatestSections(c, k) : TRUE

Passed(n) == {p \in nights[n].planned : p.passed}

\* The transaction reads the latest row of each section it will supersede.
ReadHeads(n) ==
  /\ At(n, "writing")
  /\ nights[n].queue = {} \/ ~UnderCap(n)
  /\ nights' = [nights EXCEPT ![n] =
                  [@ EXCEPT !.phase = "publishing", !.queue = {},
                            !.heads = [k \in Kinds |-> Latest(nights[n].competitor, k)]]]
  /\ UNCHANGED <<material, sections, spent, world>>

VersionAfter(id) == IF id = None THEN 1 ELSE sections[id].version + 1

RowFor(n, p) ==
  [competitor |-> nights[n].competitor, kind |-> p.kind,
   version |-> VersionAfter(nights[n].heads[p.kind]),
   supersedes |-> nights[n].heads[p.kind], claims |-> p.claims]

\* Mutant: no unique constraint.
VersionsAlwaysFree(n) == TRUE

\* The unique constraint on (competitor, kind, version).
VersionsFree(n) ==
  \A p \in Passed(n), i \in DOMAIN sections :
    ~ /\ sections[i].competitor = nights[n].competitor
      /\ sections[i].kind = p.kind
      /\ sections[i].version = VersionAfter(nights[n].heads[p.kind])

\* Nothing reads the order of the rows one night inserts.
Inserted(rows) == sections \o SetToSeq(rows)

\* Mutant: the coverage row is written outside the transaction, and is lost.
PublishUnmetered(n) ==
  /\ At(n, "publishing")
  /\ VersionsFree(n)
  /\ sections' = Inserted({RowFor(n, p) : p \in Passed(n)})
  /\ spent' \in {spent, spent + nights[n].cost}
  /\ NextCompetitor(n)
  /\ UNCHANGED <<material, world>>

\* The versions that passed the gate and the coverage row commit together.
PublishSections(n) ==
  /\ At(n, "publishing")
  /\ VersionsFree(n)
  /\ sections' = Inserted({RowFor(n, p) : p \in Passed(n)})
  /\ spent' = spent + nights[n].cost
  /\ NextCompetitor(n)
  /\ UNCHANGED <<material, world>>

\* Another night published first: the insert throws and the transaction, the
\* coverage row included, rolls back.
PublishConflicts(n) ==
  /\ At(n, "publishing")
  /\ ~VersionsFree(n)
  /\ NextCompetitor(n)
  /\ UNCHANGED <<material, sections, spent, world>>

FinishNight(n) ==
  /\ At(n, "competitors") /\ nights[n].todo = {}
  /\ nights' = [nights EXCEPT ![n] = Idle]
  /\ UNCHANGED <<material, sections, spent, world>>

\* The process dies at any await.
Crash(n) ==
  /\ "crash" \in Faults
  /\ ~At(n, "idle")
  /\ nights' = [nights EXCEPT ![n] = Idle]
  /\ UNCHANGED <<material, sections, spent, world>>

-----------------------------------------------------------------------------
RunSynthesis(n) ==
  \/ \E c \in Competitors : SkipCompetitor(n, c) \/ Collect(n, c)
  \/ DenySynthesis(n) \/ AllowSynthesis(n)
  \/ \E k \in Kinds : \/ SkipKind(n, k)
                      \/ \E cost \in Costs : SynthesizeKind(n, k, cost)
  \/ RunFails(n)
  \/ ReadHeads(n)
  \/ PublishSections(n) \/ PublishConflicts(n)

Next ==
  \/ \E d \in Deltas : ConfirmDelta(d)
  \/ \E cost \in Costs : TickSpends(cost)
  \/ \E n \in Nights : \/ StartNight(n)
                       \/ RunSynthesis(n)
                       \/ FinishNight(n)
                       \/ Crash(n)

Spec == Init /\ [][Next]_vars

-----------------------------------------------------------------------------
World == [started: Nat, ticks: Nat]

\* Every variable has its type, and a night writes only sections its deltas affect,
\* which the code asserts before it publishes.
TypeOK ==
  /\ material \subseteq Deltas
  /\ sections \in Seq(Section)
  /\ spent \in Nat
  /\ nights \in [Nights -> NightState]
  /\ \A n \in Nights :
       nights[n].queue \cup {p.kind : p \in nights[n].planned}
         \subseteq Affected(nights[n].deltas)
  /\ world \in World

\* The versions of a section form one chain: no two rows of a section share a
\* version, and each row supersedes the row of the version before its own.
\* Overlapping nights read the same latest row outside any lock, so only the
\* constraint keeps the chain from forking (Invariant 5).
ChainsAreLinear ==
  \A i \in DOMAIN sections :
    LET row == sections[i]
        before == {j \in RowsOf(row.competitor, row.kind) :
                     sections[j].version = row.version - 1}
    IN  /\ \A j \in RowsOf(row.competitor, row.kind) :
             sections[j].version = row.version => j = i
        /\ IF row.version = 1 THEN row.supersedes = None
                              ELSE before = {row.supersedes}

\* The claims a section of a competitor may cite: those of its own deltas, of a
\* class that affects the section, whose quote verifies.
Citable(slot) == {d \in Deltas \ (Uncited \cup Corrupt) :
                    Owner[d] = slot[1] /\ slot[2] \in AffectedBy(d)}

\* The versions of a section, oldest first.
HistoryOf(slot) ==
  LET rows == RowsOf(slot[1], slot[2])
  IN  [v \in 1 .. Cardinality(rows) |->
         sections[CHOOSE i \in rows : sections[i].version = v].claims]

History == INSTANCE SectionHistory WITH
  Slots <- Competitors \X Kinds,
  history <- [slot \in Competitors \X Kinds |-> HistoryOf(slot)]

\* Nights that overlap, lose answers and die at any await add to the history of
\* each section only versions that cite verified evidence about that section of
\* that competitor, and rewrite none (Invariants 1 and 5).
ImplementsHistory == History!Spec

\* The nights whose calls the month does not count yet.
InFlight == {n \in Nights : nights[n].phase \in {"writing", "publishing"}}

\* What one run may cost: it starts its last call below the cap.
RunLimit == Cap - 1 + MaxCost

\* The soft cap (Invariant 6) with writers that do not see each other's calls: the
\* gate read the month once, so each night may add one run, and the tick one call,
\* to a month that was within the cap.
OvershootIsOneRunPerNight ==
  spent <= Cap + MaxCost + Cardinality(Nights) * RunLimit

\* Its inductive strengthening: the runs still to be metered are reserved.
RunsAreReserved ==
  /\ spent + Cardinality(InFlight) * RunLimit
       <= Cap + MaxCost + Cardinality(Nights) * RunLimit
  /\ \A n \in InFlight : nights[n].cost <= RunLimit

\* A version is never on the page without the calls that wrote it on the bill:
\* both commit together, whatever is lost around them.
PublishedIsMetered == Len(sections) <= spent
=============================================================================
