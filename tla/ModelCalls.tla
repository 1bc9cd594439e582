----------------------------- MODULE ModelCalls -----------------------------
(***************************************************************************)
(* What one workspace spends on models: the price of a call from the usage *)
(* its client reports (meterCost), the projection that the budget gate     *)
(* compares with the cap before a run, and the runs themselves -- one      *)
(* triage call, or one synthesis call for each affected section.  Money is *)
(* counted in UNITS of 1/40 micro-dollar, the largest unit that every rate *)
(* is a whole number of; the meter holds whole micro-dollars.              *)
(***************************************************************************)
EXTENDS Integers, FiniteSets

CONSTANTS
  Jobs,      \* runs: [kind, chars, sections]; a triage has one section
  Usages,    \* what the SDK can report: [input, output, cacheRead, cacheWrite]
  Cap,       \* the month's budget of the tier, in micro-dollars
  Spent,     \* what the meter may show when the model starts
  MaxExact,  \* the largest sum of legs that is exact: 2^53 - 1 in the code
  MaxRuns    \* bound: runs of the month

Units == 40

ASSUME CallAssumption ==
  /\ \A job \in Jobs : /\ job.kind \in {"triage", "synthesis"}
                       /\ job.chars \in Nat /\ job.sections \in Nat \ {0}
                       /\ job.kind = "triage" => job.sections = 1
  /\ Usages \subseteq [input : Nat, output : Nat, cacheRead : Nat, cacheWrite : Nat]
  /\ Cap \in Nat /\ Spent \subseteq Nat /\ MaxExact \in Nat /\ MaxRuns \in Nat

VARIABLES
  mode,   \* "live" with an API key, "mock" without
  meter,  \* month-to-date cost of the coverage runs, micro-dollars
  run,    \* the run under way: [job, left, cost, exact, fits], or NoRun
  last,   \* ghost: the last run, and the price of its last call
  exact,  \* ghost: units that the metered calls really cost
  metered, \* ghost: how many calls are in the meter
  runs    \* runs so far, for the bound

callVars == <<mode, meter, run, last, exact, metered, runs>>

NoRun == [left |-> 0]

(***************************************************************************)
(* Prices (core/cogs.ts)                                                   *)
(***************************************************************************)
\* Haiku for triage; Sonnet, for synthesis, costs three times as much.
Rate(kind) ==
  LET times == IF kind = "synthesis" THEN 3 ELSE 1
  IN [input |-> 40 * times, output |-> 200 * times, cacheRead |-> 4 * times, cacheWrite |-> 50 * times]

Legs(kind, usage) ==
  LET rate == Rate(kind)
  IN usage.input * rate.input + usage.output * rate.output
       + usage.cacheRead * rate.cacheRead + usage.cacheWrite * rate.cacheWrite

\* Mutant: the fraction of a micro-dollar is dropped.
RoundDown(units) == units \div Units

RoundToMicros(units) == (units + Units \div 2) \div Units

MeterCost(kind, usage) == RoundToMicros(Legs(kind, usage))

EstimateTokens(chars) == (chars + 3) \div 4

PlainUsage(input, output) == [input |-> input, output |-> output, cacheRead |-> 0, cacheWrite |-> 0]

\* What a projection allows one call: the spans and 200 tokens of prompt in,
\* 256 out; for a section 2500 in and 1200 out.
Allowance(job) ==
  IF job.kind = "triage" THEN PlainUsage(EstimateTokens(job.chars) + 200, 256)
                         ELSE PlainUsage(2500, 1200)

Projection(job) ==
  LET one == Allowance(job)
  IN MeterCost(job.kind, PlainUsage(one.input * job.sections, one.output * job.sections))

BudgetAllows(job) == meter + Projection(job) <= Cap

\* max_tokens of a request: the most a live model can report as output.
MaxTokens(kind) == IF kind = "triage" THEN 256 ELSE 1500

Fits(job, usage) ==
  /\ usage.input + usage.cacheRead <= Allowance(job).input
  /\ usage.output <= Allowance(job).output
  /\ usage.cacheWrite = 0

(***************************************************************************)
(* Steps                                                                   *)
(***************************************************************************)
\* The gate projects the whole run before any spend; a run it refuses writes
\* a coverage row without cost.
StartRun(job) ==
  /\ run = NoRun /\ runs < MaxRuns
  /\ BudgetAllows(job)
  /\ run' = [job |-> job, left |-> job.sections, cost |-> 0, exact |-> 0, fits |-> TRUE]
  /\ runs' = runs + 1
  /\ UNCHANGED <<mode, meter, last, exact, metered>>

\* Synthesis looks at the running spend before each section; triage is one call.
Calling ==
  /\ run # NoRun /\ run.left > 0
  /\ run.job.kind = "synthesis" => meter + run.cost < Cap

Accept(usage) ==
  /\ run' = [run EXCEPT !.left = @ - 1,
                        !.cost = @ + MeterCost(run.job.kind, usage),
                        !.exact = @ + Legs(run.job.kind, usage),
                        !.fits = @ /\ Fits(run.job, usage)]
  /\ last' = [price |-> MeterCost(run.job.kind, usage), fits |-> run.fits /\ Fits(run.job, usage)]
  /\ UNCHANGED <<mode, meter, exact, metered, runs>>

\* The call throws and takes the run with it: nothing of it is metered.
FailRun == run' = NoRun /\ UNCHANGED <<mode, meter, last, exact, metered, runs>>

\* The deterministic clients: every answer is valid, with a made-up usage; the
\* mock section repeats the claims it is given.
MockAnswers ==
  /\ Calling /\ mode = "mock"
  /\ LET tokens == EstimateTokens(run.job.chars)
     IN Accept(PlainUsage(tokens, IF run.job.kind = "triage" THEN 40 ELSE tokens))

\* The model answers: the answer has a text that is JSON of the right shape
\* and the usage is sound and not too large to be exact, or the client throws.
ModelAnswers ==
  /\ Calling /\ mode = "live"
  /\ \E usage \in Usages :
       /\ usage.output <= MaxTokens(run.job.kind)
       /\ \E valid \in BOOLEAN :
            IF valid /\ Legs(run.job.kind, usage) <= MaxExact THEN Accept(usage) ELSE FailRun

\* No answer: a failed request, a live call under test, a cassette that has no
\* such recording.
TransportFails == Calling /\ mode = "live" /\ FailRun

\* The cost of the run goes into the coverage row with the rest of its writes.
RecordCost ==
  /\ run # NoRun /\ ~Calling
  /\ meter' = meter + run.cost
  /\ exact' = exact + run.exact
  /\ metered' = metered + (run.job.sections - run.left)
  /\ run' = NoRun
  /\ UNCHANGED <<mode, last, runs>>

CallInit ==
  /\ mode \in {"live", "mock"}
  /\ meter \in Spent
  /\ run = NoRun
  /\ last = [price |-> 0, fits |-> TRUE]
  /\ exact = Units * meter
  /\ metered = 0
  /\ runs = 0

CallNext ==
  (\E job \in Jobs : StartRun(job)) \/ MockAnswers \/ ModelAnswers \/ TransportFails \/ RecordCost

CallSpec == CallInit /\ [][CallNext]_callVars

(***************************************************************************)
(* Properties                                                              *)
(***************************************************************************)
CallTypeOK ==
  /\ mode \in {"live", "mock"}
  /\ meter \in Nat /\ exact \in Nat /\ metered \in Nat /\ runs \in 0 .. MaxRuns
  /\ run # NoRun => run.job \in Jobs /\ run.left \in 0 .. run.job.sections
  /\ last.price \in Nat /\ last.fits \in BOOLEAN

\* However many calls a month has, the meter is off by at most half a
\* micro-dollar for each of them.
MeterDoesNotDrift ==
  /\ Units * meter <= exact + (Units \div 2) * metered
  /\ exact <= Units * meter + (Units \div 2) * metered

\* The meter passes the cap only by the price of the last call of a run, and
\* only when that run reported more tokens than its projection allowed.  With
\* the budget gate alone a month that fits its projections never passes it.
OvershootHasAReason ==
  meter > Cap => meter - last.price < Cap /\ ~last.fits

\* The meter follows what the calls cost, and the cap follows the meter.
SpendFollowsTheCalls == MeterDoesNotDrift /\ OvershootHasAReason
=============================================================================
