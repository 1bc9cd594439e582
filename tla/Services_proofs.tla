---------------------------- MODULE Services_proofs ----------------------------
(***************************************************************************)
(* What is proved of the smaller services, one section for each: the       *)
(* bootstrap of the identity provider, the model clients, the store in     *)
(* memory, sign-in and workspaces, and fetching.  They share no state, and *)
(* no section cites another; the last section puts them together with the  *)
(* delivery of bundles and the diffs, which have modules of their own.     *)
(***************************************************************************)
EXTENDS Services, OkfDelivery_proofs, SpanDiff_proofs

-----------------------------------------------------------------------------
(* The bootstrap of the identity provider.                                   *)

\* The steps behind the script.
StepsBehind(step) ==
  CASE step = "client"                 -> {"realm"}
    [] step \in {"find", "redirect"}   -> {"realm", "client"}
    [] step = "logout"                 -> {"realm", "client", "redirect"}
    [] step = "user"                   -> {"realm", "client", "redirect", "logout"}
    [] step \in {"password", "done"}   -> Things
    [] OTHER                           -> {}

\* The inductive invariant of the script: what it left behind is there, only a user has
\* a password, it sets one only where there is none, and a user without one was
\* stranded, unless the script is about to set it.
SetupInv ==
  /\ ProvisioningTypeOK
  /\ StepsBehind(script) \subseteq existing
  /\ "user" \notin existing => password = "none"
  /\ script = "password" => password = "none"
  /\ "user" \in existing /\ password = "none" => stranded \/ script = "password"
  /\ script = "failed" => disturbed
  /\ owned => password = "own"

\* No request of the script leaves this: the one it gives up on by itself is the look-up
\* of a client that is missing, and it gets there only past a client that exists.
LEMMA SetupStep == SetupInv /\ [ProvisioningNext]_provisioningVars => SetupInv'
<1> SUFFICES ASSUME SetupInv, [ProvisioningNext]_provisioningVars PROVE SetupInv'
  OBVIOUS
<1> USE ProvisioningAssumption DEF Things, Ended
<1>t. ProvisioningTypeOK
  BY DEF SetupInv
<1>1. CASE StartScript
  <2>1. /\ script \in {"off", "done", "failed"} /\ script' = "token"
        /\ scripts' \in 0 .. MaxScripts
        /\ UNCHANGED <<existing, password, owned, stranded>> /\ disturbed' = FALSE
    BY <1>1, <1>t DEF StartScript, ProvisioningTypeOK
  <2>2. StepsBehind(script') = {}
    BY <2>1 DEF StepsBehind
  <2>3. ProvisioningTypeOK'
    BY <1>t, <2>1 DEF ProvisioningTypeOK
  <2>4. QED
    BY <2>1, <2>2, <2>3 DEF SetupInv
<1>2. CASE GetToken
  BY <1>2 DEF GetToken, Advance, SetupInv, ProvisioningTypeOK, StepsBehind
<1>3. ASSUME NEW thing \in Things, Create(thing) PROVE SetupInv'
  <2>1. PICK status \in {201, 409, 500} :
          /\ status = 201 => thing \notin existing
          /\ status = 409 => thing \in existing
          /\ existing' = IF status = 201 THEN existing \cup {thing} ELSE existing
          /\ UNCHANGED password
          /\ IF Passes(status) THEN Advance(After(thing, status = 201)) ELSE Fail(status = 500)
    BY <1>3 DEF Create
  <2>2. script = thing
    BY <1>3 DEF Create
  <2>3. CASE status = 500
    <3>1. ~Passes(status)
      BY <2>3 DEF Passes
    <3>2. Fail(status = 500) /\ existing' = existing /\ password' = password
      BY <2>1, <2>3, <3>1
    <3>4. disturbed' = TRUE
      BY <2>3, <3>2 DEF Fail
    <3>3. QED
      BY <2>2, <3>2, <3>4 DEF Fail, SetupInv, ProvisioningTypeOK, StepsBehind
  <2>4. CASE status # 500
    <3>1. Passes(status)
      BY <2>4 DEF Passes
    <3>2. Advance(After(thing, status = 201))
      BY <2>1, <3>1
    <3>3. thing \in existing' /\ existing' = existing \cup {thing}
      BY <2>1, <2>4
    <3>4. CASE thing = "user"
      <4>1. After(thing, status = 201) = IF status = 201 THEN "password" ELSE "done"
        BY <3>4 DEF After
      <4>2. QED
        BY <2>1, <2>2, <3>2, <3>3, <3>4, <4>1
           DEF Advance, SetupInv, ProvisioningTypeOK, StepsBehind
    <3>5. CASE thing # "user"
      <4>1. After(thing, status = 201) =
              CASE thing = "realm"    -> "client"
                [] thing = "client"   -> IF status = 201 THEN "redirect" ELSE "find"
                [] thing = "redirect" -> "logout"
                [] thing = "logout"   -> "user"
        BY <3>5 DEF After, StepAfter
      <4>2. QED
        BY <2>1, <2>2, <3>2, <3>3, <3>5, <4>1
           DEF Advance, SetupInv, ProvisioningTypeOK, StepsBehind
    <3>6. QED
      BY <3>4, <3>5
  <2>5. QED
    BY <2>3, <2>4
<1>4. CASE FindClient
  <2>1. "client" \in existing
    BY <1>4 DEF FindClient, SetupInv, StepsBehind
  <2>2. QED
    BY <1>4, <2>1 DEF FindClient, Advance, SetupInv, ProvisioningTypeOK, StepsBehind
<1>5. CASE SetPassword
  BY <1>5 DEF SetPassword, Advance, SetupInv, ProvisioningTypeOK, StepsBehind
<1>6. CASE Break
  BY <1>6 DEF Break, Fail, SetupInv, ProvisioningTypeOK, StepsBehind
<1>7. CASE ChangePassword
  BY <1>7 DEF ChangePassword, SetupInv, ProvisioningTypeOK, StepsBehind
<1>8. CASE UNCHANGED provisioningVars
  BY <1>8 DEF provisioningVars, SetupInv, ProvisioningTypeOK, StepsBehind
<1>9. QED
  BY <1>1, <1>2, <1>3, <1>4, <1>5, <1>6, <1>7, <1>8 DEF ProvisioningNext

LEMMA SetupStart == ProvisioningInit => SetupInv
<1> SUFFICES ASSUME ProvisioningInit PROVE SetupInv
  OBVIOUS
<1>1. /\ script = "off" /\ scripts = 0 /\ disturbed = FALSE /\ stranded = FALSE
      /\ owned \in BOOLEAN
      /\ owned => password = "own"
      /\ \/ existing = {} /\ password = "none"
         \/ existing = {"realm", "user"} /\ password = "own"
  BY DEF ProvisioningInit
<1>2. ProvisioningTypeOK
  <2>1. scripts \in 0 .. MaxScripts
    BY <1>1, ProvisioningAssumption
  <2>2. existing \subseteq Things /\ password \in {"none", "demo", "own"}
    BY <1>1 DEF Things
  <2>3. QED
    BY <1>1, <2>1, <2>2 DEF ProvisioningTypeOK, Ended
<1>3. QED
  BY <1>1, <1>2 DEF SetupInv, StepsBehind

\* However often runs of the script break before or after the effect of a request: one
\* that is done leaves everything the login needs, one that fails was disturbed, and
\* none takes back a password its owner chose.
THEOREM SetupCompletes == ProvisioningSpec => []RerunsCompleteTheSetup
<1>1. SetupInv => RerunsCompleteTheSetup
  BY DEF SetupInv, RerunsCompleteTheSetup, StepsBehind, Things
<1>2. QED
  BY <1>1, SetupStart, SetupStep, PTL DEF ProvisioningSpec

-----------------------------------------------------------------------------
(* The model clients.                                                       *)

Usage == [input : Nat, output : Nat, cacheRead : Nat, cacheWrite : Nat]

\* Rounding is off by at most half a micro-dollar, and keeps the order.
LEMMA Rounding ==
  ASSUME NEW u \in Nat
  PROVE  /\ RoundToMicros(u) \in Nat
         /\ 40 * RoundToMicros(u) <= u + 20
         /\ u <= 40 * RoundToMicros(u) + 20
BY DEF RoundToMicros, Units

LEMMA RoundingGrows ==
  ASSUME NEW u \in Nat, NEW v \in Nat, u <= v
  PROVE  RoundToMicros(u) <= RoundToMicros(v)
BY DEF RoundToMicros, Units

\* The price of a call by its kind.
LEMMA LegsByKind ==
  ASSUME NEW kind \in {"triage", "synthesis"}, NEW usage \in Usage
  PROVE  /\ Legs(kind, usage) \in Nat
         /\ kind = "triage" => Legs(kind, usage) =
              40 * usage.input + 200 * usage.output + 4 * usage.cacheRead + 50 * usage.cacheWrite
         /\ kind = "synthesis" => Legs(kind, usage) =
              120 * usage.input + 600 * usage.output + 12 * usage.cacheRead + 150 * usage.cacheWrite
<1>1. /\ usage.input \in Nat /\ usage.output \in Nat
      /\ usage.cacheRead \in Nat /\ usage.cacheWrite \in Nat
  BY DEF Usage
<1>2. CASE kind = "triage"
  <2>1. Rate(kind) = [input |-> 40, output |-> 200, cacheRead |-> 4, cacheWrite |-> 50]
    BY <1>2 DEF Rate
  <2>2. QED
    BY <1>1, <1>2, <2>1 DEF Legs
<1>3. CASE kind = "synthesis"
  <2>1. Rate(kind) = [input |-> 120, output |-> 600, cacheRead |-> 12, cacheWrite |-> 150]
    BY <1>3 DEF Rate
  <2>2. QED
    BY <1>1, <1>3, <2>1 DEF Legs
<1>4. QED
  BY <1>2, <1>3

LEMMA PriceOff ==
  ASSUME NEW kind \in {"triage", "synthesis"}, NEW usage \in Usage
  PROVE  /\ MeterCost(kind, usage) \in Nat
         /\ 40 * MeterCost(kind, usage) <= Legs(kind, usage) + 20
         /\ Legs(kind, usage) <= 40 * MeterCost(kind, usage) + 20
BY LegsByKind, Rounding, SMTT(30) DEF MeterCost

LEMMA Estimates ==
  ASSUME NEW chars \in Nat
  PROVE  EstimateTokens(chars) \in Nat
BY DEF EstimateTokens

\* What the jobs are projected at.
LEMMA SynthesisProjection ==
  ASSUME NEW job \in Jobs, job.kind = "synthesis"
  PROVE  Projection(job) = 25500 * job.sections
<1>1. job.sections \in Nat
  BY CallAssumption
<1>2. Allowance(job) = [input |-> 2500, output |-> 1200, cacheRead |-> 0, cacheWrite |-> 0]
  BY DEF Allowance, PlainUsage
<1> DEFINE whole == PlainUsage(2500 * job.sections, 1200 * job.sections)
<1>3. /\ whole \in Usage /\ whole.input = 2500 * job.sections
      /\ whole.output = 1200 * job.sections /\ whole.cacheRead = 0 /\ whole.cacheWrite = 0
  BY <1>1 DEF PlainUsage, Usage
<1>4. Legs("synthesis", whole) = 1020000 * job.sections
  BY <1>1, <1>3, LegsByKind
<1>5. Projection(job) = RoundToMicros(1020000 * job.sections)
  BY <1>2, <1>4 DEF Projection, MeterCost
<1>6. QED
  BY <1>1, <1>5 DEF RoundToMicros, Units

LEMMA TriageProjection ==
  ASSUME NEW job \in Jobs, job.kind = "triage"
  PROVE  /\ Allowance(job) \in Usage
         /\ Projection(job) = MeterCost("triage", Allowance(job))
         /\ Allowance(job).cacheRead = 0 /\ Allowance(job).cacheWrite = 0
         /\ Projection(job) \in Nat /\ Projection(job) >= 1
<1>1. job.chars \in Nat /\ job.sections = 1
  BY CallAssumption
<1>2. EstimateTokens(job.chars) \in Nat
  BY <1>1, Estimates
<1>3. Allowance(job) = [input |-> EstimateTokens(job.chars) + 200, output |-> 256,
                        cacheRead |-> 0, cacheWrite |-> 0]
  BY DEF Allowance, PlainUsage
<1>4. Allowance(job) \in Usage
  BY <1>2, <1>3 DEF Usage
<1>5. Allowance(job).input * job.sections = Allowance(job).input
  BY <1>1, <1>2, <1>3
<1>6. Allowance(job).output * job.sections = Allowance(job).output
  BY <1>1, <1>3
<1>7. Projection(job) = MeterCost("triage", Allowance(job))
  BY <1>3, <1>5, <1>6 DEF Projection, PlainUsage
<1>8. Legs("triage", Allowance(job)) >= 200
  BY <1>2, <1>3, <1>4, LegsByKind
<1>9. Projection(job) \in Nat /\ Projection(job) >= 1
  BY <1>4, <1>7, <1>8, PriceOff, LegsByKind
<1>10. QED
  BY <1>3, <1>4, <1>7, <1>9

\* A call that reports no more than it was projected costs no more.
LEMMA FittingCall ==
  ASSUME NEW job \in Jobs, NEW usage \in Usage, Fits(job, usage)
  PROVE  /\ job.kind = "triage" => MeterCost(job.kind, usage) <= Projection(job)
         /\ job.kind = "synthesis" => MeterCost(job.kind, usage) <= 25500
<1>1. /\ usage.input \in Nat /\ usage.output \in Nat
      /\ usage.cacheRead \in Nat /\ usage.cacheWrite \in Nat
  BY DEF Usage
<1>2. CASE job.kind = "triage"
  <2>1. Allowance(job) \in Usage
    BY <1>2, TriageProjection
  <2>2. Legs("triage", usage) <= Legs("triage", Allowance(job))
    <3>1. /\ usage.input + usage.cacheRead <= Allowance(job).input
          /\ usage.output <= Allowance(job).output /\ usage.cacheWrite = 0
      BY DEF Fits
    <3>2. Allowance(job).input \in Nat /\ Allowance(job).output \in Nat
      BY <2>1 DEF Usage
    <3>3. Legs("triage", usage) = 40 * usage.input + 200 * usage.output + 4 * usage.cacheRead
      BY <1>1, <3>1, LegsByKind
    <3>4. Legs("triage", Allowance(job)) =
            40 * Allowance(job).input + 200 * Allowance(job).output
      BY <1>2, <2>1, <3>2, LegsByKind, TriageProjection
    <3>5. QED
      BY <1>1, <3>1, <3>2, <3>3, <3>4
  <2>3. MeterCost("triage", usage) <= MeterCost("triage", Allowance(job))
    BY <2>1, <2>2, LegsByKind, RoundingGrows DEF MeterCost
  <2>4. QED
    BY <1>2, <2>3, TriageProjection
<1>3. CASE job.kind = "synthesis"
  <2>1. usage.input + usage.cacheRead <= 2500 /\ usage.output <= 1200 /\ usage.cacheWrite = 0
    BY <1>3 DEF Fits, Allowance, PlainUsage
  <2>2. Legs("synthesis", usage) <= 1020000
    BY <1>1, <2>1, LegsByKind
  <2>3. RoundToMicros(1020000) = 25500
    BY DEF RoundToMicros, Units
  <2>4. QED
    BY <1>3, <2>2, <2>3, LegsByKind, RoundingGrows DEF MeterCost
<1>4. job.kind \in {"triage", "synthesis"}
  BY CallAssumption
<1>5. QED
  BY <1>2, <1>3, <1>4

\* A run under way: it was admitted within the cap, its bill is off by at most half a
\* micro-dollar for each call, is within the projection while every call fits, and was
\* below the cap before its last call.
RunOK(r) ==
  LET made == r.job.sections - r.left
  IN  /\ r \in [job : Jobs, left : Nat, cost : Nat, exact : Nat, fits : BOOLEAN]
      /\ r.left <= r.job.sections
      /\ meter + Projection(r.job) <= Cap
      /\ 40 * r.cost <= r.exact + 20 * made
      /\ r.exact <= 40 * r.cost + 20 * made
      /\ r.fits /\ r.job.kind = "triage" => r.cost <= Projection(r.job)
      /\ r.fits /\ r.job.kind = "synthesis" => r.cost <= 25500 * made
      /\ made = 0 => r.cost = 0
      /\ made > 0 => last.fits = r.fits /\ meter + r.cost - last.price < Cap

\* The inductive invariant of the meter.
SpendInv ==
  /\ CallTypeOK
  /\ SpendFollowsTheCalls
  /\ run # NoRun => RunOK(run)

LEMMA ProjectionNat ==
  ASSUME NEW job \in Jobs
  PROVE  /\ Projection(job) \in Nat /\ job.sections \in Nat \ {0} /\ Projection(job) >= 1
         /\ job.kind \in {"triage", "synthesis"}
         /\ job.kind = "triage" => job.sections = 1
<1>1. /\ job.sections \in Nat \ {0} /\ job.kind \in {"triage", "synthesis"}
      /\ job.kind = "triage" => job.sections = 1
  BY CallAssumption
<1>2. CASE job.kind = "triage"
  BY <1>1, <1>2, TriageProjection
<1>3. CASE job.kind = "synthesis"
  BY <1>1, <1>3, SynthesisProjection
<1>4. QED
  BY <1>1, <1>2, <1>3

\* A call that answers.
LEMMA AcceptKeeps ==
  ASSUME SpendInv, Calling, NEW usage \in Usage, Accept(usage)
  PROVE  SpendInv'
<1>0. PICK job : job = run.job
  OBVIOUS
<1> DEFINE price == MeterCost(job.kind, usage)
           legs == Legs(job.kind, usage)
           made == job.sections - run.left
<1>1. RunOK(run) /\ run.left > 0
  BY DEF SpendInv, Calling
<1>2. /\ run \in [job : Jobs, left : Nat, cost : Nat, exact : Nat, fits : BOOLEAN]
      /\ job \in Jobs /\ run.left \in Nat /\ run.cost \in Nat /\ run.exact \in Nat
      /\ run.fits \in BOOLEAN /\ run.left <= job.sections
  BY <1>0, <1>1 DEF RunOK
<1>3. /\ Projection(job) \in Nat /\ job.sections \in Nat \ {0} /\ Projection(job) >= 1
      /\ job.kind \in {"triage", "synthesis"}
      /\ job.kind = "triage" => job.sections = 1
  BY <1>2, ProjectionNat
<1>4. /\ price \in Nat /\ legs \in Nat /\ 40 * price <= legs + 20 /\ legs <= 40 * price + 20
  BY <1>3, PriceOff, LegsByKind
<1>5. Cap \in Nat /\ meter \in Nat
  BY CallAssumption DEF SpendInv, CallTypeOK
<1>6. /\ meter' = meter /\ exact' = exact /\ metered' = metered /\ runs' = runs /\ mode' = mode
      /\ last' = [price |-> price, fits |-> run.fits /\ Fits(job, usage)]
      /\ run' = [run EXCEPT !.left = run.left - 1, !.cost = run.cost + price,
                            !.exact = run.exact + legs,
                            !.fits = run.fits /\ Fits(job, usage)]
  BY <1>0 DEF Accept
<1>7. PICK fits \in BOOLEAN : fits = (run.fits /\ Fits(job, usage))
  <2>1. (run.fits /\ Fits(job, usage)) \in BOOLEAN
    BY <1>2
  <2>2. QED
    BY <2>1
<1>8. /\ run'.job = job /\ run'.left = run.left - 1 /\ run'.cost = run.cost + price
      /\ run'.exact = run.exact + legs /\ run'.fits = fits
      /\ last'.price = price /\ last'.fits = fits
  BY <1>0, <1>2, <1>6, <1>7
<1>9. run' \in [job : Jobs, left : Nat, cost : Nat, exact : Nat, fits : BOOLEAN]
  <2>1. run.left - 1 \in Nat /\ run.cost + price \in Nat /\ run.exact + legs \in Nat
    BY <1>0, <1>1, <1>2, <1>4
  <2>2. QED
    BY <2>1, <1>2, <1>6, <1>7
<1> HIDE DEF price, legs
<1>10. job.sections - run'.left = made + 1 /\ made \in Nat
  BY <1>2, <1>3, <1>8
<1>11. meter + Projection(job) <= Cap
  BY <1>0, <1>1 DEF RunOK
<1>12. /\ 40 * run'.cost <= run'.exact + 20 * (made + 1)
       /\ run'.exact <= 40 * run'.cost + 20 * (made + 1)
  <2>1. 40 * run.cost <= run.exact + 20 * made /\ run.exact <= 40 * run.cost + 20 * made
    BY <1>0, <1>1 DEF RunOK
  <2>2. QED
    BY <2>1, <1>2, <1>4, <1>8, <1>10
<1>13. ASSUME fits, job.kind = "triage" PROVE run'.cost <= Projection(job)
  <2>1. made = 0 /\ run.cost = 0
    BY <1>0, <1>1, <1>2, <1>3, <1>13 DEF RunOK
  <2>a. Fits(job, usage)
    BY <1>7, <1>13
  <2>2. price <= Projection(job)
    BY <1>2, <1>13, <2>a, FittingCall DEF price
  <2>3. QED
    BY <2>1, <2>2, <1>3, <1>4, <1>8
<1>14. ASSUME fits, job.kind = "synthesis" PROVE run'.cost <= 25500 * (made + 1)
  <2>1. run.cost <= 25500 * made
    BY <1>0, <1>1, <1>7, <1>14 DEF RunOK
  <2>a. Fits(job, usage)
    BY <1>7, <1>14
  <2>2. price <= 25500
    BY <1>2, <1>14, <2>a, FittingCall DEF price
  <2>3. QED
    BY <2>1, <2>2, <1>2, <1>4, <1>8, <1>10
<1>15. meter + run.cost < Cap
  <2>1. CASE job.kind = "synthesis"
    BY <1>0, <2>1 DEF Calling, SpendInv
  <2>2. CASE job.kind = "triage"
    <3>1. run.cost = 0
      BY <1>0, <1>1, <1>2, <1>3, <2>2 DEF RunOK
    <3>2. QED
      BY <3>1, <1>3, <1>5, <1>11
  <2>3. QED
    BY <1>3, <2>1, <2>2
<1>16. meter + run'.cost - last'.price < Cap
  BY <1>2, <1>4, <1>5, <1>8, <1>15
<1>17. RunOK(run)'
  BY <1>6, <1>8, <1>9, <1>10, <1>2, <1>3, <1>11, <1>12, <1>13, <1>14, <1>16 DEF RunOK
<1>18. CallTypeOK'
  <2>1. run'.job \in Jobs /\ run'.left \in 0 .. run'.job.sections
    BY <1>0, <1>1, <1>2, <1>3, <1>8
  <2>2. last'.price \in Nat /\ last'.fits \in BOOLEAN
    BY <1>4, <1>7, <1>8
  <2>3. QED
    BY <2>1, <2>2, <1>6 DEF SpendInv, CallTypeOK
<1>19. meter <= Cap
  BY <1>3, <1>5, <1>11
<1>20. SpendFollowsTheCalls'
  BY <1>5, <1>6, <1>19 DEF SpendInv, SpendFollowsTheCalls, MeterDoesNotDrift, OvershootHasAReason
<1>21. QED
  BY <1>17, <1>18, <1>20 DEF SpendInv

\* The cost of a run goes into the meter.
LEMMA RecordKeeps ==
  ASSUME SpendInv, RecordCost
  PROVE  SpendInv'
<1> DEFINE job == run.job
           made == job.sections - run.left
<1>1. RunOK(run)
  BY DEF SpendInv, RecordCost
<1>2. /\ job \in Jobs /\ run.left \in Nat /\ run.cost \in Nat /\ run.exact \in Nat
      /\ run.fits \in BOOLEAN /\ run.left <= job.sections
  BY <1>1 DEF RunOK
<1>3. /\ Projection(job) \in Nat /\ job.sections \in Nat \ {0} /\ Projection(job) >= 1
      /\ job.kind \in {"triage", "synthesis"}
  BY <1>2, ProjectionNat
<1>4. /\ Cap \in Nat /\ meter \in Nat /\ exact \in Nat /\ metered \in Nat
      /\ last.price \in Nat /\ last.fits \in BOOLEAN
  BY CallAssumption DEF SpendInv, CallTypeOK
<1>5. /\ meter' = meter + run.cost /\ exact' = exact + run.exact
      /\ metered' = metered + made /\ run' = NoRun
      /\ mode' = mode /\ last' = last /\ runs' = runs
  BY DEF RecordCost
<1>6. made \in Nat
  BY <1>2, <1>3
<1>7. /\ 40 * meter' <= exact' + 20 * metered' /\ exact' <= 40 * meter' + 20 * metered'
  <2>1. /\ 40 * run.cost <= run.exact + 20 * made /\ run.exact <= 40 * run.cost + 20 * made
    BY <1>1 DEF RunOK
  <2>2. 40 * meter <= exact + 20 * metered /\ exact <= 40 * meter + 20 * metered
    BY DEF SpendInv, SpendFollowsTheCalls, MeterDoesNotDrift, Units
  <2> HIDE DEF made
  <2>3. QED
    BY <2>1, <2>2, <1>2, <1>4, <1>5, <1>6
<1>8. ASSUME meter' > Cap PROVE meter' - last'.price < Cap /\ ~last'.fits
  <2>1. meter + Projection(job) <= Cap
    BY <1>1 DEF RunOK
  <2>2. made > 0
    <3>1. made # 0
      BY <2>1, <1>8, <1>1, <1>3, <1>4, <1>5 DEF RunOK
    <3>2. QED
      BY <3>1, <1>6
  <2>3. last.fits = run.fits /\ meter + run.cost - last.price < Cap
    BY <1>1, <2>2 DEF RunOK
  <2>4. ~run.fits
    <3> SUFFICES ASSUME run.fits PROVE FALSE
      BY <1>2
    <3>1. CASE job.kind = "triage"
      BY <3>1, <2>1, <1>8, <1>1, <1>2, <1>3, <1>4, <1>5 DEF RunOK
    <3>2. CASE job.kind = "synthesis"
      <4>1. run.cost <= 25500 * made
        BY <3>2, <1>1 DEF RunOK
      <4>2. Projection(job) = 25500 * job.sections
        BY <3>2, <1>2, SynthesisProjection
      <4>3. made <= job.sections
        BY <1>2, <1>3
      <4>4. QED
        BY <4>1, <4>2, <4>3, <2>1, <1>8, <1>2, <1>3, <1>4, <1>5, <1>6
    <3>3. QED
      BY <1>3, <3>1, <3>2
  <2>5. QED
    BY <2>3, <2>4, <1>2, <1>4, <1>5
<1>9. SpendFollowsTheCalls'
  BY <1>7, <1>8 DEF SpendFollowsTheCalls, MeterDoesNotDrift, OvershootHasAReason, Units
<1>10. CallTypeOK'
  BY <1>2, <1>4, <1>5, <1>6 DEF SpendInv, CallTypeOK
<1>11. QED
  BY <1>5, <1>9, <1>10 DEF SpendInv

LEMMA SpendStepKeeps == SpendInv /\ [CallNext]_callVars => SpendInv'
<1> SUFFICES ASSUME SpendInv, [CallNext]_callVars PROVE SpendInv'
  OBVIOUS
<1>c. CallTypeOK /\ SpendFollowsTheCalls
  BY DEF SpendInv
<1>1. ASSUME NEW job \in Jobs, StartRun(job) PROVE SpendInv'
  <2>1. /\ meter + Projection(job) <= Cap /\ runs < MaxRuns /\ runs' = runs + 1
        /\ run' = [job |-> job, left |-> job.sections, cost |-> 0, exact |-> 0, fits |-> TRUE]
        /\ mode' = mode /\ meter' = meter /\ last' = last /\ exact' = exact /\ metered' = metered
    BY <1>1 DEF StartRun, BudgetAllows
  <2>2. Projection(job) \in Nat /\ job.sections \in Nat \ {0}
    BY ProjectionNat
  <2>3. RunOK(run)'
    <3>1. run' \in [job : Jobs, left : Nat, cost : Nat, exact : Nat, fits : BOOLEAN]
      BY <2>1, <2>2
    <3>2. /\ run'.job = job /\ run'.left = job.sections /\ run'.cost = 0 /\ run'.exact = 0
          /\ run'.fits = TRUE
      BY <2>1
    <3>3. job.sections - job.sections = 0 /\ 20 * 0 = 0 /\ 40 * 0 = 0 /\ 25500 * 0 = 0
      BY <2>2
    <3>4. /\ run'.job.sections - run'.left = 0 /\ meter' + Projection(run'.job) <= Cap
          /\ 25500 * (run'.job.sections - run'.left) = 0
          /\ 20 * (run'.job.sections - run'.left) = 0
      BY <2>1, <2>2, <3>2, <3>3
    <3>5. QED
      BY <2>2, <3>1, <3>2, <3>4 DEF RunOK
  <2>4. CallTypeOK'
    <3>1. runs' \in 0 .. MaxRuns
      BY <1>c, <2>1, CallAssumption DEF CallTypeOK
    <3>2. run'.job \in Jobs /\ run'.left \in 0 .. run'.job.sections
      BY <2>1, <2>2
    <3>3. QED
      BY <1>c, <2>1, <3>1, <3>2 DEF CallTypeOK
  <2>5. SpendFollowsTheCalls'
    BY <1>c, <2>1 DEF SpendFollowsTheCalls, MeterDoesNotDrift, OvershootHasAReason
  <2>6. QED
    BY <2>3, <2>4, <2>5 DEF SpendInv
<1>f. ASSUME FailRun PROVE SpendInv'
  BY <1>c, <1>f DEF FailRun, SpendInv, CallTypeOK, SpendFollowsTheCalls, MeterDoesNotDrift,
         OvershootHasAReason
<1>2. CASE MockAnswers
  <2> DEFINE tokens == EstimateTokens(run.job.chars)
             usage == PlainUsage(tokens, IF run.job.kind = "triage" THEN 40 ELSE tokens)
  <2>1. Calling /\ Accept(usage)
    BY <1>2 DEF MockAnswers
  <2>2. run.job \in Jobs
    BY <2>1 DEF SpendInv, CallTypeOK, Calling
  <2>3. tokens \in Nat
    BY <2>2, Estimates, CallAssumption
  <2>4. usage \in Usage
    BY <2>3 DEF PlainUsage, Usage
  <2>5. QED
    BY <2>1, <2>4, AcceptKeeps
<1>3. CASE ModelAnswers
  BY <1>3, <1>f, AcceptKeeps, CallAssumption DEF ModelAnswers, Usage
<1>4. CASE TransportFails
  BY <1>4, <1>f DEF TransportFails
<1>5. CASE RecordCost
  BY <1>5, RecordKeeps
<1>6. CASE UNCHANGED callVars
  BY <1>c, <1>6 DEF callVars, SpendInv, CallTypeOK, SpendFollowsTheCalls, MeterDoesNotDrift,
         OvershootHasAReason, RunOK
<1>7. QED
  BY <1>1, <1>2, <1>3, <1>4, <1>5, <1>6 DEF CallNext

LEMMA SpendStart ==
  ASSUME CallInit
  PROVE  CallTypeOK /\ run = NoRun /\ (meter <= Cap => SpendInv)
<1>1. /\ meter \in Nat /\ Cap \in Nat /\ MaxRuns \in Nat
      /\ run = NoRun /\ last = [price |-> 0, fits |-> TRUE]
      /\ exact = 40 * meter /\ metered = 0 /\ runs = 0 /\ mode \in {"live", "mock"}
  BY CallAssumption DEF CallInit, Units
<1>2. CallTypeOK
  BY <1>1 DEF CallTypeOK
<1>3. meter <= Cap => SpendFollowsTheCalls
  BY <1>1 DEF SpendFollowsTheCalls, MeterDoesNotDrift, OvershootHasAReason, Units
<1>4. QED
  BY <1>1, <1>2, <1>3 DEF SpendInv

\* A month that starts beyond its cap admits no run.
SpentOut == CallTypeOK /\ run = NoRun /\ meter > Cap

LEMMA NothingIsSpent ==
  ASSUME SpentOut, [CallNext]_callVars
  PROVE  SpentOut'
<1>1. meter \in Nat /\ Cap \in Nat /\ ~Calling
  BY CallAssumption DEF SpentOut, CallTypeOK, Calling
<1>2. ASSUME NEW job \in Jobs, StartRun(job) PROVE FALSE
  <2>1. meter + Projection(job) <= Cap /\ Projection(job) \in Nat
    BY <1>2, ProjectionNat DEF StartRun, BudgetAllows
  <2>2. QED
    BY <1>1, <2>1 DEF SpentOut
<1>3. ~MockAnswers /\ ~ModelAnswers /\ ~TransportFails /\ ~RecordCost
  BY <1>1 DEF MockAnswers, ModelAnswers, TransportFails, RecordCost, SpentOut
<1>4. UNCHANGED callVars
  BY <1>2, <1>3 DEF CallNext
<1>5. QED
  BY <1>4 DEF callVars, SpentOut, CallTypeOK

LEMMA CallStart == CallInit => SpendInv \/ SpentOut
BY SpendStart, CallAssumption DEF SpentOut, CallTypeOK

LEMMA CallStep == (SpendInv \/ SpentOut) /\ [CallNext]_callVars => (SpendInv' \/ SpentOut')
BY SpendStepKeeps, NothingIsSpent

\* In a month that starts within its cap, the meter is off by at most half a
\* micro-dollar for each metered call, and passes the cap only by the last call of a
\* run that reported more than it was projected.
THEOREM SpendFollows ==
  ASSUME \A m \in Spent : m <= Cap
  PROVE  CallSpec => []SpendFollowsTheCalls
<1>1. CallInit => SpendInv
  BY SpendStart DEF CallInit
<1>2. SpendInv => SpendFollowsTheCalls
  BY DEF SpendInv
<1>3. QED
  BY <1>1, <1>2, SpendStepKeeps, PTL DEF CallSpec

-----------------------------------------------------------------------------
(* The store in memory.                                                     *)

\* The tables agree with each other.
Whole(tables) == ConsistentIn(tables) /\ FieldsIn(tables)

\* Outside overlaps at most one transaction is open, and what is settled is its copy, or
\* the tables when there is none.
SettledInv ==
  ~overlapped =>
    /\ \A c, other \in Callers : InTransaction(c) /\ InTransaction(other) => c = other
    /\ \A c \in Callers : InTransaction(c) => checkpoint[c] = {settled}
    /\ (\A c \in Callers : ~InTransaction(c)) => db = settled

\* The inductive invariant of the store: the tables are whole, and so is every copy.
StoreInv ==
  /\ Whole(db)
  /\ DOMAIN checkpoint = Callers
  /\ \A c \in Callers : \A copy \in checkpoint[c] : Whole(copy)
  /\ SettledInv

\* A call that leaves whole tables leaves the rest in order.
LEMMA StoreKeeps ==
  ASSUME StoreInv, NEW c \in Callers, NEW tables, Store(c, tables), Whole(tables)
  PROVE  StoreInv'
<1>1. /\ db' = tables /\ overlapped' = Overlaps(c) /\ checkpoint' = checkpoint
      /\ settled' = IF Overlaps(c) THEN Seeded
                    ELSE IF InTransaction(c) THEN settled ELSE tables
  BY DEF Store
<1>2. SettledInv'
  <2> SUFFICES ASSUME ~overlapped'
               PROVE  /\ \A d, e \in Callers : InTransaction(d)' /\ InTransaction(e)' => d = e
                      /\ \A d \in Callers : InTransaction(d)' => checkpoint'[d] = {settled'}
                      /\ (\A d \in Callers : ~InTransaction(d)') => db' = settled'
    BY DEF SettledInv
  <2>1. ~overlapped /\ \A other \in Callers \ {c} : ~InTransaction(other)
    BY <1>1 DEF Overlaps
  <2>2. \A d \in Callers : InTransaction(d)' <=> InTransaction(d)
    BY <1>1 DEF InTransaction
  <2>3. settled' = IF InTransaction(c) THEN settled ELSE tables
    BY <1>1
  <2>4. InTransaction(c) => checkpoint[c] = {settled}
    BY <2>1 DEF StoreInv, SettledInv
  <2>5. QED
    BY <1>1, <2>1, <2>2, <2>3, <2>4
<1>3. QED
  BY <1>1, <1>2 DEF StoreInv

LEMMA BeginKeeps ==
  ASSUME StoreInv, NEW c \in Callers, Begin(c)
  PROVE  StoreInv'
<1>1. /\ db' = db /\ overlapped' = Overlaps(c) /\ ~InTransaction(c)
      /\ checkpoint' = [checkpoint EXCEPT ![c] = {db}]
      /\ settled' = IF Overlaps(c) THEN Seeded ELSE settled
  BY DEF Begin
<1>2. /\ DOMAIN checkpoint' = Callers
      /\ \A d \in Callers : checkpoint'[d] = IF d = c THEN {db} ELSE checkpoint[d]
  BY <1>1 DEF StoreInv
<1>3. SettledInv'
  <2> SUFFICES ASSUME ~overlapped'
               PROVE  /\ \A d, e \in Callers : InTransaction(d)' /\ InTransaction(e)' => d = e
                      /\ \A d \in Callers : InTransaction(d)' => checkpoint'[d] = {settled'}
                      /\ (\A d \in Callers : ~InTransaction(d)') => db' = settled'
    BY DEF SettledInv
  <2>1. ~overlapped /\ \A other \in Callers : ~InTransaction(other)
    BY <1>1 DEF Overlaps
  <2>2. db = settled /\ settled' = settled
    BY <1>1, <2>1 DEF StoreInv, SettledInv
  <2>3. \A d \in Callers : InTransaction(d)' <=> d = c
    BY <1>2, <2>1 DEF InTransaction
  <2>4. QED
    BY <1>1, <1>2, <2>2, <2>3
<1>4. QED
  BY <1>1, <1>2, <1>3 DEF StoreInv

LEMMA EndKeeps ==
  ASSUME StoreInv, NEW c \in Callers, Commit(c) \/ Rollback(c)
  PROVE  StoreInv'
<1>1. /\ InTransaction(c) /\ checkpoint' = [checkpoint EXCEPT ![c] = {}]
      /\ overlapped' = overlapped
  BY DEF Commit, Rollback, End
<1>2. /\ DOMAIN checkpoint' = Callers
      /\ \A d \in Callers : checkpoint'[d] = IF d = c THEN {} ELSE checkpoint[d]
  BY <1>1 DEF StoreInv
<1>3. Whole(db')
  BY DEF Commit, Rollback, StoreInv
<1>4. SettledInv'
  <2> SUFFICES ASSUME ~overlapped'
               PROVE  /\ \A d, e \in Callers : InTransaction(d)' /\ InTransaction(e)' => d = e
                      /\ \A d \in Callers : InTransaction(d)' => checkpoint'[d] = {settled'}
                      /\ (\A d \in Callers : ~InTransaction(d)') => db' = settled'
    BY DEF SettledInv
  <2>1. \A d \in Callers : InTransaction(d) => d = c
    BY <1>1 DEF StoreInv, SettledInv
  <2>2. \A d \in Callers : ~InTransaction(d)'
    BY <1>2, <2>1 DEF InTransaction
  <2>3. db' = settled'
    <3>1. CASE Commit(c)
      BY <1>1, <3>1 DEF Commit
    <3>2. CASE Rollback(c)
      BY <1>1, <3>2 DEF Rollback, StoreInv, SettledInv
    <3>3. QED
      BY <3>1, <3>2
  <2>4. QED
    BY <2>2, <2>3
<1>5. \A d \in Callers : \A copy \in checkpoint'[d] : Whole(copy)
  BY <1>2 DEF StoreInv
<1>6. QED
  BY <1>2, <1>3, <1>4, <1>5 DEF StoreInv, Whole, ConsistentIn, FieldsIn, HasIn

\* What an insert does to the tables.
LEMMA RowAdded ==
  ASSUME FieldsIn(db), NEW t \in Tables, NEW row
  PROVE  /\ DOMAIN With(t, row) = DOMAIN db
         /\ With(t, row)[t] = db[t] \cup {row}
         /\ \A u \in Tables : u # t => With(t, row)[u] = db[u]
BY DEF With, FieldsIn

LEMMA InsertKeepsWhole ==
  ASSUME Whole(db), NEW row,
         NEW t \in {"workspaces", "competitors", "coverageRuns", "users", "memberships",
                    "channelConfigs", "bundleDeliveries", "deltas", "claims", "alerts"},
         t = "competitors" => Has("workspaces", row.workspace),
         t = "memberships" =>
           \A m \in db.memberships : m.user # row.user \/ m.workspace # row.workspace,
         t = "deltas" => /\ Has("sources", row.source)
                         /\ {"id", "source", "state"} \subseteq DOMAIN row,
         t = "claims" => Has("deltas", row.delta),
         t = "alerts" =>
           /\ Has("deltas", row.delta)
           /\ {"id", "delta", "channel", "status"} \subseteq DOMAIN row
           /\ \A a \in db.alerts : a.delta # row.delta \/ a.channel # row.channel
  PROVE  Whole(With(t, row))
<1> DEFINE new == With(t, row)
<1>1. /\ DOMAIN new = DOMAIN db /\ new[t] = db[t] \cup {row}
      /\ \A u \in Tables : u # t => new[u] = db[u]
  BY RowAdded DEF Whole, Tables
<1> HIDE DEF new
<1>2. \A u \in Tables : db[u] \subseteq new[u]
  BY <1>1
<1>3. \A u \in Tables : \A id : HasIn(db, u, id) => HasIn(new, u, id)
  BY <1>2 DEF HasIn
<1>4. FieldsIn(new)
  BY <1>1 DEF Whole, FieldsIn, Tables
<1>5. /\ new.sources = db.sources /\ new.health = db.health /\ new.snapshots = db.snapshots
      /\ new.bySource = db.bySource /\ new.sections = db.sections
      /\ new.sectionVersions = db.sectionVersions
  BY <1>1 DEF Tables
<1>6. \A r \in new.competitors : HasIn(new, "workspaces", r.workspace)
  BY <1>1, <1>3 DEF Whole, ConsistentIn, Tables, Has
<1>7. /\ \A r \in new.sources : /\ HasIn(new, "competitors", r.competitor)
                                /\ HasIn(new, "health", r.id)
      /\ \A r \in new.snapshots : HasIn(new, "sources", r.source)
  BY <1>3, <1>5 DEF Whole, ConsistentIn, Tables
<1>8. \A r \in new.deltas : HasIn(new, "sources", r.source)
  BY <1>1, <1>3 DEF Whole, ConsistentIn, Tables, Has
<1>9. \A r \in new.claims : HasIn(new, "deltas", r.delta)
  BY <1>1, <1>3 DEF Whole, ConsistentIn, Tables, Has
<1>10. \A r, other \in new.alerts :
         /\ HasIn(new, "deltas", r.delta)
         /\ r.delta = other.delta /\ r.channel = other.channel => r = other
  <2>1. CASE t = "alerts"
    <3>1. new.alerts = db.alerts \cup {row}
      BY <2>1, <1>1
    <3>2. QED
      BY <2>1, <3>1, <1>3 DEF Whole, ConsistentIn, Tables, Has
  <2>2. CASE t # "alerts"
    BY <2>2, <1>1, <1>3 DEF Whole, ConsistentIn, Tables
  <2>3. QED
    BY <2>1, <2>2
<1>11. \A r, other \in new.memberships :
         r.user = other.user /\ r.workspace = other.workspace => r = other
  BY <1>1 DEF Whole, ConsistentIn, Tables
<1>12. /\ \A h \in new.bySource :
            {h.snapshots[i] : i \in DOMAIN h.snapshots} =
              {r.id : r \in {s \in new.snapshots : s.source = h.id}}
       /\ new.sectionVersions = {SlotOf(r) : r \in new.sections}
  <2>1. ASSUME NEW h \in new.bySource
        PROVE  {h.snapshots[i] : i \in DOMAIN h.snapshots} =
                 {r.id : r \in {s \in new.snapshots : s.source = h.id}}
    <3>1. {h.snapshots[i] : i \in DOMAIN h.snapshots} =
            {r.id : r \in {s \in db.snapshots : s.source = h.id}}
      BY <1>5 DEF Whole, ConsistentIn
    <3>2. QED
      BY <3>1, <1>5, Zenon
  <2>2. db.sectionVersions = {SlotOf(r) : r \in db.sections}
    BY DEF Whole, ConsistentIn
  <2>3. new.sectionVersions = {SlotOf(r) : r \in new.sections}
    BY <2>2, <1>5, Zenon
  <2>4. QED
    BY <2>1, <2>3
<1>13. QED
  BY <1>4, <1>6, <1>7, <1>8, <1>9, <1>10, <1>11, <1>12 DEF Whole, ConsistentIn, new

\* The calls that insert one row.
LEMMA InsertKeeps ==
  ASSUME StoreInv, NEW c \in Callers, InsertRow(c) \/ \E w \in Tenants : InsertScopedRow(c, w)
  PROVE  StoreInv'
<1>w. Whole(db)
  BY DEF StoreInv
<1>1. ASSUME NEW row, SeedWorkspace(c, row) \/ InsertCoverageRun(c, row) \/ SeedUser(c, row)
               \/ SeedChannel(c, row) \/ InsertBundleDelivery(c, row)
      PROVE  StoreInv'
  <2>1. PICK t \in {"workspaces", "coverageRuns", "users", "channelConfigs",
                    "bundleDeliveries"} : Store(c, With(t, row))
    BY <1>1 DEF SeedWorkspace, InsertCoverageRun, SeedUser, SeedChannel,
                InsertBundleDelivery, InsertUnique
  <2>2. Whole(With(t, row))
    BY <1>w, InsertKeepsWhole
  <2>3. QED
    BY <2>1, <2>2, StoreKeeps
<1>2. ASSUME NEW row, SeedCompetitor(c, row) PROVE StoreInv'
  <2>1. Has("workspaces", row.workspace) /\ Store(c, With("competitors", row))
    BY <1>2 DEF SeedCompetitor, InsertUnique
  <2>2. Whole(With("competitors", row))
    BY <1>w, <2>1, InsertKeepsWhole
  <2>3. QED
    BY <2>1, <2>2, StoreKeeps
<1>3. ASSUME NEW row, SeedMembership(c, row) PROVE StoreInv'
  <2>1. /\ \A m \in db.memberships : m.user # row.user \/ m.workspace # row.workspace
        /\ Store(c, With("memberships", row))
    BY <1>3 DEF SeedMembership, InsertUnique
  <2>2. Whole(With("memberships", row))
    BY <1>w, <2>1, InsertKeepsWhole
  <2>3. QED
    BY <2>1, <2>2, StoreKeeps
<1>4. ASSUME NEW w, NEW row \in Candidates.deltas, InsertDelta(c, w, row) PROVE StoreInv'
  <2>1. Has("sources", row.source) /\ Store(c, With("deltas", row))
    BY <1>4 DEF InsertDelta, InsertUnique, SourceIn, Has, HasIn
  <2>2. Whole(With("deltas", row))
    BY <1>w, <2>1, SeedAssumption, InsertKeepsWhole
  <2>3. QED
    BY <2>1, <2>2, StoreKeeps
<1>5. ASSUME NEW w, NEW row, InsertClaim(c, w, row) PROVE StoreInv'
  <2>1. Has("deltas", row.delta) /\ Store(c, With("claims", row))
    BY <1>5 DEF InsertClaim, InsertUnique, DeltaIn, Has, HasIn
  <2>2. Whole(With("claims", row))
    BY <1>w, <2>1, InsertKeepsWhole
  <2>3. QED
    BY <2>1, <2>2, StoreKeeps
<1>6. ASSUME NEW w, NEW row \in Candidates.alerts, EnqueueMemoryAlert(c, w, row)
      PROVE  StoreInv'
  <2>1. /\ Has("deltas", row.delta) /\ Store(c, With("alerts", row))
        /\ \A a \in db.alerts : a.delta # row.delta \/ a.channel # row.channel
    BY <1>6 DEF EnqueueMemoryAlert, InsertUnique, DeltaIn, Has, HasIn
  <2>2. Whole(With("alerts", row))
    BY <1>w, <2>1, SeedAssumption, InsertKeepsWhole
  <2>3. QED
    BY <2>1, <2>2, StoreKeeps
<1>7. ASSUME NEW row, SeedSource(c, row) PROVE StoreInv'
  <2> DEFINE health == [id |-> row.id, fetched |-> FALSE, failures |-> 0]
             list == [id |-> row.id, snapshots |-> <<>>]
             new == [With("sources", row) EXCEPT !.health = With("sources", row).health \cup {health},
                                                 !.bySource = With("sources", row).bySource \cup {list}]
  <2>1. Has("competitors", row.competitor) /\ ~Has("sources", row.id) /\ Store(c, new)
    BY <1>7 DEF SeedSource
  <2>2. /\ DOMAIN new = DOMAIN db /\ new.sources = db.sources \cup {row}
        /\ new.health = db.health \cup {health} /\ new.bySource = db.bySource \cup {list}
        /\ \A u \in Tables \ {"sources", "health", "bySource"} : new[u] = db[u]
    BY <1>w DEF Whole, FieldsIn, Tables, With
  <2> HIDE DEF new
  <2>3. health.id = row.id /\ list.id = row.id /\ list.snapshots = <<>>
        /\ DOMAIN health = {"id", "fetched", "failures"} /\ DOMAIN list = {"id", "snapshots"}
    OBVIOUS
  <2> HIDE DEF health, list
  <2>4. \A u \in Tables : \A id : HasIn(db, u, id) => HasIn(new, u, id)
    BY <2>2 DEF HasIn, Tables
  <2>5. FieldsIn(new)
    <3> DEFINE ids == {r.id : r \in Seeded.snapshots \cup Candidates.snapshots}
    <3>1. \A h \in db.bySource : {"id", "snapshots"} \subseteq DOMAIN h /\ h.snapshots \in Seq(ids)
      BY <1>w DEF Whole, FieldsIn
    <3>2. {"id", "snapshots"} \subseteq DOMAIN list /\ list.snapshots \in Seq(ids)
      <4> HIDE DEF ids
      <4>1. <<>> \in Seq(ids)
        OBVIOUS
      <4>2. QED
        BY <4>1, <2>3
    <3>3. \A h \in new.bySource : {"id", "snapshots"} \subseteq DOMAIN h /\ h.snapshots \in Seq(ids)
      <4> HIDE DEF ids
      <4>1. QED
        BY <3>1, <3>2, <2>2
    <3>4. new.deltas = db.deltas /\ new.alerts = db.alerts /\ new.snapshots = db.snapshots
      BY <2>2 DEF Tables
    <3>5. \A r \in new.health : {"id", "fetched", "failures"} \subseteq DOMAIN r
      BY <1>w, <2>2, <2>3 DEF Whole, FieldsIn
    <3>6. QED
      BY <1>w, <2>2, <3>3, <3>4, <3>5 DEF Whole, FieldsIn
  <2>6. /\ \A r \in new.competitors : HasIn(new, "workspaces", r.workspace)
        /\ \A r \in new.snapshots : HasIn(new, "sources", r.source)
        /\ \A r \in new.deltas : HasIn(new, "sources", r.source)
        /\ \A r \in new.claims : HasIn(new, "deltas", r.delta)
    BY <1>w, <2>2, <2>4 DEF Whole, ConsistentIn, Tables
  <2>7. ASSUME NEW r \in new.sources
        PROVE  HasIn(new, "competitors", r.competitor) /\ HasIn(new, "health", r.id)
    <3>1. CASE r \in db.sources
      BY <1>w, <3>1, <2>4 DEF Whole, ConsistentIn, Tables
    <3>2. CASE r = row
      BY <3>2, <2>1, <2>2, <2>3, <2>4 DEF HasIn, Has, Tables
    <3>3. QED
      BY <3>1, <3>2, <2>2
  <2>8. \A r, other \in new.alerts :
          /\ HasIn(new, "deltas", r.delta)
          /\ r.delta = other.delta /\ r.channel = other.channel => r = other
    BY <1>w, <2>2, <2>4 DEF Whole, ConsistentIn, Tables
  <2>9. /\ \A r, other \in new.memberships :
             r.user = other.user /\ r.workspace = other.workspace => r = other
        /\ new.sectionVersions = {SlotOf(r) : r \in new.sections}
    BY <1>w, <2>2 DEF Whole, ConsistentIn, Tables
  <2>10. new.snapshots = db.snapshots
    BY <2>2 DEF Tables
  <2>11. ASSUME NEW h \in new.bySource
         PROVE  {h.snapshots[i] : i \in DOMAIN h.snapshots} =
                  {r.id : r \in {s \in new.snapshots : s.source = h.id}}
    <3>1. CASE h \in db.bySource
      BY <1>w, <3>1, <2>10 DEF Whole, ConsistentIn
    <3>2. CASE h = list
      <4>1. \A s \in db.snapshots : s.source # row.id
        BY <1>w, <2>1 DEF Whole, ConsistentIn, Has, HasIn
      <4>2. {s \in new.snapshots : s.source = h.id} = {}
        BY <4>1, <2>10, <2>3, <3>2
      <4>3. DOMAIN h.snapshots = {}
        BY <3>2, <2>3
      <4>4. QED
        BY <4>2, <4>3
    <3>3. QED
      BY <3>1, <3>2, <2>2
  <2>12. Whole(new)
    BY <2>5, <2>6, <2>7, <2>8, <2>9, <2>11 DEF Whole, ConsistentIn
  <2>13. QED
    BY <2>1, <2>12, StoreKeeps
<1>8. ASSUME NEW w, NEW row, InsertSection(c, w, row) PROVE StoreInv'
  <2> DEFINE new == [With("sections", row) EXCEPT
                       !.sectionVersions = With("sections", row).sectionVersions \cup {SlotOf(row)}]
  <2>1. Store(c, new)
    BY <1>8 DEF InsertSection
  <2>2. /\ DOMAIN new = DOMAIN db /\ new.sections = db.sections \cup {row}
        /\ new.sectionVersions = db.sectionVersions \cup {SlotOf(row)}
        /\ \A u \in Tables \ {"sections", "sectionVersions"} : new[u] = db[u]
    BY <1>w DEF Whole, FieldsIn, Tables, With
  <2> HIDE DEF new
  <2>3. FieldsIn(new)
    BY <1>w, <2>2 DEF Whole, FieldsIn, Tables
  <2>4. new.sectionVersions = {SlotOf(r) : r \in new.sections}
    <3>1. db.sectionVersions = {SlotOf(r) : r \in db.sections}
      BY <1>w DEF Whole, ConsistentIn
    <3>2. QED
      BY <2>2, <3>1
  <2>5. ConsistentIn(new)
    <3>1. /\ new.competitors = db.competitors /\ new.workspaces = db.workspaces
          /\ new.sources = db.sources /\ new.health = db.health /\ new.deltas = db.deltas
          /\ new.claims = db.claims /\ new.alerts = db.alerts
          /\ new.memberships = db.memberships /\ new.snapshots = db.snapshots
          /\ new.bySource = db.bySource
      BY <2>2 DEF Tables
    <3>2. ASSUME NEW h \in new.bySource
          PROVE  {h.snapshots[i] : i \in DOMAIN h.snapshots} =
                   {r.id : r \in {s \in new.snapshots : s.source = h.id}}
      <4>1. {h.snapshots[i] : i \in DOMAIN h.snapshots} =
              {r.id : r \in {s \in db.snapshots : s.source = h.id}}
        BY <1>w, <3>1 DEF Whole, ConsistentIn
      <4>2. QED
        BY <4>1, <3>1, Zenon
    <3>3. QED
      BY <1>w, <3>1, <3>2, <2>4, ZenonT(30) DEF Whole, ConsistentIn, HasIn
  <2>6. QED
    BY <2>1, <2>3, <2>5, StoreKeeps DEF Whole
<1>9. ASSUME NEW w, NEW row \in Candidates.snapshots, InsertSnapshot(c, w, row)
      PROVE  StoreInv'
  <2> DEFINE ids == {r.id : r \in Seeded.snapshots \cup Candidates.snapshots}
             Listed(h) == IF h.id = row.source
                          THEN [h EXCEPT !.snapshots = Append(h.snapshots, row.id)] ELSE h
             new == [With("snapshots", row) EXCEPT
                       !.bySource = {Listed(h) : h \in With("snapshots", row).bySource}]
  <2>1. SourceIn(w, row.source) /\ Store(c, new)
    BY <1>9 DEF InsertSnapshot
  <2>2. /\ DOMAIN new = DOMAIN db /\ new.snapshots = db.snapshots \cup {row}
        /\ new.bySource = {Listed(h) : h \in db.bySource}
        /\ \A u \in Tables \ {"snapshots", "bySource"} : new[u] = db[u]
    BY <1>w DEF Whole, FieldsIn, Tables, With
  <2> HIDE DEF new
  <2>3. Has("sources", row.source)
    BY <2>1 DEF SourceIn, Has, HasIn
  <2>4. ASSUME NEW h \in db.bySource
        PROVE  /\ {"id", "snapshots"} \subseteq DOMAIN Listed(h)
               /\ Listed(h).id = h.id
               /\ Listed(h).snapshots = IF h.id = row.source THEN Append(h.snapshots, row.id)
                                                            ELSE h.snapshots
               /\ Listed(h).snapshots \in Seq(ids)
               /\ {Listed(h).snapshots[i] : i \in DOMAIN Listed(h).snapshots} =
                    {r.id : r \in {s \in new.snapshots : s.source = h.id}}
    <3>1. {"id", "snapshots"} \subseteq DOMAIN h /\ h.snapshots \in Seq(ids)
      BY <1>w DEF Whole, FieldsIn
    <3>2. /\ {"id", "snapshots"} \subseteq DOMAIN Listed(h) /\ Listed(h).id = h.id
          /\ Listed(h).snapshots = IF h.id = row.source THEN Append(h.snapshots, row.id)
                                                        ELSE h.snapshots
      BY <3>1
    <3>3. row.id \in ids
      OBVIOUS
    <3>4. {h.snapshots[i] : i \in DOMAIN h.snapshots} =
            {r.id : r \in {s \in db.snapshots : s.source = h.id}}
      BY <1>w DEF Whole, ConsistentIn
    <3> HIDE DEF Listed, ids
    <3>5. ASSUME h.id # row.source
          PROVE  {Listed(h).snapshots[i] : i \in DOMAIN Listed(h).snapshots} =
                   {r.id : r \in {s \in new.snapshots : s.source = h.id}}
      <4>1. {s \in new.snapshots : s.source = h.id} = {s \in db.snapshots : s.source = h.id}
        BY <2>2, <3>5
      <4>2. Listed(h).snapshots = h.snapshots
        BY <3>2, <3>5
      <4>3. QED
        BY <3>4, <4>1, <4>2
    <3>6. ASSUME h.id = row.source
          PROVE  {Listed(h).snapshots[i] : i \in DOMAIN Listed(h).snapshots} =
                   {r.id : r \in {s \in new.snapshots : s.source = h.id}}
      <4> DEFINE old == h.snapshots
      <4>1. {s \in new.snapshots : s.source = h.id}
              = {s \in db.snapshots : s.source = h.id} \cup {row}
        BY <2>2, <3>6
      <4>2. {r.id : r \in {s \in new.snapshots : s.source = h.id}}
              = {old[i] : i \in DOMAIN old} \cup {row.id}
        BY <3>4, <4>1
      <4> HIDE DEF old
      <4>3. old \in Seq(ids)
        BY <3>1 DEF old
      <4>4. /\ Append(old, row.id) \in Seq(ids) /\ Len(Append(old, row.id)) = Len(old) + 1
            /\ \A i \in 1 .. Len(old) : Append(old, row.id)[i] = old[i]
            /\ Append(old, row.id)[Len(old) + 1] = row.id
        BY <4>3, <3>3, AppendProperties
      <4>5. /\ DOMAIN old = 1 .. Len(old) /\ Len(old) \in Nat
            /\ DOMAIN Append(old, row.id) = 1 .. Len(old) + 1
        BY <4>3, <4>4, LenProperties
      <4>6. {Append(old, row.id)[i] : i \in DOMAIN Append(old, row.id)}
              = {old[i] : i \in DOMAIN old} \cup {row.id}
        <5> DEFINE a == Append(old, row.id)
                   n == Len(old)
        <5>1. 1 .. n + 1 = (1 .. n) \cup {n + 1}
          BY <4>5
        <5> HIDE DEF a, n
        <5>2. {a[i] : i \in 1 .. n + 1} = {old[i] : i \in 1 .. n} \cup {row.id}
          BY <4>4, <5>1 DEF a, n
        <5>3. QED
          BY <5>2, <4>5 DEF a, n
      <4>7. Listed(h).snapshots = Append(old, row.id)
        BY <3>2, <3>6 DEF old
      <4>8. QED
        BY <4>2, <4>6, <4>7
    <3>7. {Listed(h).snapshots[i] : i \in DOMAIN Listed(h).snapshots} =
            {r.id : r \in {s \in new.snapshots : s.source = h.id}}
      <4>1. QED
        BY <3>5, <3>6
    <3>8. Listed(h).snapshots \in Seq(ids)
      BY <3>1, <3>2, <3>3, AppendProperties
    <3>9. QED
      BY <3>2, <3>7, <3>8
  <2> HIDE DEF Listed
  <2>5. FieldsIn(new)
    <3>1. \A h \in new.bySource : /\ {"id", "snapshots"} \subseteq DOMAIN h
                                  /\ h.snapshots \in Seq(ids)
      BY <2>2, <2>4
    <3>2. \A r \in new.snapshots : r \in Seeded.snapshots \cup Candidates.snapshots
      BY <1>w, <2>2 DEF Whole, FieldsIn
    <3>3. new.deltas = db.deltas /\ new.alerts = db.alerts /\ new.health = db.health
      BY <2>2 DEF Tables
    <3>4. QED
      BY <1>w, <2>2, <3>1, <3>2, <3>3 DEF Whole, FieldsIn
  <2>6. \A h \in new.bySource :
          {h.snapshots[i] : i \in DOMAIN h.snapshots} =
            {r.id : r \in {s \in new.snapshots : s.source = h.id}}
    <3> SUFFICES ASSUME NEW g \in new.bySource
                 PROVE  {g.snapshots[i] : i \in DOMAIN g.snapshots} =
                          {r.id : r \in {s \in new.snapshots : s.source = g.id}}
      OBVIOUS
    <3>1. PICK h \in db.bySource : g = Listed(h)
      BY <2>2
    <3>2. g.id = h.id
      BY <2>4, <3>1
    <3>3. {g.snapshots[i] : i \in DOMAIN g.snapshots} =
            {r.id : r \in {s \in new.snapshots : s.source = h.id}}
      BY <2>4, <3>1
    <3>4. QED
      BY <3>2, <3>3
  <2>7. /\ new.competitors = db.competitors /\ new.workspaces = db.workspaces
        /\ new.sources = db.sources /\ new.health = db.health /\ new.deltas = db.deltas
        /\ new.claims = db.claims /\ new.alerts = db.alerts
        /\ new.memberships = db.memberships /\ new.sections = db.sections
        /\ new.sectionVersions = db.sectionVersions
    BY <2>2 DEF Tables
  <2>8. \A r \in new.snapshots : HasIn(new, "sources", r.source)
    BY <1>w, <2>2, <2>3, <2>7 DEF Whole, ConsistentIn, Has, HasIn
  <2>9. ConsistentIn(new)
    BY <1>w, <2>6, <2>7, <2>8, ZenonT(30) DEF Whole, ConsistentIn, HasIn
  <2>10. QED
    BY <2>1, <2>5, <2>9, StoreKeeps DEF Whole
<1>10. QED
  BY <1>1, <1>2, <1>3, <1>4, <1>5, <1>6, <1>7, <1>8, <1>9 DEF InsertRow, InsertScopedRow

\* A row that is changed keeps its id and its references.
LEMMA ReplaceKeepsWhole ==
  ASSUME Whole(db), NEW t \in {"deltas", "alerts", "health", "users"}, NEW old, NEW row,
         t = "deltas" => /\ old \in db.deltas /\ {"id", "source", "state"} \subseteq DOMAIN row
                         /\ row.id = old.id /\ row.source = old.source,
         t = "alerts" => /\ old \in db.alerts
                         /\ {"id", "delta", "channel", "status"} \subseteq DOMAIN row
                         /\ row.delta = old.delta /\ row.channel = old.channel,
         t = "health" => /\ old \in db.health /\ row.id = old.id
                         /\ {"id", "fetched", "failures"} \subseteq DOMAIN row
  PROVE  Whole([db EXCEPT ![t] = (db[t] \ {old}) \cup {row}])
<1> DEFINE new == [db EXCEPT ![t] = (db[t] \ {old}) \cup {row}]
<1>1. /\ DOMAIN new = DOMAIN db /\ new[t] = (db[t] \ {old}) \cup {row}
      /\ \A u \in Tables : u # t => new[u] = db[u]
  BY DEF Whole, FieldsIn, Tables
<1> HIDE DEF new
<1>2. /\ new.competitors = db.competitors /\ new.workspaces = db.workspaces
      /\ new.sources = db.sources /\ new.snapshots = db.snapshots
      /\ new.claims = db.claims /\ new.memberships = db.memberships
      /\ new.sections = db.sections /\ new.sectionVersions = db.sectionVersions
      /\ new.bySource = db.bySource
  BY <1>1 DEF Tables
<1>3. /\ t # "deltas" => new.deltas = db.deltas
      /\ t # "alerts" => new.alerts = db.alerts
      /\ t # "health" => new.health = db.health
  BY <1>1 DEF Tables
<1>4. \A id : /\ HasIn(db, "workspaces", id) => HasIn(new, "workspaces", id)
              /\ HasIn(db, "competitors", id) => HasIn(new, "competitors", id)
              /\ HasIn(db, "sources", id) => HasIn(new, "sources", id)
  BY <1>2 DEF HasIn
<1>5. \A id : HasIn(db, "deltas", id) => HasIn(new, "deltas", id)
  <2>1. CASE t = "deltas"
    BY <2>1, <1>1 DEF HasIn
  <2>2. QED
    BY <2>1, <1>3 DEF HasIn
<1>6. \A id : HasIn(db, "health", id) => HasIn(new, "health", id)
  <2>1. CASE t = "health"
    BY <2>1, <1>1 DEF HasIn
  <2>2. QED
    BY <2>1, <1>3 DEF HasIn
<1>7. FieldsIn(new)
  <2>1. Tables \subseteq DOMAIN new
    BY <1>1 DEF Whole, FieldsIn
  <2>2. \A r \in new.deltas : {"id", "source", "state"} \subseteq DOMAIN r
    BY <1>1, <1>3 DEF Whole, FieldsIn
  <2>3. \A r \in new.alerts : {"id", "delta", "channel", "status"} \subseteq DOMAIN r
    BY <1>1, <1>3 DEF Whole, FieldsIn
  <2>4. \A r \in new.health : {"id", "fetched", "failures"} \subseteq DOMAIN r
    BY <1>1, <1>3 DEF Whole, FieldsIn
  <2>5. QED
    BY <1>2, <2>1, <2>2, <2>3, <2>4 DEF Whole, FieldsIn
<1>8. /\ \A r \in new.competitors : HasIn(new, "workspaces", r.workspace)
      /\ \A r \in new.sources : /\ HasIn(new, "competitors", r.competitor)
                                /\ HasIn(new, "health", r.id)
      /\ \A r \in new.snapshots : HasIn(new, "sources", r.source)
      /\ \A r \in new.claims : HasIn(new, "deltas", r.delta)
  BY <1>2, <1>4, <1>5, <1>6 DEF Whole, ConsistentIn
<1>9. \A r \in new.deltas : HasIn(new, "sources", r.source)
  BY <1>1, <1>3, <1>4 DEF Whole, ConsistentIn
<1>10. \A r, other \in new.alerts :
         /\ HasIn(new, "deltas", r.delta)
         /\ r.delta = other.delta /\ r.channel = other.channel => r = other
  <2>1. CASE t = "alerts"
    <3>1. new.alerts = (db.alerts \ {old}) \cup {row}
      BY <2>1, <1>1
    <3>2. QED
      BY <2>1, <3>1, <1>5 DEF Whole, ConsistentIn
  <2>2. CASE t # "alerts"
    BY <2>2, <1>3, <1>5 DEF Whole, ConsistentIn
  <2>3. QED
    BY <2>1, <2>2
<1>11. \A r, other \in new.memberships :
         r.user = other.user /\ r.workspace = other.workspace => r = other
  BY <1>2 DEF Whole, ConsistentIn
<1>12. ASSUME NEW h \in new.bySource
       PROVE  {h.snapshots[i] : i \in DOMAIN h.snapshots} =
                {r.id : r \in {s \in new.snapshots : s.source = h.id}}
  <2>1. {h.snapshots[i] : i \in DOMAIN h.snapshots} =
          {r.id : r \in {s \in db.snapshots : s.source = h.id}}
    BY <1>2 DEF Whole, ConsistentIn
  <2>2. QED
    BY <2>1, <1>2, Zenon
<1>13. new.sectionVersions = {SlotOf(r) : r \in new.sections}
  BY <1>2, Zenon DEF Whole, ConsistentIn
<1>14. QED
  BY <1>7, <1>8, <1>9, <1>10, <1>11, <1>12, <1>13 DEF Whole, ConsistentIn, new

\* The calls that change a row.
LEMMA UpdateKeeps ==
  ASSUME StoreInv, NEW c \in Callers, UpdateRow(c)
  PROVE  StoreInv'
<1>w. Whole(db)
  BY DEF StoreInv
<1>1. ASSUME NEW w, NEW row \in db.deltas, NEW to, TransitionDelta(c, w, row, to)
      PROVE  StoreInv'
  <2> DEFINE next == [row EXCEPT !.state = to]
  <2>1. /\ next.id = row.id /\ next.source = row.source
        /\ {"id", "source", "state"} \subseteq DOMAIN next
    BY <1>w DEF Whole, FieldsIn
  <2>2. Store(c, [db EXCEPT !["deltas"] = (db["deltas"] \ {row}) \cup {next}])
    BY <1>1 DEF TransitionDelta, Replace
  <2> HIDE DEF next
  <2>3. Whole([db EXCEPT !["deltas"] = (db["deltas"] \ {row}) \cup {next}])
    BY <1>w, <2>1, ReplaceKeepsWhole
  <2>4. QED
    BY <2>2, <2>3, StoreKeeps
<1>2. ASSUME NEW w, NEW row \in db.alerts, NEW to, RecordMemoryOutcome(c, w, row, to)
      PROVE  StoreInv'
  <2> DEFINE next == [row EXCEPT !.status = to]
  <2>1. /\ next.delta = row.delta /\ next.channel = row.channel
        /\ {"id", "delta", "channel", "status"} \subseteq DOMAIN next
    BY <1>w DEF Whole, FieldsIn
  <2>2. Store(c, [db EXCEPT !["alerts"] = (db["alerts"] \ {row}) \cup {next}])
    BY <1>2 DEF RecordMemoryOutcome, Replace
  <2> HIDE DEF next
  <2>3. Whole([db EXCEPT !["alerts"] = (db["alerts"] \ {row}) \cup {next}])
    BY <1>w, <2>1, ReplaceKeepsWhole
  <2>4. QED
    BY <2>2, <2>3, StoreKeeps
<1>3. ASSUME NEW row \in db.health, NEW fetched, MarkSource(c, row, fetched)
      PROVE  StoreInv'
  <2> DEFINE next == IF fetched THEN [row EXCEPT !.fetched = TRUE, !.failures = 0]
                     ELSE [row EXCEPT !.failures = row.failures + 1]
  <2>1. next.id = row.id /\ {"id", "fetched", "failures"} \subseteq DOMAIN next
    BY <1>w DEF Whole, FieldsIn
  <2>2. Store(c, [db EXCEPT !["health"] = (db["health"] \ {row}) \cup {next}])
    BY <1>3 DEF MarkSource, Replace
  <2> HIDE DEF next
  <2>3. Whole([db EXCEPT !["health"] = (db["health"] \ {row}) \cup {next}])
    BY <1>w, <2>1, ReplaceKeepsWhole
  <2>4. QED
    BY <2>2, <2>3, StoreKeeps
<1>4. ASSUME NEW login, LinkOrCreateUser(c, login) PROVE StoreInv'
  <2>1. CASE \E u \in db.users : u.email = login.email
    <3>1. PICK u \in db.users : Replace(c, "users", u, [u EXCEPT !.subject = login.subject])
      BY <1>4, <2>1 DEF LinkOrCreateUser
    <3> DEFINE next == [u EXCEPT !.subject = login.subject]
    <3>2. Store(c, [db EXCEPT !["users"] = (db["users"] \ {u}) \cup {next}])
      BY <3>1 DEF Replace
    <3> HIDE DEF next
    <3>3. Whole([db EXCEPT !["users"] = (db["users"] \ {u}) \cup {next}])
      BY <1>w, ReplaceKeepsWhole
    <3>4. QED
      BY <3>2, <3>3, StoreKeeps
  <2>2. CASE ~ \E u \in db.users : u.email = login.email
    <3> DEFINE row == [id |-> login.subject, email |-> login.email, subject |-> login.subject]
    <3>1. Store(c, With("users", row))
      BY <1>4, <2>2 DEF LinkOrCreateUser, InsertUnique
    <3> HIDE DEF row
    <3>2. Whole(With("users", row))
      BY <1>w, InsertKeepsWhole
    <3>3. QED
      BY <3>1, <3>2, StoreKeeps
  <2>3. QED
    BY <2>1, <2>2
<1>5. QED
  BY <1>1, <1>2, <1>3, <1>4 DEF UpdateRow

LEMMA StoreInit == MemoryInit => StoreInv
<1> SUFFICES ASSUME MemoryInit PROVE StoreInv
  OBVIOUS
<1>1. Whole(db)
  BY SeedAssumption DEF MemoryInit, Whole
<1>2. /\ DOMAIN checkpoint = Callers /\ \A c \in Callers : checkpoint[c] = {}
      /\ db = settled
  BY DEF MemoryInit
<1>3. QED
  BY <1>1, <1>2 DEF StoreInv, SettledInv, InTransaction

LEMMA StoreStep == StoreInv /\ [MemoryNext]_memoryVars => StoreInv'
<1> SUFFICES ASSUME StoreInv, [MemoryNext]_memoryVars PROVE StoreInv'
  OBVIOUS
<1>1. CASE MemoryNext
  BY <1>1, InsertKeeps, UpdateKeeps, BeginKeeps, EndKeeps DEF MemoryNext
<1>2. CASE UNCHANGED memoryVars
  <2>1. /\ db' = db /\ checkpoint' = checkpoint /\ settled' = settled
        /\ overlapped' = overlapped
    BY <1>2 DEF memoryVars
  <2>2. Whole(db)' /\ \A c \in Callers : \A copy \in checkpoint'[c] : Whole(copy)
    BY <2>1 DEF StoreInv
  <2>3. SettledInv'
    BY <2>1 DEF StoreInv, SettledInv, InTransaction
  <2>4. QED
    BY <2>1, <2>2, <2>3 DEF StoreInv
<1>3. QED
  BY <1>1, <1>2

\* A roll back puts back every map, the reserved slots and the snapshot order too: however
\* many callers there are and however their transactions overlap, the maps agree with each
\* other, and as long as they do not overlap nothing of a rolled back transaction remains
\* and nothing else is lost, for any seeded store that is whole.
\* (withTransaction, memory-store.ts:699-707)
THEOREM RollbackWhole == MemorySpec => []RollbackIsWhole
<1>1. StoreInv => RollbackIsWhole
  BY DEF StoreInv, SettledInv, Whole, RollbackIsWhole
<1>2. QED
  BY StoreInit, StoreStep, <1>1, PTL DEF MemorySpec

\* The rows of a table have ids of their own.
Keyed(tables) ==
  /\ UniqueIn(tables)
  /\ \A row \in tables.users : "id" \in DOMAIN row

\* The inductive invariant of the types, beside the one of the tables.
KeysInv ==
  /\ Keyed(db)
  /\ \A c \in Callers : \A copy \in checkpoint[c] : Keyed(copy)
  /\ \A c \in Callers : checkpoint[c] = {} \/ \E copy : checkpoint[c] = {copy}
  /\ overlapped \in BOOLEAN
  /\ calls \in 0 .. MaxCalls

LEMMA OverlapsBoolean == ASSUME overlapped \in BOOLEAN, NEW c PROVE Overlaps(c) \in BOOLEAN
BY DEF Overlaps

LEMMA StoreKeys ==
  ASSUME KeysInv, NEW c \in Callers, NEW tables, Store(c, tables), Keyed(tables)
  PROVE  KeysInv'
<1>1. /\ db' = tables /\ overlapped' = Overlaps(c) /\ checkpoint' = checkpoint
      /\ calls < MaxCalls /\ calls' = calls + 1
  BY DEF Store
<1>2. overlapped' \in BOOLEAN
  BY <1>1, OverlapsBoolean DEF KeysInv
<1>3. calls' \in 0 .. MaxCalls
  BY <1>1, MemoryAssumption DEF KeysInv
<1>4. Keyed(db)'
  BY <1>1 DEF Keyed, UniqueIn
<1>5. QED
  BY <1>1, <1>2, <1>3, <1>4 DEF KeysInv

LEMMA RowIsNew ==
  ASSUME Keyed(db), NEW tables, NEW t \in RowTables, NEW row, ~Has(t, row.id),
         tables[t] = db[t] \cup {row}, \A u \in RowTables \ {t} : tables[u] = db[u],
         t = "users" => "id" \in DOMAIN row
  PROVE  Keyed(tables)
<1>1. \A r \in db[t] : r.id # row.id
  BY DEF Has, HasIn
<1>2. \A r, other \in tables[t] : r.id = other.id => r = other
  BY <1>1 DEF Keyed, UniqueIn
<1>3. "users" \in RowTables
  BY DEF RowTables, Tables
<1>4. \A r \in tables.users : "id" \in DOMAIN r
  BY <1>3 DEF Keyed
<1>5. UniqueIn(tables)
  BY <1>2 DEF Keyed, UniqueIn
<1>6. QED
  BY <1>4, <1>5 DEF Keyed

LEMMA RowIsReplaced ==
  ASSUME Keyed(db), Whole(db), NEW t \in RowTables, NEW old \in db[t], NEW new,
         new.id = old.id, t = "users" => "id" \in DOMAIN new
  PROVE  Keyed([db EXCEPT ![t] = (db[t] \ {old}) \cup {new}])
<1> DEFINE tables == [db EXCEPT ![t] = (db[t] \ {old}) \cup {new}]
<1>1. RowTables \subseteq DOMAIN db /\ "users" \in RowTables
  BY DEF RowTables, Tables, Whole, FieldsIn
<1>2. /\ tables[t] = (db[t] \ {old}) \cup {new}
      /\ \A u \in RowTables \ {t} : tables[u] = db[u]
  BY <1>1
<1> HIDE DEF tables
<1>3. \A r \in db[t] \ {old} : r.id # new.id
  BY DEF Keyed, UniqueIn
<1>4. \A r, other \in tables[t] : r.id = other.id => r = other
  BY <1>2, <1>3 DEF Keyed, UniqueIn
<1>5. UniqueIn(tables)
  BY <1>2, <1>4 DEF Keyed, UniqueIn
<1>6. \A r \in tables.users : "id" \in DOMAIN r
  BY <1>1, <1>2 DEF Keyed
<1>7. QED
  BY <1>5, <1>6 DEF Keyed, tables

\* The calls that insert one row.
LEMMA InsertKeys ==
  ASSUME KeysInv, StoreInv, NEW c \in Callers,
         InsertRow(c) \/ \E w \in Tenants : InsertScopedRow(c, w)
  PROVE  KeysInv'
<1>k. Keyed(db) /\ FieldsIn(db)
  BY DEF KeysInv, StoreInv, Whole
<1>t. RowTables \subseteq Tables /\ Tables \subseteq DOMAIN db
  BY <1>k DEF RowTables, FieldsIn
<1>1. ASSUME NEW t \in RowTables, NEW row, InsertUnique(c, t, row),
             t = "users" => "id" \in DOMAIN row
      PROVE  KeysInv'
  <2>1. ~Has(t, row.id) /\ Store(c, With(t, row))
    BY <1>1 DEF InsertUnique
  <2>2. /\ With(t, row)[t] = db[t] \cup {row}
        /\ \A u \in RowTables \ {t} : With(t, row)[u] = db[u]
    BY <1>k, <1>t, RowAdded
  <2>3. Keyed(With(t, row))
    BY <1>1, <1>k, <2>1, <2>2, RowIsNew
  <2>4. QED
    BY <2>1, <2>3, StoreKeys
<1>2. ASSUME NEW row, SeedSource(c, row) PROVE KeysInv'
  <2> DEFINE tables == [With("sources", row) EXCEPT
                          !.health = @ \cup {[id |-> row.id, fetched |-> FALSE, failures |-> 0]},
                          !.bySource = @ \cup {[id |-> row.id, snapshots |-> <<>>]}]
  <2>1. ~Has("sources", row.id) /\ Store(c, tables)
    BY <1>2 DEF SeedSource
  <2>2. \A u \in RowTables : tables[u] = With("sources", row)[u]
    BY <1>k, <1>t DEF RowTables, With
  <2> HIDE DEF tables
  <2>3. "sources" \in RowTables
    BY DEF RowTables, Tables
  <2>4. /\ tables["sources"] = db["sources"] \cup {row}
        /\ \A u \in RowTables \ {"sources"} : tables[u] = db[u]
    BY <1>k, <1>t, <2>2, <2>3, RowAdded
  <2>5. QED
    BY <1>k, <2>1, <2>3, <2>4, RowIsNew, StoreKeys
<1>3. ASSUME NEW w, NEW row, InsertSnapshot(c, w, row) PROVE KeysInv'
  <2> DEFINE tables == [With("snapshots", row) EXCEPT
                          !.bySource = {IF h.id = row.source
                                        THEN [h EXCEPT !.snapshots = Append(@, row.id)]
                                        ELSE h : h \in @}]
  <2>1. ~Has("snapshots", row.id) /\ Store(c, tables)
    BY <1>3 DEF InsertSnapshot
  <2>2. \A u \in RowTables : tables[u] = With("snapshots", row)[u]
    BY <1>k, <1>t DEF RowTables, With
  <2> HIDE DEF tables
  <2>3. "snapshots" \in RowTables
    BY DEF RowTables, Tables
  <2>4. /\ tables["snapshots"] = db["snapshots"] \cup {row}
        /\ \A u \in RowTables \ {"snapshots"} : tables[u] = db[u]
    BY <1>k, <1>t, <2>2, <2>3, RowAdded
  <2>5. QED
    BY <1>k, <2>1, <2>3, <2>4, RowIsNew, StoreKeys
<1>4. ASSUME NEW w, NEW row, InsertSection(c, w, row) PROVE KeysInv'
  <2> DEFINE tables == [With("sections", row) EXCEPT !.sectionVersions = @ \cup {SlotOf(row)}]
  <2>1. ~Has("sections", row.id) /\ Store(c, tables)
    BY <1>4 DEF InsertSection
  <2>2. \A u \in RowTables : tables[u] = With("sections", row)[u]
    BY <1>k, <1>t DEF RowTables, With
  <2> HIDE DEF tables
  <2>3. "sections" \in RowTables
    BY DEF RowTables, Tables
  <2>4. /\ tables["sections"] = db["sections"] \cup {row}
        /\ \A u \in RowTables \ {"sections"} : tables[u] = db[u]
    BY <1>k, <1>t, <2>2, <2>3, RowAdded
  <2>5. QED
    BY <1>k, <2>1, <2>3, <2>4, RowIsNew, StoreKeys
<1>5. ASSUME InsertRow(c) PROVE KeysInv'
  <2>1. CASE \E row \in Candidates.sources : SeedSource(c, row)
    BY <2>1, <1>2
  <2>2. CASE ~ \E row \in Candidates.sources : SeedSource(c, row)
    <3>1. PICK t \in RowTables :
            \E row : InsertUnique(c, t, row) /\ (t = "users" => "id" \in DOMAIN row)
      BY <1>5, <2>2, SeedAssumption
      DEF InsertRow, SeedWorkspace, SeedCompetitor, InsertCoverageRun, SeedUser, SeedMembership,
          SeedChannel, InsertBundleDelivery, RowTables, Tables
    <3>2. QED
      BY <3>1, <1>1
  <2>3. QED
    BY <2>1, <2>2
<1>6. ASSUME NEW w, InsertScopedRow(c, w) PROVE KeysInv'
  <2>1. CASE \E row \in Candidates.snapshots : InsertSnapshot(c, w, row)
    BY <2>1, <1>3
  <2>2. CASE \E row \in Candidates.sections : InsertSection(c, w, row)
    BY <2>2, <1>4
  <2>3. CASE \/ \E row \in Candidates.deltas : InsertDelta(c, w, row)
             \/ \E row \in Candidates.claims : InsertClaim(c, w, row)
             \/ \E row \in Candidates.alerts : EnqueueMemoryAlert(c, w, row)
    <3>1. PICK t \in {"deltas", "claims", "alerts"} : \E row : InsertUnique(c, t, row)
      BY <2>3 DEF InsertDelta, InsertClaim, EnqueueMemoryAlert
    <3>2. t \in RowTables /\ t # "users"
      BY <3>1 DEF RowTables, Tables
    <3>3. QED
      BY <3>1, <3>2, <1>1
  <2>4. QED
    BY <1>6, <2>1, <2>2, <2>3 DEF InsertScopedRow
<1>7. QED
  BY <1>5, <1>6

\* The calls that change a row leave it its id.
LEMMA UpdateKeys ==
  ASSUME KeysInv, StoreInv, NEW c \in Callers, UpdateRow(c)
  PROVE  KeysInv'
<1>k. Keyed(db) /\ Whole(db) /\ FieldsIn(db)
  BY DEF KeysInv, StoreInv, Whole
<1>t. {"deltas", "alerts", "users"} \subseteq RowTables
  BY DEF RowTables, Tables
<1>1. ASSUME NEW w, NEW row \in db.deltas, NEW to, TransitionDelta(c, w, row, to)
      PROVE  KeysInv'
  <2> DEFINE next == [row EXCEPT !.state = to]
  <2>1. next.id = row.id
    BY <1>k DEF FieldsIn
  <2>2. Store(c, [db EXCEPT !["deltas"] = (db["deltas"] \ {row}) \cup {next}])
    BY <1>1 DEF TransitionDelta, Replace
  <2> HIDE DEF next
  <2>3. Keyed([db EXCEPT !["deltas"] = (db["deltas"] \ {row}) \cup {next}])
    BY <1>k, <1>t, <2>1, RowIsReplaced
  <2>4. QED
    BY <2>2, <2>3, StoreKeys
<1>2. ASSUME NEW w, NEW row \in db.alerts, NEW to, RecordMemoryOutcome(c, w, row, to)
      PROVE  KeysInv'
  <2> DEFINE next == [row EXCEPT !.status = to]
  <2>1. next.id = row.id
    BY <1>k DEF FieldsIn
  <2>2. Store(c, [db EXCEPT !["alerts"] = (db["alerts"] \ {row}) \cup {next}])
    BY <1>2 DEF RecordMemoryOutcome, Replace
  <2> HIDE DEF next
  <2>3. Keyed([db EXCEPT !["alerts"] = (db["alerts"] \ {row}) \cup {next}])
    BY <1>k, <1>t, <2>1, RowIsReplaced
  <2>4. QED
    BY <2>2, <2>3, StoreKeys
<1>3. ASSUME NEW row \in db.health, NEW fetched, MarkSource(c, row, fetched)
      PROVE  KeysInv'
  <2>1. PICK next : Store(c, [db EXCEPT !["health"] = (db["health"] \ {row}) \cup {next}])
    BY <1>3 DEF MarkSource, Replace
  <2> DEFINE tables == [db EXCEPT !["health"] = (db["health"] \ {row}) \cup {next}]
  <2>2. \A u \in RowTables : tables[u] = db[u]
    BY <1>k DEF RowTables, FieldsIn
  <2> HIDE DEF tables
  <2>3. Keyed(tables)
    BY <1>k, <1>t, <2>2 DEF Keyed, UniqueIn
  <2>4. QED
    BY <2>1, <2>3, StoreKeys DEF tables
<1>4. ASSUME NEW login, LinkOrCreateUser(c, login) PROVE KeysInv'
  <2>1. CASE \E u \in db.users : u.email = login.email
    <3>1. PICK u \in db.users : Replace(c, "users", u, [u EXCEPT !.subject = login.subject])
      BY <1>4, <2>1 DEF LinkOrCreateUser
    <3> DEFINE next == [u EXCEPT !.subject = login.subject]
    <3>2. Store(c, [db EXCEPT !["users"] = (db["users"] \ {u}) \cup {next}])
      BY <3>1 DEF Replace
    <3>3. next.id = u.id /\ "id" \in DOMAIN next
      BY <1>k DEF Keyed
    <3> HIDE DEF next
    <3>4. Keyed([db EXCEPT !["users"] = (db["users"] \ {u}) \cup {next}])
      BY <1>k, <1>t, <3>3, RowIsReplaced
    <3>5. QED
      BY <3>2, <3>4, StoreKeys
  <2>2. CASE ~ \E u \in db.users : u.email = login.email
    <3> DEFINE row == [id |-> login.subject, email |-> login.email, subject |-> login.subject]
    <3>1. ~Has("users", row.id) /\ Store(c, With("users", row)) /\ "id" \in DOMAIN row
      BY <1>4, <2>2 DEF LinkOrCreateUser, InsertUnique
    <3> HIDE DEF row
    <3>2. RowTables \subseteq Tables /\ "users" \in RowTables
      BY DEF RowTables, Tables
    <3>3. /\ With("users", row)["users"] = db["users"] \cup {row}
          /\ \A u \in RowTables \ {"users"} : With("users", row)[u] = db[u]
      BY <1>k, <3>2, RowAdded
    <3>4. Keyed(With("users", row))
      BY <1>k, <3>1, <3>2, <3>3, RowIsNew
    <3>5. QED
      BY <3>1, <3>4, StoreKeys
  <2>3. QED
    BY <2>1, <2>2
<1>5. QED
  BY <1>1, <1>2, <1>3, <1>4 DEF UpdateRow

LEMMA KeysStart == MemoryInit => KeysInv
<1> SUFFICES ASSUME MemoryInit PROVE KeysInv
  OBVIOUS
<1>1. db = Seeded /\ Keyed(Seeded)
  BY SeedAssumption DEF MemoryInit, Keyed
<1>2. \A c \in Callers : checkpoint[c] = {}
  BY DEF MemoryInit
<1>3. overlapped \in BOOLEAN
  BY DEF MemoryInit
<1>4. calls \in 0 .. MaxCalls
  BY MemoryAssumption DEF MemoryInit
<1>5. QED
  BY <1>1, <1>2, <1>3, <1>4 DEF KeysInv

LEMMA KeysStep == StoreInv /\ KeysInv /\ [MemoryNext]_memoryVars => KeysInv'
<1> SUFFICES ASSUME StoreInv, KeysInv, [MemoryNext]_memoryVars PROVE KeysInv'
  OBVIOUS
<1>1. ASSUME NEW c \in Callers, Begin(c) PROVE KeysInv'
  <2>1. /\ db' = db /\ overlapped' = Overlaps(c) /\ calls' = calls
        /\ \A d \in Callers : checkpoint'[d] = IF d = c THEN {db} ELSE checkpoint[d]
    BY <1>1 DEF Begin, StoreInv
  <2>2. overlapped' \in BOOLEAN
    BY <2>1, OverlapsBoolean DEF KeysInv
  <2>3. QED
    BY <2>1, <2>2 DEF KeysInv, Keyed, UniqueIn
<1>2. ASSUME NEW c \in Callers, Commit(c) \/ Rollback(c) PROVE KeysInv'
  <2>1. /\ overlapped' = overlapped /\ calls' = calls
        /\ \A d \in Callers : checkpoint'[d] = IF d = c THEN {} ELSE checkpoint[d]
        /\ db' = db \/ db' \in checkpoint[c]
    BY <1>2 DEF Commit, Rollback, End, StoreInv
  <2>2. PICK tables : db' = tables /\ Keyed(tables)
    BY <2>1 DEF KeysInv
  <2>3. QED
    BY <2>1, <2>2 DEF KeysInv, Keyed, UniqueIn
<1>3. CASE UNCHANGED memoryVars
  BY <1>3 DEF memoryVars, KeysInv, Keyed, UniqueIn
<1>4. QED
  BY <1>1, <1>2, <1>3, InsertKeys, UpdateKeys DEF MemoryNext

LEMMA MemoryTyped == KeysInv => MemoryTypeOK
<1> SUFFICES ASSUME KeysInv, NEW c \in Callers PROVE Cardinality(checkpoint[c]) <= 1
  BY DEF KeysInv, Keyed, MemoryTypeOK
<1>1. CASE checkpoint[c] = {}
  BY <1>1, FS_EmptySet
<1>2. CASE \E copy : checkpoint[c] = {copy}
  <2>1. Cardinality(checkpoint[c]) = 1
    BY <1>2, FS_Singleton
  <2>2. QED
    BY <2>1
<1>3. QED
  BY <1>1, <1>2 DEF KeysInv

-----------------------------------------------------------------------------
(* Sign-in and workspaces.                                                  *)

Subjects == {p.subject : p \in Profiles}

\* A row of app_user, and what the state of a browser may hold.
AccountRow == [email : {p.email : p \in Profiles}, subject : Subjects \cup {Unlinked}]
CookieState == [uid : Nat, subject : Subjects \cup {Unlinked}, hint : Rooms \cup {NoRoom}]
SignInState == [phase : {"idle", "subject", "email", "link", "create"},
                profile : Profiles \cup {<<>>}, found : Nat]
RequestState == [uid : Nat, room : Rooms \cup {NoRoom}]

\* The shape of the state.
IdentityShape ==
  /\ accounts \in Seq(AccountRow)
  /\ memberships \in Seq(granted)
  /\ granted \subseteq Nat \X Rooms
  /\ cookies \in [Browsers -> CookieState]
  /\ signin \in [Browsers -> SignInState]
  /\ \A b \in Browsers : signin[b].phase # "idle" => signin[b].profile \in Profiles
  /\ request \in [Browsers -> RequestState]

\* A sign-in that is about to link an account has found one with its verified e-mail.
LinksAreVerified ==
  \A b \in Browsers :
     signin[b].phase = "link" =>
       /\ signin[b].found \in DOMAIN accounts
       /\ signin[b].profile.verified
       /\ accounts[signin[b].found].email = signin[b].profile.email

\* The state of a browser is replaced as a whole.
LEMMA CookiesAreSet ==
  ASSUME IdentityShape, NEW b \in Browsers, NEW me \in CookieState
  PROVE  /\ [cookies EXCEPT ![b] = me] \in [Browsers -> CookieState]
         /\ \A c \in Browsers : [cookies EXCEPT ![b] = me][c] = IF c = b THEN me ELSE cookies[c]
BY DEF IdentityShape

LEMMA SignInIsSet ==
  ASSUME IdentityShape, NEW b \in Browsers, NEW me \in SignInState
  PROVE  /\ [signin EXCEPT ![b] = me] \in [Browsers -> SignInState]
         /\ \A c \in Browsers : [signin EXCEPT ![b] = me][c] = IF c = b THEN me ELSE signin[c]
BY DEF IdentityShape

LEMMA RequestIsSet ==
  ASSUME IdentityShape, NEW b \in Browsers, NEW me \in RequestState
  PROVE  /\ [request EXCEPT ![b] = me] \in [Browsers -> RequestState]
         /\ \A c \in Browsers : [request EXCEPT ![b] = me][c] = IF c = b THEN me ELSE request[c]
BY DEF IdentityShape

\* A session is established.
LEMMA SessionOpens ==
  ASSUME IdentityShape, NEW b \in Browsers, NEW uid \in Nat, signin[b].profile \in Profiles,
         Established(b, uid)
  PROVE  /\ cookies' \in [Browsers -> CookieState] /\ signin' \in [Browsers -> SignInState]
         /\ cookies'[b].uid = uid /\ cookies'[b].subject = signin[b].profile.subject
         /\ signin'[b].phase = "idle"
         /\ \A c \in Browsers \ {b} : cookies'[c] = cookies[c] /\ signin'[c] = signin[c]
<1> DEFINE me == [cookies[b] EXCEPT !.uid = uid, !.subject = signin[b].profile.subject]
<1>1. /\ cookies' = [cookies EXCEPT ![b] = me] /\ signin' = [signin EXCEPT ![b] = NotSigningIn]
  BY DEF Established
<1>2. signin[b].profile.subject \in Subjects /\ cookies[b] \in CookieState
  BY DEF IdentityShape, Subjects
<1>3. me \in CookieState /\ me.uid = uid /\ me.subject = signin[b].profile.subject
  BY <1>2 DEF CookieState
<1>4. NotSigningIn \in SignInState /\ NotSigningIn.phase = "idle"
  BY DEF NotSigningIn, SignInState
<1> HIDE DEF me
<1>5. QED
  BY <1>1, <1>3, <1>4, CookiesAreSet, SignInIsSet

\* The inductive invariant of sign-ins and requests.
IdentityInv == IdentityShape /\ LinksAreVerified /\ RequestsAreEarned

LEMMA SubjectsLinked == Unlinked \notin Subjects
BY IdentityAssumption DEF Subjects

LEMMA IdentityStart == IdentityInit => IdentityInv
<1> SUFFICES ASSUME IdentityInit PROVE IdentityInv
  OBVIOUS
<1>1. /\ Len(Provisioned) \in Nat /\ DOMAIN Provisioned = 1 .. Len(Provisioned)
      /\ \A i \in DOMAIN Provisioned : Provisioned[i] \in [email : {p.email : p \in Profiles}]
  BY IdentityAssumption, LenProperties, ZenonT(30)
<1>2. /\ accounts = [i \in 1 .. Len(Provisioned) |->
                       [email |-> Provisioned[i].email, subject |-> Unlinked]]
      /\ DOMAIN accounts = DOMAIN Provisioned
      /\ \A i \in DOMAIN accounts : /\ accounts[i].email = Provisioned[i].email
                                    /\ accounts[i].subject = Unlinked
  BY <1>1 DEF IdentityInit
<1>3. accounts \in Seq(AccountRow)
  <2>1. \A i \in 1 .. Len(Provisioned) :
          [email |-> Provisioned[i].email, subject |-> Unlinked] \in AccountRow
    BY <1>1 DEF AccountRow
  <2>2. QED
    BY <1>1, <1>2, <2>1, SeqDef
<1>4. memberships \in Seq(granted)
  BY DEF IdentityInit
<1>5. IdentityShape
  BY <1>3, <1>4 DEF IdentityInit, IdentityShape, Out, NotSigningIn, NoRequest,
                    CookieState, SignInState, RequestState
<1>6. LinksAreVerified
  BY DEF IdentityInit, LinksAreVerified, NotSigningIn
<1>7. OneAccountEach
  BY <1>2, IdentityAssumption DEF OneAccountEach
<1>8. RequestsAreEarned
  BY <1>2, <1>7 DEF IdentityInit, RequestsAreEarned, Out, NoRequest
<1>9. QED
  BY <1>5, <1>6, <1>8 DEF IdentityInv

\* A step of a sign-in that opens no session.
LEMMA SignInMoves ==
  ASSUME IdentityInv, NEW b \in Browsers, NEW me \in SignInState,
         signin' = [signin EXCEPT ![b] = me],
         UNCHANGED <<accounts, memberships, cookies, request, granted, proofs>>,
         me.phase # "idle" => me.profile \in Profiles,
         me.phase = "link" => /\ me.found \in DOMAIN accounts /\ me.profile.verified
                              /\ accounts[me.found].email = me.profile.email
  PROVE  IdentityInv'
<1>1. /\ signin' \in [Browsers -> SignInState]
      /\ \A c \in Browsers : signin'[c] = IF c = b THEN me ELSE signin[c]
  BY SignInIsSet DEF IdentityInv
<1>2. IdentityShape'
  BY <1>1 DEF IdentityInv, IdentityShape
<1>3. LinksAreVerified'
  BY <1>1 DEF IdentityInv, LinksAreVerified
<1>4. RequestsAreEarned'
  BY DEF IdentityInv, RequestsAreEarned, OneAccountEach
<1>5. QED
  BY <1>2, <1>3, <1>4 DEF IdentityInv

LEMMA SignInFails ==
  ASSUME IdentityInv, NEW b \in Browsers, signin' = [signin EXCEPT ![b] = NotSigningIn],
         UNCHANGED <<accounts, memberships, cookies, request, granted, proofs>>
  PROVE  IdentityInv'
<1>1. NotSigningIn \in SignInState /\ NotSigningIn.phase = "idle"
  BY DEF NotSigningIn, SignInState
<1>2. QED
  BY <1>1, SignInMoves

LEMMA SignInStarts ==
  ASSUME IdentityInv, NEW b \in Browsers, NEW profile \in Profiles, StartSignIn(b, profile)
  PROVE  IdentityInv'
<1> DEFINE me == [phase |-> "subject", profile |-> profile, found |-> 0]
<1>1. signin' = [signin EXCEPT ![b] = me]
  BY DEF StartSignIn
<1>2. UNCHANGED <<accounts, memberships, cookies, request, granted, proofs>>
  BY DEF StartSignIn
<1>3. me \in SignInState /\ me.phase = "subject" /\ me.profile = profile
  BY DEF SignInState
<1> HIDE DEF me
<1>4. QED
  BY <1>1, <1>2, <1>3, SignInMoves

\* A sign-in ends in a session when its subject is the one that the account carries, and
\* the accounts there were keep their e-mails.
LEMMA SessionKeeps ==
  ASSUME IdentityInv, NEW b \in Browsers, NEW uid \in Nat, Established(b, uid),
         signin[b].profile \in Profiles,
         UNCHANGED <<memberships, request, granted>>,
         accounts' \in Seq(AccountRow), DOMAIN accounts \subseteq DOMAIN accounts',
         \A i \in DOMAIN accounts : accounts'[i].email = accounts[i].email,
         proofs \subseteq proofs', <<signin[b].profile.subject, uid>> \in proofs',
         OneAccountEach',
         \A i \in DOMAIN accounts' :
            accounts'[i].subject # Unlinked => <<accounts'[i].subject, i>> \in proofs'
  PROVE  IdentityInv'
<1>1. /\ cookies' \in [Browsers -> CookieState] /\ signin' \in [Browsers -> SignInState]
      /\ cookies'[b].uid = uid /\ cookies'[b].subject = signin[b].profile.subject
      /\ signin'[b].phase = "idle"
      /\ \A c \in Browsers \ {b} : cookies'[c] = cookies[c] /\ signin'[c] = signin[c]
  BY SessionOpens DEF IdentityInv
<1>2. IdentityShape'
  BY <1>1 DEF IdentityInv, IdentityShape
<1>3. LinksAreVerified'
  <2> SUFFICES ASSUME NEW c \in Browsers, signin'[c].phase = "link"
               PROVE  /\ signin'[c].found \in DOMAIN accounts'
                      /\ signin'[c].profile.verified
                      /\ accounts'[signin'[c].found].email = signin'[c].profile.email
    BY DEF LinksAreVerified
  <2>1. c # b /\ signin'[c] = signin[c]
    BY <1>1
  <2>2. /\ signin[c].found \in DOMAIN accounts /\ signin[c].profile.verified
        /\ accounts[signin[c].found].email = signin[c].profile.email
    BY <2>1 DEF IdentityInv, LinksAreVerified
  <2>3. QED
    BY <2>1, <2>2
<1>4. \A c \in Browsers :
        /\ cookies'[c].uid # 0 => <<cookies'[c].subject, cookies'[c].uid>> \in proofs'
        /\ request'[c].uid # 0 => <<request'[c].uid, request'[c].room>> \in granted'
  <2> SUFFICES ASSUME NEW c \in Browsers
               PROVE  /\ cookies'[c].uid # 0 =>
                           <<cookies'[c].subject, cookies'[c].uid>> \in proofs'
                      /\ request'[c].uid # 0 =>
                           <<request'[c].uid, request'[c].room>> \in granted'
    OBVIOUS
  <2>1. CASE c = b
    BY <2>1, <1>1 DEF IdentityInv, RequestsAreEarned
  <2>2. CASE c # b
    BY <2>2, <1>1 DEF IdentityInv, RequestsAreEarned
  <2>3. QED
    BY <2>1, <2>2
<1>5. RequestsAreEarned'
  BY <1>4 DEF RequestsAreEarned
<1>6. QED
  BY <1>2, <1>3, <1>5 DEF IdentityInv

\* A session is opened for the account that carries the subject, or goes on to look for
\* the e-mail.
LEMMA SubjectIsFound ==
  ASSUME IdentityInv, NEW b \in Browsers, FindBySubject(b)
  PROVE  IdentityInv'
<1>1. /\ UNCHANGED <<accounts, memberships, request, granted, proofs>>
      /\ signin[b].phase = "subject"
  BY DEF FindBySubject, SigningIn
<1>2. signin[b] \in SignInState /\ signin[b].profile \in Profiles
  BY <1>1 DEF IdentityInv, IdentityShape
<1>3. CASE \E i \in DOMAIN accounts :
             accounts[i].subject = signin[b].profile.subject /\ Established(b, i)
  <2>1. PICK i \in DOMAIN accounts :
          accounts[i].subject = signin[b].profile.subject /\ Established(b, i)
    BY <1>3
  <2>2. i \in Nat /\ signin[b].profile.subject \in Subjects
    BY <1>2, LenProperties DEF IdentityInv, IdentityShape, Subjects
  <2>3. <<signin[b].profile.subject, i>> \in proofs
    BY <2>1, <2>2, SubjectsLinked DEF IdentityInv, RequestsAreEarned
  <2>4. accounts \in Seq(AccountRow) /\ OneAccountEach
    BY DEF IdentityInv, IdentityShape, RequestsAreEarned
  <2>5. OneAccountEach'
    BY <1>1, <2>4 DEF OneAccountEach
  <2>6. \A j \in DOMAIN accounts' :
          accounts'[j].subject # Unlinked => <<accounts'[j].subject, j>> \in proofs'
    BY <1>1 DEF IdentityInv, RequestsAreEarned
  <2>7. QED
    BY <1>1, <1>2, <2>1, <2>2, <2>3, <2>4, <2>5, <2>6, SessionKeeps
<1>4. CASE signin' = [signin EXCEPT ![b].phase = "email"] /\ cookies' = cookies
  <2> DEFINE me == [signin[b] EXCEPT !.phase = "email"]
  <2>1. signin' = [signin EXCEPT ![b] = me]
    BY <1>4
  <2>2. me \in SignInState /\ me.phase = "email" /\ me.profile = signin[b].profile
    BY <1>2 DEF SignInState
  <2> HIDE DEF me
  <2>3. QED
    BY <1>1, <1>2, <1>4, <2>1, <2>2, SignInMoves
<1>5. QED
  BY <1>3, <1>4 DEF FindBySubject

LEMMA EmailIsFound ==
  ASSUME IdentityInv, NEW b \in Browsers, FindByEmail(b)
  PROVE  IdentityInv'
<1> DEFINE known == {i \in DOMAIN accounts : accounts[i].email = signin[b].profile.email}
           found == CHOOSE i \in known : TRUE
           me == IF known = {} THEN [signin[b] EXCEPT !.phase = "create"]
                 ELSE IF ~signin[b].profile.verified THEN NotSigningIn
                 ELSE [signin[b] EXCEPT !.phase = "link", !.found = found]
<1>1. /\ UNCHANGED <<accounts, memberships, cookies, request, granted, proofs>>
      /\ signin[b].phase = "email" /\ signin' = [signin EXCEPT ![b] = me]
  BY DEF FindByEmail, SigningIn
<1>2. signin[b] \in SignInState /\ signin[b].profile \in Profiles
  BY <1>1 DEF IdentityInv, IdentityShape
<1>3. known # {} => found \in known
  OBVIOUS
<1>4. known \subseteq Nat
  BY LenProperties DEF IdentityInv, IdentityShape
<1>5. known \subseteq DOMAIN accounts
      /\ \A i \in known : accounts[i].email = signin[b].profile.email
  OBVIOUS
<1> HIDE DEF known, found
<1>6. /\ me \in SignInState
      /\ me.phase # "idle" => me.profile = signin[b].profile
      /\ me.phase = "link" => me.found \in known /\ signin[b].profile.verified
  <2>1. CASE known = {}
    BY <2>1, <1>2 DEF SignInState
  <2>2. CASE known # {} /\ ~signin[b].profile.verified
    BY <2>2, <1>2 DEF NotSigningIn, SignInState
  <2>3. CASE known # {} /\ signin[b].profile.verified
    BY <2>3, <1>2, <1>3, <1>4 DEF SignInState
  <2>4. QED
    BY <2>1, <2>2, <2>3
<1> HIDE DEF me
<1>7. me.phase = "link" => /\ me.found \in DOMAIN accounts /\ me.profile.verified
                           /\ accounts[me.found].email = me.profile.email
  BY <1>5, <1>6
<1>8. QED
  BY <1>1, <1>2, <1>6, <1>7, SignInMoves

\* The account with the verified e-mail takes the subject, unless another one has it.
LEMMA AccountIsLinked ==
  ASSUME IdentityInv, NEW b \in Browsers, LinkAccount(b)
  PROVE  IdentityInv'
<1>1. PICK uid : uid = signin[b].found
  OBVIOUS
<1>2. PICK subject : subject = signin[b].profile.subject
  OBVIOUS
<1>3. /\ uid \in DOMAIN accounts /\ signin[b].profile.verified
      /\ accounts[uid].email = signin[b].profile.email /\ signin[b].profile \in Profiles
  BY <1>1 DEF IdentityInv, IdentityShape, LinksAreVerified, LinkAccount, SigningIn
<1>4. uid \in Nat /\ subject \in Subjects /\ accounts[uid] \in AccountRow
  BY <1>2, <1>3, LenProperties DEF IdentityInv, IdentityShape, Subjects
<1>5. CASE \E i \in (DOMAIN accounts) \ {uid} : accounts[i].subject = subject
  <2>1. /\ signin' = [signin EXCEPT ![b] = NotSigningIn]
        /\ UNCHANGED <<accounts, memberships, cookies, request, granted, proofs>>
    BY <1>1, <1>2, <1>5 DEF LinkAccount
  <2>2. QED
    BY <2>1, SignInFails
<1>6. CASE ~ \E i \in (DOMAIN accounts) \ {uid} : accounts[i].subject = subject
  <2>1. /\ accounts' = [accounts EXCEPT ![uid].subject = subject]
        /\ Established(b, uid) /\ proofs' = proofs \cup {<<subject, uid>>}
        /\ UNCHANGED <<memberships, request, granted>>
    BY <1>1, <1>2, <1>3, <1>6 DEF LinkAccount, Proven
  <2>2. /\ DOMAIN accounts' = DOMAIN accounts
        /\ \A i \in DOMAIN accounts :
             /\ accounts'[i].email = accounts[i].email
             /\ accounts'[i].subject = IF i = uid THEN subject ELSE accounts[i].subject
    <3>1. \A i \in DOMAIN accounts : accounts[i] \in AccountRow
      BY DEF IdentityInv, IdentityShape
    <3>2. QED
      BY <2>1, <1>3, <3>1 DEF AccountRow
  <2>3. accounts' \in Seq(AccountRow)
    <3>1. [accounts[uid] EXCEPT !.subject = subject] \in AccountRow
      BY <1>4 DEF AccountRow
    <3>2. accounts' = [accounts EXCEPT ![uid] = [accounts[uid] EXCEPT !.subject = subject]]
      BY <2>1
    <3>3. QED
      BY <1>3, <3>1, <3>2, ExceptSeq DEF IdentityInv, IdentityShape
  <2>4. OneAccountEach'
    <3>1. \A i \in DOMAIN accounts : i # uid => accounts[i].subject # subject
      BY <1>6
    <3>2. OneAccountEach
      BY DEF IdentityInv, RequestsAreEarned
    <3>3. QED
      BY <2>2, <3>1, <3>2 DEF OneAccountEach
  <2>5. \A i \in DOMAIN accounts' :
          accounts'[i].subject # Unlinked => <<accounts'[i].subject, i>> \in proofs'
    BY <2>1, <2>2 DEF IdentityInv, RequestsAreEarned
  <2>6. QED
    BY <1>2, <1>3, <1>4, <2>1, <2>2, <2>3, <2>4, <2>5, SessionKeeps
<1>7. QED
  BY <1>5, <1>6

\* A new account gets an e-mail and a subject that no other one has.
LEMMA AccountIsCreated ==
  ASSUME IdentityInv, NEW b \in Browsers, CreateAccount(b)
  PROVE  IdentityInv'
<1> DEFINE new == NewAccount(b)
           uid == Len(accounts) + 1
<1>1. /\ signin[b].profile \in Profiles /\ new \in AccountRow
      /\ new.subject = signin[b].profile.subject /\ new.subject \in Subjects
  BY DEF IdentityInv, IdentityShape, CreateAccount, SigningIn, NewAccount, AccountRow, Subjects
<1>2. /\ accounts \in Seq(AccountRow) /\ Len(accounts) \in Nat
      /\ DOMAIN accounts = 1 .. Len(accounts)
  BY LenProperties DEF IdentityInv, IdentityShape
<1>3. CASE \E i \in DOMAIN accounts :
             accounts[i].email = new.email \/ accounts[i].subject = new.subject
  <2>1. /\ signin' = [signin EXCEPT ![b] = NotSigningIn]
        /\ UNCHANGED <<accounts, memberships, cookies, request, granted, proofs>>
    BY <1>3 DEF CreateAccount
  <2>2. QED
    BY <2>1, SignInFails
<1>4. CASE ~ \E i \in DOMAIN accounts :
               accounts[i].email = new.email \/ accounts[i].subject = new.subject
  <2>1. /\ accounts' = Append(accounts, new) /\ Established(b, uid)
        /\ proofs' = proofs \cup {<<new.subject, uid>>}
        /\ UNCHANGED <<memberships, request, granted>>
    BY <1>1, <1>4 DEF CreateAccount, Proven
  <2> HIDE DEF new
  <2>2. /\ accounts' \in Seq(AccountRow) /\ Len(accounts') = uid
        /\ \A i \in 1 .. Len(accounts) : accounts'[i] = accounts[i]
        /\ accounts'[uid] = new
    BY <1>1, <1>2, <2>1, AppendProperties
  <2>3. DOMAIN accounts' = 1 .. uid
    BY <2>2, LenProperties
  <2>4. /\ uid \in Nat /\ \A i \in 1 .. uid : i # uid => i \in 1 .. Len(accounts)
        /\ 1 .. Len(accounts) \subseteq 1 .. uid
    BY <1>2
  <2> HIDE DEF uid
  <2>5. OneAccountEach'
    <3>1. OneAccountEach
      BY DEF IdentityInv, RequestsAreEarned
    <3>2. \A i \in DOMAIN accounts :
            accounts[i].email # new.email /\ accounts[i].subject # new.subject
      BY <1>4
    <3>3. ASSUME NEW i \in DOMAIN accounts', NEW j \in DOMAIN accounts', i # j
          PROVE  /\ accounts'[i].email # accounts'[j].email
                 /\ accounts'[i].subject = accounts'[j].subject =>
                      accounts'[i].subject = Unlinked
      <4>1. CASE i # uid /\ j # uid
        BY <4>1, <3>1, <3>3, <2>2, <2>3, <2>4, <1>2 DEF OneAccountEach
      <4>2. CASE i = uid
        BY <4>2, <3>2, <3>3, <2>2, <2>3, <2>4, <1>2
      <4>3. CASE j = uid
        BY <4>3, <3>2, <3>3, <2>2, <2>3, <2>4, <1>2
      <4>4. QED
        BY <4>1, <4>2, <4>3
    <3>4. QED
      BY <3>3 DEF OneAccountEach
  <2>6. \A i \in DOMAIN accounts' :
          accounts'[i].subject # Unlinked => <<accounts'[i].subject, i>> \in proofs'
    BY <1>2, <2>1, <2>2, <2>3, <2>4 DEF IdentityInv, RequestsAreEarned
  <2>7. QED
    BY <1>1, <1>2, <2>1, <2>2, <2>3, <2>4, <2>5, <2>6, SessionKeeps
<1>5. QED
  BY <1>3, <1>4

\* Memberships come and go; what was granted stays granted.
LEMMA MembershipsChange ==
  ASSUME IdentityInv,
         \/ \E uid \in DOMAIN accounts : \E w \in Rooms : GrantMembership(uid, w)
         \/ \E i \in DOMAIN memberships : RevokeMembership(i)
  PROVE  IdentityInv'
<1>1. /\ accounts' = accounts /\ cookies' = cookies /\ signin' = signin
      /\ request' = request /\ proofs' = proofs /\ granted \subseteq granted'
  BY DEF GrantMembership, RevokeMembership
<1>2. memberships' \in Seq(granted') /\ granted' \subseteq Nat \X Rooms
  <2>1. ASSUME NEW uid \in DOMAIN accounts, NEW w \in Rooms, GrantMembership(uid, w)
        PROVE  memberships' \in Seq(granted') /\ granted' \subseteq Nat \X Rooms
    <3>1. /\ memberships' = Append(memberships, <<uid, w>>)
          /\ granted' = granted \cup {<<uid, w>>}
      BY <2>1 DEF GrantMembership
    <3>2. uid \in Nat
      BY LenProperties DEF IdentityInv, IdentityShape
    <3>3. memberships \in Seq(granted')
      BY <3>1, SeqMonotonic DEF IdentityInv, IdentityShape
    <3>4. QED
      BY <3>1, <3>2, <3>3, AppendProperties DEF IdentityInv, IdentityShape
  <2>2. ASSUME NEW i \in DOMAIN memberships, RevokeMembership(i)
        PROVE  memberships' \in Seq(granted') /\ granted' \subseteq Nat \X Rooms
    <3>1. /\ granted' = granted
          /\ memberships' = [j \in 1 .. Len(memberships) - 1 |->
                               memberships[IF j < i THEN j ELSE j + 1]]
      BY <2>2 DEF RevokeMembership
    <3>2. /\ Len(memberships) \in Nat /\ DOMAIN memberships = 1 .. Len(memberships)
          /\ \A j \in 1 .. Len(memberships) : memberships[j] \in granted
      BY LenProperties DEF IdentityInv, IdentityShape
    <3>3. Len(memberships) - 1 \in Nat
      BY <3>2
    <3>4. \A j \in 1 .. Len(memberships) - 1 :
            (IF j < i THEN j ELSE j + 1) \in 1 .. Len(memberships)
      BY <3>2
    <3>5. memberships' \in [1 .. Len(memberships) - 1 -> granted]
      BY <3>1, <3>2, <3>4
    <3>6. QED
      BY <3>1, <3>3, <3>5, SeqDef DEF IdentityInv, IdentityShape
  <2>3. QED
    BY <2>1, <2>2
<1>3. IdentityShape'
  BY <1>1, <1>2 DEF IdentityInv, IdentityShape
<1>4. LinksAreVerified'
  BY <1>1 DEF IdentityInv, LinksAreVerified
<1>5. RequestsAreEarned'
  BY <1>1 DEF IdentityInv, RequestsAreEarned, OneAccountEach
<1>6. QED
  BY <1>3, <1>4, <1>5 DEF IdentityInv

\* The workspace a request resolves to is a live membership of its account.
LEMMA ResolvedIsGranted ==
  ASSUME IdentityShape, NEW b \in Browsers, NEW w, ResolvesTo(b, w)
  PROVE  <<cookies[b].uid, w>> \in granted
<1>1. PICK i \in DOMAIN memberships :
        memberships[i][1] = cookies[b].uid /\ w = memberships[i][2]
  BY DEF ResolvesTo, RoomsOf
<1>2. memberships[i] \in granted /\ memberships[i] \in Nat \X Rooms
  BY <1>1 DEF IdentityShape
<1>3. QED
  BY <1>1, <1>2

LEMMA RequestsAreServed ==
  ASSUME IdentityInv, NEW b \in Browsers,
         \/ \E w \in Rooms : StartRequest(b, w) \/ SwitchWorkspace(b, w)
         \/ FinishRequest(b)
  PROVE  IdentityInv'
<1>1. /\ accounts' = accounts /\ memberships' = memberships /\ signin' = signin
      /\ granted' = granted /\ proofs' = proofs
  BY DEF StartRequest, SwitchWorkspace, FinishRequest
<1>2. PICK r \in RequestState : /\ request' = [request EXCEPT ![b] = r]
                                /\ r.uid # 0 => <<r.uid, r.room>> \in granted
  <2>1. NoRequest \in RequestState /\ NoRequest.uid = 0
    BY DEF NoRequest, RequestState
  <2>2. ASSUME NEW w \in Rooms, StartRequest(b, w)
        PROVE  \E r \in RequestState : /\ request' = [request EXCEPT ![b] = r]
                                       /\ r.uid # 0 => <<r.uid, r.room>> \in granted
    <3> DEFINE r == [uid |-> cookies[b].uid, room |-> w]
    <3>1. request' = [request EXCEPT ![b] = r]
      BY <2>2 DEF StartRequest
    <3>2. cookies[b] \in CookieState
      BY DEF IdentityInv, IdentityShape
    <3>3. r \in RequestState /\ r.uid = cookies[b].uid /\ r.room = w
      BY <3>2 DEF CookieState, RequestState
    <3>4. <<r.uid, r.room>> \in granted
      BY <2>2, <3>3, ResolvedIsGranted DEF IdentityInv, StartRequest
    <3> HIDE DEF r
    <3>5. QED
      BY <3>1, <3>3, <3>4
  <2>3. CASE (\E w \in Rooms : SwitchWorkspace(b, w)) \/ FinishRequest(b)
    <3>1. request' = [request EXCEPT ![b] = NoRequest]
      BY <2>3 DEF SwitchWorkspace, FinishRequest
    <3>2. QED
      BY <2>1, <3>1
  <2>4. QED
    BY <2>2, <2>3
<1>3. /\ \A c \in Browsers : request'[c] = IF c = b THEN r ELSE request[c]
      /\ request' \in [Browsers -> RequestState]
  BY <1>2, RequestIsSet DEF IdentityInv
<1>4. /\ cookies' \in [Browsers -> CookieState]
      /\ \A c \in Browsers : /\ cookies'[c].uid = cookies[c].uid
                              /\ cookies'[c].subject = cookies[c].subject
  <2>1. CASE cookies' = cookies
    BY <2>1 DEF IdentityInv, IdentityShape
  <2>2. CASE \E w \in Rooms : SwitchWorkspace(b, w)
    <3>w. PICK w \in Rooms : SwitchWorkspace(b, w)
      BY <2>2
    <3> DEFINE me == [cookies[b] EXCEPT !.hint = w]
    <3>1. cookies' = [cookies EXCEPT ![b] = me]
      BY <3>w DEF SwitchWorkspace
    <3>2. cookies[b] \in CookieState
      BY DEF IdentityInv, IdentityShape
    <3>3. /\ me \in CookieState /\ me.uid = cookies[b].uid
          /\ me.subject = cookies[b].subject
      BY <3>2 DEF CookieState
    <3> HIDE DEF me
    <3>4. QED
      BY <3>1, <3>3, CookiesAreSet DEF IdentityInv
  <2>3. QED
    BY <2>1, <2>2 DEF StartRequest, FinishRequest
<1>5. IdentityShape'
  BY <1>1, <1>3, <1>4 DEF IdentityInv, IdentityShape
<1>6. LinksAreVerified'
  BY <1>1 DEF IdentityInv, LinksAreVerified
<1>7. OneAccountEach'
  BY <1>1 DEF IdentityInv, RequestsAreEarned, OneAccountEach
<1>8. RequestsAreEarned'
  BY <1>1, <1>2, <1>3, <1>4, <1>7 DEF IdentityInv, RequestsAreEarned
<1>9. QED
  BY <1>5, <1>6, <1>8 DEF IdentityInv

LEMMA SessionsEnd ==
  ASSUME IdentityInv, NEW b \in Browsers, SignOut(b) \/ SessionExpires(b)
  PROVE  IdentityInv'
<1>1. /\ accounts' = accounts /\ memberships' = memberships /\ signin' = signin
      /\ granted' = granted /\ proofs' = proofs /\ request' = request
  BY DEF SignOut, SessionExpires
<1>2. PICK me \in CookieState : cookies' = [cookies EXCEPT ![b] = me] /\ me.uid = 0
  <2>1. Out \in CookieState /\ Out.uid = 0
    BY DEF Out, CookieState
  <2> DEFINE left == [cookies[b] EXCEPT !.uid = 0, !.subject = Unlinked]
  <2>2. cookies[b] \in CookieState
    BY DEF IdentityInv, IdentityShape
  <2>3. left \in CookieState /\ left.uid = 0
    BY <2>2 DEF CookieState
  <2>4. SessionExpires(b) => cookies' = [cookies EXCEPT ![b] = left]
    BY DEF SessionExpires
  <2> HIDE DEF left
  <2>5. QED
    BY <2>1, <2>3, <2>4 DEF SignOut
<1>3. /\ cookies' \in [Browsers -> CookieState]
      /\ \A c \in Browsers : cookies'[c] = IF c = b THEN me ELSE cookies[c]
  BY <1>2, CookiesAreSet DEF IdentityInv
<1>4. IdentityShape'
  BY <1>1, <1>3 DEF IdentityInv, IdentityShape
<1>5. LinksAreVerified'
  BY <1>1 DEF IdentityInv, LinksAreVerified
<1>6. OneAccountEach'
  BY <1>1 DEF IdentityInv, RequestsAreEarned, OneAccountEach
<1>7. RequestsAreEarned'
  BY <1>1, <1>2, <1>3, <1>6 DEF IdentityInv, RequestsAreEarned
<1>8. QED
  BY <1>4, <1>5, <1>7 DEF IdentityInv

LEMMA IdentityStep == IdentityInv /\ [IdentityNext]_identityVars => IdentityInv'
<1> SUFFICES ASSUME IdentityInv, [IdentityNext]_identityVars PROVE IdentityInv'
  OBVIOUS
<1>1. CASE IdentityNext
  BY <1>1, SignInStarts, SubjectIsFound, EmailIsFound, AccountIsLinked, AccountIsCreated,
     MembershipsChange, RequestsAreServed, SessionsEnd DEF IdentityNext
<1>2. CASE UNCHANGED identityVars
  <2>1. UNCHANGED <<accounts, memberships, cookies, signin, request, granted, proofs>>
    BY <1>2 DEF identityVars
  <2>2. IdentityShape' /\ LinksAreVerified'
    BY <2>1 DEF IdentityInv, IdentityShape, LinksAreVerified
  <2>3. RequestsAreEarned'
    BY <2>1 DEF IdentityInv, RequestsAreEarned, OneAccountEach
  <2>4. QED
    BY <2>2, <2>3 DEF IdentityInv
<1>3. QED
  BY <1>1, <1>2

\* However many people sign in at once, with whatever subjects and addresses the provider
\* vouches for, there is one account per e-mail and per subject; the subject an account
\* carries, and the one behind a session, has created that account or proved its e-mail; and
\* a request acts for a signed-in account in a workspace the operator once granted it.
\* (auth.ts:11-13, drizzle-store.ts:664-709, resolver.ts:33-55)
THEOREM RequestsEarned == IdentitySpec => []RequestsAreEarned
<1>1. IdentityInv => RequestsAreEarned
  BY DEF IdentityInv
<1>2. QED
  BY IdentityStart, IdentityStep, <1>1, PTL DEF IdentitySpec

\* What the other parts of the state name is an account there is, and only a sign-in that
\* is about to link an account has found one.
AccountsInv ==
  /\ granted \subseteq (DOMAIN accounts) \X Rooms
  /\ \A proof \in proofs : proof[2] \in DOMAIN accounts
  /\ \A b \in Browsers : signin[b].phase = "link" <=> signin[b].found # 0

LEMMA AccountsStart == IdentityInit => AccountsInv
BY DEF IdentityInit, AccountsInv, NotSigningIn

\* The sign-in of one browser moves on.
LEMMA FoundKept ==
  ASSUME IdentityInv, AccountsInv, NEW b \in Browsers, NEW me \in SignInState,
         signin' = [signin EXCEPT ![b] = me], me.phase = "link" <=> me.found # 0
  PROVE  \A c \in Browsers : signin'[c].phase = "link" <=> signin'[c].found # 0
<1>1. \A c \in Browsers : signin'[c] = IF c = b THEN me ELSE signin[c]
  BY SignInIsSet DEF IdentityInv
<1>2. QED
  BY <1>1 DEF AccountsInv

LEMMA NothingFound ==
  ASSUME IdentityInv, AccountsInv, NEW b \in Browsers, signin' = [signin EXCEPT ![b] = NotSigningIn]
  PROVE  \A c \in Browsers : signin'[c].phase = "link" <=> signin'[c].found # 0
<1>1. NotSigningIn \in SignInState /\ NotSigningIn.phase = "idle" /\ NotSigningIn.found = 0
  BY DEF NotSigningIn, SignInState
<1>2. QED
  BY <1>1, FoundKept

\* The steps of a sign-in.
LEMMA SignInFinds ==
  ASSUME IdentityInv, AccountsInv, NEW b \in Browsers,
         (\E profile \in Profiles : StartSignIn(b, profile)) \/ FindBySubject(b) \/ FindByEmail(b)
  PROVE  AccountsInv'
<1>1. /\ accounts' = accounts /\ granted' = granted /\ proofs' = proofs
  BY DEF StartSignIn, FindBySubject, FindByEmail
<1>2. signin[b] \in SignInState /\ (signin[b].phase = "link" <=> signin[b].found # 0)
  BY DEF IdentityInv, IdentityShape, AccountsInv
<1>3. ASSUME NEW profile \in Profiles, StartSignIn(b, profile)
      PROVE  \A c \in Browsers : signin'[c].phase = "link" <=> signin'[c].found # 0
  <2> DEFINE me == [phase |-> "subject", profile |-> profile, found |-> 0]
  <2>1. signin' = [signin EXCEPT ![b] = me]
    BY <1>3 DEF StartSignIn
  <2>2. me \in SignInState /\ me.phase = "subject" /\ me.found = 0
    BY DEF SignInState
  <2> HIDE DEF me
  <2>3. QED
    BY <2>1, <2>2, FoundKept
<1>4. ASSUME FindBySubject(b)
      PROVE  \A c \in Browsers : signin'[c].phase = "link" <=> signin'[c].found # 0
  <2> DEFINE me == [signin[b] EXCEPT !.phase = "email"]
  <2>1. CASE signin' = [signin EXCEPT ![b] = NotSigningIn]
    BY <2>1, NothingFound
  <2>2. CASE signin' = [signin EXCEPT ![b] = me]
    <3>1. me \in SignInState /\ me.phase = "email" /\ me.found = signin[b].found
      BY <1>2 DEF SignInState
    <3>2. signin[b].found = 0
      BY <1>2, <1>4 DEF FindBySubject, SigningIn
    <3> HIDE DEF me
    <3>3. QED
      BY <2>2, <3>1, <3>2, FoundKept
  <2>3. QED
    BY <1>4, <2>1, <2>2 DEF FindBySubject, Established
<1>5. ASSUME FindByEmail(b)
      PROVE  \A c \in Browsers : signin'[c].phase = "link" <=> signin'[c].found # 0
  <2> DEFINE known == {i \in DOMAIN accounts : accounts[i].email = signin[b].profile.email}
             found == CHOOSE i \in known : TRUE
             me == IF known = {} THEN [signin[b] EXCEPT !.phase = "create"]
                   ELSE IF ~signin[b].profile.verified THEN NotSigningIn
                   ELSE [signin[b] EXCEPT !.phase = "link", !.found = found]
  <2>1. signin[b].phase = "email" /\ signin' = [signin EXCEPT ![b] = me]
    BY <1>5 DEF FindByEmail, SigningIn
  <2>2. signin[b].found = 0
    BY <1>2, <2>1
  <2>3. \A i \in known : i \in Nat /\ i # 0
    BY LenProperties DEF IdentityInv, IdentityShape
  <2>4. known # {} => found \in known
    OBVIOUS
  <2> HIDE DEF known, found
  <2>5. me \in SignInState /\ (me.phase = "link" <=> me.found # 0)
    <3>1. CASE known = {}
      BY <3>1, <1>2, <2>2 DEF SignInState
    <3>2. CASE known # {} /\ ~signin[b].profile.verified
      BY <3>2 DEF NotSigningIn, SignInState
    <3>3. CASE known # {} /\ signin[b].profile.verified
      BY <3>3, <1>2, <2>3, <2>4 DEF SignInState
    <3>4. QED
      BY <3>1, <3>2, <3>3
  <2> HIDE DEF me
  <2>6. QED
    BY <2>1, <2>5, FoundKept
<1>6. QED
  BY <1>1, <1>3, <1>4, <1>5 DEF AccountsInv

\* The steps that end a sign-in.
LEMMA SignInEnds ==
  ASSUME IdentityInv, AccountsInv, NEW b \in Browsers, LinkAccount(b) \/ CreateAccount(b)
  PROVE  AccountsInv'
<1>1. granted' = granted /\ signin' = [signin EXCEPT ![b] = NotSigningIn]
  BY DEF LinkAccount, CreateAccount, Established
<1>2. \A c \in Browsers : signin'[c].phase = "link" <=> signin'[c].found # 0
  BY <1>1, NothingFound
<1>3. /\ accounts \in Seq(AccountRow) /\ Len(accounts) \in Nat
      /\ DOMAIN accounts = 1 .. Len(accounts)
  BY LenProperties DEF IdentityInv, IdentityShape
<1>4. ASSUME LinkAccount(b)
      PROVE  /\ DOMAIN accounts' = DOMAIN accounts
             /\ \A proof \in proofs' : proof[2] \in DOMAIN accounts
  <2>1. DOMAIN accounts' = DOMAIN accounts
    BY <1>4 DEF LinkAccount
  <2>2. signin[b].found \in DOMAIN accounts
    BY <1>4 DEF LinkAccount, IdentityInv, LinksAreVerified, SigningIn
  <2>3. PICK subject : proofs' \subseteq proofs \cup {<<subject, signin[b].found>>}
    BY <1>4 DEF LinkAccount, Proven
  <2>4. QED
    BY <2>1, <2>2, <2>3 DEF AccountsInv
<1>5. ASSUME CreateAccount(b)
      PROVE  /\ DOMAIN accounts \subseteq DOMAIN accounts'
             /\ \A proof \in proofs' : proof[2] \in DOMAIN accounts'
  <2>1. CASE accounts' = accounts /\ proofs' = proofs
    BY <2>1 DEF AccountsInv
  <2>2. CASE ~ (accounts' = accounts /\ proofs' = proofs)
    <3> DEFINE new == NewAccount(b)
               uid == Len(accounts) + 1
    <3>1. /\ accounts' = Append(accounts, new)
          /\ proofs' = proofs \cup {<<signin[b].profile.subject, uid>>}
      BY <1>5, <2>2 DEF CreateAccount, Proven
    <3>2. DOMAIN accounts' = 1 .. uid
      BY <3>1, <1>3
    <3>3. uid \in 1 .. uid /\ 1 .. Len(accounts) \subseteq 1 .. uid
      BY <1>3
    <3> HIDE DEF uid, new
    <3>4. QED
      BY <1>3, <3>1, <3>2, <3>3 DEF AccountsInv
  <2>3. QED
    BY <2>1, <2>2
<1>6. QED
  BY <1>1, <1>2, <1>4, <1>5 DEF AccountsInv

LEMMA AccountsStep == IdentityInv /\ AccountsInv /\ [IdentityNext]_identityVars => AccountsInv'
<1> SUFFICES ASSUME IdentityInv, AccountsInv, [IdentityNext]_identityVars PROVE AccountsInv'
  OBVIOUS
<1>1. ASSUME UNCHANGED <<accounts, signin, granted, proofs>> PROVE AccountsInv'
  BY <1>1 DEF AccountsInv
<1>2. ASSUME NEW uid \in DOMAIN accounts, NEW w \in Rooms, GrantMembership(uid, w)
      PROVE  AccountsInv'
  BY <1>2 DEF GrantMembership, AccountsInv
<1>3. ASSUME NEW b \in Browsers,
             \/ \E w \in Rooms : StartRequest(b, w) \/ SwitchWorkspace(b, w)
             \/ FinishRequest(b) \/ SignOut(b) \/ SessionExpires(b)
      PROVE  UNCHANGED <<accounts, signin, granted, proofs>>
  BY <1>3 DEF StartRequest, SwitchWorkspace, FinishRequest, SignOut, SessionExpires
<1>4. ASSUME NEW i, RevokeMembership(i) PROVE UNCHANGED <<accounts, signin, granted, proofs>>
  BY <1>4 DEF RevokeMembership
<1>5. CASE UNCHANGED identityVars
  BY <1>1, <1>5 DEF identityVars
<1>6. CASE IdentityNext
  BY <1>6, <1>1, <1>2, <1>3, <1>4, SignInFinds, SignInEnds DEF IdentityNext
<1>7. QED
  BY <1>5, <1>6

LEMMA IdentityTyped == IdentityInv /\ AccountsInv => IdentityTypeOK
<1> SUFFICES ASSUME IdentityInv, AccountsInv PROVE IdentityTypeOK
  OBVIOUS
<1>1. accounts \in Seq([email : {p.email : p \in Profiles},
                        subject : {p.subject : p \in Profiles} \cup {Unlinked}])
  BY DEF IdentityInv, IdentityShape, AccountRow, Subjects
<1>2. memberships \in Seq((DOMAIN accounts) \X Rooms)
  BY SeqMonotonic DEF IdentityInv, IdentityShape, AccountsInv
<1>3. ASSUME NEW b \in Browsers
      PROVE  /\ cookies[b].uid \in {0} \cup DOMAIN accounts
             /\ cookies[b].hint \in Rooms \cup {NoRoom}
             /\ signin[b].phase \in {"idle", "subject", "email", "link", "create"}
             /\ SigningIn(b, "link") <=> signin[b].found # 0
             /\ request[b].uid \in {0} \cup DOMAIN accounts
  <2>1. /\ cookies[b] \in CookieState /\ signin[b] \in SignInState
        /\ request[b] \in RequestState
    BY DEF IdentityInv, IdentityShape
  <2>2. cookies[b].uid \in {0} \cup DOMAIN accounts
    BY DEF IdentityInv, RequestsAreEarned, AccountsInv
  <2>3. request[b].uid \in {0} \cup DOMAIN accounts
    BY DEF IdentityInv, RequestsAreEarned, AccountsInv
  <2>4. QED
    BY <2>1, <2>2, <2>3 DEF AccountsInv, SigningIn, CookieState, SignInState
<1>4. QED
  BY <1>1, <1>2, <1>3 DEF IdentityTypeOK

-----------------------------------------------------------------------------
(* Fetching.                                                                *)

\* Only a request has a timer.
FetchInv == FetchTypeOK /\ (timer => fetching.step = "request")

LEMMA FetchStart == FetchInit => FetchInv
<1> SUFFICES ASSUME FetchInit PROVE FetchInv
  OBVIOUS
<1>1. timer = FALSE /\ fetching.step = "idle"
  BY DEF FetchInit, Idling
<1>2. covered \in [Pages -> {"none", "skipped", "failed", "ingested"}]
  BY DEF FetchInit
<1>3. QED
  BY <1>1, <1>2 DEF FetchInv, FetchTypeOK

\* A source gets its row, and the fetcher is free for the next.
LEMMA FinishKeeps ==
  ASSUME FetchInv, NEW source \in Pages, NEW outcome \in {"skipped", "failed", "ingested"},
         Finish(source, outcome)
  PROVE  FetchInv'
<1>1. fetching' = Idling /\ timer' = FALSE /\ fetching'.step = "idle"
  BY DEF Finish, Idling
<1>2. covered' \in [Pages -> {"none", "skipped", "failed", "ingested"}]
  BY DEF Finish, FetchInv, FetchTypeOK
<1>3. QED
  BY <1>1, <1>2 DEF FetchInv, FetchTypeOK

\* A request or a lookup is made for an address that is safe.
LEMMA VisitKeeps ==
  ASSUME FetchInv, NEW source \in Pages, NEW url, NEW hops \in 0 .. MaxRedirects,
         Visit(source, url, hops)
  PROVE  FetchInv'
<1>1. CASE Finish(source, "failed")
  BY <1>1, FinishKeeps
<1>2. CASE /\ Safe(url)
           /\ fetching' = [step |-> "resolve", page |-> source, url |-> url, hops |-> hops]
           /\ timer' = FALSE /\ covered' = covered
  <2>1. /\ fetching'.step = "resolve" /\ fetching'.page = source
        /\ fetching'.url = url /\ fetching'.hops = hops
    BY <1>2
  <2>2. QED
    BY <1>2, <2>1 DEF FetchInv, FetchTypeOK, Safe
<1>3. CASE Safe(url) /\ Send(source, url, hops)
  <2>1. /\ fetching'.step = "request" /\ fetching'.page = source
        /\ fetching'.url = url /\ fetching'.hops = hops
        /\ timer' = TRUE /\ covered' = covered
    BY <1>3 DEF Send
  <2>2. QED
    BY <1>3, <2>1 DEF FetchInv, FetchTypeOK, Safe
<1>4. QED
  BY <1>1, <1>2, <1>3 DEF Visit

LEMMA FetchStep == FetchInv /\ [FetchNext]_fetchVars => FetchInv'
<1> SUFFICES ASSUME FetchInv, [FetchNext]_fetchVars PROVE FetchInv'
  OBVIOUS
<1>m. 0 \in 0 .. MaxRedirects
  BY FetchAssumption
<1>1. CASE StartFetch
  BY <1>1, <1>m, FinishKeeps, VisitKeeps DEF StartFetch
<1>2. CASE TimerFires
  <2>1. fetching.page \in Pages /\ Finish(fetching.page, "failed")
    BY <1>2 DEF TimerFires, FetchInv, FetchTypeOK
  <2>2. QED
    BY <2>1, FinishKeeps
<1>3. CASE HostResolves
  <2>1. /\ fetching.page \in Pages /\ Safe(fetching.url) /\ fetching.hops \in 0 .. MaxRedirects
        /\ \/ Send(fetching.page, fetching.url, fetching.hops)
           \/ Finish(fetching.page, "failed")
    BY <1>3 DEF HostResolves, FetchInv, FetchTypeOK
  <2>2. CASE Send(fetching.page, fetching.url, fetching.hops)
    <3>1. /\ fetching'.step = "request" /\ fetching'.page = fetching.page
          /\ fetching'.url = fetching.url /\ fetching'.hops = fetching.hops
          /\ timer' = TRUE /\ covered' = covered
      BY <2>2 DEF Send
    <3>2. QED
      BY <2>1, <3>1 DEF FetchInv, FetchTypeOK, Safe
  <2>3. QED
    BY <2>1, <2>2, FinishKeeps
<1>4. CASE HeadersArrive
  <2>1. PICK status \in Statuses, location \in Urls \cup {NoUrl} : Respond(status, location)
    BY <1>4 DEF HeadersArrive
  <2>2. fetching.page \in Pages /\ fetching.hops \in 0 .. MaxRedirects
    BY <2>1 DEF Respond, FetchInv, FetchTypeOK
  <2>3. CASE Finish(fetching.page, "failed")
    BY <2>2, <2>3, FinishKeeps
  <2>4. CASE fetching.hops < MaxRedirects /\ Visit(fetching.page, location, fetching.hops + 1)
    <3>1. fetching.hops + 1 \in 0 .. MaxRedirects
      BY <2>2, <2>4, FetchAssumption
    <3>2. QED
      BY <2>2, <2>4, <3>1, VisitKeeps
  <2>5. CASE /\ fetching' = [step |-> "body", page |-> fetching.page, status |-> status]
             /\ timer' = FALSE /\ covered' = covered
    <3>1. fetching'.step = "body" /\ fetching'.page = fetching.page
      BY <2>5
    <3>2. QED
      BY <2>2, <2>5, <3>1 DEF FetchInv, FetchTypeOK
  <2>6. fetching.hops >= MaxRedirects \/ fetching.hops < MaxRedirects
    BY <2>2, FetchAssumption
  <2>7. QED
    BY <2>1, <2>3, <2>4, <2>5, <2>6 DEF Respond
<1>5. CASE BodyArrives
  <2>1. fetching.page \in Pages
    BY <1>5 DEF BodyArrives, FetchInv, FetchTypeOK
  <2>2. QED
    BY <1>5, <2>1, FinishKeeps DEF BodyArrives
<1>6. CASE ConnectionFails
  <2>1. fetching.page \in Pages /\ Finish(fetching.page, "failed")
    BY <1>6 DEF ConnectionFails, FetchInv, FetchTypeOK
  <2>2. QED
    BY <2>1, FinishKeeps
<1>7. CASE UNCHANGED fetchVars
  BY <1>7 DEF fetchVars, FetchInv, FetchTypeOK, Safe
<1>8. QED
  BY <1>1, <1>2, <1>3, <1>4, <1>5, <1>6, <1>7 DEF FetchNext, FetcherStep

-----------------------------------------------------------------------------
(* The services side by side.                                                *)

\* A step of the services is one of the service that runs, and none of the others.
LEMMA EachServiceSteps ==
  ASSUME [ServicesNext]_servicesVars
  PROVE  /\ [OkfNext]_okfVars
         /\ [MemoryNext]_memoryVars
         /\ [IdentityNext]_identityVars
         /\ [FetchNext]_fetchVars
         /\ [SpanNext]_spanVars
         /\ [VersionNext]_versionVars
         /\ [CallNext]_callVars
         /\ [ProvisioningNext]_provisioningVars
<1>1. CASE service = "okf" /\ OkfNext /\ UNCHANGED ButOkf
  BY <1>1 DEF ButOkf
<1>2. CASE service = "memory" /\ MemoryNext /\ UNCHANGED ButMemory
  BY <1>2 DEF ButMemory
<1>3. CASE service = "identity" /\ IdentityNext /\ UNCHANGED ButIdentity
  BY <1>3 DEF ButIdentity
<1>4. CASE service = "fetch" /\ FetchNext /\ UNCHANGED ButFetch
  BY <1>4 DEF ButFetch
<1>5. CASE service = "diff" /\ SpanNext /\ UNCHANGED ButSpan
  BY <1>5 DEF ButSpan
<1>6. CASE service = "history" /\ VersionNext /\ UNCHANGED ButVersion
  BY <1>6 DEF ButVersion
<1>7. CASE service = "models" /\ CallNext /\ UNCHANGED ButCall
  BY <1>7 DEF ButCall
<1>8. CASE service = "setup" /\ ProvisioningNext /\ UNCHANGED ButSetup
  BY <1>8 DEF ButSetup
<1>9. CASE UNCHANGED servicesVars
  BY <1>9 DEF servicesVars
<1>10. QED
  BY <1>1, <1>2, <1>3, <1>4, <1>5, <1>6, <1>7, <1>8, <1>9 DEF ServicesNext

\* In whatever order pages are captured again and versions are written and looked at, the
\* claims quote what changed, the history page shows both of its versions whole, and its
\* links lead to a version and the one before it.
\* (diffChangedSpans, diffLines, versionDiffLinks)
THEOREM DiffsAreTruthful == ServicesSpec => []DiffsTellTheTruth
<1>1. ServicesInit => SpanInv /\ PagesInv
  BY SpanStart, PagesStart DEF ServicesInit
<1>2. SpanInv /\ PagesInv /\ [ServicesNext]_servicesVars => SpanInv' /\ PagesInv'
  <2>1. SUFFICES ASSUME SpanInv, PagesInv, [ServicesNext]_servicesVars PROVE SpanInv' /\ PagesInv'
    OBVIOUS
  <2>2. [SpanNext]_spanVars /\ [VersionNext]_versionVars
    BY <2>1, EachServiceSteps
  <2>3. QED
    BY <2>1, <2>2, SpanStep, PagesStep
<1>3. SpanInv /\ PagesInv => DiffsTellTheTruth
  BY ClaimsPinned, HistoryShows DEF PagesInv, DiffsTellTheTruth
<1>4. QED
  BY <1>1, <1>2, <1>3, PTL DEF ServicesSpec

\* The inductive invariant of every service.
ServicesInv ==
  /\ DeliveryInv
  /\ StoreInv /\ KeysInv
  /\ IdentityInv /\ AccountsInv
  /\ FetchInv
  /\ SpanInv
  /\ PagesInv
  /\ SpendInv \/ SpentOut
  /\ SetupInv

\* Whichever service runs, its state stays well-formed: a sweep reads only rivals that are
\* listed and never deletes what it writes, no two rows of a table share an id, the rooms
\* and sessions are those of accounts there are, and only safe addresses are asked.
THEOREM ServicesTyped == ServicesSpec => []ServicesTypeOK
<1>1. ServicesInit => ServicesInv
  BY DeliveryStart, StoreInit, KeysStart, IdentityStart, AccountsStart, FetchStart, SpanStart,
     PagesStart, CallStart, SetupStart
  DEF ServicesInit, ServicesInv
<1>2. ServicesInv /\ [ServicesNext]_servicesVars => ServicesInv'
  <2> SUFFICES ASSUME ServicesInv, [ServicesNext]_servicesVars PROVE ServicesInv'
    OBVIOUS
  <2>1. /\ [OkfNext]_okfVars /\ [MemoryNext]_memoryVars /\ [IdentityNext]_identityVars
        /\ [FetchNext]_fetchVars /\ [SpanNext]_spanVars /\ [VersionNext]_versionVars
        /\ [CallNext]_callVars /\ [ProvisioningNext]_provisioningVars
    BY EachServiceSteps
  <2>2. DeliveryInv'
    BY <2>1, DeliveryStep DEF ServicesInv
  <2>3. StoreInv' /\ KeysInv'
    BY <2>1, StoreStep, KeysStep DEF ServicesInv
  <2>4. IdentityInv' /\ AccountsInv'
    BY <2>1, IdentityStep, AccountsStep DEF ServicesInv
  <2>5. FetchInv' /\ SpanInv' /\ PagesInv'
    BY <2>1, FetchStep, SpanStep, PagesStep DEF ServicesInv
  <2>6. (SpendInv' \/ SpentOut') /\ SetupInv'
    BY <2>1, CallStep, SetupStep DEF ServicesInv
  <2>7. QED
    BY <2>2, <2>3, <2>4, <2>5, <2>6 DEF ServicesInv
<1>3. ServicesInv => ServicesTypeOK
  <2> SUFFICES ASSUME ServicesInv PROVE ServicesTypeOK
    OBVIOUS
  <2>1. OkfTypeOK /\ MemoryTypeOK /\ IdentityTypeOK
    BY DeliveryTyped, MemoryTyped, IdentityTyped DEF ServicesInv
  <2>2. FetchTypeOK /\ SpanTypeOK /\ VersionTypeOK
    BY SpanTypes, PagesTyped DEF ServicesInv, FetchInv
  <2>3. CallTypeOK /\ ProvisioningTypeOK
    BY DEF ServicesInv, SpendInv, SpentOut, SetupInv
  <2>4. QED
    BY <2>1, <2>2, <2>3 DEF ServicesTypeOK
<1>4. QED
  BY <1>1, <1>2, <1>3, PTL DEF ServicesSpec
=============================================================================
