--------------------------- MODULE PricingFirewall ---------------------------
(***************************************************************************)
(* What the pipeline promises about price alerts, without ticks, clocks,   *)
(* budgets or crashes: observations of the watched pages accumulate, a     *)
(* change is a finding about one observation, and a finding about a price  *)
(* becomes visible only after another observation of the same source, made *)
(* after the finding, showed the same content.  ScheduledTick implements   *)
(* this specification.                                                     *)
(***************************************************************************)
EXTENDS Naturals, Sequences

CONSTANTS Sources, Contents, TriageClasses

VARIABLES
  evidence,   \* every observation: which source, what it showed
  findings    \* every change: the observation that showed it, and its fate

vars == <<evidence, findings>>

Seen(s, c) == Append(evidence, [source |-> s, content |-> c])

Found(s, class, fate) ==
  Append(findings, [source |-> s, class |-> class, fate |-> fate,
                    seen |-> Len(evidence) + 1, proof |-> 0])

FirstFate(class) == CASE class = "noise" -> "dismissed"
                      [] class = "pricing_change" -> "pending"
                      [] OTHER -> "published"

Init == evidence = <<>> /\ findings = <<>>

\* A first look at a source: nothing to compare it with.
Observe(s, c) ==
  /\ evidence' = Seen(s, c)
  /\ UNCHANGED findings

\* A look that shows something new.
Detect(s, c, class) ==
  /\ evidence' = Seen(s, c)
  /\ findings' = Found(s, class, FirstFate(class))

Undecided(i) == /\ findings[i].class = "pricing_change"
                /\ findings[i].fate = "pending"

\* A later look at the same source shows the same content again.
Reproduce(i) ==
  /\ Undecided(i)
  /\ evidence' = Seen(findings[i].source, evidence[findings[i].seen].content)
  /\ findings' = [findings EXCEPT ![i].fate = "confirmed",
                                  ![i].proof = Len(evidence) + 1]

\* A later look at the same source shows anything else.
Refute(i, c) ==
  /\ Undecided(i)
  /\ c # evidence[findings[i].seen].content
  /\ evidence' = Seen(findings[i].source, c)
  /\ findings' = [findings EXCEPT ![i].fate = "dismissed"]

Publish(i) ==
  /\ findings[i].fate = "confirmed"
  /\ findings' = [findings EXCEPT ![i].fate = "published"]
  /\ UNCHANGED evidence

Next ==
  \/ \E s \in Sources, c \in Contents : Observe(s, c)
  \/ \E s \in Sources, c \in Contents, class \in TriageClasses : Detect(s, c, class)
  \/ \E i \in DOMAIN findings : Reproduce(i)
  \/ \E i \in DOMAIN findings, c \in Contents : Refute(i, c)
  \/ \E i \in DOMAIN findings : Publish(i)

Spec == Init /\ [][Next]_vars
=============================================================================
