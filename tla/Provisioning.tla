---------------------------- MODULE Provisioning ----------------------------
(***************************************************************************)
(* ferriskey-bootstrap: the script that prepares the identity provider for *)
(* the login, run again whenever it failed.  Each step is one request; the *)
(* provider (external) answers 409 for what it has already, 5xx when it    *)
(* cannot serve, and an answer can be lost after the request had effect.   *)
(***************************************************************************)
EXTENDS Integers

CONSTANT MaxScripts  \* bound: runs of the script

ASSUME ProvisioningAssumption == MaxScripts \in Nat

VARIABLES
  existing,   \* what the provider has
  password,   \* of the demo user: "none", "demo", or "own" once its owner set it
  owned,      \* ghost: the password is its owner's
  script,     \* the step the script is at, "off", "done" or "failed"
  disturbed,  \* ghost: a request of this run failed or its answer was lost
  stranded,   \* ghost: a run ended between the demo user and its password
  scripts     \* runs so far, for the bound

provisioningVars == <<existing, password, owned, script, disturbed, stranded, scripts>>

\* What the script creates, in its order, and the step after each.
Things == {"realm", "client", "redirect", "logout", "user"}
StepAfter == [token |-> "realm", realm |-> "client", client |-> "redirect", find |-> "redirect",
          redirect |-> "logout", logout |-> "user", password |-> "done"]

Ended == {"off", "done", "failed"}

\* Mutant: every answer is taken for "already created".
AnyStatus(status) == TRUE

\* call(): 2xx and, for the steps that create, already-exists statuses pass.
Passes(status) == status \in 200 .. 299 \/ status \in {409, 422}

Advance(next) == script' = next /\ UNCHANGED <<owned, disturbed, stranded, scripts>>

Fail(mishap) ==
  /\ script' = "failed"
  /\ disturbed' = mishap
  /\ stranded' = (stranded \/ ("user" \in existing' /\ password' = "none"))
  /\ UNCHANGED <<owned, scripts>>

(***************************************************************************)
(* Steps                                                                   *)
(***************************************************************************)
StartScript ==
  /\ script \in Ended /\ scripts < MaxScripts
  /\ script' = "token"
  /\ disturbed' = FALSE
  /\ scripts' = scripts + 1
  /\ UNCHANGED <<existing, password, owned, stranded>>

GetToken == script = "token" /\ Advance("realm") /\ UNCHANGED <<existing, password>>

\* The id of a thing comes with its creation: a client that exists is looked
\* up for it, a user that exists is left as it is.
After(thing, created) ==
  IF thing = "client" /\ ~created THEN "find"
  ELSE IF thing = "user" THEN IF created THEN "password" ELSE "done"
  ELSE StepAfter[thing]

Create(thing) ==
  /\ script = thing
  /\ \E status \in {201, 409, 500} :
       /\ status = 201 => thing \notin existing
       /\ status = 409 => thing \in existing
       /\ existing' = IF status = 201 THEN existing \cup {thing} ELSE existing
       /\ UNCHANGED password
       /\ IF Passes(status) THEN Advance(After(thing, status = 201)) ELSE Fail(status = 500)

FindClient ==
  /\ script = "find"
  /\ UNCHANGED <<existing, password>>
  /\ IF "client" \in existing THEN Advance("redirect") ELSE Fail(FALSE)

SetPassword ==
  /\ script = "password"
  /\ password' = "demo"
  /\ UNCHANGED existing
  /\ Advance("done")

\* The connection breaks, the provider fails or the script is stopped, before
\* a request or after its effect.
Break ==
  /\ script \notin Ended
  /\ \/ UNCHANGED <<existing, password>>
     \/ script \in Things /\ existing' = existing \cup {script} /\ UNCHANGED password
     \/ script = "password" /\ password' = "demo" /\ UNCHANGED existing
  /\ Fail(TRUE)

\* The demo user's owner sets a password of their own.
ChangePassword ==
  /\ password = "demo"
  /\ password' = "own"
  /\ owned' = TRUE
  /\ UNCHANGED <<existing, script, disturbed, stranded, scripts>>

\* The provider may be new, or have the realm and a user who was added by hand.
ProvisioningInit ==
  /\ \/ existing = {} /\ password = "none"
     \/ existing = {"realm", "user"} /\ password = "own"
  /\ owned = (password = "own")
  /\ script = "off"
  /\ disturbed = FALSE
  /\ stranded = FALSE
  /\ scripts = 0

ProvisioningNext ==
  \/ StartScript \/ GetToken \/ FindClient \/ SetPassword \/ Break \/ ChangePassword
  \/ \E thing \in Things : Create(thing)

ProvisioningSpec == ProvisioningInit /\ [][ProvisioningNext]_provisioningVars

(***************************************************************************)
(* Properties                                                              *)
(***************************************************************************)
ProvisioningTypeOK ==
  /\ existing \subseteq Things
  /\ password \in {"none", "demo", "own"}
  /\ script \in Things \cup Ended \cup {"token", "find", "password"}
  /\ owned \in BOOLEAN /\ disturbed \in BOOLEAN /\ stranded \in BOOLEAN
  /\ scripts \in 0 .. MaxScripts

\* A script that says it is done leaves everything the login needs, with a
\* password unless an earlier run ended just before it was set; a run after
\* broken ones fails only if it is disturbed itself; and no run takes back a
\* password that its owner chose.
RerunsCompleteTheSetup ==
  /\ script = "done" => Things \subseteq existing /\ (password # "none" \/ stranded)
  /\ script = "failed" => disturbed
  /\ owned => password = "own"
=============================================================================
