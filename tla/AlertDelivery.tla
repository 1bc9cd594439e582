---------------------------- MODULE AlertDelivery ----------------------------
(***************************************************************************)
(* The delivery sweep: runDeliverySweep over the alert rows of the store.  *)
(*                                                                         *)
(* A sweep first stores one row for every alertable delta and every enabled*)
(* destination, then sends the oldest rows that are not delivered, at most *)
(* MaxSends of them, and records each outcome.  Sending is outside any     *)
(* transaction, so a sweep may die, or its write may fail, between the     *)
(* moment the provider accepts a message and the moment the row says so.   *)
(*                                                                         *)
(* Inngest runs one sweep at a time; Sweeps may hold two to check what the *)
(* unique constraint and the terminal status guarantee by themselves.      *)
(*                                                                         *)
(* External: the pipeline that moves the deltas, and the providers.  A     *)
(* provider decides about a message before the sweep stops waiting for it. *)
(* One workspace: the sweep treats workspaces alike and one after another. *)
(***************************************************************************)
EXTENDS Naturals, Sequences, FiniteSets

CONSTANTS
  Deltas,     \* the changes the pipeline may find
  Channels,   \* destinations: a Slack webhook or an e-mail recipient each
  Pricing,    \* the deltas whose class is pricing_change
  Uncited,    \* the deltas without a verified claim
  Email,      \* the channels whose provider deduplicates on the alert id
  Dead,       \* destinations that refuse every message
  Sweeps,     \* sweeps that may overlap
  MaxSends,   \* messages a sweep attempts
  Faults,     \* what may go wrong: "store", "refused", "timeout", "crash"
  MaxFaults   \* bound: faults in a behaviour

ASSUME DeliveryAssumption ==
  /\ Pricing \subseteq Deltas
  /\ Uncited \subseteq Deltas
  /\ Email \subseteq Channels
  /\ Dead \subseteq Channels
  /\ IsFiniteSet(Sweeps)
  /\ MaxSends \in Nat
  /\ MaxFaults \in Nat

Pairs == Deltas \X Channels

VARIABLES
  deltas,     \* external: the state of each delta
  enabled,    \* the destinations that have been configured
  order,      \* the alert rows by (enqueuedAt, id), oldest first
  status,     \* their delivery status
  sweeps,     \* the local state of each sweep
  received,   \* external: copies each destination accepted
  lost,       \* copies whose outcome was never recorded
  faults      \* faults so far

vars == <<deltas, enabled, order, status, sweeps, received, lost, faults>>

rows == <<order, status>>

Statuses == {"none", "queued", "failed", "delivered"}

Stored == {order[i] : i \in DOMAIN order}

\* deltas[d].confirmed: the row names a confirming snapshot.
DeltaRow == [state: {"pending", "confirmed", "dismissed", "published"},
             confirmed: BOOLEAN]

SweepState ==
  [phase: {"idle", "enqueueing", "sending", "accepted", "refused"},
   todo: SUBSET Pairs,     \* alerts the first loop has not reached
   batch: SUBSET Pairs,    \* rows the second loop has not finished
   before: Nat]            \* how many rows are older than this sweep

Idle == [phase |-> "idle", todo |-> {}, batch |-> {}, before |-> 0]

Init ==
  /\ deltas = [d \in Deltas |-> [state |-> "pending", confirmed |-> FALSE]]
  /\ enabled = {}
  /\ order = <<>>
  /\ status = [p \in Pairs |-> "none"]
  /\ sweeps = [w \in Sweeps |-> Idle]
  /\ received = [p \in Pairs |-> 0]
  /\ lost = [p \in Pairs |-> 0]
  /\ faults = 0

At(w, phase) == sweeps[w].phase = phase

Fault(kind) ==
  /\ kind \in Faults
  /\ faults < MaxFaults
  /\ faults' = faults + 1

-----------------------------------------------------------------------------
(* Around the sweep.                                                       *)

\* External: the tick decides a delta.  A price change is confirmed first.
DecideDelta(d) ==
  /\ \/ /\ deltas[d].state = "pending" /\ d \in Pricing
        /\ deltas' = [deltas EXCEPT ![d] = [state |-> "confirmed", confirmed |-> TRUE]]
     \/ /\ deltas[d].state = "pending"
        /\ deltas' = [deltas EXCEPT ![d].state = "dismissed"]
     \/ /\ \/ deltas[d].state = "confirmed"
           \/ deltas[d].state = "pending" /\ d \notin Pricing
        /\ deltas' = [deltas EXCEPT ![d].state = "published"]
  /\ UNCHANGED <<enabled, rows, sweeps, received, lost, faults>>

SeedChannelConfig(c) ==
  /\ c \notin enabled
  /\ enabled' = enabled \cup {c}
  /\ UNCHANGED <<deltas, rows, sweeps, received, lost, faults>>

-----------------------------------------------------------------------------
(* Phase 1: enqueue.                                                       *)

\* Mutant: a confirmed price change alerts before its publish edge.
AlertableOnceConfirmed(d) ==
  /\ \/ deltas[d].state = "published"
     \/ deltas[d].confirmed
  /\ d \notin Uncited

\* composeAlerts.
Alertable(d) ==
  /\ deltas[d].state = "published"
  /\ d \in Pricing => deltas[d].confirmed
  /\ d \notin Uncited

StartSweep(w) ==
  /\ At(w, "idle")
  /\ sweeps' = [sweeps EXCEPT ![w] =
                  [Idle EXCEPT !.phase = "enqueueing",
                               !.todo = {d \in Deltas : Alertable(d)} \X enabled,
                               !.before = Len(order)]]
  /\ UNCHANGED <<deltas, enabled, rows, received, lost, faults>>

\* The row goes behind the rows that are older than the sweep; among the rows
\* of the sweep, which share its timestamp, random ids order it.
InsertedAfter(n, p) ==
  {SubSeq(order, 1, i) \o <<p>> \o SubSeq(order, i + 1, Len(order)) : i \in n .. Len(order)}

\* Mutant: one row per delta and channel type.
EnqueueAlertPerType(w, p) ==
  /\ At(w, "enqueueing") /\ p \in sweeps[w].todo
  /\ IF \E q \in Stored : q[1] = p[1] /\ (q[2] \in Email <=> p[2] \in Email)
     THEN UNCHANGED rows
     ELSE /\ order' \in InsertedAfter(sweeps[w].before, p)
          /\ status' = [status EXCEPT ![p] = "queued"]
  /\ sweeps' = [sweeps EXCEPT ![w].todo = @ \ {p}]
  /\ UNCHANGED <<deltas, enabled, received, lost, faults>>

\* Mutant: no unique constraint.
EnqueueAlertAgain(w, p) ==
  /\ At(w, "enqueueing") /\ p \in sweeps[w].todo
  /\ order' \in InsertedAfter(sweeps[w].before, p)
  /\ status' = [status EXCEPT ![p] = "queued"]
  /\ sweeps' = [sweeps EXCEPT ![w].todo = @ \ {p}]
  /\ UNCHANGED <<deltas, enabled, received, lost, faults>>

\* The unique constraint on (delta, destination) absorbs a repeat.
EnqueueAlert(w, p) ==
  /\ At(w, "enqueueing") /\ p \in sweeps[w].todo
  /\ IF p \in Stored
     THEN UNCHANGED rows
     ELSE /\ order' \in InsertedAfter(sweeps[w].before, p)
          /\ status' = [status EXCEPT ![p] = "queued"]
  /\ sweeps' = [sweeps EXCEPT ![w].todo = @ \ {p}]
  /\ UNCHANGED <<deltas, enabled, received, lost, faults>>

\* The insert throws; the next sweep composes the alert again.
EnqueueFails(w, p) ==
  /\ At(w, "enqueueing") /\ p \in sweeps[w].todo
  /\ Fault("store")
  /\ sweeps' = [sweeps EXCEPT ![w].todo = @ \ {p}]
  /\ UNCHANGED <<deltas, enabled, rows, received, lost>>

-----------------------------------------------------------------------------
(* Phase 2: send.                                                          *)

\* Mutant: delivered rows are listed too.
IsStored(p) == status[p] # "none"

IsDeliverable(p) == status[p] \in {"queued", "failed"}

DeliverableRows == {i \in DOMAIN order : IsDeliverable(order[i])}

\* Mutant: rows never tried go first.
QueuedFirst ==
  LET Before(i, j) ==
        \/ status[order[i]] = "queued" /\ status[order[j]] = "failed"
        \/ status[order[i]] = status[order[j]] /\ i < j
  IN  {order[j] : j \in {k \in DeliverableRows :
                         Cardinality({i \in DeliverableRows : Before(i, k)}) < MaxSends}}

\* The oldest MaxSends of them.
DeliverableAlerts ==
  {order[j] : j \in {k \in DeliverableRows :
                     Cardinality({i \in DeliverableRows : i < k}) < MaxSends}}

ListDeliverable(w) ==
  /\ At(w, "enqueueing") /\ sweeps[w].todo = {}
  /\ sweeps' = [sweeps EXCEPT ![w] = [@ EXCEPT !.phase = "sending",
                                               !.batch = DeliverableAlerts]]
  /\ UNCHANGED <<deltas, enabled, rows, received, lost, faults>>

\* The alert a sweep is at: rows stay in the order in which they were listed.
Current(w) ==
  order[CHOOSE i \in DOMAIN order :
          /\ order[i] \in sweeps[w].batch
          /\ \A j \in DOMAIN order : order[j] \in sweeps[w].batch => i <= j]

\* The notifier answers for the current alert of the batch.
Sent(w, answer) ==
  /\ At(w, "sending") /\ sweeps[w].batch # {}
  /\ sweeps' = [sweeps EXCEPT ![w].phase = answer]
  /\ UNCHANGED <<deltas, enabled, rows>>

\* External: the provider takes one copy; e-mail is deduplicated on the alert id.
Accepts(p) ==
  /\ p[2] \notin Dead
  /\ received' = [received EXCEPT ![p] = IF p[2] \in Email THEN 1 ELSE @ + 1]

\* Mutant: a timeout counts as a delivery.
SendTimesOutOk(w) ==
  /\ Fault("timeout")
  /\ Sent(w, "accepted")
  /\ UNCHANGED <<received, lost>>

SendAccepted(w) ==
  /\ Sent(w, "accepted")
  /\ Accepts(Current(w))
  /\ UNCHANGED <<lost, faults>>

\* A 4xx, a 5xx, or an e-mail channel that is not configured.
SendRefused(w) ==
  /\ Sent(w, "refused")
  /\ IF Current(w)[2] \in Dead THEN UNCHANGED faults ELSE Fault("refused")
  /\ UNCHANGED <<received, lost>>

\* The request is aborted after the provider took the message.
SendTimesOut(w) ==
  /\ Fault("timeout")
  /\ Sent(w, "refused")
  /\ Accepts(Current(w))
  /\ lost' = [lost EXCEPT ![Current(w)] = @ + 1]

Outcome(w) == IF At(w, "accepted") THEN "delivered" ELSE "failed"

\* Mutant: the status the row already has is not looked at.
AnyTransition(from, to) == to \in {"delivered", "failed"}

AlertTransitionAllowed(from, to) ==
  /\ from \in {"queued", "failed"}
  /\ to \in {"delivered", "failed"}

\* The next iteration of the loop.
NextAlert(w) ==
  sweeps' = [sweeps EXCEPT ![w] = [@ EXCEPT !.phase = "sending",
                                               !.batch = sweeps[w].batch \ {Current(w)}]]

\* recordAlertOutcome.  It throws when another sweep delivered the alert; the
\* loop counts an error and goes on.
RecordOutcome(w) ==
  LET p == Current(w) IN
  /\ At(w, "accepted") \/ At(w, "refused")
  /\ status' = IF AlertTransitionAllowed(status[p], Outcome(w))
               THEN [status EXCEPT ![p] = Outcome(w)]
               ELSE status
  /\ NextAlert(w)
  /\ UNCHANGED <<deltas, enabled, order, received, lost, faults>>

\* The copy the sweep has just sent, if the provider took it, is forgotten.
Forget(w) ==
  lost' = IF At(w, "accepted") THEN [lost EXCEPT ![Current(w)] = @ + 1]
                               ELSE lost

\* The update throws although it is legal: the row stays as it is.
RecordFails(w) ==
  /\ Fault("store")
  /\ At(w, "accepted") \/ At(w, "refused")
  /\ Forget(w)
  /\ NextAlert(w)
  /\ UNCHANGED <<deltas, enabled, rows, received>>

FinishSweep(w) ==
  /\ At(w, "sending") /\ sweeps[w].batch = {}
  /\ sweeps' = [sweeps EXCEPT ![w] = Idle]
  /\ UNCHANGED <<deltas, enabled, rows, received, lost, faults>>

Crash(w) ==
  /\ Fault("crash")
  /\ ~At(w, "idle")
  /\ Forget(w)
  /\ sweeps' = [sweeps EXCEPT ![w] = Idle]
  /\ UNCHANGED <<deltas, enabled, rows, received>>

-----------------------------------------------------------------------------
\* What a sweep does when nothing fails but a dead destination.
Sweep(w) ==
  \/ StartSweep(w)
  \/ \E p \in Pairs : EnqueueAlert(w, p)
  \/ ListDeliverable(w)
  \/ SendAccepted(w) \/ SendRefused(w)
  \/ RecordOutcome(w)
  \/ FinishSweep(w)

Next ==
  \/ \E d \in Deltas : DecideDelta(d)
  \/ \E c \in Channels : SeedChannelConfig(c)
  \/ \E w \in Sweeps :
       \/ Sweep(w)
       \/ \E p \in Pairs : EnqueueFails(w, p)
       \/ SendTimesOut(w)
       \/ RecordFails(w)
       \/ Crash(w)

\* The cron fires for ever and a sweep that is not killed goes on.
Spec == Init /\ [][Next]_vars /\ \A w \in Sweeps : WF_vars(Sweep(w))

-----------------------------------------------------------------------------
(* The abstract specification: a row is a promise, a delivered row is a    *)
(* settled one.                                                            *)

Cleared == {d \in Deltas : /\ deltas[d].state = "published"
                           /\ d \in Pricing => deltas[d].confirmed}

Delivered == {p \in Pairs : status[p] = "delivered"}

Outbox == INSTANCE AlertOutbox WITH
  Deduping <- Email, cleared <- Cleared, promised <- Stored, settled <- Delivered

\* One sweep at a time implements the outbox: nothing is sent before the change
\* cleared the firewall, nothing is settled before the destination got it or sent
\* after, and every row of a working destination is settled.
ImplementsOutbox == Outbox!Spec

-----------------------------------------------------------------------------
\* Every variable has its type, and the rows are those with a status.
TypeOK ==
  /\ deltas \in [Deltas -> DeltaRow]
  /\ enabled \subseteq Channels
  /\ order \in Seq(Pairs)
  /\ status \in [Pairs -> Statuses]
  /\ Stored = {p \in Pairs : status[p] # "none"}
  /\ Len(order) = Cardinality(Stored)
  /\ sweeps \in [Sweeps -> SweepState]
  /\ received \in [Pairs -> Nat]
  /\ lost \in [Pairs -> Nat]
  /\ faults \in Nat

Sending(p) ==
  {w \in Sweeps : At(w, "accepted") /\ Current(w) = p}

\* A second copy has a reason: beyond the one copy a delivered row stands for,
\* each is one whose outcome a crash, a timeout or the store lost, or one that a
\* sweep is about to record.
DuplicatesHaveAReason ==
  \A p \in Pairs :
    received[p] <= lost[p] + Cardinality(Sending(p))
                     + (IF status[p] = "delivered" THEN 1 ELSE 0)

\* Delivered is final and keeps its place, even against a sweep that listed the
\* row earlier and whose own attempt failed.
DeliveredIsFinal ==
  [][\A p \in Pairs : status[p] = "delivered" => status'[p] = "delivered"]_status

\* With sweeps that overlap, each destination still gets at most one copy more
\* for every other sweep than the lost ones account for.
OverlapIsBounded ==
  \A p \in Pairs : received[p] <= lost[p] + Cardinality(Sweeps)

\* A failed alert is retried at the next sweep (notifier.ts), whatever was enqueued
\* since: it is always among the rows a sweep would list.
FailedAreRetriedNext ==
  \A p \in Pairs :
    status[p] = "failed" => p \in DeliverableAlerts

\* Each enabled destination that accepts messages is served: every alertable
\* change eventually reaches it and is recorded as delivered.
EveryDestinationIsServed ==
  \A p \in Pairs :
    p[2] \notin Dead =>
      (p[2] \in enabled /\ Alertable(p[1]) ~> status[p] = "delivered")
=============================================================================
