----------------------------- MODULE AlertOutbox -----------------------------
(***************************************************************************)
(* What alert delivery promises, without sweeps, rows or retries: once a   *)
(* change may be shown, it is promised to each enabled destination; every  *)
(* promise to a destination that accepts messages is eventually kept, and  *)
(* a promise is settled only after the destination received the message,   *)
(* after which it is never sent again.  AlertDelivery, with one sweep at a *)
(* time, implements this specification.                                    *)
(***************************************************************************)
EXTENDS Naturals

CONSTANTS Deltas, Channels, Pricing, Deduping, Dead

Pairs == Deltas \X Channels

VARIABLES
  cleared,    \* changes that may be shown
  promised,   \* the (change, destination) pairs that are owed a message
  received,   \* how many copies each of them got
  settled     \* the pairs that are done

vars == <<cleared, promised, received, settled>>

Init ==
  /\ cleared = {}
  /\ promised = {}
  /\ received = [p \in Pairs |-> 0]
  /\ settled = {}

Clear(d) ==
  /\ cleared' = cleared \cup {d}
  /\ UNCHANGED <<promised, received, settled>>

Promise(p) ==
  /\ p[1] \in cleared
  /\ promised' = promised \cup {p}
  /\ UNCHANGED <<cleared, received, settled>>

\* One more copy; a destination that deduplicates keeps one.
Accept(p) ==
  /\ p \in promised \ settled
  /\ p[2] \notin Dead
  /\ received' = [received EXCEPT ![p] = IF p[2] \in Deduping THEN 1 ELSE @ + 1]
  /\ UNCHANGED <<cleared, promised, settled>>

Settle(p) ==
  /\ p \in promised
  /\ received[p] > 0
  /\ settled' = settled \cup {p}
  /\ UNCHANGED <<cleared, promised, received>>

Next ==
  \/ \E d \in Deltas : Clear(d)
  \/ \E p \in Pairs : Promise(p) \/ Accept(p) \/ Settle(p)

\* A promise to a destination that accepts messages is kept.
Fairness ==
  \A p \in Pairs : p[2] \notin Dead => WF_vars(Accept(p)) /\ WF_vars(Settle(p))

Spec == Init /\ [][Next]_vars /\ Fairness
=============================================================================
