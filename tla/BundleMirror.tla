---------------------------- MODULE BundleMirror ----------------------------
(***************************************************************************)
(* What the delivery of bundles promises a customer's repository, without  *)
(* sweeps, pushes or records: it shows versions that were published, with  *)
(* every earlier version of the same section, it never goes back on what   *)
(* it has shown, and the newest version it shows of each section has       *)
(* verified citations.  A version is <<rival, kind, number, verified>>.    *)
(***************************************************************************)
EXTENDS Naturals

CONSTANT Repos

VARIABLES
  published,   \* the versions in the store
  shown        \* the versions in each repository's log

vars == <<published, shown>>

Init ==
  /\ published = {}
  /\ shown = [t \in Repos |-> {}]

SameChain(v, w) == v[1] = w[1] /\ v[2] = w[2]

Publish(v) ==
  /\ \A w \in published : SameChain(v, w) => w[3] < v[3]
  /\ published' = published \cup {v}
  /\ UNCHANGED shown

Complete(versions) ==
  \A v \in versions : \A w \in published :
     SameChain(v, w) /\ w[3] < v[3] => w \in versions

HeadsVerified(versions) ==
  \A v \in versions :
     v[4] \/ \E w \in versions : SameChain(v, w) /\ v[3] < w[3]

Show(t, versions) ==
  /\ shown[t] \subseteq versions
  /\ Complete(versions)
  /\ HeadsVerified(versions)
  /\ shown' = [shown EXCEPT ![t] = versions]
  /\ UNCHANGED published

\* The versions a step adds to a set that only grows.
Next ==
  \/ \E v \in published' \ published : Publish(v)
  \/ \E t \in Repos : shown'[t] \subseteq published /\ Show(t, shown'[t])

Spec == Init /\ [][Next]_vars
=============================================================================
