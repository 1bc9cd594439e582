--------------------------- MODULE SectionHistory ---------------------------
(***************************************************************************)
(* What synthesis promises about the dossiers and battlecards: each section*)
(* of a competitor has one linear history of versions, which only grows at *)
(* its end, and every version cites something, only evidence that verifies,*)
(* and only evidence that concerns this section of this competitor.        *)
(* Synthesis implements this specification.                                *)
(***************************************************************************)
EXTENDS Sequences

CONSTANTS
  Slots,         \* the sections of all competitors
  Citable(_)     \* Citable(slot): the evidence a version of it may cite

VARIABLE history   \* history[slot]: what each version cites, oldest first

Init == history = [slot \in Slots |-> <<>>]

\* A version of a section cites something, and nothing it may not cite.
Version(slot) == (SUBSET Citable(slot)) \ {{}}

\* One night's work on a competitor adds a version to some of its sections.
Revise ==
  /\ DOMAIN history' = Slots
  /\ \A slot \in Slots :
       \/ history'[slot] = history[slot]
       \/ \E cites \in Version(slot) : history'[slot] = Append(history[slot], cites)

Spec == Init /\ [][Revise]_history
=============================================================================
