------------------------ MODULE AlertDelivery_proofs ------------------------
(***************************************************************************)
(* Proofs about AlertDelivery, for any deltas, destinations, batch size,   *)
(* faults and number of overlapping sweeps; where one sweep at a time is   *)
(* needed, which is what Inngest is told, the theorem says so.             *)
(***************************************************************************)
EXTENDS AlertDelivery, FiniteSetTheorems, SequenceTheorems, WellFoundedInduction, TLAPS

-----------------------------------------------------------------------------
(* The order of the rows.                                                  *)

\* No row is listed twice.
RowsAreDistinct == \A i, j \in DOMAIN order : order[i] = order[j] => i = j

\* Every set of numbers has a least one: the first row of a batch exists.
LEMMA LeastNumber ==
  ASSUME NEW T \in SUBSET Nat, T # {}
  PROVE  \E m \in T : \A k \in T : m <= k
<1> DEFINE Below(m) == 0 .. m
           F == {Below(m) : m \in T}
<1>1. \A m \in T : Below(m) \in FiniteSubsetsOf(Nat)
  BY FS_Interval DEF FiniteSubsetsOf
<1>2. F # {} /\ F \subseteq FiniteSubsetsOf(Nat)
  BY <1>1
<1>3. PICK x \in F : \A y \in F : ~ (<<y, x>> \in StrictSubsetOrdering(Nat))
  BY <1>2, FS_StrictSubsetOrderingWellFounded, WFMin
<1>4. PICK m \in T : x = Below(m)
  OBVIOUS
<1>5. ASSUME NEW k \in T, k < m PROVE FALSE
  <2>1. Below(k) \in F /\ Below(k) \in SUBSET Nat /\ x \in SUBSET Nat
    BY <1>4
  <2>2. Below(k) \subseteq x /\ Below(k) # x
    BY <1>4, <1>5
  <2>3. QED
    BY <1>3, <2>1, <2>2 DEF StrictSubsetOrdering
<1>6. QED
  BY <1>5

\* A new row goes to some place behind the n oldest; the others keep their order.
LEMMA RowInserted ==
  ASSUME order \in Seq(Pairs), NEW p \in Pairs, NEW n \in Nat, order' \in InsertedAfter(n, p)
  PROVE  \E i \in n .. Len(order) :
           /\ order' \in Seq(Pairs)
           /\ Len(order') = Len(order) + 1
           /\ \A j \in 1 .. i : order'[j] = order[j]
           /\ order'[i + 1] = p
           /\ \A j \in i + 1 .. Len(order) : order'[j + 1] = order[j]
<1>1. PICK i \in n .. Len(order) :
        order' = SubSeq(order, 1, i) \o <<p>> \o SubSeq(order, i + 1, Len(order))
  BY DEF InsertedAfter
<1> DEFINE old == SubSeq(order, 1, i)
           young == SubSeq(order, i + 1, Len(order))
<1>2. Len(order) \in Nat /\ i \in 0 .. Len(order)
  BY LenProperties
<1>3. /\ old \in Seq(Pairs) /\ Len(old) = i
      /\ \A j \in 1 .. i : old[j] = order[j]
  BY <1>2, SubSeqProperties, Z3
<1>4. /\ young \in Seq(Pairs) /\ Len(young) = Len(order) - i
      /\ \A j \in 1 .. Len(order) - i : young[j] = order[i + j]
  BY <1>2, SubSeqProperties, Z3
<1>5. <<p>> \in Seq(Pairs) /\ Len(<<p>>) = 1 /\ <<p>>[1] = p
  OBVIOUS
<1> HIDE DEF old, young
<1>6. /\ old \o <<p>> \in Seq(Pairs) /\ Len(old \o <<p>>) = i + 1
      /\ \A j \in 1 .. i : (old \o <<p>>)[j] = order[j]
      /\ (old \o <<p>>)[i + 1] = p
  BY <1>2, <1>3, <1>5, ConcatProperties
<1>7. /\ order' \in Seq(Pairs) /\ Len(order') = Len(order) + 1
      /\ \A j \in 1 .. i + 1 : order'[j] = (old \o <<p>>)[j]
      /\ \A j \in 1 .. Len(order) - i : order'[i + 1 + j] = young[j]
  <2>1. order' = (old \o <<p>>) \o young
    BY <1>1 DEF old, young
  <2>2. QED
    BY <1>2, <1>4, <1>6, <2>1, ConcatProperties
<1>8. \A j \in i + 1 .. Len(order) : order'[j + 1] = order[j]
  <2> SUFFICES ASSUME NEW j \in i + 1 .. Len(order) PROVE order'[j + 1] = order[j]
    OBVIOUS
  <2>1. j - i \in 1 .. Len(order) - i /\ i + 1 + (j - i) = j + 1 /\ i + (j - i) = j
    BY <1>2
  <2>2. PICK k \in 1 .. Len(order) - i : i + 1 + k = j + 1 /\ i + k = j
    BY <2>1
  <2>3. young[k] = order[i + k] /\ order'[i + 1 + k] = young[k]
    BY <1>4, <1>7
  <2>4. QED
    BY <2>2, <2>3
<1>9. QED
  BY <1>2, <1>6, <1>7, <1>8

-----------------------------------------------------------------------------
(* The inductive invariant of the rows and the sweeps.                     *)

\* What a sweep holds: rows that are stored, and one at least while it waits for
\* the answer to a message.
SweepsHoldRows ==
  \A w \in Sweeps :
    /\ sweeps[w].batch \subseteq Stored
    /\ sweeps[w].phase \in {"accepted", "refused"} => sweeps[w].batch # {}
    /\ sweeps[w].before <= Len(order)

\* The types, without the count that follows from them.
Typed ==
  /\ deltas \in [Deltas -> DeltaRow]
  /\ enabled \subseteq Channels
  /\ order \in Seq(Pairs)
  /\ status \in [Pairs -> Statuses]
  /\ Stored = {p \in Pairs : status[p] # "none"}
  /\ sweeps \in [Sweeps -> SweepState]
  /\ received \in [Pairs -> Nat]
  /\ lost \in [Pairs -> Nat]
  /\ faults \in Nat

RowsInv == Typed /\ RowsAreDistinct /\ SweepsHoldRows

\* The first place of a list that holds an element of a set is unique.
LEMMA FirstPlace ==
  ASSUME NEW q, DOMAIN q \subseteq Nat, NEW B, NEW i \in DOMAIN q, q[i] \in B,
         \A j \in DOMAIN q : q[j] \in B => i <= j
  PROVE  i = CHOOSE k \in DOMAIN q : q[k] \in B /\ \A j \in DOMAIN q : q[j] \in B => k <= j
<1> DEFINE First(k) == q[k] \in B /\ \A j \in DOMAIN q : q[j] \in B => k <= j
<1>1. First(i) /\ \A k \in DOMAIN q : First(k) => k = i
  OBVIOUS
<1>2. (CHOOSE k \in DOMAIN q : First(k)) = i
  BY <1>1
<1>3. QED
  BY <1>2

\* A batch that is not empty has a first row.
LEMMA BatchHasFirst ==
  ASSUME RowsInv, NEW w \in Sweeps, sweeps[w].batch # {}
  PROVE  \E i \in DOMAIN order :
           /\ order[i] \in sweeps[w].batch
           /\ \A j \in DOMAIN order : order[j] \in sweeps[w].batch => i <= j
<1> DEFINE T == {i \in DOMAIN order : order[i] \in sweeps[w].batch}
<1>1. T \in SUBSET Nat
  BY LenProperties DEF RowsInv, Typed
<1>2. T # {}
  BY DEF RowsInv, SweepsHoldRows, Stored
<1>3. QED
  BY <1>1, <1>2, LeastNumber

\* So the sweep is at a row of its batch.
LEMMA CurrentInBatch ==
  ASSUME RowsInv, NEW w \in Sweeps, sweeps[w].batch # {}
  PROVE  Current(w) \in sweeps[w].batch /\ Current(w) \in Pairs /\ Current(w) \in Stored
<1>1. PICK i \in DOMAIN order :
        /\ order[i] \in sweeps[w].batch
        /\ \A j \in DOMAIN order : order[j] \in sweeps[w].batch => i <= j
  BY BatchHasFirst
<1>2. Current(w) = order[i]
  <2>1. DOMAIN order \subseteq Nat
    BY LenProperties DEF RowsInv, Typed
  <2>2. QED
    BY <1>1, <2>1, FirstPlace DEF Current
<1>3. QED
  BY <1>1, <1>2 DEF RowsInv, Typed, SweepState, SweepsHoldRows

\* What a new row does to the order: it is one more, stored once, and the row
\* that any sweep is at stays the same.
LEMMA OrderGrows ==
  ASSUME RowsInv, NEW p \in Pairs \ Stored, NEW n \in Nat, order' \in InsertedAfter(n, p)
  PROVE  /\ order' \in Seq(Pairs)
         /\ Len(order') = Len(order) + 1
         /\ Stored' = Stored \cup {p}
         /\ RowsAreDistinct'
         /\ \A w \in Sweeps : sweeps[w].batch # {} /\ sweeps'[w].batch = sweeps[w].batch
                               => Current(w)' = Current(w)
<1>1. order \in Seq(Pairs) /\ DOMAIN order = 1 .. Len(order) /\ Len(order) \in Nat
  BY LenProperties DEF RowsInv, Typed
<1>2. PICK i \in n .. Len(order) :
        /\ order' \in Seq(Pairs)
        /\ Len(order') = Len(order) + 1
        /\ \A j \in 1 .. i : order'[j] = order[j]
        /\ order'[i + 1] = p
        /\ \A j \in i + 1 .. Len(order) : order'[j + 1] = order[j]
  BY <1>1, RowInserted
<1>3. DOMAIN order' = 1 .. Len(order) + 1 /\ i \in 0 .. Len(order)
  BY <1>1, <1>2, LenProperties
\* Where the row that was at place j is afterwards.
<1> DEFINE New(j) == IF j <= i THEN j ELSE j + 1
<1>4. /\ \A j \in DOMAIN order : New(j) \in DOMAIN order' /\ order'[New(j)] = order[j]
      /\ i + 1 \in DOMAIN order' /\ order'[i + 1] = p
      /\ \A k \in DOMAIN order' : k = i + 1 \/ \E j \in DOMAIN order : k = New(j)
  <2>1. \A j \in DOMAIN order : New(j) \in DOMAIN order' /\ order'[New(j)] = order[j]
    BY <1>1, <1>2, <1>3
  <2>2. ASSUME NEW k \in DOMAIN order', k # i + 1 PROVE \E j \in DOMAIN order : k = New(j)
    <3>1. CASE k <= i
      BY <1>1, <1>3, <3>1
    <3>2. CASE k > i + 1
      <4>1. k - 1 \in DOMAIN order /\ New(k - 1) = k
        BY <1>1, <1>3, <3>2
      <4>2. QED
        BY <4>1
    <3>3. QED
      BY <1>3, <2>2, <3>1, <3>2
  <2>3. QED
    BY <1>2, <1>3, <2>1, <2>2
<1>5. \A j, k \in DOMAIN order : (New(j) = New(k) => j = k) /\ (j <= k => New(j) <= New(k))
  BY <1>1, <1>3
<1> HIDE DEF New
<1>6. Stored' = Stored \cup {p}
  BY <1>4 DEF Stored
<1>7. RowsAreDistinct'
  <2>1. p \notin {order[j] : j \in DOMAIN order} /\ RowsAreDistinct
    BY DEF Stored, RowsInv
  <2>2. QED
    BY <1>4, <1>5, <2>1 DEF RowsAreDistinct
<1>8. ASSUME NEW w \in Sweeps, sweeps[w].batch # {}, sweeps'[w].batch = sweeps[w].batch
      PROVE  Current(w)' = Current(w)
  <2> DEFINE B == sweeps[w].batch
  <2>1. PICK j \in DOMAIN order :
          /\ order[j] \in B
          /\ \A k \in DOMAIN order : order[k] \in B => j <= k
    BY <1>8, BatchHasFirst
  <2>2. p \notin B
    BY DEF RowsInv, SweepsHoldRows
  <2>3. \A k \in DOMAIN order' : order'[k] \in B => New(j) <= k
    BY <1>4, <1>5, <2>1, <2>2
  <2>4. Current(w) = order[j]
    BY <1>1, <2>1, FirstPlace DEF Current
  <2>5. Current(w)' = order'[New(j)]
    <3>1. DOMAIN order' \subseteq Nat /\ New(j) \in DOMAIN order' /\ order'[New(j)] \in B
      BY <1>3, <1>4, <2>1
    <3>2. New(j) = CHOOSE k \in DOMAIN order' :
                     /\ order'[k] \in B
                     /\ \A l \in DOMAIN order' : order'[l] \in B => k <= l
      BY <2>3, <3>1, FirstPlace
    <3>3. QED
      BY <1>8, <3>2 DEF Current
  <2>6. QED
    BY <1>4, <2>4, <2>5
<1>9. QED
  BY <1>2, <1>6, <1>7, <1>8

-----------------------------------------------------------------------------
(* Types.                                                                  *)

\* Rewriting the record of one sweep.
LEMMA SweepUpdated ==
  ASSUME Typed, NEW w \in Sweeps, NEW me \in SweepState, sweeps' = [sweeps EXCEPT ![w] = me]
  PROVE  /\ sweeps' \in [Sweeps -> SweepState]
         /\ sweeps'[w] = me
         /\ \A v \in Sweeps : v # w => sweeps'[v] = sweeps[v]
BY DEF Typed

\* A step that leaves the rows and their order alone, and lets a sweep hold
\* stored rows only, keeps the invariant.
LEMMA RowsKept ==
  ASSUME RowsInv, UNCHANGED order,
         deltas' \in [Deltas -> DeltaRow], enabled' \subseteq Channels,
         status' \in [Pairs -> Statuses],
         \A p \in Pairs : status'[p] = "none" <=> status[p] = "none",
         sweeps' \in [Sweeps -> SweepState],
         received' \in [Pairs -> Nat], lost' \in [Pairs -> Nat], faults' \in Nat,
         SweepsHoldRows'
  PROVE  RowsInv'
<1>1. Stored' = Stored /\ RowsAreDistinct'
  BY DEF Stored, RowsAreDistinct, RowsInv
<1>2. QED
  BY <1>1 DEF RowsInv, Typed

\* One sweep goes on; the rows it holds are stored and the others hold theirs.
LEMMA SweepHolds ==
  ASSUME RowsInv, UNCHANGED order, NEW w \in Sweeps, NEW me \in SweepState,
         sweeps' = [sweeps EXCEPT ![w] = me],
         me.batch \subseteq Stored,
         me.phase \in {"accepted", "refused"} => me.batch # {},
         me.before <= Len(order)
  PROVE  sweeps' \in [Sweeps -> SweepState] /\ SweepsHoldRows'
<1>1. /\ sweeps' \in [Sweeps -> SweepState]
      /\ sweeps'[w] = me
      /\ \A v \in Sweeps : v # w => sweeps'[v] = sweeps[v]
  BY SweepUpdated DEF RowsInv
<1>2. Stored' = Stored /\ Len(order') = Len(order)
  BY DEF Stored
<1>3. QED
  BY <1>1, <1>2 DEF SweepsHoldRows, RowsInv

\* Counting a copy keeps the counters in their type.
LEMMA CopyCounted ==
  ASSUME NEW count \in [Pairs -> Nat], NEW p \in Pairs
  PROVE  /\ [count EXCEPT ![p] = @ + 1] \in [Pairs -> Nat]
         /\ [count EXCEPT ![p] = 1] \in [Pairs -> Nat]
OBVIOUS

LEMMA InitRows == Init => RowsInv
<1> SUFFICES ASSUME Init PROVE RowsInv
  OBVIOUS
<1>1. Idle \in SweepState /\ Idle.batch = {} /\ Idle.phase = "idle" /\ Idle.before = 0
  BY DEF Idle, SweepState
<1>2. Len(order) = 0 /\ DOMAIN order = {} /\ order \in Seq(Pairs)
  BY DEF Init
<1>3. \A w \in Sweeps : sweeps[w] = Idle
  BY DEF Init
<1>4. Typed
  BY <1>1, <1>2 DEF Init, Typed, DeltaRow, Statuses, Stored
<1>5. SweepsHoldRows
  BY <1>1, <1>2, <1>3 DEF SweepsHoldRows
<1>6. QED
  BY <1>2, <1>4, <1>5 DEF RowsInv, RowsAreDistinct

LEMMA RowsStep == RowsInv /\ [Next]_vars => RowsInv'
<1> SUFFICES ASSUME RowsInv, [Next]_vars PROVE RowsInv'
  OBVIOUS
<1>t. Typed
  BY DEF RowsInv
<1>f. ASSUME NEW kind, Fault(kind) PROVE faults' \in Nat
  BY <1>f, <1>t DEF Fault, Typed
<1>s. \A w \in Sweeps : sweeps[w] \in SweepState
  BY <1>t DEF Typed
<1>l. Len(order) \in Nat
  BY <1>t, LenProperties DEF Typed
<1>h. ASSUME NEW w \in Sweeps
      PROVE  /\ sweeps[w].batch \subseteq Stored
             /\ sweeps[w].phase \in {"accepted", "refused"} => sweeps[w].batch # {}
             /\ sweeps[w].before <= Len(order)
  BY DEF RowsInv, SweepsHoldRows
<1>i. /\ Idle \in SweepState
      /\ Idle.batch \subseteq Stored /\ Idle.phase \notin {"accepted", "refused"}
      /\ Idle.before <= Len(order)
  BY <1>l DEF Idle, SweepState
\* The steps of a sweep that leave order, status and the configuration alone.
<1>q. ASSUME NEW w \in Sweeps, NEW me \in SweepState,
             sweeps' = [sweeps EXCEPT ![w] = me],
             me.batch \subseteq Stored,
             me.phase \in {"accepted", "refused"} => me.batch # {},
             me.before <= Len(order),
             UNCHANGED <<deltas, enabled, rows>>,
             received' \in [Pairs -> Nat], lost' \in [Pairs -> Nat], faults' \in Nat
      PROVE  RowsInv'
  <2>1. UNCHANGED <<order, status, deltas, enabled>>
    BY <1>q DEF rows
  <2>2. sweeps' \in [Sweeps -> SweepState] /\ SweepsHoldRows'
    BY <1>q, <2>1, SweepHolds
  <2>3. QED
    BY <1>q, <1>t, <2>1, <2>2, RowsKept DEF Typed
<1>1. CASE UNCHANGED vars
  BY <1>1 DEF vars, rows, RowsInv, Typed, RowsAreDistinct, SweepsHoldRows, Stored
<1>2. ASSUME NEW d \in Deltas, DecideDelta(d) PROVE RowsInv'
  <2>1. deltas[d] \in DeltaRow /\ deltas \in [Deltas -> DeltaRow]
    BY <1>t DEF Typed
  <2>2. /\ [state |-> "confirmed", confirmed |-> TRUE] \in DeltaRow
        /\ [deltas[d] EXCEPT !.state = "dismissed"] \in DeltaRow
        /\ [deltas[d] EXCEPT !.state = "published"] \in DeltaRow
    BY <2>1 DEF DeltaRow
  <2>3. deltas' \in [Deltas -> DeltaRow]
    <3>1. \/ deltas' = [deltas EXCEPT ![d] = [state |-> "confirmed", confirmed |-> TRUE]]
          \/ deltas' = [deltas EXCEPT ![d] = [deltas[d] EXCEPT !.state = "dismissed"]]
          \/ deltas' = [deltas EXCEPT ![d] = [deltas[d] EXCEPT !.state = "published"]]
      BY <1>2, <2>1 DEF DecideDelta
    <3>2. \E row \in DeltaRow : deltas' = [deltas EXCEPT ![d] = row]
      BY <2>2, <3>1, Zenon
    <3>3. QED
      BY <2>1, <3>2
  <2>4. QED
    BY <1>2, <1>t, <2>3 DEF DecideDelta, rows, RowsInv, Typed, RowsAreDistinct, SweepsHoldRows, Stored
<1>3. ASSUME NEW c \in Channels, SeedChannelConfig(c) PROVE RowsInv'
  BY <1>3 DEF SeedChannelConfig, rows, RowsInv, Typed, RowsAreDistinct, SweepsHoldRows, Stored
<1>4. ASSUME NEW w \in Sweeps, StartSweep(w) PROVE RowsInv'
  <2> DEFINE me == [Idle EXCEPT !.phase = "enqueueing",
                                !.todo = {d \in Deltas : Alertable(d)} \X enabled,
                                !.before = Len(order)]
  <2>1. {d \in Deltas : Alertable(d)} \X enabled \subseteq Pairs
    BY <1>t DEF Typed, Pairs
  <2>2. me \in SweepState /\ me.batch = {} /\ me.phase = "enqueueing" /\ me.before = Len(order)
    BY <1>l, <2>1 DEF Idle, SweepState
  <2>3. sweeps' = [sweeps EXCEPT ![w] = me]
    BY <1>4 DEF StartSweep
  <2>4. UNCHANGED <<deltas, enabled, rows, received, lost, faults>>
    BY <1>4 DEF StartSweep
  <2> HIDE DEF me
  <2>5. QED
    <3>1. received' \in [Pairs -> Nat] /\ lost' \in [Pairs -> Nat] /\ faults' \in Nat
      BY <1>t, <2>4 DEF Typed
    <3>2. me.batch \subseteq Stored /\ me.phase \notin {"accepted", "refused"} /\ me.before <= Len(order)
      BY <1>l, <2>2
    <3>3. QED
      BY <1>q, <2>2, <2>3, <2>4, <3>1, <3>2
\* A sweep strikes an alert off its list.
<1>d. ASSUME NEW w \in Sweeps, NEW p \in Pairs, sweeps' = [sweeps EXCEPT ![w].todo = @ \ {p}]
      PROVE  \E me \in SweepState :
               /\ sweeps' = [sweeps EXCEPT ![w] = me]
               /\ me.batch = sweeps[w].batch /\ me.phase = sweeps[w].phase
               /\ me.before = sweeps[w].before
  <2> DEFINE me == [sweeps[w] EXCEPT !.todo = @ \ {p}]
  <2>1. me \in SweepState /\ me.batch = sweeps[w].batch /\ me.phase = sweeps[w].phase
        /\ me.before = sweeps[w].before
    BY <1>s DEF SweepState
  <2>2. sweeps' = [sweeps EXCEPT ![w] = me]
    BY <1>d, <1>s DEF SweepState
  <2>3. QED
    BY <2>1, <2>2
<1>5. ASSUME NEW w \in Sweeps, NEW p \in Pairs, EnqueueAlert(w, p) PROVE RowsInv'
  <2>1. PICK me \in SweepState :
               /\ sweeps' = [sweeps EXCEPT ![w] = me]
               /\ me.batch = sweeps[w].batch /\ me.phase = sweeps[w].phase
               /\ me.before = sweeps[w].before
    BY <1>5, <1>d DEF EnqueueAlert
  <2>2. CASE p \in Stored
    <3>1. UNCHANGED <<deltas, enabled, rows, received, lost, faults>>
      BY <1>5, <2>2 DEF EnqueueAlert
    <3>2. QED
      BY <1>t, <1>h, <1>q, <2>1, <3>1 DEF Typed
  <2>3. CASE p \notin Stored
    <3>1. /\ order' \in InsertedAfter(sweeps[w].before, p)
          /\ status' = [status EXCEPT ![p] = "queued"]
          /\ UNCHANGED <<deltas, enabled, received, lost, faults>>
      BY <1>5, <2>3 DEF EnqueueAlert
    <3>2. sweeps[w].before \in Nat
      BY <1>s DEF SweepState
    <3>3. /\ order' \in Seq(Pairs)
          /\ Len(order') = Len(order) + 1
          /\ Stored' = Stored \cup {p}
          /\ RowsAreDistinct'
      BY <2>3, <3>1, <3>2, OrderGrows
    <3>4. /\ status' \in [Pairs -> Statuses]
          /\ Stored' = {r \in Pairs : status'[r] # "none"}
      BY <1>t, <3>1, <3>3 DEF Typed, Statuses
    <3>5. /\ sweeps' \in [Sweeps -> SweepState] /\ sweeps'[w] = me
          /\ \A v \in Sweeps : v # w => sweeps'[v] = sweeps[v]
      BY <1>t, <2>1, SweepUpdated
    <3>6. \A v \in Sweeps : /\ sweeps'[v].batch = sweeps[v].batch
                            /\ sweeps'[v].phase = sweeps[v].phase
                            /\ sweeps'[v].before = sweeps[v].before
                            /\ sweeps[v].before \in Nat
      BY <1>s, <2>1, <3>5 DEF SweepState
    <3>7. SweepsHoldRows'
      BY <1>h, <1>l, <3>3, <3>6 DEF SweepsHoldRows
    <3>8. QED
      BY <1>t, <3>1, <3>3, <3>4, <3>5, <3>7 DEF RowsInv, Typed
  <2>4. QED
    BY <2>2, <2>3
<1>6. ASSUME NEW w \in Sweeps, NEW p \in Pairs, EnqueueFails(w, p) PROVE RowsInv'
  <2>1. PICK me \in SweepState :
               /\ sweeps' = [sweeps EXCEPT ![w] = me]
               /\ me.batch = sweeps[w].batch /\ me.phase = sweeps[w].phase
               /\ me.before = sweeps[w].before
    BY <1>6, <1>d DEF EnqueueFails
  <2>2. UNCHANGED <<deltas, enabled, rows, received, lost>> /\ faults' \in Nat
    BY <1>6, <1>f DEF EnqueueFails
  <2>3. QED
    BY <1>t, <1>h, <1>q, <2>1, <2>2 DEF Typed
<1>7. ASSUME NEW w \in Sweeps, ListDeliverable(w) PROVE RowsInv'
  <2> DEFINE me == [sweeps[w] EXCEPT !.phase = "sending", !.batch = DeliverableAlerts]
  <2>1. DeliverableAlerts \subseteq Stored
    BY DEF DeliverableAlerts, DeliverableRows, Stored
  <2>2. Stored \subseteq Pairs
    BY <1>t DEF Typed
  <2>3. /\ me \in SweepState /\ me.batch = DeliverableAlerts /\ me.phase = "sending"
        /\ me.before = sweeps[w].before
    BY <1>s, <2>1, <2>2 DEF SweepState
  <2>4. sweeps' = [sweeps EXCEPT ![w] = me]
    BY <1>7 DEF ListDeliverable
  <2>5. UNCHANGED <<deltas, enabled, rows, received, lost, faults>>
    BY <1>7 DEF ListDeliverable
  <2> HIDE DEF me
  <2>6. QED
    BY <1>t, <1>h, <1>q, <2>1, <2>3, <2>4, <2>5 DEF Typed
\* The provider answers, or is not waited for.
<1>a. ASSUME NEW w \in Sweeps, NEW answer \in {"accepted", "refused"}, Sent(w, answer)
      PROVE  /\ Current(w) \in Pairs
             /\ received' \in [Pairs -> Nat] /\ lost' \in [Pairs -> Nat] /\ faults' \in Nat
                  => RowsInv'
  <2> DEFINE me == [sweeps[w] EXCEPT !.phase = answer]
  <2>1. /\ me \in SweepState /\ me.batch = sweeps[w].batch /\ me.phase = answer
        /\ me.before = sweeps[w].before
    BY <1>s DEF SweepState
  <2>2. sweeps' = [sweeps EXCEPT ![w] = me]
    BY <1>a, <1>s DEF Sent, SweepState
  <2>3. UNCHANGED <<deltas, enabled, rows>> /\ sweeps[w].batch # {}
    BY <1>a DEF Sent
  <2>4. Current(w) \in Pairs
    BY <2>3, CurrentInBatch
  <2> HIDE DEF me
  <2>5. QED
    BY <1>h, <1>q, <2>1, <2>2, <2>3, <2>4
<1>c. ASSUME NEW p \in Pairs, Accepts(p) PROVE received' \in [Pairs -> Nat]
  BY <1>c, <1>t DEF Accepts, Typed
<1>8. ASSUME NEW w \in Sweeps, SendAccepted(w) PROVE RowsInv'
  BY <1>8, <1>a, <1>c, <1>t DEF SendAccepted, Typed
<1>9. ASSUME NEW w \in Sweeps, SendRefused(w) PROVE RowsInv'
  <2>1. faults' \in Nat
    BY <1>9, <1>f, <1>t DEF SendRefused, Typed
  <2>2. QED
    BY <1>9, <1>a, <1>t, <2>1 DEF SendRefused, Typed
<1>10. ASSUME NEW w \in Sweeps, SendTimesOut(w) PROVE RowsInv'
  <2>1. Current(w) \in Pairs
    BY <1>10, <1>a DEF SendTimesOut
  <2>2. lost' \in [Pairs -> Nat]
    BY <1>10, <1>t, <2>1, CopyCounted DEF SendTimesOut, Typed
  <2>3. QED
    BY <1>10, <1>a, <1>c, <1>f, <2>1, <2>2 DEF SendTimesOut
\* The sweep is done with its alert.
<1>n. ASSUME NEW w \in Sweeps, NextAlert(w)
      PROVE  \E me \in SweepState :
               /\ sweeps' = [sweeps EXCEPT ![w] = me]
               /\ me.batch \subseteq Stored /\ me.phase = "sending" /\ me.before <= Len(order)
  <2> DEFINE me == [sweeps[w] EXCEPT !.phase = "sending",
                                  !.batch = sweeps[w].batch \ {Current(w)}]
  <2>1. /\ me \in SweepState /\ me.batch = sweeps[w].batch \ {Current(w)} /\ me.phase = "sending"
        /\ me.before = sweeps[w].before
    BY <1>s DEF SweepState
  <2>2. sweeps' = [sweeps EXCEPT ![w] = me]
    BY <1>n DEF NextAlert
  <2> HIDE DEF me
  <2>3. QED
    BY <1>h, <2>1, <2>2
<1>g. ASSUME NEW w \in Sweeps, Forget(w), At(w, "accepted") => sweeps[w].batch # {}
      PROVE  lost' \in [Pairs -> Nat]
  BY <1>g, <1>t, CurrentInBatch, CopyCounted DEF Forget, Typed
<1>11. ASSUME NEW w \in Sweeps, RecordOutcome(w) PROVE RowsInv'
  <2>1. PICK me \in SweepState :
               /\ sweeps' = [sweeps EXCEPT ![w] = me]
               /\ me.batch \subseteq Stored /\ me.phase = "sending" /\ me.before <= Len(order)
    BY <1>11, <1>n DEF RecordOutcome
  <2>2. /\ UNCHANGED <<deltas, enabled, order, received, lost, faults>>
        /\ status' = IF AlertTransitionAllowed(status[Current(w)], Outcome(w))
                     THEN [status EXCEPT ![Current(w)] = Outcome(w)]
                     ELSE status
    BY <1>11 DEF RecordOutcome
  <2>3. Outcome(w) \in {"delivered", "failed"}
    BY DEF Outcome
  <2>4. Current(w) \in Pairs
    <3>1. sweeps[w].phase \in {"accepted", "refused"}
      BY <1>11 DEF RecordOutcome, At
    <3>2. QED
      BY <1>h, <3>1, CurrentInBatch
  <2>5. /\ status' \in [Pairs -> Statuses]
        /\ \A p \in Pairs : status'[p] = "none" <=> status[p] = "none"
    BY <1>t, <2>2, <2>3, <2>4 DEF Typed, Statuses, AlertTransitionAllowed
  <2>6. sweeps' \in [Sweeps -> SweepState] /\ SweepsHoldRows'
    BY <2>1, <2>2, SweepHolds
  <2>7. QED
    BY <1>t, <2>2, <2>5, <2>6, RowsKept DEF Typed
<1>12. ASSUME NEW w \in Sweeps, RecordFails(w) PROVE RowsInv'
  <2>1. PICK me \in SweepState :
               /\ sweeps' = [sweeps EXCEPT ![w] = me]
               /\ me.batch \subseteq Stored /\ me.phase = "sending" /\ me.before <= Len(order)
    BY <1>12, <1>n DEF RecordFails
  <2>2. UNCHANGED <<deltas, enabled, rows, received>> /\ faults' \in Nat
    BY <1>12, <1>f DEF RecordFails
  <2>3. lost' \in [Pairs -> Nat]
    BY <1>12, <1>g, <1>h DEF RecordFails, At
  <2>4. QED
    BY <1>q, <1>t, <2>1, <2>2, <2>3 DEF Typed
<1>13. ASSUME NEW w \in Sweeps, FinishSweep(w) PROVE RowsInv'
  <2>1. /\ UNCHANGED <<deltas, enabled, rows, received, lost, faults>>
        /\ sweeps' = [sweeps EXCEPT ![w] = Idle]
    BY <1>13 DEF FinishSweep
  <2>2. received' \in [Pairs -> Nat] /\ lost' \in [Pairs -> Nat] /\ faults' \in Nat
    BY <1>t, <2>1 DEF Typed
  <2>3. QED
    BY <1>i, <1>q, <2>1, <2>2
<1>14. ASSUME NEW w \in Sweeps, Crash(w) PROVE RowsInv'
  <2>1. /\ UNCHANGED <<deltas, enabled, rows, received>> /\ faults' \in Nat
        /\ sweeps' = [sweeps EXCEPT ![w] = Idle]
    BY <1>14, <1>f DEF Crash
  <2>2. lost' \in [Pairs -> Nat]
    BY <1>14, <1>g, <1>h DEF Crash, At
  <2>3. QED
    <3>1. received' \in [Pairs -> Nat]
      BY <1>t, <2>1 DEF Typed
    <3>2. QED
      BY <1>i, <1>q, <2>1, <2>2, <3>1
<1>15. QED
  BY <1>1, <1>2, <1>3, <1>4, <1>5, <1>6, <1>7, <1>8, <1>9, <1>10, <1>11, <1>12, <1>13, <1>14
     DEF Next, Sweep

\* There are as many places as rows: no row is listed twice.
LEMMA RowsAreCounted ==
  ASSUME RowsInv
  PROVE  /\ IsFiniteSet(DOMAIN order) /\ IsFiniteSet(Stored)
         /\ Len(order) = Cardinality(Stored)
<1>1. DOMAIN order = 1 .. Len(order) /\ Len(order) \in Nat
  BY LenProperties DEF RowsInv, Typed
<1>2. IsFiniteSet(DOMAIN order) /\ Cardinality(DOMAIN order) = Len(order)
  <2>1. ASSUME NEW n \in Nat PROVE IsFiniteSet(1 .. n) /\ Cardinality(1 .. n) = n
    <3>1. IsFiniteSet(1 .. n) /\ Cardinality(1 .. n) = IF 1 > n THEN 0 ELSE n - 1 + 1
      BY FS_Interval
    <3>2. QED
      BY <3>1
  <2>2. QED
    BY <1>1, <2>1
<1> DEFINE Row == [i \in DOMAIN order |-> order[i]]
<1>3. Row \in Bijection(DOMAIN order, Stored)
  BY DEF Stored, RowsInv, RowsAreDistinct, Bijection, Injection, Surjection, IsInjective
<1>4. ExistsBijection(DOMAIN order, Stored)
  BY <1>3 DEF ExistsBijection
<1>5. QED
  BY <1>2, <1>4, FS_Bijection

THEOREM RowsStayConsistent == Spec => []RowsInv
<1>1. QED
  BY InitRows, RowsStep, PTL DEF Spec

\* Whatever the sweeps, the faults and the order of the steps, every variable has
\* its type and the rows in the order are those with a status, each listed once.
THEOREM TypeCorrect == Spec => []TypeOK
<1>1. RowsInv => TypeOK
  BY RowsAreCounted DEF RowsInv, Typed, TypeOK
<1>2. QED
  BY <1>1, RowsStayConsistent, PTL

-----------------------------------------------------------------------------
(* A delivered row is final.                                               *)

\* A row is stored with the status "queued" only when it was not stored before,
\* and an outcome is recorded only for a row that is not delivered.
THEOREM DeliveredStays == Spec => DeliveredIsFinal
<1> DEFINE Final == \A p \in Pairs : status[p] = "delivered" => status'[p] = "delivered"
<1>1. ASSUME RowsInv, [Next]_vars PROVE [Final]_status
  <2>t. status \in [Pairs -> Statuses] /\ Stored = {p \in Pairs : status[p] # "none"}
    BY <1>1 DEF RowsInv, Typed
  <2>1. ASSUME NEW w \in Sweeps, NEW p \in Pairs, EnqueueAlert(w, p) PROVE [Final]_status
    <3>1. CASE p \in Stored
      BY <2>1, <3>1 DEF EnqueueAlert, rows
    <3>2. CASE p \notin Stored
      <4>1. status' = [status EXCEPT ![p] = "queued"]
        BY <2>1, <3>2 DEF EnqueueAlert
      <4>2. status[p] = "none"
        BY <2>t, <3>2
      <4>3. QED
        BY <2>t, <4>1, <4>2
    <3>3. QED
      BY <3>1, <3>2
  <2>2. ASSUME NEW w \in Sweeps, RecordOutcome(w) PROVE [Final]_status
    <3>1. status' = IF AlertTransitionAllowed(status[Current(w)], Outcome(w))
                    THEN [status EXCEPT ![Current(w)] = Outcome(w)]
                    ELSE status
      BY <2>2 DEF RecordOutcome
    <3>2. AlertTransitionAllowed(status[Current(w)], Outcome(w))
            => status[Current(w)] # "delivered"
      BY DEF AlertTransitionAllowed
    <3>3. QED
      BY <2>t, <3>1, <3>2
  <2>3. CASE UNCHANGED status
    BY <2>3
  <2>4. QED
    BY <1>1, <2>1, <2>2, <2>3
       DEF Next, Sweep, vars, rows, DecideDelta, SeedChannelConfig, StartSweep, EnqueueFails,
           ListDeliverable, Sent, SendAccepted, SendRefused, SendTimesOut, RecordFails,
           FinishSweep, Crash
<1>2. QED
  BY <1>1, RowsStayConsistent, PTL DEF Spec, DeliveredIsFinal

-----------------------------------------------------------------------------
(* Copies, with sweeps that overlap.                                       *)

\* The sweeps that may still send an alert.
Awaiting(p) == {w \in Sweeps : p \in sweeps[w].batch} \ Sending(p)

\* Until a row is delivered its copies are accounted for one by one; from then on
\* each sweep that still holds the row may add one.
CopiesInv ==
  \A p \in Pairs :
    IF status[p] = "delivered"
    THEN received[p] + Cardinality(Awaiting(p)) <= lost[p] + Cardinality(Sweeps)
    ELSE received[p] <= lost[p] + Cardinality(Sending(p))

\* Two sets that differ in one element at most.
LEMMA CardinalityMoves ==
  ASSUME NEW A, NEW B, NEW x, IsFiniteSet(A), IsFiniteSet(B), A \ {x} = B \ {x}
  PROVE  /\ Cardinality(A) \in Nat /\ Cardinality(B) \in Nat
         /\ (x \in A <=> x \in B) => Cardinality(B) = Cardinality(A)
         /\ x \notin A /\ x \in B => Cardinality(B) = Cardinality(A) + 1
         /\ x \in A /\ x \notin B => Cardinality(B) = Cardinality(A) - 1
<1>1. Cardinality(A) \in Nat /\ Cardinality(B) \in Nat
  BY FS_CardinalityType
<1>2. /\ Cardinality(A \ {x}) = IF x \in A THEN Cardinality(A) - 1 ELSE Cardinality(A)
      /\ Cardinality(B \ {x}) = IF x \in B THEN Cardinality(B) - 1 ELSE Cardinality(B)
  BY FS_RemoveElement
<1>3. QED
  BY <1>1, <1>2

\* An answer is waited for, or a row is held, by one of the sweeps.
LEMMA SweepsAreFinite ==
  ASSUME NEW A, NEW B, A \subseteq Sweeps, B \subseteq Sweeps
  PROVE  /\ IsFiniteSet(A) /\ IsFiniteSet(B)
         /\ Cardinality(A) \in Nat /\ Cardinality(B) \in Nat /\ Cardinality(Sweeps) \in Nat
         /\ Cardinality(A) <= Cardinality(Sweeps)
         /\ A \cap B = {} => Cardinality(A) + Cardinality(B) <= Cardinality(Sweeps)
<1>1. IsFiniteSet(A) /\ IsFiniteSet(B) /\ IsFiniteSet(Sweeps)
  BY FS_Subset, DeliveryAssumption DEF DeliveryAssumption
<1>2. /\ Cardinality(A) \in Nat /\ Cardinality(B) \in Nat /\ Cardinality(Sweeps) \in Nat
      /\ Cardinality(A) <= Cardinality(Sweeps)
  BY <1>1, FS_CardinalityType, FS_Subset
<1>3. ASSUME A \cap B = {} PROVE Cardinality(A) + Cardinality(B) <= Cardinality(Sweeps)
  <2>1. Cardinality(A \cup B) = Cardinality(A) + Cardinality(B) - Cardinality(A \cap B)
    BY <1>1, FS_Union
  <2>2. Cardinality(A \cap B) = 0
    BY <1>3, FS_EmptySet
  <2>3. Cardinality(A \cup B) <= Cardinality(Sweeps)
    BY <1>1, FS_Subset
  <2>4. QED
    BY <1>2, <2>1, <2>2, <2>3
<1>4. QED
  BY <1>1, <1>2, <1>3

\* A step of one sweep moves no other in or out of the sets of an alert.
LEMMA OneSweepMoves ==
  ASSUME RowsInv, NEW w \in Sweeps, NEW p \in Pairs,
         \A v \in Sweeps : v # w => /\ sweeps'[v] = sweeps[v]
                                    /\ sweeps[v].batch # {} => Current(v)' = Current(v)
  PROVE  /\ Cardinality(Sending(p)) \in Nat /\ Cardinality(Sending(p)') \in Nat
         /\ Cardinality(Awaiting(p)) \in Nat /\ Cardinality(Awaiting(p)') \in Nat
         /\ (w \in Sending(p) <=> w \in Sending(p)')
              => Cardinality(Sending(p)') = Cardinality(Sending(p))
         /\ w \notin Sending(p) /\ w \in Sending(p)'
              => Cardinality(Sending(p)') = Cardinality(Sending(p)) + 1
         /\ w \in Sending(p) /\ w \notin Sending(p)'
              => Cardinality(Sending(p)') = Cardinality(Sending(p)) - 1
         /\ (w \in Awaiting(p) <=> w \in Awaiting(p)')
              => Cardinality(Awaiting(p)') = Cardinality(Awaiting(p))
         /\ w \in Awaiting(p) /\ w \notin Awaiting(p)'
              => Cardinality(Awaiting(p)') = Cardinality(Awaiting(p)) - 1
         /\ w \notin Awaiting(p)'
              => Cardinality(Sending(p)) + Cardinality(Awaiting(p)') <= Cardinality(Sweeps)
<1>1. \A v \in Sweeps : At(v, "accepted") => sweeps[v].batch # {}
  BY DEF RowsInv, SweepsHoldRows, At
<1>2. \A v \in Sweeps : v # w => /\ v \in Sending(p) <=> v \in Sending(p)'
                                 /\ v \in Awaiting(p) <=> v \in Awaiting(p)'
  BY <1>1 DEF Sending, Awaiting, At
<1>3. /\ Sending(p) \subseteq Sweeps /\ Sending(p)' \subseteq Sweeps
      /\ Awaiting(p) \subseteq Sweeps /\ Awaiting(p)' \subseteq Sweeps
      /\ Awaiting(p) \cap Sending(p) = {}
  BY DEF Sending, Awaiting
<1>4. /\ Sending(p) \ {w} = Sending(p)' \ {w}
      /\ Awaiting(p) \ {w} = Awaiting(p)' \ {w}
      /\ w \notin Awaiting(p)' => Sending(p) \cap Awaiting(p)' = {}
  BY <1>2, <1>3
<1> HIDE DEF Sending, Awaiting
<1>5. /\ IsFiniteSet(Sending(p)) /\ IsFiniteSet(Sending(p)')
      /\ IsFiniteSet(Awaiting(p)) /\ IsFiniteSet(Awaiting(p)')
  BY <1>3, SweepsAreFinite
<1>6. w \notin Awaiting(p)'
        => Cardinality(Sending(p)) + Cardinality(Awaiting(p)') <= Cardinality(Sweeps)
  BY <1>3, <1>4, SweepsAreFinite
<1>7. /\ Cardinality(Sending(p)) \in Nat /\ Cardinality(Sending(p)') \in Nat
      /\ (w \in Sending(p) <=> w \in Sending(p)')
           => Cardinality(Sending(p)') = Cardinality(Sending(p))
      /\ w \notin Sending(p) /\ w \in Sending(p)'
           => Cardinality(Sending(p)') = Cardinality(Sending(p)) + 1
      /\ w \in Sending(p) /\ w \notin Sending(p)'
           => Cardinality(Sending(p)') = Cardinality(Sending(p)) - 1
  BY <1>4, <1>5, CardinalityMoves
<1>8. /\ Cardinality(Awaiting(p)) \in Nat /\ Cardinality(Awaiting(p)') \in Nat
      /\ (w \in Awaiting(p) <=> w \in Awaiting(p)')
           => Cardinality(Awaiting(p)') = Cardinality(Awaiting(p))
      /\ w \in Awaiting(p) /\ w \notin Awaiting(p)'
           => Cardinality(Awaiting(p)') = Cardinality(Awaiting(p)) - 1
  BY <1>4, <1>5, CardinalityMoves
<1>9. QED
  BY <1>6, <1>7, <1>8

\* What a step of one sweep leaves alone in the others.
LEMMA OthersStay ==
  ASSUME Typed, UNCHANGED order, NEW w \in Sweeps, NEW me, sweeps' = [sweeps EXCEPT ![w] = me]
  PROVE  /\ sweeps'[w] = me
         /\ me.batch = sweeps[w].batch => Current(w)' = Current(w)
         /\ \A v \in Sweeps : v # w => sweeps'[v] = sweeps[v] /\ Current(v)' = Current(v)
<1>1. /\ sweeps'[w] = me
      /\ \A v \in Sweeps : v # w => sweeps'[v] = sweeps[v]
  BY DEF Typed
<1>2. QED
  BY <1>1 DEF Current

LEMMA InitCopies == Init => CopiesInv
<1> SUFFICES ASSUME Init, NEW p \in Pairs
             PROVE  status[p] # "delivered" /\ received[p] <= lost[p] + Cardinality(Sending(p))
  BY DEF CopiesInv
<1>1. status[p] = "none" /\ received[p] = 0 /\ lost[p] = 0
  BY DEF Init
<1>2. Cardinality(Sending(p)) \in Nat
  BY SweepsAreFinite DEF Sending
<1>3. QED
  BY <1>1, <1>2

LEMMA CopiesStep == RowsInv /\ CopiesInv /\ [Next]_vars => CopiesInv'
<1> SUFFICES ASSUME RowsInv, CopiesInv, [Next]_vars PROVE CopiesInv'
  OBVIOUS
<1>t. Typed
  BY DEF RowsInv
<1>n. Cardinality(Sweeps) \in Nat
  BY SweepsAreFinite
\* A step of one sweep that sends nothing and forgets nothing.
<1>q. ASSUME NEW w \in Sweeps, NEW p \in Pairs,
             \A v \in Sweeps : v # w => /\ sweeps'[v] = sweeps[v]
                                        /\ sweeps[v].batch # {} => Current(v)' = Current(v),
             w \in Sending(p) <=> w \in Sending(p)',
             status[p] = "delivered" /\ w \in Awaiting(p)' => w \in Awaiting(p),
             received'[p] = received[p], lost'[p] = lost[p],
             status'[p] = "delivered" <=> status[p] = "delivered"
      PROVE  IF status'[p] = "delivered"
             THEN received'[p] + Cardinality(Awaiting(p)') <= lost'[p] + Cardinality(Sweeps)
             ELSE received'[p] <= lost'[p] + Cardinality(Sending(p)')
  <2>1. received[p] \in Nat /\ lost[p] \in Nat
    BY <1>t DEF Typed
  <2>2. /\ Cardinality(Sending(p)') = Cardinality(Sending(p))
        /\ Cardinality(Awaiting(p)) \in Nat /\ Cardinality(Awaiting(p)') \in Nat
        /\ status[p] = "delivered"
             => Cardinality(Awaiting(p)') \in {Cardinality(Awaiting(p)), Cardinality(Awaiting(p)) - 1}
    BY <1>q, OneSweepMoves
  <2>3. QED
    BY <1>n, <1>q, <2>1, <2>2 DEF CopiesInv
<1>1. CASE UNCHANGED <<order, status, sweeps, received, lost>>
  <2>1. \A w \in Sweeps : Current(w)' = Current(w)
    BY <1>1 DEF Current
  <2>2. \A p \in Pairs : Sending(p)' = Sending(p) /\ Awaiting(p)' = Awaiting(p)
    BY <1>1, <2>1 DEF Sending, Awaiting, At
  <2>3. QED
    BY <1>1, <2>2 DEF CopiesInv
<1>2. ASSUME NEW w \in Sweeps, StartSweep(w) \/ FinishSweep(w) PROVE CopiesInv'
  <2>1. PICK me : sweeps' = [sweeps EXCEPT ![w] = me] /\ me.batch = {} /\ me.phase # "accepted"
    <3>1. CASE StartSweep(w)
      <4> DEFINE me == [Idle EXCEPT !.phase = "enqueueing",
                                    !.todo = {d \in Deltas : Alertable(d)} \X enabled,
                                    !.before = Len(order)]
      <4>1. sweeps' = [sweeps EXCEPT ![w] = me]
        BY <3>1 DEF StartSweep
      <4>2. me.batch = {} /\ me.phase # "accepted"
        BY DEF Idle
      <4> HIDE DEF me
      <4>3. QED
        BY <4>1, <4>2
    <3>2. CASE FinishSweep(w)
      <4>1. sweeps' = [sweeps EXCEPT ![w] = Idle] /\ Idle.batch = {} /\ Idle.phase # "accepted"
        BY <3>2 DEF FinishSweep, Idle
      <4>2. QED
        BY <4>1
    <3>3. QED
      BY <1>2, <3>1, <3>2
  <2>2. UNCHANGED <<order, status, received, lost>> /\ ~At(w, "accepted")
    BY <1>2 DEF StartSweep, FinishSweep, At, rows
  <2>3. /\ sweeps'[w] = me
        /\ \A v \in Sweeps : v # w => sweeps'[v] = sweeps[v] /\ Current(v)' = Current(v)
    BY <1>t, <2>1, <2>2, OthersStay
  <2>4. \A p \in Pairs : w \notin Sending(p) /\ w \notin Sending(p)' /\ w \notin Awaiting(p)'
    BY <2>1, <2>2, <2>3 DEF Sending, Awaiting, At
  <2>5. QED
    BY <1>q, <2>2, <2>3, <2>4 DEF CopiesInv
<1>3. ASSUME NEW w \in Sweeps, NEW q \in Pairs, EnqueueAlert(w, q) \/ EnqueueFails(w, q)
      PROVE  CopiesInv'
  <2>1. /\ sweeps' = [sweeps EXCEPT ![w] = [sweeps[w] EXCEPT !.todo = @ \ {q}]]
        /\ UNCHANGED <<received, lost>> /\ ~At(w, "accepted")
    BY <1>3, <1>t DEF EnqueueAlert, EnqueueFails, At, Typed, SweepState
  <2>2. /\ [sweeps[w] EXCEPT !.todo = @ \ {q}].batch = sweeps[w].batch
        /\ [sweeps[w] EXCEPT !.todo = @ \ {q}].phase = sweeps[w].phase
    BY <1>t DEF Typed, SweepState
  <2>3. /\ sweeps'[w].batch = sweeps[w].batch /\ sweeps'[w].phase = sweeps[w].phase
        /\ \A v \in Sweeps : v # w => sweeps'[v] = sweeps[v]
    BY <1>t, <2>1, <2>2 DEF Typed
  <2>4. /\ \A v \in Sweeps : sweeps[v].batch # {} => Current(v)' = Current(v)
        /\ \A p \in Pairs : status'[p] = "delivered" <=> status[p] = "delivered"
    <3>1. CASE UNCHANGED <<order, status>>
      BY <2>3, <3>1 DEF Current
    <3>2. CASE ~UNCHANGED <<order, status>>
      <4>1. /\ q \in Pairs \ Stored
            /\ order' \in InsertedAfter(sweeps[w].before, q)
            /\ status' = [status EXCEPT ![q] = "queued"]
        BY <1>3, <3>2 DEF EnqueueAlert, EnqueueFails, rows
      <4>2. sweeps[w].before \in Nat
        BY <1>t DEF Typed, SweepState
      <4>3. \A v \in Sweeps : sweeps[v].batch # {} => Current(v)' = Current(v)
        BY <2>3, <4>1, <4>2, OrderGrows
      <4>4. status[q] = "none"
        BY <1>t, <4>1 DEF Typed
      <4>5. QED
        BY <1>t, <4>1, <4>3, <4>4 DEF Typed
    <3>3. QED
      BY <3>1, <3>2
  <2>5. \A p \in Pairs : /\ w \notin Sending(p) /\ w \notin Sending(p)'
                         /\ w \in Awaiting(p)' <=> w \in Awaiting(p)
    BY <2>1, <2>3 DEF Sending, Awaiting, At
  <2>6. QED
    BY <1>q, <2>1, <2>3, <2>4, <2>5 DEF CopiesInv
<1>4. ASSUME NEW w \in Sweeps, ListDeliverable(w) PROVE CopiesInv'
  <2> DEFINE me == [sweeps[w] EXCEPT !.phase = "sending", !.batch = DeliverableAlerts]
  <2>1. /\ sweeps' = [sweeps EXCEPT ![w] = me]
        /\ UNCHANGED <<order, status, received, lost>> /\ ~At(w, "accepted")
    BY <1>4 DEF ListDeliverable, At, rows
  <2>2. me.batch = DeliverableAlerts /\ me.phase = "sending"
    BY <1>t DEF Typed, SweepState
  <2> HIDE DEF me
  <2>3. /\ sweeps'[w] = me
        /\ \A v \in Sweeps : v # w => sweeps'[v] = sweeps[v] /\ Current(v)' = Current(v)
    BY <1>t, <2>1, OthersStay
  <2>4. \A p \in Pairs : p \in DeliverableAlerts => status[p] # "delivered"
    BY DEF DeliverableAlerts, DeliverableRows, IsDeliverable
  <2>5. \A p \in Pairs : /\ w \notin Sending(p) /\ w \notin Sending(p)'
                         /\ w \in Awaiting(p)' => p \in DeliverableAlerts
    BY <2>1, <2>2, <2>3 DEF Sending, Awaiting, At
  <2>6. QED
    BY <1>q, <2>1, <2>3, <2>4, <2>5 DEF CopiesInv
\* The provider answers, or is not waited for.
<1>s. ASSUME NEW w \in Sweeps, NEW answer \in {"accepted", "refused"}, Sent(w, answer)
      PROVE  /\ UNCHANGED <<order, status>>
             /\ Current(w) \in Pairs
             /\ \A v \in Sweeps : v # w => sweeps'[v] = sweeps[v] /\ Current(v)' = Current(v)
             /\ \A p \in Pairs :
                  /\ w \notin Sending(p)
                  /\ w \in Sending(p)' <=> answer = "accepted" /\ p = Current(w)
                  /\ w \in Awaiting(p)' <=> w \in Awaiting(p) /\ w \notin Sending(p)'
             /\ w \in Awaiting(Current(w))
  <2> DEFINE me == [sweeps[w] EXCEPT !.phase = answer]
  <2>1. /\ sweeps' = [sweeps EXCEPT ![w] = me] /\ sweeps[w].batch # {}
        /\ UNCHANGED <<order, status>> /\ ~At(w, "accepted")
    BY <1>s, <1>t DEF Sent, At, rows, Typed, SweepState
  <2>2. me.batch = sweeps[w].batch /\ me.phase = answer
    BY <1>t DEF Typed, SweepState
  <2> HIDE DEF me
  <2>3. /\ sweeps'[w] = me /\ Current(w)' = Current(w)
        /\ \A v \in Sweeps : v # w => sweeps'[v] = sweeps[v] /\ Current(v)' = Current(v)
    BY <1>t, <2>1, <2>2, OthersStay
  <2>4. Current(w) \in Pairs /\ Current(w) \in sweeps[w].batch
    BY <2>1, CurrentInBatch
  <2>5. \A p \in Pairs : /\ w \notin Sending(p)
                         /\ w \in Sending(p)' <=> answer = "accepted" /\ p = Current(w)
    BY <2>1, <2>2, <2>3 DEF Sending, At
  <2>6. \A p \in Pairs : /\ w \in Awaiting(p) <=> p \in sweeps[w].batch
                         /\ w \in Awaiting(p)' <=> p \in sweeps[w].batch /\ w \notin Sending(p)'
    BY <2>2, <2>3, <2>5 DEF Awaiting
  <2>7. QED
    BY <2>1, <2>3, <2>4, <2>5, <2>6
\* One copy more at the most.
<1>a. ASSUME NEW q \in Pairs, Accepts(q)
      PROVE  /\ received'[q] \in Nat /\ received'[q] >= 1
             /\ received'[q] = 1 \/ received'[q] = received[q] + 1
             /\ \A p \in Pairs : p # q => received'[p] = received[p]
  BY <1>a, <1>t DEF Accepts, Typed
<1>5. ASSUME NEW w \in Sweeps, SendAccepted(w) PROVE CopiesInv'
  <2> DEFINE q == Current(w)
  <2>1. /\ UNCHANGED <<order, status, lost>> /\ q \in Pairs /\ Accepts(q)
        /\ \A v \in Sweeps : v # w => sweeps'[v] = sweeps[v] /\ Current(v)' = Current(v)
        /\ \A p \in Pairs : /\ w \notin Sending(p)
                            /\ w \in Sending(p)' <=> p = q
                            /\ w \in Awaiting(p)' <=> w \in Awaiting(p) /\ p # q
        /\ w \in Awaiting(q)
    BY <1>5, <1>s DEF SendAccepted
  <2> HIDE DEF q
  <2> SUFFICES ASSUME NEW p \in Pairs
               PROVE  IF status'[p] = "delivered"
                      THEN received'[p] + Cardinality(Awaiting(p)') <= lost'[p] + Cardinality(Sweeps)
                      ELSE received'[p] <= lost'[p] + Cardinality(Sending(p)')
    BY DEF CopiesInv
  <2>2. CASE p # q
    BY <1>a, <1>q, <2>1, <2>2
  <2>3. CASE p = q
    <3>1. /\ Cardinality(Sending(p)) \in Nat /\ Cardinality(Awaiting(p)) \in Nat
          /\ Cardinality(Sending(p)') = Cardinality(Sending(p)) + 1
          /\ Cardinality(Awaiting(p)') = Cardinality(Awaiting(p)) - 1
      BY <2>1, <2>3, OneSweepMoves
    <3>2. /\ received[p] \in Nat /\ lost[p] \in Nat /\ received'[p] \in Nat
          /\ received'[p] = 1 \/ received'[p] = received[p] + 1
      BY <1>a, <1>t, <2>1, <2>3 DEF Typed
    <3>3. IF status[p] = "delivered"
          THEN received[p] + Cardinality(Awaiting(p)) <= lost[p] + Cardinality(Sweeps)
          ELSE received[p] <= lost[p] + Cardinality(Sending(p))
      BY DEF CopiesInv
    <3>4. lost'[p] = lost[p] /\ status'[p] = status[p]
      BY <2>1
    <3>5. QED
      BY <1>n, <3>1, <3>2, <3>3, <3>4
  <2>4. QED
    BY <2>2, <2>3
<1>6. ASSUME NEW w \in Sweeps, SendRefused(w) PROVE CopiesInv'
  <2>1. Sent(w, "refused") /\ UNCHANGED <<received, lost>>
    BY <1>6 DEF SendRefused
  <2>2. QED
    BY <1>q, <1>s, <2>1 DEF CopiesInv
<1>7. ASSUME NEW w \in Sweeps, SendTimesOut(w) PROVE CopiesInv'
  <2> DEFINE q == Current(w)
  <2>1. /\ UNCHANGED <<order, status>> /\ q \in Pairs /\ Accepts(q)
        /\ lost' = [lost EXCEPT ![q] = @ + 1]
        /\ \A v \in Sweeps : v # w => sweeps'[v] = sweeps[v] /\ Current(v)' = Current(v)
        /\ \A p \in Pairs : /\ w \notin Sending(p) /\ w \notin Sending(p)'
                            /\ w \in Awaiting(p)' <=> w \in Awaiting(p)
    BY <1>7, <1>s DEF SendTimesOut
  <2> HIDE DEF q
  <2> SUFFICES ASSUME NEW p \in Pairs
               PROVE  IF status'[p] = "delivered"
                      THEN received'[p] + Cardinality(Awaiting(p)') <= lost'[p] + Cardinality(Sweeps)
                      ELSE received'[p] <= lost'[p] + Cardinality(Sending(p)')
    BY DEF CopiesInv
  <2>2. CASE p # q
    <3>1. lost'[p] = lost[p] /\ received'[p] = received[p]
      BY <1>a, <1>t, <2>1, <2>2 DEF Typed
    <3>2. QED
      BY <1>q, <2>1, <3>1
  <2>3. CASE p = q
    <3>1. /\ Cardinality(Sending(p)) \in Nat /\ Cardinality(Awaiting(p)) \in Nat
          /\ Cardinality(Sending(p)') = Cardinality(Sending(p))
          /\ Cardinality(Awaiting(p)') = Cardinality(Awaiting(p))
      BY <2>1, OneSweepMoves
    <3>2. /\ received[p] \in Nat /\ lost[p] \in Nat /\ received'[p] \in Nat
          /\ received'[p] = 1 \/ received'[p] = received[p] + 1
          /\ lost'[p] = lost[p] + 1
      BY <1>a, <1>t, <2>1, <2>3 DEF Typed
    <3>3. w \in Awaiting(q)
      BY <1>7, <1>s DEF SendTimesOut, q
    <3>4. Cardinality(Awaiting(p)) <= Cardinality(Sweeps)
      BY SweepsAreFinite DEF Awaiting
    <3>5. IF status[p] = "delivered"
          THEN received[p] + Cardinality(Awaiting(p)) <= lost[p] + Cardinality(Sweeps)
          ELSE received[p] <= lost[p] + Cardinality(Sending(p))
      BY DEF CopiesInv
    <3>6. status'[p] = status[p]
      BY <2>1
    <3>7. QED
      BY <1>n, <3>1, <3>2, <3>4, <3>5, <3>6
  <2>4. QED
    BY <2>2, <2>3
\* What the sweep sent is forgotten, and it may drop what it holds.
<1>f. ASSUME NEW w \in Sweeps, Forget(w), NEW me, sweeps' = [sweeps EXCEPT ![w] = me],
             me.batch \subseteq sweeps[w].batch, me.phase # "accepted",
             me.batch = {} \/ me.batch = sweeps[w].batch \ {Current(w)},
             UNCHANGED <<order, status, received>>
      PROVE  CopiesInv'
  <2>1. /\ sweeps'[w] = me
        /\ \A v \in Sweeps : v # w => sweeps'[v] = sweeps[v] /\ Current(v)' = Current(v)
    BY <1>f, <1>t, OthersStay
  <2>2. \A p \in Pairs : w \notin Sending(p)'
    BY <1>f, <2>1 DEF Sending, At
  <2>3. \A p \in Pairs : w \in Awaiting(p)' => w \in Awaiting(p)
    BY <1>f, <2>1 DEF Awaiting, Sending
  <2> SUFFICES ASSUME NEW p \in Pairs
               PROVE  IF status'[p] = "delivered"
                      THEN received'[p] + Cardinality(Awaiting(p)') <= lost'[p] + Cardinality(Sweeps)
                      ELSE received'[p] <= lost'[p] + Cardinality(Sending(p)')
    BY DEF CopiesInv
  <2>4. /\ w \in Sending(p) => lost'[p] = lost[p] + 1
        /\ w \notin Sending(p) => lost'[p] = lost[p]
    BY <1>f, <1>t DEF Forget, Sending, Typed
  <2>5. CASE w \notin Sending(p)
    BY <1>f, <1>q, <2>1, <2>2, <2>3, <2>4, <2>5
  <2>6. CASE w \in Sending(p)
    <3>1. w \notin Awaiting(p)
      BY <2>6 DEF Awaiting
    <3>2. /\ Cardinality(Sending(p)) \in Nat /\ Cardinality(Awaiting(p)) \in Nat
          /\ Cardinality(Sending(p)') = Cardinality(Sending(p)) - 1
          /\ Cardinality(Awaiting(p)') = Cardinality(Awaiting(p))
      BY <2>1, <2>2, <2>3, <2>6, <3>1, OneSweepMoves
    <3>3. received[p] \in Nat /\ lost[p] \in Nat
      BY <1>t DEF Typed
    <3>4. IF status[p] = "delivered"
          THEN received[p] + Cardinality(Awaiting(p)) <= lost[p] + Cardinality(Sweeps)
          ELSE received[p] <= lost[p] + Cardinality(Sending(p))
      BY DEF CopiesInv
    <3>5. status'[p] = status[p] /\ received'[p] = received[p] /\ lost'[p] = lost[p] + 1
      BY <1>f, <2>4, <2>6
    <3>6. QED
      BY <1>n, <3>2, <3>3, <3>4, <3>5
  <2>7. QED
    BY <2>5, <2>6
\* The sweep goes on to the next alert.
<1>g. ASSUME NEW w \in Sweeps, NextAlert(w)
      PROVE  \E me : /\ sweeps' = [sweeps EXCEPT ![w] = me]
                     /\ me.batch = sweeps[w].batch \ {Current(w)} /\ me.phase = "sending"
  <2> DEFINE me == [sweeps[w] EXCEPT !.phase = "sending",
                                     !.batch = sweeps[w].batch \ {Current(w)}]
  <2>1. me.batch = sweeps[w].batch \ {Current(w)} /\ me.phase = "sending"
    BY <1>t DEF Typed, SweepState
  <2>2. sweeps' = [sweeps EXCEPT ![w] = me]
    BY <1>g DEF NextAlert
  <2>3. QED
    BY <2>1, <2>2
<1>8. ASSUME NEW w \in Sweeps, RecordFails(w) PROVE CopiesInv'
  <2>1. PICK me : /\ sweeps' = [sweeps EXCEPT ![w] = me]
                  /\ me.batch = sweeps[w].batch \ {Current(w)} /\ me.phase = "sending"
    BY <1>8, <1>g DEF RecordFails
  <2>2. Forget(w) /\ UNCHANGED <<order, status, received>>
    BY <1>8 DEF RecordFails, rows
  <2>3. QED
    BY <1>f, <2>1, <2>2
<1>9. ASSUME NEW w \in Sweeps, Crash(w) PROVE CopiesInv'
  <2>1. Forget(w) /\ UNCHANGED <<order, status, received>> /\ sweeps' = [sweeps EXCEPT ![w] = Idle]
    BY <1>9 DEF Crash, rows
  <2>2. Idle.batch = {} /\ Idle.phase # "accepted"
    BY DEF Idle
  <2>3. QED
    BY <1>f, <2>1, <2>2
<1>10. ASSUME NEW w \in Sweeps, RecordOutcome(w) PROVE CopiesInv'
  <2> DEFINE q == Current(w)
  <2>1. PICK me : /\ sweeps' = [sweeps EXCEPT ![w] = me]
                  /\ me.batch = sweeps[w].batch \ {q} /\ me.phase = "sending"
    BY <1>10, <1>g DEF RecordOutcome
  <2>2. /\ UNCHANGED <<order, received, lost>>
        /\ status' = IF AlertTransitionAllowed(status[q], Outcome(w))
                     THEN [status EXCEPT ![q] = Outcome(w)]
                     ELSE status
    BY <1>10 DEF RecordOutcome
  <2>3. q \in Pairs /\ status[q] # "none" /\ status[q] \in Statuses
    <3>1. sweeps[w].batch # {}
      BY <1>10 DEF RecordOutcome, At, RowsInv, SweepsHoldRows
    <3>2. q \in Pairs /\ q \in Stored
      BY <3>1, CurrentInBatch
    <3>3. QED
      BY <1>t, <3>2 DEF Typed
  <2>4. Outcome(w) = IF At(w, "accepted") THEN "delivered" ELSE "failed"
    BY DEF Outcome
  <2>5. /\ sweeps'[w] = me
        /\ \A v \in Sweeps : v # w => sweeps'[v] = sweeps[v] /\ Current(v)' = Current(v)
    BY <1>t, <2>1, <2>2, OthersStay
  <2>6. \A p \in Pairs : /\ w \in Sending(p) <=> At(w, "accepted") /\ p = q
                         /\ w \notin Sending(p)'
                         /\ w \in Awaiting(p)' => w \in Awaiting(p)
                         /\ p = q => w \notin Awaiting(p)'
    BY <2>1, <2>5 DEF Sending, Awaiting, At
  <2> HIDE DEF q
  <2> SUFFICES ASSUME NEW p \in Pairs
               PROVE  IF status'[p] = "delivered"
                      THEN received'[p] + Cardinality(Awaiting(p)') <= lost'[p] + Cardinality(Sweeps)
                      ELSE received'[p] <= lost'[p] + Cardinality(Sending(p)')
    BY DEF CopiesInv
  <2>7. IF p = q /\ status[p] # "delivered" THEN status'[p] = Outcome(w) ELSE status'[p] = status[p]
    BY <1>t, <2>2, <2>3, <2>4 DEF AlertTransitionAllowed, Statuses, Typed
  <2>8. CASE ~(w \in Sending(p))
    <3>1. status'[p] = "delivered" <=> status[p] = "delivered"
      BY <2>4, <2>6, <2>7, <2>8
    <3>2. QED
      BY <1>q, <2>2, <2>5, <2>6, <2>8, <3>1
  <2>9. CASE w \in Sending(p)
    <3>1. status'[p] = "delivered" /\ p = q
      BY <2>4, <2>6, <2>7, <2>9
    <3>2. w \notin Awaiting(p) /\ w \notin Awaiting(p)'
      BY <2>6, <2>9 DEF Awaiting
    <3>3. /\ Cardinality(Sending(p)) \in Nat /\ Cardinality(Awaiting(p)) \in Nat
          /\ Cardinality(Awaiting(p)') \in Nat
          /\ Cardinality(Awaiting(p)') = Cardinality(Awaiting(p))
          /\ Cardinality(Sending(p)) + Cardinality(Awaiting(p)') <= Cardinality(Sweeps)
      BY <2>5, <3>2, OneSweepMoves
    <3>4. received[p] \in Nat /\ lost[p] \in Nat
      BY <1>t DEF Typed
    <3>5. IF status[p] = "delivered"
          THEN received[p] + Cardinality(Awaiting(p)) <= lost[p] + Cardinality(Sweeps)
          ELSE received[p] <= lost[p] + Cardinality(Sending(p))
      BY DEF CopiesInv
    <3>6. received'[p] = received[p] /\ lost'[p] = lost[p]
      BY <2>2
    <3>7. QED
      BY <1>n, <3>1, <3>3, <3>4, <3>5, <3>6
  <2>10. QED
    BY <2>8, <2>9
<1>11. QED
  <2>1. CASE UNCHANGED vars
    BY <1>1, <2>1 DEF vars, rows
  <2>2. ASSUME NEW d \in Deltas, DecideDelta(d) PROVE CopiesInv'
    BY <1>1, <2>2 DEF DecideDelta, rows
  <2>3. ASSUME NEW c \in Channels, SeedChannelConfig(c) PROVE CopiesInv'
    BY <1>1, <2>3 DEF SeedChannelConfig, rows
  <2>4. QED
    BY <1>2, <1>3, <1>4, <1>5, <1>6, <1>7, <1>8, <1>9, <1>10, <2>1, <2>2, <2>3 DEF Next, Sweep

THEOREM CopiesStayAccounted == Spec => []CopiesInv
<1>1. QED
  BY InitRows, RowsStep, InitCopies, CopiesStep, PTL DEF Spec

\* However the sweeps overlap and whatever is lost, a destination gets one copy more
\* for each sweep than the lost ones account for: the terminal status stops the rest.
THEOREM OverlapBound == Spec => []OverlapIsBounded
<1>1. RowsInv /\ CopiesInv => OverlapIsBounded
  <2> SUFFICES ASSUME RowsInv, CopiesInv, NEW p \in Pairs
               PROVE  received[p] <= lost[p] + Cardinality(Sweeps)
    BY DEF OverlapIsBounded
  <2>1. /\ Cardinality(Sending(p)) \in Nat /\ Cardinality(Awaiting(p)) \in Nat
        /\ Cardinality(Sending(p)) <= Cardinality(Sweeps) /\ Cardinality(Sweeps) \in Nat
    BY SweepsAreFinite DEF Sending, Awaiting
  <2>2. received[p] \in Nat /\ lost[p] \in Nat
    BY DEF RowsInv, Typed
  <2>3. QED
    BY <2>1, <2>2 DEF CopiesInv
<1>2. QED
  BY <1>1, RowsStayConsistent, CopiesStayAccounted, PTL

-----------------------------------------------------------------------------
(* One sweep at a time: what Inngest is told to run.                       *)

OneSweep == \A v, w \in Sweeps : v = w

\* With one sweep at a time a second copy always has a reason.
THEOREM Duplicates ==
  ASSUME OneSweep
  PROVE  Spec => []DuplicatesHaveAReason
<1>1. Cardinality(Sweeps) <= 1
  <2>1. CASE Sweeps = {}
    <3>1. Cardinality(Sweeps) = 0
      BY <2>1, FS_EmptySet
    <3>2. QED
      BY <3>1
  <2>2. CASE Sweeps # {}
    <3>1. PICK w \in Sweeps : Sweeps = {w}
      BY <2>2 DEF OneSweep
    <3>2. Cardinality({w}) = 1
      BY FS_Singleton
    <3>3. QED
      BY <3>1, <3>2
  <2>3. QED
    BY <2>1, <2>2
<1>2. RowsInv /\ CopiesInv => DuplicatesHaveAReason
  <2> SUFFICES ASSUME RowsInv, CopiesInv, NEW p \in Pairs
               PROVE  received[p] <= lost[p] + Cardinality(Sending(p))
                                       + (IF status[p] = "delivered" THEN 1 ELSE 0)
    BY DEF DuplicatesHaveAReason
  <2>1. /\ Cardinality(Sending(p)) \in Nat /\ Cardinality(Awaiting(p)) \in Nat
        /\ Cardinality(Sweeps) \in Nat
    BY SweepsAreFinite DEF Sending, Awaiting
  <2>2. received[p] \in Nat /\ lost[p] \in Nat
    BY DEF RowsInv, Typed
  <2>3. QED
    BY <1>1, <2>1, <2>2 DEF CopiesInv
<1>3. QED
  BY <1>2, RowsStayConsistent, CopiesStayAccounted, PTL

-----------------------------------------------------------------------------
(* The rows a sweep would list.                                            *)

\* The deliverable rows that are older than a row.
Ahead(j) == {i \in DeliverableRows : i < j}

\* A row is listed when fewer than MaxSends deliverable rows are older.
LEMMA ListedWhenFewAhead ==
  ASSUME RowsInv
  PROVE  /\ \A j \in DeliverableRows :
              order[j] \in DeliverableAlerts <=> Cardinality(Ahead(j)) < MaxSends
         /\ \A p \in DeliverableAlerts : \E j \in DeliverableRows : p = order[j]
         /\ \A j : IsFiniteSet(Ahead(j)) /\ Cardinality(Ahead(j)) \in Nat
<1>1. \A j \in DeliverableRows :
        order[j] \in DeliverableAlerts <=> Cardinality(Ahead(j)) < MaxSends
  <2>1. \A i, j \in DeliverableRows : order[i] = order[j] => i = j
    BY DEF RowsInv, RowsAreDistinct, DeliverableRows
  <2>2. DeliverableAlerts = {order[j] : j \in {k \in DeliverableRows : Cardinality(Ahead(k)) < MaxSends}}
    BY DEF DeliverableAlerts, Ahead
  <2> HIDE DEF DeliverableAlerts, Ahead, DeliverableRows
  <2>3. QED
    BY <2>1, <2>2
<1>2. \A p \in DeliverableAlerts : \E j \in DeliverableRows : p = order[j]
  BY DEF DeliverableAlerts
<1>3. ASSUME NEW j PROVE IsFiniteSet(Ahead(j)) /\ Cardinality(Ahead(j)) \in Nat
  <2>1. Ahead(j) \subseteq DOMAIN order
    BY DEF Ahead, DeliverableRows
  <2>2. QED
    BY <2>1, RowsAreCounted, FS_Subset, FS_CardinalityType
<1>4. QED
  BY <1>1, <1>2, <1>3

\* When rows are delivered the others move up.
LEMMA RowsMoveUp ==
  ASSUME RowsInv, RowsInv', UNCHANGED order, NEW p \in DeliverableAlerts, IsDeliverable(p)',
         \A r \in Pairs : IsDeliverable(r)' => IsDeliverable(r)
  PROVE  p \in DeliverableAlerts'
<1>1. PICK j \in DeliverableRows : p = order[j]
  BY ListedWhenFewAhead
<1>2. DeliverableRows' \subseteq DeliverableRows
  BY DEF DeliverableRows, IsDeliverable, RowsInv, Typed
<1>3. j \in DeliverableRows' /\ order'[j] = p
  BY <1>1 DEF DeliverableRows, IsDeliverable
<1>4. Ahead(j)' \subseteq Ahead(j)
  BY <1>2 DEF Ahead
<1>5. Cardinality(Ahead(j)) < MaxSends
  BY <1>1, ListedWhenFewAhead
<1>6. /\ IsFiniteSet(Ahead(j)) /\ Cardinality(Ahead(j)) \in Nat /\ Cardinality(Ahead(j)') \in Nat
      /\ Cardinality(Ahead(j)') <= Cardinality(Ahead(j))
  BY <1>4, ListedWhenFewAhead, FS_Subset, FS_CardinalityType
<1>7. Cardinality(Ahead(j)') < MaxSends
  BY <1>5, <1>6, DeliveryAssumption DEF DeliveryAssumption
<1>8. QED
  BY <1>3, <1>7 DEF DeliverableAlerts, Ahead

\* A new row overtakes none of the n oldest.
LEMMA NewRowWaits ==
  ASSUME RowsInv, RowsInv', NEW p \in Pairs \ Stored, NEW n \in Nat,
         order' \in InsertedAfter(n, p), status' = [status EXCEPT ![p] = "queued"],
         \A i \in DOMAIN order : status[order[i]] = "failed" => i <= n
  PROVE  /\ \A i \in DOMAIN order' : status'[order'[i]] = "failed" => i <= n
         /\ FailedAreRetriedNext => FailedAreRetriedNext'
<1>1. /\ order \in Seq(Pairs) /\ DOMAIN order = 1 .. Len(order) /\ Len(order) \in Nat
      /\ status \in [Pairs -> Statuses]
  BY LenProperties DEF RowsInv, Typed
<1>2. PICK k \in n .. Len(order) :
        /\ order' \in Seq(Pairs)
        /\ Len(order') = Len(order) + 1
        /\ \A j \in 1 .. k : order'[j] = order[j]
        /\ order'[k + 1] = p
        /\ \A j \in k + 1 .. Len(order) : order'[j + 1] = order[j]
  BY <1>1, RowInserted
<1>3. DOMAIN order' = 1 .. Len(order) + 1 /\ n <= k /\ k \in Nat /\ k <= Len(order)
  BY <1>1, <1>2, LenProperties
<1>4. /\ status'[p] = "queued"
      /\ \A r \in Pairs : r # p => status'[r] = status[r]
      /\ \A i \in DOMAIN order : order[i] \in Pairs /\ order[i] # p
  BY <1>1 DEF Stored
<1>5. ASSUME NEW i \in DOMAIN order', status'[order'[i]] = "failed" PROVE i <= n
  <2>1. CASE i <= k
    <3>1. i \in DOMAIN order /\ order'[i] = order[i]
      BY <1>1, <1>2, <1>3, <2>1
    <3>2. QED
      BY <1>4, <1>5, <3>1
  <2>2. CASE i = k + 1
    BY <1>2, <1>4, <1>5, <2>2
  <2>3. CASE i > k + 1
    <3>1. PICK j \in k + 1 .. Len(order) : i = j + 1
      <4>1. i - 1 \in k + 1 .. Len(order) /\ i = (i - 1) + 1
        BY <1>1, <1>3, <2>3
      <4>2. QED
        BY <4>1
    <3>2. order'[i] = order[j] /\ j \in DOMAIN order
      BY <1>1, <1>2, <1>3, <3>1
    <3>3. j <= n
      BY <1>4, <1>5, <3>2
    <3>4. QED
      BY <1>3, <3>1, <3>3
  <2>4. QED
    BY <1>1, <1>3, <2>1, <2>2, <2>3
<1>6. ASSUME FailedAreRetriedNext, NEW r \in Pairs, status'[r] = "failed"
      PROVE  r \in DeliverableAlerts'
  <2>1. status[r] = "failed" /\ r # p
    BY <1>4, <1>6
  <2>2. r \in DeliverableAlerts
    BY <1>6, <2>1 DEF FailedAreRetriedNext
  <2>3. PICK j \in DeliverableRows : r = order[j]
    BY <2>2, ListedWhenFewAhead
  <2>4. j \in DOMAIN order /\ j <= n /\ j \in 1 .. k
    BY <1>1, <1>3, <2>1, <2>3 DEF DeliverableRows
  <2>5. j \in DeliverableRows' /\ order'[j] = r
    BY <1>1, <1>2, <1>3, <1>6, <2>3, <2>4 DEF DeliverableRows, IsDeliverable
  <2>6. Ahead(j)' = Ahead(j)
    <3>1. \A i \in 1 .. j : i \in DOMAIN order /\ i \in DOMAIN order' /\ order'[i] = order[i]
      BY <1>1, <1>2, <1>3, <2>4
    <3>2. \A i \in 1 .. j : i \in DeliverableRows' <=> i \in DeliverableRows
      BY <1>4, <3>1 DEF DeliverableRows, IsDeliverable
    <3>3. \A i : (i \in DeliverableRows \/ i \in DeliverableRows') /\ i < j => i \in 1 .. j
      BY <1>1, <1>3, <2>4 DEF DeliverableRows
    <3>4. QED
      BY <3>2, <3>3 DEF Ahead
  <2>7. Cardinality(Ahead(j)) < MaxSends
    BY <2>2, <2>3, ListedWhenFewAhead
  <2>8. Cardinality(Ahead(j)') < MaxSends
    BY <2>6, <2>7
  <2>9. QED
    BY <2>5, <2>8 DEF DeliverableAlerts, Ahead
<1>7. QED
  BY <1>5, <1>6 DEF FailedAreRetriedNext

\* What makes "failed alerts are retried next" inductive: what is enqueued goes
\* behind the failed rows, and a sweep works on rows it would list again.
RetryInv ==
  /\ FailedAreRetriedNext
  /\ \A w \in Sweeps :
       /\ At(w, "enqueueing") =>
            \A i \in DOMAIN order : status[order[i]] = "failed" => i <= sweeps[w].before
       /\ sweeps[w].batch \subseteq DeliverableAlerts
       /\ sweeps[w].batch # {} => sweeps[w].phase \in {"sending", "accepted", "refused"}

LEMMA InitRetry == Init => RetryInv
<1> SUFFICES ASSUME Init PROVE RetryInv
  OBVIOUS
<1>1. /\ \A p \in Pairs : status[p] # "failed"
      /\ \A w \in Sweeps : sweeps[w] = Idle
  BY DEF Init
<1>2. Idle.batch = {} /\ Idle.phase = "idle"
  BY DEF Idle
<1>3. QED
  BY <1>1, <1>2 DEF RetryInv, FailedAreRetriedNext, At

LEMMA RetryStep ==
  ASSUME OneSweep, RowsInv, RowsInv', RetryInv, [Next]_vars
  PROVE  RetryInv'
<1>t. Typed
  BY DEF RowsInv
\* The sweep goes on; the rows stay as they are.
<1>q. ASSUME NEW w \in Sweeps, NEW me, sweeps' = [sweeps EXCEPT ![w] = me],
             UNCHANGED <<order, status>>,
             me.phase = "enqueueing" =>
               \A i \in DOMAIN order : status[order[i]] = "failed" => i <= me.before,
             me.batch \subseteq DeliverableAlerts,
             me.batch # {} => me.phase \in {"sending", "accepted", "refused"}
      PROVE  RetryInv'
  <2>1. sweeps'[w] = me /\ \A v \in Sweeps : v = w
    BY <1>q, <1>t DEF OneSweep, Typed
  <2>2. DeliverableAlerts' = DeliverableAlerts
    BY <1>q DEF DeliverableAlerts, DeliverableRows, IsDeliverable
  <2>3. FailedAreRetriedNext'
    BY <1>q, <2>2 DEF RetryInv, FailedAreRetriedNext
  <2>4. QED
    BY <1>q, <2>1, <2>2, <2>3 DEF RetryInv, At
<1>1. CASE UNCHANGED <<order, status, sweeps>>
  <2>1. DeliverableAlerts' = DeliverableAlerts
    BY <1>1 DEF DeliverableAlerts, DeliverableRows, IsDeliverable
  <2>2. QED
    BY <1>1, <2>1 DEF RetryInv, FailedAreRetriedNext, At
<1>2. ASSUME NEW w \in Sweeps, StartSweep(w) PROVE RetryInv'
  <2> DEFINE me == [Idle EXCEPT !.phase = "enqueueing",
                                !.todo = {d \in Deltas : Alertable(d)} \X enabled,
                                !.before = Len(order)]
  <2>1. sweeps' = [sweeps EXCEPT ![w] = me] /\ UNCHANGED <<order, status>>
    BY <1>2 DEF StartSweep, rows
  <2>2. me.batch = {} /\ me.phase = "enqueueing" /\ me.before = Len(order)
    BY DEF Idle
  <2> HIDE DEF me
  <2>3. DOMAIN order = 1 .. Len(order) /\ Len(order) \in Nat
    BY <1>t, LenProperties DEF Typed
  <2>4. /\ \A i \in DOMAIN order : status[order[i]] = "failed" => i <= me.before
        /\ me.batch \subseteq DeliverableAlerts
    BY <2>2, <2>3
  <2>5. QED
    BY <1>q, <2>1, <2>2, <2>4
<1>3. ASSUME NEW w \in Sweeps, NEW p \in Pairs, EnqueueAlert(w, p) \/ EnqueueFails(w, p)
      PROVE  RetryInv'
  <2> DEFINE me == [sweeps[w] EXCEPT !.todo = @ \ {p}]
  <2>1. sweeps' = [sweeps EXCEPT ![w] = me] /\ At(w, "enqueueing")
    BY <1>3, <1>t DEF EnqueueAlert, EnqueueFails, Typed, SweepState
  <2>2. me.batch = sweeps[w].batch /\ me.phase = sweeps[w].phase /\ me.before = sweeps[w].before
    BY <1>t DEF Typed, SweepState
  <2> HIDE DEF me
  <2>3. /\ \A i \in DOMAIN order : status[order[i]] = "failed" => i <= sweeps[w].before
        /\ sweeps[w].batch = {} /\ sweeps[w].phase = "enqueueing"
    BY <2>1 DEF RetryInv, At
  <2>4. CASE UNCHANGED <<order, status>>
    BY <1>q, <2>1, <2>2, <2>3, <2>4
  <2>5. CASE ~UNCHANGED <<order, status>>
    <3>1. /\ p \in Pairs \ Stored
          /\ order' \in InsertedAfter(sweeps[w].before, p)
          /\ status' = [status EXCEPT ![p] = "queued"]
      BY <1>3, <2>5 DEF EnqueueAlert, EnqueueFails, rows
    <3>2. sweeps[w].before \in Nat
      BY <1>t DEF Typed, SweepState
    <3>3. /\ \A i \in DOMAIN order' : status'[order'[i]] = "failed" => i <= sweeps[w].before
          /\ FailedAreRetriedNext'
      BY <2>3, <3>1, <3>2, NewRowWaits DEF RetryInv
    <3>4. sweeps'[w] = me /\ \A v \in Sweeps : v = w
      BY <1>t, <2>1 DEF OneSweep, Typed
    <3>5. QED
      BY <2>2, <2>3, <3>3, <3>4 DEF RetryInv, At
  <2>6. QED
    BY <2>4, <2>5
<1>4. ASSUME NEW w \in Sweeps, ListDeliverable(w) PROVE RetryInv'
  <2> DEFINE me == [sweeps[w] EXCEPT !.phase = "sending", !.batch = DeliverableAlerts]
  <2>1. sweeps' = [sweeps EXCEPT ![w] = me] /\ UNCHANGED <<order, status>>
    BY <1>4 DEF ListDeliverable, rows
  <2>2. me.batch = DeliverableAlerts /\ me.phase = "sending"
    BY <1>t DEF Typed, SweepState
  <2> HIDE DEF me
  <2>3. QED
    BY <1>q, <2>1, <2>2
<1>5. ASSUME NEW w \in Sweeps, NEW answer \in {"accepted", "refused"}, Sent(w, answer)
      PROVE  RetryInv'
  <2> DEFINE me == [sweeps[w] EXCEPT !.phase = answer]
  <2>1. sweeps' = [sweeps EXCEPT ![w] = me] /\ UNCHANGED <<order, status>>
    BY <1>5, <1>t DEF Sent, rows, Typed, SweepState
  <2>2. me.batch = sweeps[w].batch /\ me.phase = answer
    BY <1>t DEF Typed, SweepState
  <2> HIDE DEF me
  <2>3. QED
    BY <1>q, <2>1, <2>2 DEF RetryInv
\* The sweep goes on to the next alert.
<1>n. ASSUME NEW w \in Sweeps, NextAlert(w)
      PROVE  \E me : /\ sweeps' = [sweeps EXCEPT ![w] = me]
                     /\ me.batch = sweeps[w].batch \ {Current(w)} /\ me.phase = "sending"
  <2> DEFINE me == [sweeps[w] EXCEPT !.phase = "sending",
                                     !.batch = sweeps[w].batch \ {Current(w)}]
  <2>1. me.batch = sweeps[w].batch \ {Current(w)} /\ me.phase = "sending"
    BY <1>t DEF Typed, SweepState
  <2>2. sweeps' = [sweeps EXCEPT ![w] = me]
    BY <1>n DEF NextAlert
  <2>3. QED
    BY <2>1, <2>2
<1>6. ASSUME NEW w \in Sweeps, RecordFails(w) PROVE RetryInv'
  <2>1. PICK me : /\ sweeps' = [sweeps EXCEPT ![w] = me]
                  /\ me.batch = sweeps[w].batch \ {Current(w)} /\ me.phase = "sending"
    BY <1>6, <1>n DEF RecordFails
  <2>2. UNCHANGED <<order, status>> /\ sweeps[w].batch \subseteq DeliverableAlerts
    BY <1>6 DEF RecordFails, rows, RetryInv
  <2>3. QED
    BY <1>q, <2>1, <2>2
<1>7. ASSUME NEW w \in Sweeps, FinishSweep(w) \/ Crash(w) PROVE RetryInv'
  <2>1. /\ sweeps' = [sweeps EXCEPT ![w] = Idle] /\ UNCHANGED <<order, status>>
        /\ Idle.batch = {} /\ Idle.phase = "idle"
    BY <1>7 DEF FinishSweep, Crash, rows, Idle
  <2>2. QED
    BY <1>q, <2>1
<1>8. ASSUME NEW w \in Sweeps, RecordOutcome(w) PROVE RetryInv'
  <2> DEFINE q == Current(w)
  <2>1. PICK me : /\ sweeps' = [sweeps EXCEPT ![w] = me]
                  /\ me.batch = sweeps[w].batch \ {q} /\ me.phase = "sending"
    BY <1>8, <1>n DEF RecordOutcome
  <2>2. /\ UNCHANGED order
        /\ status' = IF AlertTransitionAllowed(status[q], Outcome(w))
                     THEN [status EXCEPT ![q] = Outcome(w)]
                     ELSE status
    BY <1>8 DEF RecordOutcome
  <2>3. /\ sweeps[w].batch # {} /\ sweeps[w].batch \subseteq DeliverableAlerts
        /\ q \in sweeps[w].batch /\ q \in Pairs
    <3>1. sweeps[w].batch # {}
      BY <1>8 DEF RecordOutcome, At, RowsInv, SweepsHoldRows
    <3>2. QED
      BY <3>1, CurrentInBatch DEF RetryInv
  <2>4. Outcome(w) \in {"delivered", "failed"}
    BY DEF Outcome
  <2> HIDE DEF q
  <2>5. \A p \in Pairs : /\ p # q => status'[p] = status[p]
                         /\ status'[p] # status[p] => status[p] \in {"queued", "failed"}
    <3>1. CASE AlertTransitionAllowed(status[q], Outcome(w))
      <4>1. status[q] \in {"queued", "failed"}
        BY <3>1 DEF AlertTransitionAllowed
      <4>2. status' = [status EXCEPT ![q] = Outcome(w)]
        BY <2>2, <3>1
      <4>3. QED
        BY <1>t, <4>1, <4>2 DEF Typed
    <3>2. CASE ~AlertTransitionAllowed(status[q], Outcome(w))
      BY <2>2, <3>2
    <3>3. QED
      BY <3>1, <3>2
  <2>6. \A p \in Pairs : IsDeliverable(p)' => IsDeliverable(p)
    BY <2>5 DEF IsDeliverable
  <2>7. \A p \in DeliverableAlerts : IsDeliverable(p)' => p \in DeliverableAlerts'
    BY <2>2, <2>6, RowsMoveUp
  <2>8. \A p \in DeliverableAlerts : p \in Pairs /\ IsDeliverable(p)
    BY <1>t DEF DeliverableAlerts, DeliverableRows, Typed, Stored
  <2>9. FailedAreRetriedNext'
    <3> SUFFICES ASSUME NEW p \in Pairs, status'[p] = "failed" PROVE p \in DeliverableAlerts'
      BY DEF FailedAreRetriedNext
    <3>1. IsDeliverable(p)'
      BY DEF IsDeliverable
    <3>2. p \in DeliverableAlerts
      BY <2>3, <2>5 DEF RetryInv, FailedAreRetriedNext
    <3>3. QED
      BY <2>7, <3>1, <3>2
  <2>10. sweeps[w].batch \ {q} \subseteq DeliverableAlerts'
    <3> SUFFICES ASSUME NEW p \in sweeps[w].batch \ {q} PROVE p \in DeliverableAlerts'
      OBVIOUS
    <3>1. p \in DeliverableAlerts /\ p \in Pairs /\ IsDeliverable(p)
      BY <2>3, <2>8
    <3>2. IsDeliverable(p)'
      BY <2>5, <3>1 DEF IsDeliverable
    <3>3. QED
      BY <2>7, <3>1, <3>2
  <2>11. sweeps'[w] = me /\ \A v \in Sweeps : v = w
    BY <1>t, <2>1 DEF OneSweep, Typed
  <2>12. QED
    BY <2>1, <2>9, <2>10, <2>11 DEF RetryInv, At
<1>9. QED
  BY <1>1, <1>2, <1>3, <1>4, <1>5, <1>6, <1>7, <1>8
     DEF Next, Sweep, vars, rows, DecideDelta, SeedChannelConfig, SendAccepted, SendRefused,
         SendTimesOut

\* With one sweep at a time a failed alert is always among the rows the next sweep
\* lists: nothing that is enqueued meanwhile goes before it.
THEOREM FailedAreRetried ==
  ASSUME OneSweep
  PROVE  Spec => []FailedAreRetriedNext
<1>1. RowsInv /\ RowsInv' /\ RetryInv /\ [Next]_vars => RetryInv'
  BY RetryStep
<1>2. Spec => []RetryInv
  BY <1>1, InitRetry, RowsStayConsistent, PTL DEF Spec
<1>3. RetryInv => FailedAreRetriedNext
  BY DEF RetryInv
<1>4. QED
  BY <1>2, <1>3, PTL

-----------------------------------------------------------------------------
(* The steps of the sweep are steps of the outbox.                         *)

\* An alert on the way belongs to a change that cleared the firewall, and a sweep
\* that was told "accepted" is at a row whose destination has a copy.
OutboxInv ==
  \A w \in Sweeps :
    /\ \A p \in sweeps[w].todo : p[1] \in Cleared
    /\ At(w, "accepted") => received[Current(w)] > 0

LEMMA InitOutbox == Init => OutboxInv /\ Outbox!Init
<1> SUFFICES ASSUME Init PROVE OutboxInv /\ Outbox!Init
  OBVIOUS
<1>1. \A w \in Sweeps : sweeps[w].todo = {} /\ sweeps[w].phase = "idle"
  BY DEF Init, Idle
<1>2. OutboxInv
  BY <1>1 DEF OutboxInv, At
<1>3. Cleared = {} /\ Stored = {} /\ Delivered = {} /\ received = [p \in Pairs |-> 0]
  BY DEF Init, Cleared, Stored, Delivered
<1>4. QED
  BY <1>2, <1>3 DEF Outbox!Init, Outbox!Pairs, Pairs

\* What happens around the sweep clears a change or does nothing to the outbox.
LEMMA ClearStep ==
  ASSUME Typed, NEW d \in Deltas, DecideDelta(d)
  PROVE  /\ Cleared' = Cleared \/ Cleared' = Cleared \cup {d}
         /\ UNCHANGED <<Stored, Delivered, received, order, status, sweeps>>
<1>1. /\ deltas \in [Deltas -> DeltaRow]
      /\ UNCHANGED <<order, status, sweeps, received>>
  BY DEF Typed, DecideDelta, rows
<1>2. UNCHANGED <<Stored, Delivered>>
  BY <1>1 DEF Stored, Delivered
<1>3. /\ deltas[d].state \notin {"published", "dismissed"}
      /\ \A e \in Deltas : e # d => deltas'[e] = deltas[e]
  BY <1>1 DEF DecideDelta
<1>4. QED
  BY <1>1, <1>2, <1>3 DEF Cleared

LEMMA OutboxStep ==
  ASSUME RowsInv, RowsInv', RetryInv, OutboxInv, [Next]_vars
  PROVE  OutboxInv' /\ (Outbox!Next \/ UNCHANGED <<Cleared, Stored, received, Delivered>>)
<1> DEFINE Idles == UNCHANGED <<Cleared, Stored, received, Delivered>>
<1>t. Typed /\ Typed'
  BY DEF RowsInv
\* What a sweep that goes on must still satisfy.
<1>q. ASSUME NEW w \in Sweeps, NEW me, sweeps' = [sweeps EXCEPT ![w] = me],
             UNCHANGED <<order, deltas>>,
             \A p \in me.todo : p[1] \in Cleared,
             me.phase = "accepted" => received'[Current(w)] > 0 /\ me.batch = sweeps[w].batch,
             \A p \in Pairs : received[p] > 0 => received'[p] > 0
      PROVE  OutboxInv'
  <2>1. /\ sweeps'[w] = me
        /\ me.batch = sweeps[w].batch => Current(w)' = Current(w)
        /\ \A v \in Sweeps : v # w => sweeps'[v] = sweeps[v] /\ Current(v)' = Current(v)
    BY <1>q, <1>t, OthersStay
  <2>2. Cleared' = Cleared
    BY <1>q DEF Cleared
  <2>3. \A v \in Sweeps : At(v, "accepted") => Current(v) \in Pairs
    BY CurrentInBatch DEF At, RowsInv, SweepsHoldRows
  <2>4. ASSUME NEW v \in Sweeps
        PROVE  /\ \A p \in sweeps'[v].todo : p[1] \in Cleared'
               /\ At(v, "accepted")' => received'[Current(v)'] > 0
    <3>1. CASE v = w
      BY <1>q, <2>1, <2>2, <3>1 DEF At
    <3>2. CASE v # w
      BY <1>q, <2>1, <2>2, <2>3, <3>2 DEF At, OutboxInv
    <3>3. QED
      BY <3>1, <3>2
  <2>5. QED
    BY <2>4 DEF OutboxInv
<1>1. CASE UNCHANGED <<deltas, order, status, sweeps, received>>
  <2>1. \A w \in Sweeps : Current(w)' = Current(w)
    BY <1>1 DEF Current
  <2>2. UNCHANGED <<Cleared, Stored, Delivered>>
    BY <1>1 DEF Cleared, Stored, Delivered
  <2>3. QED
    BY <1>1, <2>1, <2>2 DEF OutboxInv, At
<1>2. ASSUME NEW d \in Deltas, DecideDelta(d) PROVE OutboxInv' /\ (Outbox!Next \/ Idles)
  <2>1. /\ Cleared' = Cleared \/ Cleared' = Cleared \cup {d}
        /\ UNCHANGED <<Stored, Delivered, received, order, status, sweeps>>
    BY <1>2, <1>t, ClearStep
  <2>2. \A w \in Sweeps : Current(w)' = Current(w)
    BY <2>1 DEF Current
  <2>3. OutboxInv'
    BY <2>1, <2>2 DEF OutboxInv, At
  <2>4. Outbox!Clear(d) \/ Idles
    BY <2>1 DEF Outbox!Clear
  <2>5. QED
    BY <2>3, <2>4 DEF Outbox!Next
<1>3. ASSUME NEW w \in Sweeps, StartSweep(w) PROVE OutboxInv' /\ Idles
  <2> DEFINE me == [Idle EXCEPT !.phase = "enqueueing",
                                !.todo = {d \in Deltas : Alertable(d)} \X enabled,
                                !.before = Len(order)]
  <2>1. /\ sweeps' = [sweeps EXCEPT ![w] = me]
        /\ UNCHANGED <<deltas, order, status, received>>
    BY <1>3 DEF StartSweep, rows
  <2>2. me.phase = "enqueueing" /\ \A p \in me.todo : p[1] \in Cleared
    BY DEF Idle, Alertable, Cleared
  <2> HIDE DEF me
  <2>3. OutboxInv'
    BY <1>q, <2>1, <2>2
  <2>4. Idles
    BY <2>1 DEF Cleared, Stored, Delivered
  <2>5. QED
    BY <2>3, <2>4
\* Storing a row is promising a message.
<1>4. ASSUME NEW w \in Sweeps, NEW p \in Pairs, EnqueueAlert(w, p) \/ EnqueueFails(w, p)
      PROVE  OutboxInv' /\ (Outbox!Next \/ Idles)
  <2> DEFINE me == [sweeps[w] EXCEPT !.todo = @ \ {p}]
  <2>1. /\ sweeps' = [sweeps EXCEPT ![w] = me] /\ At(w, "enqueueing")
        /\ p \in sweeps[w].todo /\ UNCHANGED <<deltas, received>>
    BY <1>4, <1>t DEF EnqueueAlert, EnqueueFails, Typed, SweepState
  <2>2. me.batch = sweeps[w].batch /\ me.phase = sweeps[w].phase /\ me.todo = sweeps[w].todo \ {p}
    BY <1>t DEF Typed, SweepState
  <2> HIDE DEF me
  <2>3. /\ sweeps[w].phase = "enqueueing" /\ p[1] \in Cleared
        /\ \A r \in sweeps[w].todo : r[1] \in Cleared
    BY <2>1 DEF OutboxInv, At
  <2>4. Cleared' = Cleared
    BY <2>1 DEF Cleared
  <2>5. CASE UNCHANGED <<order, status>>
    <3>1. OutboxInv'
      BY <1>q, <2>1, <2>2, <2>3, <2>5
    <3>2. Idles
      BY <2>1, <2>4, <2>5 DEF Stored, Delivered
    <3>3. QED
      BY <3>1, <3>2
  <2>6. CASE ~UNCHANGED <<order, status>>
    <3>1. /\ p \in Pairs \ Stored
          /\ order' \in InsertedAfter(sweeps[w].before, p)
          /\ status' = [status EXCEPT ![p] = "queued"]
      BY <1>4, <2>6 DEF EnqueueAlert, EnqueueFails, rows
    <3>2. sweeps[w].before \in Nat
      BY <1>t DEF Typed, SweepState
    <3>3. /\ sweeps'[w] = me
          /\ \A v \in Sweeps : v # w => sweeps'[v] = sweeps[v]
      BY <1>t, <2>1 DEF Typed
    <3>4. /\ Stored' = Stored \cup {p}
          /\ \A v \in Sweeps : sweeps[v].batch # {} => Current(v)' = Current(v)
      BY <2>2, <3>1, <3>2, <3>3, OrderGrows
    <3>5. \A v \in Sweeps : At(v, "accepted") => sweeps[v].batch # {}
      BY DEF At, RowsInv, SweepsHoldRows
    <3>6. OutboxInv'
      <4> SUFFICES ASSUME NEW v \in Sweeps
                   PROVE  /\ \A r \in sweeps'[v].todo : r[1] \in Cleared'
                          /\ At(v, "accepted")' => received'[Current(v)'] > 0
        BY DEF OutboxInv
      <4>1. CASE v = w
        BY <2>2, <2>3, <2>4, <3>3, <4>1 DEF At
      <4>2. CASE v # w
        BY <2>1, <2>4, <3>3, <3>4, <3>5, <4>2 DEF At, OutboxInv
      <4>3. QED
        BY <4>1, <4>2
    <3>7. Delivered' = Delivered
      <4>1. status[p] = "none"
        BY <1>t, <3>1 DEF Typed
      <4>2. QED
        BY <1>t, <3>1, <4>1 DEF Delivered, Typed
    <3>8. Outbox!Promise(p)
      BY <2>1, <2>3, <2>4, <3>4, <3>7 DEF Outbox!Promise
    <3>9. QED
      BY <3>6, <3>8 DEF Outbox!Next, Outbox!Pairs, Pairs
  <2>7. QED
    BY <2>5, <2>6
<1>5. ASSUME NEW w \in Sweeps, ListDeliverable(w) PROVE OutboxInv' /\ Idles
  <2> DEFINE me == [sweeps[w] EXCEPT !.phase = "sending", !.batch = DeliverableAlerts]
  <2>1. /\ sweeps' = [sweeps EXCEPT ![w] = me]
        /\ UNCHANGED <<deltas, order, status, received>>
    BY <1>5 DEF ListDeliverable, rows
  <2>2. me.todo = sweeps[w].todo /\ me.phase = "sending"
    BY <1>t DEF Typed, SweepState
  <2> HIDE DEF me
  <2>3. OutboxInv'
    BY <1>q, <2>1, <2>2 DEF OutboxInv
  <2>4. Idles
    BY <2>1 DEF Cleared, Stored, Delivered
  <2>5. QED
    BY <2>3, <2>4
\* The provider answers: the rows stay, the destination may have a copy more.
<1>s. ASSUME NEW w \in Sweeps, NEW answer \in {"accepted", "refused"}, Sent(w, answer),
             \/ UNCHANGED received /\ answer = "refused"
             \/ Accepts(Current(w))
      PROVE  OutboxInv' /\ (Outbox!Next \/ Idles)
  <2> DEFINE me == [sweeps[w] EXCEPT !.phase = answer]
             q == Current(w)
  <2>1. /\ sweeps' = [sweeps EXCEPT ![w] = me] /\ sweeps[w].batch # {}
        /\ UNCHANGED <<deltas, order, status>>
    BY <1>s, <1>t DEF Sent, rows, Typed, SweepState
  <2>2. me.batch = sweeps[w].batch /\ me.phase = answer /\ me.todo = sweeps[w].todo
    BY <1>t DEF Typed, SweepState
  <2>3. q \in Pairs /\ q \in sweeps[w].batch /\ q \in Stored
    BY <2>1, CurrentInBatch
  <2>4. Accepts(q) \/ (UNCHANGED received /\ answer = "refused")
    BY <1>s
  <2>5. \A p \in sweeps[w].todo : p[1] \in Cleared
    BY DEF OutboxInv
  <2>6. IsDeliverable(q)
    BY <2>3 DEF RetryInv, DeliverableAlerts, DeliverableRows
  <2> HIDE DEF me, q
  <2>7. /\ \A p \in Pairs : received[p] > 0 => received'[p] > 0
        /\ answer = "accepted" => received'[q] > 0
    <3>1. CASE UNCHANGED received /\ answer = "refused"
      BY <3>1
    <3>2. CASE Accepts(q)
      <4>1. received' = [received EXCEPT ![q] = IF q[2] \in Email THEN 1 ELSE received[q] + 1]
        BY <3>2 DEF Accepts
      <4>2. received \in [Pairs -> Nat]
        BY <1>t DEF Typed
      <4>3. QED
        BY <2>3, <4>1, <4>2
    <3>3. QED
      BY <2>4, <3>1, <3>2
  <2>8. OutboxInv'
    BY <1>q, <2>1, <2>2, <2>5, <2>7 DEF q
  <2>9. UNCHANGED <<Cleared, Stored, Delivered>>
    BY <2>1 DEF Cleared, Stored, Delivered
  <2>10. q \notin Delivered
    BY <2>6 DEF Delivered, IsDeliverable
  <2>11. Accepts(q) => Outbox!Accept(q)
    BY <2>3, <2>9, <2>10 DEF Accepts, Outbox!Accept
  <2>12. QED
    BY <2>3, <2>4, <2>8, <2>9, <2>11 DEF Outbox!Next, Outbox!Pairs, Pairs
\* The sweep goes on to the next alert, or stops.
<1>n. ASSUME NEW w \in Sweeps,
             \/ NextAlert(w)
             \/ sweeps' = [sweeps EXCEPT ![w] = Idle],
             UNCHANGED <<deltas, order, received>>
      PROVE  OutboxInv'
  <2> DEFINE next == [sweeps[w] EXCEPT !.phase = "sending",
                                       !.batch = sweeps[w].batch \ {Current(w)}]
  <2>1. next.todo = sweeps[w].todo /\ next.phase = "sending"
    BY <1>t DEF Typed, SweepState
  <2>2. Idle.todo = {} /\ Idle.phase = "idle"
    BY DEF Idle
  <2>3. \A p \in sweeps[w].todo : p[1] \in Cleared
    BY DEF OutboxInv
  <2>4. CASE NextAlert(w)
    <3>1. sweeps' = [sweeps EXCEPT ![w] = next]
      BY <2>4 DEF NextAlert
    <3> HIDE DEF next
    <3>2. QED
      BY <1>n, <1>q, <2>1, <2>3, <3>1
  <2>5. CASE sweeps' = [sweeps EXCEPT ![w] = Idle]
    BY <1>n, <1>q, <2>2, <2>5
  <2>6. QED
    BY <1>n, <2>4, <2>5
<1>6. ASSUME NEW w \in Sweeps, RecordFails(w) \/ FinishSweep(w) \/ Crash(w)
      PROVE  OutboxInv' /\ Idles
  <2>1. /\ UNCHANGED <<deltas, order, status, received>>
        /\ NextAlert(w) \/ sweeps' = [sweeps EXCEPT ![w] = Idle]
    BY <1>6 DEF RecordFails, FinishSweep, Crash, rows
  <2>2. OutboxInv'
    BY <1>n, <2>1
  <2>3. Idles
    BY <2>1 DEF Cleared, Stored, Delivered
  <2>4. QED
    BY <2>2, <2>3
\* Recording "delivered" settles the promise.
<1>7. ASSUME NEW w \in Sweeps, RecordOutcome(w) PROVE OutboxInv' /\ (Outbox!Next \/ Idles)
  <2> DEFINE q == Current(w)
  <2>1. /\ UNCHANGED <<deltas, order, received>> /\ NextAlert(w)
        /\ At(w, "accepted") \/ At(w, "refused")
        /\ status' = IF AlertTransitionAllowed(status[q], Outcome(w))
                     THEN [status EXCEPT ![q] = Outcome(w)]
                     ELSE status
    BY <1>7 DEF RecordOutcome
  <2>2. OutboxInv'
    BY <1>n, <2>1
  <2>3. sweeps[w].batch # {}
    BY <2>1 DEF At, RowsInv, SweepsHoldRows
  <2>4. q \in Pairs /\ q \in Stored
    BY <2>3, CurrentInBatch
  <2>5. At(w, "accepted") => received[q] > 0
    BY DEF OutboxInv
  <2>6. Outcome(w) = IF At(w, "accepted") THEN "delivered" ELSE "failed"
    BY DEF Outcome
  <2> HIDE DEF q
  <2>7. UNCHANGED <<Cleared, Stored>>
    BY <2>1 DEF Cleared, Stored
  <2>8. CASE At(w, "accepted") /\ AlertTransitionAllowed(status[q], Outcome(w))
    <3>1. Delivered' = Delivered \cup {q}
      BY <1>t, <2>1, <2>4, <2>6, <2>8 DEF Delivered, Typed
    <3>2. Outbox!Settle(q)
      BY <2>1, <2>4, <2>5, <2>7, <2>8, <3>1 DEF Outbox!Settle
    <3>3. QED
      BY <2>2, <2>4, <3>2 DEF Outbox!Next, Outbox!Pairs, Pairs
  <2>9. CASE ~(At(w, "accepted") /\ AlertTransitionAllowed(status[q], Outcome(w)))
    <3>1. \A p \in Pairs : status'[p] = "delivered" <=> status[p] = "delivered"
      BY <1>t, <2>1, <2>4, <2>6, <2>9 DEF AlertTransitionAllowed, Typed
    <3>2. Delivered' = Delivered
      BY <3>1 DEF Delivered
    <3>3. QED
      BY <2>1, <2>2, <2>7, <3>2
  <2>10. QED
    BY <2>8, <2>9
<1>8. QED
  <2>1. ASSUME NEW w \in Sweeps, SendAccepted(w) \/ SendRefused(w) \/ SendTimesOut(w)
        PROVE  OutboxInv' /\ (Outbox!Next \/ Idles)
    BY <1>s, <2>1 DEF SendAccepted, SendRefused, SendTimesOut
  <2>2. CASE UNCHANGED vars
    BY <1>1, <2>2 DEF vars, rows
  <2>3. ASSUME NEW c \in Channels, SeedChannelConfig(c)
        PROVE  OutboxInv' /\ (Outbox!Next \/ Idles)
    BY <1>1, <2>3 DEF SeedChannelConfig, rows
  <2>4. QED
    BY <1>2, <1>3, <1>4, <1>5, <1>6, <1>7, <2>1, <2>2, <2>3 DEF Next, Sweep

\* The safety part of AlertOutbox!Spec: nothing is sent before the change cleared the
\* firewall or after the row is settled, and a row is settled only when the
\* destination has the message.  One sweep at a time.
THEOREM OutboxSafety ==
  ASSUME OneSweep
  PROVE  Spec => Outbox!Init /\ [][Outbox!Next]_(Outbox!vars)
<1>1. Init => OutboxInv /\ Outbox!Init
  BY InitOutbox
<1>2. RowsInv /\ RowsInv' /\ RetryInv /\ [Next]_vars => RetryInv'
  BY RetryStep
<1>3. Spec => []RetryInv
  BY <1>2, InitRetry, RowsStayConsistent, PTL DEF Spec
<1>4. RowsInv /\ RowsInv' /\ RetryInv /\ OutboxInv /\ [Next]_vars
        => OutboxInv' /\ [Outbox!Next]_(Outbox!vars)
  BY OutboxStep DEF Outbox!vars
<1>5. QED
  BY <1>1, <1>3, <1>4, RowsStayConsistent, PTL DEF Spec
=============================================================================
