----------------------------- MODULE MemoryStore -----------------------------
(***************************************************************************)
(* MemoryFlankStore: the tables as maps in memory, the checks that stand   *)
(* in for the database's constraints, and withTransaction, which copies    *)
(* every map and puts the copy back when its function throws.              *)
(*                                                                         *)
(* A method runs to its end before another one starts; callers interleave  *)
(* between calls, inside a transaction too, for a transaction's handle is  *)
(* the store itself.  A call that throws changes nothing.                  *)
(*                                                                         *)
(* Rows keep their ids, references, and what the checks read.              *)
(***************************************************************************)
EXTENDS Naturals, Sequences, FiniteSets

CONSTANTS
  Tenants,    \* workspaces a call may name
  Callers,    \* concurrent users of the store
  Seeded,     \* the store as the test has seeded it
  Candidates, \* the rows a call may insert, by table
  Logins,     \* identities: subject, email, verified
  MaxCalls    \* bound: calls that change a table

ASSUME MemoryAssumption == MaxCalls \in Nat

HasIn(tables, table, id) == \E row \in tables[table] : row.id = id

SlotOf(row) == <<row.surface, row.competitor, row.kind, row.version>>

\* No row refers to one that is gone, no constraint the maps stand in for is
\* broken, and the reserved slots are those of the stored sections.
ConsistentIn(tables) ==
  /\ \A row \in tables.competitors : HasIn(tables, "workspaces", row.workspace)
  /\ \A row \in tables.sources : /\ HasIn(tables, "competitors", row.competitor)
                                 /\ HasIn(tables, "health", row.id)
  /\ \A row \in tables.snapshots : HasIn(tables, "sources", row.source)
  /\ \A row \in tables.deltas : HasIn(tables, "sources", row.source)
  /\ \A row \in tables.claims : HasIn(tables, "deltas", row.delta)
  /\ \A row, other \in tables.alerts :
        /\ HasIn(tables, "deltas", row.delta)
        /\ row.delta = other.delta /\ row.channel = other.channel => row = other
  /\ \A row, other \in tables.memberships :
        row.user = other.user /\ row.workspace = other.workspace => row = other
  /\ \A h \in tables.bySource :
        {h.snapshots[i] : i \in DOMAIN h.snapshots} =
          {row.id : row \in {s \in tables.snapshots : s.source = h.id}}
  /\ tables.sectionVersions = {SlotOf(row) : row \in tables.sections}

\* The tables, and the fields that the calls below change a row beside.
Tables ==
  {"workspaces", "competitors", "sources", "health", "snapshots", "bySource", "deltas",
   "claims", "coverageRuns", "sections", "sectionVersions", "users", "memberships",
   "channelConfigs", "alerts", "bundleDeliveries"}

FieldsIn(tables) ==
  /\ Tables \subseteq DOMAIN tables
  /\ \A row \in tables.deltas : {"id", "source", "state"} \subseteq DOMAIN row
  /\ \A row \in tables.alerts : {"id", "delta", "channel", "status"} \subseteq DOMAIN row
  /\ \A row \in tables.health : {"id", "fetched", "failures"} \subseteq DOMAIN row
  /\ \A h \in tables.bySource : {"id", "snapshots"} \subseteq DOMAIN h
  /\ \A row \in tables.snapshots : row \in Seeded.snapshots \cup Candidates.snapshots
  /\ \A h \in tables.bySource :
        h.snapshots \in Seq({row.id : row \in Seeded.snapshots \cup Candidates.snapshots})

\* The tables whose rows the calls insert.
RowTables == Tables \ {"health", "bySource", "sectionVersions"}

UniqueIn(tables) ==
  \A table \in RowTables : \A row, other \in tables[table] :
     row.id = other.id => row = other

ASSUME SeedAssumption ==
  /\ ConsistentIn(Seeded) /\ FieldsIn(Seeded) /\ UniqueIn(Seeded)
  /\ \A row \in Seeded.users \cup Candidates.users : "id" \in DOMAIN row
  /\ \A row \in Candidates.deltas : {"id", "source", "state"} \subseteq DOMAIN row
  /\ \A row \in Candidates.alerts : {"id", "delta", "channel", "status"} \subseteq DOMAIN row

VARIABLES
  db,          \* the maps
  checkpoint,  \* the copies the open transactions hold, at most one each
  settled,     \* the maps as the calls that were not rolled back left them
  overlapped,  \* whether a call was made during another caller's transaction
  calls        \* calls so far

memoryVars == <<db, checkpoint, settled, overlapped, calls>>

MemoryInit ==
  /\ db = Seeded
  /\ checkpoint = [c \in Callers |-> {}]
  /\ settled = Seeded
  /\ overlapped = FALSE
  /\ calls = 0

InTransaction(c) == checkpoint[c] # {}

Overlaps(c) == overlapped \/ \E other \in Callers \ {c} : InTransaction(other)

\* A call that succeeds.  What is settled is of interest until callers overlap.
Store(c, tables) ==
  /\ calls < MaxCalls
  /\ calls' = calls + 1
  /\ db' = tables
  /\ overlapped' = Overlaps(c)
  /\ settled' = IF Overlaps(c) THEN Seeded ELSE IF InTransaction(c) THEN settled ELSE tables
  /\ UNCHANGED checkpoint

-----------------------------------------------------------------------------
(* References.                                                             *)

Has(table, id) == HasIn(db, table, id)

CompetitorIn(w, id) == \E row \in db.competitors : row.id = id /\ row.workspace = w

SourceIn(w, id) == \E row \in db.sources : row.id = id /\ CompetitorIn(w, row.competitor)

DeltaIn(w, id) == \E row \in db.deltas : row.id = id /\ SourceIn(w, row.source)

\* insertUnique: history is append-only.
With(table, row) == [db EXCEPT ![table] = @ \cup {row}]

InsertUnique(c, table, row) ==
  /\ ~Has(table, row.id)
  /\ Store(c, With(table, row))

Replace(c, table, old, new) ==
  Store(c, [db EXCEPT ![table] = (@ \ {old}) \cup {new}])

-----------------------------------------------------------------------------
(* Calls.                                                                  *)

SeedWorkspace(c, row) == InsertUnique(c, "workspaces", row)

SeedCompetitor(c, row) ==
  /\ Has("workspaces", row.workspace)
  /\ InsertUnique(c, "competitors", row)

SeedSource(c, row) ==
  /\ Has("competitors", row.competitor)
  /\ ~Has("sources", row.id)
  /\ Store(c, [With("sources", row) EXCEPT
                 !.health = @ \cup {[id |-> row.id, fetched |-> FALSE, failures |-> 0]},
                 !.bySource = @ \cup {[id |-> row.id, snapshots |-> <<>>]}])

InsertSnapshot(c, w, row) ==
  /\ SourceIn(w, row.source)
  /\ ~Has("snapshots", row.id)
  /\ Store(c, [With("snapshots", row) EXCEPT
                 !.bySource = {IF h.id = row.source THEN [h EXCEPT !.snapshots = Append(@, row.id)]
                               ELSE h : h \in @}])

InsertDelta(c, w, row) ==
  /\ SourceIn(w, row.source)
  /\ InsertUnique(c, "deltas", row)

\* A price change is confirmed, by a snapshot, before it is published.
Transitions(row) ==
  CASE row.state = "pending" /\ row.pricing -> {"confirmed", "dismissed"}
    [] row.state = "pending"                -> {"confirmed", "dismissed", "published"}
    [] row.state = "confirmed"              -> {"published"}
    [] OTHER                                -> {}

TransitionDelta(c, w, row, to) ==
  /\ DeltaIn(w, row.id) /\ to \in Transitions(row)
  /\ Replace(c, "deltas", row, [row EXCEPT !.state = to])

InsertClaim(c, w, row) ==
  /\ DeltaIn(w, row.delta)
  /\ InsertUnique(c, "claims", row)

InsertCoverageRun(c, row) ==
  /\ Has("workspaces", row.workspace)
  /\ InsertUnique(c, "coverageRuns", row)

MarkSource(c, row, fetched) ==
  /\ Has("sources", row.id)
  /\ Replace(c, "health", row,
             IF fetched THEN [row EXCEPT !.fetched = TRUE, !.failures = 0]
             ELSE [row EXCEPT !.failures = @ + 1])

\* The slot is checked, the row inserted, and then the slot reserved.
InsertSection(c, w, row) ==
  /\ CompetitorIn(w, row.competitor)
  /\ SlotOf(row) \notin db.sectionVersions
  /\ ~Has("sections", row.id)
  /\ Store(c, [With("sections", row) EXCEPT !.sectionVersions = @ \cup {SlotOf(row)}])

SeedUser(c, row) == InsertUnique(c, "users", row)

SeedMembership(c, row) ==
  /\ Has("users", row.user) /\ Has("workspaces", row.workspace)
  /\ \A m \in db.memberships : m.user # row.user \/ m.workspace # row.workspace
  /\ InsertUnique(c, "memberships", row)

\* A verified e-mail links an account whose subject is another; a new account
\* gets a random id, for which its subject stands.
LinkOrCreateUser(c, login) ==
  /\ \A u \in db.users : u.subject # login.subject
  /\ IF \E u \in db.users : u.email = login.email
     THEN /\ login.verified
          /\ \E u \in db.users :
               /\ u.email = login.email
               /\ Replace(c, "users", u, [u EXCEPT !.subject = login.subject])
     ELSE InsertUnique(c, "users", [id |-> login.subject, email |-> login.email,
                                    subject |-> login.subject])

SeedChannel(c, row) ==
  /\ Has("workspaces", row.workspace)
  /\ InsertUnique(c, "channelConfigs", row)

\* A repeat answers with the row there is.
EnqueueMemoryAlert(c, w, row) ==
  /\ DeltaIn(w, row.delta) /\ row.workspace = w
  /\ \A a \in db.alerts : a.delta # row.delta \/ a.channel # row.channel
  /\ InsertUnique(c, "alerts", row)

RecordMemoryOutcome(c, w, row, to) ==
  /\ row.workspace = w
  /\ row.status # "delivered"
  /\ Replace(c, "alerts", row, [row EXCEPT !.status = to])

InsertBundleDelivery(c, row) ==
  /\ Has("workspaces", row.workspace)
  /\ InsertUnique(c, "bundleDeliveries", row)

-----------------------------------------------------------------------------
(* Transactions.                                                           *)

Begin(c) ==
  /\ ~InTransaction(c)
  /\ checkpoint' = [checkpoint EXCEPT ![c] = {db}]
  /\ overlapped' = Overlaps(c)
  /\ settled' = IF Overlaps(c) THEN Seeded ELSE settled
  /\ UNCHANGED <<db, calls>>

End(c) ==
  /\ InTransaction(c)
  /\ checkpoint' = [checkpoint EXCEPT ![c] = {}]
  /\ UNCHANGED <<overlapped, calls>>

Commit(c) ==
  /\ End(c)
  /\ settled' = IF overlapped THEN settled ELSE db
  /\ UNCHANGED db

\* Mutant: the reserved slots are not among the maps that are put back.
RestoreButSlots(c) ==
  /\ End(c)
  /\ \E copy \in checkpoint[c] :
       db' = [copy EXCEPT !.sectionVersions = db.sectionVersions]
  /\ UNCHANGED settled

Rollback(c) ==
  /\ End(c)
  /\ db' \in checkpoint[c]
  /\ UNCHANGED settled

InsertRow(c) ==
  \/ \E row \in Candidates.workspaces : SeedWorkspace(c, row)
  \/ \E row \in Candidates.competitors : SeedCompetitor(c, row)
  \/ \E row \in Candidates.sources : SeedSource(c, row)
  \/ \E row \in Candidates.coverageRuns : InsertCoverageRun(c, row)
  \/ \E row \in Candidates.users : SeedUser(c, row)
  \/ \E row \in Candidates.memberships : SeedMembership(c, row)
  \/ \E row \in Candidates.channelConfigs : SeedChannel(c, row)
  \/ \E row \in Candidates.bundleDeliveries : InsertBundleDelivery(c, row)

InsertScopedRow(c, w) ==
  \/ \E row \in Candidates.snapshots : InsertSnapshot(c, w, row)
  \/ \E row \in Candidates.deltas : InsertDelta(c, w, row)
  \/ \E row \in Candidates.claims : InsertClaim(c, w, row)
  \/ \E row \in Candidates.sections : InsertSection(c, w, row)
  \/ \E row \in Candidates.alerts : EnqueueMemoryAlert(c, w, row)

UpdateRow(c) ==
  \/ \E w \in Tenants, row \in db.deltas, to \in {"confirmed", "dismissed", "published"} :
       TransitionDelta(c, w, row, to)
  \/ \E w \in Tenants, row \in db.alerts, to \in {"delivered", "failed"} :
       RecordMemoryOutcome(c, w, row, to)
  \/ \E row \in db.health, fetched \in BOOLEAN : MarkSource(c, row, fetched)
  \/ \E login \in Logins : LinkOrCreateUser(c, login)

MemoryNext ==
  \E c \in Callers :
    \/ InsertRow(c)
    \/ \E w \in Tenants : InsertScopedRow(c, w)
    \/ UpdateRow(c)
    \/ Begin(c) \/ Commit(c) \/ Rollback(c)

MemorySpec == MemoryInit /\ [][MemoryNext]_memoryVars

-----------------------------------------------------------------------------
(* Properties.                                                             *)

MemoryTypeOK ==
  /\ UniqueIn(db)
  /\ \A c \in Callers : Cardinality(checkpoint[c]) <= 1
  /\ overlapped \in BOOLEAN
  /\ calls \in 0 .. MaxCalls

\* A roll back puts back every map, the reserved slots and the snapshot order
\* too: however transactions overlap, the maps agree with each other, and when
\* they do not overlap nothing of a rolled back transaction remains and
\* nothing else is lost.  (withTransaction, memory-store.ts:699-707)
RollbackIsWhole ==
  /\ ConsistentIn(db)
  /\ ~overlapped /\ (\A c \in Callers : ~InTransaction(c)) => db = settled
=============================================================================
