-------------------------- MODULE OkfDelivery_proofs --------------------------
(***************************************************************************)
(* What is proved of the delivery of bundles, for any rivals, targets,     *)
(* settings and mishaps: nothing is left behind, and the delivery          *)
(* implements BundleMirror.                                                *)
(***************************************************************************)
EXTENDS OkfDelivery, FiniteSetTheorems, SequenceTheorems, TLAPS

-----------------------------------------------------------------------------
(* What the branch of a target holds.                                      *)

\* What is left of the configured targets is their tail, and only workspaces of the
\* targets before it have a record in this sweep.
PushShape ==
  /\ DOMAIN push = {"phase", "todo", "recorded", "unread", "input", "files", "deletions",
                    "behind"}
  /\ push.todo \in Seq(Targets)
  /\ push.phase = "idle" <=> push.todo = <<>>
  /\ Len(push.todo) <= Len(configured)
  /\ \A i \in 1 .. Len(push.todo) :
        push.todo[i] = configured[Len(configured) - Len(push.todo) + i]
  /\ \A w \in push.recorded :
        \E j \in 1 .. Len(configured) - Len(push.todo) : w = TargetOf[configured[j]]

RepoShape ==
  /\ configured \in Settings
  /\ DOMAIN latest = Owners
  /\ DOMAIN repo = Targets /\ DOMAIN late = Targets /\ DOMAIN lost = Targets
  /\ \A t \in Targets : DOMAIN repo[t] = {"made", "branch", "base"}

\* The paths of a request that was given up are lost.
LateAreLost ==
  \A t \in Targets : \A change \in late[t] : DOMAIN change.files \subseteq lost[t]

\* A push deletes what the manifest it will replace has and its bundle has not.
DeletionsPlanned ==
  \A t \in Targets :
     Sole(t) /\ (At(t, "publishing") \/ At(t, "pushing")) =>
       Removed(TargetOf[t], push.files) \subseteq push.deletions

\* As long as the tip is the one a push is built on, there is a branch.
TipStands ==
  \A t \in Targets : At(t, "pushing") /\ ~push.behind => repo[t].made

\* What the branch of a target that is alone holds, once the push is accepted: its bundle.
ListedIn(t) ==
  IF At(t, "pulling") \/ At(t, "accepted") THEN DOMAIN push.files ELSE DOMAIN latest[TargetOf[t]]

BranchIsListed ==
  \A t \in Targets : Sole(t) => DOMAIN Visible(t) \subseteq ListedIn(t) \cup lost[t]

\* The inductive invariant of the delivery.
SweepInv ==
  PushShape /\ RepoShape /\ LateAreLost /\ DeletionsPlanned /\ TipStands /\ BranchIsListed

LEMMA SweepStart == OkfInit => SweepInv
<1> SUFFICES ASSUME OkfInit PROVE SweepInv
  OBVIOUS
<1>1. configured \in Seq(Targets) /\ Len(configured) \in Nat
  BY OkfAssumption, LenProperties DEF OkfInit
<1>2. Idle.phase = "idle" /\ Idle.todo = <<>> /\ Idle.recorded = {}
      /\ DOMAIN Idle = {"phase", "todo", "recorded", "unread", "input", "files",
                        "deletions", "behind"}
  BY DEF Idle
<1>3. PushShape
  BY <1>1, <1>2 DEF OkfInit, PushShape
<1>4. RepoShape
  BY DEF OkfInit, RepoShape
<1>5. LateAreLost
  BY DEF OkfInit, LateAreLost
<1>6. DeletionsPlanned /\ TipStands
  BY <1>2 DEF OkfInit, DeletionsPlanned, TipStands, At
<1>7. DOMAIN NoFiles = {}
  BY DEF NoFiles
<1>8. \A t \in Targets : Visible(t) = NoFiles
  BY DEF OkfInit, Visible
<1>9. BranchIsListed
  BY <1>7, <1>8 DEF BranchIsListed
<1>10. QED
  BY <1>3, <1>4, <1>5, <1>6, <1>9 DEF SweepInv

\* The target a push is for is a configured one, and the head of what is left.
LEMMA HeadIsConfigured ==
  ASSUME PushShape, RepoShape, NEW t, push.phase # "idle", t = Head(push.todo)
  PROVE  /\ t \in Targets /\ Len(push.todo) \in Nat \ {0} /\ Len(configured) \in Nat
         /\ DOMAIN configured = 1 .. Len(configured)
         /\ Len(configured) - Len(push.todo) + 1 \in DOMAIN configured
         /\ t = configured[Len(configured) - Len(push.todo) + 1]
<1>1. push.todo \in Seq(Targets) /\ push.todo # <<>>
  BY DEF PushShape
<1>2. Len(push.todo) \in Nat \ {0} /\ Head(push.todo) = push.todo[1] /\ push.todo[1] \in Targets
  BY <1>1
<1>3. configured \in Seq(Targets) /\ Len(configured) \in Nat
      /\ DOMAIN configured = 1 .. Len(configured)
  BY OkfAssumption, LenProperties DEF RepoShape
<1>4. push.todo[1] = configured[Len(configured) - Len(push.todo) + 1]
  BY <1>2 DEF PushShape
<1>5. Len(push.todo) <= Len(configured)
  BY DEF PushShape
<1>6. \A n, m \in Nat : m # 0 /\ m <= n => n - m + 1 \in 1 .. n
  OBVIOUS
<1>7. Len(configured) - Len(push.todo) + 1 \in DOMAIN configured
  BY <1>2, <1>3, <1>5, <1>6
<1>8. QED
  BY <1>2, <1>3, <1>4, <1>7

\* The phase changes, the place in the list does not.
LEMMA PlaceKept ==
  ASSUME PushShape, configured' = configured, DOMAIN push' = DOMAIN push,
         push'.todo = push.todo, push'.recorded = push.recorded,
         push.phase # "idle", push'.phase # "idle"
  PROVE  PushShape'
BY DEF PushShape

\* The loop goes on, and the target it leaves may have a record.
LEMMA PlaceMovesOn ==
  ASSUME PushShape, RepoShape, configured' = configured, push.phase # "idle",
         DOMAIN push' = DOMAIN Idle, push'.todo = Tail(push.todo),
         push'.phase = IF Tail(push.todo) = <<>> THEN "idle" ELSE "listing",
         push'.recorded \subseteq push.recorded \cup {TargetOf[Head(push.todo)]}
  PROVE  PushShape' /\ push'.phase \in {"idle", "listing"}
<1>1. push.todo \in Seq(Targets) /\ push.todo # <<>> /\ Len(push.todo) \in Nat
  BY DEF PushShape
<1>2. /\ Tail(push.todo) \in Seq(Targets) /\ Len(Tail(push.todo)) = Len(push.todo) - 1
      /\ \A i \in 1 .. Len(push.todo) - 1 : Tail(push.todo)[i] = push.todo[i + 1]
  BY <1>1
<1>3. DOMAIN push' = {"phase", "todo", "recorded", "unread", "input", "files", "deletions",
                      "behind"}
  BY DEF Idle
<1>4. Len(configured) \in Nat
  BY OkfAssumption, LenProperties DEF RepoShape
<1>5. PICK rest : rest = push'.todo
  OBVIOUS
<1>6. /\ rest \in Seq(Targets) /\ Len(rest) = Len(push.todo) - 1
      /\ \A i \in 1 .. Len(rest) : rest[i] = push.todo[i + 1]
  BY <1>2, <1>5
<1>7. \A i \in 1 .. Len(rest) : rest[i] = configured[Len(configured) - Len(rest) + i]
  <2> SUFFICES ASSUME NEW i \in 1 .. Len(rest)
               PROVE  rest[i] = configured[Len(configured) - Len(rest) + i]
    OBVIOUS
  <2>1. i + 1 \in 1 .. Len(push.todo)
    BY <1>1, <1>6
  <2>2. push.todo[i + 1] = configured[Len(configured) - Len(push.todo) + (i + 1)]
    BY <2>1 DEF PushShape
  <2>3. Len(configured) - Len(push.todo) + (i + 1) = Len(configured) - Len(rest) + i
    BY <1>1, <1>4, <1>6
  <2>4. QED
    BY <1>6, <2>2, <2>3
<1>8. Len(rest) <= Len(configured)
  BY <1>1, <1>4, <1>6 DEF PushShape
<1>9. ASSUME NEW w \in push'.recorded
      PROVE  \E j \in 1 .. Len(configured) - Len(rest) : w = TargetOf[configured[j]]
  <2>1. \A n, m \in Nat : \A j \in 1 .. n - m : j \in 1 .. n - (m - 1)
    OBVIOUS
  <2>2. Len(rest) = Len(push.todo) - 1
    BY <1>6
  <2>3. \A j \in 1 .. Len(configured) - Len(push.todo) :
          j \in 1 .. Len(configured) - Len(rest)
    BY <1>1, <1>4, <2>1, <2>2
  <2>4. CASE w \in push.recorded
    BY <2>3, <2>4 DEF PushShape
  <2>5. CASE w = TargetOf[Head(push.todo)]
    <3>1. PICK t : t = Head(push.todo)
      OBVIOUS
    <3>2. /\ t = configured[Len(configured) - Len(push.todo) + 1]
          /\ Len(push.todo) \in Nat \ {0}
          /\ Len(configured) - Len(push.todo) + 1 \in 1 .. Len(configured)
      BY <3>1, HeadIsConfigured
    <3>3. \A n, m \in Nat : n - m + 1 \in 1 .. n => n - m + 1 \in 1 .. n - (m - 1)
      OBVIOUS
    <3>4. Len(configured) - Len(push.todo) + 1 \in 1 .. Len(configured) - Len(rest)
      BY <1>1, <1>4, <2>2, <3>2, <3>3
    <3>5. QED
      BY <2>5, <3>1, <3>2, <3>4
  <2>6. QED
    BY <2>4, <2>5
<1>10. QED
  BY <1>3, <1>5, <1>6, <1>7, <1>8, <1>9 DEF PushShape

LEMMA PlaceAdvances ==
  ASSUME PushShape, RepoShape, configured' = configured, push.phase # "idle",
         push' = Advanced
  PROVE  PushShape' /\ push'.phase \in {"idle", "listing"}
<1>1. /\ DOMAIN push' = DOMAIN Idle
      /\ push'.todo = Tail(push.todo) /\ push'.recorded = push.recorded
      /\ push'.phase = IF Tail(push.todo) = <<>> THEN "idle" ELSE "listing"
  BY DEF Advanced, Idle
<1>2. QED
  BY <1>1, PlaceMovesOn

\* A push that goes on deletes what it has planned to.
LEMMA PlanKept ==
  ASSUME DeletionsPlanned, configured' = configured, latest' = latest,
         push'.phase \in {"publishing", "pushing"} =>
           /\ push.phase \in {"publishing", "pushing"}
           /\ push'.todo = push.todo /\ push'.files = push.files
           /\ push'.deletions = push.deletions
  PROVE  DeletionsPlanned'
BY DEF DeletionsPlanned, At, Sole, Removed

\* Nothing but a move of the tip takes a branch away.
LEMMA TipKept ==
  ASSUME TipStands, \A t \in Targets : repo[t].made => repo'[t].made,
         push'.phase = "pushing" =>
           push.phase = "pushing" /\ push'.todo = push.todo /\ push'.behind = push.behind
  PROVE  TipStands'
BY DEF TipStands, At

\* A step that records nothing and adds nothing to what a branch shows.
LEMMA QuietStep ==
  ASSUME BranchIsListed, configured' = configured, latest' = latest,
         \A t \in Targets : /\ lost[t] \subseteq lost'[t]
                            /\ DOMAIN Visible(t)' \subseteq DOMAIN Visible(t),
         push'.phase \in {"pulling", "accepted"} =>
           /\ push.phase \in {"pulling", "accepted"}
           /\ push'.todo = push.todo /\ push'.files = push.files,
         push.phase \in {"pulling", "accepted"} =>
           \/ push'.phase \in {"pulling", "accepted"}
           \/ \A t \in Targets : t = Head(push.todo) => DOMAIN push.files \subseteq lost'[t]
  PROVE  BranchIsListed'
<1> SUFFICES ASSUME NEW t \in Targets, Sole(t)'
             PROVE  (DOMAIN Visible(t))' \subseteq (ListedIn(t) \cup lost[t])'
  BY DEF BranchIsListed
<1>1. Sole(t)
  BY DEF Sole
<1>2. DOMAIN Visible(t) \subseteq ListedIn(t) \cup lost[t]
  BY <1>1 DEF BranchIsListed
<1>3. ListedIn(t) \subseteq ListedIn(t)' \cup lost'[t]
  <2>1. CASE t = Head(push.todo) /\ push.phase \in {"pulling", "accepted"}
    BY <2>1 DEF ListedIn, At
  <2>2. CASE ~(t = Head(push.todo) /\ push.phase \in {"pulling", "accepted"})
    BY <2>2 DEF ListedIn, At
  <2>3. QED
    BY <2>1, <2>2
<1>4. QED
  BY <1>2, <1>3

\* What is under way at the place of the target that a step is for.
LEMMA AtHead ==
  ASSUME PushShape, RepoShape, NEW t, NEW phase, At(t, phase), phase # "idle"
  PROVE  push.phase = phase /\ t = Head(push.todo) /\ t \in Targets
BY HeadIsConfigured DEF At

LEMMA TipIsMoved ==
  ASSUME PushShape, RepoShape, LateAreLost, NEW t \in Targets, TipMoves(t),
         configured' = configured, lost' = lost
  PROVE  /\ PushShape' /\ LateAreLost' /\ DOMAIN late' = Targets
         /\ push'.phase = push.phase /\ push'.todo = push.todo /\ push'.files = push.files
         /\ push'.deletions = push.deletions
         /\ push'.behind = push.behind \/ push'.behind
         /\ At(t, "pushing") => push'.behind
<1>1. late' = [late EXCEPT ![t] = {}]
      /\ push' = IF At(t, "pushing") THEN [push EXCEPT !.behind = TRUE] ELSE push
  BY DEF TipMoves
<1>2. /\ DOMAIN push' = DOMAIN push /\ push'.phase = push.phase /\ push'.todo = push.todo
      /\ push'.recorded = push.recorded /\ push'.files = push.files
      /\ push'.deletions = push.deletions
  BY <1>1
<1>b. (push'.behind = push.behind \/ push'.behind) /\ (At(t, "pushing") => push'.behind)
  BY <1>1 DEF PushShape
<1>3. PushShape'
  BY <1>2 DEF PushShape
<1>4. DOMAIN late' = Targets /\ \A u \in Targets : late'[u] \subseteq late[u]
  BY <1>1 DEF RepoShape
<1>5. LateAreLost'
  BY <1>4 DEF LateAreLost
<1>6. QED
  BY <1>2, <1>b, <1>3, <1>4, <1>5

\* External steps.
LEMMA OthersKeep ==
  ASSUME SweepInv,
         \/ \E r \in Joining : InsertRival(r)
         \/ \E draft \in Drafts : WriteSection(draft[1], draft[2], draft[3])
         \/ \E t \in Targets : ForeignPush(t) \/ MergePullRequest(t) \/ DeleteBranch(t)
  PROVE  SweepInv'
<1>i. /\ PushShape /\ RepoShape /\ LateAreLost /\ DeletionsPlanned
      /\ TipStands /\ BranchIsListed
  BY DEF SweepInv
<1>c. configured' = configured /\ latest' = latest /\ lost' = lost
  BY DEF InsertRival, WriteSection, ForeignPush, MergePullRequest, DeleteBranch, store
<1>1. /\ PushShape' /\ LateAreLost' /\ DOMAIN late' = Targets
      /\ push'.phase = push.phase /\ push'.todo = push.todo /\ push'.files = push.files
      /\ push'.deletions = push.deletions
  <2>1. CASE UNCHANGED <<push, late>>
    <3>1. push' = push /\ late' = late
      BY <2>1
    <3>2. PushShape' /\ LateAreLost'
      BY <1>i, <1>c, <3>1 DEF PushShape, LateAreLost
    <3>3. QED
      BY <1>i, <3>1, <3>2 DEF RepoShape
  <2>2. CASE \E t \in Targets : TipMoves(t)
    BY <2>2, <1>i, <1>c, TipIsMoved
  <2>3. QED
    BY <2>1, <2>2 DEF InsertRival, WriteSection, ForeignPush, MergePullRequest, DeleteBranch
<1>2. /\ DOMAIN repo' = Targets
      /\ \A t \in Targets : DOMAIN repo'[t] = {"made", "branch", "base"}
      /\ \A t \in Targets : Visible(t)' = Visible(t)
  <2>1. CASE repo' = repo
    BY <2>1, <1>i DEF RepoShape, Visible
  <2>2. ASSUME NEW t \in Targets, MergePullRequest(t)
        PROVE  /\ DOMAIN repo' = Targets
               /\ \A u \in Targets : DOMAIN repo'[u] = {"made", "branch", "base"}
               /\ \A u \in Targets : Visible(u)' = Visible(u)
    <3>1. repo[t].made /\ repo' = [repo EXCEPT ![t].base = repo[t].branch]
      BY <2>2 DEF MergePullRequest
    <3>2. /\ DOMAIN repo' = Targets
          /\ repo'[t] = [repo[t] EXCEPT !.base = repo[t].branch]
          /\ \A u \in Targets \ {t} : repo'[u] = repo[u]
      BY <3>1, <1>i DEF RepoShape
    <3>3. QED
      BY <3>1, <3>2, <1>i DEF RepoShape, Visible
  <2>3. ASSUME NEW t \in Targets, DeleteBranch(t)
        PROVE  /\ DOMAIN repo' = Targets
               /\ \A u \in Targets : DOMAIN repo'[u] = {"made", "branch", "base"}
               /\ \A u \in Targets : Visible(u)' = Visible(u)
    <3>1. /\ repo[t].made /\ repo[t].base = repo[t].branch
          /\ repo' = [repo EXCEPT ![t].made = FALSE, ![t].branch = NoFiles]
      BY <2>3 DEF DeleteBranch
    <3>2. /\ DOMAIN repo' = Targets
          /\ repo'[t] = [repo[t] EXCEPT !.made = FALSE, !.branch = NoFiles]
          /\ \A u \in Targets \ {t} : repo'[u] = repo[u]
      BY <3>1, <1>i DEF RepoShape
    <3>3. /\ DOMAIN repo'[t] = {"made", "branch", "base"} /\ ~repo'[t].made
          /\ repo'[t].base = repo[t].base
      BY <3>2, <1>i DEF RepoShape
    <3>4. QED
      BY <3>1, <3>2, <3>3, <1>i DEF RepoShape, Visible
  <2>4. QED
    BY <2>1, <2>2, <2>3 DEF InsertRival, WriteSection, ForeignPush
<1>3. RepoShape'
  BY <1>i, <1>c, <1>1, <1>2 DEF RepoShape
<1>4. DeletionsPlanned'
  BY <1>i, <1>c, <1>1, PlanKept
<1>5. BranchIsListed'
  <2>1. \A t \in Targets : /\ lost[t] \subseteq lost'[t]
                            /\ DOMAIN Visible(t)' \subseteq DOMAIN Visible(t)
    BY <1>c, <1>2
  <2>2. QED
    BY <1>i, <1>c, <1>1, <2>1, QuietStep
<1>6. TipStands'
  <2>1. CASE push' = push /\ \A u \in Targets : repo'[u].made = repo[u].made
    BY <2>1, <1>i, TipKept
  <2>2. ASSUME NEW t \in Targets, TipMoves(t),
               \A u \in Targets \ {t} : repo'[u].made = repo[u].made
        PROVE  TipStands'
    <3>1. /\ push'.phase = push.phase /\ push'.todo = push.todo
          /\ push'.behind = push.behind \/ push'.behind
          /\ At(t, "pushing") => push'.behind
      BY <2>2, <1>i, <1>c, TipIsMoved
    <3>2. QED
      BY <2>2, <3>1, <1>i DEF TipStands, At
  <2>3. ASSUME NEW t \in Targets, MergePullRequest(t)
        PROVE  push' = push /\ \A u \in Targets : repo'[u].made = repo[u].made
    <3>1. push' = push /\ repo' = [repo EXCEPT ![t].base = repo[t].branch]
      BY <2>3 DEF MergePullRequest
    <3>2. /\ repo'[t] = [repo[t] EXCEPT !.base = repo[t].branch]
          /\ \A u \in Targets \ {t} : repo'[u] = repo[u]
      BY <3>1, <1>i DEF RepoShape
    <3>3. QED
      BY <3>1, <3>2, <1>i DEF RepoShape
  <2>4. ASSUME NEW t \in Targets, ForeignPush(t) \/ DeleteBranch(t)
        PROVE  TipMoves(t) /\ \A u \in Targets \ {t} : repo'[u].made = repo[u].made
    BY <2>4, <1>i DEF ForeignPush, DeleteBranch, RepoShape
  <2>5. (\E r \in Joining : InsertRival(r))
          \/ (\E draft \in Drafts : WriteSection(draft[1], draft[2], draft[3])) =>
        push' = push /\ \A u \in Targets : repo'[u].made = repo[u].made
    BY DEF InsertRival, WriteSection
  <2>6. QED
    BY <2>1, <2>2, <2>3, <2>4, <2>5
<1>7. QED
  BY <1>1, <1>3, <1>4, <1>5, <1>6 DEF SweepInv

\* Steps of the sweep that only change what it is doing.
LEMMA SweepsKeep ==
  ASSUME SweepInv, NEW t \in Targets,
         \/ StartSweep
         \/ ListCompetitors(t) \/ (\E r \in Rivals, kinds \in {Dossier, Battlecard} :
                                     ReadSections(t, r, kinds))
         \/ ProjectionThrows(t) \/ Block(t) \/ PlanDelivery(t)
         \/ CallFails(t) \/ EnsurePullRequest(t) \/ RecordFailedAttempt(t)
  PROVE  SweepInv'
<1>i. /\ PushShape /\ RepoShape /\ LateAreLost /\ DeletionsPlanned
      /\ TipStands /\ BranchIsListed
  BY DEF SweepInv
<1>c. /\ configured' = configured /\ latest' = latest /\ lost' = lost /\ late' = late
      /\ repo' = repo
  BY DEF StartSweep, ListCompetitors, ReadSections, ProjectionThrows, Block, PlanDelivery,
         CallFails, EnsurePullRequest, RecordFailedAttempt, store
<1>1. RepoShape' /\ LateAreLost'
  BY <1>i, <1>c DEF RepoShape, LateAreLost
<1>2. \A u \in Targets : /\ lost[u] \subseteq lost'[u]
                          /\ DOMAIN Visible(u)' \subseteq DOMAIN Visible(u)
  BY <1>c DEF Visible
<1>t. push'.phase # "pushing" => TipStands'
  BY DEF TipStands, At
<1>3. ASSUME PushShape', push'.phase \notin {"publishing", "pushing", "pulling", "accepted"},
             push.phase \notin {"pulling", "accepted"}
      PROVE  SweepInv'
  BY <1>i, <1>c, <1>1, <1>2, <1>t, <1>3, PlanKept, QuietStep DEF SweepInv
<1>4. CASE StartSweep
  <2>1. /\ push.phase = "idle" /\ DOMAIN push' = DOMAIN Idle /\ push'.phase = "listing"
        /\ push'.todo = configured /\ push'.recorded = {}
    BY <1>4 DEF StartSweep, Idle
  <2>2. configured \in Seq(Targets) /\ configured # <<>> /\ Len(configured) \in Nat
    BY <1>i, OkfAssumption, LenProperties DEF RepoShape
  <2>3. \A i \in 1 .. Len(configured) :
          configured[i] = configured[Len(configured) - Len(configured) + i]
    BY <2>2
  <2>4. PushShape'
    BY <1>c, <2>1, <2>2, <2>3 DEF PushShape, Idle
  <2>5. QED
    BY <2>1, <2>4, <1>3
<1>5. CASE /\ push' = Advanced
           /\ push.phase \notin {"idle", "pulling", "accepted"}
  BY <1>5, <1>3, <1>i, <1>c, PlaceAdvances
<1>6. CASE /\ DOMAIN push' = DOMAIN push /\ push'.todo = push.todo
           /\ push'.recorded = push.recorded
           /\ push'.phase \in {"loading", "failed"}
           /\ push.phase \notin {"idle", "pulling", "accepted"}
  BY <1>6, <1>3, <1>i, <1>c, PlaceKept
<1>7. CASE ListCompetitors(t) \/ (\E r \in Rivals, kinds \in {Dossier, Battlecard} :
                                     ReadSections(t, r, kinds))
  <2>1. CASE ListCompetitors(t)
    BY <2>1, <1>i, <1>6 DEF ListCompetitors, At, PushShape
  <2>2. CASE \E r \in Rivals, kinds \in {Dossier, Battlecard} : ReadSections(t, r, kinds)
    BY <2>2, <1>i, <1>6 DEF ReadSections, At, PushShape
  <2>3. QED
    BY <1>7, <2>1, <2>2
<1>8. CASE Block(t) \/ CallFails(t)
  BY <1>8, <1>i, <1>6 DEF Block, CallFails, Loaded, At, PushShape
<1>9. CASE ProjectionThrows(t) \/ RecordFailedAttempt(t)
  BY <1>9, <1>5 DEF ProjectionThrows, RecordFailedAttempt, Loaded, At
<1>10. CASE PlanDelivery(t)
  <2>1. push.phase = "loading" /\ t = Head(push.todo)
    BY <1>10 DEF PlanDelivery, Loaded, At
  <2>2. PICK files : \/ push' = Advanced
                     \/ push' = [push EXCEPT !.phase = "publishing", !.files = files,
                                             !.deletions = Removed(TargetOf[t], files)]
    BY <1>10 DEF PlanDelivery
  <2>3. CASE push' = [push EXCEPT !.phase = "publishing", !.files = files,
                                  !.deletions = Removed(TargetOf[t], files)]
    <3>1. /\ DOMAIN push' = DOMAIN push /\ push'.todo = push.todo
          /\ push'.recorded = push.recorded /\ push'.phase = "publishing"
          /\ push'.files = files /\ push'.deletions = Removed(TargetOf[t], files)
      BY <2>3, <1>i DEF PushShape
    <3>2. PushShape'
      BY <3>1, <2>1, <1>i, <1>c, PlaceKept
    <3>3. DeletionsPlanned'
      BY <3>1, <2>1, <1>c DEF DeletionsPlanned, At, Removed
    <3>4. BranchIsListed'
      BY <3>1, <2>1, <1>i, <1>c, <1>2, QuietStep
    <3>5. QED
      BY <1>1, <1>t, <3>1, <3>2, <3>3, <3>4 DEF SweepInv
  <2>4. QED
    BY <2>1, <2>2, <2>3, <1>5
<1>11. CASE EnsurePullRequest(t)
  <2>1. /\ push.phase = "pulling" /\ DOMAIN push' = DOMAIN push /\ push'.todo = push.todo
        /\ push'.recorded = push.recorded /\ push'.phase = "accepted"
        /\ push'.files = push.files
    BY <1>11, <1>i DEF EnsurePullRequest, At, PushShape
  <2>2. PushShape'
    BY <2>1, <1>i, <1>c, PlaceKept
  <2>3. DeletionsPlanned'
    BY <2>1, <1>i, <1>c, PlanKept
  <2>4. BranchIsListed'
    BY <2>1, <1>i, <1>c, <1>2, QuietStep
  <2>5. QED
    BY <1>1, <1>t, <2>1, <2>2, <2>3, <2>4 DEF SweepInv
<1>12. QED
  BY <1>4, <1>7, <1>8, <1>9, <1>10, <1>11

\* The branch a push is built on is there when its tip has been read.
LEMMA HeadIsResolved ==
  ASSUME SweepInv, NEW t \in Targets, ResolveHead(t)
  PROVE  SweepInv'
<1>i. /\ PushShape /\ RepoShape /\ LateAreLost /\ DeletionsPlanned
      /\ TipStands /\ BranchIsListed
  BY DEF SweepInv
<1>1. /\ configured' = configured /\ latest' = latest /\ lost' = lost /\ late' = late
      /\ push.phase = "publishing" /\ t = Head(push.todo)
      /\ push' = [push EXCEPT !.phase = "pushing"]
      /\ repo' = IF repo[t].made THEN repo
                 ELSE [repo EXCEPT ![t].made = TRUE, ![t].branch = repo[t].base]
  BY DEF ResolveHead, store, At
<1>2. /\ DOMAIN push' = DOMAIN push /\ push'.todo = push.todo
      /\ push'.recorded = push.recorded /\ push'.phase = "pushing"
      /\ push'.files = push.files /\ push'.deletions = push.deletions
  BY <1>1, <1>i DEF PushShape
<1>3. PushShape'
  BY <1>1, <1>2, <1>i, PlaceKept
<1>4. /\ DOMAIN repo' = Targets
      /\ \A u \in Targets : DOMAIN repo'[u] = {"made", "branch", "base"}
      /\ \A u \in Targets : Visible(u)' = Visible(u)
      /\ repo'[t].made
  <2>1. CASE repo[t].made
    BY <2>1, <1>1, <1>i DEF RepoShape, Visible
  <2>2. CASE ~repo[t].made
    <3>1. /\ DOMAIN repo' = Targets
          /\ repo'[t] = [repo[t] EXCEPT !.made = TRUE, !.branch = repo[t].base]
          /\ \A u \in Targets \ {t} : repo'[u] = repo[u]
      BY <2>2, <1>1, <1>i DEF RepoShape
    <3>2. /\ DOMAIN repo'[t] = {"made", "branch", "base"} /\ repo'[t].made
          /\ repo'[t].branch = repo[t].base
      BY <3>1, <1>i DEF RepoShape
    <3>3. QED
      BY <2>2, <3>1, <3>2, <1>i DEF RepoShape, Visible
  <2>3. QED
    BY <2>1, <2>2
<1>5. RepoShape' /\ LateAreLost'
  BY <1>1, <1>4, <1>i DEF RepoShape, LateAreLost
<1>6. DeletionsPlanned'
  BY <1>1, <1>2, <1>i, PlanKept
<1>7. BranchIsListed'
  <2>1. \A u \in Targets : /\ lost[u] \subseteq lost'[u]
                            /\ DOMAIN Visible(u)' \subseteq DOMAIN Visible(u)
    BY <1>1, <1>4
  <2>2. QED
    BY <1>1, <1>2, <1>i, <2>1, QuietStep
<1>8. TipStands'
  BY <1>1, <1>2, <1>4 DEF TipStands, At
<1>9. QED
  BY <1>3, <1>5, <1>6, <1>7, <1>8 DEF SweepInv

\* What a commit makes of the tree it is built on.
LEMMA OntoPaths ==
  ASSUME NEW tree, NEW change
  PROVE  DOMAIN Onto(tree, change) = (DOMAIN tree \cup DOMAIN change.files) \ change.deletions
BY DEF Onto

\* The branch of t takes a commit.
LEMMA BranchMoves ==
  ASSUME RepoShape, NEW t \in Targets, NEW change,
         repo' = [repo EXCEPT ![t].branch = Onto(repo[t].branch, change)]
  PROVE  /\ DOMAIN repo' = Targets
         /\ \A u \in Targets : DOMAIN repo'[u] = {"made", "branch", "base"}
         /\ \A u \in Targets : repo'[u].made = repo[u].made
         /\ DOMAIN Visible(t)' =
              IF repo[t].made
              THEN (DOMAIN Visible(t) \cup DOMAIN change.files) \ change.deletions
              ELSE DOMAIN Visible(t)
         /\ \A u \in Targets \ {t} : Visible(u)' = Visible(u)
<1> DEFINE tree == Onto(repo[t].branch, change)
<1>1. DOMAIN tree = (DOMAIN repo[t].branch \cup DOMAIN change.files) \ change.deletions
  BY OntoPaths
<1> HIDE DEF tree
<1>2. repo' = [repo EXCEPT ![t].branch = tree]
  BY DEF tree
<1>3. /\ DOMAIN repo' = Targets /\ repo'[t] = [repo[t] EXCEPT !.branch = tree]
      /\ \A u \in Targets \ {t} : repo'[u] = repo[u]
  BY <1>2 DEF RepoShape
<1>4. /\ DOMAIN repo'[t] = {"made", "branch", "base"} /\ repo'[t].made = repo[t].made
      /\ repo'[t].branch = tree /\ repo'[t].base = repo[t].base
  BY <1>3 DEF RepoShape
<1>5. QED
  BY <1>1, <1>3, <1>4 DEF RepoShape, Visible

\* The attempt fails: its files are not lost, for they never were on the branch, or they are
\* counted as lost.
LEMMA AttemptEnds ==
  ASSUME SweepInv, NEW t \in Targets,
         \/ TimeOut(t) \/ PullRequestFails(t) \/ RecordFails(t) \/ Crash(t)
  PROVE  SweepInv'
<1>i. /\ PushShape /\ RepoShape /\ LateAreLost /\ DeletionsPlanned
      /\ TipStands /\ BranchIsListed
  BY DEF SweepInv
<1>c. configured' = configured /\ latest' = latest /\ repo' = repo
  BY DEF TimeOut, PullRequestFails, RecordFails, Crash, store
<1>1. push.phase # "idle" /\ t = Head(push.todo)
  BY DEF TimeOut, PullRequestFails, RecordFails, Crash, At
<1>2. PushShape' /\ push'.phase \in {"idle", "listing", "failed"}
  <2>1. CASE TimeOut(t) \/ PullRequestFails(t)
    <3>1. push' = [push EXCEPT !.phase = "failed"]
      BY <2>1 DEF TimeOut, PullRequestFails
    <3>2. /\ DOMAIN push' = DOMAIN push /\ push'.todo = push.todo
          /\ push'.recorded = push.recorded /\ push'.phase = "failed"
      BY <3>1, <1>i DEF PushShape
    <3>3. QED
      BY <3>2, <1>i, <1>c, <1>1, PlaceKept
  <2>2. CASE RecordFails(t)
    <3>1. push' = Advanced
      BY <2>2 DEF RecordFails
    <3>2. QED
      BY <3>1, <1>i, <1>c, <1>1, PlaceAdvances
  <2>3. CASE Crash(t)
    <3>1. push' = Idle
      BY <2>3 DEF Crash
    <3>2. /\ Idle.phase = "idle" /\ Idle.todo = <<>> /\ Idle.recorded = {}
          /\ DOMAIN Idle = {"phase", "todo", "recorded", "unread", "input", "files",
                            "deletions", "behind"}
      BY DEF Idle
    <3>3. Len(configured) \in Nat
      BY <1>i, OkfAssumption, LenProperties DEF RepoShape
    <3>4. QED
      BY <1>c, <3>1, <3>2, <3>3 DEF PushShape
  <2>4. QED
    BY <2>1, <2>2, <2>3
<1>3. /\ DOMAIN late' = Targets /\ DOMAIN lost' = Targets
      /\ \A u \in Targets : lost[u] \subseteq lost'[u]
      /\ \A u \in Targets : u # t => late'[u] = late[u]
      /\ push.phase \in {"pulling", "accepted"} => DOMAIN push.files \subseteq lost'[t]
      /\ \/ late'[t] = late[t]
         \/ late'[t] = late[t] \cup {Change} /\ DOMAIN push.files \subseteq lost'[t]
  <2>1. CASE TimeOut(t)
    BY <2>1, <1>i DEF TimeOut, RepoShape, At
  <2>2. CASE PullRequestFails(t) \/ RecordFails(t)
    BY <2>2, <1>i DEF PullRequestFails, RecordFails, RepoShape, At
  <2>3. CASE Crash(t)
    BY <2>3, <1>i DEF Crash, RepoShape
  <2>4. QED
    BY <2>1, <2>2, <2>3
<1>4. RepoShape'
  BY <1>c, <1>3, <1>i DEF RepoShape
<1>5. LateAreLost'
  <2>1. Change.files = push.files
    BY DEF Change
  <2>2. ASSUME NEW u \in Targets, NEW change \in late'[u]
        PROVE  DOMAIN change.files \subseteq lost'[u]
    <3>1. CASE change \in late[u]
      BY <3>1, <1>3, <1>i DEF LateAreLost
    <3>2. CASE change \notin late[u]
      <4>1. u = t /\ change = Change /\ DOMAIN push.files \subseteq lost'[t]
        BY <2>2, <3>2, <1>3
      <4>2. QED
        BY <4>1, <2>1
    <3>3. QED
      BY <3>1, <3>2
  <2>3. QED
    BY <2>2 DEF LateAreLost
<1>6. DeletionsPlanned'
  BY <1>c, <1>2, <1>i, PlanKept
<1>7. BranchIsListed'
  <2>1. \A u \in Targets : /\ lost[u] \subseteq lost'[u]
                            /\ DOMAIN Visible(u)' \subseteq DOMAIN Visible(u)
    BY <1>c, <1>3 DEF Visible
  <2>2. QED
    BY <1>c, <1>1, <1>2, <1>3, <1>i, <2>1, QuietStep
<1>8. TipStands'
  BY <1>2 DEF TipStands, At
<1>9. QED
  BY <1>2, <1>4, <1>5, <1>6, <1>7, <1>8 DEF SweepInv

\* The push is accepted: the branch holds the bundle, and what was lost.
LEMMA RefIsMoved ==
  ASSUME SweepInv, NEW t \in Targets, MoveRef(t)
  PROVE  SweepInv'
<1>i. /\ PushShape /\ RepoShape /\ LateAreLost /\ DeletionsPlanned
      /\ TipStands /\ BranchIsListed
  BY DEF SweepInv
<1>c. /\ configured' = configured /\ latest' = latest /\ lost' = lost
      /\ push.phase = "pushing" /\ t = Head(push.todo)
  BY DEF MoveRef, store, At
<1>1. PICK phase \in {"failed", "accepted", "pulling"} : push' = [push EXCEPT !.phase = phase]
  BY DEF MoveRef, Pushed
<1>2. /\ DOMAIN push' = DOMAIN push /\ push'.todo = push.todo
      /\ push'.recorded = push.recorded /\ push'.phase = phase
      /\ push'.files = push.files
  BY <1>1, <1>i DEF PushShape
<1>3. PushShape' /\ DeletionsPlanned' /\ TipStands'
  <2>1. PushShape'
    BY <1>c, <1>2, <1>i, PlaceKept
  <2>2. DeletionsPlanned' /\ TipStands'
    BY <1>2 DEF DeletionsPlanned, TipStands, At
  <2>3. QED
    BY <2>1, <2>2
<1>4. CASE push.behind
  <2>1. phase = "failed" /\ repo' = repo /\ late' = late
    <3>1. push'.phase = "failed" /\ repo' = repo /\ late' = late
      BY <1>4, <1>i DEF MoveRef, PushShape
    <3>2. QED
      BY <3>1, <1>2
  <2>2. RepoShape' /\ LateAreLost'
    BY <1>c, <2>1, <1>i DEF RepoShape, LateAreLost
  <2>3. \A u \in Targets : /\ lost[u] \subseteq lost'[u]
                            /\ DOMAIN Visible(u)' \subseteq DOMAIN Visible(u)
    BY <1>c, <2>1 DEF Visible
  <2>4. BranchIsListed'
    BY <1>c, <1>2, <2>1, <2>3, <1>i, QuietStep
  <2>5. QED
    BY <1>3, <2>2, <2>4 DEF SweepInv
<1>5. CASE ~push.behind
  <2>1. /\ phase \in {"accepted", "pulling"}
        /\ repo' = [repo EXCEPT ![t].branch = Onto(repo[t].branch, Change)]
        /\ late' = [late EXCEPT ![t] = {}]
    <3>1. push'.phase \in {"accepted", "pulling"}
      BY <1>5, <1>i DEF MoveRef, Pushed, PushShape
    <3>2. QED
      BY <1>5, <1>2, <3>1 DEF MoveRef
  <2>2. repo[t].made
    BY <1>5, <1>c, <1>i DEF TipStands, At
  <2>3. Change.files = push.files /\ Change.deletions = push.deletions
    BY DEF Change
  <2>4. /\ DOMAIN repo' = Targets
        /\ \A u \in Targets : DOMAIN repo'[u] = {"made", "branch", "base"}
        /\ DOMAIN Visible(t)' = (DOMAIN Visible(t) \cup DOMAIN push.files) \ push.deletions
        /\ \A u \in Targets \ {t} : Visible(u)' = Visible(u)
    <3>1. /\ DOMAIN repo' = Targets
          /\ \A u \in Targets : DOMAIN repo'[u] = {"made", "branch", "base"}
          /\ DOMAIN Visible(t)' =
               IF repo[t].made
               THEN (DOMAIN Visible(t) \cup DOMAIN Change.files) \ Change.deletions
               ELSE DOMAIN Visible(t)
          /\ \A u \in Targets \ {t} : Visible(u)' = Visible(u)
      BY <2>1, <1>i, BranchMoves
    <3>2. QED
      BY <2>2, <2>3, <3>1
  <2>5. DOMAIN late' = Targets /\ \A u \in Targets : late'[u] \subseteq late[u]
    BY <2>1, <1>i DEF RepoShape
  <2>6. RepoShape' /\ LateAreLost'
    BY <1>c, <2>4, <2>5, <1>i DEF RepoShape, LateAreLost
  <2>7. ASSUME NEW u \in Targets, Sole(u)'
        PROVE  (DOMAIN Visible(u))' \subseteq (ListedIn(u) \cup lost[u])'
    <3>1. Sole(u)
      BY <1>c, <2>7 DEF Sole
    <3>2. DOMAIN Visible(u) \subseteq DOMAIN latest[TargetOf[u]] \cup lost[u]
      BY <3>1, <1>c, <1>i DEF BranchIsListed, ListedIn, At
    <3>3. CASE u = t
      <4>1. Removed(TargetOf[t], push.files) \subseteq push.deletions
        BY <3>1, <3>3, <1>c, <1>i DEF DeletionsPlanned, At
      <4>2. ListedIn(t)' = DOMAIN push.files
        BY <1>c, <1>2, <2>1 DEF ListedIn, At
      <4>3. QED
        BY <3>2, <3>3, <4>1, <4>2, <2>4, <1>c DEF Removed
    <3>4. CASE u # t
      <4>1. ListedIn(u)' = DOMAIN latest[TargetOf[u]]
        BY <3>4, <1>c, <1>2 DEF ListedIn, At
      <4>2. QED
        BY <3>2, <3>4, <4>1, <2>4, <1>c
    <3>5. QED
      BY <3>3, <3>4
  <2>8. BranchIsListed'
    BY <2>7 DEF BranchIsListed
  <2>9. QED
    BY <1>3, <2>6, <2>8 DEF SweepInv
<1>6. QED
  BY <1>4, <1>5

\* A request that was given up is carried out: what it adds is lost already.
LEMMA RefIsMovedLate ==
  ASSUME SweepInv, NEW t \in Targets, NEW change \in late[t], LateMoveRef(t, change)
  PROVE  SweepInv'
<1>i. /\ PushShape /\ RepoShape /\ LateAreLost /\ DeletionsPlanned
      /\ TipStands /\ BranchIsListed
  BY DEF SweepInv
<1>c. /\ configured' = configured /\ latest' = latest /\ lost' = lost /\ TipMoves(t)
      /\ repo' = [repo EXCEPT ![t].branch = Onto(repo[t].branch, change)]
  BY DEF LateMoveRef, store
<1>1. /\ PushShape' /\ LateAreLost' /\ DOMAIN late' = Targets
      /\ push'.phase = push.phase /\ push'.todo = push.todo /\ push'.files = push.files
      /\ push'.deletions = push.deletions
      /\ push'.behind = push.behind \/ push'.behind
  BY <1>i, <1>c, TipIsMoved
<1>2. /\ DOMAIN repo' = Targets
      /\ \A u \in Targets : DOMAIN repo'[u] = {"made", "branch", "base"}
      /\ \A u \in Targets : repo'[u].made = repo[u].made
      /\ DOMAIN Visible(t)' \subseteq DOMAIN Visible(t) \cup DOMAIN change.files
      /\ \A u \in Targets \ {t} : Visible(u)' = Visible(u)
  BY <1>i, <1>c, BranchMoves
<1>3. RepoShape'
  BY <1>i, <1>c, <1>1, <1>2 DEF RepoShape
<1>4. DeletionsPlanned'
  BY <1>i, <1>c, <1>1, PlanKept
<1>5. TipStands'
  BY <1>i, <1>1, <1>2 DEF TipStands, At
<1>6. ASSUME NEW u \in Targets, Sole(u)'
      PROVE  (DOMAIN Visible(u))' \subseteq (ListedIn(u) \cup lost[u])'
  <2>1. Sole(u) /\ ListedIn(u)' = ListedIn(u)
    BY <1>c, <1>1, <1>6 DEF Sole, ListedIn, At
  <2>2. DOMAIN Visible(u) \subseteq ListedIn(u) \cup lost[u]
    BY <2>1, <1>i DEF BranchIsListed
  <2>3. DOMAIN change.files \subseteq lost[t]
    BY <1>i DEF LateAreLost
  <2>4. CASE u = t
    BY <2>1, <2>2, <2>3, <2>4, <1>2, <1>c
  <2>5. CASE u # t
    BY <2>1, <2>2, <2>5, <1>2, <1>c
  <2>6. QED
    BY <2>4, <2>5
<1>7. BranchIsListed'
  BY <1>6 DEF BranchIsListed
<1>8. QED
  BY <1>1, <1>3, <1>4, <1>5, <1>7 DEF SweepInv

\* The record is the workspace's first of the sweep when its target is alone.
LEMMA DeliveryIsRecorded ==
  ASSUME SweepInv, NEW t \in Targets, RecordPublished(t)
  PROVE  SweepInv'
<1>i. /\ PushShape /\ RepoShape /\ LateAreLost /\ DeletionsPlanned
      /\ TipStands /\ BranchIsListed
  BY DEF SweepInv
<1>c. /\ configured' = configured /\ repo' = repo /\ late' = late /\ lost' = lost
      /\ push.phase = "accepted" /\ t = Head(push.todo)
      /\ latest' \in LatestAfter(TargetOf[t], push.files)
  BY DEF RecordPublished, At
<1>h. /\ Len(push.todo) \in Nat \ {0} /\ Len(configured) \in Nat
      /\ DOMAIN configured = 1 .. Len(configured)
      /\ Len(configured) - Len(push.todo) + 1 \in DOMAIN configured
      /\ t = configured[Len(configured) - Len(push.todo) + 1]
  BY <1>i, <1>c, HeadIsConfigured
<1>1. PICK here : here = Len(configured) - Len(push.todo) + 1
  OBVIOUS
<1>2. here \in DOMAIN configured /\ t = configured[here]
  BY <1>h, <1>1
<1>3. DOMAIN latest' = Owners /\ \A w : w # TargetOf[t] => latest'[w] = latest[w]
  <2>1. CASE latest' = latest
    BY <2>1, <1>i DEF RepoShape
  <2>2. CASE latest' = [latest EXCEPT ![TargetOf[t]] = push.files]
    BY <2>2, <1>i DEF RepoShape
  <2>3. QED
    BY <1>c, <2>1, <2>2 DEF LatestAfter
<1>4. PushShape' /\ push'.phase \in {"idle", "listing"}
  <2> DEFINE more == IF Advanced.phase = "idle" THEN {} ELSE push.recorded \cup {TargetOf[t]}
  <2>1. push' = [Advanced EXCEPT !.recorded = more]
    BY DEF RecordPublished
  <2>2. more \subseteq push.recorded \cup {TargetOf[t]}
    OBVIOUS
  <2> HIDE DEF more
  <2>3. /\ DOMAIN push' = DOMAIN Idle
        /\ push'.todo = Tail(push.todo) /\ push'.recorded = more
        /\ push'.phase = IF Tail(push.todo) = <<>> THEN "idle" ELSE "listing"
    BY <2>1 DEF Advanced, Idle
  <2>4. QED
    BY <2>2, <2>3, <1>c, <1>i, PlaceMovesOn
<1>5. RepoShape' /\ LateAreLost'
  BY <1>c, <1>3, <1>i DEF RepoShape, LateAreLost
<1>6. DeletionsPlanned' /\ TipStands'
  BY <1>4 DEF DeletionsPlanned, TipStands, At
<1>7. ASSUME NEW u \in Targets, Sole(u)'
      PROVE  (DOMAIN Visible(u))' \subseteq (ListedIn(u) \cup lost[u])'
  <2>1. Sole(u) /\ ListedIn(u)' = DOMAIN latest'[TargetOf[u]] /\ Visible(u)' = Visible(u)
    BY <1>c, <1>4, <1>7 DEF Sole, ListedIn, At, Visible
  <2>2. DOMAIN Visible(u) \subseteq ListedIn(u) \cup lost[u]
    BY <2>1, <1>i DEF BranchIsListed
  <2>3. CASE u = t
    <3>1. TargetOf[t] \notin push.recorded
      <4>1. PICK i \in DOMAIN configured :
              /\ configured[i] = t
              /\ \A j \in DOMAIN configured : TargetOf[configured[j]] = TargetOf[t] => j = i
        BY <2>1, <2>3 DEF Sole
      <4>2. i = here
        BY <4>1, <1>2
      <4>3. \A j \in 1 .. Len(configured) - Len(push.todo) : j \in DOMAIN configured /\ j # here
        BY <1>h, <1>1
      <4>4. QED
        BY <4>1, <4>2, <4>3, <1>i DEF PushShape
    <3>2. latest' = [latest EXCEPT ![TargetOf[t]] = push.files]
      BY <1>c, <3>1 DEF LatestAfter
    <3>3. TargetOf[t] \in Owners
      BY OkfAssumption
    <3>4. latest'[TargetOf[t]] = push.files
      BY <3>2, <3>3, <1>i DEF RepoShape
    <3>5. ListedIn(t) = DOMAIN push.files
      BY <1>c DEF ListedIn, At
    <3>6. QED
      BY <2>1, <2>2, <2>3, <3>4, <3>5, <1>c
  <2>4. CASE u # t
    <3>1. TargetOf[u] # TargetOf[t]
      <4>1. PICK i \in DOMAIN configured :
              /\ configured[i] = u
              /\ \A j \in DOMAIN configured : TargetOf[configured[j]] = TargetOf[u] => j = i
        BY <2>1 DEF Sole
      <4>2. QED
        BY <4>1, <2>4, <1>2
    <3>2. ListedIn(u) = DOMAIN latest[TargetOf[u]]
      BY <2>4, <1>c DEF ListedIn, At
    <3>3. QED
      BY <2>1, <2>2, <3>1, <3>2, <1>3, <1>c
  <2>5. QED
    BY <2>3, <2>4
<1>8. BranchIsListed'
  BY <1>7 DEF BranchIsListed
<1>9. QED
  BY <1>4, <1>5, <1>6, <1>8 DEF SweepInv

LEMMA SweepStepKeeps == SweepInv /\ [OkfNext]_okfVars => SweepInv'
<1> SUFFICES ASSUME SweepInv, [OkfNext]_okfVars PROVE SweepInv'
  OBVIOUS
<1>1. CASE SweepStep
  <2>1. CASE StartSweep
    <3>1. CASE Targets = {}
      <4>1. configured \in Seq(Targets) \ {<<>>}
        BY OkfAssumption DEF SweepInv, RepoShape
      <4>2. QED
        BY <3>1, <4>1
    <3>2. CASE Targets # {}
      BY <2>1, <3>2, SweepsKeep
    <3>3. QED
      BY <3>1, <3>2
  <2>2. QED
    BY <1>1, <2>1, SweepsKeep, HeadIsResolved, RefIsMoved, DeliveryIsRecorded DEF SweepStep
<1>2. CASE OkfNext
  BY <1>1, <1>2, OthersKeep, SweepsKeep, AttemptEnds, RefIsMovedLate DEF OkfNext
<1>3. CASE UNCHANGED okfVars
  <2>1. UNCHANGED <<configured, listed, chains, latest, repo, push, late, lost, mishaps>>
    BY <1>3 DEF okfVars
  <2>2. PushShape' /\ RepoShape'
    BY <2>1 DEF SweepInv, PushShape, RepoShape
  <2>3. LateAreLost' /\ DeletionsPlanned' /\ TipStands' /\ BranchIsListed'
    BY <2>1 DEF SweepInv, LateAreLost, DeletionsPlanned, TipStands, BranchIsListed, At, Sole,
                Removed, ListedIn, Visible
  <2>4. QED
    BY <2>2, <2>3 DEF SweepInv
<1>4. QED
  BY <1>2, <1>3

\* A file the branch of a target that is alone holds is listed by the workspace's latest
\* manifest, or its push is under way or its outcome was lost: however many targets and
\* rivals there are and whatever is written while a sweep reads, whatever fails, is given
\* up, is carried out late or dies.
\* (deletions are the removed paths of a manifest, okf-delivery.ts:97-115)
THEOREM NothingLeftBehind == OkfSpec => []NothingIsLeftBehind
<1>1. SweepInv => NothingIsLeftBehind
  <2> SUFFICES ASSUME SweepInv, NEW t \in Targets, Sole(t)
               PROVE  DOMAIN Visible(t) \subseteq
                        DOMAIN latest[TargetOf[t]] \cup lost[t]
                        \cup (IF At(t, "pulling") \/ At(t, "accepted")
                              THEN DOMAIN push.files ELSE {})
    BY DEF NothingIsLeftBehind
  <2>1. DOMAIN Visible(t) \subseteq ListedIn(t) \cup lost[t]
    BY DEF SweepInv, BranchIsListed
  <2>2. QED
    BY <2>1 DEF ListedIn
<1>2. QED
  BY SweepStart, SweepStepKeeps, <1>1, PTL DEF OkfSpec

-----------------------------------------------------------------------------
(* The refinement of BundleMirror.                                          *)

\* The versions in the log among these files.
Logged(files) == IF <<Log>> \in DOMAIN files THEN files[<<Log>>] ELSE {}

Shown(t) == Logged(Visible(t))

\* The logs a repository shows, or will when the host carries out a request late.
Shows(t) == {Shown(t)} \cup {Logged(change.files) : change \in late[t]}

ChainsTyped ==
  /\ listed \subseteq Rivals
  /\ chains \in [Rivals -> [SectionKinds -> Seq(Rows)]]

\* A log names published versions of the rivals of its workspace, with every earlier one
\* of the same section, and the newest it names is verified.
LogOK(t, log) ==
  \A v \in log :
    /\ v[1] \in listed /\ OwnerOf[v[1]] = TargetOf[t] /\ v[2] \in SectionKinds
    /\ v[3] \in 1 .. Len(chains[v[1]][v[2]]) /\ v = <<v[1], v[2], v[3]>>
    /\ \A n \in 1 .. v[3] : <<v[1], v[2], n>> \in log
    /\ \/ chains[v[1]][v[2]][v[3]].verified
       \/ \E w \in log : w[1] = v[1] /\ w[2] = v[2] /\ v[3] < w[3]

LogsAreSound == \A t \in Targets : \A log \in Shows(t) : LogOK(t, log)

\* Whatever is carried out late shows no less than what is shown.
LateShowMore ==
  \A t \in Targets : \A change \in late[t] :
    /\ <<Log>> \in DOMAIN change.files /\ <<Log>> \notin change.deletions
    /\ Shown(t) \subseteq Logged(change.files)

Surface(k) == IF k \in Dossier THEN Dossier ELSE Battlecard

\* What a sweep has read is a prefix of what there is, and goes as far as any log does.
ReadsAreFresh ==
  push.phase = "loading" =>
    \A t \in Targets : t = Head(push.todo) =>
      /\ DOMAIN push.input \subseteq {r \in listed : OwnerOf[r] = TargetOf[t]}
      /\ push.input \in [DOMAIN push.input -> [SectionKinds -> Seq(Rows)]]
      /\ \A r \in DOMAIN push.input, k \in SectionKinds :
           /\ Len(push.input[r][k]) <= Len(chains[r][k])
           /\ \A n \in 1 .. Len(push.input[r][k]) : push.input[r][k][n] = chains[r][k][n]
      /\ \A log \in Shows(t) : \A v \in log :
           /\ v[1] \in DOMAIN push.input
           /\ <<v[1], Surface(v[2])>> \in push.unread
                \/ v[3] <= Len(push.input[v[1]][v[2]])

\* The log of a push is sound, and until it is accepted shows no less than any other.
PushesAreSound ==
  push.phase \in {"publishing", "pushing", "pulling", "accepted"} =>
    \A t \in Targets : t = Head(push.todo) =>
      /\ <<Log>> \in DOMAIN push.files /\ <<Log>> \notin push.deletions
      /\ LogOK(t, Logged(push.files))
      /\ push.phase \in {"publishing", "pushing"} =>
           \A log \in Shows(t) : log \subseteq Logged(push.files)

\* The inductive invariant of the refinement.
MirrorInv ==
  ChainsTyped /\ LogsAreSound /\ LateShowMore /\ ReadsAreFresh /\ PushesAreSound

-----------------------------------------------------------------------------
(* The store only grows, and a sound log stays sound.                       *)

Grown ==
  /\ listed \subseteq listed'
  /\ \A r \in Rivals, k \in SectionKinds :
       /\ Len(chains[r][k]) <= Len(chains'[r][k])
       /\ \A n \in 1 .. Len(chains[r][k]) : chains'[r][k][n] = chains[r][k][n]

LEMMA VersionIsIn ==
  ASSUME NEW of, NEW v
  PROVE  v \in VersionsIn(of) <=>
           \E r \in DOMAIN of, k \in SectionKinds : \E n \in 1 .. Len(of[r][k]) : v = <<r, k, n>>
<1> DEFINE Of(r, k) == {<<r, k, n>> : n \in 1 .. Len(of[r][k])}
<1>1. VersionsIn(of) = UNION {Of(r, k) : r \in DOMAIN of, k \in SectionKinds}
  BY DEF VersionsIn
<1>2. v \in VersionsIn(of) <=> \E r \in DOMAIN of, k \in SectionKinds : v \in Of(r, k)
  <2> HIDE DEF Of
  <2> QED
    BY <1>1
<1>3. QED
  BY <1>2

LEMMA SectionIsWritten ==
  ASSUME ChainsTyped, NEW r, NEW k, NEW row, WriteSection(r, k, row)
  PROVE  /\ ChainsTyped' /\ Grown
         /\ r \in listed /\ r \in Rivals /\ k \in SectionKinds /\ row \in Rows
         /\ Len(chains'[r][k]) = Len(chains[r][k]) + 1
         /\ \A q \in Rivals, j \in SectionKinds : <<q, j>> # <<r, k>> => chains'[q][j] = chains[q][j]
<1>1. /\ r \in listed /\ r \in Rivals /\ k \in SectionKinds /\ row \in Rows
      /\ chains' = [chains EXCEPT ![r][k] = Append(@, row)] /\ listed' = listed
  BY OkfAssumption DEF WriteSection, ChainsTyped
<1>2. chains \in [Rivals -> [SectionKinds -> Seq(Rows)]]
  BY DEF ChainsTyped
<1>3. PICK before : before = chains[r][k]
  OBVIOUS
<1>4. before \in Seq(Rows)
  BY <1>1, <1>2, <1>3
<1>5. /\ Append(before, row) \in Seq(Rows) /\ Len(Append(before, row)) = Len(before) + 1
      /\ Len(before) \in Nat
      /\ \A n \in 1 .. Len(before) : Append(before, row)[n] = before[n]
  BY <1>1, <1>4
<1>6. chains'[r][k] = Append(before, row)
  BY <1>1, <1>2, <1>3
<1>7. \A q \in Rivals, j \in SectionKinds : <<q, j>> # <<r, k>> => chains'[q][j] = chains[q][j]
  BY <1>1, <1>2
<1>8. chains' \in [Rivals -> [SectionKinds -> Seq(Rows)]]
  <2>1. DOMAIN chains' = Rivals /\ chains' = [q \in Rivals |-> chains'[q]]
        /\ \A q \in Rivals : chains'[q] = [j \in SectionKinds |-> chains'[q][j]]
    BY <1>1, <1>2
  <2>2. \A q \in Rivals, j \in SectionKinds : chains'[q][j] \in Seq(Rows)
    BY <1>2, <1>3, <1>5, <1>6, <1>7
  <2>3. QED
    BY <2>1, <2>2
<1>9. \A q \in Rivals, j \in SectionKinds : chains[q][j] \in Seq(Rows)
  BY <1>2
<1>10. Grown
  <2> SUFFICES ASSUME NEW q \in Rivals, NEW j \in SectionKinds
               PROVE  /\ Len(chains[q][j]) <= Len(chains'[q][j])
                      /\ \A n \in 1 .. Len(chains[q][j]) : chains'[q][j][n] = chains[q][j][n]
    BY <1>1 DEF Grown
  <2>1. CASE q = r /\ j = k
    BY <2>1, <1>3, <1>5, <1>6
  <2>2. CASE ~(q = r /\ j = k)
    <3>1. chains'[q][j] = chains[q][j] /\ Len(chains[q][j]) \in Nat
      BY <2>2, <1>7, <1>9
    <3>2. QED
      BY <3>1
  <2>3. QED
    BY <2>1, <2>2
<1>11. QED
  BY <1>1, <1>3, <1>5, <1>6, <1>7, <1>8, <1>10 DEF ChainsTyped

LEMMA StoreGrows == ASSUME ChainsTyped, [OkfNext]_okfVars PROVE ChainsTyped' /\ Grown
<1>1. CASE chains' = chains /\ listed \subseteq listed' /\ listed' \subseteq Rivals
  <2>1. \A r \in Rivals, k \in SectionKinds : chains[r][k] \in Seq(Rows)
    BY DEF ChainsTyped
  <2>2. \A r \in Rivals, k \in SectionKinds : Len(chains[r][k]) \in Nat
    BY <2>1
  <2>3. QED
    BY <1>1, <2>2 DEF ChainsTyped, Grown
<1>2. CASE \E draft \in Drafts : WriteSection(draft[1], draft[2], draft[3])
  BY <1>2, SectionIsWritten
<1>3. CASE \E r \in Joining : InsertRival(r)
  <2>1. chains' = chains /\ listed \subseteq listed' /\ listed' \subseteq Rivals
    BY <1>3, OkfAssumption DEF InsertRival, ChainsTyped
  <2>2. QED
    BY <2>1, <1>1
<1>4. CASE UNCHANGED <<listed, chains>>
  BY <1>4, <1>1 DEF ChainsTyped
<1>5. ASSUME NEW t \in Targets,
             \/ ForeignPush(t) \/ MergePullRequest(t) \/ DeleteBranch(t)
             \/ CallFails(t) \/ TimeOut(t) \/ PullRequestFails(t) \/ RecordFails(t) \/ Crash(t)
             \/ \E change \in late[t] : LateMoveRef(t, change)
      PROVE  UNCHANGED <<listed, chains>>
  BY <1>5 DEF ForeignPush, MergePullRequest, DeleteBranch, CallFails, TimeOut, PullRequestFails,
              RecordFails, Crash, LateMoveRef, store
<1>6. ASSUME SweepStep PROVE UNCHANGED <<listed, chains>>
  BY <1>6 DEF SweepStep, StartSweep, ListCompetitors, ReadSections, ProjectionThrows, Block,
              PlanDelivery, ResolveHead, MoveRef, EnsurePullRequest, RecordPublished,
              RecordFailedAttempt, store
<1>7. CASE UNCHANGED okfVars
  BY <1>7, <1>4 DEF okfVars
<1>8. QED
  BY <1>2, <1>3, <1>4, <1>5, <1>6, <1>7 DEF OkfNext

LEMMA LogStays ==
  ASSUME ChainsTyped, ChainsTyped', Grown, NEW t, NEW log, LogOK(t, log)
  PROVE  LogOK(t, log)'
<1> SUFFICES ASSUME NEW v \in log
             PROVE  /\ v[1] \in listed' /\ OwnerOf[v[1]] = TargetOf[t] /\ v[2] \in SectionKinds
                    /\ v[3] \in 1 .. Len(chains'[v[1]][v[2]]) /\ v = <<v[1], v[2], v[3]>>
                    /\ \A n \in 1 .. v[3] : <<v[1], v[2], n>> \in log
                    /\ \/ chains'[v[1]][v[2]][v[3]].verified
                       \/ \E w \in log : w[1] = v[1] /\ w[2] = v[2] /\ v[3] < w[3]
  BY DEF LogOK
<1>1. /\ v[1] \in listed /\ OwnerOf[v[1]] = TargetOf[t] /\ v[2] \in SectionKinds
      /\ v[3] \in 1 .. Len(chains[v[1]][v[2]]) /\ v = <<v[1], v[2], v[3]>>
      /\ \A n \in 1 .. v[3] : <<v[1], v[2], n>> \in log
      /\ \/ chains[v[1]][v[2]][v[3]].verified
         \/ \E w \in log : w[1] = v[1] /\ w[2] = v[2] /\ v[3] < w[3]
  BY DEF LogOK
<1>2. v[1] \in Rivals /\ v[1] \in listed'
  BY <1>1 DEF ChainsTyped, Grown
<1>3. /\ Len(chains[v[1]][v[2]]) <= Len(chains'[v[1]][v[2]])
      /\ chains'[v[1]][v[2]][v[3]] = chains[v[1]][v[2]][v[3]]
  BY <1>1, <1>2 DEF Grown
<1>4. Len(chains[v[1]][v[2]]) \in Nat /\ Len(chains'[v[1]][v[2]]) \in Nat
  <2>1. chains[v[1]][v[2]] \in Seq(Rows) /\ chains'[v[1]][v[2]] \in Seq(Rows)
    BY <1>1, <1>2 DEF ChainsTyped
  <2>2. QED
    BY <2>1
<1>5. v[3] \in 1 .. Len(chains'[v[1]][v[2]])
  BY <1>1, <1>3, <1>4
<1>6. QED
  BY <1>1, <1>2, <1>3, <1>5

-----------------------------------------------------------------------------
(* What a step does to what a repository shows.                             *)

\* A target that keeps what it shows; the push under way may be given up.
Settled(u) ==
  /\ Shown(u)' = Shown(u)
  /\ late'[u] \subseteq late[u] \cup (IF At(u, "pushing") THEN {Change} ELSE {})

\* A target whose tip has moved: what was built on the old one no longer fits.
Moved(u) ==
  /\ late'[u] = {}
  /\ Shown(u) \subseteq Shown(u)'
  /\ Shown(u)' \in Shows(u) \cup (IF At(u, "pushing") THEN {Logged(push.files)} ELSE {})

AllSettled == \A u \in Targets : Settled(u)

OneMoved ==
  /\ UNCHANGED <<listed, chains>>
  /\ \E t \in Targets : Moved(t) /\ \A u \in Targets \ {t} : Settled(u)

LEMMA SettlesWhenTipMoves ==
  ASSUME RepoShape, NEW t, late' = [late EXCEPT ![t] = {}],
         \A u \in Targets : Visible(u)' = Visible(u)
  PROVE  AllSettled
BY DEF AllSettled, Settled, Shown, RepoShape

LEMMA OthersSettle ==
  ASSUME RepoShape, NEW t \in Targets,
         ForeignPush(t) \/ MergePullRequest(t) \/ DeleteBranch(t)
  PROVE  AllSettled
<1>1. CASE ForeignPush(t)
  <2>1. repo' = repo /\ late' = [late EXCEPT ![t] = {}]
    BY <1>1 DEF ForeignPush, TipMoves
  <2>2. QED
    BY <2>1, SettlesWhenTipMoves DEF Visible
<1>2. CASE MergePullRequest(t)
  <2>1. repo[t].made /\ late' = late /\ repo' = [repo EXCEPT ![t].base = repo[t].branch]
    BY <1>2 DEF MergePullRequest
  <2>2. /\ repo'[t] = [repo[t] EXCEPT !.base = repo[t].branch]
        /\ \A u \in Targets \ {t} : repo'[u] = repo[u]
    BY <2>1 DEF RepoShape
  <2>3. \A u \in Targets : Visible(u)' = Visible(u)
    BY <2>1, <2>2 DEF RepoShape, Visible
  <2>4. QED
    BY <2>1, <2>3 DEF AllSettled, Settled, Shown
<1>3. CASE DeleteBranch(t)
  <2>1. /\ repo[t].made /\ repo[t].base = repo[t].branch
        /\ repo' = [repo EXCEPT ![t].made = FALSE, ![t].branch = NoFiles]
        /\ late' = [late EXCEPT ![t] = {}]
    BY <1>3 DEF DeleteBranch, TipMoves
  <2>2. /\ repo'[t] = [repo[t] EXCEPT !.made = FALSE, !.branch = NoFiles]
        /\ \A u \in Targets \ {t} : repo'[u] = repo[u]
    BY <2>1 DEF RepoShape
  <2>3. ~repo'[t].made /\ repo'[t].base = repo[t].base
    BY <2>2 DEF RepoShape
  <2>4. \A u \in Targets : Visible(u)' = Visible(u)
    <3>1. Visible(t)' = repo'[t].base
      BY <2>3 DEF Visible
    <3>2. Visible(t)' = Visible(t)
      BY <2>1, <2>3, <3>1 DEF Visible
    <3>3. QED
      BY <2>2, <3>2 DEF Visible
  <2>5. QED
    BY <2>1, <2>4, SettlesWhenTipMoves
<1>4. QED
  BY <1>1, <1>2, <1>3

LEMMA HeadSettles ==
  ASSUME RepoShape, NEW t \in Targets, ResolveHead(t)
  PROVE  AllSettled
<1>1. /\ late' = late
      /\ repo' = IF repo[t].made THEN repo
                 ELSE [repo EXCEPT ![t].made = TRUE, ![t].branch = repo[t].base]
  BY DEF ResolveHead
<1>2. CASE repo[t].made
  BY <1>1, <1>2 DEF AllSettled, Settled, Shown, Visible
<1>3. CASE ~repo[t].made
  <2>1. /\ repo'[t] = [repo[t] EXCEPT !.made = TRUE, !.branch = repo[t].base]
        /\ \A u \in Targets \ {t} : repo'[u] = repo[u]
    BY <1>1, <1>3 DEF RepoShape
  <2>2. repo'[t].made /\ repo'[t].branch = repo[t].base
    BY <2>1 DEF RepoShape
  <2>3. \A u \in Targets : Visible(u)' = Visible(u)
    BY <1>3, <2>1, <2>2 DEF Visible
  <2>4. QED
    BY <1>1, <2>3 DEF AllSettled, Settled, Shown
<1>4. QED
  BY <1>2, <1>3

\* A request that is given up names the push under way.
LEMMA GivenUpSettles ==
  ASSUME PushShape, RepoShape, NEW t \in Targets, TimeOut(t) \/ Crash(t)
  PROVE  AllSettled
<1>1. repo' = repo
  BY DEF TimeOut, Crash
<1>2. \/ late' = late
      \/ At(t, "pushing") /\ \E more \in {late[t], late[t] \cup {Change}} :
                              late' = [late EXCEPT ![t] = more]
  <2>1. CASE TimeOut(t)
    BY <2>1 DEF TimeOut
  <2>2. CASE Crash(t)
    BY <2>2 DEF Crash, At
  <2>3. QED
    BY <2>1, <2>2
<1>3. \A u \in Targets : late'[u] \subseteq late[u] \cup (IF At(u, "pushing") THEN {Change} ELSE {})
  BY <1>2 DEF RepoShape
<1>4. QED
  BY <1>1, <1>3 DEF AllSettled, Settled, Shown, Visible

\* The log of a tree that a sound change is put onto.
LEMMA LogIsReplaced ==
  ASSUME NEW tree, NEW change, <<Log>> \in DOMAIN change.files, <<Log>> \notin change.deletions
  PROVE  Logged(Onto(tree, change)) = Logged(change.files)
BY DEF Logged, Onto

LEMMA RefMovesOn ==
  ASSUME SweepInv, MirrorInv, NEW t \in Targets, MoveRef(t)
  PROVE  AllSettled \/ OneMoved
<1>i. PushShape /\ RepoShape /\ TipStands /\ PushesAreSound
  BY DEF SweepInv, MirrorInv
<1>1. CASE push.behind
  BY <1>1 DEF MoveRef, AllSettled, Settled, Shown, Visible
<1>2. CASE ~push.behind
  <2>1. /\ At(t, "pushing") /\ t = Head(push.todo) /\ push.phase = "pushing"
        /\ repo' = [repo EXCEPT ![t].branch = Onto(@, Change)]
        /\ late' = [late EXCEPT ![t] = {}]
        /\ UNCHANGED <<listed, chains>>
    BY <1>2 DEF MoveRef, At, store
  <2>2. repo[t].made
    BY <1>2, <1>i, <2>1 DEF TipStands
  <2>3. /\ repo'[t] = [repo[t] EXCEPT !.branch = Onto(repo[t].branch, Change)]
        /\ \A u \in Targets \ {t} : repo'[u] = repo[u] /\ late'[u] = late[u]
        /\ late'[t] = {}
    BY <2>1, <1>i DEF RepoShape
  <2>4. repo'[t].made /\ repo'[t].branch = Onto(repo[t].branch, Change)
    BY <2>2, <2>3, <1>i DEF RepoShape
  <2>5. /\ <<Log>> \in DOMAIN push.files /\ <<Log>> \notin push.deletions
        /\ \A log \in Shows(t) : log \subseteq Logged(push.files)
    BY <2>1, <1>i DEF PushesAreSound
  <2>6. Change.files = push.files /\ Change.deletions = push.deletions
    BY DEF Change
  <2>7. Shown(t)' = Logged(Onto(repo[t].branch, Change))
    BY <2>4 DEF Shown, Visible, Logged
  <2>8. Shown(t)' = Logged(push.files)
    BY <2>5, <2>6, <2>7, LogIsReplaced
  <2>9. Moved(t)
    BY <2>1, <2>3, <2>5, <2>8 DEF Moved, Shows
  <2>10. \A u \in Targets \ {t} : Settled(u)
    BY <2>3 DEF Settled, Shown, Visible
  <2>11. QED
    BY <2>1, <2>9, <2>10 DEF OneMoved
<1>3. QED
  BY <1>1, <1>2

LEMMA RefMovesLate ==
  ASSUME SweepInv, MirrorInv, NEW t \in Targets, NEW change \in late[t], LateMoveRef(t, change)
  PROVE  OneMoved
<1>i. PushShape /\ RepoShape /\ LateShowMore
  BY DEF SweepInv, MirrorInv
<1>1. /\ repo' = [repo EXCEPT ![t].branch = Onto(@, change)]
      /\ late' = [late EXCEPT ![t] = {}]
      /\ UNCHANGED <<listed, chains>>
  BY DEF LateMoveRef, TipMoves, store
<1>2. /\ repo'[t] = [repo[t] EXCEPT !.branch = Onto(repo[t].branch, change)]
      /\ \A u \in Targets \ {t} : repo'[u] = repo[u] /\ late'[u] = late[u]
      /\ late'[t] = {}
  BY <1>1, <1>i DEF RepoShape
<1>3. /\ repo'[t].made = repo[t].made /\ repo'[t].base = repo[t].base
      /\ repo'[t].branch = Onto(repo[t].branch, change)
  BY <1>2, <1>i DEF RepoShape
<1>4. /\ <<Log>> \in DOMAIN change.files /\ <<Log>> \notin change.deletions
      /\ Shown(t) \subseteq Logged(change.files)
  BY <1>i DEF LateShowMore
<1>5. Moved(t)
  <2>1. CASE repo[t].made
    <3>1. Shown(t)' = Logged(Onto(repo[t].branch, change))
      BY <2>1, <1>3 DEF Shown, Visible, Logged
    <3>2. Shown(t)' = Logged(change.files)
      BY <3>1, <1>4, LogIsReplaced
    <3>3. QED
      BY <3>2, <1>2, <1>4 DEF Moved, Shows
  <2>2. CASE ~repo[t].made
    <3>1. Shown(t)' = Shown(t)
      BY <2>2, <1>3 DEF Shown, Visible, Logged
    <3>2. QED
      BY <3>1, <1>2 DEF Moved, Shows
  <2>3. QED
    BY <2>1, <2>2
<1>6. \A u \in Targets \ {t} : Settled(u)
  BY <1>2 DEF Settled, Shown, Visible
<1>7. QED
  BY <1>1, <1>5, <1>6 DEF OneMoved

LEMMA StepShows ==
  ASSUME SweepInv, MirrorInv, [OkfNext]_okfVars
  PROVE  AllSettled \/ OneMoved
<1>i. PushShape /\ RepoShape
  BY DEF SweepInv
<1>1. CASE UNCHANGED <<repo, late>>
  BY <1>1 DEF AllSettled, Settled, Shown, Visible
<1>2. ASSUME NEW t \in Targets, ResolveHead(t) \/ MoveRef(t) PROVE AllSettled \/ OneMoved
  BY <1>2, <1>i, HeadSettles, RefMovesOn
<1>3. ASSUME SweepStep PROVE AllSettled \/ OneMoved
  BY <1>1, <1>2, <1>3 DEF SweepStep, StartSweep, ListCompetitors, ReadSections, ProjectionThrows,
     Block, PlanDelivery, EnsurePullRequest, RecordPublished, RecordFailedAttempt
<1>4. ASSUME NEW t \in Targets, CallFails(t) \/ PullRequestFails(t) \/ RecordFails(t)
      PROVE  UNCHANGED <<repo, late>>
  BY <1>4 DEF CallFails, PullRequestFails, RecordFails
<1>5. CASE \/ \E r \in Joining : InsertRival(r)
           \/ \E draft \in Drafts : WriteSection(draft[1], draft[2], draft[3])
  BY <1>5, <1>1 DEF InsertRival, WriteSection
<1>6. CASE UNCHANGED okfVars
  BY <1>6, <1>1 DEF okfVars
<1>7. QED
  BY <1>1, <1>3, <1>4, <1>5, <1>6, <1>i, OthersSettle, GivenUpSettles, RefMovesLate DEF OkfNext

-----------------------------------------------------------------------------
(* What a sweep has read and what it pushes.                                *)

Pushing == {"publishing", "pushing", "pulling", "accepted"}

\* The sweep reads or plans, or goes on with what it has read and planned.
GoesOn ==
  /\ push'.phase = "loading" =>
       /\ push.phase = "loading" /\ push'.todo = push.todo
       /\ push'.input = push.input /\ push'.unread = push.unread
  /\ push'.phase \in Pushing =>
       /\ push.phase \in Pushing /\ push'.todo = push.todo
       /\ push'.files = push.files /\ push'.deletions = push.deletions
       /\ push'.phase \in {"publishing", "pushing"} => push.phase \in {"publishing", "pushing"}

LEMMA AdvancedPhase == Advanced.phase \in {"idle", "listing"}
BY DEF Advanced, Idle

LEMMA SweepGoesOn ==
  ASSUME PushShape, RepoShape, [OkfNext]_okfVars
  PROVE  \/ GoesOn
         \/ \E t \in Targets :
              \/ ListCompetitors(t) \/ PlanDelivery(t)
              \/ \E r \in Rivals, kinds \in {Dossier, Battlecard} : ReadSections(t, r, kinds)
<1> DEFINE To(phase) == push' = [push EXCEPT !.phase = phase]
<1>1. ASSUME push' = push PROVE GoesOn
  BY <1>1 DEF GoesOn
<1>2. ASSUME To("failed") PROVE GoesOn
  BY <1>2 DEF GoesOn, PushShape, Pushing
<1>3. ASSUME push' = Advanced \/ push'.phase \in {"idle", "listing"} PROVE GoesOn
  <2>1. push'.phase \in {"idle", "listing"}
    BY <1>3, AdvancedPhase
  <2>2. QED
    BY <2>1 DEF GoesOn, Pushing
<1>4. ASSUME NEW t \in Targets, TipMoves(t) PROVE GoesOn
  <2>1. push' = push \/ (push.phase = "pushing" /\ push' = [push EXCEPT !.behind = TRUE])
    BY <1>4 DEF TipMoves, At
  <2>2. QED
    BY <2>1 DEF GoesOn, PushShape, Pushing
<1>5. ASSUME NEW t \in Targets,
             ProjectionThrows(t) \/ Block(t) \/ RecordFailedAttempt(t)
      PROVE  GoesOn
  <2>1. To("failed") \/ push' = Advanced
    BY <1>5 DEF ProjectionThrows, Block, RecordFailedAttempt
  <2>2. QED
    BY <2>1, <1>2, <1>3
<1>6. ASSUME NEW t \in Targets, ResolveHead(t) PROVE GoesOn
  <2>1. push.phase = "publishing" /\ To("pushing")
    BY <1>6 DEF ResolveHead, At
  <2>2. QED
    BY <2>1 DEF GoesOn, PushShape, Pushing
<1>7. ASSUME NEW t \in Targets, MoveRef(t) PROVE GoesOn
  <2>1. push.phase = "pushing" /\ (To("failed") \/ To("accepted") \/ To("pulling"))
    BY <1>7 DEF MoveRef, At, Pushed
  <2>2. QED
    BY <2>1 DEF GoesOn, PushShape, Pushing
<1>8. ASSUME NEW t \in Targets, EnsurePullRequest(t) PROVE GoesOn
  <2>1. push.phase = "pulling" /\ To("accepted")
    BY <1>8 DEF EnsurePullRequest, At
  <2>2. QED
    BY <2>1 DEF GoesOn, PushShape, Pushing
<1>9. ASSUME NEW t \in Targets, RecordPublished(t) PROVE GoesOn
  <2>1. push'.phase = Advanced.phase
    BY <1>9 DEF RecordPublished, Advanced, Idle
  <2>2. push'.phase \in {"idle", "listing"}
    BY <2>1, AdvancedPhase
  <2>3. QED
    BY <2>2, <1>3
<1>10. CASE StartSweep
  <2>1. push'.phase = "listing"
    BY <1>10 DEF StartSweep, Idle
  <2>2. QED
    BY <2>1, <1>3
<1>11. ASSUME NEW t \in Targets,
              CallFails(t) \/ TimeOut(t) \/ PullRequestFails(t) \/ RecordFails(t)
       PROVE  GoesOn
  <2>1. To("failed") \/ push' = Advanced
    BY <1>11 DEF CallFails, TimeOut, PullRequestFails, RecordFails
  <2>2. QED
    BY <2>1, <1>2, <1>3
<1>12. ASSUME NEW t \in Targets, Crash(t) PROVE GoesOn
  <2>1. push'.phase = "idle"
    BY <1>12 DEF Crash, Idle
  <2>2. QED
    BY <2>1, <1>3
<1>13. ASSUME NEW t \in Targets,
              \/ ForeignPush(t) \/ MergePullRequest(t) \/ DeleteBranch(t)
              \/ \E change \in late[t] : LateMoveRef(t, change)
       PROVE  GoesOn
  <2>1. push' = push \/ TipMoves(t)
    BY <1>13 DEF ForeignPush, MergePullRequest, DeleteBranch, LateMoveRef
  <2>2. QED
    BY <2>1, <1>1, <1>4
<1>14. CASE \/ \E r \in Joining : InsertRival(r)
            \/ \E draft \in Drafts : WriteSection(draft[1], draft[2], draft[3])
            \/ UNCHANGED okfVars
  BY <1>14, <1>1 DEF InsertRival, WriteSection, okfVars
<1>15. QED
  BY <1>5, <1>6, <1>7, <1>8, <1>9, <1>10, <1>11, <1>12, <1>13, <1>14 DEF OkfNext, SweepStep

\* A log names no version of a rival that a listing after it would not find.
LEMMA ListingIsFresh ==
  ASSUME SweepInv, MirrorInv, NEW t \in Targets, ListCompetitors(t)
  PROVE  ReadsAreFresh'
<1> DEFINE found == {r \in listed : OwnerOf[r] = TargetOf[t]}
<1>1. /\ push.phase = "listing" /\ t = Head(push.todo)
      /\ push' = [push EXCEPT !.phase = "loading",
                              !.unread = found \X {Dossier, Battlecard},
                              !.input = [r \in found |-> [k \in SectionKinds |-> <<>>]]]
      /\ UNCHANGED <<listed, chains, repo, late>>
  BY DEF ListCompetitors, At, store
<1>2. /\ push'.todo = push.todo /\ push'.unread = found \X {Dossier, Battlecard}
      /\ push'.input = [r \in found |-> [k \in SectionKinds |-> <<>>]]
  BY <1>1 DEF SweepInv, PushShape
<1>3. \A log \in Shows(t)' : \A v \in log : v[1] \in found
  BY <1>1 DEF MirrorInv, LogsAreSound, LogOK, Shows, Shown, Visible
<1>4. \A k : Surface(k) \in {Dossier, Battlecard}
  BY DEF Surface
<1>5. \A r \in found, k \in SectionKinds :
        push'.input[r][k] = <<>> /\ chains'[r][k] \in Seq(Rows)
  BY <1>1, <1>2 DEF MirrorInv, ChainsTyped
<1>6. \A r \in found, k \in SectionKinds :
        /\ Len(push'.input[r][k]) <= Len(chains'[r][k])
        /\ \A n \in 1 .. Len(push'.input[r][k]) : push'.input[r][k][n] = chains'[r][k][n]
  BY <1>5
<1>7. push'.input \in [found -> [SectionKinds -> Seq(Rows)]] /\ DOMAIN push'.input = found
  BY <1>2
<1>8. found \subseteq {r \in listed' : OwnerOf[r] = TargetOf[t]}
  BY <1>1
<1>9. \A log \in Shows(t)' : \A v \in log : <<v[1], Surface(v[2])>> \in push'.unread
  BY <1>2, <1>3, <1>4
<1>10. QED
  BY <1>1, <1>2, <1>3, <1>6, <1>7, <1>8, <1>9 DEF ReadsAreFresh

\* A read goes as far as any log does, since a log names published versions only.
LEMMA ReadIsFresh ==
  ASSUME SweepInv, MirrorInv, NEW t \in Targets, NEW r \in Rivals,
         NEW kinds \in {Dossier, Battlecard}, ReadSections(t, r, kinds)
  PROVE  ReadsAreFresh'
<1> DEFINE Read(q, k) == push'.input[q][k]
<1>1. /\ push.phase = "loading" /\ t = Head(push.todo)
      /\ push' = [push EXCEPT !.unread = @ \ {<<r, kinds>>},
                              !.input[r] = [k \in SectionKinds |->
                                              IF k \in kinds THEN chains[r][k] ELSE @[k]]]
      /\ UNCHANGED <<listed, chains, repo, late>>
  BY DEF ReadSections, At, store
<1>2. /\ push'.todo = push.todo /\ push'.unread = push.unread \ {<<r, kinds>>}
      /\ push'.input = [push.input EXCEPT ![r] = [k \in SectionKinds |->
                                              IF k \in kinds THEN chains[r][k] ELSE @[k]]]
  BY <1>1 DEF SweepInv, PushShape
<1>3. /\ DOMAIN push.input \subseteq {q \in listed : OwnerOf[q] = TargetOf[t]}
      /\ push.input \in [DOMAIN push.input -> [SectionKinds -> Seq(Rows)]]
      /\ \A q \in DOMAIN push.input, k \in SectionKinds :
           /\ Len(push.input[q][k]) <= Len(chains[q][k])
           /\ \A n \in 1 .. Len(push.input[q][k]) : push.input[q][k][n] = chains[q][k][n]
      /\ \A log \in Shows(t) : \A v \in log :
           /\ v[1] \in DOMAIN push.input
           /\ <<v[1], Surface(v[2])>> \in push.unread
                \/ v[3] <= Len(push.input[v[1]][v[2]])
  BY <1>1 DEF MirrorInv, ReadsAreFresh
<1>4. \A q \in DOMAIN push.input, k \in SectionKinds : chains[q][k] \in Seq(Rows)
  BY <1>3 DEF MirrorInv, ChainsTyped
<1>5. DOMAIN push'.input = DOMAIN push.input
  BY <1>2
<1>6. \A q \in DOMAIN push.input, k \in SectionKinds :
        Read(q, k) = IF q = r /\ k \in kinds THEN chains[q][k] ELSE push.input[q][k]
  BY <1>2, <1>3
<1>7. push'.input \in [DOMAIN push'.input -> [SectionKinds -> Seq(Rows)]]
  <2>1. \A q \in DOMAIN push.input, k \in SectionKinds : Read(q, k) \in Seq(Rows)
    <3>1. \A q \in DOMAIN push.input, k \in SectionKinds : push.input[q][k] \in Seq(Rows)
      BY <1>3
    <3>2. QED
      BY <3>1, <1>4, <1>6
  <2>2. \A q \in DOMAIN push.input : push'.input[q] = [k \in SectionKinds |-> Read(q, k)]
    BY <1>2, <1>3
  <2>3. \A q \in DOMAIN push.input : push'.input[q] \in [SectionKinds -> Seq(Rows)]
    BY <2>1, <2>2
  <2>4. push'.input = [q \in DOMAIN push.input |-> push'.input[q]]
    BY <1>2, <1>3
  <2>5. QED
    BY <1>5, <2>3, <2>4
<1>8. \A q \in DOMAIN push.input, k \in SectionKinds :
        /\ Len(Read(q, k)) <= Len(chains[q][k])
        /\ \A n \in 1 .. Len(Read(q, k)) : Read(q, k)[n] = chains[q][k][n]
  <2>1. \A q \in DOMAIN push.input, k \in SectionKinds : Len(chains[q][k]) \in Nat
    BY <1>4
  <2>2. QED
    BY <1>3, <1>6, <2>1
<1>9. ASSUME NEW log \in Shows(t), NEW v \in log
      PROVE  /\ v[1] \in DOMAIN push.input
             /\ <<v[1], Surface(v[2])>> \in push'.unread \/ v[3] <= Len(Read(v[1], v[2]))
  <2>1. v[2] \in SectionKinds /\ v[3] \in 1 .. Len(chains[v[1]][v[2]]) /\ v[1] \in DOMAIN push.input
    BY <1>3, <1>9 DEF MirrorInv, LogsAreSound, LogOK
  <2>2. v[2] \in Surface(v[2])
    BY <2>1 DEF Surface, SectionKinds
  <2>3. CASE v[1] = r /\ Surface(v[2]) = kinds
    <3>1. Read(v[1], v[2]) = chains[v[1]][v[2]]
      BY <1>6, <2>1, <2>2, <2>3
    <3>2. Len(chains[v[1]][v[2]]) \in Nat
      BY <1>4, <2>1
    <3>3. QED
      BY <2>1, <3>1, <3>2
  <2>4. CASE ~(v[1] = r /\ Surface(v[2]) = kinds)
    <3>1. CASE <<v[1], Surface(v[2])>> \in push.unread
      BY <3>1, <2>1, <2>4, <1>2
    <3>2. CASE v[3] <= Len(push.input[v[1]][v[2]])
      <4>1. Len(push.input[v[1]][v[2]]) \in Nat /\ Len(chains[v[1]][v[2]]) \in Nat
        BY <1>3, <1>4, <2>1
      <4>2. \/ Read(v[1], v[2]) = chains[v[1]][v[2]]
            \/ Read(v[1], v[2]) = push.input[v[1]][v[2]]
        BY <1>6, <2>1
      <4>3. v[3] <= Len(chains[v[1]][v[2]])
        BY <2>1, <4>1
      <4>4. QED
        <5> HIDE DEF Read
        <5>1. QED
          BY <2>1, <3>2, <4>2, <4>3
    <3>3. QED
      BY <1>3, <1>9, <3>1, <3>2
  <2>5. QED
    BY <2>3, <2>4
<1>10. Shows(t)' = Shows(t)
  BY <1>1 DEF Shows, Shown, Visible
<1>11. QED
  BY <1>1, <1>2, <1>3, <1>5, <1>7, <1>8, <1>9, <1>10 DEF ReadsAreFresh

\* A bundle shows the log of what was read.
LEMMA BundleHasLog ==
  ASSUME NEW of, ~Throws(Docs(of))
  PROVE  <<Log>> \in DOMAIN Bundle(Docs(of)) /\ Bundle(Docs(of))[<<Log>>] = VersionsIn(of)
<1>1. PICK docs : docs = Docs(of)
  OBVIOUS
<1>2. LogDoc(of) \in docs
  BY <1>1 DEF Docs
<1>3. LogDoc(of).path = <<Log>> /\ LogDoc(of).text = VersionsIn(of)
  BY DEF LogDoc
<1>4. \A a, b \in docs : a.path = b.path => a = b
  BY <1>1 DEF Throws
<1>5. PICK doc : doc = CHOOSE d \in docs : d.path = <<Log>>
  OBVIOUS
<1>6. doc \in docs /\ doc.path = <<Log>>
  BY <1>2, <1>3, <1>5
<1>7. doc = LogDoc(of)
  BY <1>2, <1>3, <1>4, <1>6
<1>8. Bundle(docs) = [path \in {d.path : d \in docs} |-> (CHOOSE d \in docs : d.path = path).text]
  BY DEF Bundle
<1>9. <<Log>> \in {d.path : d \in docs}
  BY <1>2, <1>3
<1>10. <<Log>> \in DOMAIN Bundle(docs) /\ Bundle(docs)[<<Log>>] = doc.text
  BY <1>5, <1>8, <1>9
<1>11. QED
  BY <1>1, <1>3, <1>7, <1>10

\* The log of what was read is sound, if it was read from the store, and nothing that is
\* read ends in an unverified version.
LEMMA ReadLogIsSound ==
  ASSUME ChainsTyped, NEW t, NEW of,
         DOMAIN of \subseteq {r \in listed : OwnerOf[r] = TargetOf[t]},
         of \in [DOMAIN of -> [SectionKinds -> Seq(Rows)]],
         \A r \in DOMAIN of, k \in SectionKinds :
           /\ Len(of[r][k]) <= Len(chains[r][k])
           /\ \A n \in 1 .. Len(of[r][k]) : of[r][k][n] = chains[r][k][n],
         ~Uncited(of)
  PROVE  LogOK(t, VersionsIn(of))
<1> SUFFICES ASSUME NEW v \in VersionsIn(of)
             PROVE  /\ v[1] \in listed /\ OwnerOf[v[1]] = TargetOf[t] /\ v[2] \in SectionKinds
                    /\ v[3] \in 1 .. Len(chains[v[1]][v[2]]) /\ v = <<v[1], v[2], v[3]>>
                    /\ \A n \in 1 .. v[3] : <<v[1], v[2], n>> \in VersionsIn(of)
                    /\ \/ chains[v[1]][v[2]][v[3]].verified
                       \/ \E w \in VersionsIn(of) : w[1] = v[1] /\ w[2] = v[2] /\ v[3] < w[3]
  BY DEF LogOK
<1>1. PICK r \in DOMAIN of, k \in SectionKinds : \E n \in 1 .. Len(of[r][k]) : v = <<r, k, n>>
  BY VersionIsIn
<1>2. PICK n \in 1 .. Len(of[r][k]) : v = <<r, k, n>>
  BY <1>1
<1>3. v[1] = r /\ v[2] = k /\ v[3] = n
  BY <1>2
<1>4. r \in listed /\ OwnerOf[r] = TargetOf[t] /\ r \in Rivals
  BY DEF ChainsTyped
<1>5. of[r][k] \in Seq(Rows) /\ chains[r][k] \in Seq(Rows)
  BY <1>4 DEF ChainsTyped
<1>6. PICK last : last = Len(of[r][k])
  OBVIOUS
<1>7. last \in Nat /\ Len(chains[r][k]) \in Nat /\ last <= Len(chains[r][k]) /\ n \in 1 .. last
  BY <1>5, <1>6
<1>8. n \in 1 .. Len(chains[r][k])
  BY <1>7
<1>9. \A m \in 1 .. last : <<r, k, m>> \in VersionsIn(of)
  BY <1>6, VersionIsIn
<1>10. \A m \in 1 .. n : m \in 1 .. last
  BY <1>7
<1>11. \/ chains[r][k][n].verified
       \/ \E w \in VersionsIn(of) : w[1] = r /\ w[2] = k /\ n < w[3]
  <2>1. CASE n = last
    <3>1. of[r][k] # <<>> /\ of[r][k][last] = chains[r][k][last]
      BY <1>5, <1>6, <1>7
    <3>2. <<r, k>> \in Heads(of)
      BY <3>1 DEF Heads
    <3>3. of[r][k][Len(of[r][k])].verified
      BY <3>2 DEF Uncited, Last
    <3>4. QED
      BY <2>1, <3>1, <3>3, <1>6
  <2>2. CASE n # last
    <3>1. last \in 1 .. last /\ n < last
      BY <2>2, <1>7
    <3>2. PICK w : w = <<r, k, last>>
      OBVIOUS
    <3>3. w \in VersionsIn(of) /\ w[1] = r /\ w[2] = k /\ w[3] = last
      BY <3>1, <3>2, <1>9
    <3>4. QED
      BY <3>1, <3>3
  <2>3. QED
    BY <2>1, <2>2
<1>12. QED
  BY <1>2, <1>3, <1>4, <1>8, <1>9, <1>10, <1>11

LEMMA PlanIsSound ==
  ASSUME SweepInv, MirrorInv, NEW t \in Targets, PlanDelivery(t)
  PROVE  PushesAreSound' /\ ReadsAreFresh'
<1>1. /\ push.phase = "loading" /\ t = Head(push.todo) /\ push.unread = {}
      /\ ~Throws(Docs(push.input)) /\ ~Blocked(push.input, Docs(push.input))
      /\ push' = IF Bundle(Docs(push.input)) = latest[TargetOf[t]] THEN Advanced
                 ELSE [push EXCEPT !.phase = "publishing", !.files = Bundle(Docs(push.input)),
                                   !.deletions = Removed(TargetOf[t], Bundle(Docs(push.input)))]
      /\ UNCHANGED <<listed, chains, repo, late>>
  BY DEF PlanDelivery, Loaded, At, store
<1>2. PICK files : files = Bundle(Docs(push.input))
  OBVIOUS
<1>3. CASE files = latest[TargetOf[t]]
  <2>1. push'.phase \in {"idle", "listing"}
    BY <1>1, <1>2, <1>3, AdvancedPhase
  <2>2. QED
    BY <2>1 DEF PushesAreSound, ReadsAreFresh
<1>4. CASE files # latest[TargetOf[t]]
  <2>1. push' = [push EXCEPT !.phase = "publishing", !.files = files,
                             !.deletions = Removed(TargetOf[t], files)]
    BY <1>1, <1>2, <1>4
  <2>2. /\ push'.phase = "publishing" /\ push'.todo = push.todo
        /\ push'.files = files /\ push'.deletions = DOMAIN latest[TargetOf[t]] \ DOMAIN files
    BY <2>1 DEF SweepInv, PushShape, Removed
  <2>3. <<Log>> \in DOMAIN files /\ Logged(files) = VersionsIn(push.input)
    BY <1>1, <1>2, BundleHasLog DEF Logged
  <2>4. /\ DOMAIN push.input \subseteq {r \in listed : OwnerOf[r] = TargetOf[t]}
        /\ push.input \in [DOMAIN push.input -> [SectionKinds -> Seq(Rows)]]
        /\ \A r \in DOMAIN push.input, k \in SectionKinds :
             /\ Len(push.input[r][k]) <= Len(chains[r][k])
             /\ \A n \in 1 .. Len(push.input[r][k]) : push.input[r][k][n] = chains[r][k][n]
        /\ \A log \in Shows(t) : \A v \in log :
             v[1] \in DOMAIN push.input /\ v[3] <= Len(push.input[v[1]][v[2]])
    BY <1>1 DEF MirrorInv, ReadsAreFresh
  <2>5. LogOK(t, VersionsIn(push.input))
    BY <1>1, <2>4, ReadLogIsSound DEF MirrorInv, Blocked
  <2>6. ASSUME NEW log \in Shows(t), NEW v \in log PROVE v \in VersionsIn(push.input)
    <3>1. /\ v[2] \in SectionKinds /\ v[3] \in 1 .. Len(chains[v[1]][v[2]])
          /\ v = <<v[1], v[2], v[3]>> /\ v[1] \in DOMAIN push.input
          /\ v[3] <= Len(push.input[v[1]][v[2]])
      BY <2>4, <2>6 DEF MirrorInv, LogsAreSound, LogOK
    <3>2. push.input[v[1]][v[2]] \in Seq(Rows)
      BY <3>1, <2>4
    <3>3. v[3] \in Nat /\ 1 <= v[3]
      BY <3>1
    <3>4. v[3] \in 1 .. Len(push.input[v[1]][v[2]])
      BY <3>1, <3>2, <3>3
    <3>5. QED
      BY <3>1, <3>4, VersionIsIn
  <2>7. \A log \in Shows(t)' : log \subseteq Logged(files)
    BY <1>1, <2>3, <2>6 DEF Shows, Shown, Visible
  <2>8. LogOK(t, Logged(files))'
    BY <2>3, <2>5, <1>1 DEF LogOK
  <2>9. PushesAreSound'
    BY <1>1, <2>2, <2>3, <2>7, <2>8 DEF PushesAreSound
  <2>10. QED
    BY <2>2, <2>9 DEF ReadsAreFresh
<1>5. QED
  BY <1>3, <1>4

\* A repository shows what it showed, or the push that is being made.
LEMMA ShowsFollow ==
  ASSUME RepoShape, AllSettled \/ OneMoved, NEW u \in Targets
  PROVE  Shows(u)' \subseteq
           Shows(u) \cup (IF At(u, "pushing") THEN {Logged(push.files)} ELSE {})
<1>1. Settled(u) \/ Moved(u)
  BY DEF AllSettled, OneMoved
<1>2. Shows(u)' = {Shown(u)'} \cup {Logged(change.files) : change \in late'[u]}
  BY DEF Shows, Logged
<1>3. CASE Settled(u)
  <2>1. Change.files = push.files
    BY DEF Change
  <2>2. QED
    BY <1>2, <1>3, <2>1 DEF Settled, Shows
<1>4. CASE Moved(u)
  BY <1>2, <1>4 DEF Moved
<1>5. QED
  BY <1>1, <1>3, <1>4

LEMMA LateStillShowMore ==
  ASSUME SweepInv, MirrorInv, AllSettled \/ OneMoved
  PROVE  LateShowMore'
<1> SUFFICES ASSUME NEW u \in Targets, NEW change \in late'[u]
             PROVE  /\ <<Log>> \in DOMAIN change.files /\ <<Log>> \notin change.deletions
                    /\ Shown(u)' \subseteq Logged(change.files)
  BY DEF LateShowMore, Logged
<1>1. Settled(u)
  BY DEF AllSettled, OneMoved, Moved
<1>2. CASE change \in late[u]
  BY <1>1, <1>2 DEF MirrorInv, LateShowMore, Settled
<1>3. CASE change = Change /\ At(u, "pushing")
  <2>1. change.files = push.files /\ change.deletions = push.deletions
    BY <1>3 DEF Change
  <2>2. push.phase = "pushing" /\ u = Head(push.todo) /\ Shown(u) \in Shows(u)
    BY <1>3 DEF At, Shows
  <2>3. /\ <<Log>> \in DOMAIN push.files /\ <<Log>> \notin push.deletions
        /\ Shown(u) \subseteq Logged(push.files)
    BY <2>2 DEF MirrorInv, PushesAreSound
  <2>4. QED
    BY <1>1, <2>1, <2>3 DEF Settled
<1>4. QED
  BY <1>1, <1>2, <1>3 DEF Settled

LEMMA LogsStaySound ==
  ASSUME SweepInv, MirrorInv, ChainsTyped', Grown, AllSettled \/ OneMoved
  PROVE  LogsAreSound'
<1> SUFFICES ASSUME NEW u \in Targets, NEW log \in Shows(u)' PROVE LogOK(u, log)'
  BY DEF LogsAreSound
<1>1. log \in Shows(u) \/ (At(u, "pushing") /\ log = Logged(push.files))
  BY ShowsFollow DEF SweepInv
<1>2. LogOK(u, log)
  <2>1. CASE log \in Shows(u)
    BY <2>1 DEF MirrorInv, LogsAreSound
  <2>2. CASE At(u, "pushing") /\ log = Logged(push.files)
    BY <2>2 DEF MirrorInv, PushesAreSound, At
  <2>3. QED
    BY <1>1, <2>1, <2>2
<1>3. QED
  BY <1>2, LogStays DEF MirrorInv

LEMMA ReadsStayFresh ==
  ASSUME SweepInv, MirrorInv, ChainsTyped', Grown, AllSettled \/ OneMoved, GoesOn
  PROVE  ReadsAreFresh'
<1> SUFFICES ASSUME push'.phase = "loading", NEW t \in Targets, t = Head(push'.todo)
             PROVE  /\ DOMAIN push'.input \subseteq {r \in listed' : OwnerOf[r] = TargetOf[t]}
                    /\ push'.input \in [DOMAIN push'.input -> [SectionKinds -> Seq(Rows)]]
                    /\ \A r \in DOMAIN push'.input, k \in SectionKinds :
                         /\ Len(push'.input[r][k]) <= Len(chains'[r][k])
                         /\ \A n \in 1 .. Len(push'.input[r][k]) :
                              push'.input[r][k][n] = chains'[r][k][n]
                    /\ \A log \in Shows(t)' : \A v \in log :
                         /\ v[1] \in DOMAIN push'.input
                         /\ <<v[1], Surface(v[2])>> \in push'.unread
                              \/ v[3] <= Len(push'.input[v[1]][v[2]])
  BY DEF ReadsAreFresh
<1>1. /\ push.phase = "loading" /\ push'.todo = push.todo
      /\ push'.input = push.input /\ push'.unread = push.unread
  BY DEF GoesOn
<1>2. PICK input : input = push.input
  OBVIOUS
<1>3. /\ DOMAIN input \subseteq {r \in listed : OwnerOf[r] = TargetOf[t]}
      /\ input \in [DOMAIN input -> [SectionKinds -> Seq(Rows)]]
      /\ \A r \in DOMAIN input, k \in SectionKinds :
           /\ Len(input[r][k]) <= Len(chains[r][k])
           /\ \A n \in 1 .. Len(input[r][k]) : input[r][k][n] = chains[r][k][n]
      /\ \A log \in Shows(t) : \A v \in log :
           /\ v[1] \in DOMAIN input
           /\ <<v[1], Surface(v[2])>> \in push.unread \/ v[3] <= Len(input[v[1]][v[2]])
  BY <1>1, <1>2 DEF MirrorInv, ReadsAreFresh
<1>4. Shows(t)' \subseteq Shows(t)
  BY <1>1, ShowsFollow DEF SweepInv, At
<1>5. ASSUME NEW r \in DOMAIN input, NEW k \in SectionKinds
      PROVE  /\ Len(input[r][k]) <= Len(chains'[r][k])
             /\ \A n \in 1 .. Len(input[r][k]) : input[r][k][n] = chains'[r][k][n]
  <2>1. r \in Rivals
    BY <1>3 DEF MirrorInv, ChainsTyped
  <2>2. /\ chains[r][k] \in Seq(Rows) /\ chains'[r][k] \in Seq(Rows) /\ input[r][k] \in Seq(Rows)
    BY <1>3, <2>1 DEF MirrorInv, ChainsTyped
  <2>3. Len(chains[r][k]) \in Nat /\ Len(chains'[r][k]) \in Nat /\ Len(input[r][k]) \in Nat
    BY <2>2
  <2>4. /\ Len(chains[r][k]) <= Len(chains'[r][k])
        /\ \A n \in 1 .. Len(chains[r][k]) : chains'[r][k][n] = chains[r][k][n]
    BY <2>1 DEF Grown
  <2>5. QED
    BY <1>3, <2>3, <2>4
<1>6. DOMAIN input \subseteq {r \in listed' : OwnerOf[r] = TargetOf[t]}
  BY <1>3 DEF Grown
<1>7. QED
  BY <1>1, <1>2, <1>3, <1>4, <1>5, <1>6

LEMMA PushesStaySound ==
  ASSUME SweepInv, MirrorInv, ChainsTyped', Grown, AllSettled \/ OneMoved, GoesOn
  PROVE  PushesAreSound'
<1> SUFFICES ASSUME push'.phase \in Pushing, NEW t \in Targets, t = Head(push'.todo)
             PROVE  /\ <<Log>> \in DOMAIN push'.files /\ <<Log>> \notin push'.deletions
                    /\ LogOK(t, Logged(push.files))'
                    /\ push'.phase \in {"publishing", "pushing"} =>
                         \A log \in Shows(t)' : log \subseteq Logged(push'.files)
  BY DEF PushesAreSound, Pushing, Logged
<1>1. /\ push.phase \in Pushing /\ t = Head(push.todo)
      /\ push'.files = push.files /\ push'.deletions = push.deletions
      /\ push'.phase \in {"publishing", "pushing"} => push.phase \in {"publishing", "pushing"}
  BY DEF GoesOn
<1>2. /\ <<Log>> \in DOMAIN push.files /\ <<Log>> \notin push.deletions
      /\ LogOK(t, Logged(push.files))
      /\ push.phase \in {"publishing", "pushing"} =>
           \A log \in Shows(t) : log \subseteq Logged(push.files)
  BY <1>1 DEF MirrorInv, PushesAreSound, Pushing
<1>3. PICK log : log = Logged(push.files)
  OBVIOUS
<1>4. LogOK(t, log)'
  BY <1>2, <1>3, LogStays DEF MirrorInv
<1>5. Logged(push.files)' = log
  BY <1>1, <1>3 DEF Logged
<1>6. LogOK(t, Logged(push.files))'
  BY <1>4, <1>5 DEF LogOK
<1>7. Shows(t)' \subseteq Shows(t) \cup {log}
  BY <1>3, ShowsFollow DEF SweepInv
<1>8. QED
  BY <1>1, <1>2, <1>3, <1>6, <1>7

LEMMA MirrorStart == OkfInit => MirrorInv
<1> SUFFICES ASSUME OkfInit PROVE MirrorInv
  OBVIOUS
<1>1. /\ listed \in Starts /\ push.phase = "idle"
      /\ chains = [r \in Rivals |-> [k \in SectionKinds |-> <<>>]]
      /\ \A t \in Targets : Visible(t) = NoFiles /\ late[t] = {}
  BY DEF OkfInit, Idle, Visible
<1>2. ChainsTyped
  BY <1>1, OkfAssumption DEF ChainsTyped
<1>3. \A t \in Targets : Shows(t) = {{}}
  BY <1>1 DEF Shows, Shown, Logged, NoFiles
<1>4. LogsAreSound
  BY <1>3 DEF LogsAreSound, LogOK
<1>5. QED
  BY <1>1, <1>2, <1>4 DEF MirrorInv, LateShowMore, ReadsAreFresh, PushesAreSound

LEMMA MirrorKept == SweepInv /\ MirrorInv /\ [OkfNext]_okfVars => MirrorInv'
<1> SUFFICES ASSUME SweepInv, MirrorInv, [OkfNext]_okfVars PROVE MirrorInv'
  OBVIOUS
<1>1. ChainsTyped' /\ Grown
  BY StoreGrows DEF MirrorInv
<1>2. AllSettled \/ OneMoved
  BY StepShows
<1>3. LogsAreSound' /\ LateShowMore'
  BY <1>1, <1>2, LogsStaySound, LateStillShowMore
<1>4. ReadsAreFresh' /\ PushesAreSound'
  <2>1. CASE GoesOn
    BY <1>1, <1>2, <2>1, ReadsStayFresh, PushesStaySound
  <2>2. ASSUME NEW t \in Targets, PlanDelivery(t) PROVE ReadsAreFresh' /\ PushesAreSound'
    BY <2>2, PlanIsSound
  <2>3. ASSUME NEW t \in Targets, ListCompetitors(t) PROVE ReadsAreFresh' /\ PushesAreSound'
    <3>1. push'.phase = "loading"
      BY <2>3 DEF ListCompetitors, SweepInv, PushShape
    <3>2. QED
      BY <2>3, <3>1, ListingIsFresh DEF PushesAreSound
  <2>4. ASSUME NEW t \in Targets, NEW r \in Rivals, NEW kinds \in {Dossier, Battlecard},
               ReadSections(t, r, kinds)
        PROVE  ReadsAreFresh' /\ PushesAreSound'
    <3>1. push'.phase = "loading"
      BY <2>4 DEF ReadSections, At, SweepInv, PushShape
    <3>2. QED
      BY <2>4, <3>1, ReadIsFresh DEF PushesAreSound
  <2>5. QED
    BY <2>1, <2>2, <2>3, <2>4, SweepGoesOn DEF SweepInv
<1>5. QED
  BY <1>1, <1>3, <1>4 DEF MirrorInv

-----------------------------------------------------------------------------
(* The delivery implements BundleMirror.                                    *)

\* What the log shows of the versions, as BundleMirror has them.
LEMMA ShownByLog == ASSUME NEW t PROVE ShownBy(t) = {WithVerdict(v) : v \in Shown(t)}
BY DEF ShownBy, Shown, Logged

LEMMA LogsArePublished ==
  ASSUME ChainsTyped, NEW t, NEW log, LogOK(t, log)
  PROVE  log \subseteq VersionsIn(chains)
<1> SUFFICES ASSUME NEW v \in log PROVE v \in VersionsIn(chains)
  OBVIOUS
<1>1. /\ v[1] \in DOMAIN chains /\ v[2] \in SectionKinds
      /\ v[3] \in 1 .. Len(chains[v[1]][v[2]]) /\ v = <<v[1], v[2], v[3]>>
  BY DEF LogOK, ChainsTyped
<1>2. QED
  BY <1>1, VersionIsIn

\* A repository that shows a sound log shows what BundleMirror lets it.
LEMMA SoundLogIsShown ==
  ASSUME ChainsTyped, NEW t \in Targets, NEW log, LogOK(t, log)
  PROVE  /\ {WithVerdict(v) : v \in log} \subseteq Published
         /\ Mirror!Complete({WithVerdict(v) : v \in log})
         /\ Mirror!HeadsVerified({WithVerdict(v) : v \in log})
<1> DEFINE versions == {WithVerdict(v) : v \in log}
<1>1. versions \subseteq Published
  BY LogsArePublished DEF Published
<1>2. \A v : WithVerdict(v)[1] = v[1] /\ WithVerdict(v)[2] = v[2] /\ WithVerdict(v)[3] = v[3]
             /\ WithVerdict(v)[4] = chains[v[1]][v[2]][v[3]].verified
  BY DEF WithVerdict
<1>3. ASSUME NEW v \in log, NEW w \in VersionsIn(chains), w[1] = v[1], w[2] = v[2], w[3] < v[3]
      PROVE  w \in log
  <2>1. v[3] \in 1 .. Len(chains[v[1]][v[2]]) /\ \A n \in 1 .. v[3] : <<v[1], v[2], n>> \in log
    BY DEF LogOK
  <2>2. PICK r \in DOMAIN chains, k \in SectionKinds : \E n \in 1 .. Len(chains[r][k]) : w = <<r, k, n>>
    BY VersionIsIn
  <2>3. PICK n \in 1 .. Len(chains[r][k]) : w = <<r, k, n>>
    BY <2>2
  <2>4. w[1] = r /\ w[2] = k /\ w[3] = n
    BY <2>3
  <2>5. n \in 1 .. v[3]
    BY <2>1, <2>4, <1>3
  <2>6. QED
    BY <2>1, <2>3, <2>4, <2>5, <1>3
<1>4. Mirror!Complete(versions)
  <2>1. SUFFICES ASSUME NEW v \in log, NEW w \in VersionsIn(chains),
                        Mirror!SameChain(WithVerdict(v), WithVerdict(w)),
                        WithVerdict(w)[3] < WithVerdict(v)[3]
                 PROVE  w \in log
    BY DEF Mirror!Complete, Published
  <2>2. w[1] = v[1] /\ w[2] = v[2] /\ w[3] < v[3]
    BY <1>2, <2>1 DEF Mirror!SameChain
  <2>3. QED
    BY <1>3, <2>2
<1>5. Mirror!HeadsVerified(versions)
  <2>1. SUFFICES ASSUME NEW v \in log
                 PROVE  \/ WithVerdict(v)[4]
                        \/ \E w \in versions : /\ Mirror!SameChain(WithVerdict(v), w)
                                               /\ WithVerdict(v)[3] < w[3]
    BY DEF Mirror!HeadsVerified
  <2>2. \/ chains[v[1]][v[2]][v[3]].verified
        \/ \E w \in log : w[1] = v[1] /\ w[2] = v[2] /\ v[3] < w[3]
    BY DEF LogOK
  <2>3. ASSUME NEW w \in log, w[1] = v[1], w[2] = v[2], v[3] < w[3]
        PROVE  /\ Mirror!SameChain(WithVerdict(v), WithVerdict(w))
               /\ WithVerdict(v)[3] < WithVerdict(w)[3]
    BY <2>3, <1>2 DEF Mirror!SameChain
  <2>4. QED
    BY <1>2, <2>2, <2>3
<1>6. QED
  BY <1>1, <1>4, <1>5

LEMMA WriteRefines ==
  ASSUME MirrorInv, ChainsTyped', Grown, NEW r, NEW k, NEW row, WriteSection(r, k, row)
  PROVE  Mirror!Next
<1>1. /\ r \in listed /\ r \in Rivals /\ k \in SectionKinds
      /\ Len(chains'[r][k]) = Len(chains[r][k]) + 1
      /\ \A q \in Rivals, j \in SectionKinds : <<q, j>> # <<r, k>> => chains'[q][j] = chains[q][j]
  BY SectionIsWritten DEF MirrorInv
<1>2. DOMAIN chains = Rivals /\ DOMAIN chains' = Rivals
  BY DEF MirrorInv, ChainsTyped
<1>3. \A q \in Rivals, j \in SectionKinds :
        chains[q][j] \in Seq(Rows) /\ Len(chains[q][j]) \in Nat
  BY DEF MirrorInv, ChainsTyped
<1>4. PICK number : number = Len(chains[r][k]) + 1
  OBVIOUS
<1>5. PICK new : new = <<r, k, number>>
  OBVIOUS
<1>6. /\ number \in Nat /\ number = Len(chains'[r][k]) /\ number \notin 1 .. Len(chains[r][k])
      /\ number \in 1 .. number
      /\ \A n \in 1 .. number : n = number \/ n \in 1 .. Len(chains[r][k])
      /\ \A n \in 1 .. Len(chains[r][k]) : n \in 1 .. number /\ n < number
  BY <1>1, <1>3, <1>4
<1>7. new[1] = r /\ new[2] = k /\ new[3] = number
  BY <1>5
<1>8. \A v : v \in VersionsIn(chains)' <=>
               \E q \in Rivals, j \in SectionKinds : \E n \in 1 .. Len(chains'[q][j]) : v = <<q, j, n>>
  BY <1>2, VersionIsIn DEF VersionsIn
<1>9. \A v : v \in VersionsIn(chains) <=>
               \E q \in Rivals, j \in SectionKinds : \E n \in 1 .. Len(chains[q][j]) : v = <<q, j, n>>
  BY <1>2, VersionIsIn
<1>10. VersionsIn(chains)' = VersionsIn(chains) \cup {new}
  <2>1. ASSUME NEW v \in VersionsIn(chains)' PROVE v \in VersionsIn(chains) \cup {new}
    <3>1. PICK q \in Rivals, j \in SectionKinds : \E n \in 1 .. Len(chains'[q][j]) : v = <<q, j, n>>
      BY <1>8, <2>1
    <3>2. PICK n \in 1 .. Len(chains'[q][j]) : v = <<q, j, n>>
      BY <3>1
    <3>3. CASE <<q, j>> = <<r, k>>
      <4>1. n \in 1 .. number /\ q = r /\ j = k
        BY <1>6, <3>2, <3>3
      <4>2. CASE n = number
        BY <4>1, <4>2, <1>5, <3>2
      <4>3. CASE n \in 1 .. Len(chains[q][j])
        BY <4>3, <1>9, <3>2
      <4>4. QED
        BY <4>1, <4>2, <4>3, <1>6
    <3>4. CASE <<q, j>> # <<r, k>>
      BY <1>1, <1>9, <3>2, <3>4
    <3>5. QED
      BY <3>3, <3>4
  <2>2. ASSUME NEW v \in VersionsIn(chains) PROVE v \in VersionsIn(chains)'
    <3>1. PICK q \in Rivals, j \in SectionKinds : \E n \in 1 .. Len(chains[q][j]) : v = <<q, j, n>>
      BY <1>9, <2>2
    <3>2. PICK n \in 1 .. Len(chains[q][j]) : v = <<q, j, n>>
      BY <3>1
    <3>3. n \in 1 .. Len(chains'[q][j])
      BY <1>1, <1>6, <3>2
    <3>4. QED
      BY <1>8, <3>2, <3>3
  <2>3. new \in VersionsIn(chains)'
    BY <1>1, <1>5, <1>6, <1>8
  <2>4. QED
    BY <2>1, <2>2, <2>3
<1>11. ASSUME NEW v \in VersionsIn(chains)
       PROVE  /\ WithVerdict(v)' = WithVerdict(v)
              /\ v[1] = r /\ v[2] = k => v[3] < number
  <2>1. PICK q \in Rivals, j \in SectionKinds : \E n \in 1 .. Len(chains[q][j]) : v = <<q, j, n>>
    BY <1>9, <1>11
  <2>2. PICK n \in 1 .. Len(chains[q][j]) : v = <<q, j, n>>
    BY <2>1
  <2>3. v[1] = q /\ v[2] = j /\ v[3] = n
    BY <2>2
  <2>4. chains'[q][j][n] = chains[q][j][n]
    BY <2>2 DEF Grown
  <2>5. WithVerdict(v)' = WithVerdict(v)
    BY <2>3, <2>4 DEF WithVerdict
  <2>6. QED
    BY <2>2, <2>3, <2>5, <1>6 DEF WithVerdict
<1>12. PICK added : added = WithVerdict(new)'
  BY DEF WithVerdict
<1>13. added[1] = r /\ added[2] = k /\ added[3] = number
  BY <1>7, <1>12 DEF WithVerdict
<1>14. \A v : WithVerdict(v)[1] = v[1] /\ WithVerdict(v)[2] = v[2] /\ WithVerdict(v)[3] = v[3]
  BY DEF WithVerdict
<1>15. Published' = Published \cup {added}
  <2>1. Published' = {WithVerdict(v)' : v \in VersionsIn(chains)'}
    BY DEF Published, WithVerdict
  <2>2. {WithVerdict(v)' : v \in VersionsIn(chains)'}
          = {WithVerdict(v)' : v \in VersionsIn(chains)} \cup {WithVerdict(new)'}
    BY <1>10 DEF WithVerdict
  <2>3. {WithVerdict(v)' : v \in VersionsIn(chains)} = Published
    BY <1>11 DEF Published, WithVerdict
  <2>4. QED
    BY <2>1, <2>2, <2>3, <1>12 DEF WithVerdict
<1>16. \A w \in Published : Mirror!SameChain(added, w) => w[3] < added[3]
  BY <1>11, <1>13, <1>14 DEF Published, WithVerdict, Mirror!SameChain
<1>17. added \in Published' \ Published
  <2>1. added \notin Published
    <3>1. Mirror!SameChain(added, added) /\ ~(added[3] < added[3])
      BY <1>6, <1>13 DEF Mirror!SameChain
    <3>2. QED
      BY <1>16, <3>1
  <2>2. QED
    BY <1>15, <2>1
<1>18. ASSUME NEW t \in Targets PROVE ShownBy(t)' = ShownBy(t)
  <2>1. Shown(t)' = Shown(t)
    BY DEF WriteSection, Shown, Visible
  <2>2. Shown(t) \subseteq VersionsIn(chains)
    <3>1. LogOK(t, Shown(t))
      BY DEF MirrorInv, LogsAreSound, Shows
    <3>2. QED
      BY <3>1, LogsArePublished DEF MirrorInv
  <2>3. ShownBy(t)' = {WithVerdict(v)' : v \in Shown(t)'}
    BY DEF ShownBy, Shown, Logged, Visible, WithVerdict
  <2>4. QED
    BY <2>1, <2>2, <2>3, <1>11, ShownByLog DEF WithVerdict
<1>19. ShownByAll' = ShownByAll
  BY <1>18 DEF ShownByAll
<1>20. Mirror!Publish(added)
  BY <1>15, <1>16, <1>19 DEF Mirror!Publish
<1>21. QED
  BY <1>17, <1>20 DEF Mirror!Next

\* The store stands still, and no repository shows anything new.
LEMMA QuietRefines ==
  ASSUME chains' = chains, \A t \in Targets : Shown(t)' = Shown(t)
  PROVE  UNCHANGED Mirror!vars
<1>1. \A v : WithVerdict(v)' = WithVerdict(v)
  BY DEF WithVerdict
<1>2. Published' = Published
  BY <1>1 DEF Published, VersionsIn, WithVerdict
<1>3. \A t \in Targets : ShownBy(t)' = ShownBy(t)
  BY <1>1 DEF ShownBy, Shown, Logged, WithVerdict, Visible
<1>4. ShownByAll' = ShownByAll
  BY <1>3 DEF ShownByAll
<1>5. QED
  BY <1>2, <1>4 DEF Mirror!vars

\* The tip of one branch moves.
LEMMA MoveRefines ==
  ASSUME MirrorInv, MirrorInv', OneMoved
  PROVE  Mirror!Next
<1>1. PICK t \in Targets : Moved(t) /\ \A u \in Targets \ {t} : Settled(u)
  BY DEF OneMoved
<1>2. chains' = chains
  BY DEF OneMoved
<1>3. \A v : WithVerdict(v)' = WithVerdict(v)
  BY <1>2 DEF WithVerdict
<1>4. Published' = Published
  BY <1>2 DEF Published, VersionsIn, WithVerdict
<1>5. \A u \in Targets : ShownBy(u)' = {WithVerdict(v) : v \in Shown(u)'}
  BY <1>2 DEF ShownBy, Shown, Logged, WithVerdict, Visible
<1>6. \A u \in Targets \ {t} : ShownBy(u)' = ShownBy(u)
  BY <1>1, <1>5, ShownByLog DEF Settled
<1>7. PICK log : log = Shown(t)'
  OBVIOUS
<1>8. LogOK(t, log)'
  <2>1. log \in Shows(t)'
    BY <1>7 DEF Shows, Shown, Visible
  <2>2. QED
    BY <2>1 DEF MirrorInv, LogsAreSound
<1>9. LogOK(t, log)
  <2>1. listed' = listed
    BY DEF OneMoved
  <2>2. QED
    BY <1>2, <1>8, <2>1 DEF LogOK
<1>10. PICK versions : versions = {WithVerdict(v) : v \in log}
  OBVIOUS
<1>11. versions = ShownBy(t)'
  BY <1>5, <1>7, <1>10
<1>12. versions \subseteq Published /\ Mirror!Complete(versions) /\ Mirror!HeadsVerified(versions)
  BY <1>9, <1>10, SoundLogIsShown DEF MirrorInv
<1>13. ShownBy(t) \subseteq versions
  BY <1>1, <1>7, <1>10, ShownByLog DEF Moved
<1>14. /\ ShownByAll' = [ShownByAll EXCEPT ![t] = versions]
       /\ ShownByAll'[t] = versions /\ ShownByAll[t] = ShownBy(t)
  BY <1>6, <1>11 DEF ShownByAll
<1>15. Mirror!Show(t, versions)
  BY <1>4, <1>12, <1>13, <1>14 DEF Mirror!Show
<1>16. QED
  BY <1>12, <1>14, <1>15 DEF Mirror!Next

LEMMA DeliveryRefines ==
  SweepInv /\ MirrorInv /\ MirrorInv' /\ [OkfNext]_okfVars => [Mirror!Next]_(Mirror!vars)
<1> SUFFICES ASSUME SweepInv, MirrorInv, MirrorInv', [OkfNext]_okfVars
             PROVE  Mirror!Next \/ UNCHANGED Mirror!vars
  OBVIOUS
<1>1. CASE OneMoved
  BY <1>1, MoveRefines
<1>2. CASE AllSettled
  <2>1. CASE chains' = chains
    BY <1>2, <2>1, QuietRefines DEF AllSettled, Settled
  <2>2. CASE \E draft \in Drafts : WriteSection(draft[1], draft[2], draft[3])
    BY <2>2, StoreGrows, WriteRefines DEF MirrorInv
  <2>3. QED
    <3>1. \A t \in Targets :
            \/ ForeignPush(t) \/ MergePullRequest(t) \/ DeleteBranch(t)
            \/ CallFails(t) \/ TimeOut(t) \/ PullRequestFails(t) \/ RecordFails(t) \/ Crash(t)
            \/ \E change \in late[t] : LateMoveRef(t, change)
            => chains' = chains
      BY DEF ForeignPush, MergePullRequest, DeleteBranch, CallFails, TimeOut, PullRequestFails,
             RecordFails, Crash, LateMoveRef, store
    <3>2. SweepStep => chains' = chains
      BY DEF SweepStep, StartSweep, ListCompetitors, ReadSections, ProjectionThrows, Block,
             PlanDelivery, ResolveHead, MoveRef, EnsurePullRequest, RecordPublished,
             RecordFailedAttempt, store
    <3>3. (\E r \in Joining : InsertRival(r)) \/ UNCHANGED okfVars => chains' = chains
      BY DEF InsertRival, okfVars
    <3>4. QED
      BY <2>1, <2>2, <3>1, <3>2, <3>3 DEF OkfNext
<1>3. QED
  BY <1>1, <1>2, StepShows

\* The sweeps, with their torn reads, requests that outlive them, crashes and merges, never
\* take back a version a repository has shown, never show one that was not published or
\* without those before it, and never show an unverified one as the newest, for any rivals,
\* names, targets, settings and mishaps.
\* (what is pushed is the projection of the read, okf-delivery.ts:97-140)
THEOREM DeliveryMirrors == OkfSpec => ImplementsMirror
<1>1. OkfInit => Mirror!Init
  <2> SUFFICES ASSUME OkfInit PROVE Mirror!Init
    OBVIOUS
  <2>1. \A r \in Rivals, k \in SectionKinds : Len(chains[r][k]) = 0
    BY DEF OkfInit
  <2>2. DOMAIN chains = Rivals
    BY DEF OkfInit
  <2>3. \A v : v \notin VersionsIn(chains)
    BY <2>1, <2>2, VersionIsIn
  <2>4. \A t \in Targets : ShownBy(t) = {}
    BY DEF OkfInit, ShownBy, Visible, NoFiles
  <2>5. QED
    BY <2>3, <2>4 DEF Mirror!Init, Published, ShownByAll
<1>2. OkfSpec => Mirror!Spec
  BY <1>1, SweepStart, SweepStepKeeps, MirrorStart, MirrorKept, DeliveryRefines, PTL
     DEF OkfSpec, Mirror!Spec
<1>3. QED
  BY <1>2 DEF ImplementsMirror
-----------------------------------------------------------------------------
(* Types.                                                                    *)

Phases == {"idle", "listing", "loading", "publishing", "pushing", "pulling", "accepted", "failed"}

\* The files of every bundle that is under way, recorded or in a repository are where a
\* bundle has its files.
FilesInv ==
  /\ \A w \in Owners : IsFiles(latest[w])
  /\ \A t \in Targets : IsFiles(repo[t].branch) /\ IsFiles(repo[t].base)
  /\ IsFiles(push.files)
  /\ \A t \in Targets : \A change \in late[t] : IsFiles(change.files)

PushTypes ==
  /\ push.phase \in Phases
  /\ DOMAIN push.input \subseteq listed
  /\ push.deletions \cap DOMAIN push.files = {}

\* Every request that was given up has been a mishap.
LateCounted ==
  /\ \A t \in Targets : IsFiniteSet(late[t]) /\ Cardinality(late[t]) <= mishaps
  /\ mishaps \in 0 .. MaxMishaps

\* The inductive invariant of the types, beside those of the sweeps and of their logs.
OkfTypesInv == FilesInv /\ PushTypes /\ LateCounted

LEMMA NoFilesAreFiles == IsFiles(NoFiles) /\ DOMAIN NoFiles = {}
BY DEF NoFiles, IsFiles

\* The files of a bundle are those of its documents.
LEMMA BundleIsFiles ==
  ASSUME NEW chosen
  PROVE  IsFiles(Bundle(Docs(chosen)))
<1> SUFFICES ASSUME NEW path \in DOMAIN Bundle(Docs(chosen)) PROVE IsPath(path)
  BY DEF IsFiles
<1>1. PICK slugs : slugs = [r \in DOMAIN chosen |-> SlugOf(r, DOMAIN chosen)]
  OBVIOUS
<1>2. PICK doc \in Docs(chosen) : path = doc.path
  BY DEF Bundle
<1>3. CASE \E h \in Heads(chosen) :
             doc = SectionDoc(h[1], slugs[h[1]], h[2], chosen[h[1]][h[2]])
  <2>1. PICK h \in Heads(chosen) :
          doc = SectionDoc(h[1], slugs[h[1]], h[2], chosen[h[1]][h[2]])
    BY <1>3
  <2>2. /\ doc.path = <<<<"competitors">>, slugs[h[1]], Family(h[2]), <<h[2]>>>>
        /\ h[2] \in SectionKinds
    BY <2>1 DEF SectionDoc, Heads
  <2>3. path[2] = slugs[h[1]]
    BY <1>2, <2>2
  <2>4. QED
    BY <1>2, <2>2, <2>3 DEF IsPath
<1>4. CASE \E r \in DOMAIN chosen : \E kinds : doc = CompetitorIndexDoc(r, slugs[r], kinds)
  <2>1. PICK r \in DOMAIN chosen : doc.path = <<<<"competitors">>, slugs[r], Index>>
    BY <1>4 DEF CompetitorIndexDoc
  <2>2. path[2] = slugs[r]
    BY <1>2, <2>1
  <2>3. QED
    BY <1>2, <2>1, <2>2 DEF IsPath
<1>5. CASE doc = RootIndexDoc(slugs) \/ doc = LogDoc(chosen)
  <2>1. doc.path \in {<<Index>>, <<Log>>}
    BY <1>5 DEF RootIndexDoc, LogDoc
  <2>2. QED
    BY <1>2, <2>1 DEF IsPath
<1>6. QED
  BY <1>1, <1>2, <1>3, <1>4, <1>5 DEF Docs

\* What a push lays on a tree leaves files of a bundle.
LEMMA OntoIsFiles ==
  ASSUME NEW tree, NEW change, IsFiles(tree), IsFiles(change.files)
  PROVE  IsFiles(Onto(tree, change))
BY DEF Onto, IsFiles

LEMMA IdleTypes ==
  /\ Idle.files = NoFiles /\ Idle.deletions = {} /\ DOMAIN Idle.input = {}
  /\ Advanced.files = NoFiles /\ Advanced.deletions = {} /\ DOMAIN Advanced.input = {}
  /\ Idle.phase = "idle" /\ Advanced.phase \in {"idle", "listing"}
BY DEF Idle, Advanced

\* A step of the sweep or of its surroundings keeps the push, begins anew, reads on or
\* plans what it has read.
LEMMA PushGoesOn ==
  ASSUME PushShape, push.phase \in Phases, [OkfNext]_okfVars
  PROVE  /\ push'.phase \in Phases
         /\ \/ /\ push'.files = push.files /\ push'.deletions = push.deletions
               /\ DOMAIN push'.input \subseteq DOMAIN push.input \cup listed
            \/ push'.files = NoFiles /\ push'.deletions = {} /\ DOMAIN push'.input = {}
            \/ \E t \in Targets :
                 /\ push'.files = Bundle(Docs(push.input))
                 /\ push'.deletions = Removed(TargetOf[t], push'.files)
                 /\ push'.input = push.input
<1>p. DOMAIN push = {"phase", "todo", "recorded", "unread", "input", "files", "deletions",
                     "behind"}
  BY DEF PushShape
<1>q. ASSUME push' = push
      PROVE  push'.phase \in Phases /\ push'.files = push.files /\ push'.deletions = push.deletions
             /\ push'.input = push.input
  BY <1>q
<1>r. ASSUME NEW phase \in Phases, push' = [push EXCEPT !.phase = phase]
      PROVE  push'.phase \in Phases /\ push'.files = push.files /\ push'.deletions = push.deletions
             /\ push'.input = push.input
  BY <1>p, <1>r
<1>b. ASSUME push' = [push EXCEPT !.behind = TRUE]
      PROVE  push'.phase \in Phases /\ push'.files = push.files /\ push'.deletions = push.deletions
             /\ push'.input = push.input
  BY <1>p, <1>b
<1>a. ASSUME push' = Idle \/ push' = Advanced \/ \E t \in Targets : RecordPublished(t)
      PROVE  /\ push'.phase \in Phases /\ push'.files = NoFiles /\ push'.deletions = {}
             /\ DOMAIN push'.input = {}
  BY <1>a, IdleTypes DEF RecordPublished, Phases, Idle, Advanced
<1>1. CASE StartSweep
  BY <1>1 DEF StartSweep, Idle, Phases
<1>2. ASSUME NEW t \in Targets, ListCompetitors(t)
      PROVE  /\ push'.phase \in Phases
             /\ push'.files = push.files /\ push'.deletions = push.deletions
             /\ DOMAIN push'.input \subseteq listed
  BY <1>2, <1>p DEF ListCompetitors, Phases
<1>3. ASSUME NEW t, NEW r, NEW kinds, ReadSections(t, r, kinds)
      PROVE  /\ push'.phase \in Phases
             /\ push'.files = push.files /\ push'.deletions = push.deletions
             /\ DOMAIN push'.input = DOMAIN push.input
  BY <1>3, <1>p DEF ReadSections
<1>4. ASSUME NEW t \in Targets, ProjectionThrows(t) \/ RecordFails(t) \/ RecordFailedAttempt(t)
      PROVE  push' = Advanced
  BY <1>4 DEF ProjectionThrows, RecordFails, RecordFailedAttempt
<1>5. ASSUME NEW t \in Targets, PlanDelivery(t)
      PROVE  \/ push' = Advanced
             \/ /\ push'.phase \in Phases
                /\ push'.files = Bundle(Docs(push.input))
                /\ push'.deletions = Removed(TargetOf[t], push'.files)
                /\ push'.input = push.input
  <2>1. PICK files : files = Bundle(Docs(push.input))
    OBVIOUS
  <2>2. CASE push' = [push EXCEPT !.phase = "publishing", !.files = files,
                                   !.deletions = Removed(TargetOf[t], files)]
    BY <2>1, <2>2, <1>p DEF Phases
  <2>3. QED
    BY <1>5, <2>1, <2>2 DEF PlanDelivery
<1>6. ASSUME NEW t \in Targets,
             \/ Block(t) \/ ResolveHead(t) \/ CallFails(t) \/ MoveRef(t) \/ TimeOut(t)
             \/ EnsurePullRequest(t) \/ PullRequestFails(t)
      PROVE  \E phase \in Phases : push' = [push EXCEPT !.phase = phase]
  BY <1>6 DEF Block, ResolveHead, CallFails, MoveRef, TimeOut, EnsurePullRequest,
              PullRequestFails, Pushed, Phases
<1>7. ASSUME NEW t \in Targets,
             \/ ForeignPush(t) \/ DeleteBranch(t) \/ MergePullRequest(t)
             \/ \E change \in late[t] : LateMoveRef(t, change)
      PROVE  push' = push \/ push' = [push EXCEPT !.behind = TRUE]
  BY <1>7 DEF ForeignPush, DeleteBranch, MergePullRequest, LateMoveRef, TipMoves
<1>8. ASSUME NEW t \in Targets, Crash(t) PROVE push' = Idle
  BY <1>8 DEF Crash
<1>9. CASE \/ \E r \in Joining : InsertRival(r)
           \/ \E draft \in Drafts : WriteSection(draft[1], draft[2], draft[3])
           \/ UNCHANGED okfVars
  BY <1>9 DEF InsertRival, WriteSection, okfVars
<1>10. CASE SweepStep
  <2>1. CASE \E t \in Targets : RecordPublished(t)
    BY <2>1, <1>a
  <2>2. CASE \E t \in Targets :
               \/ ListCompetitors(t)
               \/ \E r \in Rivals, kinds \in {Dossier, Battlecard} : ReadSections(t, r, kinds)
    BY <2>2, <1>2, <1>3
  <2>3. CASE \E t \in Targets : ProjectionThrows(t) \/ RecordFailedAttempt(t)
    BY <2>3, <1>4, <1>a
  <2>4. CASE \E t \in Targets : PlanDelivery(t)
    BY <2>4, <1>5, <1>a
  <2>5. CASE \E t \in Targets :
               Block(t) \/ ResolveHead(t) \/ MoveRef(t) \/ EnsurePullRequest(t)
    BY <2>5, <1>6, <1>r
  <2>6. QED
    BY <1>10, <1>1, <2>1, <2>2, <2>3, <2>4, <2>5 DEF SweepStep
<1>11. CASE \E t \in Targets :
              \/ ForeignPush(t) \/ MergePullRequest(t) \/ DeleteBranch(t)
              \/ CallFails(t) \/ TimeOut(t) \/ PullRequestFails(t) \/ RecordFails(t) \/ Crash(t)
              \/ \E change \in late[t] : LateMoveRef(t, change)
  BY <1>11, <1>4, <1>6, <1>7, <1>8, <1>a, <1>b, <1>q, <1>r
<1>12. QED
  BY <1>9, <1>10, <1>11, <1>q DEF OkfNext
\* Paths only move between the manifests, the repository, the push and what is given up.
LEMMA FilesKept ==
  ASSUME SweepInv, FilesInv, PushTypes, [OkfNext]_okfVars
  PROVE  FilesInv'
<1>i. PushShape /\ RepoShape
  BY DEF SweepInv
<1>p. IsFiles(push'.files)
  BY <1>i, PushGoesOn, NoFilesAreFiles, BundleIsFiles DEF FilesInv, PushTypes
<1>s. /\ DOMAIN repo = Targets /\ DOMAIN late = Targets /\ DOMAIN latest = Owners
      /\ \A t \in Targets : DOMAIN repo[t] = {"made", "branch", "base"}
  BY <1>i DEF RepoShape
<1>l. ASSUME latest' = latest PROVE \A w \in Owners : IsFiles(latest'[w])
  BY <1>l DEF FilesInv
<1>r. ASSUME repo' = repo PROVE \A t \in Targets : IsFiles(repo'[t].branch) /\ IsFiles(repo'[t].base)
  BY <1>r DEF FilesInv
<1>c. Change.files = push.files /\ IsFiles(push.files)
  BY DEF Change, FilesInv
<1>o. ASSUME NEW t \in Targets, NEW change, IsFiles(change.files),
             repo' = [repo EXCEPT ![t].branch = Onto(@, change)]
      PROVE  \A u \in Targets : IsFiles(repo'[u].branch) /\ IsFiles(repo'[u].base)
  <2>1. IsFiles(Onto(repo[t].branch, change))
    BY <1>o, OntoIsFiles DEF FilesInv
  <2>2. \A u \in Targets : /\ repo'[u].base = repo[u].base
                            /\ repo'[u].branch = IF u = t THEN Onto(repo[t].branch, change)
                                                 ELSE repo[u].branch
    BY <1>o, <1>s
  <2>3. QED
    BY <2>1, <2>2 DEF FilesInv
<1>a. ASSUME NEW t \in Targets, \A u \in Targets : late'[u] \subseteq late[u] \cup {Change}
      PROVE  \A u \in Targets : \A change \in late'[u] : IsFiles(change.files)
  BY <1>a, <1>c DEF FilesInv
<1>1. ASSUME UNCHANGED <<latest, repo, late>> PROVE FilesInv'
  BY <1>1, <1>p DEF FilesInv
<1>2. CASE SweepStep
  <2>1. ASSUME NEW t \in Targets, ResolveHead(t) PROVE FilesInv'
    <3>1. latest' = latest /\ late' = late
      BY <2>1 DEF ResolveHead, store
    <3>2. \A u \in Targets : /\ repo'[u].base = repo[u].base
                              /\ repo'[u].branch \in {repo[u].branch, repo[u].base}
      BY <2>1, <1>s DEF ResolveHead
    <3>3. QED
      BY <3>1, <3>2, <1>p DEF FilesInv
  <2>2. ASSUME NEW t \in Targets, MoveRef(t) PROVE FilesInv'
    <3>1. latest' = latest /\ \A u \in Targets : late'[u] \subseteq late[u]
      BY <2>2, <1>s DEF MoveRef, store
    <3>2. \A u \in Targets : IsFiles(repo'[u].branch) /\ IsFiles(repo'[u].base)
      BY <2>2, <1>c, <1>o, <1>r DEF MoveRef
    <3>3. QED
      BY <3>1, <3>2, <1>p DEF FilesInv
  <2>3. ASSUME NEW t \in Targets, RecordPublished(t) PROVE FilesInv'
    <3>1. repo' = repo /\ late' = late
      BY <2>3 DEF RecordPublished
    <3>2. \A w \in Owners : latest'[w] \in {latest[w], push.files}
      BY <2>3, <1>s DEF RecordPublished, LatestAfter
    <3>3. QED
      BY <3>1, <3>2, <1>p, <1>c DEF FilesInv
  <2>4. ASSUME NEW t \in Targets,
               \/ ListCompetitors(t)
               \/ \E r \in Rivals, kinds \in {Dossier, Battlecard} : ReadSections(t, r, kinds)
               \/ ProjectionThrows(t) \/ Block(t) \/ PlanDelivery(t)
               \/ EnsurePullRequest(t) \/ RecordFailedAttempt(t)
        PROVE  UNCHANGED <<latest, repo, late>>
    BY <2>4 DEF ListCompetitors, ReadSections, ProjectionThrows, Block, PlanDelivery,
                EnsurePullRequest, RecordFailedAttempt, store
  <2>5. CASE StartSweep
    BY <2>5, <1>1 DEF StartSweep, store
  <2>6. QED
    BY <1>2, <2>1, <2>2, <2>3, <2>4, <2>5, <1>1 DEF SweepStep
<1>3. ASSUME NEW t \in Targets, MergePullRequest(t) \/ DeleteBranch(t) PROVE FilesInv'
  <2>1. latest' = latest /\ \A u \in Targets : late'[u] \subseteq late[u]
    BY <1>3, <1>s DEF MergePullRequest, DeleteBranch, TipMoves, store
  <2>2. \A u \in Targets : /\ repo'[u].base \in {repo[u].branch, repo[u].base}
                            /\ repo'[u].branch \in {repo[u].branch, NoFiles}
    BY <1>3, <1>s DEF MergePullRequest, DeleteBranch
  <2>3. QED
    BY <2>1, <2>2, <1>p, NoFilesAreFiles DEF FilesInv
<1>4. ASSUME NEW t \in Targets,
             ForeignPush(t) \/ CallFails(t) \/ PullRequestFails(t) \/ RecordFails(t)
      PROVE  latest' = latest /\ repo' = repo /\ \A u \in Targets : late'[u] \subseteq late[u]
  BY <1>4, <1>s DEF ForeignPush, CallFails, PullRequestFails, RecordFails, TipMoves, store
<1>5. ASSUME NEW t \in Targets, TimeOut(t) \/ Crash(t) PROVE FilesInv'
  <2>1. /\ latest' = latest /\ repo' = repo
        /\ \A u \in Targets : late'[u] \subseteq late[u] \cup {Change}
    BY <1>5, <1>s DEF TimeOut, Crash, store
  <2>2. QED
    BY <2>1, <1>5, <1>a, <1>l, <1>p, <1>r DEF FilesInv
<1>6. ASSUME NEW t \in Targets, NEW change \in late[t], LateMoveRef(t, change) PROVE FilesInv'
  <2>1. /\ latest' = latest /\ \A u \in Targets : late'[u] \subseteq late[u]
        /\ repo' = [repo EXCEPT ![t].branch = Onto(@, change)]
    BY <1>6, <1>s DEF LateMoveRef, TipMoves, store
  <2>2. IsFiles(change.files)
    BY <1>6 DEF FilesInv
  <2>3. \A u \in Targets : IsFiles(repo'[u].branch) /\ IsFiles(repo'[u].base)
    BY <2>1, <2>2, <1>o
  <2>4. QED
    BY <2>1, <2>3, <1>p DEF FilesInv
<1>7. CASE \/ \E r \in Joining : InsertRival(r)
           \/ \E draft \in Drafts : WriteSection(draft[1], draft[2], draft[3])
           \/ UNCHANGED okfVars
  BY <1>7, <1>1 DEF InsertRival, WriteSection, okfVars
<1>8. ASSUME latest' = latest, repo' = repo, \A u \in Targets : late'[u] \subseteq late[u]
      PROVE  FilesInv'
  BY <1>8, <1>p DEF FilesInv
<1>9. QED
  BY <1>2, <1>3, <1>4, <1>5, <1>6, <1>7, <1>8 DEF OkfNext

LEMMA PushTypesKept ==
  ASSUME SweepInv, ChainsTyped, PushTypes, [OkfNext]_okfVars
  PROVE  PushTypes'
<1>1. PushShape /\ listed \subseteq listed'
  BY StoreGrows DEF SweepInv, Grown
<1>2. push.phase \in Phases /\ DOMAIN push.input \subseteq listed
      /\ push.deletions \cap DOMAIN push.files = {}
  BY DEF PushTypes
<1>3. CASE /\ push'.files = push.files /\ push'.deletions = push.deletions
           /\ DOMAIN push'.input \subseteq DOMAIN push.input \cup listed
  BY <1>1, <1>2, <1>3, PushGoesOn DEF PushTypes
<1>4. CASE push'.files = NoFiles /\ push'.deletions = {} /\ DOMAIN push'.input = {}
  BY <1>1, <1>2, <1>4, PushGoesOn DEF PushTypes
<1>5. CASE \E t \in Targets : /\ push'.deletions = Removed(TargetOf[t], push'.files)
                              /\ push'.input = push.input
  BY <1>1, <1>2, <1>5, PushGoesOn DEF PushTypes, Removed
<1>6. QED
  BY <1>1, <1>2, <1>3, <1>4, <1>5, PushGoesOn

\* What is given up is one more request, and one more mishap.
LEMMA LateStaysCounted ==
  ASSUME SweepInv, LateCounted, [OkfNext]_okfVars
  PROVE  LateCounted'
<1>s. DOMAIN late = Targets
  BY DEF SweepInv, RepoShape
<1>n. mishaps \in Nat /\ MaxMishaps \in Nat
  BY OkfAssumption DEF LateCounted
<1>e. IsFiniteSet({}) /\ Cardinality({}) = 0
  BY FS_EmptySet
<1>1. ASSUME mishaps' = mishaps \/ Mishap,
             \A u \in Targets : late'[u] = late[u] \/ late'[u] = {}
      PROVE  LateCounted'
  <2>1. mishaps' \in 0 .. MaxMishaps /\ mishaps <= mishaps'
    BY <1>1, <1>n DEF LateCounted, Mishap
  <2>2. ASSUME NEW u \in Targets PROVE IsFiniteSet(late'[u]) /\ Cardinality(late'[u]) <= mishaps'
    <3>1. IsFiniteSet(late[u]) /\ Cardinality(late[u]) <= mishaps /\ Cardinality(late[u]) \in Nat
      BY FS_CardinalityType DEF LateCounted
    <3>2. CASE late'[u] = {}
      BY <3>2, <1>e, <2>1
    <3>3. CASE late'[u] = late[u]
      BY <3>1, <3>3, <2>1, <1>n
    <3>4. QED
      BY <1>1, <3>2, <3>3
  <2>3. QED
    BY <2>1, <2>2 DEF LateCounted
<1>2. ASSUME Mishap,
             \A u \in Targets : late'[u] = late[u] \/ late'[u] = late[u] \cup {Change}
      PROVE  LateCounted'
  <2>1. mishaps' \in 0 .. MaxMishaps /\ mishaps' = mishaps + 1
    BY <1>2, <1>n DEF LateCounted, Mishap
  <2>2. ASSUME NEW u \in Targets PROVE IsFiniteSet(late'[u]) /\ Cardinality(late'[u]) <= mishaps'
    <3>1. IsFiniteSet(late[u]) /\ Cardinality(late[u]) <= mishaps /\ Cardinality(late[u]) \in Nat
      BY FS_CardinalityType DEF LateCounted
    <3>2. CASE late'[u] = late[u] \cup {Change}
      <4>1. /\ IsFiniteSet(late[u] \cup {Change})
            /\ \/ Cardinality(late[u] \cup {Change}) = Cardinality(late[u])
               \/ Cardinality(late[u] \cup {Change}) = Cardinality(late[u]) + 1
        BY <3>1, FS_AddElement
      <4>2. QED
        BY <3>1, <3>2, <4>1, <2>1, <1>n
    <3>3. CASE late'[u] = late[u]
      BY <3>1, <3>3, <2>1, <1>n
    <3>4. QED
      BY <1>2, <3>2, <3>3
  <2>3. QED
    BY <2>1, <2>2 DEF LateCounted
<1>3. CASE SweepStep
  <2>1. ASSUME NEW t \in Targets,
               \/ ListCompetitors(t)
               \/ \E r \in Rivals, kinds \in {Dossier, Battlecard} : ReadSections(t, r, kinds)
               \/ ProjectionThrows(t) \/ Block(t) \/ PlanDelivery(t)
               \/ ResolveHead(t) \/ EnsurePullRequest(t) \/ RecordPublished(t)
               \/ RecordFailedAttempt(t)
        PROVE  mishaps' = mishaps /\ late' = late
    BY <2>1 DEF ListCompetitors, ReadSections, ProjectionThrows, Block, PlanDelivery, ResolveHead,
                EnsurePullRequest, RecordPublished, RecordFailedAttempt
  <2>2. ASSUME NEW t \in Targets, MoveRef(t)
        PROVE  mishaps' = mishaps /\ \A u \in Targets : late'[u] = late[u] \/ late'[u] = {}
    BY <2>2, <1>s DEF MoveRef
  <2>3. CASE StartSweep
    BY <2>3, <1>1 DEF StartSweep
  <2>4. QED
    BY <1>3, <1>1, <2>1, <2>2, <2>3 DEF SweepStep
<1>4. ASSUME NEW t \in Targets,
             \/ ForeignPush(t) \/ MergePullRequest(t) \/ DeleteBranch(t)
             \/ CallFails(t) \/ PullRequestFails(t) \/ RecordFails(t)
             \/ \E change \in late[t] : LateMoveRef(t, change)
      PROVE  /\ mishaps' = mishaps \/ Mishap
             /\ \A u \in Targets : late'[u] = late[u] \/ late'[u] = {}
  BY <1>4, <1>s DEF ForeignPush, MergePullRequest, DeleteBranch, CallFails, PullRequestFails,
                    RecordFails, LateMoveRef, TipMoves
<1>5. ASSUME NEW t \in Targets, TimeOut(t) \/ Crash(t)
      PROVE  /\ Mishap
             /\ \A u \in Targets : late'[u] = late[u] \/ late'[u] = late[u] \cup {Change}
  BY <1>5, <1>s DEF TimeOut, Crash
<1>6. CASE \/ \E r \in Joining : InsertRival(r)
           \/ \E draft \in Drafts : WriteSection(draft[1], draft[2], draft[3])
           \/ UNCHANGED okfVars
  BY <1>6, <1>1 DEF InsertRival, WriteSection, okfVars
<1>7. QED
  BY <1>1, <1>2, <1>3, <1>4, <1>5, <1>6 DEF OkfNext

LEMMA TypesStart == OkfInit => OkfTypesInv
<1> SUFFICES ASSUME OkfInit PROVE OkfTypesInv
  OBVIOUS
<1>1. FilesInv
  BY NoFilesAreFiles, IdleTypes DEF OkfInit, FilesInv
<1>2. PushTypes
  BY NoFilesAreFiles, IdleTypes DEF OkfInit, PushTypes, Phases
<1>3. LateCounted
  BY FS_EmptySet, OkfAssumption DEF OkfInit, LateCounted
<1>4. QED
  BY <1>1, <1>2, <1>3 DEF OkfTypesInv

\* The invariants of the sweeps, of their logs and of their types, kept by every step.
DeliveryInv == SweepInv /\ MirrorInv /\ OkfTypesInv

LEMMA DeliveryStart == OkfInit => DeliveryInv
BY SweepStart, MirrorStart, TypesStart DEF DeliveryInv

LEMMA DeliveryStep == DeliveryInv /\ [OkfNext]_okfVars => DeliveryInv'
BY SweepStepKeeps, MirrorKept, FilesKept, PushTypesKept, LateStaysCounted
DEF DeliveryInv, MirrorInv, OkfTypesInv

LEMMA DeliveryTyped == DeliveryInv => OkfTypeOK
BY DEF DeliveryInv, SweepInv, PushShape, MirrorInv, ChainsTyped, OkfTypesInv, FilesInv, PushTypes,
       Phases, LateCounted, OkfTypeOK
=============================================================================
