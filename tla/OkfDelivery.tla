----------------------------- MODULE OkfDelivery -----------------------------
(***************************************************************************)
(* runOkfDelivery and the GitHub publisher.                                *)
(*                                                                         *)
(* For each configured target in turn a sweep reads the workspace, which   *)
(* changes meanwhile, projects it, compares the manifest with that of the  *)
(* workspace's latest published delivery, pushes what changed, and records *)
(* the outcome.  The push and the record are apart: a call may fail, a     *)
(* request may be given up and be carried out later, the process may die.  *)
(*                                                                         *)
(* Inngest runs one sweep at a time.  External: who writes the sections,   *)
(* and the repository, of which a target's directory is modelled: the      *)
(* commits of others move the branch and leave that directory alone.       *)
(***************************************************************************)
EXTENDS OkfProjection

CONSTANTS
  Owners,       \* workspaces
  OwnerOf,      \* each rival's workspace
  Targets,      \* the configured repositories
  Settings,     \* the targets that may be configured together, in order
  TargetOf,     \* each target's workspace
  Direct,       \* targets without a base branch: their branch exists
  Starts,       \* the rivals there may be to begin with
  Joining,      \* bound: the rivals that are added later
  Drafts,       \* bound: the sections that are written: rival, kind, row
  MaxRows,      \* bound: their versions
  MaxMishaps    \* bound: failures, and commits of others

ASSUME OkfAssumption ==
  /\ OwnerOf \in [Rivals -> Owners]
  /\ TargetOf \in [Targets -> Owners]
  /\ Settings \subseteq Seq(Targets) \ {<<>>}
  /\ Direct \subseteq Targets
  /\ Starts \subseteq SUBSET Rivals
  /\ Joining \subseteq Rivals
  /\ Drafts \subseteq Rivals \X SectionKinds \X Rows
  /\ MaxRows \in Nat
  /\ MaxMishaps \in Nat

VARIABLES
  configured,  \* the targets of this deployment
  listed,    \* the rivals in the store
  chains,    \* the version chain of each of their sections
  latest,    \* the manifest of each workspace's latest published delivery
  repo,      \* what the branch and its base hold; branch is made on demand
  push,      \* the sweep, and the push it is making
  late,      \* external: requests given up whose commit fits the branch's tip
  lost,      \* paths of pushes no manifest lists
  mishaps    \* failures and commits of others so far

okfVars == <<configured, listed, chains, latest, repo, push, late, lost, mishaps>>

Idle == [phase |-> "idle", todo |-> <<>>, recorded |-> {}, unread |-> {},
         input |-> [r \in {} |-> <<>>], files |-> NoFiles, deletions |-> {},
         behind |-> FALSE]

OkfInit ==
  /\ configured \in Settings
  /\ listed \in Starts
  /\ chains = [r \in Rivals |-> [k \in SectionKinds |-> <<>>]]
  /\ latest = [w \in Owners |-> NoFiles]
  /\ repo = [t \in Targets |-> [made |-> t \in Direct, branch |-> NoFiles, base |-> NoFiles]]
  /\ push = Idle
  /\ late = [t \in Targets |-> {}]
  /\ lost = [t \in Targets |-> {}]
  /\ mishaps = 0

store == <<configured, listed, chains, latest>>

At(t, phase) ==
  /\ push.phase = phase
  /\ t = Head(push.todo)

\* The loop goes on with the next target.
Advanced ==
  [Idle EXCEPT !.todo = Tail(push.todo), !.recorded = push.recorded,
               !.phase = IF Tail(push.todo) = <<>> THEN "idle" ELSE "listing"]

Mishap ==
  /\ mishaps < MaxMishaps
  /\ mishaps' = mishaps + 1

Visible(t) == IF repo[t].made THEN repo[t].branch ELSE repo[t].base

-----------------------------------------------------------------------------
(* External: the store, and the repository.                                *)

InsertRival(r) ==
  /\ r \in Joining \ listed
  /\ listed' = listed \cup {r}
  /\ UNCHANGED <<configured, chains, latest, repo, push, late, lost, mishaps>>

WriteSection(r, k, row) ==
  /\ r \in listed /\ <<r, k, row>> \in Drafts
  /\ Cardinality(VersionsIn(chains)) < MaxRows
  /\ chains' = [chains EXCEPT ![r][k] = Append(@, row)]
  /\ UNCHANGED <<configured, listed, latest, repo, push, late, lost, mishaps>>

\* Whatever moves the tip: a commit that was built on the old one no longer
\* fits, which force: false refuses.
TipMoves(t) ==
  /\ late' = [late EXCEPT ![t] = {}]
  /\ push' = IF At(t, "pushing") THEN [push EXCEPT !.behind = TRUE] ELSE push

ForeignPush(t) ==
  /\ repo[t].made
  /\ Mishap
  /\ TipMoves(t)
  /\ UNCHANGED <<store, repo, lost>>

MergePullRequest(t) ==
  /\ repo[t].made /\ t \notin Direct
  /\ repo' = [repo EXCEPT ![t].base = repo[t].branch]
  /\ UNCHANGED <<store, push, late, lost, mishaps>>

\* A branch is deleted once it is merged.
DeleteBranch(t) ==
  /\ repo[t].made /\ t \notin Direct
  /\ repo[t].base = repo[t].branch
  /\ repo' = [repo EXCEPT ![t].made = FALSE, ![t].branch = NoFiles]
  /\ TipMoves(t)
  /\ IF At(t, "pushing") THEN Mishap ELSE UNCHANGED mishaps
  /\ UNCHANGED <<store, lost>>

-----------------------------------------------------------------------------
(* The sweep: load, project, plan.                                         *)

StartSweep ==
  /\ push.phase = "idle"
  /\ push' = [Idle EXCEPT !.phase = "listing", !.todo = configured]
  /\ UNCHANGED <<store, repo, late, lost, mishaps>>

ListCompetitors(t) ==
  /\ At(t, "listing")
  /\ LET found == {r \in listed : OwnerOf[r] = TargetOf[t]}
     IN  push' = [push EXCEPT !.phase = "loading",
                              !.unread = found \X {Dossier, Battlecard},
                              !.input = [r \in found |-> [k \in SectionKinds |-> <<>>]]]
  /\ UNCHANGED <<store, repo, late, lost, mishaps>>

\* The two reads of a competitor are concurrent, competitors are not.
ReadSections(t, r, kinds) ==
  /\ At(t, "loading") /\ <<r, kinds>> \in push.unread
  /\ \A q \in DOMAIN push.input \ {r} :
        Cardinality({u \in push.unread : u[1] = q}) # 1
  /\ push' = [push EXCEPT !.unread = @ \ {<<r, kinds>>},
                          !.input[r] = [k \in SectionKinds |->
                                          IF k \in kinds THEN chains[r][k] ELSE @[k]]]
  /\ UNCHANGED <<store, repo, late, lost, mishaps>>

Loaded(t) == At(t, "loading") /\ push.unread = {}

\* Nothing is recorded: the sweep counts an error.
ProjectionThrows(t) ==
  /\ Loaded(t)
  /\ Throws(Docs(push.input))
  /\ push' = Advanced
  /\ UNCHANGED <<store, repo, late, lost, mishaps>>

Block(t) ==
  /\ Loaded(t)
  /\ LET docs == Docs(push.input)
     IN  ~Throws(docs) /\ Blocked(push.input, docs)
  /\ push' = [push EXCEPT !.phase = "failed"]
  /\ UNCHANGED <<store, repo, late, lost, mishaps>>

Removed(w, files) == DOMAIN latest[w] \ DOMAIN files

\* Mutant: the push names no deletions.
PlanWithoutDeletions(t) ==
  /\ Loaded(t)
  /\ LET docs == Docs(push.input)
         files == Bundle(docs)
     IN  /\ ~Throws(docs) /\ ~Blocked(push.input, docs)
         /\ push' = IF files = latest[TargetOf[t]] THEN Advanced
                    ELSE [push EXCEPT !.phase = "publishing", !.files = files]
  /\ UNCHANGED <<store, repo, late, lost, mishaps>>

\* Mutant: a changed text is no difference.
PlanByPaths(t) ==
  /\ Loaded(t)
  /\ LET docs == Docs(push.input)
         files == Bundle(docs)
     IN  /\ ~Throws(docs) /\ ~Blocked(push.input, docs)
         /\ push' = IF DOMAIN files = DOMAIN latest[TargetOf[t]] THEN Advanced
                    ELSE [push EXCEPT !.phase = "publishing", !.files = files,
                                      !.deletions = Removed(TargetOf[t], files)]
  /\ UNCHANGED <<store, repo, late, lost, mishaps>>

\* The baseline is the workspace's, whichever target it was pushed to.
PlanDelivery(t) ==
  /\ Loaded(t)
  /\ LET docs == Docs(push.input)
         files == Bundle(docs)
     IN  /\ ~Throws(docs) /\ ~Blocked(push.input, docs)
         /\ push' = IF files = latest[TargetOf[t]] THEN Advanced
                    ELSE [push EXCEPT !.phase = "publishing", !.files = files,
                                      !.deletions = Removed(TargetOf[t], files)]
  /\ UNCHANGED <<store, repo, late, lost, mishaps>>

-----------------------------------------------------------------------------
(* The publisher.                                                          *)

\* resolveHeadSha: an absent branch is created from its base.
ResolveHead(t) ==
  /\ At(t, "publishing")
  /\ repo' = IF repo[t].made THEN repo
             ELSE [repo EXCEPT ![t].made = TRUE, ![t].branch = repo[t].base]
  /\ push' = [push EXCEPT !.phase = "pushing"]
  /\ UNCHANGED <<store, late, lost, mishaps>>

\* Any call before the ref is moved; what it left behind is unreachable.
CallFails(t) ==
  /\ At(t, "publishing") \/ At(t, "pushing")
  /\ Mishap
  /\ push' = [push EXCEPT !.phase = "failed"]
  /\ UNCHANGED <<store, repo, late, lost>>

\* The tree is built on the tip's: files that are not named persist.
Onto(tree, change) ==
  [path \in (DOMAIN tree \cup DOMAIN change.files) \ change.deletions |->
     IF path \in DOMAIN change.files THEN change.files[path] ELSE tree[path]]

Change == [files |-> push.files, deletions |-> push.deletions]

Pushed(t) == IF t \in Direct THEN "accepted" ELSE "pulling"

\* Mutant: a forced update, which replaces the tip, whatever it is, and leaves
\* the requests of earlier sweeps able to do the same.
ForceRef(t) ==
  /\ At(t, "pushing")
  /\ repo' = [repo EXCEPT ![t].branch = Onto(@, Change)]
  /\ push' = [push EXCEPT !.phase = Pushed(t)]
  /\ UNCHANGED <<store, late, lost, mishaps>>

MoveRef(t) ==
  /\ At(t, "pushing")
  /\ IF push.behind
     THEN /\ push' = [push EXCEPT !.phase = "failed"]
          /\ UNCHANGED <<repo, late>>
     ELSE /\ repo' = [repo EXCEPT ![t].branch = Onto(@, Change)]
          /\ late' = [late EXCEPT ![t] = {}]
          /\ push' = [push EXCEPT !.phase = Pushed(t)]
  /\ UNCHANGED <<store, lost, mishaps>>

\* The PATCH is given up; the host may still carry it out.
TimeOut(t) ==
  /\ At(t, "pushing")
  /\ Mishap
  /\ late' = [late EXCEPT ![t] = IF push.behind THEN @ ELSE @ \cup {Change}]
  /\ lost' = [lost EXCEPT ![t] = @ \cup DOMAIN push.files]
  /\ push' = [push EXCEPT !.phase = "failed"]
  /\ UNCHANGED <<store, repo>>

LateMoveRef(t, change) ==
  /\ change \in late[t]
  /\ repo' = [repo EXCEPT ![t].branch = Onto(@, change)]
  /\ TipMoves(t)
  /\ UNCHANGED <<store, lost, mishaps>>

EnsurePullRequest(t) ==
  /\ At(t, "pulling")
  /\ push' = [push EXCEPT !.phase = "accepted"]
  /\ UNCHANGED <<store, repo, late, lost, mishaps>>

\* The branch has moved, and publish answers that it failed.
PullRequestFails(t) ==
  /\ At(t, "pulling")
  /\ Mishap
  /\ lost' = [lost EXCEPT ![t] = @ \cup DOMAIN push.files]
  /\ push' = [push EXCEPT !.phase = "failed"]
  /\ UNCHANGED <<store, repo, late>>

-----------------------------------------------------------------------------
(* The record.                                                             *)

\* Rows of one sweep share their timestamp, and random ids order them: a second
\* row of a workspace may be the latest one or not.
LatestAfter(w, files) ==
  {[latest EXCEPT ![w] = files]} \cup (IF w \in push.recorded THEN {latest} ELSE {})

RecordPublished(t) ==
  /\ At(t, "accepted")
  /\ latest' \in LatestAfter(TargetOf[t], push.files)
  /\ push' = [Advanced EXCEPT !.recorded = IF Advanced.phase = "idle" THEN {}
                                           ELSE push.recorded \cup {TargetOf[t]}]
  /\ UNCHANGED <<configured, listed, chains, repo, late, lost, mishaps>>

RecordFails(t) ==
  /\ At(t, "accepted")
  /\ Mishap
  /\ lost' = [lost EXCEPT ![t] = @ \cup DOMAIN push.files]
  /\ push' = Advanced
  /\ UNCHANGED <<store, repo, late>>

\* A failed row holds no manifest and is no baseline; it may fail to insert.
RecordFailedAttempt(t) ==
  /\ At(t, "failed")
  /\ push' = Advanced
  /\ UNCHANGED <<store, repo, late, lost, mishaps>>

Crash(t) ==
  /\ push.phase # "idle" /\ t = Head(push.todo)
  /\ Mishap
  /\ late' = IF push.phase = "pushing" /\ ~push.behind
             THEN [late EXCEPT ![t] = @ \cup {Change}] ELSE late
  /\ lost' = IF push.phase \in {"pushing", "pulling", "accepted"}
             THEN [lost EXCEPT ![t] = @ \cup DOMAIN push.files] ELSE lost
  /\ push' = Idle
  /\ UNCHANGED <<store, repo>>

-----------------------------------------------------------------------------
SweepStep ==
  \/ StartSweep
  \/ \E t \in Targets :
       \/ ListCompetitors(t)
       \/ \E r \in Rivals, kinds \in {Dossier, Battlecard} : ReadSections(t, r, kinds)
       \/ ProjectionThrows(t) \/ Block(t) \/ PlanDelivery(t)
       \/ ResolveHead(t) \/ MoveRef(t) \/ EnsurePullRequest(t)
       \/ RecordPublished(t) \/ RecordFailedAttempt(t)

OkfNext ==
  \/ SweepStep
  \/ \E r \in Joining : InsertRival(r)
  \/ \E draft \in Drafts : WriteSection(draft[1], draft[2], draft[3])
  \/ \E t \in Targets :
       \/ ForeignPush(t) \/ MergePullRequest(t) \/ DeleteBranch(t)
       \/ CallFails(t) \/ TimeOut(t) \/ PullRequestFails(t) \/ RecordFails(t) \/ Crash(t)
       \/ \E change \in late[t] : LateMoveRef(t, change)

\* The cron starts a sweep every day and a sweep goes on unless it dies.
OkfSpec == OkfInit /\ [][OkfNext]_okfVars /\ WF_okfVars(SweepStep)

-----------------------------------------------------------------------------
(* Properties.                                                             *)

\* Where a bundle has its files.
IsPath(path) ==
  \/ path \in {<<Index>>, <<Log>>}
  \/ path = <<<<"competitors">>, path[2], Index>>
  \/ \E k \in SectionKinds : path = <<<<"competitors">>, path[2], Family(k), <<k>>>>

IsFiles(files) == \A path \in DOMAIN files : IsPath(path)

OkfTypeOK ==
  /\ listed \subseteq Rivals
  /\ \A r \in Rivals, k \in SectionKinds : chains[r][k] \in Seq(Rows)
  /\ \A w \in Owners : IsFiles(latest[w])
  /\ \A t \in Targets : IsFiles(repo[t].branch) /\ IsFiles(repo[t].base)
  /\ push.phase \in {"idle", "listing", "loading", "publishing", "pushing",
                     "pulling", "accepted", "failed"}
  /\ push.todo \in Seq(Targets)
  /\ push.phase = "idle" <=> push.todo = <<>>
  /\ DOMAIN push.input \subseteq listed
  /\ push.deletions \cap DOMAIN push.files = {}
  /\ \A t \in Targets : Cardinality(late[t]) <= mishaps
  /\ mishaps \in 0 .. MaxMishaps

\* The only target of its workspace.
Sole(t) ==
  \E i \in DOMAIN configured :
     /\ configured[i] = t
     /\ \A j \in DOMAIN configured : TargetOf[configured[j]] = TargetOf[t] => j = i

\* A file the branch holds is listed by the workspace's latest manifest, which
\* is what the next deletions are computed from, or its push has not been
\* recorded: it is under way, or its outcome was lost.  So a rename by which a
\* rival's files move leaves nothing behind unless a push failed half way.
\* (deletions are the removed paths of a manifest, okf-delivery.ts:97-115)
NothingIsLeftBehind ==
  \A t \in Targets :
     Sole(t) => DOMAIN Visible(t) \subseteq
                  DOMAIN latest[TargetOf[t]] \cup lost[t]
                  \cup (IF At(t, "pulling") \/ At(t, "accepted") THEN DOMAIN push.files ELSE {})

WithVerdict(v) == <<v[1], v[2], v[3], chains[v[1]][v[2]][v[3]].verified>>

Published == {WithVerdict(v) : v \in VersionsIn(chains)}

ShownBy(t) ==
  IF <<Log>> \in DOMAIN Visible(t)
  THEN {WithVerdict(v) : v \in Visible(t)[<<Log>>]} ELSE {}

ShownByAll == [t \in Targets |-> ShownBy(t)]

Mirror ==
  INSTANCE BundleMirror
    WITH Repos <- Targets, published <- Published, shown <- ShownByAll

\* The sweeps, with their torn reads, requests that outlive them, crashes and
\* merges, never take back a version a repository has shown, never show one
\* that was not published, and never show an unverified one as the newest.
ImplementsMirror == Mirror!Spec

Current(w) == [r \in {q \in listed : OwnerOf[q] = w} |-> chains[r]]

UpToDate(t) ==
  LET now == Current(TargetOf[t])
      docs == Docs(now)
      bundle == Bundle(docs)
  IN  ~Throws(docs) /\ ~Blocked(now, docs) =>
        \A path \in DOMAIN bundle :
           path \in DOMAIN Visible(t) /\ Visible(t)[path] = bundle[path]

\* A repository that is alone in its workspace ends up with the projection of
\* what was published, whatever failed on the way.  Of two that share a
\* workspace the second compares with what the first was sent.
EveryTargetCatchesUp == <>[](\A t \in Targets : Sole(t) => UpToDate(t))
=============================================================================
