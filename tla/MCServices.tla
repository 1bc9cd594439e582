----------------------------- MODULE MCServices -----------------------------
(***************************************************************************)
(* The smaller services of the system, checked in one run.                 *)
(***************************************************************************)
EXTENDS Services, TLC

CONSTANTS
  r1, r2, r3, r4, r5,  \* competitors
  t1, t2, t3,          \* repositories
  w1, w2               \* their workspaces

(***************************************************************************)
(* OKF delivery: three rivals of one name, one whose name is what the      *)
(* second of them is called, and one whose name has no Latin letter.       *)
(***************************************************************************)
MCNameOf ==
  r1 :> <<"acme">> @@ r2 :> <<"acme">> @@ r3 :> <<"acme", "r2">> @@ r4 :> <<"non-Latin">> @@ r5 :> <<"acme">>
MCIdOf == r1 :> "r1" @@ r2 :> "r2" @@ r3 :> "r3" @@ r4 :> "r4" @@ r5 :> "r5"
MCOwnerOf == [r \in {r1, r2, r3, r4, r5} |-> w1]
MCTargetOf == t1 :> w1 @@ t2 :> w2 @@ t3 :> w2
MCSettings == {<<t1>>, <<t2, t3>>}
MCStarts == {{r1}, {r3, r5}, {r4}}
Good == [verified |-> TRUE, links |-> {}]
Unproven == [verified |-> FALSE, links |-> {}]
Linked == [verified |-> TRUE, links |-> {<<<<"setup">>>>}]
MCRows == {Good, Unproven, Linked}
MCDrafts ==
  {<<r1, "pricing", Good>>, <<r1, "pricing", Unproven>>, <<r1, "landmines", Good>>, <<r5, "landmines", Linked>>}

(***************************************************************************)
(* The store in memory: one pending price change, and a candidate row of   *)
(* every table.                                                            *)
(***************************************************************************)
MCSeeded ==
  [workspaces |-> {[id |-> "w1"]},
   competitors |-> {[id |-> "c1", workspace |-> "w1"]},
   sources |-> {[id |-> "s1", competitor |-> "c1"]},
   health |-> {[id |-> "s1", fetched |-> FALSE, failures |-> 0]},
   snapshots |-> {[id |-> "n1", source |-> "s1"]},
   bySource |-> {[id |-> "s1", snapshots |-> <<"n1">>]},
   deltas |-> {[id |-> "d1", source |-> "s1", pricing |-> TRUE, state |-> "pending"]},
   claims |-> {}, coverageRuns |-> {}, sections |-> {}, sectionVersions |-> {},
   users |-> {[id |-> "u1", email |-> "ada", subject |-> "none"]},
   memberships |-> {}, channelConfigs |-> {}, alerts |-> {}, bundleDeliveries |-> {}]
MCCandidates ==
  [workspaces |-> {[id |-> "w2"]},
   competitors |-> {[id |-> "c2", workspace |-> "w2"]},
   sources |-> {[id |-> "s2", competitor |-> "c1"]},
   snapshots |-> {[id |-> "n2", source |-> "s1"]},
   deltas |-> {[id |-> "d2", source |-> "s1", pricing |-> FALSE, state |-> "pending"]},
   claims |-> {[id |-> "q1", delta |-> "d1"]},
   coverageRuns |-> {[id |-> "r1", workspace |-> "w1"]},
   sections |-> {[id |-> i, surface |-> "dossier", competitor |-> "c1", kind |-> "pricing", version |-> 1] :
                   i \in {"x1", "x2"}},
   users |-> {[id |-> "u2", email |-> "bob", subject |-> "bob"]},
   memberships |-> {[id |-> "m1", user |-> "u1", workspace |-> "w1"]},
   channelConfigs |-> {[id |-> "h1", workspace |-> "w1"]},
   alerts |-> {[id |-> i, delta |-> "d1", channel |-> "h1", workspace |-> "w1", status |-> "queued"] :
                 i \in {"a1", "a2"}},
   bundleDeliveries |-> {[id |-> "b1", workspace |-> "w1"]}]
MCLogins ==
  {[subject |-> "ada2", email |-> "ada", verified |-> TRUE],
   [subject |-> "eve", email |-> "eve", verified |-> FALSE]}

(***************************************************************************)
(* Identity: two people, one of whom was provisioned and is known to the   *)
(* provider under two addresses.                                           *)
(***************************************************************************)
MCProfiles ==
  {[subject |-> "a", email |-> "ada", verified |-> TRUE],
   [subject |-> "a", email |-> "new", verified |-> TRUE],
   [subject |-> "b", email |-> "ada", verified |-> FALSE],
   [subject |-> "b", email |-> "new", verified |-> TRUE]}
MCProvisioned == <<[email |-> "ada"]>>

(***************************************************************************)
(* Fetching: a page, a job board at an address, a blocked feed and a       *)
(* review page; redirects may lead to any of five addresses.               *)
(***************************************************************************)
Url(scheme, host) == [scheme |-> scheme, host |-> host]
MCUrls ==
  {Url("https", "acme"), Url("https", "g2"), Url("https", "10.0.0.1"), Url("http", "8.8.8.8"), Url("ftp", "acme")}
MCPayloads ==
  {{}, {"element"}, {"xml", "element"}, {"xml", "rss", "element"}, {"xml", "rss", "dtd", "element"},
   {"json"}, {"json", "jobs"}}
Page(adapter, legal, type, url) == [adapter |-> adapter, legal |-> legal, type |-> type, url |-> url]
MCPages ==
  {Page("html", "open", "pricing", Url("https", "acme")), Page("json", "open", "jobs", Url("http", "8.8.8.8")),
   Page("rss", "blocked", "blog", Url("https", "acme")), Page("zyte", "licensed", "reviews", Url("https", "g2"))}

(***************************************************************************)
(* Span diff: lines of three widths.                                       *)
(***************************************************************************)
MCWidthOf == "" :> 0 @@ "a" :> 1 @@ "bb" :> 2

(***************************************************************************)
(* Model calls: reports within and above what is projected, with fractions *)
(* of a micro-dollar from the cache, and one too large to be exact.        *)
(***************************************************************************)
Usage(input, output, cacheRead, cacheWrite) ==
  [input |-> input, output |-> output, cacheRead |-> cacheRead, cacheWrite |-> cacheWrite]
MCUsages ==
  {Usage(300, 256, 0, 0), Usage(900, 256, 0, 0), Usage(2500, 1200, 0, 0), Usage(2500, 1500, 0, 0),
   Usage(100, 40, 13, 0), Usage(100, 40, 0, 1), Usage(1000000, 256, 0, 0)}
MCJobs ==
  {[kind |-> "triage", chars |-> 401, sections |-> 1], [kind |-> "synthesis", chars |-> 9000, sections |-> 2]}

(***************************************************************************)
(* The run.  A service that does not run has one way to start.             *)
(***************************************************************************)
Init ==
  /\ ServicesInit
  /\ service # "okf" => configured = <<t1>> /\ listed = {r1}
  /\ service # "diff" => page = <<"a">>
  /\ service # "models" => mode = "mock" /\ meter = 0
  /\ service # "setup" => existing = {}

Spec == Init /\ [][ServicesNext]_servicesVars /\ WF_servicesVars(FairStep)
=============================================================================
