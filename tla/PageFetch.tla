------------------------------ MODULE PageFetch ------------------------------
(***************************************************************************)
(* Fetching the pages of one tick, one source after the other              *)
(* (fetchAndIngest over HttpFetcher): every hop of a redirect chain is     *)
(* checked as the first address is, and a timer aborts a request that gets *)
(* no answer.  The name lookup before the timer and the body after it are  *)
(* waited for without one.  What ingestFetch then does with a page is in   *)
(* ScheduledTick; here only whether its adapter can read it matters.       *)
(***************************************************************************)
EXTENDS Naturals, Sequences, FiniteSets

CONSTANTS
  Pages,        \* the sources of the tick: [adapter, legal, type, url]
  Urls,         \* addresses of pages: [scheme, host]
  Names,        \* hosts that are names; every other host is an IP literal
  Prohibited,   \* names on the denylist of review platforms
  Internal,     \* IP addresses no fetch may reach
  External,     \* the other IP addresses
  MaxRedirects, \* 3 in the code
  Statuses,     \* HTTP statuses an answer can carry
  Payloads      \* bodies, as what is true of them: "xml" (valid), "rss" (an RSS
                \* document), "dtd", "json", "jobs" (a job board), "element" (has one)

ASSUME FetchAssumption ==
  /\ MaxRedirects \in Nat
  /\ Internal \cap External = {}
  /\ {p.url : p \in Pages} \subseteq Urls

VARIABLES
  fetching,  \* what the tick waits for: [step, page, url, hops, status]
  timer,     \* the abort timer is running
  covered    \* the coverage row of each source of this tick, or "none"

fetchVars == <<fetching, timer, covered>>

Redirects == {301, 302, 303, 307, 308}
Addresses == Internal \cup External
Idling == [step |-> "idle"]

\* A Location header that is missing, empty or no URL.
NoUrl == [scheme |-> "none", host |-> "none"]

(***************************************************************************)
(* What HttpFetcher accepts                                                *)
(***************************************************************************)
Safe(url) == url.scheme \in {"http", "https"} /\ url.host \notin Prohibited

\* An empty answer and an answer with one internal address are both refused.
Reachable(answer) == answer # {} /\ answer \cap Internal = {}

\* The adapters throw at what they cannot read.
ParsesAsRss(payload) == "dtd" \notin payload /\ {"xml", "rss"} \subseteq payload
ParsesAsBoard(payload) == {"json", "jobs"} \subseteq payload

\* Any element will do, a hidden one too, so a feed is HTML enough.
LooksLikeHtml(payload) == "element" \in payload

\* normalizeForSource; reviews and app stores have no adapter.
Readable(type, payload) ==
  \/ type \in {"changelog", "blog", "status"} /\ ParsesAsRss(payload)
  \/ type = "jobs" /\ ParsesAsBoard(payload)
  \/ type \in {"pricing", "docs"} /\ LooksLikeHtml(payload)

(***************************************************************************)
(* Steps.  Each one runs to the next await of the fetcher.                 *)
(***************************************************************************)
Finish(page, outcome) ==
  /\ fetching' = Idling
  /\ timer' = FALSE
  /\ covered' = [covered EXCEPT ![page] = outcome]

Send(page, url, hops) ==
  /\ fetching' = [step |-> "request", page |-> page, url |-> url, hops |-> hops]
  /\ timer' = TRUE
  /\ UNCHANGED covered

\* Mutant: only the first address is judged, not where it redirects to.
VisitTrusting(page, url, hops) ==
  \/ hops = 0 /\ ~Safe(url) /\ Finish(page, "failed")
  \/ /\ hops > 0 \/ Safe(url)
     /\ url.host \in Names
     /\ fetching' = [step |-> "resolve", page |-> page, url |-> url, hops |-> hops]
     /\ timer' = FALSE
     /\ UNCHANGED covered
  \/ (hops > 0 \/ Safe(url)) /\ url.host \in Internal /\ Finish(page, "failed")
  \/ (hops > 0 \/ Safe(url)) /\ url.host \in External /\ Send(page, url, hops)

\* get(): a URL is judged, then its host looked up unless it is an address.
Visit(page, url, hops) ==
  \/ ~Safe(url) /\ Finish(page, "failed")
  \/ /\ Safe(url) /\ url.host \in Names
     /\ fetching' = [step |-> "resolve", page |-> page, url |-> url, hops |-> hops]
     /\ timer' = FALSE
     /\ UNCHANGED covered
  \/ Safe(url) /\ url.host \in Internal /\ Finish(page, "failed")
  \/ Safe(url) /\ url.host \in External /\ Send(page, url, hops)

\* The tick takes the next source.  One that is legally blocked and one that
\* needs an unblocker are refused before anything is sent.
StartFetch ==
  /\ fetching = Idling
  /\ \E page \in Pages :
       /\ covered[page] = "none"
       /\ \/ page.legal = "blocked" /\ Finish(page, "skipped")
          \/ /\ page.legal # "blocked" /\ page.adapter \in {"firecrawl", "zyte"}
             /\ Finish(page, "failed")
          \/ /\ page.legal # "blocked" /\ page.adapter \notin {"firecrawl", "zyte"}
             /\ Visit(page, page.url, 0)

\* resolveHost answers, with any addresses; no timer limits how long it takes.
HostResolves ==
  /\ fetching.step = "resolve"
  /\ \E answer \in SUBSET Addresses :
       IF Reachable(answer)
         THEN Send(fetching.page, fetching.url, fetching.hops)
         ELSE Finish(fetching.page, "failed")

\* Mutant: a redirect is followed with the count it came with.
RespondWithoutCounting(status, location) ==
  /\ fetching.step = "request"
  /\ \/ /\ status \in Redirects
        /\ IF fetching.hops >= MaxRedirects \/ location = NoUrl
             THEN Finish(fetching.page, "failed")
             ELSE Visit(fetching.page, location, fetching.hops)
     \/ /\ status \notin Redirects
        /\ fetching' = [step |-> "body", page |-> fetching.page, status |-> status]
        /\ timer' = FALSE
        /\ UNCHANGED covered

\* The status line and the headers arrive; the timer is cleared.
Respond(status, location) ==
  /\ fetching.step = "request"
  /\ \/ /\ status \in Redirects
        /\ IF fetching.hops >= MaxRedirects \/ location = NoUrl
             THEN Finish(fetching.page, "failed")
             ELSE Visit(fetching.page, location, fetching.hops + 1)
     \/ /\ status \notin Redirects
        /\ fetching' = [step |-> "body", page |-> fetching.page, status |-> status]
        /\ timer' = FALSE
        /\ UNCHANGED covered

HeadersArrive == \E status \in Statuses, location \in Urls \cup {NoUrl} : Respond(status, location)

\* The abort rejects the request.
TimerFires == timer /\ Finish(fetching.page, "failed")

\* The whole body has arrived: response.text() resolves.
BodyArrives ==
  /\ fetching.step = "body"
  /\ \E payload \in Payloads :
       IF fetching.status >= 400 \/ ~Readable(fetching.page.type, payload)
         THEN Finish(fetching.page, "failed")
         ELSE Finish(fetching.page, "ingested")

\* The lookup, the request or the body is rejected.
ConnectionFails == fetching.step # "idle" /\ Finish(fetching.page, "failed")

FetchInit ==
  /\ fetching = Idling
  /\ timer = FALSE
  /\ covered = [page \in Pages |-> "none"]

\* What happens without the network's help.
FetcherStep == StartFetch \/ TimerFires

FetchNext == FetcherStep \/ HostResolves \/ HeadersArrive \/ BodyArrives \/ ConnectionFails

FetchSpec == FetchInit /\ [][FetchNext]_fetchVars /\ WF_fetchVars(FetcherStep)

(***************************************************************************)
(* Properties                                                              *)
(***************************************************************************)
FetchTypeOK ==
  /\ fetching.step \in {"idle", "resolve", "request", "body"}
  /\ fetching.step # "idle" => fetching.page \in Pages
  /\ fetching.step \in {"resolve", "request"} =>
       Safe(fetching.url) /\ fetching.hops \in 0 .. MaxRedirects
  /\ timer \in BOOLEAN
  /\ covered \in [Pages -> {"none", "skipped", "failed", "ingested"}]

\* Every source of the tick gets its coverage row, whatever the hosts answer
\* and however they redirect, unless the tick waits for ever for a name or for
\* a body: these two are the only waits of the fetcher without a time limit.
EverySourceIsCovered ==
  \/ <>[](fetching.step \in {"resolve", "body"})
  \/ <>(\A page \in Pages : covered[page] # "none")
=============================================================================
