------------------------------ MODULE Services ------------------------------
(***************************************************************************)
(* The smaller services of the system, side by side.  They share no state, *)
(* so a behaviour of them all is one of each: here `service` runs and the  *)
(* others stay as they start.                                              *)
(***************************************************************************)
EXTENDS OkfDelivery, MemoryStore, Identity, PageFetch, SpanDiff, VersionHistory, ModelCalls, Provisioning

VARIABLE service  \* the one that runs

servicesVars ==
  <<okfVars, memoryVars, identityVars, fetchVars, spanVars, versionVars, callVars, provisioningVars, service>>

ServicesInit ==
  /\ service \in {"okf", "memory", "identity", "fetch", "diff", "history", "models", "setup"}
  /\ OkfInit /\ MemoryInit /\ IdentityInit /\ FetchInit /\ SpanInit /\ VersionInit /\ CallInit /\ ProvisioningInit

ButOkf == <<memoryVars, identityVars, fetchVars, spanVars, versionVars, callVars, provisioningVars, service>>
ButMemory == <<okfVars, identityVars, fetchVars, spanVars, versionVars, callVars, provisioningVars, service>>
ButIdentity == <<okfVars, memoryVars, fetchVars, spanVars, versionVars, callVars, provisioningVars, service>>
ButFetch == <<okfVars, memoryVars, identityVars, spanVars, versionVars, callVars, provisioningVars, service>>
ButSpan == <<okfVars, memoryVars, identityVars, fetchVars, versionVars, callVars, provisioningVars, service>>
ButVersion == <<okfVars, memoryVars, identityVars, fetchVars, spanVars, callVars, provisioningVars, service>>
ButCall == <<okfVars, memoryVars, identityVars, fetchVars, spanVars, versionVars, provisioningVars, service>>
ButSetup == <<okfVars, memoryVars, identityVars, fetchVars, spanVars, versionVars, callVars, service>>

ServicesNext ==
  \/ service = "okf" /\ OkfNext /\ UNCHANGED ButOkf
  \/ service = "memory" /\ MemoryNext /\ UNCHANGED ButMemory
  \/ service = "identity" /\ IdentityNext /\ UNCHANGED ButIdentity
  \/ service = "fetch" /\ FetchNext /\ UNCHANGED ButFetch
  \/ service = "diff" /\ SpanNext /\ UNCHANGED ButSpan
  \/ service = "history" /\ VersionNext /\ UNCHANGED ButVersion
  \/ service = "models" /\ CallNext /\ UNCHANGED ButCall
  \/ service = "setup" /\ ProvisioningNext /\ UNCHANGED ButSetup

\* The steps that OkfSpec and FetchSpec are fair to, of the service that runs.
FairStep ==
  \/ service = "okf" /\ SweepStep /\ UNCHANGED ButOkf
  \/ service = "fetch" /\ FetcherStep /\ UNCHANGED ButFetch

ServicesSpec == ServicesInit /\ [][ServicesNext]_servicesVars /\ WF_servicesVars(FairStep)

ServicesTypeOK ==
  /\ OkfTypeOK /\ MemoryTypeOK /\ IdentityTypeOK /\ FetchTypeOK /\ SpanTypeOK
  /\ VersionTypeOK /\ CallTypeOK /\ ProvisioningTypeOK

\* The claims quote what changed, the history page shows both of its versions,
\* and its links lead to a version and the one before it.
DiffsTellTheTruth == ClaimsPinTheChange /\ HistoryShowsBoth /\ LinksCompareNeighbours

\* EveryTargetCatchesUp, in the behaviours of the delivery.
TargetsCatchUp == service = "okf" => EveryTargetCatchesUp

\* EverySourceIsCovered, in the behaviours of the fetcher.
TickIsCovered == service = "fetch" => EverySourceIsCovered
=============================================================================
