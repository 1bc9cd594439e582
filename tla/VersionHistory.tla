--------------------------- MODULE VersionHistory ---------------------------
(***************************************************************************)
(* A reader on the version pages of one competitor while the nights publish *)
(* further versions: the competitor page with the head of every section,   *)
(* and the history page of a section, which compares two of its versions   *)
(* and links to other pairs.  Each page is computed from the rows as they  *)
(* are when it is opened, and its links are used later.                    *)
(***************************************************************************)
EXTENDS Integers, Sequences, FiniteSets

CONSTANTS
  PageKinds,    \* section kinds
  MaxVersions,  \* bound: versions of a section
  Absent        \* a parameter that is missing or no number; no version

ASSUME VersionAssumption == MaxVersions \in Nat /\ Absent \notin Int

VARIABLES
  versionRows,  \* section rows of the competitor, [kind, version]
  tab           \* what the reader's browser shows

versionVars == <<versionRows, tab>>

Blank == [shows |-> "nothing"]

(***************************************************************************)
(* Views of the rows, which come in no order                               *)
(***************************************************************************)
LatestByKind(rows) ==
  {row \in rows : \A other \in rows : other.kind = row.kind => other.version <= row.version}

Numbers(rows, kind) == {row.version : row \in {r \in rows : r.kind = kind}}

\* In ascending order: the i-th has i - 1 before it.
VersionsOfKind(rows, kind) ==
  LET versions == Numbers(rows, kind)
  IN  [i \in 1 .. Cardinality(versions) |->
         CHOOSE v \in versions : Cardinality({w \in versions : w < v}) = i - 1]

\* The oldest version is no diff and gets no link.
VersionDiffLinks(versions) ==
  {[from |-> versions[i - 1], to |-> versions[i]] : i \in 2 .. Len(versions)}

\* Mutant: the number is taken for a position in the list.
PickByPosition(versions, raw, otherwise) ==
  IF raw # Absent /\ raw + 1 \in DOMAIN versions THEN versions[raw + 1] ELSE otherwise

PickVersion(versions, raw, otherwise) ==
  IF \E i \in DOMAIN versions : versions[i] = raw THEN raw ELSE otherwise

(***************************************************************************)
(* Pages                                                                   *)
(***************************************************************************)
\* A card has the link to the history only when there is something to compare.
Card(head) ==
  [kind |-> head.kind, version |-> head.version,
   linked |-> Len(VersionsOfKind(versionRows, head.kind)) > 1]

CompetitorPage ==
  [shows |-> "competitor", cards |-> {Card(head) : head \in LatestByKind(versionRows)}]

\* `asked` is what the reader followed to get here.
HistoryPage(kind, from, to, asked) ==
  LET versions == VersionsOfKind(versionRows, kind)
      newest == Len(versions)
  IN IF kind \notin PageKinds THEN [shows |-> "missing"]
     ELSE IF newest < 2 THEN [shows |-> "short"]
     ELSE [shows |-> "history", kind |-> kind, asked |-> asked,
           from  |-> PickVersion(versions, from, versions[newest - 1]),
           to    |-> PickVersion(versions, to, versions[newest]),
           links |-> VersionDiffLinks(versions)]

(***************************************************************************)
(* Steps                                                                   *)
(***************************************************************************)
\* External: a night publishes the next version, see Synthesis.
PublishVersion(kind) ==
  LET next == Len(VersionsOfKind(versionRows, kind)) + 1
  IN /\ next <= MaxVersions
     /\ versionRows' = versionRows \cup {[kind |-> kind, version |-> next]}
     /\ UNCHANGED tab

OpenCompetitor == tab' = CompetitorPage /\ UNCHANGED versionRows

OpenHistory ==
  /\ tab.shows = "competitor"
  /\ \E card \in tab.cards :
       /\ card.linked
       /\ tab' = HistoryPage(card.kind, Absent, Absent, [by |-> "card", version |-> card.version])
  /\ UNCHANGED versionRows

FollowLink ==
  /\ tab.shows = "history"
  /\ \E link \in tab.links :
       tab' = HistoryPage(tab.kind, link.from, link.to, [by |-> "link", version |-> link.to])
  /\ UNCHANGED versionRows

\* An address that is typed may name any kind and any two versions.
TypeAddress ==
  /\ \E kind \in PageKinds \cup {"unknown"}, from, to \in {Absent} \cup 0 .. MaxVersions :
       tab' = HistoryPage(kind, from, to, [by |-> "address"])
  /\ UNCHANGED versionRows

VersionInit == versionRows = {} /\ tab = Blank

VersionNext ==
  \/ \E kind \in PageKinds : PublishVersion(kind)
  \/ OpenCompetitor \/ OpenHistory \/ FollowLink \/ TypeAddress

VersionSpec == VersionInit /\ [][VersionNext]_versionVars

(***************************************************************************)
(* Properties                                                              *)
(***************************************************************************)
VersionTypeOK ==
  /\ versionRows \subseteq [kind : PageKinds, version : 1 .. MaxVersions]
  /\ tab.shows = "history" =>
       {[kind |-> tab.kind, version |-> v] : v \in {tab.from, tab.to}} \subseteq versionRows

\* Whoever follows what the pages offer is shown a version against the one
\* before it: the very version the link was for, however many have been
\* published since, or from a card the newest, never older than the card's.
LinksCompareNeighbours ==
  tab.shows = "history" /\ tab.asked.by # "address" =>
    /\ tab.from = tab.to - 1
    /\ tab.asked.by = "link" => tab.to = tab.asked.version
    /\ tab.asked.by = "card" => tab.to >= tab.asked.version
=============================================================================
