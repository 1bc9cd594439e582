---------------------------- MODULE OkfProjection ----------------------------
(***************************************************************************)
(* projectWorkspaceBundle: the bundle of files that a workspace's rivals   *)
(* and section chains project to, and the findings that block it.          *)
(*                                                                         *)
(* A name is the sequence of its words, a slug the words that survive      *)
(* slugify, a path the sequence of its segments.  The text of a file is    *)
(* the set of facts it shows, so two texts are equal exactly when their    *)
(* hashes are.  Titles, URLs and timestamps follow from those facts.       *)
(*                                                                         *)
(* A row's text is free: it may hold a Markdown link, which the bundle     *)
(* takes for one of its own unless it names a scheme.                      *)
(***************************************************************************)
EXTENDS Naturals, Sequences, FiniteSets, SequencesExt

CONSTANTS
  Rivals,       \* competitors
  NameOf,       \* the words of each one's name
  IdOf,         \* the word of each one's id
  Ascii,        \* the words slugify keeps
  Dossier,      \* dossier section kinds
  Battlecard,   \* battlecard section kinds
  Rows          \* section texts: whether their citations are all verified,
                \* and the links in them

SectionKinds == Dossier \cup Battlecard

ASSUME ProjectionAssumption ==
  /\ NameOf \in [Rivals -> Seq(STRING)]
  /\ IdOf \in [Rivals -> STRING]
  /\ \A r, q \in Rivals : IdOf[r] = IdOf[q] => r = q
  /\ Dossier \cap Battlecard = {}
  /\ \A row \in Rows : row.verified \in BOOLEAN

Up == <<"..">>
Index == <<"index">>
Log == <<"log">>
Family(k) == IF k \in Dossier THEN <<"dossier">> ELSE <<"battlecard">>

Slugify(words) == SelectSeq(words, LAMBDA word : word \in Ascii)

\* An empty slug still gets the separator and the id.
SlugOf(r, listed) ==
  LET slug == Slugify(NameOf[r])
  IN  IF \E q \in listed \ {r} : Slugify(NameOf[q]) = slug
      THEN (IF slug = <<>> THEN <<"">> ELSE slug) \o <<IdOf[r]>>
      ELSE slug

-----------------------------------------------------------------------------
(* Links.                                                                  *)

Escaped == <<Up>>

\* Empty segments vanish; a path that climbs above the root stays there.
Normalize(path) ==
  LET Follow(done, segment) ==
        CASE done = Escaped -> Escaped
          [] segment = <<>> -> done
          [] segment = Up   -> IF done = <<>> THEN Escaped ELSE Front(done)
          [] OTHER          -> Append(done, segment)
  IN  FoldLeft(Follow, <<>>, path)

\* Up from the linking file to the last directory the paths share, then down.
RelativeLink(from, to) ==
  LET here == Front(from)
      Shared(n) == n <= Len(here) /\ n < Len(to) /\ SubSeq(here, 1, n) = SubSeq(to, 1, n)
      common == CHOOSE n \in 0 .. Len(here) : Shared(n) /\ ~Shared(n + 1)
  IN  [i \in 1 .. Len(here) - common |-> Up] \o SubSeq(to, common + 1, Len(to))

Resolve(from, href) == Normalize(Front(from) \o href)

-----------------------------------------------------------------------------
(* Documents.  chains[r][k] is the version chain of one section.           *)

SectionDoc(r, slug, k, chain) ==
  [of |-> <<r, k>>,
   path |-> <<<<"competitors">>, slug, Family(k), <<k>>>>,
   text |-> {<<r, k, Len(chain)>>},
   hrefs |-> {<<Up, Index>>} \cup Last(chain).links]

CompetitorIndexDoc(r, slug, kinds) ==
  [of |-> <<r>>,
   path |-> <<<<"competitors">>, slug, Index>>,
   text |-> {<<r, k>> : k \in kinds},
   hrefs |-> {<<Family(k), <<k>>>> : k \in kinds}]

RootIndexDoc(slugs) ==
  [of |-> <<>>,
   path |-> <<Index>>,
   text |-> {<<r>> \o slugs[r] : r \in DOMAIN slugs},
   hrefs |-> {RelativeLink(<<Index>>, <<<<"competitors">>, slugs[r], Index>>) : r \in DOMAIN slugs}]

\* Every version of every section is one entry.
VersionsIn(chains) ==
  UNION {{<<r, k, n>> : n \in 1 .. Len(chains[r][k])} :
           r \in DOMAIN chains, k \in SectionKinds}

LogDoc(chains) ==
  [of |-> <<"log">>, path |-> <<Log>>, text |-> VersionsIn(chains), hrefs |-> {}]

Heads(chains) == {h \in (DOMAIN chains) \X SectionKinds : chains[h[1]][h[2]] # <<>>}

Docs(chains) ==
  LET slugs == [r \in DOMAIN chains |-> SlugOf(r, DOMAIN chains)]
  IN  {SectionDoc(h[1], slugs[h[1]], h[2], chains[h[1]][h[2]]) : h \in Heads(chains)}
      \cup {CompetitorIndexDoc(r, slugs[r], {k \in SectionKinds : <<r, k>> \in Heads(chains)}) :
              r \in DOMAIN chains}
      \cup {RootIndexDoc(slugs), LogDoc(chains)}

\* buildBundle throws before the documents are validated.
Throws(docs) == \E a, b \in docs : a # b /\ a.path = b.path

\* UNVERIFIED_CITATION.
Uncited(chains) == \E h \in Heads(chains) : ~Last(chains[h[1]][h[2]]).verified

BrokenLink(docs) ==
  LET paths == {doc.path : doc \in docs}
  IN  \E doc \in docs : \E href \in doc.hrefs : Resolve(doc.path, href) \notin paths

Blocked(chains, docs) == Uncited(chains) \/ BrokenLink(docs)

\* The files, and their manifest: a text stands for its hash.
Bundle(docs) ==
  [path \in {doc.path : doc \in docs} |->
     (CHOOSE doc \in docs : doc.path = path).text]

NoFiles == [path \in {} |-> {}]
=============================================================================
