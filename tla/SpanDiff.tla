------------------------------ MODULE SpanDiff ------------------------------
(***************************************************************************)
(* The line diff that stands before every model call (diffChangedSpans),   *)
(* the claims pinned from it and the check of a claim against its          *)
(* snapshot, and the second line diff that the history page shows.  A text *)
(* is the sequence of its lines; a line has a width, so that offsets count *)
(* characters as the code does, one for each line break.                   *)
(***************************************************************************)
EXTENDS Integers, Sequences, FiniteSets

CONSTANTS
  Lines,      \* the lines a page can have
  WidthOf,    \* characters of each line
  BlankLines, \* lines that trim to nothing
  MaxLines    \* bound: lines of a text

ASSUME SpanAssumption ==
  /\ WidthOf \in [Lines -> Nat]
  /\ BlankLines \subseteq Lines
  /\ \A line \in Lines : WidthOf[line] = 0 => line \in BlankLines
  /\ MaxLines \in Nat \ {0}

VARIABLES
  earlier,  \* the normalized text of the snapshot before
  page,     \* the normalized text of the latest snapshot
  pins,     \* the claims pinned when page was stored
  verified  \* they passed the gate and may be shown

spanVars == <<earlier, page, pins, verified>>

\* split('\n') never returns an empty array.
Texts == UNION {[1 .. n -> Lines] : n \in 1 .. MaxLines}

(***************************************************************************)
(* Offsets                                                                 *)
(***************************************************************************)
StartOf(text) ==
  LET start[i \in 1 .. Len(text)] ==
        IF i = 1 THEN 0 ELSE start[i - 1] + WidthOf[text[i - 1]] + 1
  IN start

EndOf(text, i) == StartOf(text)[i] + WidthOf[text[i]]

\* The lines from offset charStart to charEnd; <<>> stands for every slice
\* that does not begin and end with a line.
Slice(text, charStart, charEnd) ==
  IF \E i \in DOMAIN text, j \in DOMAIN text :
       i <= j /\ StartOf(text)[i] = charStart /\ EndOf(text, j) = charEnd
    THEN LET i == CHOOSE i \in DOMAIN text : StartOf(text)[i] = charStart
             j == CHOOSE j \in DOMAIN text : EndOf(text, j) = charEnd
         IN SubSeq(text, i, j)
    ELSE <<>>

(***************************************************************************)
(* The two diffs                                                           *)
(***************************************************************************)
\* A line of old and a line of new, or the end of either.
Places(old, new) == (1 .. Len(old) + 1) \X (1 .. Len(new) + 1)

\* Length of the longest common subsequence of old from i on and new from j on.
LcsTable(old, new) ==
  LET lcs[at \in Places(old, new)] ==
        LET i == at[1]
            j == at[2]
        IN IF i > Len(old) \/ j > Len(new) THEN 0
           ELSE IF old[i] = new[j] THEN lcs[<<i + 1, j + 1>>] + 1
           ELSE IF lcs[<<i + 1, j>>] >= lcs[<<i, j + 1>>] THEN lcs[<<i + 1, j>>] ELSE lcs[<<i, j + 1>>]
  IN lcs

\* The lines of new that the walk through the table keeps.
LcsKeep(old, new) ==
  LET lcs == LcsTable(old, new)
      keep[at \in Places(old, new)] ==
        LET i == at[1]
            j == at[2]
        IN IF i > Len(old) \/ j > Len(new) THEN {}
           ELSE IF old[i] = new[j] THEN {j} \cup keep[<<i + 1, j + 1>>]
           ELSE IF lcs[<<i + 1, j>>] >= lcs[<<i, j + 1>>] THEN keep[<<i + 1, j>>] ELSE keep[<<i, j + 1>>]
  IN keep[<<1, 1>>]

\* A flushed run: lines that are not kept, between kept lines or the ends.
Runs(kept, n) ==
  {run \in (1 .. n) \X (1 .. n) :
     /\ run[1] <= run[2]
     /\ (run[1] .. run[2]) \cap kept = {}
     /\ run[1] - 1 \in kept \cup {0}
     /\ run[2] + 1 \in kept \cup {n + 1}}

\* Mutant: the end of a span is where its last line starts.
SpanToLastStart(text, first, last) ==
  [charStart |-> StartOf(text)[first],
   charEnd   |-> StartOf(text)[last],
   quoteText |-> SubSeq(text, first, last)]

Span(text, first, last) ==
  [charStart |-> StartOf(text)[first],
   charEnd   |-> EndOf(text, last),
   quoteText |-> SubSeq(text, first, last)]

IsBlank(quote) == \A i \in DOMAIN quote : quote[i] \in BlankLines

DiffChangedSpans(old, new) ==
  IF old = new THEN {}
  ELSE LET runs == Runs(LcsKeep(old, new), Len(new))
       IN {s \in {Span(new, run[1], run[2]) : run \in runs} : ~IsBlank(s.quoteText)}

\* diffLines of the history page: an empty text has no lines there.
ViewLines(text) == IF Len(text) = 1 /\ WidthOf[text[1]] = 0 THEN <<>> ELSE text

DiffLines(from, to) ==
  LET a == ViewLines(from)
      b == ViewLines(to)
      lcs == LcsTable(a, b)
      Same(i, j) == <<[op |-> "same", text |-> a[i], fromLine |-> i, toLine |-> j]>>
      Del(i) == <<[op |-> "del", text |-> a[i], fromLine |-> i, toLine |-> 0]>>
      Add(j) == <<[op |-> "add", text |-> b[j], fromLine |-> 0, toLine |-> j]>>
      out[at \in Places(a, b)] ==
        LET i == at[1]
            j == at[2]
        IN IF i > Len(a) /\ j > Len(b) THEN <<>>
           ELSE IF i > Len(a) THEN Add(j) \o out[<<i, j + 1>>]
           ELSE IF j > Len(b) THEN Del(i) \o out[<<i + 1, j>>]
           ELSE IF a[i] = b[j] THEN Same(i, j) \o out[<<i + 1, j + 1>>]
           ELSE IF lcs[<<i + 1, j>>] >= lcs[<<i, j + 1>>] THEN Del(i) \o out[<<i + 1, j>>]
           ELSE Add(j) \o out[<<i, j + 1>>]
  IN out[<<1, 1>>]

(***************************************************************************)
(* Claims                                                                  *)
(***************************************************************************)
Verifies(claim, text) ==
  /\ claim.charStart < claim.charEnd
  /\ claim.charEnd <= EndOf(text, Len(text))
  /\ Slice(text, claim.charStart, claim.charEnd) = claim.quoteText

Publishable(claims, text) == claims # {} /\ \A claim \in claims : Verifies(claim, text)

(***************************************************************************)
(* Steps: a source is captured again.  An unchanged text stops before the  *)
(* diff, and a change without spans is refused by assertTriageAllowed      *)
(* before anything is stored.  Claims that fail the gate are stored        *)
(* without the mark that lets them be shown.                               *)
(***************************************************************************)
Recapture(text) ==
  LET claims == DiffChangedSpans(page, text)
  IN /\ text # page
     /\ claims # {}
     /\ earlier' = page
     /\ page' = text
     /\ pins' = claims
     /\ verified' = Publishable(claims, text)

SpanInit ==
  /\ page \in Texts
  /\ earlier = page
  /\ pins = {}
  /\ verified = TRUE

SpanNext == \E text \in Texts : Recapture(text)

SpanSpec == SpanInit /\ [][SpanNext]_spanVars

(***************************************************************************)
(* Properties                                                              *)
(***************************************************************************)
SpanTypeOK ==
  /\ earlier \in Texts /\ page \in Texts
  /\ \A pin \in pins : pin.charStart \in Nat /\ pin.charEnd \in Nat
  /\ verified \in BOOLEAN

\* kept, a set of lines of new, can be read in old in the same order.
IsCommon(kept, old, new) ==
  \E at \in [kept -> DOMAIN old] :
    /\ \A k \in kept : old[at[k]] = new[k]
    /\ \A k, l \in kept : k < l => at[k] < at[l]

IsLongestCommon(kept, old, new) ==
  /\ IsCommon(kept, old, new)
  /\ \A more \in SUBSET (DOMAIN new) : Cardinality(more) > Cardinality(kept) => ~IsCommon(more, old, new)

Covers(pin, text, i) == pin.charStart <= StartOf(text)[i] /\ EndOf(text, i) <= pin.charEnd

\* The claims of a change quote the page at their offsets, and together they
\* quote exactly what changed: the page has a longest part in common with the
\* text before it, no claim reaches into that part, every other line that is
\* not blank is in one claim, and no two claims touch.
ClaimsPinTheChange ==
  page # earlier =>
    /\ verified
    /\ \E kept \in SUBSET (DOMAIN page) :
         /\ IsLongestCommon(kept, earlier, page)
         /\ \A i \in DOMAIN page :
              LET quoting == {pin \in pins : Covers(pin, page, i)}
              IN IF i \in kept THEN quoting = {}
                 ELSE Cardinality(quoting) = 1 \/ (quoting = {} /\ page[i] \in BlankLines)
    /\ \A p, q \in pins : p # q => p.charEnd + 1 < q.charStart \/ q.charEnd + 1 < p.charStart

\* The entries with a number are the lines of the text, in order.
ShowsText(diff, number, text) ==
  /\ \A k \in DOMAIN diff :
       number[k] # 0 => number[k] \in DOMAIN text /\ diff[k].text = text[number[k]]
  /\ \A k, l \in DOMAIN diff : k < l /\ number[k] # 0 /\ number[l] # 0 => number[k] < number[l]
  /\ \A i \in DOMAIN text : \E k \in DOMAIN diff : number[k] = i

\* What the history page shows of two texts: without the deletions it is the
\* later one and without the additions the earlier one, each line under its own
\* number, and it keeps as many lines as the texts can have in common.
HistoryShowsBoth ==
  LET diff == DiffLines(earlier, page)
      kept == {k \in DOMAIN diff : diff[k].op = "same"}
  IN /\ \A k \in DOMAIN diff : /\ diff[k].op = "add" <=> diff[k].fromLine = 0
                              /\ diff[k].op = "del" <=> diff[k].toLine = 0
     /\ ShowsText(diff, [k \in DOMAIN diff |-> diff[k].fromLine], ViewLines(earlier))
     /\ ShowsText(diff, [k \in DOMAIN diff |-> diff[k].toLine], ViewLines(page))
     /\ IsLongestCommon({diff[k].toLine : k \in kept}, ViewLines(earlier), ViewLines(page))
=============================================================================
