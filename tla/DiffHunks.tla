------------------------------ MODULE DiffHunks ------------------------------
(***************************************************************************)
(* The hunks of one file: as git writes them, as domain/diff_parser.py     *)
(* numbers their lines, and widened by the text of the file at the head    *)
(* (domain/hunk_context.py).  A change of a file is a script, the kind of  *)
(* each line in turn; the text of a line is its place in the script.       *)
(***************************************************************************)
EXTENDS Integers, SequencesExt

CONSTANTS
    Scripts,        \* changes of a file, sequences of kinds
    HunkContexts,   \* context lines of the diff the host gives
    Radii           \* radii of the window (SURROUNDING_LINES, the whole file)

Kept == " "   Added == "+"   Removed == "-"   NoNewline == "\\"
ASSUME DiffAssumption ==
    /\ \A s \in Scripts : s \in Seq({Kept, Added, Removed})
    /\ HunkContexts \subseteq Nat /\ \A u \in HunkContexts, r \in Radii : r \in Nat /\ u <= r

VARIABLES
    script, bare,   \* the change; the sides whose last line has no newline
    given,          \* the context of the diff the host gives
    source,         \* the text the worker has fetched for the head
    radius, view,   \* the window asked for and the hunks shown, or Refused
    reading         \* "none", "diff", "read" or "shown"

diffVars == <<script, bare, given, source, radius, view, reading>>

Refused == <<>>        \* expand_hunks gives None
Alien == 0             \* a line that is not of this version

\* ---- git -------------------------------------------------------------------

OldSide(s) == {p \in DOMAIN s : s[p] # Added}
NewSide(s) == {p \in DOMAIN s : s[p] # Removed}
LastOf(places) == {p \in places : \A q \in places : q <= p}

\* A line that ends one side without a newline is the same line on the other side
\* only if it ends that side so, too.
Consistent(s, b) ==
    /\ \A p \in LastOf(OldSide(s)) \cap NewSide(s) :
           "old" \in b => p \in LastOf(NewSide(s)) /\ "new" \in b
    /\ \A p \in LastOf(NewSide(s)) \cap OldSide(s) :
           "new" \in b => p \in LastOf(OldSide(s)) /\ "old" \in b

\* A kept line is shown within r kept lines of a change.
Shown(s, r) == {p \in DOMAIN s :
    \/ s[p] # Kept
    \/ \E q \in DOMAIN s : s[q] # Kept /\
          Cardinality({x \in DOMAIN s : s[x] = Kept /\ ((p < x /\ x < q) \/ (q < x /\ x < p))}) < r}

\* A line with the marker that follows it.
Written(s, b, p) ==
    LET ends == \/ "old" \in b /\ p \in LastOf(OldSide(s))
                \/ "new" \in b /\ p \in LastOf(NewSide(s))
    IN <<[kind |-> s[p], text |-> p]>> \o (IF ends THEN <<[kind |-> NoNewline, text |-> Alien]>> ELSE <<>>)

\* The start of an empty side is the line before it (_range of hunk_context.py).
Start(first, count) == IF count = 0 THEN first - 1 ELSE first

Hunk(s, b, low, high) ==
    LET count(side) == Cardinality({p \in side : low <= p /\ p <= high})
        first(side) == 1 + Cardinality({p \in side : p < low})
        old == count(OldSide(s))
        new == count(NewSide(s))
    IN [oldStart |-> Start(first(OldSide(s)), old), oldCount |-> old,
        newStart |-> Start(first(NewSide(s)), new), newCount |-> new,
        body |-> FlattenSeq([i \in 1..(high - low + 1) |-> Written(s, b, low + i - 1)])]

\* git diff -U<r>: the runs of lines shown.
GitDiff(s, b, r) ==
    LET lows == {p \in Shown(s, r) : p - 1 \notin Shown(s, r)}
        highs == {p \in Shown(s, r) : p + 1 \notin Shown(s, r)}
        runs == SetToSortSeq({<<l, h>> \in lows \X highs : l <= h /\ \A p \in l..h : p \in Shown(s, r)},
                             LAMBDA x, y : x[1] < y[1])
    IN [i \in DOMAIN runs |-> Hunk(s, b, runs[i][1], runs[i][2])]

TextOf(s) == SetToSortSeq(NewSide(s), LAMBDA p, q : p < q)

\* ---- diff_parser.py --------------------------------------------------------

\* number_lines: where the line at i of a body stands on a side that starts at start.
Number(body, i, start, foreign) ==
    start + Cardinality({j \in 1..(i - 1) : body[j].kind \notin {foreign, NoNewline}})

\* _build_hunk: changed_new_lines and changed_old_lines.
ChangedNew(h) ==
    {Number(h.body, i, h.newStart, Removed) : i \in {j \in DOMAIN h.body : h.body[j].kind = Added}}
ChangedOld(h) ==
    {Number(h.body, i, h.oldStart, Added) : i \in {j \in DOMAIN h.body : h.body[j].kind = Removed}}

\* ---- code_context.py -------------------------------------------------------

\* touched_lines of one hunk.
Touched(h) ==
    IF ChangedNew(h) # {} THEN ChangedNew(h)
    ELSE IF h.newCount > 0 THEN h.newStart..(h.newStart + h.newCount - 1)
    ELSE {h.newStart} \ {0}

\* ---- hunk_context.py -------------------------------------------------------

IsChange(line) == line.kind \in {Added, Removed}
First(start, count) == IF count = 0 THEN start + 1 ELSE start

\* _matches: context and added lines are the lines of the file at their numbers.
Matches(h, text) ==
    LET number == First(h.newStart, h.newCount)
    IN /\ number + h.newCount - 1 <= Len(text)
       /\ \A i \in DOMAIN h.body :
             h.body[i].kind \in {Kept, Added} =>
                LET n == Number(h.body, i, number, Removed)
                IN n <= Len(text) /\ text[n] = h.body[i].text

\* _core: a hunk from its first change to its last; a marker after a change belongs to it.
Core(h) ==
    LET changes == {i \in DOMAIN h.body : IsChange(h.body[i])}
        first == CHOOSE i \in changes : \A j \in changes : i <= j
        last == CHOOSE i \in changes : \A j \in changes : j <= i
        end == IF last < Len(h.body) /\ h.body[last + 1].kind = NoNewline THEN last + 1 ELSE last
        lead == first - 1
        trail == Cardinality({i \in (end + 1)..Len(h.body) : h.body[i].kind = Kept})
    IN [oldFirst |-> First(h.oldStart, h.oldCount) + lead,
        newFirst |-> First(h.newStart, h.newCount) + lead,
        oldCount |-> h.oldCount - lead - trail,
        newCount |-> h.newCount - lead - trail,
        body |-> SubSeq(h.body, first, end)]
EndOf(core) == core.newFirst + core.newCount

Context(text, first, end) == [i \in 1..(end - first) |-> [kind |-> Kept, text |-> text[first + i - 1]]]

\* MUTANT of Meet: windows that just touch are left apart.
MeetOverlapping(before, after, r) == after.newFirst - EndOf(before) < 2 * r
\* Two changes are shown in one hunk when their windows touch.
Meet(before, after, r) == after.newFirst - EndOf(before) <= 2 * r

\* One group of cores: its window, the gaps filled from the file, the new header.
View(cores, low, high, text, ended, r) ==
    LET least(a, b) == IF a < b THEN a ELSE b
        first == cores[low]
        last == cores[high]
        before == least(r, first.newFirst - 1)
        after == least(r, Len(text) - EndOf(last) + 1)
        gap(i) == Context(text, EndOf(cores[i - 1]), cores[i].newFirst)
        filled == before + after + MapThenSumSet(LAMBDA i : Len(gap(i)), (low + 1)..high)
        oldCount == filled + MapThenSumSet(LAMBDA i : cores[i].oldCount, low..high)
        newCount == filled + MapThenSumSet(LAMBDA i : cores[i].newCount, low..high)
        inner == [i \in 1..(high - low + 1) |->
            (IF i = 1 THEN <<>> ELSE gap(low + i - 1)) \o cores[low + i - 1].body]
        marker == IF after > 0 /\ EndOf(last) + after - 1 = Len(text) /\ ~ended
                  THEN <<[kind |-> NoNewline, text |-> Alien]>> ELSE <<>>
    IN [oldStart |-> Start(first.oldFirst - before, oldCount), oldCount |-> oldCount,
        newStart |-> Start(first.newFirst - before, newCount), newCount |-> newCount,
        body |-> Context(text, first.newFirst - before, first.newFirst) \o FlattenSeq(inner)
                     \o Context(text, EndOf(last), EndOf(last) + after) \o marker]

ExpandHunks(hunks, text, ended, r) ==
    IF \E i \in DOMAIN hunks : ~Matches(hunks[i], text) \/ \A j \in DOMAIN hunks[i].body : ~IsChange(hunks[i].body[j])
    THEN Refused
    ELSE LET cores == [i \in DOMAIN hunks |-> Core(hunks[i])]
             starts == {i \in DOMAIN cores : i = 1 \/ ~Meet(cores[i - 1], cores[i], r)}
             lows == SetToSortSeq(starts, LAMBDA i, j : i < j)
             high(g) == IF g = Len(lows) THEN Len(cores) ELSE lows[g + 1] - 1
         IN [g \in DOMAIN lows |-> View(cores, lows[g], high(g), text, ended, r)]

\* ---- the life of one file in a run -----------------------------------------

DiffInit ==
    /\ script = <<>> /\ bare = {} /\ given = 0
    /\ source = <<>> /\ radius = 0 /\ view = Refused /\ reading = "none"

\* The host gives the diff of a file.
FetchDiff ==
    /\ reading = "none" /\ reading' = "diff"
    /\ \E s \in Scripts, b \in SUBSET {"old", "new"} :
          Consistent(s, b) /\ script' = s /\ bare' = b
    /\ given' \in HunkContexts
    /\ UNCHANGED <<source, radius, view>>

\* Another version of the file: a line is another one, is gone or is new.
OtherVersions(text) ==
    {[text EXCEPT ![i] = Alien] : i \in DOMAIN text}
        \cup {RemoveAt(text, i) : i \in DOMAIN text}
        \cup {InsertAt(text, i, Alien) : i \in 1..(Len(text) + 1)}

\* The text is fetched apart from the diff and may be of another version.
FetchSource ==
    /\ reading = "diff" /\ reading' = "read"
    /\ source' \in {TextOf(script)} \cup OtherVersions(TextOf(script))
    /\ UNCHANGED <<script, bare, given, radius, view>>

Widen(r) ==
    /\ reading = "read" /\ reading' = "shown"
    /\ radius' = r
    /\ view' = ExpandHunks(GitDiff(script, bare, given), source, "new" \notin bare, r)
    /\ UNCHANGED <<script, bare, given, source>>

DiffNext == FetchDiff \/ FetchSource \/ \E r \in Radii : Widen(r)
DiffTypeOK ==
    /\ script \in Scripts \cup {<<>>} /\ bare \subseteq {"old", "new"}
    /\ source \in Seq(Nat) /\ given \in HunkContexts \cup {0} /\ radius \in Radii \cup {0}
    /\ \A i \in DOMAIN view : {view[i].oldStart, view[i].newStart, view[i].oldCount, view[i].newCount} \subseteq Nat
DiffSpec == DiffInit /\ [][DiffNext]_diffVars

\* A hunk says of each line what stands in the file: its changed lines are those of
\* the change, as many as its header counts; a line a reader is shown is the line of
\* the file with that number, however stale the text is it was widened with, and with
\* the text of the head the result is what git would write (expand_hunks).
ViewIsGitDiff ==
    LET hunks == GitDiff(script, bare, given)
        places(side, kind) == {Cardinality({q \in side : q <= p}) : p \in {x \in side : script[x] = kind}}
    IN /\ UNION {ChangedNew(hunks[i]) : i \in DOMAIN hunks} = places(NewSide(script), Added)
       /\ UNION {ChangedOld(hunks[i]) : i \in DOMAIN hunks} = places(OldSide(script), Removed)
       /\ \A i \in DOMAIN view : Matches(view[i], source)
       /\ reading = "shown" /\ source = TextOf(script) => view = GitDiff(script, bare, radius)
==============================================================================
