------------------------------ MODULE DiffText ------------------------------
(***************************************************************************)
(* The text of a diff, as git writes it, and its reading into files        *)
(* (domain/diff_parser.py).  A line is told by how it starts; the lines of *)
(* a file may themselves look like lines of a diff.                        *)
(***************************************************************************)
EXTENDS Integers, Listing

CONSTANTS
    Names,          \* names of files
    Quoted,         \* those git writes in quotes
    Ambiguous,      \* those not in quotes that hold " b/"
    Noise,          \* those that are filtered by name: lock files, bundles, vendored code
    Bodies,         \* bodies of hunks: lines with sign and text, characters, bytes
    Diffs,          \* what the host gives: sequences of patches
    MaxFileBytes    \* max_file_bytes

Nothing == "nothing"            \* None
DevNull == "/dev/null"
QuoteMark == "\""
HeadOfName == "head"            \* what is left of an ambiguous name that is cut in two
TailOfName == "tail"

\* A line of a body: its sign, and whether its text begins with two signs or is broken by
\* another character than a newline.
BodyText == [sign : {" ", "+", "-", "\\"}, text : {"code", "signs", "broken"}]
Changes_ == {"modified", "added", "deleted", "renamed"}
Patch == [change : Changes_, old : Names, new : Names,
          content : {"text", "binary", "none"}, hunks : Seq(Bodies)]

ASSUME DiffTextAssumption ==
    /\ Quoted \cup Ambiguous \cup Noise \subseteq Names /\ Quoted \cap Ambiguous = {}
    /\ {Nothing, DevNull, QuoteMark, HeadOfName, TailOfName} \cap Names = {}
    /\ \A b \in Bodies : b.chars \in Nat /\ b.bytes \in b.chars..(4 * b.chars) /\ b.lines \in Seq(BodyText)
    /\ \A d \in Diffs : d \in Seq(Patch) /\ \A i \in DOMAIN d :
          /\ (d[i].old # d[i].new) <=> (d[i].change = "renamed")
          /\ (d[i].hunks # <<>>) <=> (d[i].content = "text")
    /\ MaxFileBytes \in Nat

VARIABLES
    patches,        \* the diff the host gave
    lines,          \* the lines still to read
    file,           \* the file that is read: <<>> or one record
    files, reviewed     \* the files read; those that are reviewed, or Unfiltered

textVars == <<patches, lines, file, files, reviewed>>

Unfiltered == {0}            \* no file has this place

\* ---- git -------------------------------------------------------------------

\* A name as the diff holds it: in quotes and with escapes, or as it is.
Raw(name) == IF name \in Quoted THEN <<QuoteMark, name>> ELSE <<name>>
Line(starts, names) ==
    [starts |-> starts, names |-> [i \in DOMAIN names |-> Raw(names[i])], body |-> Nothing]
HunkLine(body) == [Line("hunk", <<>>) EXCEPT !.body = body]

\* What stands between two newlines: a line, and what other characters that break lines
\* cut off.  Here that is a text that looks like the header of a file.
Stretches(written) == [i \in DOMAIN written |-> <<written[i]>>]
BodyStretches(body) == [i \in DOMAIN body.lines |->
    LET l == body.lines[i]
        starts == CASE l.text = "signs" /\ l.sign = "-" -> "minus"
                    [] l.text = "signs" /\ l.sign = "+" -> "plus"
                    [] OTHER -> l.sign
    IN <<Line(starts, <<>>)>> \o
       (IF l.text = "broken" THEN <<Line("git", <<HeadOfName, TailOfName>>)>> ELSE <<>>)]
HunkStretches(body) == << <<HunkLine(body)>> >> \o BodyStretches(body)

ModeLines(p) ==
    CASE p.change = "added" -> <<Line("new mode", <<>>)>>
      [] p.change = "deleted" -> <<Line("deleted mode", <<>>)>>
      [] p.change = "renamed" -> <<Line("rename from", <<p.old>>), Line("rename to", <<p.new>>)>>
      [] OTHER -> <<>>
ContentLines(p) ==
    CASE p.content = "text" -> <<Line("minus", <<IF p.change = "added" THEN DevNull ELSE p.old>>),
                                 Line("plus", <<IF p.change = "deleted" THEN DevNull ELSE p.new>>)>>
      [] p.content = "binary" -> <<Line("binary", <<>>)>>
      [] OTHER -> <<>>
Header(p) == <<Line("git", <<p.old, p.new>>)>> \o ModeLines(p) \o <<Line("index", <<>>)>> \o ContentLines(p)
PatchStretches(p) ==
    Stretches(Header(p)) \o Joined([i \in DOMAIN p.hunks |-> HunkStretches(p.hunks[i])])

\* ---- diff_parser.py --------------------------------------------------------

\* split_lines: only a newline ends a line.
SplitLines(raw) == [i \in DOMAIN raw |-> raw[i][1]]

\* _unquote, _read_quoted: the quotes are taken off and the escapes opened.
Unquote(text) == IF text[1] = QuoteMark THEN text[2] ELSE text[1]

\* _path_after_marker.
PathAfterMarker(text) == IF text = <<DevNull>> THEN Nothing ELSE Unquote(text)

\* _paths_from_git_header: two names without quotes are parted at the first " b/".
PathsFromGitHeader(texts) ==
    IF texts[1][1] \in Ambiguous /\ texts[2][1] # QuoteMark
    THEN <<HeadOfName, TailOfName>>
    ELSE <<Unquote(texts[1]), Unquote(texts[2])>>

Or(name, other) == IF name = Nothing THEN other ELSE name

\* _parse_file, before its first line.
NewFile(line) ==
    LET paths == PathsFromGitHeader(line.names)
    IN [a |-> paths[1], b |-> paths[2], minus |-> Nothing, plus |-> Nothing, from |-> Nothing,
        to |-> Nothing, binary |-> FALSE, deleted |-> FALSE, added |-> FALSE, hunks |-> <<>>]

\* The ParsedFile of what was read.
Parsed(f) ==
    LET old == Or(f.minus, Or(f.from, f.a))
        new == Or(f.plus, Or(f.to, f.b))
    IN [path |-> IF f.hunks # <<>> THEN f.hunks[1].path ELSE Or(new, old),
        oldPath |-> IF f.from # Nothing \/ new # old THEN old ELSE Nothing,
        binary |-> f.binary, deleted |-> f.deleted, added |-> f.added, hunks |-> f.hunks]

InHunk == file # <<>> /\ file[1].hunks # <<>>
BeforeHunks == file # <<>> /\ file[1].hunks = <<>>

Reads(starts) == lines # <<>> /\ Head(lines).starts = starts
Becomes(f) == file' = <<f>> /\ lines' = Tail(lines) /\ UNCHANGED <<patches, files, reviewed>>

StartFile ==
    /\ Reads("git")
    /\ file' = <<NewFile(Head(lines))>>
    /\ files' = files \o [i \in DOMAIN file |-> Parsed(file[i])]
    /\ lines' = Tail(lines)
    /\ UNCHANGED <<patches, reviewed>>

\* The header of a hunk; the markers of the paths stand before the first one.
StartHunk ==
    /\ Reads("hunk")
    /\ LET f == file[1]
           path == Or(f.plus, Or(f.to, Or(f.b, Or(f.minus, f.a))))
           body == Head(lines).body
       IN Becomes([f EXCEPT !.hunks = Append(@,
              [path |-> path, signs |-> <<>>, chars |-> body.chars, bytes |-> body.bytes])])

\* number_lines: the kind of a line of a hunk is its first character.
SignOf(starts) == CASE starts = "minus" -> "-" [] starts = "plus" -> "+" [] OTHER -> starts

BodyLine ==
    /\ lines # <<>> /\ Head(lines).starts \notin {"git", "hunk"}
    /\ InHunk
    /\ Becomes([file[1] EXCEPT !.hunks[Len(file[1].hunks)].signs =
                   Append(@, SignOf(Head(lines).starts))])

\* No path (/dev/null) says that the file is new or gone.
\* MUTANT of MinusLine: a removed line that starts with two dashes is a marker, too.
MinusLineAnywhere ==
    /\ Reads("minus")
    /\ LET path == IF Head(lines).names = <<>> THEN TailOfName ELSE PathAfterMarker(Head(lines).names[1])
       IN Becomes([file[1] EXCEPT !.minus = path, !.added = path = Nothing])
MinusLine ==
    /\ Reads("minus") /\ BeforeHunks
    /\ LET path == PathAfterMarker(Head(lines).names[1])
       IN Becomes([file[1] EXCEPT !.minus = path, !.added = path = Nothing])

PlusLine ==
    /\ Reads("plus") /\ BeforeHunks
    /\ LET path == PathAfterMarker(Head(lines).names[1])
       IN Becomes([file[1] EXCEPT !.plus = path, !.deleted = path = Nothing])

ModeLine ==
    /\ BeforeHunks
    /\ \/ Reads("deleted mode") /\ Becomes([file[1] EXCEPT !.deleted = TRUE])
       \/ Reads("new mode") /\ Becomes([file[1] EXCEPT !.added = TRUE])

RenameLine ==
    /\ BeforeHunks
    /\ \/ Reads("rename from") /\ Becomes([file[1] EXCEPT !.from = Unquote(Head(lines).names[1])])
       \/ Reads("rename to") /\ Becomes([file[1] EXCEPT !.to = Unquote(Head(lines).names[1])])

BinaryLine == Reads("binary") /\ BeforeHunks /\ Becomes([file[1] EXCEPT !.binary = TRUE])
OtherLine == Reads("index") /\ BeforeHunks /\ Becomes(file[1])

\* ---- which files are reviewed ----------------------------------------------

IsFilterable(f) == f.binary \/ f.path \in Noise

\* change_exceeds: the bytes of the hunks are added up, and a text is put into bytes
\* only when its characters alone do not exceed what is left.
Exceeding == MaxFileBytes + 1
Weigh(total, hunk) ==
    IF total > MaxFileBytes \/ (hunk.chars # hunk.bytes /\ hunk.chars > MaxFileBytes - total)
    THEN Exceeding
    ELSE total + hunk.bytes
Weights(hunks) ==
    LET total[i \in 0..Len(hunks)] == IF i = 0 THEN 0 ELSE Weigh(total[i - 1], hunks[i])
    IN total
ChangeExceeds(f) == Weights(f.hunks)[Len(f.hunks)] > MaxFileBytes

\* parse_diff ends with the last file; filter_diff_files.
EndDiff ==
    /\ patches # <<>> /\ lines = <<>> /\ reviewed = Unfiltered
    /\ files' = files \o [i \in DOMAIN file |-> Parsed(file[i])]
    /\ file' = <<>>
    /\ reviewed' = {i \in DOMAIN files' : ~IsFilterable(files'[i]) /\ ~ChangeExceeds(files'[i])}
    /\ UNCHANGED <<patches, lines>>

TextInit == patches = <<>> /\ lines = <<>> /\ file = <<>> /\ files = <<>> /\ reviewed = Unfiltered

GiveDiff ==
    /\ patches = <<>>
    /\ patches' \in Diffs
    /\ lines' = SplitLines(Joined([i \in DOMAIN patches' |-> PatchStretches(patches'[i])]))
    /\ UNCHANGED <<file, files, reviewed>>

TextNext ==
    \/ GiveDiff \/ StartFile \/ StartHunk \/ BodyLine \/ MinusLine \/ PlusLine
    \/ ModeLine \/ RenameLine \/ BinaryLine \/ OtherLine \/ EndDiff
TextSpec == TextInit /\ [][TextNext]_textVars

TextTypeOK ==
    /\ patches \in Seq(Patch) /\ Len(file) <= 1 /\ Len(files) <= Len(patches)
    /\ \A i \in DOMAIN files : {files[i].path, files[i].oldPath}
                                  \subseteq Names \cup {Nothing, HeadOfName, TailOfName}
    /\ reviewed = Unfiltered \/ reviewed \subseteq DOMAIN files

\* What was read is what git wrote, file by file: whether the file is new, gone or
\* binary, where it was, and each line of each hunk with its sign, whatever the text of
\* the lines looks like; a file is reviewed exactly when it is no noise and its hunks do
\* not exceed the limit in bytes.  Of an ambiguous name this holds when both sides are
\* named by lines of their own (parse_diff and filter_diff_files).
ReadAsWritten ==
    /\ \A i \in DOMAIN files :
          LET p == patches[i]
              f == files[i]
          IN /\ f.added = (p.change = "added") /\ f.deleted = (p.change = "deleted")
             /\ f.binary = (p.content = "binary")
             /\ Len(f.hunks) = Len(p.hunks)
             /\ \A h \in DOMAIN p.hunks :
                   f.hunks[h].signs = [l \in DOMAIN p.hunks[h].lines |-> p.hunks[h].lines[l].sign]
             /\ \/ p.old \in Ambiguous /\ ~(p.change = "renamed" \/ (p.change = "modified" /\ p.content = "text"))
                \/ /\ f.path = IF p.change = "deleted" THEN p.old ELSE p.new
                   /\ f.oldPath = IF p.change = "renamed" THEN p.old ELSE Nothing
                   /\ reviewed # Unfiltered =>
                         (i \in reviewed <=> /\ p.content # "binary" /\ f.path \notin Noise
                                         /\ Total([h \in DOMAIN p.hunks |-> p.hunks[h].bytes]) <= MaxFileBytes)
    /\ reviewed # Unfiltered => Len(files) = Len(patches)
==============================================================================
