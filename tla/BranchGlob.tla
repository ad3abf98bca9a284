----------------------------- MODULE BranchGlob -----------------------------
(***************************************************************************)
(* The branch filter of a repository (domain/glob.py): a branch passes an  *)
(* empty filter, or one of whose patterns it matches segment by segment.   *)
(* The match is greedy and takes back only what the last ** has taken.     *)
(* Which names a pattern of one segment accepts (fnmatchcase) is given.    *)
(***************************************************************************)
EXTENDS Naturals, Sequences

CONSTANTS
    Accepts,        \* the names each pattern of one segment accepts
    Branches,      \* names of branches, sequences of segments
    Filters         \* branch_filter, sequences of patterns

Globstar == "**"
AnyOne == "any one"             \* None among the parts
ASSUME GlobAssumption ==
    /\ DOMAIN Accepts \cap {Globstar, AnyOne} = {}
    /\ \A f \in Filters : f \in Seq(Seq(DOMAIN Accepts \cup {Globstar}))
    /\ \A b \in Branches : b \in Seq({b[i] : i \in DOMAIN b})

VARIABLES
    branch, filter,     \* what is asked
    tried,              \* the pattern in hand, 0 before the question
    name, piece,        \* i and j of glob_full_match, from 1
    star,               \* star_j and star_i, << >> when no ** was met
    steps,              \* history: turns of the loop for this pattern
    selected            \* the answer, "unknown" before

globVars == <<branch, filter, tried, name, piece, star, steps, selected>>

\* A ** at the end takes at least one segment.
Pieces(pattern) ==
    IF pattern # << >> /\ pattern[Len(pattern)] = Globstar
    THEN SubSeq(pattern, 1, Len(pattern) - 1) \o <<AnyOne, Globstar>>
    ELSE pattern
PiecesInHand == Pieces(filter[tried])
Takes(part, segment) == part # AnyOne => segment \in Accepts[part]
InPattern == piece <= Len(PiecesInHand)
OnStar == InPattern /\ PiecesInHand[piece] = Globstar
OnMatch == InPattern /\ ~OnStar /\ Takes(PiecesInHand[piece], branch[name])

GlobInit ==
    /\ branch = << >> /\ filter = << >> /\ tried = 0
    /\ name = 1 /\ piece = 1 /\ star = << >> /\ steps = 0
    /\ selected = "unknown"

\* branch_selected
AskFilter(b, f) ==
    /\ tried = 0
    /\ branch' = b /\ filter' = f /\ tried' = 1
    /\ selected' = IF f = << >> THEN "yes" ELSE "unknown"
    /\ UNCHANGED <<name, piece, star, steps>>

Turning == tried > 0 /\ selected = "unknown" /\ name <= Len(branch)
Turned ==
    /\ steps' = steps + 1
    /\ UNCHANGED <<branch, filter, tried, selected>>
NextPattern ==
    /\ IF tried < Len(filter) THEN tried' = tried + 1 /\ UNCHANGED selected
       ELSE selected' = "no" /\ UNCHANGED tried
    /\ name' = 1 /\ piece' = 1 /\ star' = << >> /\ steps' = 0
    /\ UNCHANGED <<branch, filter>>

MeetStar ==
    /\ Turning /\ OnStar
    /\ star' = <<piece, name>>
    /\ piece' = piece + 1
    /\ UNCHANGED name
    /\ Turned

MatchSegment ==
    /\ Turning /\ OnMatch
    /\ name' = name + 1 /\ piece' = piece + 1
    /\ UNCHANGED star
    /\ Turned

\* MUTANT of TakeBack: the ** gives the segment it did not take to the next part.
TakeBackInPlace ==
    /\ Turning /\ ~OnStar /\ ~OnMatch /\ star # << >>
    /\ star' = [star EXCEPT ![2] = name + 1]
    /\ name' = name + 1 /\ piece' = star[1] + 1
    /\ Turned

\* The last ** takes one segment more.
TakeBack ==
    /\ Turning /\ ~OnStar /\ ~OnMatch /\ star # << >>
    /\ star' = [star EXCEPT ![2] = @ + 1]
    /\ name' = star[2] + 1 /\ piece' = star[1] + 1
    /\ Turned

NoMatch == Turning /\ ~OnStar /\ ~OnMatch /\ star = << >> /\ NextPattern

\* The branch is used up: what is left of the pattern may be nothing but **.
BranchEnds ==
    /\ tried > 0 /\ selected = "unknown" /\ name > Len(branch)
    /\ IF \A k \in piece..Len(PiecesInHand) : PiecesInHand[k] = Globstar
       THEN selected' = "yes" /\ UNCHANGED <<branch, filter, tried, name, piece, star, steps>>
       ELSE NextPattern

GlobNext ==
    \/ \E b \in Branches, f \in Filters : AskFilter(b, f)
    \/ MeetStar \/ MatchSegment \/ TakeBack \/ NoMatch \/ BranchEnds

GlobSpec == GlobInit /\ [][GlobNext]_globVars

GlobTypeOK ==
    /\ tried \in Nat /\ name \in Nat \ {0} /\ piece \in Nat \ {0} /\ steps \in Nat
    /\ star = << >> \/ star \in Nat \X Nat
    /\ selected \in {"unknown", "yes", "no"}

\* The reference: the branch can be cut into pieces, one for each part of the pattern, of
\* one accepted segment, or of any number for a **, but of one at least for the last part.
FullMatch(b, pattern) ==
    \E cut \in [0..Len(pattern) -> 0..Len(b)] :
        /\ cut[0] = 0 /\ cut[Len(pattern)] = Len(b)
        /\ \A k \in 1..Len(pattern) :
              IF pattern[k] = Globstar
              THEN cut[k] >= cut[k - 1] + (IF k = Len(pattern) THEN 1 ELSE 0)
              ELSE cut[k] = cut[k - 1] + 1 /\ b[cut[k]] \in Accepts[pattern[k]]

\* The greedy match finds what any way of matching finds, though it never takes back
\* what an earlier ** took; and it takes no more turns than the product of the lengths
\* (glob_full_match: "time not above the product of the lengths").
FilterIsFullMatch ==
    /\ selected = "yes" => filter = << >> \/ FullMatch(branch, filter[tried])
    /\ selected = "no" => \A k \in DOMAIN filter : ~FullMatch(branch, filter[k])
    /\ tried > 0 /\ filter # << >> => steps <= (Len(branch) + 1) * (Len(PiecesInHand) + 1)
=============================================================================
