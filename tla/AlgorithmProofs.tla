--------------------------- MODULE AlgorithmProofs ---------------------------
(***************************************************************************)
(* What the algorithms of a review compute, for any input: the match of a  *)
(* branch with a filter, the findings that are saved, the packet a model   *)
(* is shown, the files that are read from a diff.                          *)
(***************************************************************************)
EXTENDS Integers, BranchGlob, ContextAssembly, DiffText, Findings, ListingProofs, TLAPS

\* ---- the filter of branches ------------------------------------------------

\* The parts of a pattern without the rule for its end: the first j of them cut the
\* first i segments of b into pieces.
Parted(c, b, parts, j, i) ==
    /\ c[0] = 0 /\ c[j] = i
    /\ \A k \in 1..j : IF parts[k] = Globstar THEN c[k] >= c[k - 1]
                       ELSE c[k] = c[k - 1] + 1 /\ Takes(parts[k], b[c[k]])
Covers(b, parts, j, i) == \E c \in [0..j -> 0..i] : Parted(c, b, parts, j, i)

\* Where the loop stands.
Done == piece - 1
Eaten == name - 1
\* The parts up to here cut what was eaten, and those up to the ** what was before it.
Reached ==
    /\ Eaten <= Len(branch) /\ Done <= Len(PiecesInHand)
    /\ Covers(branch, PiecesInHand, Done, Eaten)
    /\ star # << >> =>
          /\ star[1] \in 1..Done /\ star[2] \in 1..name
          /\ PiecesInHand[star[1]] = Globstar
          /\ Covers(branch, PiecesInHand, star[1], star[2] - 1)

\* Whichever way the whole branch is cut, its ** ends no sooner than the one of the
\* loop, and where it ends there, the parts after it end where those of the loop do.
NoSooner(c) ==
    IF star = << >> THEN c[Done] = Eaten
    ELSE /\ c[star[1]] >= star[2] - 1 /\ c[Done] >= Eaten
         /\ c[star[1]] = star[2] - 1 => c[Done] = Eaten
Minimal == \A c \in [0..Len(PiecesInHand) -> 0..Len(branch)] :
    Parted(c, branch, PiecesInHand, Len(PiecesInHand), Len(branch)) => NoSooner(c)

\* Each segment the ** takes costs less than one walk over the parts.
Walked == IF star = << >> THEN 0 ELSE star[2] - 1
Thrifty == steps <= Walked * (Len(PiecesInHand) + 1) + Done
LoopInv == Reached /\ Minimal /\ Thrifty

Segments == {branch[i] : i \in DOMAIN branch}
Patterns == Seq(DOMAIN Accepts \cup {Globstar})
GlobInv ==
    /\ GlobTypeOK
    /\ branch \in Seq(Segments)
    /\ filter \in Seq(Patterns)
    /\ tried = 0 => selected = "unknown"
    /\ tried = 0 => name = 1 /\ piece = 1 /\ star = << >> /\ steps = 0
    /\ tried > 0 /\ filter = << >> => selected = "yes"
    /\ tried > 0 /\ filter # << >> => tried \in DOMAIN filter /\ LoopInv
    /\ selected = "yes" => filter = << >> \/ FullMatch(branch, filter[tried])
    /\ \A k \in DOMAIN filter : (k < tried \/ selected = "no") => ~FullMatch(branch, filter[k])

LEMMA PiecesType ==
  ASSUME NEW pattern \in Patterns
  PROVE  /\ Pieces(pattern) \in Seq(DOMAIN Accepts \cup {Globstar, AnyOne})
         /\ pattern # << >> /\ pattern[Len(pattern)] = Globstar
              => /\ Len(Pieces(pattern)) = Len(pattern) + 1
                 /\ \A k \in 1..Len(pattern) - 1 : Pieces(pattern)[k] = pattern[k]
                 /\ Pieces(pattern)[Len(pattern)] = AnyOne
                 /\ Pieces(pattern)[Len(pattern) + 1] = Globstar
         /\ ~(pattern # << >> /\ pattern[Len(pattern)] = Globstar) => Pieces(pattern) = pattern
<1> DEFINE S == DOMAIN Accepts \cup {Globstar, AnyOne}
<1>1. pattern \in Seq(S) /\ Len(pattern) \in Nat
  BY DEF Patterns
<1> HIDE DEF S
<1>2. CASE pattern # << >> /\ pattern[Len(pattern)] = Globstar
  <2> DEFINE front == SubSeq(pattern, 1, Len(pattern) - 1)
             end == <<AnyOne, Globstar>>
  <2>1. Len(pattern) >= 1 /\ Len(pattern) - 1 \in 0..Len(pattern)
    BY <1>1, <1>2
  <2>2. /\ front \in Seq(S) /\ Len(front) = Len(pattern) - 1
        /\ \A k \in 1..Len(pattern) - 1 : front[k] = pattern[k]
    BY <1>1, <2>1
  <2>3. end \in Seq(S) /\ Len(end) = 2 /\ end[1] = AnyOne /\ end[2] = Globstar
    BY DEF S
  <2>4. Pieces(pattern) = front \o end
    BY <1>2 DEF Pieces
  <2> DEFINE m == Len(pattern)
  <2>5. Len(front) = m - 1 /\ m \in Nat /\ m >= 1
    BY <1>1, <2>1, <2>2
  <2> HIDE DEF front, end, m
  <2>6. /\ front \o end \in Seq(S) /\ Len(front \o end) = Len(front) + Len(end)
        /\ \A i \in 1..Len(front) + Len(end) :
              (front \o end)[i] = IF i <= Len(front) THEN front[i] ELSE end[i - Len(front)]
    BY <2>2, <2>3, ConcatProperties
  <2>7. \A k \in 1..m - 1 : (front \o end)[k] = front[k]
    BY <2>3, <2>5, <2>6
  <2>8. (front \o end)[m] = end[1] /\ (front \o end)[m + 1] = end[2]
    BY <2>3, <2>5, <2>6
  <2>9. \A k \in 1..m - 1 : front[k] = pattern[k]
    BY <2>2 DEF m
  <2>. QED  BY <1>2, <2>3, <2>4, <2>5, <2>6, <2>7, <2>8, <2>9 DEF m, S
<1>3. CASE ~(pattern # << >> /\ pattern[Len(pattern)] = Globstar)
  BY <1>1, <1>3 DEF Pieces, S
<1>. QED  BY <1>2, <1>3

\* The pieces, which know no rule for the end, match what the pattern matches.
LEMMA PiecesMatch ==
  ASSUME NEW S, NEW b \in Seq(S), NEW pattern \in Patterns
  PROVE  FullMatch(b, pattern) <=> Covers(b, Pieces(pattern), Len(Pieces(pattern)), Len(b))
<1> DEFINE L == Len(pattern)
           P == Pieces(pattern)
           n == Len(b)
<1>1. L \in Nat /\ n \in Nat /\ pattern \in [1..L -> DOMAIN Accepts \cup {Globstar}]
  BY DEF Patterns
<1>2. \A k \in 1..L : pattern[k] # AnyOne
  <2>1. Globstar # AnyOne /\ AnyOne \notin DOMAIN Accepts
    BY GlobAssumption DEF Globstar, AnyOne
  <2>. QED  BY <1>1, <2>1
<1>. HIDE DEF L, n
<1>3. CASE L > 0 /\ pattern[L] = Globstar
  <2>1. /\ Len(P) = L + 1
        /\ \A k \in 1..L - 1 : P[k] = pattern[k]
        /\ P[L] = AnyOne /\ P[L + 1] = Globstar
    <3>1. pattern # << >>
      BY <1>1, <1>3
    <3>. QED  BY <1>3, <3>1, PiecesType DEF L
  <2>2. AnyOne # Globstar
    BY DEF Globstar, AnyOne
  <2> HIDE DEF P
  <2>3. ASSUME FullMatch(b, pattern) PROVE Covers(b, P, L + 1, n)
    <3>1. PICK c \in [0..L -> 0..n] :
             /\ c[0] = 0 /\ c[L] = n
             /\ \A k \in 1..L : IF pattern[k] = Globstar
                                THEN c[k] >= c[k - 1] + (IF k = L THEN 1 ELSE 0)
                                ELSE c[k] = c[k - 1] + 1 /\ b[c[k]] \in Accepts[pattern[k]]
      BY <2>3 DEF FullMatch, L, n
    <3>2. c[L] >= c[L - 1] + 1 /\ c[L - 1] \in Nat
      BY <1>1, <1>3, <3>1
    <3> DEFINE d == [k \in 0..L + 1 |-> IF k < L THEN c[k] ELSE IF k = L THEN c[L - 1] + 1 ELSE n]
    <3>3. d \in [0..L + 1 -> 0..n]
      BY <1>1, <1>3, <3>1, <3>2
    <3>4. d[0] = 0 /\ d[L + 1] = n
      BY <1>1, <1>3, <3>1
    <3>5. ASSUME NEW k \in 1..L + 1
          PROVE  IF P[k] = Globstar THEN d[k] >= d[k - 1]
                 ELSE d[k] = d[k - 1] + 1 /\ Takes(P[k], b[d[k]])
      <4>1. CASE k < L
        <5>1. P[k] = pattern[k] /\ d[k] = c[k] /\ d[k - 1] = c[k - 1] /\ k \in 1..L
          BY <1>1, <2>1, <4>1
        <5>2. c[k] \in Nat /\ c[k - 1] \in Nat
          BY <1>1, <3>1, <4>1
        <5> HIDE DEF d
        <5>3. IF pattern[k] = Globstar THEN c[k] >= c[k - 1] + 0
              ELSE c[k] = c[k - 1] + 1 /\ b[c[k]] \in Accepts[pattern[k]]
          BY <3>1, <4>1, <5>1
        <5>. QED  BY <5>1, <5>2, <5>3 DEF Takes
      <4>2. CASE k = L
        BY <1>1, <1>3, <2>1, <2>2, <4>2 DEF Takes
      <4>3. CASE k = L + 1
        <5>1. P[k] = Globstar /\ d[k] = n /\ d[k - 1] = c[L - 1] + 1
          BY <1>1, <1>3, <2>1, <4>3
        <5>. QED  BY <3>1, <3>2, <5>1
      <4>. QED  BY <1>1, <4>1, <4>2, <4>3
    <3> HIDE DEF d
    <3>6. Parted(d, b, P, L + 1, n)
      BY <3>4, <3>5 DEF Parted
    <3>. QED  BY <3>3, <3>6 DEF Covers
  <2>4. ASSUME Covers(b, P, L + 1, n) PROVE FullMatch(b, pattern)
    <3>1. PICK d \in [0..L + 1 -> 0..n] : Parted(d, b, P, L + 1, n)
      BY <2>4 DEF Covers
    <3>2. d \in [0..L + 1 -> 0..n] /\ d[0] = 0 /\ d[L + 1] = n
      BY <3>1 DEF Parted
    <3>3. \A k \in 1..L + 1 : IF P[k] = Globstar THEN d[k] >= d[k - 1]
                              ELSE d[k] = d[k - 1] + 1 /\ Takes(P[k], b[d[k]])
      BY <3>1 DEF Parted
    <3>4. d[L + 1] >= d[L] /\ d[L] = d[L - 1] + 1 /\ d[L - 1] \in Nat /\ d[L] \in Nat
      BY <1>1, <1>3, <2>1, <2>2, <3>2, <3>3
    <3> DEFINE c == [k \in 0..L |-> IF k < L THEN d[k] ELSE n]
    <3>5. c \in [0..L -> 0..n] /\ c[0] = 0 /\ c[L] = n
      BY <1>1, <1>3, <3>2
    <3>6. ASSUME NEW k \in 1..L
          PROVE  IF pattern[k] = Globstar THEN c[k] >= c[k - 1] + (IF k = L THEN 1 ELSE 0)
                 ELSE c[k] = c[k - 1] + 1 /\ b[c[k]] \in Accepts[pattern[k]]
      <4>1. CASE k < L
        <5>1. P[k] = pattern[k] /\ c[k] = d[k] /\ c[k - 1] = d[k - 1] /\ pattern[k] # AnyOne
          <6>1. c[k] = d[k] /\ c[k - 1] = d[k - 1]
            BY <1>1, <4>1
          <6>. HIDE DEF c
          <6>2. pattern[k] # AnyOne
            BY <1>2
          <6>3. P[k] = pattern[k]
            <7>1. k \in 1..L - 1
              BY <1>1, <4>1
            <7>. HIDE DEF P
            <7>. QED  BY <2>1, <7>1
          <6>. QED  BY <6>1, <6>2, <6>3
        <5>2. d[k] \in Nat /\ d[k - 1] \in Nat /\ k \in 1..L + 1 /\ k # L
          BY <1>1, <3>2, <4>1
        <5> HIDE DEF c
        <5>. QED  BY <3>3, <5>1, <5>2 DEF Takes
      <4>2. CASE k = L
        <5>1. c[k] = n /\ c[k - 1] = d[L - 1]
          BY <1>1, <1>3, <4>2
        <5>. QED  BY <1>1, <1>3, <3>2, <3>4, <4>2, <5>1
      <4>. QED  BY <1>1, <4>1, <4>2
    <3> HIDE DEF c
    <3>. QED  BY <3>5, <3>6 DEF FullMatch, L, n
  <2>. QED  BY <2>1, <2>3, <2>4 DEF P, L, n
<1>4. CASE ~(L > 0 /\ pattern[L] = Globstar)
  <2>1. P = pattern
    BY <1>1, <1>4, PiecesType
  <2>2. ASSUME NEW k \in 1..L PROVE pattern[k] = Globstar => k # L
    BY <1>1, <1>4
  <2>3. ASSUME NEW c \in [0..L -> 0..n], NEW k \in 1..L
        PROVE  (IF pattern[k] = Globstar THEN c[k] >= c[k - 1] + (IF k = L THEN 1 ELSE 0)
                ELSE c[k] = c[k - 1] + 1 /\ b[c[k]] \in Accepts[pattern[k]])
               <=> (IF pattern[k] = Globstar THEN c[k] >= c[k - 1]
                    ELSE c[k] = c[k - 1] + 1 /\ Takes(pattern[k], b[c[k]]))
    <3>1. c[k] \in Nat /\ c[k - 1] \in Nat
      BY <1>1
    <3>. QED  BY <1>2, <2>2, <3>1 DEF Takes
  <2>4. FullMatch(b, pattern) <=> Covers(b, pattern, L, n)
    BY <2>3 DEF FullMatch, Covers, Parted, L, n
  <2>. QED  BY <2>1, <2>4 DEF L, n
<1>. QED  BY <1>1, <1>3, <1>4

\* One part more, which takes a segment or is a **.
LEMMA OnePartMore ==
  ASSUME NEW b, NEW parts, NEW j \in Nat, NEW i \in Nat, NEW h \in Nat, Covers(b, parts, j, i), h >= i,
         parts[j + 1] = Globstar \/ (parts[j + 1] # Globstar /\ h = i + 1 /\ Takes(parts[j + 1], b[h]))
  PROVE  Covers(b, parts, j + 1, h)
<1>1. PICK c \in [0..j -> 0..i] : Parted(c, b, parts, j, i)
  BY DEF Covers
<1> DEFINE d == [k \in 0..j + 1 |-> IF k = j + 1 THEN h ELSE c[k]]
<1>2. d \in [0..j + 1 -> 0..h]
  BY <1>1
<1>3. d[0] = 0 /\ d[j + 1] = h /\ d[j] = i
  BY <1>1 DEF Parted
<1>4. ASSUME NEW k \in 1..j + 1
      PROVE  IF parts[k] = Globstar THEN d[k] >= d[k - 1]
             ELSE d[k] = d[k - 1] + 1 /\ Takes(parts[k], b[d[k]])
  <2>1. CASE k = j + 1
    BY <1>3, <2>1
  <2>2. CASE k # j + 1
    <3>1. k \in 1..j /\ d[k] = c[k] /\ d[k - 1] = c[k - 1]
      BY <2>2
    <3> HIDE DEF d
    <3>. QED  BY <1>1, <3>1 DEF Parted
  <2>. QED  BY <2>1, <2>2
<1> HIDE DEF d
<1>5. Parted(d, b, parts, j + 1, h)
  BY <1>3, <1>4 DEF Parted
<1>. QED  BY <1>2, <1>5 DEF Covers

\* A ** takes one segment more.
LEMMA StarTakes ==
  ASSUME NEW b, NEW parts, NEW j \in Nat, NEW i \in Nat, Covers(b, parts, j, i), j >= 1, parts[j] = Globstar
  PROVE  Covers(b, parts, j, i + 1)
<1>1. PICK c \in [0..j -> 0..i] : Parted(c, b, parts, j, i)
  BY DEF Covers
<1> DEFINE d == [k \in 0..j |-> IF k = j THEN i + 1 ELSE c[k]]
<1>2. d \in [0..j -> 0..i + 1]
  BY <1>1
<1>3. d[0] = 0 /\ d[j] = i + 1
  BY <1>1 DEF Parted
<1>4. ASSUME NEW k \in 1..j
      PROVE  IF parts[k] = Globstar THEN d[k] >= d[k - 1]
             ELSE d[k] = d[k - 1] + 1 /\ Takes(parts[k], b[d[k]])
  <2>1. CASE k = j
    <3>1. d[k] = i + 1 /\ d[k - 1] = c[k - 1] /\ c[k - 1] \in 0..i
      BY <1>1, <2>1
    <3> HIDE DEF d
    <3>. QED  BY <2>1, <3>1
  <2>2. CASE k # j
    <3>1. d[k] = c[k] /\ d[k - 1] = c[k - 1]
      BY <2>2
    <3> HIDE DEF d
    <3>. QED  BY <1>1, <3>1 DEF Parted
  <2>. QED  BY <2>1, <2>2
<1> HIDE DEF d
<1>5. Parted(d, b, parts, j, i + 1)
  BY <1>3, <1>4 DEF Parted
<1>. QED  BY <1>2, <1>5 DEF Covers

\* What is left of the parts is nothing but **.
LEMMA StarsTakeNothing ==
  ASSUME NEW b, NEW parts, NEW j \in Nat, NEW i \in Nat, NEW m \in Nat, j <= m, Covers(b, parts, j, i),
         \A k \in j + 1..m : parts[k] = Globstar
  PROVE  Covers(b, parts, m, i)
<1>1. PICK c \in [0..j -> 0..i] : Parted(c, b, parts, j, i)
  BY DEF Covers
<1> DEFINE d == [k \in 0..m |-> IF k <= j THEN c[k] ELSE i]
<1>2. d \in [0..m -> 0..i]
  BY <1>1
<1>3. d[0] = 0 /\ d[m] = i
  BY <1>1 DEF Parted
<1>4. ASSUME NEW k \in 1..m
      PROVE  IF parts[k] = Globstar THEN d[k] >= d[k - 1]
             ELSE d[k] = d[k - 1] + 1 /\ Takes(parts[k], b[d[k]])
  <2>1. CASE k > j
    <3>1. parts[k] = Globstar /\ d[k] = i /\ d[k - 1] \in 0..i
      BY <1>2, <2>1
    <3> HIDE DEF d
    <3>. QED  BY <3>1
  <2>2. CASE k <= j
    <3>1. k \in 1..j /\ d[k] = c[k] /\ d[k - 1] = c[k - 1]
      BY <2>2
    <3> HIDE DEF d
    <3>. QED  BY <1>1, <3>1 DEF Parted
  <2>. QED  BY <2>1, <2>2
<1> HIDE DEF d
<1>5. Parted(d, b, parts, m, i)
  BY <1>3, <1>4 DEF Parted
<1>. QED  BY <1>2, <1>5 DEF Covers

\* The pieces of a cut end one after the other.
LEMMA CutRises ==
  ASSUME NEW b, NEW parts, NEW m \in Nat, NEW n \in Nat, NEW c \in [0..m -> 0..n], Parted(c, b, parts, m, n),
         NEW j \in 0..m, NEW k \in j..m
  PROVE  c[j] <= c[k]
<1> DEFINE Lower == {h \in j..m : c[h] < c[j]}
<1> SUFFICES ASSUME Lower # {} PROVE FALSE
  <2>1. c[j] \in Nat /\ c[k] \in Nat
    OBVIOUS
  <2>. QED  BY <2>1
<1>1. PICK h \in Lower : \A g \in Lower : h <= g
  <2>1. Lower \subseteq Nat
    OBVIOUS
  <2> HIDE DEF Lower
  <2>. QED  BY <2>1, LeastNumber
<1>2. h \in 1..m /\ h - 1 \in j..m /\ c[h - 1] \in Nat /\ c[h] \in Nat /\ c[j] \in Nat
  BY <1>1
<1>3. c[h] >= c[h - 1]
  BY <1>2 DEF Parted
<1>4. h - 1 \in Lower
  BY <1>1, <1>2, <1>3
<1>. QED  BY <1>1, <1>2, <1>4

LEMMA Products ==
  ASSUME NEW a \in Nat, NEW b \in Nat, NEW k \in Nat
  PROVE  /\ a * k \in Nat /\ (a + 1) * k = a * k + k
         /\ a <= b => a * k <= b * k
<1>1. a * k \in Nat /\ b * k \in Nat /\ (a + 1) * k = a * k + k
  OBVIOUS
<1>2. ASSUME a <= b PROVE a * k <= b * k
  <2>1. PICK d \in Nat : b = a + d
    BY <1>2
  <2>2. b * k = a * k + d * k /\ d * k \in Nat
    BY <2>1
  <2>. QED  BY <1>1, <2>2
<1>. QED  BY <1>1, <1>2

\* What is known while the loop turns.
LEMMA InTheLoop ==
  ASSUME GlobInv, tried > 0, selected = "unknown"
  PROVE  /\ filter # << >> /\ tried \in DOMAIN filter /\ filter[tried] \in Patterns
         /\ Len(PiecesInHand) \in Nat /\ Len(branch) \in Nat
         /\ name \in Nat \ {0} /\ piece \in Nat \ {0} /\ steps \in Nat
         /\ Done \in Nat /\ Eaten \in Nat
         /\ Reached /\ Minimal /\ Thrifty
         /\ star # << >> => star = <<star[1], star[2]>>
<1>1. filter # << >> /\ filter \in Seq(Patterns) /\ branch \in Seq(Segments) /\ GlobTypeOK
  BY DEF GlobInv
<1>2. tried \in DOMAIN filter /\ Reached /\ Minimal /\ Thrifty
  BY <1>1 DEF GlobInv, LoopInv
<1>3. filter[tried] \in Patterns
  BY <1>1, <1>2
<1>4. Len(PiecesInHand) \in Nat
  BY <1>3, PiecesType DEF PiecesInHand
<1>. QED  BY <1>1, <1>2, <1>3, <1>4 DEF GlobTypeOK, Done, Eaten

LEMMA MeetStarGoesOn ==
  ASSUME GlobInv, MeetStar
  PROVE  LoopInv'
<1>1. tried > 0 /\ selected = "unknown" /\ name <= Len(branch)
  BY DEF MeetStar, Turning
<1> USE <1>1
<1>2. /\ Len(PiecesInHand) \in Nat /\ Len(branch) \in Nat
      /\ name \in Nat \ {0} /\ piece \in Nat \ {0} /\ steps \in Nat
      /\ Done \in Nat /\ Eaten \in Nat /\ Done + 1 = piece /\ Eaten + 1 = name
      /\ Reached /\ Minimal /\ Thrifty
  BY InTheLoop DEF Done, Eaten
<1>3. /\ piece <= Len(PiecesInHand) /\ PiecesInHand[piece] = Globstar
      /\ star' = <<piece, name>> /\ name' = name /\ branch' = branch /\ steps' = steps + 1
      /\ PiecesInHand' = PiecesInHand
      /\ Done' = Done + 1 /\ Eaten' = Eaten
  BY <1>2 DEF MeetStar, OnStar, InPattern, Turned, PiecesInHand, Done, Eaten
<1>4. star' # << >> /\ star[1]' = Done + 1 /\ star[2]' = Eaten + 1
  <2>1. <<piece, name>> # << >> /\ <<piece, name>>[1] = piece /\ <<piece, name>>[2] = name
    OBVIOUS
  <2>. QED  BY <1>2, <1>3, <2>1
<1>5. Covers(branch, PiecesInHand, Done, Eaten)
  BY <1>2 DEF Reached
<1>6. Covers(branch, PiecesInHand, Done + 1, Eaten)
  <2>1. PiecesInHand[Done + 1] = Globstar /\ Eaten >= Eaten /\ Done \in Nat /\ Eaten \in Nat
    BY <1>2, <1>3
  <2>. QED  BY <1>5, <2>1, OnePartMore
<1>7. Reached'
  <2>1. Covers(branch, PiecesInHand, Done, Eaten)' <=> Covers(branch, PiecesInHand, Done + 1, Eaten)
    BY <1>3 DEF Covers, Parted, Takes
  <2>2. Covers(branch, PiecesInHand, star[1], star[2] - 1)' <=> Covers(branch, PiecesInHand, Done + 1, Eaten)
    BY <1>2, <1>3, <1>4 DEF Covers, Parted, Takes
  <2>3. Eaten <= Len(branch) /\ Done + 1 <= Len(PiecesInHand)
    BY <1>2, <1>3
  <2>. QED  BY <1>2, <1>3, <1>4, <1>6, <2>1, <2>2, <2>3 DEF Reached
<1>8. Minimal'
  <2> SUFFICES ASSUME NEW c \in [0..Len(PiecesInHand) -> 0..Len(branch)]',
                      Parted(c, branch, PiecesInHand, Len(PiecesInHand), Len(branch))'
               PROVE  NoSooner(c)'
    BY DEF Minimal
  <2>0. /\ c \in [0..Len(PiecesInHand) -> 0..Len(branch)]
        /\ Parted(c, branch, PiecesInHand, Len(PiecesInHand), Len(branch))
    BY <1>3 DEF Parted, Takes
  <2>1. NoSooner(c)
    BY <1>2, <2>0 DEF Minimal
  <2>2. Done + 1 \in 1..Len(PiecesInHand) /\ c[Done] \in Nat /\ c[Done + 1] \in Nat
    BY <1>2, <1>3, <2>0
  <2>3. c[Done] >= Eaten
    BY <1>2, <2>1, <2>2 DEF NoSooner
  <2>4. c[Done + 1] >= c[Done]
    BY <1>2, <1>3, <2>0, <2>2 DEF Parted
  <2>5. c[Done + 1] >= Eaten
    BY <1>2, <2>2, <2>3, <2>4
  <2>. QED  BY <1>2, <1>3, <1>4, <2>2, <2>5 DEF NoSooner
<1>9. Thrifty'
  <2>1. Walked \in Nat /\ Walked <= Eaten
    BY <1>2 DEF Reached, Walked
  <2>2. Walked' = Eaten
    BY <1>2, <1>4 DEF Walked
  <2>3. steps <= Walked * (Len(PiecesInHand) + 1) + Done
    BY <1>2 DEF Thrifty
  <2>4. Walked * (Len(PiecesInHand) + 1) <= Eaten * (Len(PiecesInHand) + 1)
    BY <1>2, <2>1, Products
  <2>. QED  BY <1>2, <1>3, <2>1, <2>2, <2>3, <2>4, Products DEF Thrifty
<1>. QED  BY <1>7, <1>8, <1>9 DEF LoopInv

LEMMA MatchSegmentGoesOn ==
  ASSUME GlobInv, MatchSegment
  PROVE  LoopInv'
<1>1. tried > 0 /\ selected = "unknown" /\ name <= Len(branch)
  BY DEF MatchSegment, Turning
<1> USE <1>1
<1>2. /\ Len(PiecesInHand) \in Nat /\ Len(branch) \in Nat
      /\ name \in Nat \ {0} /\ piece \in Nat \ {0} /\ steps \in Nat
      /\ Done \in Nat /\ Eaten \in Nat /\ Done + 1 = piece /\ Eaten + 1 = name
      /\ Reached /\ Minimal /\ Thrifty
  BY InTheLoop DEF Done, Eaten
<1>3. /\ piece <= Len(PiecesInHand) /\ PiecesInHand[piece] # Globstar
      /\ Takes(PiecesInHand[piece], branch[name])
      /\ star' = star /\ name' = name + 1 /\ branch' = branch /\ steps' = steps + 1
      /\ PiecesInHand' = PiecesInHand
      /\ Done' = Done + 1 /\ Eaten' = Eaten + 1
  BY <1>2 DEF MatchSegment, OnStar, OnMatch, InPattern, Turned, PiecesInHand, Done, Eaten
<1>4. Covers(branch, PiecesInHand, Done, Eaten)
  BY <1>2 DEF Reached
<1>5. Covers(branch, PiecesInHand, Done + 1, Eaten + 1)
  <2>1. /\ PiecesInHand[Done + 1] # Globstar /\ Takes(PiecesInHand[Done + 1], branch[Eaten + 1])
        /\ Eaten + 1 >= Eaten /\ Done \in Nat /\ Eaten \in Nat /\ Eaten + 1 \in Nat
    BY <1>2, <1>3
  <2>. QED  BY <1>4, <2>1, OnePartMore
<1>6. Reached'
  <2>1. Covers(branch, PiecesInHand, Done, Eaten)' <=> Covers(branch, PiecesInHand, Done + 1, Eaten + 1)
    BY <1>3 DEF Covers, Parted, Takes
  <2>2. Covers(branch, PiecesInHand, star[1], star[2] - 1)' <=> Covers(branch, PiecesInHand, star[1], star[2] - 1)
    BY <1>3 DEF Covers, Parted, Takes
  <2>3. Eaten + 1 <= Len(branch) /\ Done + 1 <= Len(PiecesInHand)
    BY <1>2, <1>3
  <2>. QED  BY <1>2, <1>3, <1>5, <2>1, <2>2, <2>3, SMTT(30) DEF Reached
<1>7. Minimal'
  <2> SUFFICES ASSUME NEW c \in [0..Len(PiecesInHand) -> 0..Len(branch)]',
                      Parted(c, branch, PiecesInHand, Len(PiecesInHand), Len(branch))'
               PROVE  NoSooner(c)'
    BY DEF Minimal
  <2>1. /\ c \in [0..Len(PiecesInHand) -> 0..Len(branch)]
        /\ Parted(c, branch, PiecesInHand, Len(PiecesInHand), Len(branch))
    BY <1>3 DEF Parted, Takes
  <2>2. NoSooner(c)
    BY <1>2, <2>1 DEF Minimal
  <2>3. Done + 1 \in 1..Len(PiecesInHand) /\ c[Done] \in Nat /\ c[Done + 1] \in Nat
    BY <1>2, <1>3, <2>1
  <2>4. c[Done + 1] = c[Done] + 1
    BY <1>2, <1>3, <2>1, <2>3 DEF Parted
  <2>. QED  BY <1>2, <1>3, <2>2, <2>3, <2>4 DEF NoSooner
<1>8. Thrifty'
  <2>1. Walked \in Nat /\ Walked' = Walked
    BY <1>2, <1>3 DEF Reached, Walked
  <2>2. steps <= Walked * (Len(PiecesInHand) + 1) + Done
    BY <1>2 DEF Thrifty
  <2>. QED  BY <1>2, <1>3, <2>1, <2>2, Products DEF Thrifty
<1>. QED  BY <1>6, <1>7, <1>8 DEF LoopInv

\* The last ** takes back one segment: no whole cut has it end where it ended.
LEMMA TakeBackGoesOn ==
  ASSUME GlobInv, TakeBack
  PROVE  LoopInv'
<1>1. tried > 0 /\ selected = "unknown" /\ name <= Len(branch)
  BY DEF TakeBack, Turning
<1> USE <1>1
<1>2. /\ Len(PiecesInHand) \in Nat /\ Len(branch) \in Nat
      /\ name \in Nat \ {0} /\ piece \in Nat \ {0} /\ steps \in Nat
      /\ Done \in Nat /\ Eaten \in Nat /\ Done + 1 = piece /\ Eaten + 1 = name
      /\ Reached /\ Minimal /\ Thrifty
  BY InTheLoop DEF Done, Eaten
<1> DEFINE at == star[1]
           taken == star[2] - 1
<1>3. /\ star # << >> /\ star = <<at, star[2]>> /\ at \in 1..Done /\ taken \in 0..Eaten
      /\ star[2] = taken + 1
      /\ PiecesInHand[at] = Globstar
      /\ Covers(branch, PiecesInHand, at, taken)
      /\ Done <= Len(PiecesInHand)
  BY <1>2, InTheLoop, SMTT(30) DEF TakeBack, Reached
<1>4. /\ piece <= Len(PiecesInHand) =>
            PiecesInHand[piece] # Globstar /\ ~Takes(PiecesInHand[piece], branch[name])
      /\ star' = [star EXCEPT ![2] = @ + 1] /\ name' = star[2] + 1 /\ piece' = at + 1
      /\ branch' = branch /\ steps' = steps + 1
      /\ PiecesInHand' = PiecesInHand
  BY DEF TakeBack, OnStar, OnMatch, InPattern, Turned, PiecesInHand
<1>5. star' = <<at, star[2] + 1>>
  BY <1>3, <1>4
<1> HIDE DEF at, taken
<1>6. star' # << >> /\ star[1]' = at /\ star[2]' = taken + 2 /\ Done' = at /\ Eaten' = taken + 1
  <2>1. \A x, y : <<x, y>> # << >> /\ <<x, y>>[1] = x /\ <<x, y>>[2] = y
    OBVIOUS
  <2>2. star' # << >> /\ star'[1] = at /\ star'[2] = star[2] + 1
    BY <1>5, <2>1
  <2>. QED  BY <1>2, <1>3, <1>4, <2>2 DEF Done, Eaten
<1>7. Covers(branch, PiecesInHand, at, taken + 1)
  <2>1. at \in Nat /\ at >= 1 /\ taken \in Nat
    BY <1>2, <1>3
  <2>. QED  BY <1>3, <2>1, StarTakes
<1>8. Reached'
  <2>1. Covers(branch, PiecesInHand, Done, Eaten)' <=> Covers(branch, PiecesInHand, at, taken + 1)
    BY <1>4, <1>6 DEF Covers, Parted, Takes
  <2>2. Covers(branch, PiecesInHand, star[1], star[2] - 1)' <=> Covers(branch, PiecesInHand, at, taken + 1)
    <3>1. (star[2] - 1)' = taken + 1 /\ star[1]' = at
      BY <1>2, <1>3, <1>6
    <3>. QED  BY <1>4, <3>1 DEF Covers, Parted, Takes
  <2>3. taken + 1 <= Len(branch) /\ at <= Len(PiecesInHand)
    BY <1>2, <1>3
  <2>4. name' = taken + 2
    BY <1>3, <1>4
  <2>. QED  BY <1>2, <1>3, <1>4, <1>6, <1>7, <2>1, <2>2, <2>3, <2>4 DEF Reached
<1>9. Minimal'
  <2> SUFFICES ASSUME NEW c \in [0..Len(PiecesInHand) -> 0..Len(branch)]',
                      Parted(c, branch, PiecesInHand, Len(PiecesInHand), Len(branch))'
               PROVE  NoSooner(c)'
    BY DEF Minimal
  <2>1. /\ c \in [0..Len(PiecesInHand) -> 0..Len(branch)]
        /\ Parted(c, branch, PiecesInHand, Len(PiecesInHand), Len(branch))
    BY <1>4 DEF Parted, Takes
  <2>2. NoSooner(c)
    BY <1>2, <2>1 DEF Minimal
  <2>3. c[at] \in Nat /\ c[at] >= taken /\ (c[at] = taken => c[Done] = Eaten)
    <3>1. c[at] \in Nat
      BY <1>2, <1>3, <2>1
    <3>. QED  BY <1>3, <2>2, <3>1 DEF NoSooner, at, taken
  <2>4. c[at] # taken
    <3> SUFFICES ASSUME c[Done] = Eaten PROVE FALSE
      BY <2>3
    <3>1. CASE piece <= Len(PiecesInHand)
      <4>1. piece \in 1..Len(PiecesInHand) /\ piece - 1 = Done
        BY <1>2, <3>1
      <4>2. PiecesInHand[piece] # Globstar
        BY <1>4, <3>1
      <4>3. c[piece] = c[piece - 1] + 1 /\ Takes(PiecesInHand[piece], branch[c[piece]])
        BY <2>1, <4>1, <4>2 DEF Parted
      <4>4. c[piece] = name
        BY <1>2, <4>1, <4>3
      <4>. QED  BY <1>4, <3>1, <4>3, <4>4
    <3>2. CASE piece > Len(PiecesInHand)
      <4>1. Done = Len(PiecesInHand)
        BY <1>2, <1>3, <3>2
      <4>2. c[Len(PiecesInHand)] = Len(branch)
        BY <2>1 DEF Parted
      <4>. QED  BY <1>2, <4>1, <4>2
    <3>. QED  BY <1>2, <3>1, <3>2
  <2>5. c[at] >= taken + 1
    BY <1>2, <1>3, <2>3, <2>4
  <2>6. (star[2] - 1)' = taken + 1
    BY <1>2, <1>3, <1>6
  <2>. QED  BY <1>2, <1>3, <1>6, <2>5, <2>6 DEF NoSooner
<1>10. Thrifty'
  <2>1. Walked = taken /\ Walked' = taken + 1
    BY <1>2, <1>3, <1>6 DEF Walked, taken
  <2>2. steps <= taken * (Len(PiecesInHand) + 1) + Done
    BY <1>2, <2>1 DEF Thrifty
  <2>3. taken \in Nat /\ Len(PiecesInHand) + 1 \in Nat
    BY <1>2, <1>3
  <2>4. /\ taken * (Len(PiecesInHand) + 1) \in Nat
        /\ (taken + 1) * (Len(PiecesInHand) + 1) = taken * (Len(PiecesInHand) + 1) + Len(PiecesInHand) + 1
    BY <1>2, <2>3, Products
  <2>5. steps + 1 <= (taken + 1) * (Len(PiecesInHand) + 1) + at
    <3> DEFINE k == taken * (Len(PiecesInHand) + 1)
    <3>1. k \in Nat /\ (taken + 1) * (Len(PiecesInHand) + 1) = k + Len(PiecesInHand) + 1 /\ steps <= k + Done
      BY <2>2, <2>4
    <3> HIDE DEF k
    <3>. QED  BY <1>2, <1>3, <3>1
  <2>. QED  BY <1>4, <1>6, <2>1, <2>5 DEF Thrifty
<1>. QED  BY <1>8, <1>9, <1>10 DEF LoopInv

\* When the branch is used up, the loop knows whether it matches.
LEMMA EndTells ==
  ASSUME GlobInv, tried > 0, selected = "unknown", name > Len(branch)
  PROVE  (\A k \in piece..Len(PiecesInHand) : PiecesInHand[k] = Globstar)
            <=> FullMatch(branch, filter[tried])
<1> DEFINE m == Len(PiecesInHand)
           n == Len(branch)
<1>1. /\ m \in Nat /\ n \in Nat
      /\ name \in Nat \ {0} /\ piece \in Nat \ {0}
      /\ Done \in Nat /\ Eaten \in Nat /\ Done + 1 = piece /\ Eaten + 1 = name
      /\ Reached /\ Minimal
  BY InTheLoop DEF Done, Eaten
<1>2. Eaten = n /\ Done <= m /\ Covers(branch, PiecesInHand, Done, Eaten)
  BY <1>1 DEF Reached
<1>3. FullMatch(branch, filter[tried]) <=> Covers(branch, PiecesInHand, m, n)
  <2>1. branch \in Seq(Segments) /\ filter[tried] \in Patterns
    BY InTheLoop DEF GlobInv
  <2>. QED  BY <2>1, PiecesMatch DEF PiecesInHand
<1> HIDE DEF m, n
<1>4. ASSUME \A k \in piece..m : PiecesInHand[k] = Globstar
      PROVE  Covers(branch, PiecesInHand, m, n)
  <2>1. \A k \in Done + 1..m : PiecesInHand[k] = Globstar
    BY <1>1, <1>4
  <2>. QED  BY <1>1, <1>2, <2>1, StarsTakeNothing
<1>5. ASSUME Covers(branch, PiecesInHand, m, n), NEW k \in piece..m, PiecesInHand[k] # Globstar
      PROVE  FALSE
  <2>1. PICK c \in [0..m -> 0..n] : Parted(c, branch, PiecesInHand, m, n)
    BY <1>5 DEF Covers
  <2>2. NoSooner(c)
    BY <1>1, <2>1 DEF Minimal, m, n
  <2>3. Done \in 0..m /\ k - 1 \in Done..m /\ k \in 1..m /\ m \in 0..m /\ m \in k..m
    BY <1>1, <1>2
  <2>4. c[Done] \in Nat /\ c[k - 1] \in Nat /\ c[k] \in Nat /\ c[m] = n
    BY <1>1, <2>1, <2>3 DEF Parted
  <2>5. c[Done] >= n
    BY <1>1, <1>2, <2>2, <2>4 DEF NoSooner
  <2>6. c[Done] <= c[k - 1]
    BY <1>1, <2>1, <2>3, CutRises
  <2>7. c[k] = c[k - 1] + 1
    BY <1>5, <2>1, <2>3 DEF Parted
  <2>8. c[k] \in 0..n
    BY <2>1, <2>3
  <2>. QED  BY <1>1, <2>4, <2>5, <2>6, <2>7, <2>8
<1>. QED  BY <1>3, <1>4, <1>5 DEF m, n

\* Without a ** before it, a part that does not take its segment decides.
LEMMA NoMatchTells ==
  ASSUME GlobInv, NoMatch
  PROVE  ~FullMatch(branch, filter[tried])
<1>1. tried > 0 /\ selected = "unknown" /\ name <= Len(branch) /\ star = << >>
  BY DEF NoMatch, Turning
<1> USE <1>1
<1> DEFINE m == Len(PiecesInHand)
           n == Len(branch)
<1>2. /\ m \in Nat /\ n \in Nat
      /\ name \in Nat \ {0} /\ piece \in Nat \ {0}
      /\ Done \in Nat /\ Eaten \in Nat /\ Done + 1 = piece /\ Eaten + 1 = name
      /\ Reached /\ Minimal
  BY InTheLoop DEF Done, Eaten
<1>3. piece <= m => PiecesInHand[piece] # Globstar /\ ~Takes(PiecesInHand[piece], branch[name])
  BY DEF NoMatch, OnStar, OnMatch, InPattern
<1>4. branch \in Seq(Segments) /\ filter[tried] \in Patterns
  BY InTheLoop DEF GlobInv
<1>5. FullMatch(branch, filter[tried]) <=> Covers(branch, PiecesInHand, m, n)
  BY <1>4, PiecesMatch DEF PiecesInHand
<1>6. Done <= m
  BY <1>2 DEF Reached
<1> HIDE DEF m, n
<1>7. ASSUME Covers(branch, PiecesInHand, m, n) PROVE FALSE
  <2>1. PICK c \in [0..m -> 0..n] : Parted(c, branch, PiecesInHand, m, n)
    BY <1>7 DEF Covers
  <2>2. NoSooner(c)
    BY <1>2, <2>1 DEF Minimal, m, n
  <2>3. c[Done] = Eaten
    BY <2>2 DEF NoSooner
  <2>4. CASE piece <= m
    <3>1. piece \in 1..m /\ piece - 1 = Done
      BY <1>2, <2>4
    <3>2. c[piece] = c[piece - 1] + 1 /\ Takes(PiecesInHand[piece], branch[c[piece]])
      BY <1>3, <2>1, <2>4, <3>1 DEF Parted
    <3>3. c[piece] = name
      BY <1>2, <2>3, <3>1, <3>2
    <3>. QED  BY <1>3, <2>4, <3>2, <3>3
  <2>5. CASE piece > m
    <3>1. Done = m
      BY <1>2, <1>6, <2>5
    <3>2. c[m] = n
      BY <2>1 DEF Parted
    <3>. QED  BY <1>2, <2>3, <3>1, <3>2 DEF n
  <2>. QED  BY <1>2, <2>4, <2>5
<1>. QED  BY <1>5, <1>7

\* The loop begins with nothing matched.
LEMMA LoopBegins ==
  ASSUME filter' \in Seq(Patterns), tried' \in DOMAIN filter', Len(branch') \in Nat,
         name' = 1, piece' = 1, star' = << >>, steps' = 0
  PROVE  LoopInv'
<1>1. Done' = 0 /\ Eaten' = 0
  BY DEF Done, Eaten
<1>2. Len(PiecesInHand') \in Nat
  <2>1. filter'[tried'] \in Patterns
    OBVIOUS
  <2>. QED  BY <2>1, PiecesType DEF PiecesInHand
<1>3. Reached'
  <2> DEFINE c == [k \in 0..0 |-> 0]
  <2>1. c \in [0..0 -> 0..0] /\ c[0] = 0
    OBVIOUS
  <2>2. \A k \in 1..0 : FALSE
    OBVIOUS
  <2> HIDE DEF c
  <2>3. Covers(branch, PiecesInHand, Done, Eaten)'
    BY <1>1, <2>1, <2>2 DEF Covers, Parted
  <2>. QED  BY <1>1, <1>2, <2>3 DEF Reached
<1>4. Minimal'
  BY <1>1 DEF Minimal, NoSooner, Parted
<1>5. Thrifty'
  <2>1. Walked' = 0
    BY DEF Walked
  <2>. QED  BY <1>1, <1>2, <2>1 DEF Thrifty
<1>. QED  BY <1>3, <1>4, <1>5 DEF LoopInv

\* The pattern in hand does not match: the next one is tried, if there is one.
LEMMA NextPatternKeeps ==
  ASSUME GlobInv, tried > 0, selected = "unknown", ~FullMatch(branch, filter[tried]), NextPattern
  PROVE  GlobInv'
<1>1. /\ filter # << >> /\ tried \in DOMAIN filter /\ filter \in Seq(Patterns) /\ branch \in Seq(Segments)
      /\ \A k \in DOMAIN filter : k < tried => ~FullMatch(branch, filter[k])
  BY InTheLoop DEF GlobInv
<1>2. /\ name' = 1 /\ piece' = 1 /\ star' = << >> /\ steps' = 0 /\ branch' = branch /\ filter' = filter
      /\ \/ tried < Len(filter) /\ tried' = tried + 1 /\ selected' = "unknown"
         \/ ~(tried < Len(filter)) /\ selected' = "no" /\ tried' = tried
  BY DEF NextPattern
<1>3. DOMAIN filter = 1..Len(filter) /\ Len(filter) \in Nat /\ tried \in Nat
  BY <1>1
<1>4. tried' \in DOMAIN filter' /\ tried' \in Nat /\ tried' > 0
  BY <1>1, <1>2, <1>3
<1>5. LoopInv'
  <2>1. Len(branch') \in Nat
    BY <1>1, <1>2
  <2>. QED  BY <1>1, <1>2, <1>4, <2>1, LoopBegins
<1>6. \A k \in DOMAIN filter : (k < tried' \/ selected' = "no") => ~FullMatch(branch, filter[k])
  <2> SUFFICES ASSUME NEW k \in DOMAIN filter, k < tried' \/ selected' = "no"
               PROVE  ~FullMatch(branch, filter[k])
    OBVIOUS
  <2>1. k \in Nat /\ (k < tried \/ k = tried)
    BY <1>2, <1>3
  <2>. QED  BY <1>1, <2>1
<1>7. branch' \in Seq(Segments')
  BY <1>1, <1>2 DEF Segments
<1>8. GlobTypeOK'
  BY <1>2, <1>4 DEF GlobTypeOK
<1>9. selected' # "yes" /\ tried' # 0 /\ filter' # << >>
  BY <1>1, <1>2, <1>4
<1>. QED  BY <1>1, <1>2, <1>4, <1>5, <1>6, <1>7, <1>8, <1>9 DEF GlobInv

\* The turns of the loop leave the question alone.
LEMMA TurnKeeps ==
  ASSUME GlobInv, Turning, Turned, LoopInv',
         name' \in Nat \ {0}, piece' \in Nat \ {0}, star' = << >> \/ star' \in Nat \X Nat
  PROVE  GlobInv'
<1>1. tried > 0 /\ selected = "unknown"
  BY DEF Turning
<1>2. branch' = branch /\ filter' = filter /\ tried' = tried /\ selected' = selected /\ steps' = steps + 1
  BY DEF Turned
<1>3. filter # << >> /\ tried \in DOMAIN filter /\ steps \in Nat /\ tried \in Nat
  BY <1>1, InTheLoop DEF GlobInv, GlobTypeOK
<1>4. GlobTypeOK'
  BY <1>1, <1>2, <1>3 DEF GlobTypeOK
<1>5. tried # 0
  BY <1>1, <1>3
<1>. QED  BY <1>1, <1>2, <1>3, <1>4, <1>5 DEF GlobInv, Segments

LEMMA LoopStays ==
  ASSUME UNCHANGED <<branch, filter, tried, name, piece, star, steps>>, LoopInv
  PROVE  LoopInv'
<1>1. PiecesInHand' = PiecesInHand /\ Done' = Done /\ Eaten' = Eaten /\ Walked' = Walked
  BY DEF PiecesInHand, Done, Eaten, Walked
<1>2. /\ Covers(branch, PiecesInHand, Done, Eaten)' <=> Covers(branch, PiecesInHand, Done, Eaten)
      /\ Covers(branch, PiecesInHand, star[1], star[2] - 1)' <=> Covers(branch, PiecesInHand, star[1], star[2] - 1)
  BY <1>1 DEF Covers, Parted, Takes
<1>3. Reached'
  BY <1>1, <1>2 DEF LoopInv, Reached
<1>4. Minimal'
  BY <1>1 DEF LoopInv, Minimal, NoSooner, Parted, Takes
<1>5. Thrifty'
  BY <1>1 DEF LoopInv, Thrifty
<1>. QED  BY <1>3, <1>4, <1>5 DEF LoopInv

LEMMA GlobStart == GlobInit => GlobInv
<1> SUFFICES ASSUME GlobInit PROVE GlobInv
  OBVIOUS
<1>1. << >> \in Seq(Segments) /\ << >> \in Seq(Patterns)
  OBVIOUS
<1>2. GlobTypeOK
  BY DEF GlobInit, GlobTypeOK
<1>. QED  BY <1>1, <1>2 DEF GlobInit, GlobInv

LEMMA GlobStep == GlobInv /\ [GlobNext]_globVars => GlobInv'
<1> SUFFICES ASSUME GlobInv, [GlobNext]_globVars PROVE GlobInv'
  OBVIOUS
<1>1. ASSUME NEW b \in Branches, NEW f \in Filters, AskFilter(b, f) PROVE GlobInv'
  <2>1. /\ tried = 0 /\ name = 1 /\ piece = 1 /\ star = << >> /\ steps = 0
        /\ branch' = b /\ filter' = f /\ tried' = 1
        /\ selected' = IF f = << >> THEN "yes" ELSE "unknown"
        /\ name' = 1 /\ piece' = 1 /\ star' = << >> /\ steps' = 0
    BY <1>1 DEF AskFilter, GlobInv
  <2>2. f \in Seq(Patterns) /\ b \in Seq({b[i] : i \in DOMAIN b})
    BY GlobAssumption DEF Patterns
  <2>3. branch' \in Seq(Segments')
    BY <2>1, <2>2 DEF Segments
  <2>4. f # << >> => 1 \in DOMAIN f
    BY <2>2
  <2>5. f # << >> => LoopInv'
    <3>1. Len(b) \in Nat
      BY <2>2
    <3>. QED  BY <2>1, <2>2, <2>4, <3>1, LoopBegins
  <2>6. GlobTypeOK'
    BY <2>1 DEF GlobTypeOK
  <2>7. \A k \in DOMAIN f : ~(k < 1)
    BY <2>2
  <2>. QED  BY <2>1, <2>2, <2>3, <2>4, <2>5, <2>6, <2>7 DEF GlobInv
<1>2. CASE MeetStar
  <2>1. LoopInv' /\ Turning /\ Turned
    BY <1>2, MeetStarGoesOn DEF MeetStar
  <2>2. name \in Nat \ {0} /\ piece \in Nat \ {0} /\ name' = name /\ piece' = piece + 1 /\ star' = <<piece, name>>
    BY <1>2 DEF GlobInv, GlobTypeOK, MeetStar
  <2>. QED  BY <2>1, <2>2, TurnKeeps
<1>3. CASE MatchSegment
  <2>1. LoopInv' /\ Turning /\ Turned
    BY <1>3, MatchSegmentGoesOn DEF MatchSegment
  <2>2. /\ name \in Nat \ {0} /\ piece \in Nat \ {0} /\ name' = name + 1 /\ piece' = piece + 1
        /\ star' = star /\ (star = << >> \/ star \in Nat \X Nat)
    BY <1>3 DEF GlobInv, GlobTypeOK, MatchSegment
  <2>. QED  BY <2>1, <2>2, TurnKeeps
<1>4. CASE TakeBack
  <2>1. LoopInv' /\ Turning /\ Turned
    BY <1>4, TakeBackGoesOn DEF TakeBack
  <2>2. star \in Nat \X Nat /\ star' = [star EXCEPT ![2] = @ + 1] /\ name' = star[2] + 1 /\ piece' = star[1] + 1
    BY <1>4 DEF GlobInv, GlobTypeOK, TakeBack
  <2>3. star = <<star[1], star[2]>> /\ star[1] \in Nat /\ star[2] \in Nat
    BY <2>2
  <2>4. star' = <<star[1], star[2] + 1>>
    BY <2>2, <2>3
  <2>. QED  BY <2>1, <2>2, <2>3, <2>4, TurnKeeps
<1>5. CASE NoMatch
  <2>1. tried > 0 /\ selected = "unknown" /\ NextPattern
    BY <1>5 DEF NoMatch, Turning
  <2>. QED  BY <1>5, <2>1, NoMatchTells, NextPatternKeeps
<1>6. CASE BranchEnds
  <2>1. tried > 0 /\ selected = "unknown" /\ name > Len(branch)
    BY <1>6 DEF BranchEnds
  <2>2. CASE \A k \in piece..Len(PiecesInHand) : PiecesInHand[k] = Globstar
    <3>1. FullMatch(branch, filter[tried])
      BY <2>1, <2>2, EndTells
    <3>2. selected' = "yes" /\ UNCHANGED <<branch, filter, tried, name, piece, star, steps>>
      BY <1>6, <2>2 DEF BranchEnds
    <3>3. LoopInv => LoopInv'
      BY <3>2, LoopStays
    <3>4. tried # 0
      BY <2>1
    <3>. QED  BY <2>1, <3>1, <3>2, <3>3, <3>4 DEF GlobInv, GlobTypeOK, Segments
  <2>3. CASE ~(\A k \in piece..Len(PiecesInHand) : PiecesInHand[k] = Globstar)
    <3>1. ~FullMatch(branch, filter[tried])
      BY <2>1, <2>3, EndTells
    <3>2. NextPattern
      BY <1>6, <2>3 DEF BranchEnds
    <3>. QED  BY <2>1, <3>1, <3>2, NextPatternKeeps
  <2>. QED  BY <2>2, <2>3
<1>7. CASE UNCHANGED globVars
  <2>1. UNCHANGED <<branch, filter, tried, name, piece, star, steps, selected>>
    BY <1>7 DEF globVars
  <2>2. LoopInv => LoopInv'
    BY <2>1, LoopStays
  <2>. QED  BY <2>1, <2>2 DEF GlobInv, GlobTypeOK, Segments
<1>. QED  BY <1>1, <1>2, <1>3, <1>4, <1>5, <1>6, <1>7 DEF GlobNext

LEMMA GlobInvTells == GlobInv => FilterIsFullMatch
<1> SUFFICES ASSUME GlobInv PROVE FilterIsFullMatch
  OBVIOUS
<1>1. ASSUME tried > 0, filter # << >>
      PROVE  steps <= (Len(branch) + 1) * (Len(PiecesInHand) + 1)
  <2>1. LoopInv /\ filter[tried] \in Patterns /\ Len(branch) \in Nat
    BY <1>1 DEF GlobInv
  <2>2. Len(PiecesInHand) \in Nat
    BY <2>1, PiecesType DEF PiecesInHand
  <2> DEFINE K == Len(PiecesInHand) + 1
             n == Len(branch)
  <2>3. Walked \in Nat /\ Walked <= n /\ Done \in Int /\ Done < K /\ steps <= Walked * K + Done /\ steps \in Nat
    <3>1. name \in Nat \ {0} /\ piece \in Nat \ {0} /\ steps \in Nat
      BY DEF GlobInv, GlobTypeOK
    <3>2. steps <= Walked * K + Done
      BY <2>1 DEF LoopInv, Thrifty
    <3>3. Walked \in Nat /\ Walked <= n /\ Done \in Int /\ Done < K
      BY <2>1, <2>2, <3>1 DEF LoopInv, Reached, Walked, Done, Eaten
    <3>. QED  BY <3>1, <3>2, <3>3
  <2>4. K \in Nat /\ n \in Nat
    BY <2>1, <2>2
  <2> HIDE DEF K, n
  <2>5. Walked * K \in Nat /\ Walked * K <= n * K /\ n * K \in Nat /\ (n + 1) * K = n * K + K
    BY <2>3, <2>4, Products
  <2>6. steps <= (n + 1) * K
    BY <2>3, <2>4, <2>5
  <2>. QED  BY <2>6 DEF n, K
<1>. QED  BY <1>1 DEF GlobInv, FilterIsFullMatch

\* The answer of the filter is that of the reference for any branch and any patterns, and
\* it comes within the product of the lengths (domain/glob.py: glob_full_match).
THEOREM FilterAnswersTruly == GlobSpec => []FilterIsFullMatch
<1>1. GlobInit => GlobInv
  BY GlobStart
<1>2. GlobInv /\ [GlobNext]_globVars => GlobInv'
  BY GlobStep
<1>3. GlobInv => FilterIsFullMatch
  BY GlobInvTells
<1>. QED  BY <1>1, <1>2, <1>3, PTL DEF GlobSpec

\* ---- the findings of a review ----------------------------------------------

\* Of any findings some come first.
LEMMA SomeComeFirst ==
  ASSUME NEW S, NEW s \in Seq(S)
  PROVE  \E places \in SUBSET DOMAIN s : AreFirst(places, s)
<1> DEFINE L == Len(s)
           UpToPlace(n, F) == F = {i \in 1..n : \A j \in F : j < i => ~Collide(s[j], s[i])}
           D == {n \in 0..L : ~ \E F \in SUBSET (1..n) : UpToPlace(n, F)}
<1>1. L \in Nat /\ DOMAIN s = 1..L
  OBVIOUS
<1> HIDE DEF L
<1>2. ASSUME D # {} PROVE FALSE
  <2>1. D \subseteq Nat
    BY <1>1
  <2>2. PICK m \in D : \A n \in D : m <= n
    <3> HIDE DEF D
    <3>. QED  BY <1>2, <2>1, LeastNumber
  <2>3. m \in 0..L /\ m \in Nat
    BY <2>1
  <2>4. m # 0
    <3>1. UpToPlace(0, {})
      OBVIOUS
    <3>. QED  BY <3>1
  <2>5. PICK F \in SUBSET (1..(m - 1)) : UpToPlace(m - 1, F)
    <3>1. m - 1 \in 0..L /\ m - 1 < m
      BY <1>1, <2>3, <2>4
    <3>2. m - 1 \notin D
      <4> HIDE DEF D
      <4>. QED  BY <2>2, <2>3, <3>1
    <3>. QED  BY <3>1, <3>2
  <2> DEFINE G == F \cup {i \in {m} : \A j \in F : ~Collide(s[j], s[i])}
  <2>6. G \in SUBSET (1..m)
    <3>1. \A i \in 1..(m - 1) : i \in 1..m
      BY <2>3
    <3>2. m \in 1..m
      BY <2>3, <2>4
    <3>. QED  BY <3>1, <3>2
  <2>7. ASSUME NEW i \in 1..m
        PROVE  i \in G <=> \A j \in G : j < i => ~Collide(s[j], s[i])
    <3>1. \A j \in F : j \in 1..(m - 1) /\ j < m
      BY <2>3
    <3>2. CASE i = m
      <4>1. i \in G <=> \A j \in F : ~Collide(s[j], s[i])
        BY <3>1, <3>2
      <4>2. \A j \in G : j < i <=> j \in F
        BY <2>3, <3>1, <3>2
      <4>. QED  BY <4>1, <4>2
    <3>3. CASE i # m
      <4>1. i \in 1..(m - 1)
        BY <2>3, <3>3
      <4>2. i \in F <=> \A j \in F : j < i => ~Collide(s[j], s[i])
        BY <2>5, <4>1
      <4>3. \A j \in G : j < i => j \in F
        BY <2>3, <4>1
      <4>. QED  BY <3>3, <4>2, <4>3
    <3>. QED  BY <3>2, <3>3
  <2>8. UpToPlace(m, G)
    <3> HIDE DEF G
    <3>. QED  BY <2>6, <2>7
  <2>. QED  BY <2>6, <2>8
<1>3. PICK F \in SUBSET (1..L) : UpToPlace(L, F)
  <2>1. L \in 0..L /\ L \notin D
    <3> HIDE DEF D
    <3>. QED  BY <1>1, <1>2
  <2>. QED  BY <2>1
<1>4. F \in SUBSET DOMAIN s /\ AreFirst(F, s)
  BY <1>1, <1>3 DEF AreFirst
<1>. QED  BY <1>4

\* Two findings of one place and one identity are not both there.
Apart(findings) == \A i, j \in DOMAIN findings : i < j => ~Collide(findings[i], findings[j])

\* What deduplicate returns: findings of its input, apart, and one that says what any of
\* them says.
LEMMA DeduplicatedKeeps ==
  ASSUME NEW S, NEW s \in Seq(S)
  PROVE  /\ Deduplicated(s) \in Seq(S) /\ Len(Deduplicated(s)) \in 0..Len(s)
         /\ Apart(Deduplicated(s))
         /\ \A i \in DOMAIN s : \E k \in DOMAIN Deduplicated(s) :
               Deduplicated(s)[k] = s[i] \/ Collide(Deduplicated(s)[k], s[i])
<1> DEFINE K == CHOOSE places \in SUBSET DOMAIN s : AreFirst(places, s)
           d == Deduplicated(s)
           N == Cardinality(K)
<1>1. K \in SUBSET DOMAIN s /\ AreFirst(K, s)
  BY SomeComeFirst
<1>2. d = AtPlaces(s, K)
  BY DEF Deduplicated
<1> HIDE DEF K, d
<1>3. /\ N \in 0..Len(s) /\ d \in Seq(S) /\ Len(d) = N
      /\ \E place \in [1..N -> K] :
            /\ \A n \in 1..N : d[n] = s[place[n]]
            /\ \A i \in K : \E n \in 1..N : place[n] = i
            /\ \A m, n \in 1..N : m < n => place[m] < place[n]
  BY <1>1, <1>2, PlacesInOrder
<1>4. PICK place \in [1..N -> K] :
            /\ \A n \in 1..N : d[n] = s[place[n]]
            /\ \A i \in K : \E n \in 1..N : place[n] = i
            /\ \A m, n \in 1..N : m < n => place[m] < place[n]
  BY <1>3
<1> HIDE DEF N
<1>5. DOMAIN d = 1..N
  BY <1>3
<1>6. Apart(d)
  <2> SUFFICES ASSUME NEW m \in 1..N, NEW n \in 1..N, m < n PROVE ~Collide(d[m], d[n])
    BY <1>5 DEF Apart
  <2>1. place[m] \in K /\ place[n] \in K /\ place[m] < place[n]
    BY <1>4
  <2>2. ~Collide(s[place[m]], s[place[n]])
    BY <1>1, <2>1 DEF AreFirst
  <2>. QED  BY <1>4, <2>2
<1>7. ASSUME NEW i \in DOMAIN s
      PROVE  \E k \in DOMAIN d : d[k] = s[i] \/ Collide(d[k], s[i])
  <2>1. \E j \in K : s[j] = s[i] \/ Collide(s[j], s[i])
    BY <1>1 DEF AreFirst
  <2>. QED  BY <1>4, <1>5, <2>1
<1>. QED  BY <1>3, <1>6, <1>7 DEF d, N

\* What the screening and the second pass leave true, pass by pass.
Screened ==
    /\ \A i \in DOMAIN reported : Accepted(reported[i]) =>
          \E k \in DOMAIN kept : kept[k] = reported[i] \/ Collide(kept[k], reported[i])
    /\ Apart(kept) /\ Len(reported) = rejected + Len(kept)
Judged ==
    /\ \A k \in DOMAIN kept : kept[k] \notin Range(saved) =>
          verdicts # <<>> /\ verdicts[k] = "drop" /\ ~(kept[k].category = "security" /\ kept[k].serious)
    /\ Apart(saved) /\ Len(kept) = dropped + Len(saved)
    /\ summary = (saved # <<>> \/ reported = <<>>)
FindingsInv ==
    /\ FindingsTypeOK
    /\ pass \in {"analysed", "screened"} => summary
    /\ pass \in {"screened", "judged"} => Screened
    /\ pass = "judged" => Judged

LEMMA FindingsStart == FindingsInit => FindingsInv
<1>1. <<>> \in Seq(Candidates) /\ <<>> \in Seq({"keep", "drop"})
  OBVIOUS
<1> SUFFICES ASSUME FindingsInit PROVE FindingsInv
  OBVIOUS
<1>2. reported = <<>> /\ kept = <<>> /\ saved = <<>> /\ pass = "none"
  BY DEF FindingsInit
<1>3. FindingsTypeOK
  <2>1. \A findings \in {reported, kept, saved} : findings = <<>>
    BY <1>2
  <2>. QED  BY <1>1, <2>1 DEF FindingsInit, FindingsTypeOK
<1>. QED  BY <1>2, <1>3 DEF FindingsInv

LEMMA ReportKeeps == FindingsInv /\ Report => FindingsInv'
<1> SUFFICES ASSUME FindingsInv, Report PROVE FindingsInv'
  OBVIOUS
<1>1. reported' \in Seq(Candidates)
  <2>1. PICK n \in 0..MaxFindings : reported' \in [1..n -> Candidates]
    BY DEF Report
  <2>2. n \in Nat
    BY FindingsAssumption
  <2>. QED  BY <2>1, <2>2
<1>2. FindingsTypeOK'
  BY <1>1 DEF FindingsInv, FindingsTypeOK, Report
<1>3. pass' = "analysed" /\ summary'
  BY DEF Report
<1>. QED  BY <1>2, <1>3 DEF FindingsInv

LEMMA ScreenKeeps == FindingsInv /\ Screen => FindingsInv'
<1> SUFFICES ASSUME FindingsInv, Screen PROVE FindingsInv'
  OBVIOUS
<1> DEFINE A == {i \in DOMAIN reported : Accepted(reported[i])}
           a == AtPlaces(reported, A)
           N == Cardinality(A)
<1>1. reported \in Seq(Candidates) /\ A \in SUBSET DOMAIN reported
  BY DEF FindingsInv, FindingsTypeOK
<1>2. kept' = Deduplicated(a) /\ rejected' = Len(reported) - Len(kept') /\ reported' = reported
  BY DEF Screen
<1> HIDE DEF A, a
<1>3. /\ N \in 0..Len(reported) /\ a \in Seq(Candidates) /\ Len(a) = N
      /\ \A i \in A : \E n \in 1..N : a[n] = reported[i]
  BY <1>1, PlacesInOrder DEF a
<1>4. /\ kept' \in Seq(Candidates) /\ Len(kept') \in 0..Len(a) /\ Apart(kept')
      /\ \A n \in DOMAIN a : \E k \in DOMAIN kept' : kept'[k] = a[n] \/ Collide(kept'[k], a[n])
  BY <1>2, <1>3, DeduplicatedKeeps
<1> HIDE DEF N
<1>5. Len(reported) \in Nat /\ rejected' \in Nat /\ Len(reported) = rejected' + Len(kept')
  <2>1. Len(reported) \in Nat
    BY <1>1
  <2>. QED  BY <1>2, <1>3, <1>4, <2>1
<1>6. Screened'
  <2>1. ASSUME NEW i \in DOMAIN reported, Accepted(reported[i])
        PROVE  \E k \in DOMAIN kept' : kept'[k] = reported[i] \/ Collide(kept'[k], reported[i])
    <3>1. i \in A
      BY <2>1 DEF A
    <3>2. PICK n \in 1..N : a[n] = reported[i]
      BY <1>3, <3>1
    <3>3. n \in DOMAIN a
      BY <1>3
    <3>. QED  BY <1>4, <3>2, <3>3
  <2>2. Apart(kept)' <=> Apart(kept')
    BY DEF Apart
  <2>. QED  BY <1>2, <1>4, <1>5, <2>1, <2>2 DEF Screened, Accepted, Collide
<1>7. FindingsTypeOK'
  BY <1>1, <1>2, <1>4, <1>5 DEF FindingsInv, FindingsTypeOK, Screen
<1>8. pass' = "screened" /\ summary'
  BY DEF FindingsInv, Screen
<1>. QED  BY <1>6, <1>7, <1>8 DEF FindingsInv

\* A pass that settles on findings of the candidates, one after the other, and drops none
\* that no verdict speaks of.
LEMMA SettleKeeps ==
  ASSUME FindingsInv, NEW findings \in Seq(Candidates), NEW outcome \in {"verified", "unavailable", "notRequired"},
         Settle(findings, outcome), verdicts' \in Seq({"keep", "drop"}),
         Apart(findings), Len(findings) <= Len(kept),
         \A k \in DOMAIN kept : kept[k] \notin Range(findings) =>
             verdicts' # <<>> /\ verdicts'[k] = "drop" /\ Droppable(kept[k])
  PROVE  FindingsInv'
<1>1. /\ pass = "screened" /\ pass' = "judged" /\ saved' = findings /\ verification' = outcome
      /\ dropped' = Len(kept) - Len(findings) /\ reported' = reported /\ kept' = kept /\ rejected' = rejected
      /\ summary' = (summary /\ ~(reported # <<>> /\ findings = <<>>))
  BY DEF Settle
<1>2. kept \in Seq(Candidates) /\ summary /\ Screened
  BY <1>1 DEF FindingsInv, FindingsTypeOK
<1>3. Len(kept) \in Nat /\ Len(findings) \in Nat
  BY <1>2
<1>4. dropped' \in Nat /\ Len(kept) = dropped' + Len(findings)
  BY <1>1, <1>3
<1>5. FindingsTypeOK'
  BY <1>1, <1>4 DEF FindingsInv, FindingsTypeOK
<1>6. Screened'
  BY <1>1, <1>2 DEF Screened, Apart
<1>7. Judged'
  <2>1. \A k \in DOMAIN kept : kept[k] \notin Range(findings) =>
             verdicts' # <<>> /\ verdicts'[k] = "drop" /\ ~(kept[k].category = "security" /\ kept[k].serious)
    BY DEF Droppable
  <2>2. summary' = (findings # <<>> \/ reported = <<>>)
    BY <1>1, <1>2
  <2>3. Apart(saved)' <=> Apart(findings)
    BY <1>1 DEF Apart
  <2>4. (\A k \in DOMAIN kept : kept[k] \notin Range(saved) =>
          verdicts # <<>> /\ verdicts[k] = "drop" /\ ~(kept[k].category = "security" /\ kept[k].serious))'
    BY <1>1, <2>1
  <2>. QED  BY <1>1, <1>4, <2>2, <2>3, <2>4 DEF Judged
<1>. QED  BY <1>1, <1>5, <1>6, <1>7 DEF FindingsInv

LEMMA JudgeKeeps == ASSUME FindingsInv, NEW given \in [DOMAIN kept -> {"keep", "drop"}], Judge(given)
                    PROVE  FindingsInv'
<1> DEFINE K == {i \in DOMAIN kept : given[i] = "keep" \/ ~Droppable(kept[i])}
           d == AtPlaces(kept, K)
           N == Cardinality(K)
<1>1. pass = "screened" /\ kept # <<>> /\ verdicts' = given /\ Settle(d, "verified")
  BY DEF Judge, Settle
<1>2. kept \in Seq(Candidates) /\ K \in SUBSET DOMAIN kept /\ Apart(kept)
  BY <1>1 DEF FindingsInv, FindingsTypeOK, Screened
<1>3. DOMAIN kept = 1..Len(kept) /\ Len(kept) \in Nat /\ Len(kept) # 0
  BY <1>1, <1>2
<1>4. given \in Seq({"keep", "drop"}) /\ given # <<>>
  <2> DEFINE L == Len(kept)
  <2>1. L \in Nat /\ L # 0 /\ given \in [1..L -> {"keep", "drop"}]
    BY <1>3
  <2> HIDE DEF L
  <2>. QED  BY <2>1
<1> HIDE DEF K, d
<1>5. /\ N \in 0..Len(kept) /\ d \in Seq(Candidates) /\ Len(d) = N
      /\ \E place \in [1..N -> K] :
            /\ \A n \in 1..N : d[n] = kept[place[n]]
            /\ \A i \in K : \E n \in 1..N : place[n] = i
            /\ \A m, n \in 1..N : m < n => place[m] < place[n]
  <2>1. kept \in Seq(Candidates) /\ K \in SUBSET DOMAIN kept
    BY <1>2
  <2>. QED  BY ONLY <2>1, PlacesInOrder, SMTT(30) DEF d
<1>6. PICK place \in [1..N -> K] :
            /\ \A n \in 1..N : d[n] = kept[place[n]]
            /\ \A i \in K : \E n \in 1..N : place[n] = i
            /\ \A m, n \in 1..N : m < n => place[m] < place[n]
  BY <1>5
<1> HIDE DEF N
<1>7. DOMAIN d = 1..N /\ Len(d) <= Len(kept)
  BY <1>3, <1>5
<1>8. Apart(d)
  <2> SUFFICES ASSUME NEW m \in 1..N, NEW n \in 1..N, m < n PROVE ~Collide(d[m], d[n])
    BY <1>7 DEF Apart
  <2>1. place[m] \in DOMAIN kept /\ place[n] \in DOMAIN kept /\ place[m] < place[n]
    BY <1>2, <1>6
  <2>. QED  BY <1>2, <1>6, <2>1 DEF Apart
<1>9. ASSUME NEW k \in DOMAIN kept, kept[k] \notin Range(d)
      PROVE  given[k] = "drop" /\ Droppable(kept[k])
  <2>1. k \notin K
    <3> SUFFICES ASSUME k \in K PROVE FALSE
      OBVIOUS
    <3>1. PICK n \in 1..N : place[n] = k
      BY <1>6
    <3>. QED  BY <1>6, <1>7, <1>9, <3>1 DEF Range
  <2>. QED  BY <2>1 DEF K
<1>10. Len(d) <= Len(kept) /\ Apart(d)
  BY <1>7, <1>8
<1>11. /\ d \in Seq(Candidates) /\ verdicts' \in Seq({"keep", "drop"})
       /\ \A k \in DOMAIN kept : kept[k] \notin Range(d) =>
             verdicts' # <<>> /\ verdicts'[k] = "drop" /\ Droppable(kept[k])
  BY <1>1, <1>4, <1>5, <1>9
<1>12. "verified" \in {"verified", "unavailable", "notRequired"} /\ Settle(d, "verified")
  BY <1>1
<1>. QED  BY ONLY FindingsInv, <1>10, <1>11, <1>12, SettleKeeps

LEMMA FindingsStep == FindingsInv /\ [FindingsNext]_findingVars => FindingsInv'
<1> SUFFICES ASSUME FindingsInv, [FindingsNext]_findingVars PROVE FindingsInv'
  OBVIOUS
<1>1. CASE Report
  BY <1>1, ReportKeeps
<1>2. CASE Screen
  BY <1>2, ScreenKeeps
<1>3. CASE JudgeFails
  <2>1. kept \in Seq(Candidates) /\ Apart(kept) /\ Settle(kept, "unavailable") /\ verdicts' = <<>>
    BY <1>3 DEF FindingsInv, FindingsTypeOK, Screened, JudgeFails, Settle
  <2>2. \A k \in DOMAIN kept : kept[k] \in Range(kept)
    BY DEF Range
  <2>3. Len(kept) <= Len(kept) /\ verdicts' \in Seq({"keep", "drop"})
    BY <2>1
  <2>. QED  BY <2>1, <2>2, <2>3, SettleKeeps
<1>4. CASE NothingToJudge
  <2>1. kept = <<>> /\ Settle(<<>>, "notRequired") /\ verdicts' = <<>> /\ <<>> \in Seq(Candidates)
    BY <1>4 DEF NothingToJudge
  <2>2. Apart(<<>>) /\ DOMAIN kept = {}
    BY <2>1 DEF Apart
  <2>3. Len(<<>>) <= Len(kept) /\ verdicts' \in Seq({"keep", "drop"})
    BY <2>1
  <2>. QED  BY <2>1, <2>2, <2>3, SettleKeeps
<1>5. CASE \E given \in [DOMAIN kept -> {"keep", "drop"}] : Judge(given)
  BY <1>5, JudgeKeeps
<1>6. CASE UNCHANGED findingVars
  <2>1. FindingsTypeOK' <=> FindingsTypeOK
    BY <1>6 DEF findingVars, FindingsTypeOK
  <2>2. (Screened' <=> Screened) /\ (Judged' <=> Judged)
    BY <1>6 DEF findingVars, Screened, Judged, Apart
  <2>. QED  BY <1>6, <2>1, <2>2 DEF findingVars, FindingsInv
<1>. QED  BY <1>1, <1>2, <1>3, <1>4, <1>5, <1>6 DEF FindingsNext

LEMMA FindingsInvTells == FindingsInv => SavedFindingsStand
<1> SUFFICES ASSUME FindingsInv PROVE SavedFindingsStand
  OBVIOUS
<1>1. ASSUME pass = "judged"
      PROVE  /\ \A i, j \in DOMAIN saved :
                   saved[i].place = saved[j].place /\ saved[i].category = saved[j].category => i = j
             /\ Len(reported) = rejected + dropped + Len(saved)
  <2>1. saved \in Seq(Candidates) /\ rejected \in Nat /\ dropped \in Nat /\ Screened /\ Judged
    BY <1>1 DEF FindingsInv, FindingsTypeOK
  <2>2. DOMAIN saved = 1..Len(saved) /\ Len(saved) \in Nat
    BY <2>1
  <2>3. Len(reported) = rejected + (dropped + Len(saved))
    BY <2>1 DEF Screened, Judged
  <2>4. ASSUME NEW i \in DOMAIN saved, NEW j \in DOMAIN saved, i < j
        PROVE  ~(saved[i].place = saved[j].place /\ saved[i].category = saved[j].category)
    BY <2>1, <2>4 DEF Judged, Apart, Collide
  <2>5. \A i, j \in DOMAIN saved : i \in Nat /\ j \in Nat
    BY <2>2
  <2>6. \A i, j \in DOMAIN saved : i # j => i < j \/ j < i
    BY <2>5
  <2>. QED  BY <2>1, <2>2, <2>3, <2>4, <2>6
<1>. QED  BY <1>1 DEF FindingsInv, Screened, Judged, SavedFindingsStand

\* Whatever the model reports and the second pass answers, the findings of a run are what
\* the screening and the verdicts say, they are apart by the unique key, and they add up
\* (domain/verification.py, domain/dedup.py, review_pipeline.py: _verify).
THEOREM SavedFindingsAreRight == FindingsSpec => []SavedFindingsStand
<1>1. FindingsInit => FindingsInv
  BY FindingsStart
<1>2. FindingsInv /\ [FindingsNext]_findingVars => FindingsInv'
  BY FindingsStep
<1>3. FindingsInv => SavedFindingsStand
  BY FindingsInvTells
<1>. QED  BY <1>1, <1>2, <1>3, PTL DEF FindingsSpec

\* ---- the packet of a review ------------------------------------------------

\* What a stage goes through, and what was gone through.
PartItems == Each("part", texts.parts)
HunkItems == UNION {Hunks(f) : f \in FilesWithHunks}
RuleItems == Each("rule", RulesFor(FilesShown))
RejectedItems == Each("rejected", DOMAIN pull.rejected)
OutlineItems == Each("scopes", DOMAIN pull.files) \cup Each("imports", DOMAIN pull.files)
Dealt == packet \cup Range(omitted)

ContextTypes ==
    /\ pull \in Requests /\ texts.parts \subseteq DOMAIN pull.parts
    /\ texts.sources \subseteq DOMAIN pull.files /\ texts.outlines \subseteq DOMAIN pull.files
    /\ stage \in {"fetch", "parts", "hunks", "rules", "whole", "ast", "windows", "omitted", "done"}
    /\ left \in Nat /\ share \in Nat /\ size \in Int /\ listed \in Nat
    /\ widened \in [whole : SUBSET DOMAIN pull.files, window : SUBSET DOMAIN pull.files]
    /\ stage = "fetch" => packet = {} /\ omitted = <<>> /\ size = pull.frame

\* The part of a stage.
Fits ==
    /\ stage = "parts" => Range(todo) \subseteq PartItems
    /\ stage = "hunks" => Range(todo) \subseteq HunkItems
    /\ stage = "rules" => Range(todo) \subseteq RuleItems \cup RejectedItems
    /\ stage \in {"whole", "windows"} => Range(todo) \subseteq Each("view", DOMAIN pull.files)
    /\ stage = "ast" => Range(todo) \subseteq OutlineItems

\* An item is in one place.
Paying == {"parts", "hunks", "rules", "ast"}
Once ==
    /\ Enumerates(todo, Range(todo)) /\ Enumerates(omitted, Range(omitted))
    /\ packet \cap Range(omitted) = {}
    /\ stage \in Paying => Range(todo) \cap Dealt = {}

\* It is there no sooner than its stage, and no later.
InTurn ==
    \A x \in Dealt :
        /\ x[1] = "hunk" => stage \notin {"fetch", "parts"} /\ x \in HunkItems
        /\ x[1] \in {"rule", "rejected"} => stage \notin {"fetch", "parts", "hunks"}
        /\ x[1] \in {"scopes", "imports"} => stage \notin {"fetch", "parts", "hunks", "rules", "whole"}
Waiting == IF stage \in Paying THEN Range(todo) ELSE {}
NothingLost ==
    /\ stage # "fetch" => PartItems \subseteq Dealt \cup Waiting
    /\ stage \notin {"fetch", "parts"} => HunkItems \subseteq Dealt \cup Waiting
    /\ stage \notin {"fetch", "parts", "hunks"} => RuleItems \subseteq Dealt \cup Waiting
Dealing == Fits /\ Once /\ InTurn /\ NothingLost

\* The budget.
Unspent == IF stage \in {"fetch", "omitted", "done"} THEN 0 ELSE Reserve
Account == /\ size + left + share + Unspent <= PacketLimit
           /\ stage = "fetch" => left = 0 /\ share = 0

\* The rules that are left fit into their share.
Ample == RulesWanted(FilesWithHunks) <= RulesMax /\ pull.frame + Reserve + PrMax + RulesMax <= PacketLimit
RulesLeft == {r \in RulesFor(FilesShown) : Item("rule", r, 0) \in Range(todo)}
RejectedLeft == {r \in DOMAIN pull.rejected : Item("rejected", r, 0) \in Range(todo)}
RulesDue == Total([r \in RulesLeft |-> RuleCost(r, FilesShown)]) + Total([r \in RejectedLeft |-> pull.rejected[r]])
RulesFit == Ample =>
    /\ stage = "parts" => RulesMax <= left
    /\ stage = "hunks" => RulesWanted(FilesWithHunks) <= share
    /\ stage = "rules" => RulesDue <= share
    /\ \A x \in Range(omitted) : x[1] \notin {"rule", "rejected"}

Widening ==
    /\ widened.whole \cap widened.window = {}
    /\ stage \notin {"windows", "omitted", "done"} => widened.window = {}
    /\ stage = "windows" => \A x \in Range(todo) : x[2] \notin widened.whole

Counting ==
    /\ stage \notin {"omitted", "done"} => listed = 0
    /\ stage = "omitted" => listed + Len(todo) <= Len(omitted)
    /\ stage = "done" => listed <= Len(omitted)

ContextInv == ContextTypes /\ Dealing /\ Account /\ RulesFit /\ Widening /\ Counting

LEMMA ItemParts == ASSUME NEW what, NEW n, NEW m
                   PROVE  Item(what, n, m)[1] = what /\ Item(what, n, m)[2] = n /\ Item(what, n, m)[3] = m
  BY DEF Item

LEMMA SeqParts == ASSUME NEW S, NEW s \in Seq(S)
                  PROVE  /\ IsFiniteSet(DOMAIN s) /\ DOMAIN s \subseteq Nat
                         /\ \A i \in DOMAIN s : s[i] \in S
<1>1. DOMAIN s = 1..Len(s) /\ Len(s) \in Nat
  OBVIOUS
<1>2. IsFiniteSet(1..Len(s))
  <2> DEFINE L == Len(s)
  <2>1. L \in Int /\ 1 \in Int
    BY <1>1
  <2> HIDE DEF L
  <2>2. IsFiniteSet(1..L)
    BY <2>1, FS_Interval
  <2>. QED  BY <2>2 DEF L
<1>. QED  BY <1>1, <1>2

LEMMA FewItems ==
  ASSUME NEW what, NEW S, IsFiniteSet(S)
  PROVE  IsFiniteSet(Each(what, S))
<1> DEFINE f == [n \in S |-> Item(what, n, 0)]
<1>1. f \in Surjection(S, Each(what, S))
  BY DEF Surjection, Each
<1>. QED  BY <1>1, FS_Surjection

LEMMA EachLists ==
  ASSUME NEW what, NEW S, IsFiniteSet(S), S \subseteq Nat
  PROVE  Enumerates(ByPlace(Each(what, S)), Each(what, S))
<1> DEFINE items == Each(what, S)
<1>1. IsFiniteSet(items)
  BY FewItems
<1>2. \A x \in items : x[2] \in S /\ x[3] = 0 /\ x = Item(what, x[2], 0)
  BY ItemParts DEF Each
<1> HIDE DEF items
<1>3. /\ \A x \in items : x[2] \in Nat /\ x[3] \in Nat
      /\ \A x, y \in items : x[2] = y[2] /\ x[3] = y[3] => x = y
  <2>1. \A x \in items : x[2] \in Nat
    BY <1>2
  <2>2. \A x \in items : x[3] = 0
    BY <1>2
  <2>3. \A x \in items : x[3] \in Nat
    BY <2>2
  <2>4. ASSUME NEW x \in items, NEW y \in items, x[2] = y[2] PROVE x = y
    <3>1. x = Item(what, x[2], 0) /\ y = Item(what, y[2], 0)
      BY <1>2
    <3>. QED  BY <2>4, <3>1
  <2>. QED  BY <2>1, <2>3, <2>4
<1>4. Enumerates(ByPlace(items), items)
  BY <1>1, <1>3, ByPlaceLists
<1>. QED  BY <1>4 DEF items

LEMMA PullTypes ==
  ASSUME pull \in Requests
  PROVE  /\ pull.frame \in Nat /\ Reserve \in Nat /\ pull.frame + Reserve <= PacketLimit /\ PacketLimit \in Nat
         /\ pull.parts \in Seq([part : {"title", "description", "commit"}, cost : Nat, long : BOOLEAN])
         /\ pull.files \in Seq(File)
         /\ pull.rules \in Seq([base : Nat, files : SUBSET Nat])
         /\ pull.rejected \in Seq(Nat)
<1>1. pull \in Request /\ pull.frame + Reserve <= PacketLimit
  BY ContextAssumption
<1>2. PacketLimit \in Nat /\ ReserveMax \in Nat
  BY ContextAssumption
<1>3. Reserve \in Nat
  BY <1>2 DEF Reserve
<1>4. pull.frame \in Nat /\ pull.files \in Seq(File) /\ pull.rejected \in Seq(Nat)
  BY <1>1 DEF Request
<1>5. pull.parts \in Seq([part : {"title", "description", "commit"}, cost : Nat, long : BOOLEAN])
  BY <1>1 DEF Request
<1>6. pull.rules \in Seq([base : Nat, files : SUBSET Nat])
  BY <1>1 DEF Request
<1>. QED  BY <1>1, <1>2, <1>3, <1>4, <1>5, <1>6

LEMMA PullParts ==
  ASSUME pull \in Requests
  PROVE  /\ IsFiniteSet(DOMAIN pull.parts) /\ DOMAIN pull.parts \subseteq Nat
         /\ \A i \in DOMAIN pull.parts : pull.parts[i].cost \in Nat
         /\ IsFiniteSet(DOMAIN pull.files) /\ DOMAIN pull.files \subseteq Nat
         /\ \A f \in DOMAIN pull.files :
               /\ pull.files[f].hunks \in Seq(Nat)
               /\ pull.files[f].whole \in Nat /\ pull.files[f].window \in Nat
               /\ pull.files[f].scopes \in Nat /\ pull.files[f].imports \in Nat
         /\ IsFiniteSet(DOMAIN pull.rules) /\ DOMAIN pull.rules \subseteq Nat
         /\ \A r \in DOMAIN pull.rules : pull.rules[r].base \in Nat
         /\ IsFiniteSet(DOMAIN pull.rejected) /\ DOMAIN pull.rejected \subseteq Nat
         /\ \A r \in DOMAIN pull.rejected : pull.rejected[r] \in Nat
<1>1. /\ IsFiniteSet(DOMAIN pull.parts) /\ DOMAIN pull.parts \subseteq Nat
      /\ \A i \in DOMAIN pull.parts : pull.parts[i] \in [part : {"title", "description", "commit"}, cost : Nat, long : BOOLEAN]
  BY PullTypes, SeqParts
<1>2. /\ IsFiniteSet(DOMAIN pull.files) /\ DOMAIN pull.files \subseteq Nat
      /\ \A i \in DOMAIN pull.files : pull.files[i] \in File
  BY PullTypes, SeqParts
<1>3. /\ IsFiniteSet(DOMAIN pull.rules) /\ DOMAIN pull.rules \subseteq Nat
      /\ \A i \in DOMAIN pull.rules : pull.rules[i] \in [base : Nat, files : SUBSET Nat]
  BY PullTypes, SeqParts
<1>4. /\ IsFiniteSet(DOMAIN pull.rejected) /\ DOMAIN pull.rejected \subseteq Nat
      /\ \A i \in DOMAIN pull.rejected : pull.rejected[i] \in Nat
  BY PullTypes, SeqParts
<1>. QED  BY <1>1, <1>2, <1>3, <1>4 DEF File

LEMMA HunkCosts ==
  ASSUME pull \in Requests, NEW f \in DOMAIN pull.files
  PROVE  /\ IsFiniteSet(DOMAIN pull.files[f].hunks) /\ DOMAIN pull.files[f].hunks \subseteq Nat
         /\ \A h \in DOMAIN pull.files[f].hunks : pull.files[f].hunks[h] \in Nat
         /\ Total(pull.files[f].hunks) \in Nat
<1>1. /\ IsFiniteSet(DOMAIN pull.files[f].hunks) /\ DOMAIN pull.files[f].hunks \subseteq Nat
      /\ \A h \in DOMAIN pull.files[f].hunks : pull.files[f].hunks[h] \in Nat
  BY PullParts, SeqParts
<1>. QED  BY <1>1, TotalType

LEMMA HunksList == ASSUME pull \in Requests PROVE Enumerates(ByPlace(HunkItems), HunkItems)
<1> DEFINE F == FilesWithHunks
           h == [f \in F |-> Hunks(f)]
           all == {Hunks(f) : f \in F}
<1>1. F \subseteq DOMAIN pull.files /\ IsFiniteSet(F) /\ F \subseteq Nat
  BY PullParts, FS_Subset DEF FilesWithHunks
<1> HIDE DEF F
<1>2. IsFiniteSet(all)
  <2>1. h \in Surjection(F, all)
    BY DEF Surjection
  <2> HIDE DEF h, all
  <2>. QED  BY <1>1, <2>1, FS_Surjection
<1>3. ASSUME NEW f \in F PROVE IsFiniteSet(Hunks(f))
  <2> DEFINE D == DOMAIN pull.files[f].hunks
             g == [k \in D |-> Item("hunk", f, k)]
  <2>1. g \in Surjection(D, Hunks(f))
    BY DEF Surjection, Hunks
  <2>2. IsFiniteSet(D)
    BY <1>1, HunkCosts
  <2> HIDE DEF g, D
  <2>. QED  BY <2>1, <2>2, FS_Surjection
<1>4. IsFiniteSet(HunkItems)
  <2>1. \A T \in all : IsFiniteSet(T)
    BY <1>3
  <2>2. HunkItems = UNION all
    BY DEF HunkItems, F
  <2> HIDE DEF all
  <2>. QED  BY <1>2, <2>1, <2>2, FS_UNION
<1>5. \A x \in HunkItems : x[2] \in Nat /\ x[3] \in Nat /\ x = Item("hunk", x[2], x[3])
  <2> SUFFICES ASSUME NEW f \in F, NEW k \in DOMAIN pull.files[f].hunks, NEW x, x = Item("hunk", f, k)
               PROVE  x[2] \in Nat /\ x[3] \in Nat /\ x = Item("hunk", x[2], x[3])
    BY DEF HunkItems, Hunks, F
  <2>1. f \in Nat /\ k \in Nat
    BY <1>1, HunkCosts
  <2>. QED  BY <2>1, ItemParts
<1>. QED  BY <1>4, <1>5, ByPlaceLists

\* More files ask for more rules, and longer ones.
LEMMA RulesWantedGrows ==
  ASSUME pull \in Requests, NEW A, NEW B, A \subseteq B, B \subseteq DOMAIN pull.files
  PROVE  /\ RulesWanted(A) \in Nat /\ RulesWanted(B) \in Nat /\ RulesWanted(A) <= RulesWanted(B)
         /\ \A r \in DOMAIN pull.rules : RuleCost(r, A) \in Nat
<1> DEFINE dear == [r \in RulesFor(B) |-> RuleCost(r, B)]
           cost == [r \in RulesFor(A) |-> RuleCost(r, A)]
<1>1. ASSUME NEW r \in DOMAIN pull.rules
      PROVE  RuleCost(r, A) \in Nat /\ RuleCost(r, B) \in Nat /\ RuleCost(r, A) <= RuleCost(r, B)
  <2> DEFINE U == pull.rules[r].files \cap A
             V == pull.rules[r].files \cap B
  <2>1. U \subseteq V /\ V \subseteq DOMAIN pull.files /\ pull.rules[r].base \in Nat /\ IsFiniteSet(DOMAIN pull.files)
    BY PullParts
  <2>2. RuleCost(r, A) = pull.rules[r].base + Cardinality(U) /\ RuleCost(r, B) = pull.rules[r].base + Cardinality(V)
    BY DEF RuleCost
  <2> HIDE DEF U, V
  <2>3. IsFiniteSet(V)
    BY <2>1, FS_Subset
  <2>4. Cardinality(U) \in Nat /\ Cardinality(V) \in Nat /\ Cardinality(U) <= Cardinality(V)
    BY <2>1, <2>3, FS_Subset, FS_CardinalityType
  <2>. QED  BY <2>1, <2>2, <2>4
<1>2. RulesFor(A) \subseteq RulesFor(B) /\ RulesFor(B) \subseteq DOMAIN pull.rules
  BY DEF RulesFor
<1>3. IsFiniteSet(RulesFor(B))
  BY <1>2, PullParts, FS_Subset
<1>4. /\ DOMAIN dear = RulesFor(B) /\ DOMAIN cost = RulesFor(A)
      /\ \A r \in RulesFor(B) : dear[r] = RuleCost(r, B)
      /\ \A r \in RulesFor(A) : cost[r] = RuleCost(r, A)
  OBVIOUS
<1>5. /\ RulesWanted(A) = Total(cost) + Total(pull.rejected)
      /\ RulesWanted(B) = Total(dear) + Total(pull.rejected)
  BY DEF RulesWanted
<1> HIDE DEF dear, cost
<1>6. /\ \A r \in DOMAIN dear : dear[r] \in Nat
      /\ \A r \in DOMAIN cost : cost[r] \in Nat /\ cost[r] <= dear[r]
      /\ DOMAIN cost \subseteq DOMAIN dear /\ IsFiniteSet(DOMAIN dear)
  BY <1>1, <1>2, <1>3, <1>4
<1>7. Total(cost) \in Nat /\ Total(cost) <= Total(dear)
  BY <1>6, TotalGrows
<1>8. Total(dear) \in Nat /\ Total(pull.rejected) \in Nat
  BY <1>6, PullParts, TotalType
<1>. QED  BY <1>1, <1>5, <1>7, <1>8

LEMMA ItemKinds ==
  /\ \A x \in PartItems : x[1] = "part"
  /\ \A x \in HunkItems : x[1] = "hunk"
  /\ \A x \in RuleItems : x[1] = "rule"
  /\ \A x \in RejectedItems : x[1] = "rejected"
  /\ \A x \in OutlineItems : x[1] \in {"scopes", "imports"}
<1>1. \A what, S : \A x \in Each(what, S) : x[1] = what
  BY ItemParts DEF Each
<1>2. \A f : \A x \in Hunks(f) : x[1] = "hunk"
  BY ItemParts DEF Hunks
<1>. QED  BY <1>1, <1>2 DEF PartItems, HunkItems, RuleItems, RejectedItems, OutlineItems

\* The files that are shown change with the hunks of the packet only.
LEMMA ShownStays ==
  ASSUME pull' = pull, NEW x, packet' = packet \/ packet' = packet \cup {x}, x[1] # "hunk"
  PROVE  FilesShown' = FilesShown
<1>1. ASSUME NEW f PROVE Hunks(f)' = Hunks(f) /\ x \notin Hunks(f)
  BY ItemParts DEF Hunks
<1>2. \A f : Hunks(f) \cap packet' = Hunks(f) \cap packet
  BY <1>1
<1>. QED  BY <1>1, <1>2 DEF FilesShown

LEMMA StayingItems ==
  ASSUME pull' = pull, texts' = texts
  PROVE  /\ PartItems' = PartItems /\ HunkItems' = HunkItems /\ RejectedItems' = RejectedItems
         /\ OutlineItems' = OutlineItems /\ FilesWithHunks' = FilesWithHunks
         /\ Each("view", DOMAIN pull.files)' = Each("view", DOMAIN pull.files)
         /\ FilesShown' = FilesShown => RuleItems' = RuleItems
<1>1. FilesWithHunks' = FilesWithHunks
  BY DEF FilesWithHunks, Reviewable
<1>2. \A f : Hunks(f)' = Hunks(f)
  BY DEF Hunks
<1>3. HunkItems' = HunkItems
  BY <1>1, <1>2 DEF HunkItems
<1>4. FilesShown' = FilesShown => RuleItems' = RuleItems
  BY DEF RuleItems, RulesFor, Each
<1>. QED  BY <1>1, <1>3, <1>4 DEF PartItems, RejectedItems, OutlineItems, Each

\* An item that is paid or omitted.
LEMMA DealtOne ==
  ASSUME Dealing, stage \in Paying, todo # <<>>, todo' = Tail(todo),
         pull' = pull, texts' = texts, stage' = stage,
         \/ packet' = packet \cup {Head(todo)} /\ omitted' = omitted
         \/ packet' = packet /\ omitted' = Append(omitted, Head(todo))
  PROVE  Dealing'
<1> DEFINE x == Head(todo)
           T == Range(todo)
           O == Range(omitted)
<1>1. Enumerates(todo, T) /\ Enumerates(omitted, O) /\ packet \cap O = {} /\ T \cap Dealt = {}
  BY DEF Dealing, Once
<1>2. x \in T /\ Enumerates(todo', T \ {x})
  BY <1>1, ListsRest
<1>3. Range(todo') = T \ {x} /\ Enumerates(todo', Range(todo'))
  BY <1>2, ListsItself
<1>4. x \notin packet /\ x \notin O
  BY <1>1, <1>2 DEF Dealt
<1>5. /\ Enumerates(omitted', Range(omitted')) /\ packet' \cap Range(omitted') = {}
      /\ Dealt' = Dealt \cup {x}
      /\ packet' = packet \/ packet' = packet \cup {x}
  <2>1. CASE packet' = packet \cup {x} /\ omitted' = omitted
    BY <1>1, <1>4, <2>1 DEF Dealt
  <2>2. CASE packet' = packet /\ omitted' = Append(omitted, x)
    <3>1. Enumerates(omitted', O \cup {x})
      BY <1>1, <1>4, <2>2, ListsMore
    <3>2. Enumerates(omitted', Range(omitted')) /\ Range(omitted') = O \cup {x}
      BY <3>1, ListsItself
    <3>. QED  BY <1>1, <1>4, <2>2, <3>2 DEF Dealt
  <2>. QED  BY <2>1, <2>2
<1> HIDE DEF x, T, O
<1>6. /\ stage = "parts" => x \in PartItems /\ x[1] = "part"
      /\ stage = "hunks" => x \in HunkItems /\ x[1] = "hunk"
      /\ stage = "rules" => x[1] \in {"rule", "rejected"}
      /\ stage = "ast" => x[1] \in {"scopes", "imports"}
  BY <1>2, ItemKinds DEF Dealing, Fits, T
<1>7. stage # "hunks" => FilesShown' = FilesShown
  <2>1. stage # "hunks" => x[1] # "hunk"
    BY <1>6 DEF Paying
  <2>. QED  BY <1>5, <2>1, ShownStays
<1>8. /\ PartItems' = PartItems /\ HunkItems' = HunkItems /\ RejectedItems' = RejectedItems
      /\ OutlineItems' = OutlineItems
      /\ stage # "hunks" => RuleItems' = RuleItems
  BY <1>7, StayingItems
<1>9. Range(todo)' = T \ {x} /\ Waiting' = T \ {x} /\ Waiting = T
  BY <1>3 DEF Waiting, T
<1>10. Fits'
  BY <1>8, <1>9 DEF Dealing, Fits, Paying, T
<1>11. Once'
  <2>1. (T \ {x}) \cap (Dealt \cup {x}) = {}
    BY <1>1
  <2>. QED  BY <1>3, <1>5, <1>9, <2>1 DEF Once
<1>12. InTurn'
  BY <1>5, <1>6, <1>8 DEF Dealing, InTurn, Paying
<1>13. NothingLost'
  <2>1. Dealt' \cup Waiting' = Dealt \cup Waiting
    BY <1>2, <1>5, <1>9
  <2>2. stage \in {"parts", "rules", "ast", "hunks"}
    BY DEF Paying
  <2>. QED  BY <1>8, <2>1, <2>2 DEF Dealing, NothingLost
<1>. QED  BY <1>10, <1>11, <1>12, <1>13 DEF Dealing

\* A turn that deals with no item.
LEMMA PassedOne ==
  ASSUME Dealing, stage \in {"whole", "windows", "omitted"}, todo # <<>>, todo' = Tail(todo),
         pull' = pull, texts' = texts, stage' = stage, packet' = packet, omitted' = omitted
  PROVE  Dealing' /\ Range(todo') \subseteq Range(todo) /\ Len(todo') = Len(todo) - 1 /\ Len(todo) \in Nat
<1> DEFINE x == Head(todo)
           T == Range(todo)
<1>1. Enumerates(todo, T)
  BY DEF Dealing, Once
<1>2. x \in T /\ Enumerates(todo', T \ {x}) /\ Len(todo') = Len(todo) - 1 /\ Len(todo) \in Nat
  BY <1>1, ListsRest
<1>3. Range(todo') = T \ {x} /\ Enumerates(todo', Range(todo'))
  BY <1>2, ListsItself
<1> HIDE DEF x, T
<1>4. FilesShown' = FilesShown
  BY DEF FilesShown, Hunks
<1>5. /\ PartItems' = PartItems /\ HunkItems' = HunkItems /\ RejectedItems' = RejectedItems
      /\ OutlineItems' = OutlineItems /\ RuleItems' = RuleItems
      /\ Each("view", DOMAIN pull.files)' = Each("view", DOMAIN pull.files)
  BY <1>4, StayingItems
<1>6. Dealt' = Dealt /\ Waiting' = Waiting /\ Range(todo)' \subseteq Range(todo)
  BY <1>3 DEF Dealt, Waiting, Paying, T
<1>7. Fits'
  BY <1>5, <1>6 DEF Dealing, Fits
<1>8. Once'
  BY <1>3, <1>6 DEF Dealing, Once, Paying
<1>9. InTurn'
  BY <1>5, <1>6 DEF Dealing, InTurn
<1>10. NothingLost'
  BY <1>5, <1>6 DEF Dealing, NothingLost
<1>. QED  BY <1>2, <1>6, <1>7, <1>8, <1>9, <1>10 DEF Dealing

\* The stages follow each other.
Follows(s, next, items) ==
    \/ s = "parts" /\ next = "hunks" /\ items = HunkItems
    \/ s = "hunks" /\ next = "rules" /\ items = RuleItems \cup RejectedItems
    \/ s = "rules" /\ next = "whole" /\ items \subseteq Each("view", DOMAIN pull.files)
    \/ s = "whole" /\ next = "ast" /\ items \subseteq OutlineItems
    \/ s = "ast" /\ next = "windows" /\ items \subseteq Each("view", DOMAIN pull.files)
    \/ s = "windows" /\ next = "omitted"
    \/ s = "omitted" /\ next = "done" /\ items = {}

LEMMA NewStage ==
  ASSUME Dealing, todo = <<>>, pull' = pull, texts' = texts, packet' = packet, omitted' = omitted,
         NEW items, Enumerates(todo', items), Follows(stage, stage', items)
  PROVE  Dealing' /\ Range(todo') = items /\ FilesShown' = FilesShown
<1>1. Enumerates(todo', Range(todo')) /\ Range(todo') = items
  BY ListsItself
<1>2. FilesShown' = FilesShown
  BY DEF FilesShown, Hunks
<1>3. /\ PartItems' = PartItems /\ HunkItems' = HunkItems /\ RejectedItems' = RejectedItems
      /\ OutlineItems' = OutlineItems /\ RuleItems' = RuleItems
      /\ Each("view", DOMAIN pull.files)' = Each("view", DOMAIN pull.files)
  BY <1>2, StayingItems
<1>4. Range(todo) = {}
  BY ListsNothing, ListsItself
<1>5. Dealt' = Dealt /\ Waiting = {} /\ Range(todo)' = items
  BY <1>1, <1>4 DEF Dealt, Waiting
<1>6. Fits'
  BY <1>3, <1>5 DEF Follows, Fits
<1>7. stage' \in Paying => items \cap Dealt = {}
  BY ItemKinds DEF Dealing, InTurn, Follows, Paying
<1>8. Once'
  BY <1>1, <1>5, <1>7 DEF Dealing, Once
<1>9. InTurn'
  BY <1>3, <1>5 DEF Dealing, InTurn, Follows
<1>10. NothingLost'
  <2>1. stage' \in Paying => Waiting' = items
    BY <1>5 DEF Waiting
  <2>. QED  BY <1>3, <1>5, <2>1 DEF Dealing, NothingLost, Follows, Paying
<1>. QED  BY <1>1, <1>2, <1>6, <1>8, <1>9, <1>10 DEF Dealing

LEMMA ShownHaveHunks ==
  ASSUME Dealing PROVE FilesShown \subseteq FilesWithHunks /\ FilesWithHunks \subseteq DOMAIN pull.files
<1> SUFFICES ASSUME NEW f \in FilesShown PROVE f \in FilesWithHunks
  BY DEF FilesWithHunks
<1>1. PICK x \in Hunks(f) : x \in packet
  BY DEF FilesShown
<1>2. PICK h \in DOMAIN pull.files[f].hunks : x = Item("hunk", f, h)
  BY DEF Hunks
<1>3. x[1] = "hunk" /\ x[2] = f
  BY <1>2, ItemParts
<1>4. x \in HunkItems
  BY <1>1, <1>3 DEF Dealing, InTurn, Dealt
<1>5. PICK g \in FilesWithHunks : x \in Hunks(g)
  BY <1>4 DEF HunkItems
<1>6. x[2] = g
  BY <1>5, ItemParts DEF Hunks
<1>. QED  BY <1>3, <1>5, <1>6

LEMMA AmpleStays ==
  ASSUME pull' = pull
  PROVE  /\ Ample' <=> Ample
         /\ RulesWanted(FilesWithHunks)' = RulesWanted(FilesWithHunks)
<1>1. FilesWithHunks' = FilesWithHunks
  BY DEF FilesWithHunks, Reviewable
<1>2. \A S : RulesWanted(S)' = RulesWanted(S)
  BY DEF RulesWanted, RulesFor, RuleCost
<1>3. RulesWanted(FilesWithHunks)' = RulesWanted(FilesWithHunks)
  BY <1>1 DEF RulesWanted, RulesFor, RuleCost
<1>. QED  BY <1>3 DEF Ample

\* As long as no rule comes up none is omitted.
LEMMA NoRuleYet ==
  ASSUME Dealing, stage \in {"fetch", "parts", "hunks"}
  PROVE  \A x \in Range(omitted) : x[1] \notin {"rule", "rejected"}
  BY DEF Dealing, InTurn, Dealt

\* An item is paid from what there is, or is omitted.
Settled(from, to) ==
    \/ /\ packet' = packet \cup {Head(todo)} /\ omitted' = omitted
       /\ \E cost \in Int : cost <= from /\ size' = size + cost /\ to = from - cost
    \/ packet' = packet /\ omitted' = Append(omitted, Head(todo)) /\ size' = size /\ to = from

LEMMA SettledDeals ==
  ASSUME ContextInv, stage \in Paying, Working(stage), NEW from \in Nat, NEW to, Settled(from, to)
  PROVE  /\ Dealing' /\ to \in Nat /\ size' \in Int /\ size' + to = size + from
         /\ pull' = pull /\ texts' = texts /\ stage' = stage /\ (Ample' <=> Ample)
         /\ RulesWanted(FilesWithHunks)' = RulesWanted(FilesWithHunks)
<1>1. pull' = pull /\ texts' = texts /\ stage' = stage /\ todo # <<>> /\ todo' = Tail(todo)
  BY DEF Working
<1>2. Dealing'
  BY <1>1, DealtOne DEF ContextInv, Settled
<1>3. size \in Int
  BY DEF ContextInv, ContextTypes
<1>4. to \in Nat /\ size' \in Int /\ size' + to = size + from
  BY <1>3 DEF Settled
<1>. QED  BY <1>1, <1>2, <1>4, AmpleStays

LEMMA PaySettles ==
  ASSUME ContextInv, NEW cost \in Int
  PROVE  /\ Pay(Head(todo), cost) => Settled(left, left')
         /\ PayFromShare(Head(todo), cost) => Settled(share, share')
  BY DEF ContextInv, ContextTypes, Pay, PayFromShare, Taken, Omit, Settled

LEMMA TakePartKeeps == ContextInv /\ TakePart => ContextInv'
<1> SUFFICES ASSUME ContextInv, TakePart PROVE ContextInv'
  OBVIOUS
<1> DEFINE x == Head(todo)
<1>1. stage = "parts" /\ Working(stage) /\ left' = left /\ UNCHANGED <<widened, listed>> /\ todo # <<>>
  BY DEF TakePart, Working
<1>2. left \in Nat /\ share \in Nat /\ size \in Int /\ pull \in Requests
  BY DEF ContextInv, ContextTypes
<1>3. x[2] \in DOMAIN pull.parts
  <2>1. x \in PartItems
    BY <1>1, ListsRest DEF ContextInv, Dealing, Once, Fits
  <2>. QED  BY <2>1, ItemParts DEF PartItems, Each, ContextInv, ContextTypes
<1>4. pull.parts[x[2]].cost \in Int
  BY <1>2, <1>3, PullParts
<1>5. Settled(share, share')
  <2>1. CASE \E cost \in ShortestCut..share : Taken(x, cost) /\ share' = share - cost /\ UNCHANGED omitted
    BY <1>2, <2>1 DEF Settled, Taken
  <2>2. CASE PayFromShare(x, IF pull.parts[x[2]].long THEN share + 1 ELSE pull.parts[x[2]].cost)
    <3>1. (IF pull.parts[x[2]].long THEN share + 1 ELSE pull.parts[x[2]].cost) \in Int
      BY <1>2, <1>4
    <3>. QED  BY <2>2, <3>1, PaySettles
  <2>. QED  BY <2>1, <2>2 DEF TakePart
<1>6. /\ Dealing' /\ share' \in Nat /\ size' \in Int /\ size' + share' = size + share
      /\ pull' = pull /\ texts' = texts /\ stage' = stage /\ (Ample' <=> Ample)
  BY <1>1, <1>2, <1>5, SettledDeals DEF Paying
<1>7. ContextTypes'
  BY <1>1, <1>2, <1>6 DEF ContextInv, ContextTypes
<1>8. Account'
  <2>1. Unspent' = Unspent /\ Unspent \in Nat /\ PacketLimit \in Nat
    BY <1>1, <1>2, <1>6, PullTypes DEF Unspent
  <2>2. size' + left' + share' = size + left + share
    <3>1. size' + share' = size + share /\ share' \in Nat /\ size' \in Int
      BY <1>6
    <3>2. size' + left + share' = (size' + share') + left
      BY <1>2, <3>1
    <3>3. size + left + share = (size + share) + left
      BY <1>2
    <3>4. left' = left
      BY <1>1
    <3>. QED  BY ONLY <3>1, <3>2, <3>3, <3>4
  <2>3. size + left + share + Unspent <= PacketLimit
    BY DEF ContextInv, Account
  <2>. QED  BY <1>1, <1>6, <2>1, <2>2, <2>3 DEF Account
<1>9. RulesFit'
  <2>1. \A y \in Range(omitted)' : y[1] \notin {"rule", "rejected"}
    BY <1>1, <1>6 DEF Dealing, InTurn, Dealt
  <2>. QED  BY <1>1, <1>6, <2>1 DEF ContextInv, RulesFit
<1>10. Widening' /\ Counting'
  BY <1>1, <1>6 DEF ContextInv, Widening, Counting
<1>. QED  BY <1>6, <1>7, <1>8, <1>9, <1>10 DEF ContextInv

LEMMA TakeHunkKeeps == ContextInv /\ TakeHunk => ContextInv'
<1> SUFFICES ASSUME ContextInv, TakeHunk PROVE ContextInv'
  OBVIOUS
<1> DEFINE x == Head(todo)
<1>1. stage = "hunks" /\ Working(stage) /\ UNCHANGED <<share, widened, listed>> /\ todo # <<>>
  BY DEF TakeHunk, Working
<1>2. left \in Nat /\ share \in Nat /\ size \in Int /\ pull \in Requests
  BY DEF ContextInv, ContextTypes
<1>3. pull.files[x[2]].hunks[x[3]] \in Int
  <2>1. x \in HunkItems
    BY <1>1, ListsRest DEF ContextInv, Dealing, Once, Fits
  <2>4. PICK f \in FilesWithHunks : x \in Hunks(f)
    BY <2>1 DEF HunkItems
  <2>2. PICK h \in DOMAIN pull.files[f].hunks : x = Item("hunk", f, h)
    BY <2>4 DEF Hunks
  <2>3. x[2] = f /\ x[3] = h /\ f \in DOMAIN pull.files
    BY <2>2, ItemParts DEF FilesWithHunks
  <2> HIDE DEF x
  <2>. QED  BY <1>2, <2>3, HunkCosts
<1>5. Settled(left, left')
  BY <1>3, PaySettles DEF TakeHunk
<1>6. /\ Dealing' /\ left' \in Nat /\ size' \in Int /\ size' + left' = size + left
      /\ pull' = pull /\ texts' = texts /\ stage' = stage /\ (Ample' <=> Ample)
      /\ RulesWanted(FilesWithHunks)' = RulesWanted(FilesWithHunks)
  BY <1>1, <1>2, <1>5, SettledDeals DEF Paying
<1>7. ContextTypes'
  BY <1>1, <1>2, <1>6 DEF ContextInv, ContextTypes
<1>8. Account'
  <2>1. Unspent' = Unspent /\ Unspent \in Nat /\ PacketLimit \in Nat
    BY <1>1, <1>2, <1>6, PullTypes DEF Unspent
  <2>2. size' + left' + share' = size + left + share
    BY <1>1, <1>2, <1>6
  <2>3. size + left + share + Unspent <= PacketLimit
    BY DEF ContextInv, Account
  <2>. QED  BY <1>1, <1>6, <2>1, <2>2, <2>3 DEF Account
<1>9. RulesFit'
  <2>1. \A y \in Range(omitted)' : y[1] \notin {"rule", "rejected"}
    BY <1>1, <1>6 DEF Dealing, InTurn, Dealt
  <2>. QED  BY <1>1, <1>6, <2>1 DEF ContextInv, RulesFit
<1>10. Widening' /\ Counting'
  BY <1>1, <1>6 DEF ContextInv, Widening, Counting
<1>. QED  BY <1>6, <1>7, <1>8, <1>9, <1>10 DEF ContextInv

LEMMA TakeAstKeeps == ContextInv /\ TakeAst => ContextInv'
<1> SUFFICES ASSUME ContextInv, TakeAst PROVE ContextInv'
  OBVIOUS
<1> DEFINE x == Head(todo)
<1>1. stage = "ast" /\ Working(stage) /\ UNCHANGED <<share, widened, listed>> /\ todo # <<>>
  BY DEF TakeAst, Working
<1>2. left \in Nat /\ share \in Nat /\ size \in Int /\ pull \in Requests
  BY DEF ContextInv, ContextTypes
<1>3. x[2] \in DOMAIN pull.files /\ x[1] \in {"scopes", "imports"}
  <2>1. x \in OutlineItems
    BY <1>1, ListsRest DEF ContextInv, Dealing, Once, Fits
  <2>. QED  BY <2>1, ItemParts DEF OutlineItems, Each
<1>4. (IF x[1] = "scopes" THEN pull.files[x[2]].scopes ELSE pull.files[x[2]].imports) \in Int
  BY <1>2, <1>3, PullParts
<1>5. Settled(left, left')
  BY <1>4, PaySettles DEF TakeAst
<1>6. /\ Dealing' /\ left' \in Nat /\ size' \in Int /\ size' + left' = size + left
      /\ pull' = pull /\ texts' = texts /\ stage' = stage /\ (Ample' <=> Ample)
  BY <1>1, <1>2, <1>5, SettledDeals DEF Paying
<1>7. ContextTypes'
  BY <1>1, <1>2, <1>6 DEF ContextInv, ContextTypes
<1>8. Account'
  <2>1. Unspent' = Unspent /\ Unspent \in Nat /\ PacketLimit \in Nat
    BY <1>1, <1>2, <1>6, PullTypes DEF Unspent
  <2>2. size' + left' + share' = size + left + share
    BY <1>1, <1>2, <1>6
  <2>3. size + left + share + Unspent <= PacketLimit
    BY DEF ContextInv, Account
  <2>. QED  BY <1>1, <1>6, <2>1, <2>2, <2>3 DEF Account
<1>9. RulesFit'
  <2>1. Enumerates(omitted, Range(omitted)) /\ x \notin Range(omitted)
    BY <1>1, ListsRest DEF ContextInv, Dealing, Once, Dealt, Paying
  <2>2. Range(omitted') \subseteq Range(omitted) \cup {x}
    <3>1. Enumerates(Append(omitted, x), Range(omitted) \cup {x})
      BY <2>1, ListsMore
    <3>2. Range(Append(omitted, x)) = Range(omitted) \cup {x}
      BY <3>1, ListsItself
    <3>. QED  BY <1>5, <3>2 DEF Settled
  <2> HIDE DEF x
  <2>3. Ample => \A y \in Range(omitted)' : y[1] \notin {"rule", "rejected"}
    BY <1>3, <2>2 DEF ContextInv, RulesFit
  <2>. QED  BY <1>1, <1>6, <2>3 DEF ContextInv, RulesFit
<1>10. Widening' /\ Counting'
  BY <1>1, <1>6 DEF ContextInv, Widening, Counting
<1>. QED  BY <1>6, <1>7, <1>8, <1>9, <1>10 DEF ContextInv

LEMMA TakeRuleKeeps == ContextInv /\ TakeRule => ContextInv'
<1> SUFFICES ASSUME ContextInv, TakeRule PROVE ContextInv'
  OBVIOUS
<1> DEFINE x == Head(todo)
           T == Range(todo)
           cost == IF x[1] = "rule" THEN RuleCost(x[2], FilesShown) ELSE pull.rejected[x[2]]
           costs == [r \in RulesLeft |-> RuleCost(r, FilesShown)]
           others == [r \in RejectedLeft |-> pull.rejected[r]]
<1>1. /\ stage = "rules" /\ Working(stage) /\ left' = left /\ UNCHANGED <<widened, listed>>
      /\ todo # <<>> /\ todo' = Tail(todo) /\ PayFromShare(x, cost)
  BY DEF TakeRule, Working
<1>2. left \in Nat /\ share \in Nat /\ size \in Int /\ pull \in Requests
  BY DEF ContextInv, ContextTypes
<1>3. /\ x \in T /\ T \subseteq RuleItems \cup RejectedItems /\ Range(todo') = T \ {x}
      /\ x \notin Range(omitted)
  <2>1. Enumerates(todo, T) /\ T \cap Dealt = {} /\ T \subseteq RuleItems \cup RejectedItems
    BY <1>1 DEF ContextInv, Dealing, Once, Fits, Paying
  <2>2. x \in T /\ Enumerates(todo', T \ {x})
    BY <1>1, <2>1, ListsRest
  <2>3. Range(todo') = T \ {x}
    BY <2>2, ListsItself
  <2>. QED  BY <2>1, <2>2, <2>3 DEF Dealt
<1>4. /\ \A r \in RulesLeft : RuleCost(r, FilesShown) \in Nat
      /\ \A r \in RejectedLeft : pull.rejected[r] \in Nat
      /\ IsFiniteSet(RulesLeft) /\ IsFiniteSet(RejectedLeft)
  <2>1. FilesShown \subseteq DOMAIN pull.files
    BY DEF FilesShown
  <2>2. \A r \in DOMAIN pull.rules : RuleCost(r, FilesShown) \in Nat
    BY <1>2, <2>1, RulesWantedGrows
  <2>3. RulesLeft \subseteq DOMAIN pull.rules /\ RejectedLeft \subseteq DOMAIN pull.rejected
    BY DEF RulesLeft, RejectedLeft, RulesFor
  <2>4. IsFiniteSet(DOMAIN pull.rules) /\ IsFiniteSet(DOMAIN pull.rejected)
        /\ \A r \in DOMAIN pull.rejected : pull.rejected[r] \in Nat
    BY <1>2, PullParts
  <2>5. IsFiniteSet(RulesLeft) /\ IsFiniteSet(RejectedLeft)
    BY <2>3, <2>4, FS_Subset
  <2>. QED  BY <2>2, <2>3, <2>4, <2>5
<1>5. \/ x[1] = "rule" /\ x[2] \in RulesLeft /\ x = Item("rule", x[2], 0)
      \/ x[1] = "rejected" /\ x[2] \in RejectedLeft /\ x = Item("rejected", x[2], 0)
  <2>1. CASE x \in RuleItems
    <3>1. PICK r \in RulesFor(FilesShown) : x = Item("rule", r, 0)
      BY <2>1 DEF RuleItems, Each
    <3>2. x[1] = "rule" /\ x[2] = r
      BY <3>1, ItemParts
    <3>3. r \in RulesLeft
      BY <1>3, <3>1 DEF RulesLeft
    <3>. QED  BY <3>1, <3>2, <3>3
  <2>2. CASE x \in RejectedItems
    <3>1. PICK r \in DOMAIN pull.rejected : x = Item("rejected", r, 0)
      BY <2>2 DEF RejectedItems, Each
    <3>2. x[1] = "rejected" /\ x[2] = r
      BY <3>1, ItemParts
    <3>3. r \in RejectedLeft
      BY <1>3, <3>1 DEF RejectedLeft
    <3>. QED  BY <3>1, <3>2, <3>3
  <2>. QED  BY <1>3, <2>1, <2>2
<1>6. cost \in Nat
  BY <1>4, <1>5
<1>7. Settled(share, share')
  BY <1>1, <1>6, PaySettles
<1>8. /\ Dealing' /\ share' \in Nat /\ size' \in Int /\ size' + share' = size + share
      /\ pull' = pull /\ texts' = texts /\ stage' = stage /\ (Ample' <=> Ample)
  BY <1>1, <1>2, <1>7, SettledDeals DEF Paying
<1>9. ContextTypes'
  BY <1>1, <1>2, <1>8 DEF ContextInv, ContextTypes
<1>10. Account'
  <2>1. Unspent' = Unspent /\ Unspent \in Nat /\ PacketLimit \in Nat
    BY <1>1, <1>2, <1>8, PullTypes DEF Unspent
  <2>2. size' + left' + share' = size + left + share
    <3>1. size' + share' = size + share /\ share' \in Nat /\ size' \in Int
      BY <1>8
    <3>2. size' + left + share' = (size' + share') + left
      BY <1>2, <3>1
    <3>3. size + left + share = (size + share) + left
      BY <1>2
    <3>4. left' = left
      BY <1>1
    <3>. QED  BY ONLY <3>1, <3>2, <3>3, <3>4
  <2>3. size + left + share + Unspent <= PacketLimit
    BY DEF ContextInv, Account
  <2>. QED  BY <1>1, <1>8, <2>1, <2>2, <2>3 DEF Account
<1>11. FilesShown' = FilesShown
  <2>1. packet' = packet \/ packet' = packet \cup {x}
    BY <1>7 DEF Settled
  <2>. QED  BY <1>5, <1>8, <2>1, ShownStays
<1> HIDE DEF x, T, cost
<1>12. \/ /\ x[1] = "rule" /\ cost = RuleCost(x[2], FilesShown) /\ x[2] \in RulesLeft
          /\ RulesLeft' = RulesLeft \ {x[2]} /\ RejectedLeft' = RejectedLeft
       \/ /\ x[1] = "rejected" /\ cost = pull.rejected[x[2]] /\ x[2] \in RejectedLeft
          /\ RulesLeft' = RulesLeft /\ RejectedLeft' = RejectedLeft \ {x[2]}
  <2>1. RulesFor(FilesShown)' = RulesFor(FilesShown)
    BY <1>8, <1>11 DEF RulesFor
  <2>2. /\ RulesLeft' = {r \in RulesLeft : Item("rule", r, 0) # x}
        /\ RejectedLeft' = {r \in RejectedLeft : Item("rejected", r, 0) # x}
    BY <1>3, <1>8, <2>1 DEF RulesLeft, RejectedLeft, T
  <2>3. \A r : /\ Item("rule", r, 0)[1] = "rule" /\ Item("rule", r, 0)[2] = r
               /\ Item("rejected", r, 0)[1] = "rejected" /\ Item("rejected", r, 0)[2] = r
    BY ItemParts
  <2>. QED  BY <1>5, <2>2, <2>3 DEF cost
<1>13. /\ RulesDue = Total(costs) + Total(others)
       /\ RulesDue' = Total([r \in RulesLeft' |-> RuleCost(r, FilesShown)]) + Total([r \in RejectedLeft' |-> pull.rejected[r]])
  <2>1. RulesDue' = Total([r \in RulesLeft' |-> RuleCost(r, FilesShown)']) + Total([r \in RejectedLeft' |-> pull.rejected[r]])
    BY <1>8 DEF RulesDue
  <2>2. \A r : RuleCost(r, FilesShown)' = RuleCost(r, FilesShown)
    BY <1>8, <1>11 DEF RuleCost
  <2>. QED  BY <2>1, <2>2 DEF RulesDue
<1>14. /\ DOMAIN costs = RulesLeft /\ DOMAIN others = RejectedLeft
       /\ \A r \in RulesLeft : costs[r] = RuleCost(r, FilesShown)
       /\ \A r \in RejectedLeft : others[r] = pull.rejected[r]
       /\ \A r \in DOMAIN costs : costs[r] \in Nat
       /\ \A r \in DOMAIN others : others[r] \in Nat
  BY <1>4
<1>15. Total(costs) \in Nat /\ Total(others) \in Nat
  BY <1>4, <1>14, TotalType
<1>16. RulesDue' \in Nat /\ RulesDue = RulesDue' + cost
  <2>1. CASE x[1] = "rule"
    <3> DEFINE y == x[2]
               rest == [r \in DOMAIN costs \ {y} |-> costs[r]]
    <3>1. y \in DOMAIN costs /\ costs[y] = cost
      BY <1>12, <1>14, <2>1
    <3>2. Total(rest) \in Nat /\ Total(costs) = Total(rest) + cost
      <4> HIDE DEF costs, y
      <4>. QED  BY <1>4, <1>14, <3>1, TotalWithout
    <3>3. [r \in RulesLeft' |-> RuleCost(r, FilesShown)] = rest /\ [r \in RejectedLeft' |-> pull.rejected[r]] = others
      BY <1>12, <1>14, <2>1
    <3>4. RulesDue' = Total(rest) + Total(others)
      BY <1>13, <3>3
    <3> HIDE DEF rest, costs, others
    <3>. QED  BY <1>6, <1>13, <1>15, <3>2, <3>4
  <2>2. CASE x[1] = "rejected"
    <3> DEFINE y == x[2]
               rest == [r \in DOMAIN others \ {y} |-> others[r]]
    <3>1. y \in DOMAIN others /\ others[y] = cost
      BY <1>12, <1>14, <2>2
    <3>2. Total(rest) \in Nat /\ Total(others) = Total(rest) + cost
      <4> HIDE DEF others, y
      <4>. QED  BY <1>4, <1>14, <3>1, TotalWithout
    <3>3. [r \in RulesLeft' |-> RuleCost(r, FilesShown)] = costs /\ [r \in RejectedLeft' |-> pull.rejected[r]] = rest
      BY <1>12, <1>14, <2>2
    <3>4. RulesDue' = Total(costs) + Total(rest)
      BY <1>13, <3>3
    <3> HIDE DEF rest, costs, others
    <3>. QED  BY <1>6, <1>13, <1>15, <3>2, <3>4
  <2>. QED  BY <1>12, <2>1, <2>2
<1>17. RulesFit'
  <2>1. ASSUME Ample PROVE cost <= share /\ RulesDue' <= share - cost
    <3>1. RulesDue <= share
      BY <1>1, <2>1 DEF ContextInv, RulesFit
    <3>2. \A k, m, n \in Nat : n + m <= k => m <= k /\ n <= k - m
      OBVIOUS
    <3>. QED  BY <1>2, <1>6, <1>16, <3>1, <3>2
  <2>2. ASSUME Ample PROVE share' = share - cost /\ omitted' = omitted
    BY <1>1, <2>1, <2>2 DEF PayFromShare, Taken
  <2>3. ASSUME Ample PROVE RulesDue' <= share'
    BY <2>1, <2>2, <2>3
  <2>. QED  BY <1>1, <1>8, <2>2, <2>3 DEF ContextInv, RulesFit
<1>18. Widening' /\ Counting'
  BY <1>1, <1>8 DEF ContextInv, Widening, Counting
<1>. QED  BY <1>8, <1>9, <1>10, <1>17, <1>18 DEF ContextInv

\* The view of a file in place of its hunks.
LEMMA ViewTypes ==
  ASSUME ContextInv, NEW f \in DOMAIN pull.files, NEW cost \in Nat, NEW to, TakeViews(f, cost, to)
  PROVE  /\ left' \in Nat /\ size' \in Int /\ size' + left' = size + left
         /\ widened' = to \/ widened' = widened
<1>1. left \in Nat /\ size \in Int /\ pull \in Requests
  BY DEF ContextInv, ContextTypes
<1>2. Total(pull.files[f].hunks) \in Nat
  BY <1>1, HunkCosts
<1> DEFINE extra == cost - Total(pull.files[f].hunks)
<1>3. extra \in Int
  BY <1>2
<1>4. \/ extra <= left /\ left' = left - extra /\ size' = size + extra /\ widened' = to
      \/ left' = left /\ size' = size /\ widened' = widened
  BY DEF TakeViews
<1> HIDE DEF extra
<1>. QED  BY <1>1, <1>3, <1>4

LEMMA ShowWholeKeeps == ContextInv /\ ShowWhole => ContextInv'
<1> SUFFICES ASSUME ContextInv, ShowWhole PROVE ContextInv'
  OBVIOUS
<1> DEFINE f == Head(todo)[2]
<1>1. /\ stage = "whole" /\ todo # <<>> /\ todo' = Tail(todo) /\ pull' = pull /\ texts' = texts /\ stage' = stage
      /\ share' = share /\ packet' = packet /\ omitted' = omitted /\ listed' = listed
      /\ TakeViews(f, pull.files[f].whole, [widened EXCEPT !.whole = @ \cup {f}])
  BY DEF ShowWhole, Working
<1>2. left \in Nat /\ share \in Nat /\ size \in Int /\ pull \in Requests
      /\ widened \in [whole : SUBSET DOMAIN pull.files, window : SUBSET DOMAIN pull.files]
  BY DEF ContextInv, ContextTypes
<1>3. f \in DOMAIN pull.files
  <2>1. Head(todo) \in Each("view", DOMAIN pull.files)
    BY <1>1, ListsRest DEF ContextInv, Dealing, Once, Fits
  <2>. QED  BY <2>1, ItemParts DEF Each
<1> HIDE DEF f
<1>4. /\ left' \in Nat /\ size' \in Int /\ size' + left' = size + left
      /\ widened' = [widened EXCEPT !.whole = @ \cup {f}] \/ widened' = widened
  <2>1. pull.files[f].whole \in Nat
    BY <1>2, <1>3, PullParts
  <2>. QED  BY <1>1, <1>3, <2>1, ViewTypes
<1>5. Dealing'
  BY <1>1, PassedOne DEF ContextInv
<1>6. ContextTypes'
  BY <1>1, <1>2, <1>3, <1>4 DEF ContextInv, ContextTypes
<1>7. Account'
  <2>1. Unspent' = Unspent /\ Unspent \in Nat /\ PacketLimit \in Nat
    BY <1>1, <1>2, PullTypes DEF Unspent
  <2>2. size' + left' + share' = size + left + share
    BY <1>1, <1>4
  <2>3. size + left + share + Unspent <= PacketLimit
    BY DEF ContextInv, Account
  <2>. QED  BY <1>1, <2>1, <2>2, <2>3 DEF Account
<1>8. RulesFit'
  BY <1>1, AmpleStays DEF ContextInv, RulesFit
<1>9. Widening'
  BY <1>1, <1>2, <1>4 DEF ContextInv, Widening
<1>10. Counting'
  BY <1>1 DEF ContextInv, Counting
<1>. QED  BY <1>5, <1>6, <1>7, <1>8, <1>9, <1>10 DEF ContextInv

LEMMA ShowWindowKeeps == ContextInv /\ ShowWindow => ContextInv'
<1> SUFFICES ASSUME ContextInv, ShowWindow PROVE ContextInv'
  OBVIOUS
<1> DEFINE f == Head(todo)[2]
<1>1. /\ stage = "windows" /\ todo # <<>> /\ todo' = Tail(todo) /\ pull' = pull /\ texts' = texts /\ stage' = stage
      /\ share' = share /\ packet' = packet /\ omitted' = omitted /\ listed' = listed
      /\ TakeViews(f, pull.files[f].window, [widened EXCEPT !.window = @ \cup {f}])
  BY DEF ShowWindow, Working
<1>2. left \in Nat /\ share \in Nat /\ size \in Int /\ pull \in Requests
      /\ widened \in [whole : SUBSET DOMAIN pull.files, window : SUBSET DOMAIN pull.files]
  BY DEF ContextInv, ContextTypes
<1>3. f \in DOMAIN pull.files /\ f \notin widened.whole
  <2>1. Head(todo) \in Range(todo) /\ Head(todo) \in Each("view", DOMAIN pull.files)
    BY <1>1, ListsRest DEF ContextInv, Dealing, Once, Fits
  <2>. QED  BY <1>1, <2>1, ItemParts DEF Each, ContextInv, Widening
<1> HIDE DEF f
<1>4. /\ left' \in Nat /\ size' \in Int /\ size' + left' = size + left
      /\ widened' = [widened EXCEPT !.window = @ \cup {f}] \/ widened' = widened
  <2>1. pull.files[f].window \in Nat
    BY <1>2, <1>3, PullParts
  <2>. QED  BY <1>1, <1>3, <2>1, ViewTypes
<1>5. Dealing' /\ Range(todo') \subseteq Range(todo)
  BY <1>1, PassedOne DEF ContextInv
<1>6. ContextTypes'
  BY <1>1, <1>2, <1>3, <1>4 DEF ContextInv, ContextTypes
<1>7. Account'
  <2>1. Unspent' = Unspent /\ Unspent \in Nat /\ PacketLimit \in Nat
    BY <1>1, <1>2, PullTypes DEF Unspent
  <2>2. size' + left' + share' = size + left + share
    BY <1>1, <1>4
  <2>3. size + left + share + Unspent <= PacketLimit
    BY DEF ContextInv, Account
  <2>. QED  BY <1>1, <2>1, <2>2, <2>3 DEF Account
<1>8. RulesFit'
  BY <1>1, AmpleStays DEF ContextInv, RulesFit
<1>9. Widening'
  BY <1>1, <1>2, <1>3, <1>4, <1>5 DEF ContextInv, Widening
<1>10. Counting'
  BY <1>1 DEF ContextInv, Counting
<1>. QED  BY <1>5, <1>6, <1>7, <1>8, <1>9, <1>10 DEF ContextInv

LEMMA ListOmissionKeeps == ContextInv /\ ListOmission => ContextInv'
<1> SUFFICES ASSUME ContextInv, ListOmission PROVE ContextInv'
  OBVIOUS
<1>1. /\ stage = "omitted" /\ todo # <<>> /\ todo' = Tail(todo) /\ pull' = pull /\ texts' = texts /\ stage' = stage
      /\ share' = share /\ packet' = packet /\ omitted' = omitted /\ widened' = widened
      /\ \/ /\ OmissionCost <= left /\ left' = left - OmissionCost
            /\ size' = size + OmissionCost /\ listed' = listed + 1
         \/ left' = left /\ size' = size /\ listed' = listed
  BY DEF ListOmission, Working
<1>2. left \in Nat /\ share \in Nat /\ size \in Int /\ listed \in Nat /\ pull \in Requests /\ OmissionCost \in Nat
  BY ContextAssumption DEF ContextInv, ContextTypes
<1>3. left' \in Nat /\ size' \in Int /\ size' + left' = size + left /\ listed' \in Nat /\ listed' <= listed + 1
  BY <1>1, <1>2
<1>4. Dealing' /\ Len(todo') = Len(todo) - 1 /\ Len(todo) \in Nat
  BY <1>1, PassedOne DEF ContextInv
<1>5. ContextTypes'
  BY <1>1, <1>2, <1>3 DEF ContextInv, ContextTypes
<1>6. Account'
  <2>1. Unspent' = Unspent /\ Unspent \in Nat /\ PacketLimit \in Nat
    BY <1>1, <1>2, PullTypes DEF Unspent
  <2>2. size' + left' + share' = size + left + share
    BY <1>1, <1>3
  <2>3. size + left + share + Unspent <= PacketLimit
    BY DEF ContextInv, Account
  <2>. QED  BY <1>1, <2>1, <2>2, <2>3 DEF Account
<1>7. RulesFit'
  BY <1>1, AmpleStays DEF ContextInv, RulesFit
<1>8. Widening'
  BY <1>1 DEF ContextInv, Widening
<1>9. Counting'
  <2>1. listed + Len(todo) <= Len(omitted)
    BY <1>1 DEF ContextInv, Counting
  <2>2. Len(omitted) \in Nat
    BY DEF ContextInv, Dealing, Once, Enumerates
  <2>3. listed' + Len(todo') <= Len(omitted)
    <3> DEFINE m == Len(omitted)
               n == Len(todo)
    <3>1. listed + n <= m /\ m \in Nat /\ n \in Nat /\ Len(todo') = n - 1
      BY <1>4, <2>1, <2>2
    <3> HIDE DEF m, n
    <3>2. \A i, j \in Nat : i <= j + 1 /\ j + n <= m => i + (n - 1) <= m
      BY <3>1
    <3>3. listed' + (n - 1) <= m
      BY <1>2, <1>3, <3>1, <3>2
    <3>. QED  BY <3>1, <3>3 DEF m
  <2>. QED  BY <1>1, <2>3 DEF Counting
<1>. QED  BY <1>4, <1>5, <1>6, <1>7, <1>8, <1>9 DEF ContextInv

LEMMA StageOver ==
  ASSUME ContextInv, NEW s, NEW next, Over(s, next)
  PROVE  /\ stage = s /\ stage' = next /\ todo = <<>> /\ pull' = pull /\ texts' = texts /\ size' = size
         /\ packet' = packet /\ widened' = widened /\ omitted' = omitted /\ listed' = listed
         /\ left \in Nat /\ share \in Nat /\ size \in Int /\ pull \in Requests
         /\ Reserve \in Nat /\ PacketLimit \in Nat
         /\ (Ample' <=> Ample) /\ RulesWanted(FilesWithHunks)' = RulesWanted(FilesWithHunks)
<1>1. /\ stage = s /\ stage' = next /\ todo = <<>> /\ pull' = pull /\ texts' = texts /\ size' = size
      /\ packet' = packet /\ widened' = widened /\ omitted' = omitted /\ listed' = listed
  BY DEF Over
<1>2. left \in Nat /\ share \in Nat /\ size \in Int /\ pull \in Requests
  BY DEF ContextInv, ContextTypes
<1>. QED  BY <1>1, <1>2, PullTypes, AmpleStays

LEMMA ReserveRulesKeeps == ContextInv /\ ReserveRules => ContextInv'
<1> SUFFICES ASSUME ContextInv, ReserveRules PROVE ContextInv'
  OBVIOUS
<1> DEFINE wanted == RulesWanted(FilesWithHunks)
           enough == Lesser(RulesMax, wanted)
<1>1. Over("parts", "hunks") /\ todo' = ByPlace(HunkItems)
      /\ share' = Lesser(enough, left + share) /\ left' = left + share - share'
  BY DEF ReserveRules, HunkItems
<1>2. /\ stage = "parts" /\ stage' = "hunks" /\ todo = <<>> /\ pull' = pull /\ texts' = texts /\ size' = size
      /\ packet' = packet /\ widened' = widened /\ omitted' = omitted /\ listed' = listed
      /\ left \in Nat /\ share \in Nat /\ size \in Int /\ pull \in Requests
      /\ Reserve \in Nat /\ PacketLimit \in Nat
      /\ (Ample' <=> Ample) /\ RulesWanted(FilesWithHunks)' = wanted
  BY <1>1, StageOver
<1>3. Dealing'
  <2>1. Follows(stage, stage', HunkItems)
    BY <1>2 DEF Follows
  <2>. QED  BY <1>1, <1>2, <2>1, HunksList, NewStage DEF ContextInv
<1>4. wanted \in Nat /\ RulesMax \in Nat
  <2>1. FilesWithHunks \subseteq DOMAIN pull.files
    BY DEF FilesWithHunks
  <2>. QED  BY <1>2, <2>1, RulesWantedGrows, ContextAssumption
<1> HIDE DEF wanted
<1>5. enough \in Nat /\ (wanted <= RulesMax => enough = wanted)
  BY <1>4 DEF Lesser
<1>6. /\ share' \in Nat /\ share' <= left + share
      /\ enough <= left + share => share' = enough
  <2>1. left + share \in Nat
    BY <1>2
  <2> HIDE DEF enough
  <2>. QED  BY <1>1, <1>5, <2>1 DEF Lesser
<1> HIDE DEF enough
<1>7. left' \in Nat /\ left' + share' = left + share
  BY <1>1, <1>2, <1>6
<1>8. ContextTypes'
  BY <1>2, <1>6, <1>7 DEF ContextInv, ContextTypes
<1>9. Account'
  <2>1. Unspent = Reserve /\ Unspent' = Reserve
    BY <1>2 DEF Unspent, Reserve
  <2>2. size' + left' + share' = size + left + share
    <3>1. size' + left' + share' = size + (left' + share') /\ size + left + share = size + (left + share)
      BY <1>2, <1>6, <1>7
    <3>. QED  BY <1>7, <3>1
  <2>3. size + left + share + Unspent <= PacketLimit
    BY DEF ContextInv, Account
  <2>. QED  BY <1>2, <2>1, <2>2, <2>3 DEF Account
<1>10. RulesFit'
  <2>1. ASSUME Ample PROVE wanted <= share'
    <3>1. wanted <= RulesMax /\ RulesMax <= left
      BY <1>2, <2>1 DEF Ample, wanted, ContextInv, RulesFit
    <3>2. enough = wanted /\ enough <= left + share
      BY <1>2, <1>4, <1>5, <3>1
    <3>. QED  BY <1>4, <1>6, <3>2
  <2>2. \A x \in Range(omitted) : x[1] \notin {"rule", "rejected"}
    BY <1>2, NoRuleYet DEF ContextInv
  <2>. QED  BY <1>2, <2>1, <2>2 DEF RulesFit, wanted
<1>11. Widening' /\ Counting'
  BY <1>2 DEF ContextInv, Widening, Counting
<1>. QED  BY <1>3, <1>8, <1>9, <1>10, <1>11 DEF ContextInv

LEMMA BeginRulesKeeps == ContextInv /\ BeginRules => ContextInv'
<1> SUFFICES ASSUME ContextInv, BeginRules PROVE ContextInv'
  OBVIOUS
<1>1. Over("hunks", "rules") /\ todo' = ByPlace(RuleItems) \o ByPlace(RejectedItems)
      /\ left' = left /\ share' = share
  BY DEF BeginRules, RuleItems, RejectedItems
<1>2. /\ stage = "hunks" /\ stage' = "rules" /\ todo = <<>> /\ pull' = pull /\ texts' = texts /\ size' = size
      /\ packet' = packet /\ widened' = widened /\ omitted' = omitted /\ listed' = listed
      /\ left \in Nat /\ share \in Nat /\ size \in Int /\ pull \in Requests
      /\ Reserve \in Nat /\ PacketLimit \in Nat
      /\ (Ample' <=> Ample) /\ RulesWanted(FilesWithHunks)' = RulesWanted(FilesWithHunks)
  BY <1>1, StageOver
<1> DEFINE items == RuleItems \cup RejectedItems
<1>3. Enumerates(todo', items)
  <2>1. RulesFor(FilesShown) \subseteq DOMAIN pull.rules
    BY DEF RulesFor
  <2>2. IsFiniteSet(RulesFor(FilesShown)) /\ RulesFor(FilesShown) \subseteq Nat
    BY <1>2, <2>1, PullParts, FS_Subset
  <2>3. Enumerates(ByPlace(RuleItems), RuleItems)
    BY <2>2, EachLists DEF RuleItems
  <2>4. Enumerates(ByPlace(RejectedItems), RejectedItems)
    BY <1>2, PullParts, EachLists DEF RejectedItems
  <2>5. RuleItems \cap RejectedItems = {}
    BY ItemKinds
  <2>. QED  BY <1>1, <2>3, <2>4, <2>5, ListsBoth
<1>4. Dealing' /\ Range(todo') = items /\ FilesShown' = FilesShown
  <2>1. Follows(stage, stage', items)
    BY <1>2 DEF Follows
  <2>. QED  BY <1>2, <1>3, <2>1, NewStage DEF ContextInv
<1>5. ContextTypes'
  BY <1>1, <1>2 DEF ContextInv, ContextTypes
<1>6. Account'
  <2>1. Unspent' = Unspent
    BY <1>2 DEF Unspent, Reserve
  <2>. QED  BY <1>1, <1>2, <2>1 DEF ContextInv, Account
<1>7. RulesDue' = RulesWanted(FilesShown)
  <2>1. RulesLeft' = RulesFor(FilesShown) /\ RejectedLeft' = DOMAIN pull.rejected
    <3>1. \A r \in RulesFor(FilesShown) : Item("rule", r, 0) \in items
      BY DEF RuleItems, Each
    <3>2. \A r \in DOMAIN pull.rejected : Item("rejected", r, 0) \in items
      BY DEF RejectedItems, Each
    <3>3. RulesFor(FilesShown)' = RulesFor(FilesShown)
      BY <1>2, <1>4 DEF RulesFor
    <3> HIDE DEF items
    <3>. QED  BY <1>2, <1>4, <3>1, <3>2, <3>3 DEF RulesLeft, RejectedLeft
  <2>2. \A r : RuleCost(r, FilesShown)' = RuleCost(r, FilesShown)
    BY <1>2, <1>4 DEF RuleCost
  <2>3. RulesDue' = Total([r \in RulesLeft' |-> RuleCost(r, FilesShown)']) + Total([r \in RejectedLeft' |-> pull.rejected[r]])
    BY <1>2 DEF RulesDue
  <2>4. [r \in DOMAIN pull.rejected |-> pull.rejected[r]] = pull.rejected
    <3>1. pull.rejected \in Seq(Nat)
      BY <1>2, PullTypes
    <3>2. pull.rejected \in [1..Len(pull.rejected) -> Nat]
      BY <3>1
    <3>. QED  BY <3>2
  <2>5. RulesDue' = Total([r \in RulesFor(FilesShown) |-> RuleCost(r, FilesShown)]) + Total([r \in DOMAIN pull.rejected |-> pull.rejected[r]])
    BY <2>1, <2>2, <2>3
  <2>. QED  BY <2>4, <2>5 DEF RulesWanted
<1>8. RulesFit'
  <2>1. FilesShown \subseteq FilesWithHunks /\ FilesWithHunks \subseteq DOMAIN pull.files
    BY ShownHaveHunks DEF ContextInv
  <2>2. /\ RulesWanted(FilesShown) \in Nat /\ RulesWanted(FilesWithHunks) \in Nat
        /\ RulesWanted(FilesShown) <= RulesWanted(FilesWithHunks)
    BY <1>2, <2>1, RulesWantedGrows
  <2>3. Ample => RulesWanted(FilesWithHunks) <= share
    BY <1>2 DEF ContextInv, RulesFit
  <2>4. Ample => RulesWanted(FilesShown) <= share
    BY <1>2, <2>2, <2>3
  <2>5. Ample => RulesDue' <= share'
    BY <1>1, <1>7, <2>4
  <2>6. \A x \in Range(omitted) : x[1] \notin {"rule", "rejected"}
    BY <1>2, NoRuleYet DEF ContextInv
  <2>. QED  BY <1>2, <2>5, <2>6 DEF RulesFit
<1>9. Widening' /\ Counting'
  BY <1>2 DEF ContextInv, Widening, Counting
<1>. QED  BY <1>4, <1>5, <1>6, <1>8, <1>9 DEF ContextInv

LEMMA BeginWholeKeeps == ContextInv /\ BeginWhole => ContextInv'
<1> SUFFICES ASSUME ContextInv, BeginWhole PROVE ContextInv'
  OBVIOUS
<1> DEFINE shown == {f \in DOMAIN pull.files : Complete(f) /\ pull.files[f].small}
<1>1. Over("rules", "whole") /\ left' = left + share /\ share' = 0 /\ todo' = ByPlace(Each("view", shown))
  BY DEF BeginWhole
<1>2. /\ stage = "rules" /\ stage' = "whole" /\ todo = <<>> /\ pull' = pull /\ texts' = texts /\ size' = size
      /\ packet' = packet /\ widened' = widened /\ omitted' = omitted /\ listed' = listed
      /\ left \in Nat /\ share \in Nat /\ size \in Int /\ pull \in Requests
      /\ Reserve \in Nat /\ PacketLimit \in Nat /\ (Ample' <=> Ample)
  BY <1>1, StageOver
<1>3. shown \subseteq DOMAIN pull.files
  OBVIOUS
<1> HIDE DEF shown
<1>4. IsFiniteSet(shown) /\ shown \subseteq Nat
  BY <1>2, <1>3, PullParts, FS_Subset
<1>5. Dealing'
  <2>1. Enumerates(todo', Each("view", shown))
    BY <1>1, <1>4, EachLists
  <2>2. Each("view", shown) \subseteq Each("view", DOMAIN pull.files)
    BY <1>3 DEF Each
  <2>3. Follows(stage, stage', Each("view", shown))
    BY <1>2, <2>2 DEF Follows
  <2>. QED  BY <1>2, <2>1, <2>3, NewStage DEF ContextInv
<1>6. ContextTypes'
  BY <1>1, <1>2 DEF ContextInv, ContextTypes
<1>7. Account'
  <2>1. Unspent' = Reserve /\ Unspent = Reserve
    BY <1>2 DEF Unspent, Reserve
  <2>2. size' + left' + share' = size + left + share
    BY <1>1, <1>2
  <2>3. size + left + share + Unspent <= PacketLimit
    BY DEF ContextInv, Account
  <2>. QED  BY <1>2, <2>1, <2>2, <2>3 DEF Account
<1>8. RulesFit' /\ Widening' /\ Counting'
  BY <1>2 DEF ContextInv, RulesFit, Widening, Counting
<1>. QED  BY <1>5, <1>6, <1>7, <1>8 DEF ContextInv

LEMMA BeginAstKeeps == ContextInv /\ BeginAst => ContextInv'
<1> SUFFICES ASSUME ContextInv, BeginAst PROVE ContextInv'
  OBVIOUS
<1> DEFINE outlined == (texts.outlines \cap FilesShown) \ widened.whole
           scoped == {f \in outlined : pull.files[f].scopes > 0}
           importing == {f \in outlined : pull.files[f].imports > 0}
           items == Each("scopes", scoped) \cup Each("imports", importing)
<1>1. Over("whole", "ast") /\ left' = left /\ share' = share
      /\ todo' = ByPlace(Each("scopes", scoped)) \o ByPlace(Each("imports", importing))
  BY DEF BeginAst
<1>2. /\ stage = "whole" /\ stage' = "ast" /\ todo = <<>> /\ pull' = pull /\ texts' = texts /\ size' = size
      /\ packet' = packet /\ widened' = widened /\ omitted' = omitted /\ listed' = listed
      /\ left \in Nat /\ share \in Nat /\ size \in Int /\ pull \in Requests
      /\ Reserve \in Nat /\ PacketLimit \in Nat /\ (Ample' <=> Ample)
  BY <1>1, StageOver
<1>3. scoped \subseteq DOMAIN pull.files /\ importing \subseteq DOMAIN pull.files
  BY DEF FilesShown
<1> HIDE DEF scoped, importing
<1>4. IsFiniteSet(scoped) /\ scoped \subseteq Nat /\ IsFiniteSet(importing) /\ importing \subseteq Nat
  BY <1>2, <1>3, PullParts, FS_Subset
<1>5. Dealing'
  <2>1. Enumerates(ByPlace(Each("scopes", scoped)), Each("scopes", scoped))
        /\ Enumerates(ByPlace(Each("imports", importing)), Each("imports", importing))
    BY <1>4, EachLists
  <2>2. Each("scopes", scoped) \cap Each("imports", importing) = {}
    BY ItemParts DEF Each
  <2>3. Enumerates(todo', items)
    BY <1>1, <2>1, <2>2, ListsBoth
  <2>4. items \subseteq OutlineItems
    BY <1>3 DEF Each, OutlineItems
  <2>5. Follows(stage, stage', items)
    BY <1>2, <2>4 DEF Follows
  <2>. QED  BY <1>2, <2>3, <2>5, NewStage DEF ContextInv
<1>6. ContextTypes'
  BY <1>1, <1>2 DEF ContextInv, ContextTypes
<1>7. Account'
  <2>1. Unspent' = Unspent
    BY <1>2 DEF Unspent, Reserve
  <2>. QED  BY <1>1, <1>2, <2>1 DEF ContextInv, Account
<1>8. RulesFit' /\ Widening' /\ Counting'
  BY <1>2 DEF ContextInv, RulesFit, Widening, Counting
<1>. QED  BY <1>5, <1>6, <1>7, <1>8 DEF ContextInv

LEMMA BeginWindowsKeeps == ContextInv /\ BeginWindows => ContextInv'
<1> SUFFICES ASSUME ContextInv, BeginWindows PROVE ContextInv'
  OBVIOUS
<1> DEFINE shown == {f \in DOMAIN pull.files \ widened.whole :
                        Complete(f) /\ pull.files[f].window # Total(pull.files[f].hunks)}
<1>1. Over("ast", "windows") /\ left' = left /\ share' = share /\ todo' = ByPlace(Each("view", shown))
  BY DEF BeginWindows
<1>2. /\ stage = "ast" /\ stage' = "windows" /\ todo = <<>> /\ pull' = pull /\ texts' = texts /\ size' = size
      /\ packet' = packet /\ widened' = widened /\ omitted' = omitted /\ listed' = listed
      /\ left \in Nat /\ share \in Nat /\ size \in Int /\ pull \in Requests
      /\ Reserve \in Nat /\ PacketLimit \in Nat /\ (Ample' <=> Ample)
  BY <1>1, StageOver
<1>3. shown \subseteq DOMAIN pull.files /\ shown \cap widened.whole = {}
  OBVIOUS
<1> HIDE DEF shown
<1>4. IsFiniteSet(shown) /\ shown \subseteq Nat
  BY <1>2, <1>3, PullParts, FS_Subset
<1>5. Dealing' /\ Range(todo') = Each("view", shown)
  <2>1. Enumerates(todo', Each("view", shown))
    BY <1>1, <1>4, EachLists
  <2>2. Each("view", shown) \subseteq Each("view", DOMAIN pull.files)
    BY <1>3 DEF Each
  <2>3. Follows(stage, stage', Each("view", shown))
    BY <1>2, <2>2 DEF Follows
  <2>. QED  BY <1>2, <2>1, <2>3, NewStage DEF ContextInv
<1>6. ContextTypes'
  BY <1>1, <1>2 DEF ContextInv, ContextTypes
<1>7. Account'
  <2>1. Unspent' = Unspent
    BY <1>2 DEF Unspent, Reserve
  <2>. QED  BY <1>1, <1>2, <2>1 DEF ContextInv, Account
<1>8. RulesFit' /\ Counting'
  BY <1>2 DEF ContextInv, RulesFit, Counting
<1>9. Widening'
  <2>1. \A x \in Each("view", shown) : x[2] \in shown
    BY ItemParts DEF Each
  <2>. QED  BY <1>2, <1>3, <1>5, <2>1 DEF ContextInv, Widening
<1>. QED  BY <1>5, <1>6, <1>7, <1>8, <1>9 DEF ContextInv

LEMMA BeginOmittedKeeps == ContextInv /\ BeginOmitted => ContextInv'
<1> SUFFICES ASSUME ContextInv, BeginOmitted PROVE ContextInv'
  OBVIOUS
<1>1. Over("windows", "omitted") /\ left' = left + Reserve /\ todo' = omitted /\ share' = share
  BY DEF BeginOmitted
<1>2. /\ stage = "windows" /\ stage' = "omitted" /\ todo = <<>> /\ pull' = pull /\ texts' = texts /\ size' = size
      /\ packet' = packet /\ widened' = widened /\ omitted' = omitted /\ listed' = listed
      /\ left \in Nat /\ share \in Nat /\ size \in Int /\ pull \in Requests
      /\ Reserve \in Nat /\ PacketLimit \in Nat /\ (Ample' <=> Ample)
  BY <1>1, StageOver
<1>3. Dealing' /\ Len(omitted) \in Nat
  <2>1. Enumerates(todo', Range(omitted)) /\ Len(omitted) \in Nat
    BY <1>1 DEF ContextInv, Dealing, Once, Enumerates
  <2>2. Follows(stage, stage', Range(omitted))
    BY <1>2 DEF Follows
  <2>. QED  BY <1>2, <2>1, <2>2, NewStage DEF ContextInv
<1>4. ContextTypes'
  BY <1>1, <1>2 DEF ContextInv, ContextTypes
<1>5. Account'
  <2>1. Unspent' = 0 /\ Unspent = Reserve
    BY <1>2 DEF Unspent
  <2>2. size + left + share + Unspent <= PacketLimit
    BY DEF ContextInv, Account
  <2>3. size' + left' + share' + Unspent' <= PacketLimit
    BY <1>1, <1>2, <2>1, <2>2
  <2>. QED  BY <1>2, <2>3 DEF Account
<1>6. RulesFit' /\ Widening'
  BY <1>2 DEF ContextInv, RulesFit, Widening
<1>7. Counting'
  <2>1. listed' = 0 /\ todo' = omitted'
    BY <1>1, <1>2 DEF ContextInv, Counting
  <2>2. Len(omitted)' \in Nat
    BY <1>2, <1>3
  <2>3. (listed + Len(todo))' <= Len(omitted)'
    BY <2>1, <2>2
  <2>. QED  BY <1>2, <2>3 DEF Counting
<1>. QED  BY <1>3, <1>4, <1>5, <1>6, <1>7 DEF ContextInv

LEMMA FinishKeeps == ContextInv /\ Finish => ContextInv'
<1> SUFFICES ASSUME ContextInv, Finish PROVE ContextInv'
  OBVIOUS
<1>1. Over("omitted", "done") /\ left' = left /\ share' = share /\ todo' = todo
  BY DEF Finish
<1>2. /\ stage = "omitted" /\ stage' = "done" /\ todo = <<>> /\ pull' = pull /\ texts' = texts /\ size' = size
      /\ packet' = packet /\ widened' = widened /\ omitted' = omitted /\ listed' = listed
      /\ left \in Nat /\ share \in Nat /\ size \in Int /\ pull \in Requests
      /\ Reserve \in Nat /\ PacketLimit \in Nat /\ (Ample' <=> Ample)
  BY <1>1, StageOver
<1>3. Dealing'
  <2>1. Enumerates(todo', {})
    BY <1>1, <1>2, ListsNothing
  <2>2. Follows(stage, stage', {})
    BY <1>2 DEF Follows
  <2>. QED  BY <1>2, <2>1, <2>2, NewStage DEF ContextInv
<1>4. ContextTypes'
  BY <1>1, <1>2 DEF ContextInv, ContextTypes
<1>5. Account'
  <2>1. Unspent' = Unspent
    BY <1>2 DEF Unspent
  <2>. QED  BY <1>1, <1>2, <2>1 DEF ContextInv, Account
<1>6. RulesFit' /\ Widening'
  BY <1>2 DEF ContextInv, RulesFit, Widening
<1>7. Counting'
  <2>1. listed + Len(todo) <= Len(omitted) /\ listed \in Nat
    BY <1>2 DEF ContextInv, Counting, ContextTypes
  <2>2. Len(todo) = 0
    BY <1>2
  <2>3. listed <= Len(omitted)
    BY <2>1, <2>2
  <2>. QED  BY <1>2, <2>3 DEF Counting
<1>. QED  BY <1>3, <1>4, <1>5, <1>6, <1>7 DEF ContextInv

LEMMA FetchTextsKeeps == ContextInv /\ FetchTexts => ContextInv'
<1> SUFFICES ASSUME ContextInv, FetchTexts PROVE ContextInv'
  OBVIOUS
<1>1. /\ stage = "fetch" /\ stage' = "parts" /\ pull' = pull /\ size' = size /\ packet' = packet
      /\ widened' = widened /\ listed' = listed
  BY DEF FetchTexts
<1>2. /\ packet = {} /\ omitted = <<>> /\ size = pull.frame /\ pull \in Requests /\ pull.frame \in Nat
      /\ Reserve \in Nat /\ PacketLimit \in Nat /\ pull.frame + Reserve <= PacketLimit
      /\ PrMax \in Nat /\ RulesMax \in Nat
  BY <1>1, PullTypes, ContextAssumption DEF ContextInv, ContextTypes
<1>3. PICK metadata \in BOOLEAN, commits \in BOOLEAN, sources \in SUBSET Asked :
      \E outlines \in Outlines(sources) :
          LET parts == PartsFetched(metadata, commits)
              wanted == Total(PartCosts(parts))
              budget == PacketLimit - pull.frame - Reserve
          IN /\ texts' = [parts |-> parts, sources |-> sources, outlines |-> outlines]
             /\ todo' = ByPlace(Each("part", parts))
             /\ share' = Lesser(Lesser(PrMax, wanted), budget)
             /\ left' = budget - share'
             /\ omitted' = ByPlace(Each("file", {f \in DOMAIN pull.files : ~Reviewable(f)}))
                    \o ByPlace(Each("ast", {f \in Sources : pull.files[f].language} \ outlines))
                    \o (IF metadata THEN <<>> ELSE <<Item("metadata", 0, 0)>>)
                    \o (IF commits THEN <<>> ELSE <<Item("commits", 0, 0)>>)
  BY DEF FetchTexts
<1> DEFINE parts == PartsFetched(metadata, commits)
           wanted == Total(PartCosts(parts))
           budget == PacketLimit - pull.frame - Reserve
           A == {f \in DOMAIN pull.files : ~Reviewable(f)}
           C == IF metadata THEN {} ELSE {Item("metadata", 0, 0)}
           D == IF commits THEN {} ELSE {Item("commits", 0, 0)}
           c == IF metadata THEN <<>> ELSE <<Item("metadata", 0, 0)>>
           d == IF commits THEN <<>> ELSE <<Item("commits", 0, 0)>>
<1>4. PICK outlines \in Outlines(sources) :
          /\ texts' = [parts |-> parts, sources |-> sources, outlines |-> outlines]
          /\ todo' = ByPlace(Each("part", parts))
          /\ share' = Lesser(Lesser(PrMax, wanted), budget)
          /\ left' = budget - share'
          /\ omitted' = ByPlace(Each("file", A))
                 \o ByPlace(Each("ast", {f \in Sources : pull.files[f].language} \ outlines)) \o c \o d
  BY <1>3
<1> DEFINE B == {f \in Sources : pull.files[f].language} \ outlines
<1>5. /\ parts \subseteq DOMAIN pull.parts /\ A \subseteq DOMAIN pull.files /\ B \subseteq DOMAIN pull.files
      /\ sources \subseteq DOMAIN pull.files /\ outlines \subseteq DOMAIN pull.files
  <2>1. Sources \subseteq DOMAIN pull.files /\ Asked \subseteq Sources
    BY DEF Sources, Asked
  <2>. QED  BY <2>1 DEF PartsFetched, Outlines
<1>6. omitted' = ByPlace(Each("file", A)) \o ByPlace(Each("ast", B)) \o c \o d
  BY <1>4
<1> HIDE DEF A, B, parts
<1>7. /\ IsFiniteSet(parts) /\ parts \subseteq Nat /\ IsFiniteSet(A) /\ A \subseteq Nat
      /\ IsFiniteSet(B) /\ B \subseteq Nat
  BY <1>2, <1>5, PullParts, FS_Subset
<1> DEFINE O == Each("file", A) \cup Each("ast", B) \cup C \cup D
<1>8. \A x \in O : x[1] \in {"file", "ast", "metadata", "commits"}
  BY ItemParts DEF Each
<1>9. Enumerates(omitted', O)
  <2>1. Enumerates(ByPlace(Each("file", A)), Each("file", A)) /\ Enumerates(ByPlace(Each("ast", B)), Each("ast", B))
    BY <1>7, EachLists
  <2>2. Enumerates(c, C) /\ Enumerates(d, D)
    BY ListsNothing, ListsOne
  <2>3. /\ \A x \in Each("file", A) : x[1] = "file"
        /\ \A x \in Each("ast", B) : x[1] = "ast"
        /\ \A x \in C : x[1] = "metadata"
        /\ \A x \in D : x[1] = "commits"
    BY ItemParts DEF Each
  <2> HIDE DEF C, D, c, d
  <2>4. Enumerates(ByPlace(Each("file", A)) \o ByPlace(Each("ast", B)), Each("file", A) \cup Each("ast", B))
    BY <2>1, <2>3, ListsBoth
  <2>5. Enumerates(ByPlace(Each("file", A)) \o ByPlace(Each("ast", B)) \o c, Each("file", A) \cup Each("ast", B) \cup C)
    <3>1. (Each("file", A) \cup Each("ast", B)) \cap C = {}
      BY <2>3
    <3>. QED  BY <2>2, <2>4, <3>1, ListsBoth
  <2>6. (Each("file", A) \cup Each("ast", B) \cup C) \cap D = {}
    BY <2>3
  <2>. QED  BY <1>6, <2>2, <2>5, <2>6, ListsBoth
<1> HIDE DEF O, C, D, c, d
<1>10. Enumerates(todo', Each("part", parts)) /\ PartItems' = Each("part", parts)
  <2>1. Enumerates(todo', Each("part", parts))
    BY <1>4, <1>7, EachLists
  <2>. QED  BY <1>4, <2>1 DEF PartItems, Each
<1>11. /\ Range(todo') = Each("part", parts) /\ Enumerates(todo', Range(todo'))
       /\ Range(omitted') = O /\ Enumerates(omitted', Range(omitted'))
  BY <1>9, <1>10, ListsItself
<1>12. Dealing'
  <2>1. Dealt' = O /\ Waiting' = Each("part", parts)
    BY <1>1, <1>2, <1>11 DEF Dealt, Waiting, Paying
  <2>2. Fits'
    BY <1>1, <1>10, <1>11 DEF Fits
  <2>3. Once'
    <3>1. \A x \in Each("part", parts) : x[1] = "part"
      BY ItemParts DEF Each
    <3>. QED  BY <1>1, <1>2, <1>8, <1>11, <2>1, <3>1 DEF Once
  <2>4. InTurn'
    BY <1>8, <2>1 DEF InTurn
  <2>5. NothingLost'
    BY <1>1, <1>10, <2>1 DEF NothingLost
  <2>. QED  BY <2>2, <2>3, <2>4, <2>5 DEF Dealing
<1>13. wanted \in Nat
  <2> DEFINE costs == PartCosts(parts)
  <2>1. DOMAIN costs = parts /\ \A i \in parts : costs[i] = 0 \/ costs[i] = pull.parts[i].cost
    BY DEF PartCosts
  <2>2. \A i \in parts : pull.parts[i].cost \in Nat
    BY <1>2, <1>5, PullParts
  <2> HIDE DEF costs
  <2>3. IsFiniteSet(DOMAIN costs) /\ \A i \in DOMAIN costs : costs[i] \in Nat
    <3>1. \A i \in parts : costs[i] \in Nat
      BY <2>1, <2>2
    <3>. QED  BY <1>7, <2>1, <3>1
  <2>4. Total(costs) \in Nat
    BY <2>3, TotalType
  <2>. QED  BY <2>4 DEF costs
<1> HIDE DEF wanted
<1>14. budget \in Nat /\ size + budget + Reserve = PacketLimit
  BY <1>2
<1>15. left' = budget - share' /\ share' = Lesser(Lesser(PrMax, wanted), budget)
  BY <1>4
<1>16. Ample => PrMax + RulesMax <= budget
  BY <1>2 DEF Ample
<1> HIDE DEF budget
<1>17. share' \in Nat /\ share' <= budget /\ share' <= PrMax
  BY <1>2, <1>13, <1>14, <1>15 DEF Lesser
<1>18. left' \in Nat /\ left' + share' = budget
  BY <1>14, <1>15, <1>17
<1>19. ContextTypes'
  BY <1>1, <1>2, <1>4, <1>5, <1>17, <1>18 DEF ContextInv, ContextTypes
<1>20. Account'
  <2>1. Unspent' = Reserve
    BY <1>1 DEF Unspent, Reserve
  <2>2. size' + left' + share' = size + (left' + share')
    BY <1>1, <1>2, <1>17, <1>18
  <2>3. size' + left' + share' + Unspent' = PacketLimit
    BY <1>14, <1>18, <2>1, <2>2
  <2>. QED  BY <1>1, <1>2, <2>3 DEF Account
<1>21. RulesFit'
  <2>1. Ample => RulesMax <= left'
    BY <1>2, <1>14, <1>15, <1>16, <1>17
  <2>. QED  BY <1>1, <1>8, <1>11, <2>1, AmpleStays DEF RulesFit
<1>22. Widening' /\ Counting'
  BY <1>1 DEF ContextInv, Widening, Counting
<1>. QED  BY <1>12, <1>19, <1>20, <1>21, <1>22 DEF ContextInv

LEMMA ContextStart == ContextInit => ContextInv
<1> SUFFICES ASSUME ContextInit PROVE ContextInv
  OBVIOUS
<1>1. /\ pull \in Requests /\ texts = NoTexts /\ stage = "fetch" /\ todo = <<>> /\ left = 0 /\ share = 0
      /\ size = pull.frame /\ packet = {} /\ widened = Unwidened /\ omitted = <<>> /\ listed = 0
  BY DEF ContextInit
<1>2. pull.frame \in Nat /\ Reserve \in Nat /\ pull.frame + Reserve <= PacketLimit /\ PacketLimit \in Nat
  BY <1>1, PullTypes
<1>3. ContextTypes
  BY <1>1, <1>2 DEF ContextTypes, NoTexts, Unwidened
<1>4. Range(todo) = {} /\ Range(omitted) = {} /\ Enumerates(<<>>, {})
  BY <1>1, ListsNothing, ListsItself
<1>5. Dealing
  BY <1>1, <1>4 DEF Dealing, Fits, Once, InTurn, NothingLost, Dealt
<1>6. Account
  BY <1>1, <1>2 DEF Account, Unspent
<1>7. RulesFit /\ Widening /\ Counting
  BY <1>1, <1>4 DEF RulesFit, Widening, Unwidened, Counting
<1>. QED  BY <1>3, <1>5, <1>6, <1>7 DEF ContextInv

LEMMA ContextStays == ContextInv /\ UNCHANGED contextVars => ContextInv'
<1> SUFFICES ASSUME ContextInv, UNCHANGED contextVars PROVE ContextInv'
  OBVIOUS
<1>1. /\ pull' = pull /\ texts' = texts /\ stage' = stage /\ todo' = todo /\ left' = left /\ share' = share
      /\ size' = size /\ packet' = packet /\ widened' = widened /\ omitted' = omitted /\ listed' = listed
  BY DEF contextVars
<1>2. FilesShown' = FilesShown
  BY <1>1 DEF FilesShown, Hunks
<1>3. /\ PartItems' = PartItems /\ HunkItems' = HunkItems /\ RejectedItems' = RejectedItems
      /\ OutlineItems' = OutlineItems /\ RuleItems' = RuleItems
      /\ Each("view", DOMAIN pull.files)' = Each("view", DOMAIN pull.files)
  BY <1>1, <1>2, StayingItems
<1>4. ContextTypes'
  BY <1>1 DEF ContextInv, ContextTypes
<1>5. Dealing'
  BY <1>1, <1>3 DEF ContextInv, Dealing, Fits, Once, InTurn, NothingLost, Dealt, Waiting
<1>6. Account'
  <2>1. Unspent' = Unspent
    BY <1>1 DEF Unspent, Reserve
  <2>. QED  BY <1>1, <2>1 DEF ContextInv, Account
<1>7. RulesFit'
  <2>1. RulesLeft' = RulesLeft /\ RejectedLeft' = RejectedLeft
    BY <1>1, <1>2 DEF RulesLeft, RejectedLeft, RulesFor
  <2>2. RulesDue' = RulesDue
    <3>1. \A r : RuleCost(r, FilesShown)' = RuleCost(r, FilesShown)
      BY <1>1, <1>2 DEF RuleCost
    <3>2. RulesDue' = Total([r \in RulesLeft' |-> RuleCost(r, FilesShown)']) + Total([r \in RejectedLeft' |-> pull.rejected[r]])
      BY <1>1 DEF RulesDue
    <3>. QED  BY <2>1, <3>1, <3>2 DEF RulesDue
  <2>. QED  BY <1>1, <2>2, AmpleStays DEF ContextInv, RulesFit
<1>8. Widening' /\ Counting'
  BY <1>1 DEF ContextInv, Widening, Counting
<1>. QED  BY <1>4, <1>5, <1>6, <1>7, <1>8 DEF ContextInv

LEMMA ContextStep == ContextInv /\ [ContextNext]_contextVars => ContextInv'
<1> SUFFICES ASSUME ContextInv, [ContextNext]_contextVars PROVE ContextInv'
  OBVIOUS
<1>1. CASE FetchTexts
  BY <1>1, FetchTextsKeeps
<1>2. CASE TakePart
  BY <1>2, TakePartKeeps
<1>3. CASE ReserveRules
  BY <1>3, ReserveRulesKeeps
<1>4. CASE TakeHunk
  BY <1>4, TakeHunkKeeps
<1>5. CASE BeginRules
  BY <1>5, BeginRulesKeeps
<1>6. CASE TakeRule
  BY <1>6, TakeRuleKeeps
<1>7. CASE BeginWhole
  BY <1>7, BeginWholeKeeps
<1>8. CASE ShowWhole
  BY <1>8, ShowWholeKeeps
<1>9. CASE BeginAst
  BY <1>9, BeginAstKeeps
<1>10. CASE TakeAst
  BY <1>10, TakeAstKeeps
<1>11. CASE BeginWindows
  BY <1>11, BeginWindowsKeeps
<1>12. CASE ShowWindow
  BY <1>12, ShowWindowKeeps
<1>13. CASE BeginOmitted
  BY <1>13, BeginOmittedKeeps
<1>14. CASE ListOmission
  BY <1>14, ListOmissionKeeps
<1>15. CASE Finish
  BY <1>15, FinishKeeps
<1>16. CASE UNCHANGED contextVars
  BY <1>16, ContextStays
<1>. QED  BY <1>1, <1>2, <1>3, <1>4, <1>5, <1>6, <1>7, <1>8, <1>9, <1>10, <1>11, <1>12, <1>13, <1>14, <1>15, <1>16 DEF ContextNext

LEMMA ContextInvTells == ContextInv => PacketIsSound
<1> SUFFICES ASSUME ContextInv PROVE PacketIsSound
  OBVIOUS
<1>1. size + left + share + (IF stage \in {"fetch", "omitted", "done"} THEN 0 ELSE Reserve) <= PacketLimit
  BY DEF ContextInv, Account, Unspent
<1> DEFINE items == HunkItems \cup PartItems \cup RuleItems
<1>2. ASSUME stage = "done"
      PROVE  /\ listed <= Len(omitted)
             /\ \A item \in items : (item \in packet) # (\E n \in DOMAIN omitted : omitted[n] = item)
             /\ \A m, n \in DOMAIN omitted : omitted[m] = omitted[n] => m = n
             /\ Ample => \A n \in DOMAIN omitted : omitted[n][1] \notin {"rule", "rejected"}
             /\ widened.whole \cap widened.window = {}
  <2>1. \A x : x \in Range(omitted) <=> \E n \in DOMAIN omitted : omitted[n] = x
    BY DEF Range
  <2>2. items \subseteq Dealt
    <3>1. Waiting = {}
      BY <1>2 DEF Waiting, Paying
    <3>. QED  BY <1>2, <3>1 DEF ContextInv, Dealing, NothingLost
  <2> HIDE DEF items
  <2>3. \A item \in items : (item \in packet) # (\E n \in DOMAIN omitted : omitted[n] = item)
    BY <2>1, <2>2 DEF ContextInv, Dealing, Once, Dealt
  <2>4. \A m, n \in DOMAIN omitted : omitted[m] = omitted[n] => m = n
    BY DEF ContextInv, Dealing, Once, Enumerates
  <2>5. Ample => \A n \in DOMAIN omitted : omitted[n][1] \notin {"rule", "rejected"}
    BY <2>1 DEF ContextInv, RulesFit
  <2>. QED  BY <1>2, <2>3, <2>4, <2>5 DEF ContextInv, Counting, Widening
<1>. QED  BY <1>1, <1>2 DEF PacketIsSound, Ample, HunkItems, PartItems, RuleItems

\* For any pull request, limits and costs: the packet and what may still be paid keep to the
\* limit at each step, nothing that is due is in it and omitted or in neither, and rules
\* that got what they asked for all fit (application/context_assembly.py, domain/context_budget.py).
THEOREM PacketIsAlwaysSound == ContextSpec => []PacketIsSound
<1>1. ContextInit => ContextInv
  BY ContextStart
<1>2. ContextInv /\ [ContextNext]_contextVars => ContextInv'
  BY ContextStep
<1>3. ContextInv => PacketIsSound
  BY ContextInvTells
<1>. QED  BY <1>1, <1>2, <1>3, PTL DEF ContextSpec

\* ---- the reading of a diff ---------------------------------------------------

\* What change_exceeds has added up behind each hunk.
LEMMA WeightsAre ==
  ASSUME NEW hunks, Len(hunks) \in Nat
  PROVE  \A i \in 0..Len(hunks) :
            Weights(hunks)[i] = IF i = 0 THEN 0 ELSE Weigh(Weights(hunks)[i - 1], hunks[i])
<1> DEFINE N == Len(hunks)
           To(g, n) == \A i \in 0..n : g[i] = IF i = 0 THEN 0 ELSE Weigh(g[i - 1], hunks[i])
           Lacking == {n \in 0..N : ~\E g : To(g, n)}
<1>1. N \in Nat
  OBVIOUS
<1>2. CASE Lacking # {}
  <2>1. PICK m \in Lacking : \A n \in Lacking : m <= n
    <3>1. Lacking \subseteq Nat
      OBVIOUS
    <3>. HIDE DEF Lacking
    <3>. QED  BY <1>2, <3>1, LeastNumber
  <2>2. m \in 0..N /\ m \in Nat
    <3>1. m \in 0..N
      OBVIOUS
    <3>. QED  BY <1>1, <3>1
  <2>3. m # 0
    <3> DEFINE g == [k \in {0} |-> 0]
    <3>1. To(g, 0)
      OBVIOUS
    <3>. HIDE DEF To, g
    <3>. QED  BY <2>1, <3>1
  <2>4. m - 1 \in 0..N /\ m - 1 \notin Lacking /\ m \in 1..N
    <3>. HIDE DEF Lacking
    <3>. QED  BY <1>1, <2>1, <2>2, <2>3
  <2>5. PICK g : To(g, m - 1)
    BY <2>4
  <2> DEFINE h == [i \in 0..m |-> IF i = m THEN Weigh(g[m - 1], hunks[m]) ELSE g[i]]
  <2>6. ASSUME NEW i \in 0..m
        PROVE  h[i] = IF i = 0 THEN 0 ELSE Weigh(h[i - 1], hunks[i])
    <3>1. i = 0 \/ (i - 1 \in 0..m /\ i - 1 # m)
      BY <2>2
    <3>2. i # 0 => h[i - 1] = g[i - 1]
      BY <3>1
    <3>3. CASE i = m
      BY <2>3, <3>2, <3>3
    <3>4. CASE i # m
      <4>1. i \in 0..(m - 1) /\ h[i] = g[i]
        BY <2>2, <3>4
      <4>2. g[i] = IF i = 0 THEN 0 ELSE Weigh(g[i - 1], hunks[i])
        BY <2>5, <4>1
      <4>. QED  BY <3>2, <4>1, <4>2
    <3>. QED  BY <3>3, <3>4
  <2>7. To(h, m)
    <3>. HIDE DEF h
    <3>. QED  BY <2>6
  <2>. HIDE DEF To, h
  <2>. QED  BY <2>1, <2>7
<1>3. CASE Lacking = {}
  <2>1. N \in 0..N
    BY <1>1
  <2>2. PICK g : To(g, N)
    BY <1>3, <2>1
  <2> DEFINE Is(r) == r = [i \in 0..N |-> IF i = 0 THEN 0 ELSE Weigh(r[i - 1], hunks[i])]
             f == [i \in 0..N |-> g[i]]
  <2>3. Is(f)
    <3>1. ASSUME NEW i \in 0..N
          PROVE  f[i] = IF i = 0 THEN 0 ELSE Weigh(f[i - 1], hunks[i])
      <4>1. g[i] = IF i = 0 THEN 0 ELSE Weigh(g[i - 1], hunks[i])
        BY <2>2
      <4>2. i # 0 => i - 1 \in 0..N
        BY <1>1
      <4>. QED  BY <4>1, <4>2
    <3>2. f = [i \in 0..N |-> f[i]]
      OBVIOUS
    <3>. HIDE DEF f
    <3>. QED  BY <3>1, <3>2
  <2>4. Weights(hunks) = CHOOSE r : Is(r)
    BY DEF Weights
  <2>5. Is(Weights(hunks))
    <3>. HIDE DEF Is, f
    <3>. QED  BY <2>3, <2>4
  <2> DEFINE r == Weights(hunks)
  <2>6. r = [i \in 0..N |-> IF i = 0 THEN 0 ELSE Weigh(r[i - 1], hunks[i])]
    BY <2>5
  <2>. HIDE DEF r
  <2>7. \A i \in 0..N : r[i] = IF i = 0 THEN 0 ELSE Weigh(r[i - 1], hunks[i])
    BY <2>6
  <2>. QED  BY <2>7 DEF r
<1>. QED  BY <1>2, <1>3

\* It exceeds the limit exactly when the bytes do, although not all texts are put into bytes.
LEMMA WeighedRightly ==
  ASSUME NEW hunks, Len(hunks) \in Nat,
         \A h \in 1..Len(hunks) : hunks[h].chars \in Nat /\ hunks[h].bytes \in Nat /\ hunks[h].chars <= hunks[h].bytes
  PROVE  Weights(hunks)[Len(hunks)] > MaxFileBytes
            <=> ~(Total([h \in 1..Len(hunks) |-> hunks[h].bytes]) <= MaxFileBytes)
<1> DEFINE N == Len(hunks)
           Sum(i) == Total([h \in 1..i |-> hunks[h].bytes])
           w(i) == Weights(hunks)[i]
           Right(i) == /\ w(i) \in Nat /\ Sum(i) \in Nat
                       /\ IF w(i) > MaxFileBytes THEN Sum(i) > MaxFileBytes ELSE w(i) = Sum(i)
           Wrong == {i \in 0..N : ~Right(i)}
<1>1. N \in Nat /\ MaxFileBytes \in Nat
  BY DiffTextAssumption
<1>2. ASSUME NEW i \in 1..N
      PROVE  Sum(i - 1) \in Nat /\ Sum(i) = Sum(i - 1) + hunks[i].bytes
  <2> DEFINE cost == [h \in 1..i |-> hunks[h].bytes]
             rest == [h \in 1..(i - 1) |-> hunks[h].bytes]
  <2>1. DOMAIN cost = 1..i /\ cost[i] = hunks[i].bytes /\ i \in DOMAIN cost /\ \A x \in DOMAIN cost : cost[x] \in Nat
    BY <1>1
  <2>2. IsFiniteSet(1..i)
    <3>1. i \in Int /\ 1 \in Int
      BY <1>1
    <3>. QED  BY ONLY <3>1, FS_Interval
  <2>3. [x \in DOMAIN cost \ {i} |-> cost[x]] = rest
    <3>1. (1..i) \ {i} = 1..(i - 1)
      BY <1>1
    <3>2. \A x \in 1..(i - 1) : x \in 1..i /\ cost[x] = hunks[x].bytes
      BY <1>1
    <3>. HIDE DEF cost
    <3>. QED  BY <2>1, <3>1, <3>2
  <2>. HIDE DEF cost, rest
  <2>4. /\ Total([x \in DOMAIN cost \ {i} |-> cost[x]]) \in Nat
        /\ Total(cost) = Total([x \in DOMAIN cost \ {i} |-> cost[x]]) + cost[i]
    BY <2>1, <2>2, TotalWithout
  <2>5. Total(rest) \in Nat /\ Total(cost) = Total(rest) + hunks[i].bytes
    BY <2>1, <2>3, <2>4
  <2>. QED  BY <2>5 DEF cost, rest
<1>3. Right(0)
  <2>1. w(0) = 0
    BY <1>1, WeightsAre
  <2>2. Sum(0) = 0
    <3>1. 1..0 = {}
      OBVIOUS
    <3>2. Units([h \in 1..0 |-> hunks[h].bytes]) = {}
      BY <3>1 DEF Units
    <3>. QED  BY <3>2, FS_EmptySet DEF Total
  <2>. HIDE DEF w, Sum
  <2>. QED  BY <1>1, <2>1, <2>2
<1>4. ASSUME NEW i \in 1..N, Right(i - 1)
      PROVE  Right(i)
  <2>1. w(i) = Weigh(w(i - 1), hunks[i])
    <3>1. i \in 0..N /\ i # 0
      BY <1>1
    <3>. QED  BY <1>1, <3>1, WeightsAre
  <2>2. Sum(i - 1) \in Nat /\ Sum(i) = Sum(i - 1) + hunks[i].bytes
    BY <1>2
  <2>3. hunks[i].chars \in Nat /\ hunks[i].bytes \in Nat /\ hunks[i].chars <= hunks[i].bytes
    OBVIOUS
  <2>4. /\ w(i - 1) \in Nat
        /\ IF w(i - 1) > MaxFileBytes THEN Sum(i - 1) > MaxFileBytes ELSE w(i - 1) = Sum(i - 1)
    BY <1>4
  <2>. HIDE DEF w, Sum
  <2> DEFINE c == hunks[i].chars
             y == hunks[i].bytes
             before == w(i - 1)
             now == w(i)
             sum == Sum(i - 1)
             all == Sum(i)
  <2>5. c \in Nat /\ y \in Nat /\ c <= y /\ before \in Nat /\ sum \in Nat /\ all = sum + y
        /\ IF before > MaxFileBytes THEN sum > MaxFileBytes ELSE before = sum
    BY <2>2, <2>3, <2>4
  <2>6. now = IF before > MaxFileBytes \/ (c # y /\ c > MaxFileBytes - before) THEN MaxFileBytes + 1 ELSE before + y
    BY <2>1 DEF Weigh, Exceeding
  <2>. HIDE DEF c, y, before, now, sum, all
  <2>7. now \in Nat /\ all \in Nat /\ IF now > MaxFileBytes THEN all > MaxFileBytes ELSE now = all
    <3>1. CASE before > MaxFileBytes
      BY <1>1, <2>5, <2>6, <3>1
    <3>2. CASE ~(before > MaxFileBytes) /\ c # y /\ c > MaxFileBytes - before
      BY <1>1, <2>5, <2>6, <3>2
    <3>3. CASE ~(before > MaxFileBytes) /\ ~(c # y /\ c > MaxFileBytes - before)
      BY <1>1, <2>5, <2>6, <3>3
    <3>. QED  BY <3>1, <3>2, <3>3
  <2>. QED  BY <2>7 DEF now, all
<1>. HIDE DEF Right
<1>5. Wrong = {}
  <2>1. CASE Wrong # {}
    <3>1. PICK m \in Wrong : \A n \in Wrong : m <= n
      <4>1. Wrong \subseteq Nat
        OBVIOUS
      <4>. HIDE DEF Wrong
      <4>. QED  BY <2>1, <4>1, LeastNumber
    <3>2. m \in 0..N /\ ~Right(m) /\ m # 0
      BY <1>3, <3>1
    <3>3. m \in 1..N /\ m - 1 \in 0..N /\ m - 1 \notin Wrong
      <4>. HIDE DEF Wrong
      <4>. QED  BY <1>1, <3>1, <3>2
    <3>. QED  BY <1>4, <3>2, <3>3
  <2>. QED  BY <2>1
<1>6. Right(N)
  <2>1. N \in 0..N
    BY <1>1
  <2>. QED  BY <1>5, <2>1
<1>7. w(N) \in Nat /\ Sum(N) \in Nat /\ IF w(N) > MaxFileBytes THEN Sum(N) > MaxFileBytes ELSE w(N) = Sum(N)
  BY <1>6 DEF Right
<1>. QED
  <2> DEFINE a == w(N)
             b == Sum(N)
  <2>1. a \in Nat /\ b \in Nat /\ IF a > MaxFileBytes THEN b > MaxFileBytes ELSE a = b
    BY <1>7
  <2>. HIDE DEF a, b
  <2>2. a > MaxFileBytes <=> ~(b <= MaxFileBytes)
    BY <1>1, <2>1
  <2>. QED  BY <2>2 DEF a, b

\* ---- the text of a diff ----------------------------------------------------

Raws == {Raw(n) : n \in Names \cup {DevNull, HeadOfName, TailOfName}}
Starts == {"git", "hunk", "index", "new mode", "deleted mode", "rename from", "rename to",
           "minus", "plus", "binary", " ", "+", "-", "\\"}
Written == [starts : Starts, names : Seq(Raws), body : Bodies \cup {Nothing}]
Stretch == Seq(Written)

\* What git writes is a line.
LEMMA LineType ==
  ASSUME NEW s \in Starts
  PROVE  /\ Line(s, <<>>) \in Written
         /\ \A n \in Names \cup {DevNull, HeadOfName, TailOfName} : Line(s, <<n>>) \in Written
         /\ \A n, m \in Names \cup {DevNull, HeadOfName, TailOfName} : Line(s, <<n, m>>) \in Written
         /\ \A b \in Bodies : HunkLine(b) \in Written
<1> DEFINE All == Names \cup {DevNull, HeadOfName, TailOfName}
<1>1. ASSUME NEW ns \in Seq(All) PROVE Line(s, ns) \in Written
  <2>1. \A i \in DOMAIN ns : Raw(ns[i]) \in Raws
    BY DEF Raws
  <2>2. [i \in DOMAIN ns |-> Raw(ns[i])] \in Seq(Raws)
    BY <2>1
  <2>. QED  BY <2>2 DEF Line, Written
<1>2. ASSUME NEW b \in Bodies PROVE HunkLine(b) \in Written
  <2>1. Line("hunk", <<>>) \in Written
    <3>1. [i \in DOMAIN <<>> |-> Raw(<<>>[i])] \in Seq(Raws)
      OBVIOUS
    <3>. QED  BY <3>1 DEF Line, Written, Starts
  <2>. QED  BY <2>1 DEF HunkLine, Written
<1>3. <<>> \in Seq(All) /\ (\A n \in All : <<n>> \in Seq(All)) /\ \A n, m \in All : <<n, m>> \in Seq(All)
  OBVIOUS
<1>. QED  BY <1>1, <1>2, <1>3

\* Each line of a header is all that stands between two newlines.
LEMMA StretchesType ==
  ASSUME NEW ls \in Seq(Written)
  PROVE  Stretches(ls) \in Seq(Stretch) /\ Len(Stretches(ls)) = Len(ls)
<1>1. \A i \in DOMAIN ls : <<ls[i]>> \in Stretch
  BY DEF Stretch
<1>. QED  BY <1>1 DEF Stretches

\* How a line of a body starts for the reading.
StartsOf(l) == CASE l.text = "signs" /\ l.sign = "-" -> "minus"
                 [] l.text = "signs" /\ l.sign = "+" -> "plus"
                 [] OTHER -> l.sign
\* A line of a body never looks like the header of a file or of a hunk.
LEMMA BodyIs ==
  ASSUME NEW b \in Bodies
  PROVE  /\ b.lines \in Seq(BodyText) /\ Len(b.lines) \in Nat
         /\ BodyStretches(b) \in Seq(Stretch) /\ Len(BodyStretches(b)) = Len(b.lines)
         /\ \A i \in 1..Len(b.lines) :
               /\ BodyStretches(b)[i][1] = Line(StartsOf(b.lines[i]), <<>>)
               /\ StartsOf(b.lines[i]) \notin {"git", "hunk"}
               /\ SignOf(StartsOf(b.lines[i])) = b.lines[i].sign
<1>1. b.lines \in Seq(BodyText) /\ DOMAIN b.lines = 1..Len(b.lines) /\ Len(b.lines) \in Nat
  BY DiffTextAssumption
<1>2. ASSUME NEW i \in 1..Len(b.lines)
      PROVE  /\ StartsOf(b.lines[i]) \in Starts \ {"git", "hunk"}
             /\ SignOf(StartsOf(b.lines[i])) = b.lines[i].sign
  <2>1. b.lines[i] \in BodyText
    BY <1>1
  <2>. QED  BY <2>1 DEF StartsOf, SignOf, Starts, BodyText
<1> DEFINE Cut(i) == IF b.lines[i].text = "broken" THEN <<Line("git", <<HeadOfName, TailOfName>>)>> ELSE <<>>
           First(i) == <<Line(StartsOf(b.lines[i]), <<>>)>>
<1>3. BodyStretches(b) = [i \in 1..Len(b.lines) |-> First(i) \o Cut(i)]
  BY <1>1 DEF BodyStretches, StartsOf
<1>4. ASSUME NEW i \in 1..Len(b.lines)
      PROVE  First(i) \o Cut(i) \in Stretch /\ (First(i) \o Cut(i))[1] = Line(StartsOf(b.lines[i]), <<>>)
  <2>1. Line(StartsOf(b.lines[i]), <<>>) \in Written
    BY <1>2, LineType
  <2>2. Cut(i) \in Seq(Written)
    <3>1. "git" \in Starts /\ {HeadOfName, TailOfName} \subseteq Names \cup {DevNull, HeadOfName, TailOfName}
      BY DEF Starts
    <3>2. Line("git", <<HeadOfName, TailOfName>>) \in Written
      BY <3>1, LineType
    <3>. QED  BY <3>2
  <2> DEFINE x == Line(StartsOf(b.lines[i]), <<>>)
             c == Cut(i)
  <2>. HIDE DEF x, c
  <2>3. x \in Written /\ c \in Seq(Written)
    BY <2>1, <2>2 DEF x, c
  <2>4. <<x>> \o c \in Seq(Written) /\ (<<x>> \o c)[1] = x
    BY <2>3
  <2>. QED  BY <2>4 DEF x, c, Stretch
<1> DEFINE t(i) == First(i) \o Cut(i)
<1>. HIDE DEF First, Cut
<1>5. BodyStretches(b) = [i \in 1..Len(b.lines) |-> t(i)] /\ \A i \in 1..Len(b.lines) : t(i) \in Stretch
  BY <1>3, <1>4
<1>. HIDE DEF t
<1>6. BodyStretches(b) \in Seq(Stretch) /\ Len(BodyStretches(b)) = Len(b.lines)
      /\ \A i \in 1..Len(b.lines) : BodyStretches(b)[i] = t(i)
  BY <1>1, <1>5
<1>. QED  BY <1>1, <1>2, <1>4, <1>6 DEF t

\* The text of a patch from its hunk h on, and of a diff from its patch k on.
HunkTexts(p) == [i \in DOMAIN p.hunks |-> HunkStretches(p.hunks[i])]
Texts(d) == [i \in DOMAIN d |-> PatchStretches(d[i])]
HunksFrom(p, h) == Rests(HunkTexts(p))[h]
TextFrom(d, k) == Rests(Texts(d))[k]

\* A hunk is its header and its body.
LEMMA HunkIs ==
  ASSUME NEW b \in Bodies
  PROVE  /\ BodyStretches(b) \in Seq(Stretch) /\ <<HunkLine(b)>> \in Stretch
         /\ HunkStretches(b) = << <<HunkLine(b)>> >> \o BodyStretches(b) /\ HunkStretches(b) \in Seq(Stretch)
<1>1. HunkLine(b) \in Written
  <2>1. "hunk" \in Starts
    BY DEF Starts
  <2>. QED  BY <2>1, LineType
<1>2. <<HunkLine(b)>> \in Stretch /\ BodyStretches(b) \in Seq(Stretch)
  BY <1>1, BodyIs DEF Stretch
<1> DEFINE x == <<HunkLine(b)>>
           r == BodyStretches(b)
<1>3. x \in Stretch /\ r \in Seq(Stretch) /\ HunkStretches(b) = <<x>> \o r
  BY <1>2 DEF HunkStretches
<1>. HIDE DEF x, r
<1>4. <<x>> \o r \in Seq(Stretch)
  BY <1>3
<1>. QED  BY <1>2, <1>3, <1>4 DEF x, r

\* The text of a patch from a hunk on.
LEMMA HunksFromIs ==
  ASSUME NEW p \in Patch
  PROVE  /\ Len(p.hunks) \in Nat /\ DOMAIN p.hunks = 1..Len(p.hunks) /\ \A i \in 1..Len(p.hunks) : p.hunks[i] \in Bodies
         /\ \A h \in 1..(Len(p.hunks) + 1) : HunksFrom(p, h) \in Seq(Stretch)
         /\ \A h \in 1..Len(p.hunks) : HunksFrom(p, h) = HunkStretches(p.hunks[h]) \o HunksFrom(p, h + 1)
         /\ HunksFrom(p, Len(p.hunks) + 1) = <<>>
         /\ HunksFrom(p, 1) = Joined([i \in DOMAIN p.hunks |-> HunkStretches(p.hunks[i])])
<1> DEFINE t == HunkTexts(p)
           n == Len(p.hunks)
<1>1. p.hunks \in Seq(Bodies)
  BY DEF Patch
<1>2. n \in Nat /\ DOMAIN p.hunks = 1..n /\ \A i \in 1..n : p.hunks[i] \in Bodies
  BY <1>1
<1>3. t = [i \in 1..n |-> HunkStretches(p.hunks[i])]
  BY <1>2 DEF HunkTexts
<1>. HIDE DEF n
<1>4. Len(t) = n /\ \A i \in 1..n : t[i] = HunkStretches(p.hunks[i])
  BY <1>2, <1>3
<1>5. \A i \in 1..n : t[i] \in Seq(Stretch)
  BY <1>2, <1>4, HunkIs
<1>. HIDE DEF t
<1>6. \A h \in 1..(n + 1) : Rests(t)[h] \in Seq(Stretch)
  BY <1>2, <1>4, <1>5, RestsType
<1>7. \A h \in 1..(n + 1) : Rests(t)[h] = IF h > n THEN <<>> ELSE t[h] \o Rests(t)[h + 1]
  BY <1>2, <1>4, RestsAre
<1>8. (\A h \in 1..n : Rests(t)[h] = t[h] \o Rests(t)[h + 1]) /\ Rests(t)[n + 1] = <<>>
  <2>1. \A h \in 1..n : h \in 1..(n + 1) /\ ~(h > n)
    BY <1>2
  <2>2. n + 1 \in 1..(n + 1) /\ n + 1 > n
    BY <1>2
  <2>3. ASSUME NEW h \in 1..n PROVE Rests(t)[h] = t[h] \o Rests(t)[h + 1]
    BY <1>7, <2>1
  <2>4. Rests(t)[n + 1] = <<>>
    BY <1>7, <2>2
  <2>. QED  BY <2>3, <2>4
<1>. QED  BY <1>2, <1>4, <1>6, <1>8 DEF n, t, HunksFrom, Joined, HunkTexts

\* The header of a patch is made of lines.
LEMMA HeaderType ==
  ASSUME NEW p \in Patch
  PROVE  /\ ModeLines(p) \in Seq(Written) /\ ContentLines(p) \in Seq(Written)
         /\ Line("git", <<p.old, p.new>>) \in Written /\ Line("index", <<>>) \in Written
         /\ Header(p) \in Seq(Written)
<1> DEFINE All == Names \cup {DevNull, HeadOfName, TailOfName}
<1>1. p.old \in All /\ p.new \in All /\ DevNull \in All
  BY DEF Patch
<1>2. \A s \in Starts : Line(s, <<>>) \in Written /\ (\A x \in All : Line(s, <<x>>) \in Written)
                        /\ \A x, y \in All : Line(s, <<x, y>>) \in Written
  BY LineType
<1>3. {"git", "index", "new mode", "deleted mode", "rename from", "rename to", "minus", "plus", "binary"} \subseteq Starts
  BY DEF Starts
<1>4. /\ Line("git", <<p.old, p.new>>) \in Written /\ Line("index", <<>>) \in Written
      /\ Line("new mode", <<>>) \in Written /\ Line("deleted mode", <<>>) \in Written
      /\ Line("rename from", <<p.old>>) \in Written /\ Line("rename to", <<p.new>>) \in Written
      /\ Line("binary", <<>>) \in Written
  BY <1>1, <1>2, <1>3
<1>5. /\ Line("minus", <<IF p.change = "added" THEN DevNull ELSE p.old>>) \in Written
      /\ Line("plus", <<IF p.change = "deleted" THEN DevNull ELSE p.new>>) \in Written
  BY <1>1, <1>2, <1>3
<1>6. ModeLines(p) \in Seq(Written)
  <2> DEFINE m1 == Line("new mode", <<>>)
             m2 == Line("deleted mode", <<>>)
             m3 == Line("rename from", <<p.old>>)
             m4 == Line("rename to", <<p.new>>)
  <2>1. ModeLines(p) = CASE p.change = "added" -> <<m1>> [] p.change = "deleted" -> <<m2>>
                         [] p.change = "renamed" -> <<m3, m4>> [] OTHER -> <<>>
    BY DEF ModeLines
  <2>2. m1 \in Written /\ m2 \in Written /\ m3 \in Written /\ m4 \in Written
    BY <1>4
  <2>. HIDE DEF m1, m2, m3, m4
  <2>3. <<m1>> \in Seq(Written) /\ <<m2>> \in Seq(Written) /\ <<m3, m4>> \in Seq(Written) /\ <<>> \in Seq(Written)
    BY <2>2
  <2>. QED  BY <2>1, <2>3
<1>7. ContentLines(p) \in Seq(Written)
  <2> DEFINE c1 == Line("minus", <<IF p.change = "added" THEN DevNull ELSE p.old>>)
             c2 == Line("plus", <<IF p.change = "deleted" THEN DevNull ELSE p.new>>)
             c3 == Line("binary", <<>>)
  <2>1. ContentLines(p) = CASE p.content = "text" -> <<c1, c2>> [] p.content = "binary" -> <<c3>> [] OTHER -> <<>>
    BY DEF ContentLines
  <2>2. c1 \in Written /\ c2 \in Written /\ c3 \in Written
    BY <1>4, <1>5
  <2>. HIDE DEF c1, c2, c3
  <2>3. <<c1, c2>> \in Seq(Written) /\ <<c3>> \in Seq(Written) /\ <<>> \in Seq(Written)
    BY <2>2
  <2>. QED  BY <2>1, <2>3
<1> DEFINE a == Line("git", <<p.old, p.new>>)
           m == ModeLines(p)
           x == Line("index", <<>>)
           c == ContentLines(p)
<1>8. Header(p) = <<a>> \o m \o <<x>> \o c
  BY DEF Header
<1>9. a \in Written /\ x \in Written /\ m \in Seq(Written) /\ c \in Seq(Written)
  BY <1>4, <1>6, <1>7
<1>. HIDE DEF a, m, x, c
<1>10. Header(p) \in Seq(Written)
  BY <1>8, <1>9
<1>. QED  BY <1>4, <1>6, <1>7, <1>10

\* The text of a diff from a patch on.
LEMMA TextFromIs ==
  ASSUME NEW d \in Seq(Patch)
  PROVE  /\ \A k \in 1..(Len(d) + 1) : TextFrom(d, k) \in Seq(Stretch)
         /\ \A k \in 1..Len(d) : TextFrom(d, k) = (Stretches(Header(d[k])) \o HunksFrom(d[k], 1)) \o TextFrom(d, k + 1)
         /\ TextFrom(d, Len(d) + 1) = <<>>
         /\ TextFrom(d, 1) = Joined([i \in DOMAIN d |-> PatchStretches(d[i])])
<1> DEFINE t == Texts(d)
           n == Len(d)
<1>1. n \in Nat /\ DOMAIN d = 1..n /\ \A i \in 1..n : d[i] \in Patch
  OBVIOUS
<1>2. t = [i \in 1..n |-> PatchStretches(d[i])]
  BY <1>1 DEF Texts
<1>. HIDE DEF n
<1>3. Len(t) = n /\ \A i \in 1..n : t[i] = PatchStretches(d[i])
  BY <1>1, <1>2
<1>4. \A i \in 1..n : PatchStretches(d[i]) = Stretches(Header(d[i])) \o HunksFrom(d[i], 1)
  BY <1>1, HunksFromIs DEF PatchStretches
<1>5. ASSUME NEW i \in 1..n PROVE t[i] \in Seq(Stretch)
  <2>1. Header(d[i]) \in Seq(Written)
    BY <1>1, HeaderType
  <2>2. Stretches(Header(d[i])) \in Seq(Stretch)
    BY <2>1, StretchesType
  <2>3. HunksFrom(d[i], 1) \in Seq(Stretch)
    <3>1. d[i] \in Patch /\ 1 \in 1..(Len(d[i].hunks) + 1)
      BY <1>1, HunksFromIs
    <3>. QED  BY <3>1, HunksFromIs
  <2> DEFINE a == Stretches(Header(d[i]))
             b == HunksFrom(d[i], 1)
  <2>4. t[i] = a \o b /\ a \in Seq(Stretch) /\ b \in Seq(Stretch)
    BY <1>3, <1>4, <2>2, <2>3
  <2>. HIDE DEF a, b, t
  <2>. QED  BY <2>4
<1>. HIDE DEF t
<1>6. \A h \in 1..(n + 1) : Rests(t)[h] \in Seq(Stretch)
  BY <1>1, <1>3, <1>5, RestsType
<1>7. \A h \in 1..(n + 1) : Rests(t)[h] = IF h > n THEN <<>> ELSE t[h] \o Rests(t)[h + 1]
  BY <1>1, <1>3, RestsAre
<1>8. (\A h \in 1..n : Rests(t)[h] = t[h] \o Rests(t)[h + 1]) /\ Rests(t)[n + 1] = <<>>
  <2>1. \A h \in 1..n : h \in 1..(n + 1) /\ ~(h > n)
    BY <1>1
  <2>2. n + 1 \in 1..(n + 1) /\ n + 1 > n
    BY <1>1
  <2>3. ASSUME NEW h \in 1..n PROVE Rests(t)[h] = t[h] \o Rests(t)[h + 1]
    BY <1>7, <2>1
  <2>4. Rests(t)[n + 1] = <<>>
    BY <1>7, <2>2
  <2>. QED  BY <2>3, <2>4
<1>. QED  BY <1>1, <1>3, <1>4, <1>6, <1>8 DEF n, t, TextFrom, Joined, Texts

\* The first line of the text, and the text behind it.
LEMMA Consumed ==
  ASSUME NEW x \in Stretch, NEW u \in Seq(Stretch), NEW s, s = SplitLines(<<x>> \o u)
  PROVE  s # <<>> /\ Head(s) = x[1] /\ Tail(s) = SplitLines(u)
<1> DEFINE w == <<x>> \o u
<1>1. w \in Seq(Stretch) /\ Len(w) = Len(u) + 1 /\ w[1] = x /\ \A i \in 1..Len(u) : w[i + 1] = u[i]
  OBVIOUS
<1>2. Len(u) \in Nat /\ DOMAIN w = 1..(Len(u) + 1) /\ DOMAIN u = 1..Len(u)
  BY <1>1
<1>. HIDE DEF w
<1>3. s = [i \in 1..(Len(u) + 1) |-> w[i][1]]
  BY <1>1, <1>2 DEF SplitLines, w
<1>4. Len(s) = Len(u) + 1 /\ s[1] = x[1] /\ \A i \in 1..Len(u) : s[i + 1] = u[i][1]
  BY <1>1, <1>2, <1>3
<1>5. SplitLines(u) = [i \in 1..Len(u) |-> u[i][1]]
  BY <1>2 DEF SplitLines
<1> DEFINE X == {w[i][1] : i \in 1..(Len(u) + 1)}
<1>6. s \in Seq(X)
  <2>1. \A i \in 1..(Len(u) + 1) : w[i][1] \in X
    OBVIOUS
  <2>. HIDE DEF X
  <2>. QED  BY <1>2, <1>3, <2>1
<1>. HIDE DEF X
<1>7. s # <<>> /\ Head(s) = s[1] /\ Tail(s) = [i \in 1..Len(u) |-> s[i + 1]]
  BY <1>2, <1>4, <1>6
<1>. QED  BY <1>4, <1>5, <1>7

\* At its end the text has no line.
LEMMA NothingLeft == SplitLines(<<>>) = <<>>
BY DEF SplitLines

\* ---- where the reading stands ------------------------------------------------

\* What the lines of the header say, up to where the reading stands.
Cut(p) == PathsFromGitHeader(Line("git", <<p.old, p.new>>).names)
OldName(p) == IF p.change = "added" THEN Nothing ELSE p.old
NewName(p) == IF p.change = "deleted" THEN Nothing ELSE p.new
FileOf(a, b, minus, plus, from, to, binary, deleted, added) ==
    [a |-> a, b |-> b, minus |-> minus, plus |-> plus, from |-> from, to |-> to,
     binary |-> binary, deleted |-> deleted, added |-> added, hunks |-> <<>>]
HeaderFile(p, st) ==
    FileOf(Cut(p)[1], Cut(p)[2],
           IF p.content = "text" /\ st \in {"plus", "hunks"} THEN OldName(p) ELSE Nothing,
           IF p.content = "text" /\ st = "hunks" THEN NewName(p) ELSE Nothing,
           IF p.change = "renamed" /\ st # "mode" THEN p.old ELSE Nothing,
           IF p.change = "renamed" /\ st \notin {"mode", "to"} THEN p.new ELSE Nothing,
           p.content = "binary" /\ st = "hunks",
           p.change = "deleted" /\ st # "mode", p.change = "added" /\ st # "mode")
PathOf(p) == LET f == HeaderFile(p, "hunks")
             IN Or(f.plus, Or(f.to, Or(f.b, Or(f.minus, f.a))))

\* The first h hunks, and l lines of the last of them.
HunkRead(p, h, l) ==
    [path |-> PathOf(p), signs |-> [x \in 1..l |-> p.hunks[h].lines[x].sign],
     chars |-> p.hunks[h].chars, bytes |-> p.hunks[h].bytes]
BodyLength(p, h) == IF h = 0 THEN 0 ELSE Len(p.hunks[h].lines)
HunksRead(p, h, l) == [j \in 1..h |-> HunkRead(p, j, IF j < h THEN BodyLength(p, j) ELSE l)]
FileRead(p, h, l) == [HeaderFile(p, "hunks") EXCEPT !.hunks = HunksRead(p, h, l)]
WholeFile(p) == FileRead(p, Len(p.hunks), BodyLength(p, Len(p.hunks)))

\* The line that comes next in a header, and where it leads.
AfterMode(p) == IF p.content = "none" THEN "hunks" ELSE "content"
Ahead(p, st) ==
    CASE st = "mode" /\ p.change = "added" -> [line |-> Line("new mode", <<>>), next |-> "index"]
      [] st = "mode" /\ p.change = "deleted" -> [line |-> Line("deleted mode", <<>>), next |-> "index"]
      [] st = "mode" /\ p.change = "renamed" -> [line |-> Line("rename from", <<p.old>>), next |-> "to"]
      [] st = "to" -> [line |-> Line("rename to", <<p.new>>), next |-> "index"]
      [] st = "index" -> [line |-> Line("index", <<>>), next |-> AfterMode(p)]
      [] st = "content" /\ p.content = "text" ->
             [line |-> Line("minus", <<IF p.change = "added" THEN DevNull ELSE p.old>>), next |-> "plus"]
      [] st = "content" /\ p.content = "binary" -> [line |-> Line("binary", <<>>), next |-> "hunks"]
      [] OTHER -> [line |-> Line("plus", <<IF p.change = "deleted" THEN DevNull ELSE p.new>>), next |-> "hunks"]
Due(p, st) ==
    \/ st = "mode" /\ p.change # "modified"
    \/ st = "to" /\ p.change = "renamed"
    \/ st = "index"
    \/ st = "content" /\ p.content # "none"
    \/ st = "plus" /\ p.content = "text"
HeaderRest(p, st) ==
    CASE st = "mode" -> ModeLines(p) \o (<<Line("index", <<>>)>> \o ContentLines(p))
      [] st = "to" -> <<Line("rename to", <<p.new>>)>> \o (<<Line("index", <<>>)>> \o ContentLines(p))
      [] st = "index" -> <<Line("index", <<>>)>> \o ContentLines(p)
      [] st = "content" -> ContentLines(p)
      [] st = "plus" -> <<Line("plus", <<IF p.change = "deleted" THEN DevNull ELSE p.new>>)>>
      [] OTHER -> <<>>

\* Two lines are one line and another.
LEMMA Pairs ==
  ASSUME NEW S, NEW x \in S, NEW y \in S
  PROVE  <<x, y>> = <<x>> \o <<y>>
<1>1. <<x, y>> \in Seq(S) /\ <<x>> \in Seq(S) /\ <<y>> \in Seq(S)
  OBVIOUS
<1>2. <<x>> \o <<y>> \in Seq(S) /\ Len(<<x>> \o <<y>>) = 2
      /\ (<<x>> \o <<y>>)[1] = x /\ (<<x>> \o <<y>>)[2] = y
  BY <1>1
<1>3. <<x, y>> = <<x>> \o <<y>>
  <2> DEFINE a == <<x, y>>
             b == <<x>> \o <<y>>
  <2>1. a \in Seq(S) /\ b \in Seq(S) /\ Len(a) = 2 /\ Len(b) = 2 /\ a[1] = b[1] /\ a[2] = b[2]
    BY <1>1, <1>2
  <2>2. \A i \in 1..Len(a) : i = 1 \/ i = 2
    BY <2>1
  <2>. HIDE DEF a, b
  <2>3. a = b
    BY <2>1, <2>2, SeqEqual
  <2>. QED  BY <2>3, Zenon DEF a, b
<1>. QED  BY <1>3

\* What is left of a header is the line that comes next, and what is left behind it.
LEMMA HeaderGoesOn ==
  ASSUME NEW p \in Patch, NEW st, Due(p, st)
  PROVE  /\ HeaderRest(p, st) = <<Ahead(p, st).line>> \o HeaderRest(p, Ahead(p, st).next)
         /\ Ahead(p, st).line \in Written /\ HeaderRest(p, Ahead(p, st).next) \in Seq(Written)
         /\ Due(p, Ahead(p, st).next) \/ Ahead(p, st).next = "hunks"
<1> DEFINE All == Names \cup {DevNull, HeadOfName, TailOfName}
           x == Line("index", <<>>)
           m1 == Line("new mode", <<>>)
           m2 == Line("deleted mode", <<>>)
           m3 == Line("rename from", <<p.old>>)
           m4 == Line("rename to", <<p.new>>)
           c1 == Line("minus", <<IF p.change = "added" THEN DevNull ELSE p.old>>)
           c2 == Line("plus", <<IF p.change = "deleted" THEN DevNull ELSE p.new>>)
           c3 == Line("binary", <<>>)
<1>1. x \in Written /\ m1 \in Written /\ m2 \in Written /\ m3 \in Written /\ m4 \in Written
      /\ c1 \in Written /\ c2 \in Written /\ c3 \in Written
  <2>1. p.old \in All /\ p.new \in All /\ DevNull \in All
    BY DEF Patch
  <2>2. {"index", "new mode", "deleted mode", "rename from", "rename to", "minus", "plus", "binary"} \subseteq Starts
    BY DEF Starts
  <2>3. \A s \in Starts : Line(s, <<>>) \in Written /\ \A n \in All : Line(s, <<n>>) \in Written
    BY LineType
  <2>4. (IF p.change = "added" THEN DevNull ELSE p.old) \in All /\ (IF p.change = "deleted" THEN DevNull ELSE p.new) \in All
    BY <2>1
  <2>. QED  BY <2>1, <2>2, <2>3, <2>4
<1>2. p.change \in {"modified", "added", "deleted", "renamed"} /\ p.content \in {"text", "binary", "none"}
  BY DEF Patch, Changes_
<1>3. ContentLines(p) = CASE p.content = "text" -> <<c1, c2>> [] p.content = "binary" -> <<c3>> [] OTHER -> <<>>
  BY DEF ContentLines
<1>4. ModeLines(p) = CASE p.change = "added" -> <<m1>> [] p.change = "deleted" -> <<m2>>
                       [] p.change = "renamed" -> <<m3, m4>> [] OTHER -> <<>>
  BY DEF ModeLines
<1> DEFINE Rest(s) == CASE s = "mode" -> ModeLines(p) \o (<<x>> \o ContentLines(p))
                        [] s = "to" -> <<m4>> \o (<<x>> \o ContentLines(p))
                        [] s = "index" -> <<x>> \o ContentLines(p)
                        [] s = "content" -> ContentLines(p)
                        [] s = "plus" -> <<c2>>
                        [] OTHER -> <<>>
           Next_ == CASE st = "mode" /\ p.change = "added" -> [line |-> m1, next |-> "index"]
                      [] st = "mode" /\ p.change = "deleted" -> [line |-> m2, next |-> "index"]
                      [] st = "mode" /\ p.change = "renamed" -> [line |-> m3, next |-> "to"]
                      [] st = "to" -> [line |-> m4, next |-> "index"]
                      [] st = "index" -> [line |-> x, next |-> AfterMode(p)]
                      [] st = "content" /\ p.content = "text" -> [line |-> c1, next |-> "plus"]
                      [] st = "content" /\ p.content = "binary" -> [line |-> c3, next |-> "hunks"]
                      [] OTHER -> [line |-> c2, next |-> "hunks"]
<1>5. Ahead(p, st) = Next_ /\ HeaderRest(p, st) = Rest(st) /\ \A s : HeaderRest(p, s) = Rest(s)
  BY DEF Ahead, HeaderRest
<1>. HIDE DEF x, m1, m2, m3, m4, c1, c2, c3
<1>6. ContentLines(p) \in Seq(Written)
  BY <1>1, <1>3
<1>20. ASSUME NEW l \in Written, NEW s, Next_ = [line |-> l, next |-> s], Rest(st) = <<l>> \o Rest(s),
             Rest(s) \in Seq(Written), Due(p, s) \/ s = "hunks"
      PROVE  /\ HeaderRest(p, st) = <<Ahead(p, st).line>> \o HeaderRest(p, Ahead(p, st).next)
             /\ Ahead(p, st).line \in Written /\ HeaderRest(p, Ahead(p, st).next) \in Seq(Written)
             /\ Due(p, Ahead(p, st).next) \/ Ahead(p, st).next = "hunks"
  <2>1. Ahead(p, st).line = l /\ Ahead(p, st).next = s
    <3>. HIDE DEF Next_
    <3>. QED  BY <1>5, <1>20
  <2>2. HeaderRest(p, st) = Rest(st) /\ HeaderRest(p, s) = Rest(s)
    <3>. HIDE DEF Rest
    <3>. QED  BY <1>5
  <2>. HIDE DEF Rest, Next_
  <2>. QED  BY <1>20, <2>1, <2>2
<1>7. CASE st = "mode"
  <2>1. CASE p.change = "renamed"
    <3>1. Next_ = [line |-> m3, next |-> "to"] /\ ModeLines(p) = <<m3, m4>>
      BY <1>2, <1>4, <1>7, <2>1
    <3> DEFINE u == <<x>> \o ContentLines(p)
    <3>2. Rest("mode") = ModeLines(p) \o u /\ Rest("to") = <<m4>> \o u
      OBVIOUS
    <3>3. u \in Seq(Written)
      BY <1>1, <1>6
    <3>. HIDE DEF u, Rest, Next_
    <3> DEFINE a == <<m3>>
               b == <<m4>>
               ab == <<m3, m4>>
    <3>4. a \in Seq(Written) /\ b \in Seq(Written) /\ ab = a \o b
      <4>1. <<>> \in Seq(Written) /\ a \in Seq(Written) /\ b \in Seq(Written)
        BY <1>1
      <4>. QED  BY <1>1, <4>1, Pairs
    <3>5. Rest("mode") = ab \o u /\ Rest("to") = b \o u
      BY <3>1, <3>2, Zenon
    <3>. HIDE DEF a, b, ab
    <3>7. Rest("mode") = a \o Rest("to") /\ Rest("to") \in Seq(Written)
      <4>1. (a \o b) \o u = a \o (b \o u)
        BY <3>3, <3>4, ConcatAssociative
      <4>2. b \o u \in Seq(Written)
        BY <3>3, <3>4, ConcatProperties
      <4>. QED  BY <3>4, <3>5, <4>1, <4>2, Zenon
    <3>6. Due(p, "to")
      BY <2>1 DEF Due
    <3>. QED  BY <1>1, <1>20, <1>7, <3>1, <3>6, <3>7 DEF a
  <2>2. CASE p.change = "added"
    <3>1. Next_ = [line |-> m1, next |-> "index"] /\ ModeLines(p) = <<m1>>
      BY <1>2, <1>4, <1>7, <2>2
    <3>2. Rest("mode") = <<m1>> \o (<<x>> \o ContentLines(p)) /\ Rest("index") = <<x>> \o ContentLines(p)
      BY <3>1
    <3>3. <<x>> \o ContentLines(p) \in Seq(Written)
      BY <1>1, <1>6
    <3>. HIDE DEF Rest, Next_
    <3>. QED  BY <1>1, <1>5, <1>20, <1>7, <3>1, <3>2, <3>3 DEF Due
  <2>3. CASE p.change = "deleted"
    <3>1. Next_ = [line |-> m2, next |-> "index"] /\ ModeLines(p) = <<m2>>
      BY <1>2, <1>4, <1>7, <2>3
    <3>2. Rest("mode") = <<m2>> \o (<<x>> \o ContentLines(p)) /\ Rest("index") = <<x>> \o ContentLines(p)
      BY <3>1
    <3>3. <<x>> \o ContentLines(p) \in Seq(Written)
      BY <1>1, <1>6
    <3>. HIDE DEF Rest, Next_
    <3>. QED  BY <1>1, <1>5, <1>20, <1>7, <3>1, <3>2, <3>3 DEF Due
  <2>. QED  BY <1>2, <1>7, <2>1, <2>2, <2>3 DEF Due
<1>8. CASE st = "to"
  <2>1. Next_ = [line |-> m4, next |-> "index"] /\ Rest("to") = <<m4>> \o Rest("index") /\ Rest("index") = <<x>> \o ContentLines(p)
    BY <1>8
  <2>2. <<x>> \o ContentLines(p) \in Seq(Written)
    BY <1>1, <1>6
  <2>. HIDE DEF Rest, Next_
  <2>. QED  BY <1>1, <1>5, <1>20, <1>8, <2>1, <2>2 DEF Due
<1>9. CASE st = "index"
  <2>1. Next_ = [line |-> x, next |-> AfterMode(p)] /\ Rest("index") = <<x>> \o ContentLines(p)
    BY <1>9
  <2>2. Rest(AfterMode(p)) = ContentLines(p) /\ (Due(p, AfterMode(p)) \/ AfterMode(p) = "hunks")
    BY <1>2, <1>3 DEF AfterMode, Due
  <2>. HIDE DEF Rest, Next_
  <2>. QED  BY <1>1, <1>5, <1>20, <1>6, <1>9, <2>1, <2>2
<1>10. CASE st = "content"
  <2>1. CASE p.content = "text"
    <3>1. Next_ = [line |-> c1, next |-> "plus"] /\ Rest("content") = <<c1, c2>> /\ Rest("plus") = <<c2>>
      BY <1>3, <1>10, <2>1
    <3>2. <<c1, c2>> = <<c1>> \o <<c2>> /\ <<c2>> \in Seq(Written)
      <4>1. <<>> \in Seq(Written) /\ <<c2>> \in Seq(Written)
        BY <1>1
      <4>. QED  BY <1>1, <4>1, Pairs
    <3>. HIDE DEF Rest, Next_
    <3>. QED  BY <1>1, <1>5, <1>20, <1>10, <2>1, <3>1, <3>2 DEF Due
  <2>2. CASE p.content = "binary"
    <3>1. Next_ = [line |-> c3, next |-> "hunks"] /\ Rest("content") = <<c3>> /\ Rest("hunks") = <<>>
      BY <1>3, <1>10, <2>2
    <3>2. <<c3>> = <<c3>> \o <<>> /\ <<>> \in Seq(Written)
      BY <1>1
    <3>. HIDE DEF Rest, Next_
    <3>. QED  BY <1>1, <1>5, <1>20, <1>10, <3>1, <3>2
  <2>. QED  BY <1>2, <1>10, <2>1, <2>2 DEF Due
<1>11. CASE st = "plus"
  <2>1. Next_ = [line |-> c2, next |-> "hunks"] /\ Rest("plus") = <<c2>> /\ Rest("hunks") = <<>>
    BY <1>11
  <2>2. <<c2>> = <<c2>> \o <<>> /\ <<>> \in Seq(Written)
    BY <1>1
  <2>. HIDE DEF Rest, Next_
  <2>. QED  BY <1>1, <1>5, <1>20, <1>11, <2>1, <2>2
<1>. QED  BY <1>7, <1>8, <1>9, <1>10, <1>11 DEF Due

\* How the line that is read starts.
Begins == Head(lines).starts
\* A turn of the reading is told by how the line starts, or by the hunk it stands in.
LEMMA Guards ==
  /\ GiveDiff => patches = <<>>
  /\ EndDiff => lines = <<>> /\ reviewed = Unfiltered
  /\ StartFile => lines # <<>> /\ Begins = "git"
  /\ StartHunk => lines # <<>> /\ Begins = "hunk"
  /\ BodyLine => InHunk /\ lines # <<>> /\ Begins \notin {"git", "hunk"}
  /\ MinusLine => lines # <<>> /\ Begins = "minus" /\ BeforeHunks
  /\ PlusLine => lines # <<>> /\ Begins = "plus" /\ BeforeHunks
  /\ ModeLine => lines # <<>> /\ Begins \in {"new mode", "deleted mode"} /\ BeforeHunks
  /\ RenameLine => lines # <<>> /\ Begins \in {"rename from", "rename to"} /\ BeforeHunks
  /\ BinaryLine => lines # <<>> /\ Begins = "binary" /\ BeforeHunks
  /\ OtherLine => lines # <<>> /\ Begins = "index" /\ BeforeHunks
BY DEF GiveDiff, EndDiff, StartFile, StartHunk, BodyLine, MinusLine, PlusLine, ModeLine, RenameLine,
       BinaryLine, OtherLine, Reads, Begins

\* Before the first hunk of a file the start of the line alone tells the turn.
LEMMA HeaderTurn ==
  ASSUME TextNext, patches # <<>>, lines # <<>>, NEW f, file = <<f>>, f.hunks = <<>>
  PROVE  /\ Begins = "git" => StartFile
         /\ Begins = "hunk" => StartHunk
         /\ Begins = "minus" => MinusLine
         /\ Begins = "plus" => PlusLine
         /\ Begins \in {"new mode", "deleted mode"} => ModeLine
         /\ Begins \in {"rename from", "rename to"} => RenameLine
         /\ Begins = "binary" => BinaryLine
         /\ Begins = "index" => OtherLine
<1>1. ~InHunk
  BY DEF InHunk
<1>. QED  BY <1>1, Guards DEF TextNext

\* A name is read as it was, in quotes or not.
LEMMA NamesAreRead ==
  /\ \A n \in Names : /\ Unquote(Raw(n)) = n /\ PathAfterMarker(Raw(n)) = n
                      /\ n # Nothing /\ Line("git", <<n, n>>).starts = "git"
  /\ PathAfterMarker(Raw(DevNull)) = Nothing
<1>1. Nothing \notin Names /\ DevNull \notin Names /\ QuoteMark \notin Names /\ Quoted \subseteq Names
  BY DiffTextAssumption
<1>2. ASSUME NEW n \in Names PROVE Unquote(Raw(n)) = n /\ PathAfterMarker(Raw(n)) = n
  <2>1. CASE n \in Quoted
    <3>1. Raw(n) = <<QuoteMark, n>>
      BY <2>1 DEF Raw
    <3>2. Raw(n)[1] = QuoteMark /\ Raw(n)[2] = n /\ Raw(n) # <<DevNull>>
      BY <3>1
    <3>. QED  BY <3>2 DEF Unquote, PathAfterMarker
  <2>2. CASE n \notin Quoted
    <3>1. Raw(n) = <<n>>
      BY <2>2 DEF Raw
    <3>2. Raw(n)[1] = n /\ n # QuoteMark /\ Raw(n) # <<DevNull>>
      BY <1>1, <3>1
    <3>. QED  BY <3>2 DEF Unquote, PathAfterMarker
  <2>. QED  BY <2>1, <2>2
<1>3. Raw(DevNull) = <<DevNull>>
  BY <1>1 DEF Raw
<1>. QED  BY <1>1, <1>2, <1>3 DEF PathAfterMarker, Line

\* The parts of a line.
LEMMA LineSays ==
  ASSUME NEW s
  PROVE  /\ Line(s, <<>>).starts = s
         /\ \A n : Line(s, <<n>>).starts = s /\ Line(s, <<n>>).names[1] = Raw(n)
         /\ \A n, m : /\ Line(s, <<n, m>>).starts = s
                      /\ Line(s, <<n, m>>).names[1] = Raw(n) /\ Line(s, <<n, m>>).names[2] = Raw(m)
         /\ \A b : HunkLine(b).starts = "hunk" /\ HunkLine(b).body = b
BY DEF Line, HunkLine

\* A line of a header is read for what it says.
LEMMA HeaderIsRead ==
  ASSUME NEW p \in Patch, NEW st, Due(p, st), TextNext, patches # <<>>, lines # <<>>,
         file = <<HeaderFile(p, st)>>, Head(lines) = Ahead(p, st).line
  PROVE  /\ file' = <<HeaderFile(p, Ahead(p, st).next)>>
         /\ lines' = Tail(lines) /\ UNCHANGED <<patches, files, reviewed>>
<1> DEFINE A == Cut(p)[1]
           B == Cut(p)[2]
           Mi(s) == IF p.content = "text" /\ s \in {"plus", "hunks"} THEN OldName(p) ELSE Nothing
           Pl(s) == IF p.content = "text" /\ s = "hunks" THEN NewName(p) ELSE Nothing
           Fr(s) == IF p.change = "renamed" /\ s # "mode" THEN p.old ELSE Nothing
           To(s) == IF p.change = "renamed" /\ s \notin {"mode", "to"} THEN p.new ELSE Nothing
           Bi(s) == p.content = "binary" /\ s = "hunks"
           De(s) == p.change = "deleted" /\ s # "mode"
           Ad(s) == p.change = "added" /\ s # "mode"
           f == HeaderFile(p, st)
           nx == Ahead(p, st).next
           g == HeaderFile(p, nx)
           l == Ahead(p, st).line
<1>. SUFFICES file' = <<g>> /\ lines' = Tail(lines) /\ UNCHANGED <<patches, files, reviewed>>
  OBVIOUS
<1>1. p.change \in {"modified", "added", "deleted", "renamed"} /\ p.content \in {"text", "binary", "none"}
      /\ p.old \in Names /\ p.new \in Names
  BY DEF Patch, Changes_
<1>2. file = <<f>> /\ file[1] = f /\ f.hunks = <<>>
  BY DEF HeaderFile, FileOf
<1>3. Begins = l.starts
  BY DEF Begins
<1>4. /\ f = FileOf(A, B, Mi(st), Pl(st), Fr(st), To(st), Bi(st), De(st), Ad(st))
      /\ g = FileOf(A, B, Mi(nx), Pl(nx), Fr(nx), To(nx), Bi(nx), De(nx), Ad(nx))
  BY DEF HeaderFile
<1>5. /\ \A v : /\ [f EXCEPT !.added = v] = FileOf(A, B, Mi(st), Pl(st), Fr(st), To(st), Bi(st), De(st), v)
                /\ [f EXCEPT !.deleted = v] = FileOf(A, B, Mi(st), Pl(st), Fr(st), To(st), Bi(st), v, Ad(st))
                /\ [f EXCEPT !.binary = v] = FileOf(A, B, Mi(st), Pl(st), Fr(st), To(st), v, De(st), Ad(st))
                /\ [f EXCEPT !.from = v] = FileOf(A, B, Mi(st), Pl(st), v, To(st), Bi(st), De(st), Ad(st))
                /\ [f EXCEPT !.to = v] = FileOf(A, B, Mi(st), Pl(st), Fr(st), v, Bi(st), De(st), Ad(st))
      /\ \A v, w : /\ [f EXCEPT !.minus = v, !.added = w]
                         = FileOf(A, B, v, Pl(st), Fr(st), To(st), Bi(st), De(st), w)
                   /\ [f EXCEPT !.plus = v, !.deleted = w]
                         = FileOf(A, B, Mi(st), v, Fr(st), To(st), Bi(st), w, Ad(st))
  <2>. HIDE DEF A, B, Mi, Pl, Fr, To, Bi, De, Ad, f
  <2>1. f = FileOf(A, B, Mi(st), Pl(st), Fr(st), To(st), Bi(st), De(st), Ad(st))
    BY <1>4
  <2>2. ASSUME NEW v
        PROVE  /\ [f EXCEPT !.added = v] = FileOf(A, B, Mi(st), Pl(st), Fr(st), To(st), Bi(st), De(st), v)
               /\ [f EXCEPT !.deleted = v] = FileOf(A, B, Mi(st), Pl(st), Fr(st), To(st), Bi(st), v, Ad(st))
               /\ [f EXCEPT !.binary = v] = FileOf(A, B, Mi(st), Pl(st), Fr(st), To(st), v, De(st), Ad(st))
               /\ [f EXCEPT !.from = v] = FileOf(A, B, Mi(st), Pl(st), v, To(st), Bi(st), De(st), Ad(st))
               /\ [f EXCEPT !.to = v] = FileOf(A, B, Mi(st), Pl(st), Fr(st), v, Bi(st), De(st), Ad(st))
    <3>1. [f EXCEPT !.added = v] = FileOf(A, B, Mi(st), Pl(st), Fr(st), To(st), Bi(st), De(st), v)
      BY <2>1, SMTT(60) DEF FileOf
    <3>2. [f EXCEPT !.deleted = v] = FileOf(A, B, Mi(st), Pl(st), Fr(st), To(st), Bi(st), v, Ad(st))
      BY <2>1, SMTT(60) DEF FileOf
    <3>3. [f EXCEPT !.binary = v] = FileOf(A, B, Mi(st), Pl(st), Fr(st), To(st), v, De(st), Ad(st))
      BY <2>1, SMTT(60) DEF FileOf
    <3>4. [f EXCEPT !.from = v] = FileOf(A, B, Mi(st), Pl(st), v, To(st), Bi(st), De(st), Ad(st))
      BY <2>1, SMTT(60) DEF FileOf
    <3>5. [f EXCEPT !.to = v] = FileOf(A, B, Mi(st), Pl(st), Fr(st), v, Bi(st), De(st), Ad(st))
      BY <2>1, SMTT(60) DEF FileOf
    <3>. QED  BY <3>1, <3>2, <3>3, <3>4, <3>5
  <2>3. ASSUME NEW v, NEW w
        PROVE  /\ [f EXCEPT !.minus = v, !.added = w]
                     = FileOf(A, B, v, Pl(st), Fr(st), To(st), Bi(st), De(st), w)
               /\ [f EXCEPT !.plus = v, !.deleted = w]
                     = FileOf(A, B, Mi(st), v, Fr(st), To(st), Bi(st), w, Ad(st))
    <3> DEFINE h == FileOf(A, B, v, Pl(st), Fr(st), To(st), Bi(st), De(st), Ad(st))
               k == FileOf(A, B, Mi(st), v, Fr(st), To(st), Bi(st), De(st), Ad(st))
    <3>1. [f EXCEPT !.minus = v] = h
      BY <2>1, SMTT(60) DEF FileOf
    <3>2. [f EXCEPT !.plus = v] = k
      BY <2>1, SMTT(60) DEF FileOf
    <3>3. [h EXCEPT !.added = w] = FileOf(A, B, v, Pl(st), Fr(st), To(st), Bi(st), De(st), w)
      BY SMTT(60) DEF FileOf
    <3>4. [k EXCEPT !.deleted = w] = FileOf(A, B, Mi(st), v, Fr(st), To(st), Bi(st), w, Ad(st))
      BY SMTT(60) DEF FileOf
    <3>5. /\ [f EXCEPT !.minus = v, !.added = w] = [[f EXCEPT !.minus = v] EXCEPT !.added = w]
          /\ [f EXCEPT !.plus = v, !.deleted = w] = [[f EXCEPT !.plus = v] EXCEPT !.deleted = w]
      OBVIOUS
    <3>. HIDE DEF h, k
    <3>. QED  BY <3>1, <3>2, <3>3, <3>4, <3>5, Zenon
  <2>. QED  BY <2>2, <2>3
<1>6. Head(lines) = l
  OBVIOUS
<1>7. /\ Begins = "minus" => MinusLine
      /\ Begins = "plus" => PlusLine
      /\ Begins \in {"new mode", "deleted mode"} => ModeLine
      /\ Begins \in {"rename from", "rename to"} => RenameLine
      /\ Begins = "binary" => BinaryLine
      /\ Begins = "index" => OtherLine
  <2>. HIDE DEF f
  <2>. QED  BY <1>2, HeaderTurn
<1>. HIDE DEF f, g, A, B
<1>8. CASE st = "mode"
  <2>1. CASE p.change = "added"
    <3>1. nx = "index" /\ l = Line("new mode", <<>>)
      BY <1>8, <2>1 DEF Ahead
    <3>2. Begins = "new mode"
      BY <1>3, <3>1, LineSays
    <3>3. ModeLine
      BY <1>7, <3>2
    <3>4. Becomes([f EXCEPT !.added = TRUE])
      BY <1>2, <3>2, <3>3 DEF ModeLine, Reads, Begins
    <3>5. Mi(st) = Mi(nx) /\ Pl(st) = Pl(nx) /\ Fr(st) = Fr(nx) /\ To(st) = To(nx) /\ (Bi(st) = Bi(nx))
          /\ (De(st) = De(nx)) /\ (TRUE = Ad(nx))
      BY <1>8, <2>1, <3>1
    <3>. HIDE DEF Mi, Pl, Fr, To, Bi, De, Ad, nx
    <3>6. [f EXCEPT !.added = TRUE] = g
      BY <1>4, <1>5, <3>5
    <3>. QED  BY <3>4, <3>6 DEF Becomes
  <2>2. CASE p.change = "deleted"
    <3>1. nx = "index" /\ l = Line("deleted mode", <<>>)
      BY <1>8, <2>2 DEF Ahead
    <3>2. Begins = "deleted mode"
      BY <1>3, <3>1, LineSays
    <3>3. ModeLine
      BY <1>7, <3>2
    <3>4. Becomes([f EXCEPT !.deleted = TRUE])
      BY <1>2, <3>2, <3>3 DEF ModeLine, Reads, Begins
    <3>5. Mi(st) = Mi(nx) /\ Pl(st) = Pl(nx) /\ Fr(st) = Fr(nx) /\ To(st) = To(nx) /\ (Bi(st) = Bi(nx))
          /\ (TRUE = De(nx)) /\ (Ad(st) = Ad(nx))
      BY <1>8, <2>2, <3>1
    <3>. HIDE DEF Mi, Pl, Fr, To, Bi, De, Ad, nx
    <3>6. [f EXCEPT !.deleted = TRUE] = g
      BY <1>4, <1>5, <3>5
    <3>. QED  BY <3>4, <3>6 DEF Becomes
  <2>3. CASE p.change = "renamed"
    <3>1. nx = "to" /\ l = Line("rename from", <<p.old>>)
      BY <1>8, <2>3 DEF Ahead
    <3>2. Begins = "rename from" /\ Unquote(Head(lines).names[1]) = p.old
      <4>1. l.starts = "rename from" /\ l.names[1] = Raw(p.old)
        <5>1. Line("rename from", <<p.old>>).starts = "rename from" /\ Line("rename from", <<p.old>>).names[1] = Raw(p.old)
          BY DEF Line
        <5>. HIDE DEF l
        <5>. QED  BY <3>1, <5>1
      <4>. QED  BY <1>1, <1>3, <1>6, <4>1, NamesAreRead
    <3>3. RenameLine
      BY <1>7, <3>2
    <3>4. Becomes([f EXCEPT !.from = p.old])
      BY <1>2, <3>2, <3>3 DEF RenameLine, Reads, Begins
    <3>5. Mi(st) = Mi(nx) /\ Pl(st) = Pl(nx) /\ p.old = Fr(nx) /\ To(st) = To(nx) /\ (Bi(st) = Bi(nx))
          /\ (De(st) = De(nx)) /\ (Ad(st) = Ad(nx))
      BY <1>8, <2>3, <3>1
    <3>. HIDE DEF Mi, Pl, Fr, To, Bi, De, Ad, nx
    <3>6. [f EXCEPT !.from = p.old] = g
      BY <1>4, <1>5, <3>5
    <3>. QED  BY <3>4, <3>6 DEF Becomes
  <2>. QED  BY <1>1, <1>8, <2>1, <2>2, <2>3 DEF Due
<1>9. CASE st = "to"
  <2>1. p.change = "renamed" /\ nx = "index" /\ l = Line("rename to", <<p.new>>)
    BY <1>9 DEF Ahead, Due
  <2>2. Begins = "rename to" /\ Unquote(Head(lines).names[1]) = p.new
    <3>1. l.starts = "rename to" /\ l.names[1] = Raw(p.new)
      <4>1. Line("rename to", <<p.new>>).starts = "rename to" /\ Line("rename to", <<p.new>>).names[1] = Raw(p.new)
        BY DEF Line
      <4>. HIDE DEF l
      <4>. QED  BY <2>1, <4>1
    <3>. QED  BY <1>1, <1>3, <1>6, <3>1, NamesAreRead
  <2>3. RenameLine
    BY <1>7, <2>2
  <2>4. Becomes([f EXCEPT !.to = p.new])
    BY <1>2, <2>2, <2>3 DEF RenameLine, Reads, Begins
  <2>5. Mi(st) = Mi(nx) /\ Pl(st) = Pl(nx) /\ Fr(st) = Fr(nx) /\ p.new = To(nx) /\ (Bi(st) = Bi(nx))
        /\ (De(st) = De(nx)) /\ (Ad(st) = Ad(nx))
    BY <1>9, <2>1
  <2>. HIDE DEF Mi, Pl, Fr, To, Bi, De, Ad, nx
  <2>6. [f EXCEPT !.to = p.new] = g
    BY <1>4, <1>5, <2>5
  <2>. QED  BY <2>4, <2>6 DEF Becomes
<1>10. CASE st = "index"
  <2>1. nx = AfterMode(p) /\ l = Line("index", <<>>)
    BY <1>10 DEF Ahead
  <2>2. Begins = "index"
    BY <1>3, <2>1, LineSays
  <2>3. OtherLine
    BY <1>7, <2>2
  <2>4. Becomes(f)
    BY <1>2, <2>3 DEF OtherLine
  <2>5. Mi(st) = Mi(nx) /\ Pl(st) = Pl(nx) /\ Fr(st) = Fr(nx) /\ To(st) = To(nx) /\ (Bi(st) = Bi(nx))
        /\ (De(st) = De(nx)) /\ (Ad(st) = Ad(nx))
    BY <1>1, <1>10, <2>1 DEF AfterMode
  <2>. HIDE DEF Mi, Pl, Fr, To, Bi, De, Ad, nx
  <2>6. f = g
    BY <1>4, <2>5
  <2>. QED  BY <2>4, <2>6 DEF Becomes
<1>11. CASE st = "content"
  <2>1. CASE p.content = "text"
    <3> DEFINE z == OldName(p) = Nothing
    <3>1. nx = "plus" /\ l = Line("minus", <<IF p.change = "added" THEN DevNull ELSE p.old>>)
      BY <1>11, <2>1 DEF Ahead
    <3>2. Begins = "minus" /\ PathAfterMarker(Head(lines).names[1]) = OldName(p)
      <4>1. l.starts = "minus" /\ l.names[1] = Raw(IF p.change = "added" THEN DevNull ELSE p.old)
        <5>1. Line("minus", <<IF p.change = "added" THEN DevNull ELSE p.old>>).starts = "minus" /\ Line("minus", <<IF p.change = "added" THEN DevNull ELSE p.old>>).names[1] = Raw(IF p.change = "added" THEN DevNull ELSE p.old)
          BY DEF Line
        <5>. HIDE DEF l
        <5>. QED  BY <3>1, <5>1
      <4>2. PathAfterMarker(l.names[1]) = OldName(p)
        BY <1>1, <4>1, NamesAreRead DEF OldName
      <4>. QED  BY <1>3, <1>6, <4>1, <4>2
    <3>3. MinusLine
      BY <1>7, <3>2
    <3>4. Becomes([f EXCEPT !.minus = OldName(p), !.added = z])
      BY <1>2, <3>2, <3>3 DEF MinusLine
    <3>5. OldName(p) = Mi(nx) /\ Pl(st) = Pl(nx) /\ Fr(st) = Fr(nx) /\ To(st) = To(nx) /\ (Bi(st) = Bi(nx))
          /\ (De(st) = De(nx)) /\ (z = Ad(nx))
      BY <1>1, <1>11, <2>1, <3>1, NamesAreRead DEF OldName
    <3>. HIDE DEF Mi, Pl, Fr, To, Bi, De, Ad, nx, z
    <3>6. [f EXCEPT !.minus = OldName(p), !.added = z] = g
      <4>1. [f EXCEPT !.minus = OldName(p), !.added = z]
              = FileOf(A, B, OldName(p), Pl(st), Fr(st), To(st), Bi(st), De(st), z)
        BY <1>5, Zenon
      <4>2. g = FileOf(A, B, OldName(p), Pl(st), Fr(st), To(st), Bi(st), De(st), z)
        BY <1>4, <3>5
      <4>. QED  BY <4>1, <4>2, Zenon
    <3>. QED  BY <3>4, <3>6 DEF Becomes
  <2>2. CASE p.content = "binary"
    <3>1. nx = "hunks" /\ l = Line("binary", <<>>)
      BY <1>11, <2>2 DEF Ahead
    <3>2. Begins = "binary"
      BY <1>3, <3>1, LineSays
    <3>3. BinaryLine
      BY <1>7, <3>2
    <3>4. Becomes([f EXCEPT !.binary = TRUE])
      BY <1>2, <3>3 DEF BinaryLine
    <3>5. Mi(st) = Mi(nx) /\ Pl(st) = Pl(nx) /\ Fr(st) = Fr(nx) /\ To(st) = To(nx) /\ (TRUE = Bi(nx))
          /\ (De(st) = De(nx)) /\ (Ad(st) = Ad(nx))
      BY <1>11, <2>2, <3>1
    <3>. HIDE DEF Mi, Pl, Fr, To, Bi, De, Ad, nx
    <3>6. [f EXCEPT !.binary = TRUE] = g
      BY <1>4, <1>5, <3>5
    <3>. QED  BY <3>4, <3>6 DEF Becomes
  <2>. QED  BY <1>1, <1>11, <2>1, <2>2 DEF Due
<1>12. CASE st = "plus"
  <2> DEFINE z == NewName(p) = Nothing
  <2>1. p.content = "text" /\ nx = "hunks" /\ l = Line("plus", <<IF p.change = "deleted" THEN DevNull ELSE p.new>>)
    BY <1>12 DEF Ahead, Due
  <2>2. Begins = "plus" /\ PathAfterMarker(Head(lines).names[1]) = NewName(p)
    <3>1. l.starts = "plus" /\ l.names[1] = Raw(IF p.change = "deleted" THEN DevNull ELSE p.new)
      <4>1. Line("plus", <<IF p.change = "deleted" THEN DevNull ELSE p.new>>).starts = "plus" /\ Line("plus", <<IF p.change = "deleted" THEN DevNull ELSE p.new>>).names[1] = Raw(IF p.change = "deleted" THEN DevNull ELSE p.new)
        BY DEF Line
      <4>. HIDE DEF l
      <4>. QED  BY <2>1, <4>1
    <3>2. PathAfterMarker(l.names[1]) = NewName(p)
      BY <1>1, <3>1, NamesAreRead DEF NewName
    <3>. QED  BY <1>3, <1>6, <3>1, <3>2
  <2>3. PlusLine
    BY <1>7, <2>2
  <2>4. Becomes([f EXCEPT !.plus = NewName(p), !.deleted = z])
    BY <1>2, <2>2, <2>3 DEF PlusLine
  <2>5. Mi(st) = Mi(nx) /\ NewName(p) = Pl(nx) /\ Fr(st) = Fr(nx) /\ To(st) = To(nx) /\ (Bi(st) = Bi(nx))
        /\ (z = De(nx)) /\ (Ad(st) = Ad(nx))
    BY <1>1, <1>12, <2>1, NamesAreRead DEF NewName
  <2>. HIDE DEF Mi, Pl, Fr, To, Bi, De, Ad, nx, z
  <2>6. [f EXCEPT !.plus = NewName(p), !.deleted = z] = g
    <3>1. [f EXCEPT !.plus = NewName(p), !.deleted = z]
            = FileOf(A, B, Mi(st), NewName(p), Fr(st), To(st), Bi(st), z, Ad(st))
      BY <1>5, Zenon
    <3>2. g = FileOf(A, B, Mi(st), NewName(p), Fr(st), To(st), Bi(st), z, Ad(st))
      BY <1>4, <2>5
    <3>. QED  BY <3>1, <3>2, Zenon
  <2>. QED  BY <2>4, <2>6 DEF Becomes
<1>. QED  BY <1>8, <1>9, <1>10, <1>11, <1>12 DEF Due

\* ---- what is left of the text --------------------------------------------------

\* The first line of a header, and the lines behind it.
LEMMA StretchesOn ==
  ASSUME NEW x \in Written, NEW r \in Seq(Written)
  PROVE  Stretches(<<x>> \o r) = << <<x>> >> \o Stretches(r)
<1> DEFINE w == <<x>> \o r
           a == Stretches(w)
           t == Stretches(r)
           b == << <<x>> >> \o t
<1>1. w \in Seq(Written) /\ Len(w) = Len(r) + 1 /\ w[1] = x /\ \A i \in 1..Len(r) : w[i + 1] = r[i]
  OBVIOUS
<1>2. Len(r) \in Nat /\ DOMAIN w = 1..(Len(r) + 1) /\ DOMAIN r = 1..Len(r)
  BY <1>1
<1>3. a \in Seq(Stretch) /\ Len(a) = Len(r) + 1 /\ t \in Seq(Stretch) /\ Len(t) = Len(r)
  <2>. HIDE DEF w
  <2>. QED  BY <1>1, StretchesType
<1>4. (\A i \in 1..(Len(r) + 1) : a[i] = <<w[i]>>) /\ \A i \in 1..Len(r) : t[i] = <<r[i]>>
  <2>. HIDE DEF w
  <2>. QED  BY <1>2 DEF Stretches
<1>. HIDE DEF a, t, w
<1>5. <<x>> \in Stretch
  BY DEF Stretch
<1>6. b \in Seq(Stretch) /\ Len(b) = Len(r) + 1 /\ b[1] = <<x>> /\ \A i \in 1..Len(r) : b[i + 1] = t[i]
  <2> DEFINE e == <<x>>
  <2>1. e \in Stretch
    BY <1>5
  <2>. HIDE DEF e
  <2>2. <<e>> \o t \in Seq(Stretch) /\ Len(<<e>> \o t) = Len(t) + 1 /\ (<<e>> \o t)[1] = e
        /\ \A i \in 1..Len(t) : (<<e>> \o t)[i + 1] = t[i]
    BY <1>3, <2>1
  <2>. QED  BY <1>3, <2>2 DEF e
<1>. HIDE DEF b
<1>7. \A i \in 1..Len(a) : a[i] = b[i]
  <2>1. a[1] = b[1]
    BY <1>1, <1>2, <1>4, <1>6
  <2>2. ASSUME NEW i \in 1..Len(r) PROVE a[i + 1] = b[i + 1]
    <3>1. i + 1 \in 1..(Len(r) + 1)
      BY <1>2
    <3>2. a[i + 1] = <<w[i + 1]>> /\ w[i + 1] = r[i]
      BY <1>1, <1>4, <3>1
    <3>3. b[i + 1] = t[i] /\ t[i] = <<r[i]>>
      BY <1>4, <1>6
    <3>. QED  BY <3>2, <3>3
  <2>3. \A i \in 1..Len(a) : i = 1 \/ (i - 1 \in 1..Len(r) /\ (i - 1) + 1 = i)
    BY <1>2, <1>3
  <2>. QED  BY <2>1, <2>2, <2>3
<1>8. a = b
  BY <1>3, <1>6, <1>7, SeqEqual
<1>. QED  BY <1>8 DEF a, b, t, w

\* Where the reading stands: in a header, or in a body.
Behind(d, k, h) == HunksFrom(d[k], h) \o TextFrom(d, k + 1)
AtHeader(d, k, st) ==
    /\ Due(d[k], st)
    /\ file = <<HeaderFile(d[k], st)>>
    /\ lines = SplitLines(Stretches(HeaderRest(d[k], st)) \o Behind(d, k, 1))
BodyRest(p, h, l) == IF h = 0 THEN <<>> ELSE SubSeq(BodyStretches(p.hunks[h]), l + 1, Len(p.hunks[h].lines))
AtBody(d, k, h, l) ==
    /\ h \in 0..Len(d[k].hunks) /\ l \in 0..BodyLength(d[k], h)
    /\ file = <<FileRead(d[k], h, l)>>
    /\ lines = SplitLines(BodyRest(d[k], h, l) \o Behind(d, k, h + 1))

\* What is left of the text behind a hunk, and behind a file.
LEMMA BehindIs ==
  ASSUME NEW d \in Seq(Patch), NEW k \in 1..Len(d)
  PROVE  /\ d[k] \in Patch /\ Len(d[k].hunks) \in Nat
         /\ TextFrom(d, k + 1) \in Seq(Stretch)
         /\ \A h \in 1..(Len(d[k].hunks) + 1) : Behind(d, k, h) \in Seq(Stretch)
         /\ Behind(d, k, Len(d[k].hunks) + 1) = TextFrom(d, k + 1)
         /\ \A h \in 1..Len(d[k].hunks) :
               Behind(d, k, h) = << <<HunkLine(d[k].hunks[h])>> >> \o (BodyStretches(d[k].hunks[h]) \o Behind(d, k, h + 1))
<1> DEFINE p == d[k]
           n == Len(p.hunks)
           u == TextFrom(d, k + 1)
<1>1. p \in Patch /\ n \in Nat
  <2>1. p \in Patch
    OBVIOUS
  <2>. QED  BY <2>1, HunksFromIs
<1>2. u \in Seq(Stretch)
  <2>1. k + 1 \in 1..(Len(d) + 1)
    OBVIOUS
  <2>. QED  BY <2>1, TextFromIs
<1>3. /\ \A h \in 1..(n + 1) : HunksFrom(p, h) \in Seq(Stretch)
      /\ \A h \in 1..n : HunksFrom(p, h) = HunkStretches(p.hunks[h]) \o HunksFrom(p, h + 1)
      /\ HunksFrom(p, n + 1) = <<>>
      /\ \A h \in 1..n : p.hunks[h] \in Bodies
  <2>. HIDE DEF p
  <2>. QED  BY <1>1, HunksFromIs
<1>. HIDE DEF p, n, u
<1>4. \A h : Behind(d, k, h) = HunksFrom(p, h) \o u
  BY DEF Behind, p, u
<1>5. \A h \in 1..(n + 1) : Behind(d, k, h) \in Seq(Stretch)
  BY <1>2, <1>3, <1>4, ConcatProperties
<1>6. Behind(d, k, n + 1) = u
  BY <1>2, <1>3, <1>4, ConcatEmptySeq
<1>7. ASSUME NEW h \in 1..n
      PROVE  Behind(d, k, h) = << <<HunkLine(p.hunks[h])>> >> \o (BodyStretches(p.hunks[h]) \o Behind(d, k, h + 1))
  <2> DEFINE x == << <<HunkLine(p.hunks[h])>> >>
             b == BodyStretches(p.hunks[h])
             r == HunksFrom(p, h + 1)
  <2>1. p.hunks[h] \in Bodies
    BY <1>3
  <2>2. <<HunkLine(p.hunks[h])>> \in Stretch /\ b \in Seq(Stretch) /\ HunkStretches(p.hunks[h]) = x \o b
    BY <2>1, HunkIs
  <2>3. x \in Seq(Stretch)
    <3> DEFINE e == <<HunkLine(p.hunks[h])>>
    <3>1. e \in Stretch
      BY <2>2
    <3>. HIDE DEF e
    <3>2. <<e>> \in Seq(Stretch)
      BY <3>1
    <3>. QED  BY <3>2 DEF e
  <2>4. r \in Seq(Stretch) /\ h + 1 \in 1..(n + 1)
    BY <1>1, <1>3
  <2>5. Behind(d, k, h) = ((x \o b) \o r) \o u
    BY <1>3, <1>4, <2>2
  <2>. HIDE DEF x, b, r
  <2>6. x \o b \in Seq(Stretch) /\ r \o u \in Seq(Stretch)
    BY <1>2, <2>2, <2>3, <2>4, ConcatProperties
  <2>7. ((x \o b) \o r) \o u = (x \o b) \o (r \o u)
    <3> DEFINE xb == x \o b
    <3>1. xb \in Seq(Stretch)
      BY <2>6
    <3>. HIDE DEF xb
    <3>2. r \in Seq(Stretch) /\ u \in Seq(Stretch)
      BY <1>2, <2>4
    <3>3. (xb \o r) \o u = xb \o (r \o u)
      BY <3>1, <3>2, ConcatAssociative, SMTT(20)
    <3>. QED  BY <3>3 DEF xb
  <2>8. (x \o b) \o (r \o u) = x \o (b \o (r \o u))
    <3> DEFINE ru == r \o u
    <3>1. ru \in Seq(Stretch)
      BY <2>6
    <3>. HIDE DEF ru
    <3>2. x \in Seq(Stretch) /\ b \in Seq(Stretch)
      BY <2>2, <2>3
    <3>3. (x \o b) \o ru = x \o (b \o ru)
      BY <3>1, <3>2, ConcatAssociative, SMTT(20)
    <3>. QED  BY <3>3 DEF ru
  <2>9. r \o u = Behind(d, k, h + 1)
    BY <1>4 DEF r
  <2>. QED  BY <2>5, <2>7, <2>8, <2>9 DEF x, b
<1>. QED  BY <1>1, <1>2, <1>5, <1>6, <1>7 DEF p, n, u

\* The header without its hunks is what was read when the first hunk begins.
LEMMA HeaderIsFile ==
  ASSUME NEW p \in Patch
  PROVE  HeaderFile(p, "hunks") = FileRead(p, 0, 0) /\ BodyLength(p, 0) = 0 /\ BodyRest(p, 0, 0) = <<>>
<1>1. HunksRead(p, 0, 0) = <<>>
  BY DEF HunksRead
<1> DEFINE f == HeaderFile(p, "hunks")
<1>2. f.hunks = <<>> /\ \A v : [f EXCEPT !.hunks = v].hunks = v
  BY DEF HeaderFile, FileOf
<1>3. [f EXCEPT !.hunks = f.hunks] = f
  BY DEF HeaderFile, FileOf
<1>4. [f EXCEPT !.hunks = HunksRead(p, 0, 0)] = f
  <2>. HIDE DEF f
  <2>. QED  BY <1>1, <1>2, <1>3
<1>. QED  BY <1>4 DEF FileRead, BodyLength, BodyRest

\* From a header the reading goes on in the header or to the hunks.
LEMMA HeaderStep ==
  ASSUME NEW d \in Seq(Patch), patches = d, d # <<>>, NEW k \in 1..Len(d), NEW st, AtHeader(d, k, st), TextNext
  PROVE  /\ UNCHANGED <<patches, files, reviewed>>
         /\ (\E s : AtHeader(d, k, s)') \/ AtBody(d, k, 0, 0)'
<1> DEFINE p == d[k]
           x == Ahead(p, st).line
           s == Ahead(p, st).next
           r == HeaderRest(p, s)
           e == <<x>>
           t == Stretches(r)
           b == Behind(d, k, 1)
<1>1. p \in Patch /\ b \in Seq(Stretch)
  <2>1. 1 \in 1..(Len(d[k].hunks) + 1)
    BY BehindIs
  <2>. QED  BY <2>1, BehindIs
<1>2. Due(p, st) /\ file = <<HeaderFile(p, st)>> /\ lines = SplitLines(Stretches(HeaderRest(p, st)) \o b)
  BY DEF AtHeader
<1>3. /\ HeaderRest(p, st) = <<x>> \o r /\ x \in Written /\ r \in Seq(Written)
      /\ Due(p, s) \/ s = "hunks"
  <2>. HIDE DEF p
  <2>. QED  BY <1>1, <1>2, HeaderGoesOn
<1>4. Stretches(HeaderRest(p, st)) = <<e>> \o t /\ e \in Stretch /\ t \in Seq(Stretch)
  <2>. HIDE DEF x, r, p, s
  <2>1. Stretches(<<x>> \o r) = << <<x>> >> \o Stretches(r)
    BY <1>3, StretchesOn
  <2>2. <<x>> \in Stretch
    BY <1>3 DEF Stretch
  <2>3. Stretches(r) \in Seq(Stretch)
    BY <1>3, StretchesType
  <2>. QED  BY <1>3, <2>1, <2>2, <2>3
<1>5. lines # <<>> /\ Head(lines) = x /\ Tail(lines) = SplitLines(t \o b)
  <2> DEFINE y == e
  <2>0. y[1] = x
    OBVIOUS
  <2>. HIDE DEF y, t, b, x, p, s, r
  <2>1. (<<y>> \o t) \o b = <<y>> \o (t \o b) /\ t \o b \in Seq(Stretch)
    <3>1. <<y>> \in Seq(Stretch)
      BY <1>4 DEF y
    <3>. QED  BY <1>1, <1>4, <3>1, ConcatAssociative, ConcatProperties
  <2>2. lines = SplitLines(<<y>> \o (t \o b))
    BY <1>2, <1>4, <2>1 DEF y
  <2>3. y \in Stretch
    BY <1>4 DEF y
  <2> DEFINE tb == t \o b
  <2>4. tb \in Seq(Stretch) /\ lines = SplitLines(<<y>> \o tb)
    BY <2>1, <2>2
  <2>. HIDE DEF tb
  <2>5. lines # <<>> /\ Head(lines) = y[1] /\ Tail(lines) = SplitLines(tb)
    BY <2>3, <2>4, Consumed
  <2>. QED  BY <2>0, <2>5 DEF tb
<1>6. /\ file' = <<HeaderFile(p, s)>>
      /\ lines' = Tail(lines) /\ UNCHANGED <<patches, files, reviewed>>
  <2>. HIDE DEF p
  <2>. QED  BY <1>1, <1>2, <1>5, HeaderIsRead
<1>7. file' = <<HeaderFile(p, s)>> /\ lines' = SplitLines(t \o b)
  <2>. HIDE DEF p, s, t, b
  <2>. QED  BY <1>5, <1>6
<1>8. CASE Due(p, s)
  <2>1. AtHeader(d, k, s)'
    BY <1>7, <1>8 DEF AtHeader
  <2>. QED  BY <1>6, <2>1
<1>9. CASE s = "hunks"
  <2>1. r = <<>> /\ t = <<>>
    BY <1>9 DEF HeaderRest, Stretches
  <2>2. HeaderFile(p, s) = FileRead(p, 0, 0) /\ BodyLength(p, 0) = 0 /\ BodyRest(p, 0, 0) = <<>>
    BY <1>1, <1>9, HeaderIsFile
  <2>3. Len(p.hunks) \in Nat
    BY BehindIs
  <2>4. file' = <<FileRead(p, 0, 0)>> /\ lines' = SplitLines(BodyRest(p, 0, 0) \o Behind(d, k, 0 + 1))
    BY <1>7, <2>1, <2>2
  <2>5. AtBody(d, k, 0, 0)'
    BY <2>2, <2>3, <2>4 DEF AtBody
  <2>. QED  BY <1>6, <2>5
<1>. QED  BY <1>3, <1>8, <1>9

\* Where a header begins behind its first line.
FirstStage(p) == IF p.change = "modified" THEN "index" ELSE "mode"
LEMMA HeaderBegins ==
  ASSUME NEW p \in Patch
  PROVE  /\ Header(p) = <<Line("git", <<p.old, p.new>>)>> \o HeaderRest(p, FirstStage(p))
         /\ HeaderRest(p, FirstStage(p)) \in Seq(Written)
         /\ Due(p, FirstStage(p))
         /\ NewFile(Line("git", <<p.old, p.new>>)) = HeaderFile(p, FirstStage(p))
<1> DEFINE a == Line("git", <<p.old, p.new>>)
           m == ModeLines(p)
           x == Line("index", <<>>)
           c == ContentLines(p)
           v == <<a>>
           u == <<x>> \o c
           st == FirstStage(p)
<1>1. a \in Written /\ x \in Written /\ m \in Seq(Written) /\ c \in Seq(Written) /\ Header(p) = ((v \o m) \o <<x>>) \o c
  BY HeaderType DEF Header
<1>2. v \in Seq(Written) /\ <<x>> \in Seq(Written)
  <2>. HIDE DEF a, x
  <2>. QED  BY <1>1
<1>3. HeaderRest(p, st) = m \o u
  <2>1. CASE p.change = "modified"
    <3>1. st = "index" /\ m = <<>> /\ HeaderRest(p, st) = u
      BY <2>1 DEF FirstStage, HeaderRest, ModeLines
    <3>2. u \in Seq(Written)
      BY <1>1, <1>2, ConcatProperties
    <3>. HIDE DEF u, m
    <3>. QED  BY <3>1, <3>2, ConcatEmptySeq
  <2>2. CASE p.change # "modified"
    BY <2>2 DEF FirstStage, HeaderRest
  <2>. QED  BY <2>1, <2>2
<1>4. Header(p) = v \o (m \o u) /\ m \o u \in Seq(Written)
  <2> DEFINE xs == <<x>>
             vm == v \o m
  <2>1. xs \in Seq(Written) /\ Header(p) = (vm \o xs) \o c /\ u = xs \o c
    BY <1>1, <1>2
  <2>. HIDE DEF v, xs, m, c, u
  <2>2. v \in Seq(Written) /\ m \in Seq(Written) /\ xs \in Seq(Written) /\ c \in Seq(Written)
    BY <1>1, <1>2, <2>1
  <2>3. vm \in Seq(Written) /\ u \in Seq(Written)
    BY <2>1, <2>2, ConcatProperties
  <2>4. vm \o u = v \o (m \o u)
    BY <2>3, <2>2, ConcatAssociative, SMTT(20)
  <2>. HIDE DEF vm
  <2>5. (vm \o xs) \o c = vm \o u
    <3>1. (vm \o xs) \o c = vm \o (xs \o c)
      BY <2>3, <2>2, ConcatAssociative, SMTT(20)
    <3>. QED  BY <2>1, <3>1
  <2>6. m \o u \in Seq(Written)
    BY <2>3, <2>2, ConcatProperties
  <2>. QED  BY <2>1, <2>5, <2>4, <2>6
<1>5. Due(p, st)
  BY DEF Due, FirstStage
<1>6. NewFile(a) = HeaderFile(p, st)
  BY DEF NewFile, HeaderFile, FileOf, Cut, FirstStage
<1>. QED  BY <1>3, <1>4, <1>5, <1>6

\* Where a file begins, its header is begun.
LEMMA FileStep ==
  ASSUME NEW d \in Seq(Patch), patches = d, d # <<>>, NEW k \in 1..Len(d), lines = SplitLines(TextFrom(d, k)), TextNext
  PROVE  /\ files' = files \o [i \in DOMAIN file |-> Parsed(file[i])] /\ UNCHANGED <<patches, reviewed>>
         /\ \E s : AtHeader(d, k, s)'
<1> DEFINE p == d[k]
           st == FirstStage(p)
           a == Line("git", <<p.old, p.new>>)
           r == HeaderRest(p, st)
           e == <<a>>
           t == Stretches(r)
           hs == HunksFrom(p, 1)
           w == TextFrom(d, k + 1)
           b == Behind(d, k, 1)
<1>1. p \in Patch /\ b \in Seq(Stretch) /\ hs \in Seq(Stretch) /\ w \in Seq(Stretch)
  <2>1. p \in Patch /\ 1 \in 1..(Len(p.hunks) + 1)
    BY BehindIs
  <2>2. hs \in Seq(Stretch)
    <3>. HIDE DEF p
    <3>. QED  BY <2>1, HunksFromIs
  <2>. QED  BY <2>1, <2>2, BehindIs
<1>2. Header(p) = <<a>> \o r /\ r \in Seq(Written) /\ Due(p, st) /\ NewFile(a) = HeaderFile(p, st) /\ a \in Written
  <2>. HIDE DEF p
  <2>. QED  BY <1>1, HeaderBegins, HeaderType
<1>3. Stretches(Header(p)) = <<e>> \o t /\ e \in Stretch /\ t \in Seq(Stretch)
  <2>. HIDE DEF a, r, p, st
  <2>1. Stretches(<<a>> \o r) = << <<a>> >> \o Stretches(r)
    BY <1>2, StretchesOn
  <2>2. <<a>> \in Stretch
    BY <1>2 DEF Stretch
  <2>3. Stretches(r) \in Seq(Stretch)
    BY <1>2, StretchesType
  <2>. QED  BY <1>2, <2>1, <2>2, <2>3
<1>4. lines # <<>> /\ Head(lines) = a /\ Tail(lines) = SplitLines(t \o b)
  <2> DEFINE y == e
             tx == TextFrom(d, k)
             H == Stretches(Header(p))
  <2>0. y[1] = a
    OBVIOUS
  <2>1. tx = (H \o hs) \o w
    BY TextFromIs
  <2>2. b = hs \o w
    BY DEF Behind
  <2>3. y \in Stretch /\ H = <<y>> \o t
    BY <1>3
  <2>. HIDE DEF y, t, b, a, p, st, r, hs, w, tx, H
  <2>4. <<y>> \in Seq(Stretch) /\ H \in Seq(Stretch) /\ t \in Seq(Stretch) /\ <<y>> \o t \in Seq(Stretch)
    <3>1. <<y>> \in Seq(Stretch) /\ t \in Seq(Stretch)
      BY <1>3, <2>3
    <3>. QED  BY <2>3, <3>1, ConcatProperties
  <2>5. hs \in Seq(Stretch) /\ w \in Seq(Stretch) /\ b \in Seq(Stretch)
    BY <1>1
  <2>6. (H \o hs) \o w = H \o b
    <3>1. (H \o hs) \o w = H \o (hs \o w)
      BY <2>4, <2>5, ConcatAssociative, SMTT(20)
    <3>. QED  BY <2>2, <3>1
  <2>7. (<<y>> \o t) \o b = <<y>> \o (t \o b) /\ t \o b \in Seq(Stretch)
    <3> DEFINE yy == <<y>>
    <3>1. yy \in Seq(Stretch) /\ t \in Seq(Stretch)
      BY <2>4
    <3>. HIDE DEF yy
    <3>2. (yy \o t) \o b = yy \o (t \o b)
      BY <2>5, <3>1, ConcatAssociative, SMTT(20)
    <3>3. t \o b \in Seq(Stretch)
      BY <2>5, <3>1, ConcatProperties
    <3>. QED  BY <3>2, <3>3 DEF yy
  <2> DEFINE tb == t \o b
  <2>8. tb \in Seq(Stretch) /\ lines = SplitLines(<<y>> \o tb)
    BY <2>1, <2>3, <2>6, <2>7 DEF tx
  <2>. HIDE DEF tb
  <2>9. lines # <<>> /\ Head(lines) = y[1] /\ Tail(lines) = SplitLines(tb)
    BY <2>3, <2>8, Consumed
  <2>. QED  BY <2>0, <2>9 DEF tb
<1>5. Begins = "git"
  <2>1. a.starts = "git"
    BY DEF Line
  <2>. HIDE DEF a
  <2>. QED  BY <1>4, <2>1 DEF Begins
<1>6. StartFile
  BY <1>4, <1>5, Guards DEF TextNext
<1>7. /\ file' = <<NewFile(a)>> /\ files' = files \o [i \in DOMAIN file |-> Parsed(file[i])]
      /\ lines' = SplitLines(t \o b) /\ UNCHANGED <<patches, reviewed>>
  <2>. HIDE DEF a, t, b
  <2>. QED  BY <1>4, <1>6 DEF StartFile
<1>8. AtHeader(d, k, st)'
  BY <1>2, <1>7 DEF AtHeader
<1>. QED  BY <1>7, <1>8

\* ---- the hunks -----------------------------------------------------------------

\* A file is what its header says, with the hunks that were read.
WithHunks(p, v) == [HeaderFile(p, "hunks") EXCEPT !.hunks = v]
\* Only the hunks change.
LEMMA WithHunksIs ==
  ASSUME NEW p, NEW v
  PROVE  /\ WithHunks(p, v).hunks = v
         /\ WithHunks(p, v).plus = HeaderFile(p, "hunks").plus /\ WithHunks(p, v).to = HeaderFile(p, "hunks").to
         /\ WithHunks(p, v).b = HeaderFile(p, "hunks").b /\ WithHunks(p, v).minus = HeaderFile(p, "hunks").minus
         /\ WithHunks(p, v).a = HeaderFile(p, "hunks").a /\ WithHunks(p, v).from = HeaderFile(p, "hunks").from
         /\ WithHunks(p, v).binary = HeaderFile(p, "hunks").binary
         /\ WithHunks(p, v).deleted = HeaderFile(p, "hunks").deleted
         /\ WithHunks(p, v).added = HeaderFile(p, "hunks").added
         /\ \A w : [WithHunks(p, v) EXCEPT !.hunks = w] = WithHunks(p, w)
         /\ "hunks" \in DOMAIN WithHunks(p, v)
<1> DEFINE f == HeaderFile(p, "hunks")
<1>1. "hunks" \in DOMAIN f
  BY DEF HeaderFile, FileOf
<1>. HIDE DEF f
<1>2. [f EXCEPT !.hunks = v].hunks = v /\ "hunks" \in DOMAIN [f EXCEPT !.hunks = v]
  BY <1>1
<1>3. /\ [f EXCEPT !.hunks = v].plus = f.plus /\ [f EXCEPT !.hunks = v].to = f.to
      /\ [f EXCEPT !.hunks = v].b = f.b /\ [f EXCEPT !.hunks = v].minus = f.minus
      /\ [f EXCEPT !.hunks = v].a = f.a /\ [f EXCEPT !.hunks = v].from = f.from
      /\ [f EXCEPT !.hunks = v].binary = f.binary
      /\ [f EXCEPT !.hunks = v].deleted = f.deleted
      /\ [f EXCEPT !.hunks = v].added = f.added
  <2>1. {"plus", "to", "b", "minus", "a", "from", "binary", "deleted", "added"} \subseteq DOMAIN f
    BY DEF f, HeaderFile, FileOf
  <2>. QED  BY <2>1
<1>4. ASSUME NEW w PROVE [[f EXCEPT !.hunks = v] EXCEPT !.hunks = w] = [f EXCEPT !.hunks = w]
  OBVIOUS
<1>. QED  BY <1>2, <1>3, <1>4 DEF WithHunks, f

\* One line more of the last hunk.
LEMMA LineMore ==
  ASSUME NEW p \in Patch, NEW h \in 1..Len(p.hunks), NEW l \in 0..(BodyLength(p, h) - 1)
  PROVE  /\ Len(FileRead(p, h, l).hunks) = h /\ FileRead(p, h, l).hunks # <<>>
         /\ [FileRead(p, h, l) EXCEPT !.hunks[h].signs = Append(@, p.hunks[h].lines[l + 1].sign)] = FileRead(p, h, l + 1)
<1> DEFINE b == p.hunks[h]
           s == b.lines[l + 1].sign
           v == HunksRead(p, h, l)
           w == HunksRead(p, h, l + 1)
           f == FileRead(p, h, l)
           r == HunkRead(p, h, l)
           q == HunkRead(p, h, l + 1)
           S == [x \in 1..l |-> b.lines[x].sign]
           T == [x \in 1..(l + 1) |-> b.lines[x].sign]
<1>1. h \in Nat /\ l \in Nat /\ BodyLength(p, h) = Len(b.lines) /\ b \in Bodies
  <2>1. Len(p.hunks) \in Nat /\ b \in Bodies
    BY HunksFromIs
  <2>2. Len(b.lines) \in Nat
    <3>. HIDE DEF b
    <3>. QED  BY <2>1, BodyIs
  <2>3. BodyLength(p, h) = Len(b.lines)
    BY DEF BodyLength
  <2>. QED  BY <2>1, <2>2, <2>3
<1>2. f = WithHunks(p, v) /\ FileRead(p, h, l + 1) = WithHunks(p, w)
  BY DEF FileRead, WithHunks
<1>3. /\ v = [j \in 1..h |-> HunkRead(p, j, IF j < h THEN BodyLength(p, j) ELSE l)]
      /\ w = [j \in 1..h |-> HunkRead(p, j, IF j < h THEN BodyLength(p, j) ELSE l + 1)]
  BY DEF HunksRead
<1>4. f.hunks = v /\ Len(v) = h /\ v # <<>> /\ v[h] = r /\ h \in DOMAIN v
  <2>1. f.hunks = v
    <3>. HIDE DEF v, f
    <3>. QED  BY <1>2, WithHunksIs
  <2>2. Len(v) = h
    <3>. HIDE DEF v
    <3>. QED  BY <1>1, <1>3
  <2>3. v # <<>>
    <3>. HIDE DEF v
    <3>. QED  BY <1>1, <2>2
  <2>4. v[h] = r /\ h \in DOMAIN v
    <3>. HIDE DEF v
    <3>. QED  BY <1>1, <1>3
  <2>. HIDE DEF f, v
  <2>. QED  BY <2>1, <2>2, <2>3, <2>4
<1>5. Append(S, s) = T
  <2> DEFINE X == {b.lines[x].sign : x \in 1..(l + 1)}
             g(x) == b.lines[x].sign
  <2>1. \A x \in 1..(l + 1) : g(x) \in X
    OBVIOUS
  <2>2. S = [x \in 1..l |-> g(x)] /\ T = [x \in 1..(l + 1) |-> g(x)] /\ s = g(l + 1)
    OBVIOUS
  <2>. HIDE DEF X, g, S, T, s
  <2>3. S \in Seq(X) /\ Len(S) = l /\ T \in Seq(X) /\ Len(T) = l + 1 /\ s \in X
    BY <1>1, <2>1, <2>2
  <2> DEFINE A == Append(S, s)
  <2>4. A \in Seq(X) /\ Len(A) = l + 1 /\ A[l + 1] = s /\ \A i \in 1..l : A[i] = S[i]
    BY <2>3, AppendProperties
  <2>. HIDE DEF A
  <2>5. ASSUME NEW i \in 1..(l + 1) PROVE A[i] = T[i]
    <3>1. i = l + 1 \/ i \in 1..l
      BY <1>1
    <3>2. T[i] = g(i) /\ (i \in 1..l => S[i] = g(i))
      BY <2>2
    <3>. QED  BY <2>2, <2>4, <3>1, <3>2
  <2>6. A = T
    BY <2>3, <2>4, <2>5, SeqEqual
  <2>. QED  BY <2>6 DEF A
<1>6. [r EXCEPT !.signs = Append(@, s)] = q
  <2> DEFINE path == PathOf(p)
             c == b.chars
             y == b.bytes
  <2>1. r = [path |-> path, signs |-> S, chars |-> c, bytes |-> y] /\ q = [path |-> path, signs |-> T, chars |-> c, bytes |-> y]
    BY DEF HunkRead
  <2>. HIDE DEF path, c, y, S, T, s, r, q
  <2>2. r.signs = S
    BY <2>1
  <2>3. [r EXCEPT !.signs = T] = q
    BY <2>1
  <2>. QED  BY <1>5, <2>2, <2>3
<1>7. [v EXCEPT ![h] = q] = w
  <2>1. q = HunkRead(p, h, l + 1)
    OBVIOUS
  <2>. HIDE DEF v, w, q
  <2>2. DOMAIN [v EXCEPT ![h] = q] = 1..h /\ \A j \in 1..h : [v EXCEPT ![h] = q][j] = IF j = h THEN q ELSE v[j]
    BY <1>1, <1>3
  <2>3. \A j \in 1..h : (IF j = h THEN q ELSE v[j]) = w[j]
    <3> TAKE j \in 1..h
    <3>1. j = h \/ j < h
      BY <1>1
    <3>2. CASE j = h
      BY <1>1, <1>3, <2>1, <3>2
    <3>3. CASE j < h
      <4>1. v[j] = HunkRead(p, j, BodyLength(p, j)) /\ w[j] = HunkRead(p, j, BodyLength(p, j)) /\ j # h
        BY <1>1, <1>3, <3>3
      <4>. QED  BY <4>1
    <3>. QED  BY <3>1, <3>2, <3>3
  <2>4. [v EXCEPT ![h] = q] = [j \in 1..h |-> [v EXCEPT ![h] = q][j]] /\ w = [j \in 1..h |-> w[j]]
    BY <1>3
  <2>. QED  BY <1>3, <2>2, <2>3, <2>4
<1>8. [f EXCEPT !.hunks[h].signs = Append(@, s)] = [f EXCEPT !.hunks = [v EXCEPT ![h] = q]]
  <2>1. [f EXCEPT !.hunks[h].signs = Append(@, s)]
          = [f EXCEPT !.hunks = [f.hunks EXCEPT ![h] = [f.hunks[h] EXCEPT !.signs = Append(f.hunks[h].signs, s)]]]
    <3>. HIDE DEF f, s
    <3>. QED  OBVIOUS
  <2>2. [r EXCEPT !.signs = Append(r.signs, s)] = q
    <3>. HIDE DEF r, s, q
    <3>. QED  BY <1>6
  <2>. HIDE DEF f, s, v, q, r
  <2>. QED  BY <1>4, <2>1, <2>2, Zenon
<1>9. [f EXCEPT !.hunks = w] = WithHunks(p, w)
  <2>. HIDE DEF f, v, w
  <2>. QED  BY <1>2, WithHunksIs
<1>10. [f EXCEPT !.hunks[h].signs = Append(@, s)] = FileRead(p, h, l + 1)
  <2>1. [f EXCEPT !.hunks = [v EXCEPT ![h] = q]] = [f EXCEPT !.hunks = w]
    <3>. HIDE DEF f, v, w, q
    <3>. QED  BY <1>7, Zenon
  <2>. HIDE DEF f, v, w, q, s
  <2>. QED  BY <1>2, <1>8, <1>9, <2>1, Zenon
<1>. QED  BY <1>4, <1>10

\* One hunk more.
LEMMA HunkMore ==
  ASSUME NEW p \in Patch, NEW h \in 0..(Len(p.hunks) - 1)
  PROVE  LET f == FileRead(p, h, BodyLength(p, h))
             b == p.hunks[h + 1]
         IN [f EXCEPT !.hunks = Append(@, [path |-> Or(f.plus, Or(f.to, Or(f.b, Or(f.minus, f.a)))), signs |-> <<>>,
                                           chars |-> b.chars, bytes |-> b.bytes])] = FileRead(p, h + 1, 0)
<1> DEFINE f == FileRead(p, h, BodyLength(p, h))
           b == p.hunks[h + 1]
           v == HunksRead(p, h, BodyLength(p, h))
           w == HunksRead(p, h + 1, 0)
           path == Or(f.plus, Or(f.to, Or(f.b, Or(f.minus, f.a))))
           r == [path |-> path, signs |-> <<>>, chars |-> b.chars, bytes |-> b.bytes]
           R(j) == HunkRead(p, j, BodyLength(p, j))
           q == HunkRead(p, h + 1, 0)
<1>1. h \in Nat
  BY HunksFromIs
<1>2. f = WithHunks(p, v) /\ FileRead(p, h + 1, 0) = WithHunks(p, w)
  BY DEF FileRead, WithHunks
<1>3. path = PathOf(p)
  <2> DEFINE g == HeaderFile(p, "hunks")
  <2>1. f.plus = g.plus /\ f.to = g.to /\ f.b = g.b /\ f.minus = g.minus /\ f.a = g.a
    <3>. HIDE DEF v, f
    <3>. QED  BY <1>2, WithHunksIs
  <2>2. PathOf(p) = Or(g.plus, Or(g.to, Or(g.b, Or(g.minus, g.a))))
    BY DEF PathOf
  <2>. HIDE DEF f, g
  <2>. QED  BY <2>1, <2>2
<1>4. r = q
  <2>1. [x \in 1..0 |-> p.hunks[h + 1].lines[x].sign] = <<>>
    OBVIOUS
  <2>. HIDE DEF path
  <2>. QED  BY <1>3, <2>1 DEF HunkRead
<1>5. v = [j \in 1..h |-> R(j)]
  <2>1. \A j \in 1..h : HunkRead(p, j, IF j < h THEN BodyLength(p, j) ELSE BodyLength(p, h)) = R(j)
    <3> TAKE j \in 1..h
    <3>1. j < h \/ j = h
      BY <1>1
    <3>. QED  BY <3>1
  <2>. HIDE DEF R
  <2>. QED  BY <2>1 DEF HunksRead
<1>6. w = [j \in 1..(h + 1) |-> IF j = h + 1 THEN q ELSE R(j)]
  <2>1. \A j \in 1..(h + 1) : HunkRead(p, j, IF j < h + 1 THEN BodyLength(p, j) ELSE 0) = IF j = h + 1 THEN q ELSE R(j)
    <3> TAKE j \in 1..(h + 1)
    <3>1. j < h + 1 \/ j = h + 1
      BY <1>1
    <3>. QED  BY <1>1, <3>1
  <2>. HIDE DEF R, q
  <2>. QED  BY <2>1 DEF HunksRead
<1>7. Append(v, q) = w
  <2> DEFINE X == {R(j) : j \in 1..h} \cup {q}
  <2>1. q \in X /\ \A j \in 1..h : R(j) \in X
    OBVIOUS
  <2>. HIDE DEF X, R, q, v, w
  <2>2. v \in Seq(X) /\ Len(v) = h /\ w \in Seq(X) /\ Len(w) = h + 1
    BY <1>1, <1>5, <1>6, <2>1
  <2> DEFINE A == Append(v, q)
  <2>3. A \in Seq(X) /\ Len(A) = h + 1 /\ A[h + 1] = q /\ \A j \in 1..h : A[j] = v[j]
    BY <2>1, <2>2, AppendProperties
  <2>. HIDE DEF A
  <2>4. ASSUME NEW j \in 1..(h + 1) PROVE A[j] = w[j]
    <3>1. j = h + 1 \/ (j \in 1..h /\ j # h + 1)
      BY <1>1
    <3>2. w[j] = IF j = h + 1 THEN q ELSE R(j)
      BY <1>6
    <3>3. j \in 1..h => v[j] = R(j)
      BY <1>5
    <3>. QED  BY <2>3, <3>1, <3>2, <3>3
  <2>5. A = w
    BY <2>2, <2>3, <2>4, SeqEqual
  <2>. QED  BY <2>5 DEF A
<1>8. f.hunks = v /\ \A u : [f EXCEPT !.hunks = u] = WithHunks(p, u)
  <2>. HIDE DEF f, v
  <2>. QED  BY <1>2, WithHunksIs
<1>9. [f EXCEPT !.hunks = Append(@, r)] = FileRead(p, h + 1, 0)
  <2>1. [f EXCEPT !.hunks = Append(@, r)] = [f EXCEPT !.hunks = Append(f.hunks, r)]
    <3>. HIDE DEF f, r
    <3>. QED  OBVIOUS
  <2>2. Append(f.hunks, r) = w
    <3>. HIDE DEF f, r, q, v, w
    <3>. QED  BY <1>4, <1>7, <1>8
  <2>3. [f EXCEPT !.hunks = w] = WithHunks(p, w)
    <3>. HIDE DEF f, w
    <3>. QED  BY <1>8
  <2>. HIDE DEF f, w, r
  <2>. QED  BY <1>2, <2>1, <2>2, <2>3
<1>. QED  BY <1>9

\* What is left of a body.
LEMMA RestIs ==
  ASSUME NEW p \in Patch, NEW h \in 1..Len(p.hunks), NEW l \in 0..BodyLength(p, h)
  PROVE  LET bs == BodyStretches(p.hunks[h])
         IN /\ BodyLength(p, h) \in Nat /\ bs \in Seq(Stretch) /\ Len(bs) = BodyLength(p, h)
            /\ BodyRest(p, h, l) \in Seq(Stretch)
            /\ BodyRest(p, h, 0) = bs
            /\ BodyRest(p, h, BodyLength(p, h)) = <<>>
            /\ l # BodyLength(p, h) => BodyRest(p, h, l) = <<bs[l + 1]>> \o BodyRest(p, h, l + 1)
<1> DEFINE b == p.hunks[h]
           bs == BodyStretches(b)
           n == BodyLength(p, h)
<1>1. b \in Bodies /\ h # 0
  <2>1. Len(p.hunks) \in Nat /\ b \in Bodies
    BY HunksFromIs
  <2>. QED  BY <2>1
<1>2. n = Len(b.lines) /\ n \in Nat /\ bs \in Seq(Stretch) /\ Len(bs) = n
  <2>1. Len(b.lines) \in Nat /\ bs \in Seq(Stretch) /\ Len(bs) = Len(b.lines)
    <3>. HIDE DEF b
    <3>. QED  BY <1>1, BodyIs
  <2>2. n = Len(b.lines)
    BY <1>1 DEF BodyLength
  <2>. QED  BY <2>1, <2>2
<1>3. \A j : BodyRest(p, h, j) = SubSeq(bs, j + 1, n)
  BY <1>1, <1>2 DEF BodyRest
<1>. HIDE DEF n, bs, b
<1>4. l \in 0..n
  BY DEF n
<1>5. BodyRest(p, h, l) \in Seq(Stretch)
  <2>1. l + 1 \in Int /\ n \in Int /\ \A i \in (l + 1)..n : bs[i] \in Stretch
    BY <1>2, <1>4
  <2>2. SubSeq(bs, l + 1, n) \in Seq(Stretch)
    BY <2>1, SubSeqProperties
  <2>. QED  BY <1>3, <2>2
<1>6. BodyRest(p, h, 0) = bs
  <2> DEFINE c == SubSeq(bs, 1, n)
  <2>1. c \in Seq(Stretch) /\ Len(c) = n /\ \A i \in 1..n : c[i] = bs[i]
    BY <1>2
  <2>. HIDE DEF c
  <2>2. c = bs
    BY <1>2, <2>1, SeqEqual
  <2>3. BodyRest(p, h, 0) = c
    <3>1. 0 + 1 = 1 /\ BodyRest(p, h, 0) = SubSeq(bs, 0 + 1, n)
      BY <1>3
    <3>. QED  BY <3>1, Zenon DEF c
  <2>. QED  BY <2>2, <2>3
<1>7. BodyRest(p, h, n) = <<>>
  <2>1. SubSeq(bs, n + 1, n) = <<>>
    BY <1>2
  <2>. QED  BY <1>3, <2>1
<1>8. ASSUME l # n
      PROVE  BodyRest(p, h, l) = <<bs[l + 1]>> \o BodyRest(p, h, l + 1)
  <2> DEFINE c == SubSeq(bs, l + 1, n)
             e == SubSeq(bs, l + 2, n)
             x == bs[l + 1]
             g == <<x>> \o e
  <2>1. l + 1 \in 1..n /\ (l + 1) + 1 = l + 2 /\ x \in Stretch
    BY <1>2, <1>4, <1>8
  <2>2. c \in Seq(Stretch) /\ Len(c) = n - l /\ \A i \in 1..(n - l) : c[i] = bs[l + i]
    BY <1>2, <1>4, <2>1
  <2>3. e \in Seq(Stretch) /\ Len(e) = (n - l) - 1 /\ \A i \in 1..((n - l) - 1) : e[i] = bs[(l + 1) + i]
    BY <1>2, <1>4, <2>1
  <2>4. c[1] = x
    <3>1. 1 \in 1..(n - l)
      BY <1>2, <2>1
    <3>. HIDE DEF c
    <3>. QED  BY <2>2, <3>1
  <2>. HIDE DEF c, e, x
  <2>5. g \in Seq(Stretch) /\ Len(g) = n - l /\ g[1] = x /\ \A i \in 1..((n - l) - 1) : g[i + 1] = e[i]
    BY <1>2, <2>1, <2>3
  <2>. HIDE DEF g
  <2>6. ASSUME NEW i \in 1..(n - l) PROVE c[i] = g[i]
    <3>1. CASE i = 1
      BY <2>4, <2>5, <3>1
    <3>2. CASE i # 1
      <4>1. i - 1 \in 1..((n - l) - 1) /\ (i - 1) + 1 = i /\ (l + 1) + (i - 1) = l + i
        BY <1>2, <1>4, <3>2
      <4>2. g[(i - 1) + 1] = e[i - 1] /\ e[i - 1] = bs[(l + 1) + (i - 1)]
        BY <2>3, <2>5, <4>1
      <4>. QED  BY <2>2, <4>1, <4>2
    <3>. QED  BY <3>1, <3>2
  <2>7. c = g
    BY <2>2, <2>5, <2>6, SeqEqual
  <2>8. BodyRest(p, h, l) = c /\ BodyRest(p, h, l + 1) = e
    BY <1>3, <2>1 DEF c, e
  <2>. QED  BY <2>7, <2>8 DEF g, x
<1>. QED  BY <1>2, <1>5, <1>6, <1>7, <1>8 DEF n, bs, b

\* Within a hunk the reading goes on by a line, whatever its text looks like.
LEMMA LineStep ==
  ASSUME NEW d \in Seq(Patch), patches = d, d # <<>>, NEW k \in 1..Len(d), NEW h, NEW l, AtBody(d, k, h, l),
         l # BodyLength(d[k], h), TextNext
  PROVE  UNCHANGED <<patches, files, reviewed>> /\ AtBody(d, k, h, l + 1)'
<1> DEFINE p == d[k]
           b == p.hunks[h]
           n == BodyLength(p, h)
           bs == BodyStretches(b)
           y == bs[l + 1]
           r == BodyRest(p, h, l + 1)
           w == Behind(d, k, h + 1)
           f == FileRead(p, h, l)
<1>1. /\ h \in 0..Len(p.hunks) /\ l \in 0..n /\ l # n
      /\ file = <<f>> /\ lines = SplitLines(BodyRest(p, h, l) \o w)
  BY DEF AtBody
<1>2. p \in Patch /\ Len(p.hunks) \in Nat
  BY BehindIs
<1>3. h \in 1..Len(p.hunks)
  <2>1. h # 0
    BY <1>1 DEF BodyLength
  <2>. HIDE DEF p, n
  <2>. QED  BY <1>1, <1>2, <2>1
<1>4. n \in Nat /\ bs \in Seq(Stretch) /\ Len(bs) = n /\ BodyRest(p, h, l) = <<y>> \o r
  <2>. HIDE DEF p
  <2>. QED  BY <1>1, <1>2, <1>3, RestIs
<1>5. l \in 0..(n - 1) /\ l + 1 \in 1..n /\ l + 1 \in 0..n
  <2>. HIDE DEF n
  <2>. QED  BY <1>1, <1>4
<1>6. r \in Seq(Stretch) /\ w \in Seq(Stretch) /\ y \in Stretch
  <2>1. r \in Seq(Stretch)
    <3>. HIDE DEF p
    <3>. QED  BY <1>2, <1>3, <1>5, RestIs
  <2>2. w \in Seq(Stretch)
    <3>1. h + 1 \in 1..(Len(p.hunks) + 1)
      <4>. HIDE DEF p
      <4>. QED  BY <1>2, <1>3
    <3>. QED  BY <3>1, BehindIs
  <2>3. y \in Stretch
    <3>. HIDE DEF bs, n
    <3>. QED  BY <1>4, <1>5
  <2>. QED  BY <2>1, <2>2, <2>3
<1>7. lines # <<>> /\ Head(lines) = y[1] /\ Tail(lines) = SplitLines(r \o w)
  <2> DEFINE rw == r \o w
  <2>. HIDE DEF y, r, w, p, n, bs, b
  <2>1. <<y>> \in Seq(Stretch)
    BY <1>6
  <2>2. (<<y>> \o r) \o w = <<y>> \o rw /\ rw \in Seq(Stretch)
    BY <1>6, <2>1, ConcatAssociative, ConcatProperties
  <2>3. lines = SplitLines(<<y>> \o rw)
    BY <1>1, <1>4, <2>2
  <2>. HIDE DEF rw
  <2>4. lines # <<>> /\ Head(lines) = y[1] /\ Tail(lines) = SplitLines(rw)
    BY <1>6, <2>2, <2>3, Consumed
  <2>. QED  BY <2>4 DEF rw
<1>8. /\ Begins \notin {"git", "hunk"}
      /\ SignOf(Head(lines).starts) = b.lines[l + 1].sign
  <2> DEFINE s == StartsOf(b.lines[l + 1])
  <2>1. b \in Bodies /\ n = Len(b.lines)
    <3>1. h # 0
      BY <1>2, <1>3
    <3>. QED  BY <1>2, <1>3, <3>1, HunksFromIs DEF BodyLength
  <2>2. l + 1 \in 1..Len(b.lines)
    <3>. HIDE DEF n, b
    <3>. QED  BY <1>5, <2>1
  <2>3. y[1] = Line(s, <<>>) /\ s \notin {"git", "hunk"} /\ SignOf(s) = b.lines[l + 1].sign
    <3>. HIDE DEF b
    <3>. QED  BY <2>1, <2>2, BodyIs
  <2>4. Head(lines).starts = s
    <3>1. Line(s, <<>>).starts = s
      BY LineSays
    <3>. HIDE DEF y, s
    <3>. QED  BY <1>7, <2>3, <3>1
  <2>. HIDE DEF s, b
  <2>. QED  BY <2>3, <2>4 DEF Begins
<1>9. Len(f.hunks) = h /\ f.hunks # <<>>
      /\ [f EXCEPT !.hunks[h].signs = Append(@, b.lines[l + 1].sign)] = FileRead(p, h, l + 1)
  <2>. HIDE DEF p
  <2>. QED  BY <1>2, <1>3, <1>5, LineMore
<1>10. BodyLine
  <2>1. ~BeforeHunks
    <3>. HIDE DEF f
    <3>. QED  BY <1>1, <1>9 DEF BeforeHunks
  <2>. QED  BY <1>7, <1>8, <2>1, Guards DEF TextNext
<1>11. /\ file' = <<FileRead(p, h, l + 1)>> /\ lines' = SplitLines(r \o w)
       /\ UNCHANGED <<patches, files, reviewed>>
  <2> DEFINE s == b.lines[l + 1].sign
  <2>. HIDE DEF f, r, w, s, p
  <2>1. file[1] = f
    BY <1>1
  <2>2. /\ file' = <<[file[1] EXCEPT !.hunks[Len(file[1].hunks)].signs = Append(@, SignOf(Head(lines).starts))]>>
        /\ lines' = Tail(lines) /\ UNCHANGED <<patches, files, reviewed>>
    BY <1>10 DEF BodyLine, Becomes
  <2>3. file' = <<[f EXCEPT !.hunks[h].signs = Append(@, s)]>>
    BY <1>8, <1>9, <2>1, <2>2 DEF s
  <2>. QED  BY <1>7, <1>9, <2>2, <2>3 DEF s
<1>12. AtBody(d, k, h, l + 1)'
  BY <1>1, <1>5, <1>11 DEF AtBody
<1>. QED  BY <1>11, <1>12

\* Behind a hunk the next one begins.
LEMMA HunkStep ==
  ASSUME NEW d \in Seq(Patch), patches = d, d # <<>>, NEW k \in 1..Len(d), NEW h, AtBody(d, k, h, BodyLength(d[k], h)),
         h # Len(d[k].hunks), TextNext
  PROVE  UNCHANGED <<patches, files, reviewed>> /\ AtBody(d, k, h + 1, 0)'
<1> DEFINE p == d[k]
           n == BodyLength(p, h)
           b == p.hunks[h + 1]
           x == HunkLine(b)
           y == <<x>>
           bs == BodyStretches(b)
           w == Behind(d, k, h + 2)
           f == FileRead(p, h, n)
           path == Or(f.plus, Or(f.to, Or(f.b, Or(f.minus, f.a))))
<1>1. /\ h \in 0..Len(p.hunks) /\ h # Len(p.hunks)
      /\ file = <<f>> /\ lines = SplitLines(BodyRest(p, h, n) \o Behind(d, k, h + 1))
  BY DEF AtBody
<1>2. p \in Patch /\ Len(p.hunks) \in Nat
  BY BehindIs
<1>3. h \in 0..(Len(p.hunks) - 1) /\ h + 1 \in 1..Len(p.hunks) /\ h + 1 \in 1..(Len(p.hunks) + 1)
      /\ h + 1 \in 0..Len(p.hunks) /\ h + 2 \in 1..(Len(p.hunks) + 1) /\ (h + 1) + 1 = h + 2
  <2>. HIDE DEF p
  <2>. QED  BY <1>1, <1>2
<1>4. BodyRest(p, h, n) = <<>>
  <2>1. CASE h = 0
    BY <2>1 DEF BodyRest
  <2>2. CASE h # 0
    <3>1. h \in 1..Len(p.hunks)
      <4>. HIDE DEF p
      <4>. QED  BY <1>2, <1>3, <2>2
    <3>2. n \in Nat
      <4>1. p.hunks[h] \in Bodies /\ n = Len(p.hunks[h].lines)
        BY <1>2, <2>2, <3>1, HunksFromIs DEF BodyLength
      <4> DEFINE c == p.hunks[h]
      <4>. HIDE DEF n, p
      <4>2. Len(c.lines) \in Nat
        <5>1. c \in Bodies
          BY <4>1
        <5>. HIDE DEF c
        <5>. QED  BY <5>1, BodyIs
      <4>. QED  BY <4>1, <4>2
    <3>3. n \in 0..n
      <4>. HIDE DEF n
      <4>. QED  BY <3>2
    <3>. HIDE DEF p
    <3>. QED  BY <1>2, <3>1, <3>3, RestIs
  <2>. QED  BY <2>1, <2>2
<1>5. b \in Bodies /\ y \in Stretch /\ bs \in Seq(Stretch) /\ w \in Seq(Stretch)
      /\ Behind(d, k, h + 1) = <<y>> \o (bs \o w) /\ Behind(d, k, h + 1) \in Seq(Stretch)
  <2>1. b \in Bodies
    BY <1>2, <1>3, HunksFromIs
  <2>2. y \in Stretch /\ bs \in Seq(Stretch)
    <3>. HIDE DEF b
    <3>. QED  BY <2>1, HunkIs
  <2>3. w \in Seq(Stretch) /\ Behind(d, k, h + 1) \in Seq(Stretch)
    BY <1>3, BehindIs
  <2>4. Behind(d, k, h + 1) = <<y>> \o (bs \o Behind(d, k, (h + 1) + 1))
    BY <1>3, BehindIs
  <2>. QED  BY <1>3, <2>1, <2>2, <2>3, <2>4
<1>6. lines # <<>> /\ Head(lines) = x /\ Tail(lines) = SplitLines(bs \o w)
  <2> DEFINE bw == bs \o w
             bh == Behind(d, k, h + 1)
  <2>0. y[1] = x
    OBVIOUS
  <2>1. bh = <<y>> \o bw /\ bh \in Seq(Stretch) /\ lines = SplitLines(<<>> \o bh)
    BY <1>1, <1>4, <1>5
  <2>. HIDE DEF y, bs, w, p, n, b, x, bh
  <2>2. bw \in Seq(Stretch) /\ <<>> \o bh = bh
    <3>1. bs \in Seq(Stretch) /\ w \in Seq(Stretch)
      BY <1>5
    <3>2. bw \in Seq(Stretch)
      BY <3>1, ConcatProperties
    <3>3. <<>> \o bh = bh
      BY <2>1, ConcatEmptySeq
    <3>. QED  BY <3>2, <3>3
  <2>. HIDE DEF bw
  <2>3. lines # <<>> /\ Head(lines) = y[1] /\ Tail(lines) = SplitLines(bw)
    BY <1>5, <2>1, <2>2, Consumed
  <2>. QED  BY <2>0, <2>3 DEF bw
<1>7. x.body = b /\ x.starts = "hunk"
  BY LineSays
<1>8. StartHunk
  <2>1. Begins = "hunk"
    <3>. HIDE DEF x
    <3>. QED  BY <1>6, <1>7 DEF Begins
  <2>. QED  BY <1>6, <2>1, Guards DEF TextNext
<1> DEFINE rec == [path |-> path, signs |-> <<>>, chars |-> b.chars, bytes |-> b.bytes]
<1>9. [f EXCEPT !.hunks = Append(@, rec)] = FileRead(p, h + 1, 0)
  <2>. HIDE DEF p
  <2>. QED  BY <1>2, <1>3, HunkMore
<1>10. /\ file' = <<FileRead(p, h + 1, 0)>> /\ lines' = SplitLines(bs \o w)
       /\ UNCHANGED <<patches, files, reviewed>>
  <2> DEFINE c == Head(lines).body
             g == file[1]
             gp == Or(g.plus, Or(g.to, Or(g.b, Or(g.minus, g.a))))
  <2>1. g = f /\ c = b
    <3>. HIDE DEF f, x, b
    <3>. QED  BY <1>1, <1>6, <1>7
  <2>2. /\ file' = <<[g EXCEPT !.hunks = Append(@, [path |-> gp, signs |-> <<>>, chars |-> c.chars, bytes |-> c.bytes])]>>
        /\ lines' = Tail(lines) /\ UNCHANGED <<patches, files, reviewed>>
    BY <1>8 DEF StartHunk, Becomes
  <2>3. gp = path
    <3>. HIDE DEF g, f
    <3>. QED  BY <2>1
  <2>4. file' = <<[f EXCEPT !.hunks = Append(@, rec)]>>
    <3>. HIDE DEF f, g, gp, path, b, c
    <3>. QED  BY <2>1, <2>2, <2>3
  <2>. HIDE DEF f, rec, bs, w, p
  <2>. QED  BY <1>6, <1>9, <2>2, <2>4
<1>11. BodyRest(p, h + 1, 0) = bs /\ 0 \in 0..BodyLength(p, h + 1)
  <2>1. BodyLength(p, h + 1) \in Nat
    <3>1. h + 1 # 0
      BY <1>2, <1>3
    <3>2. BodyLength(p, h + 1) = Len(b.lines)
      BY <3>1 DEF BodyLength
    <3>. HIDE DEF b, p
    <3>. QED  BY <1>5, <3>2, BodyIs
  <2>2. 0 \in 0..BodyLength(p, h + 1)
    <3>. HIDE DEF p
    <3>. QED  BY <2>1
  <2>. HIDE DEF p
  <2>. QED  BY <1>2, <1>3, <2>2, RestIs
<1>12. AtBody(d, k, h + 1, 0)'
  <2>1. file' = <<FileRead(d[k], h + 1, 0)>> /\ lines' = SplitLines(BodyRest(d[k], h + 1, 0) \o Behind(d, k, (h + 1) + 1))
    <3>. HIDE DEF bs
    <3>. QED  BY <1>3, <1>10, <1>11
  <2>. QED  BY <1>3, <1>11, <2>1 DEF AtBody
<1>. QED  BY <1>10, <1>12

\* Behind the last hunk of a file the next file begins.
LEMMA FileEnds ==
  ASSUME NEW d \in Seq(Patch), NEW k \in 1..Len(d), AtBody(d, k, Len(d[k].hunks), BodyLength(d[k], Len(d[k].hunks)))
  PROVE  file = <<WholeFile(d[k])>> /\ lines = SplitLines(TextFrom(d, k + 1))
<1> DEFINE p == d[k]
           h == Len(p.hunks)
           n == BodyLength(p, h)
           u == TextFrom(d, k + 1)
<1>1. p \in Patch /\ h \in Nat /\ u \in Seq(Stretch) /\ Behind(d, k, h + 1) = u
  BY BehindIs
<1>2. file = <<FileRead(p, h, n)>> /\ lines = SplitLines(BodyRest(p, h, n) \o Behind(d, k, h + 1)) /\ n \in 0..n
  BY DEF AtBody
<1>3. BodyRest(p, h, n) = <<>>
  <2>1. CASE h = 0
    BY <2>1 DEF BodyRest
  <2>2. CASE h # 0
    <3>1. h \in 1..Len(p.hunks)
      <4>1. h \in 1..h
        <5>. HIDE DEF h
        <5>. QED  BY <1>1, <2>2
      <4>. QED  BY <4>1
    <3>. HIDE DEF p, h, n
    <3>2. \A i \in 1..Len(p.hunks) : \A l \in 0..BodyLength(p, i) : BodyRest(p, i, BodyLength(p, i)) = <<>>
      BY <1>1, RestIs
    <3>. QED  BY <1>2, <3>1, <3>2 DEF n
  <2>. QED  BY <2>1, <2>2
<1>4. <<>> \o u = u
  <2>. HIDE DEF u
  <2>. QED  BY <1>1, ConcatEmptySeq
<1>. QED  BY <1>1, <1>2, <1>3, <1>4 DEF WholeFile

\* The files of the first n patches, read whole, and those of them that are reviewed.
Whole(d, n) == [i \in 1..n |-> Parsed(WholeFile(d[i]))]
Kept(d) == {i \in 1..Len(d) : ~IsFilterable(Parsed(WholeFile(d[i]))) /\ ~ChangeExceeds(Parsed(WholeFile(d[i])))}

\* The invariant: every file behind the reading is read whole, and the reading stands at
\* a line of a header, at a line of a hunk, or at the end.
Unread == patches = <<>> /\ lines = <<>> /\ file = <<>> /\ files = <<>> /\ reviewed = Unfiltered
Begun(d) == file = <<>> /\ files = <<>> /\ lines = SplitLines(TextFrom(d, 1))
Within(d) == \E k \in 1..Len(d) :
    /\ files = Whole(d, k - 1)
    /\ (\E st : AtHeader(d, k, st)) \/ (\E h, l : AtBody(d, k, h, l))
ReadOut(d) == reviewed = Kept(d) /\ lines = <<>> /\ file = <<>> /\ files = Whole(d, Len(d))
TextInv ==
    \/ Unread
    \/ /\ patches \in Diffs /\ patches # <<>>
       /\ \/ reviewed = Unfiltered /\ (Begun(patches) \/ Within(patches))
          \/ ReadOut(patches)

\* The files read whole, and one more.
LEMMA WholeOn ==
  ASSUME NEW d, NEW k \in Nat \ {0}, NEW w, w = WholeFile(d[k])
  PROVE  Whole(d, k - 1) \o [i \in DOMAIN <<w>> |-> Parsed(<<w>>[i])] = Whole(d, k)
<1> DEFINE P(i) == Parsed(WholeFile(d[i]))
           s == Whole(d, k - 1)
           t == Whole(d, k)
           u == [i \in DOMAIN <<w>> |-> Parsed(<<w>>[i])]
           X == {P(i) : i \in 1..k}
           c == s \o u
<1>1. u = <<P(k)>>
  <2> DEFINE ww == <<w>>
  <2>1. Len(ww) = 1 /\ DOMAIN ww = 1..1 /\ ww[1] = w
    OBVIOUS
  <2>2. \A i \in 1..1 : i = 1
    OBVIOUS
  <2>. HIDE DEF ww
  <2>3. [i \in DOMAIN ww |-> Parsed(ww[i])] = [i \in 1..1 |-> P(k)]
    BY <2>1, <2>2
  <2>4. [i \in 1..1 |-> P(k)] = <<P(k)>>
    <3> DEFINE q == P(k)
    <3>. HIDE DEF P, q
    <3>1. [i \in 1..1 |-> q] \in Seq({q}) /\ <<q>> \in Seq({q}) /\ Len([i \in 1..1 |-> q]) = 1 /\ Len(<<q>>) = 1
          /\ [i \in 1..1 |-> q][1] = q /\ <<q>>[1] = q
      OBVIOUS
    <3> DEFINE aa == [i \in 1..1 |-> q]
               bb == <<q>>
    <3>2. aa \in Seq({q}) /\ bb \in Seq({q}) /\ Len(aa) = 1 /\ Len(bb) = 1 /\ aa[1] = bb[1]
      BY <3>1
    <3>. HIDE DEF aa, bb
    <3>3. aa = bb
      <4>1. \A i \in 1..Len(aa) : aa[i] = bb[i]
        BY <3>2
      <4>. QED  BY <3>2, <4>1, SeqEqual
    <3>. QED  BY <3>3 DEF aa, bb, q
  <2>. QED  BY <2>3, <2>4 DEF ww
<1>2. \A i \in 1..k : P(i) \in X
  OBVIOUS
<1>3. s = [i \in 1..(k - 1) |-> P(i)] /\ t = [i \in 1..k |-> P(i)]
  BY DEF Whole
<1>. HIDE DEF P, s, t, u, X
<1>4. s \in Seq(X) /\ Len(s) = k - 1 /\ t \in Seq(X) /\ Len(t) = k
  BY <1>2, <1>3
<1>5. u \in Seq(X) /\ Len(u) = 1 /\ u[1] = P(k)
  <2>1. P(k) \in X
    BY <1>2
  <2> DEFINE q == P(k)
  <2>2. q \in X /\ u = <<q>>
    BY <1>1, <2>1
  <2>. HIDE DEF q
  <2>3. u \in Seq(X) /\ Len(u) = 1 /\ u[1] = q
    BY <2>2
  <2>. QED  BY <2>3 DEF q
<1>6. c \in Seq(X) /\ Len(c) = k /\ \A i \in 1..k : c[i] = IF i <= k - 1 THEN s[i] ELSE u[i - (k - 1)]
  <2>1. /\ c \in Seq(X) /\ Len(c) = Len(s) + Len(u)
        /\ \A i \in 1..(Len(s) + Len(u)) : c[i] = IF i <= Len(s) THEN s[i] ELSE u[i - Len(s)]
    BY <1>4, <1>5, ConcatProperties
  <2>2. Len(s) = k - 1 /\ Len(u) = 1 /\ (k - 1) + 1 = k
    BY <1>4, <1>5
  <2>. HIDE DEF c
  <2>. QED  BY <2>1, <2>2
<1>. HIDE DEF c
<1>7. ASSUME NEW i \in 1..k PROVE c[i] = t[i]
  <2>1. CASE i <= k - 1
    <3>1. s[i] = P(i) /\ t[i] = P(i)
      BY <1>3, <2>1
    <3>. QED  BY <1>6, <2>1, <3>1
  <2>2. CASE ~(i <= k - 1)
    <3>1. i = k /\ i - (k - 1) = 1 /\ t[i] = P(k)
      BY <1>3, <2>2
    <3>. QED  BY <1>5, <1>6, <2>2, <3>1
  <2>. QED  BY <2>1, <2>2
<1>8. c = t
  BY <1>4, <1>6, <1>7, SeqEqual
<1>. QED  BY <1>8 DEF c, s, t, u

\* Each turn of the reading keeps the invariant.
LEMMA TextStep ==
  ASSUME TextInv, TextNext
  PROVE  TextInv'
<1>1. CASE Unread
  <2>1. GiveDiff
    BY <1>1, Guards DEF TextNext, Unread, EndDiff
  <2>2. PICK d : d = patches'
    OBVIOUS
  <2>3. d \in Diffs /\ lines' = SplitLines(TextFrom(d, 1)) /\ UNCHANGED <<file, files, reviewed>>
    <3>1. patches' \in Diffs /\ lines' = SplitLines(Joined([i \in DOMAIN d |-> PatchStretches(d[i])]))
          /\ UNCHANGED <<file, files, reviewed>>
      BY <2>1, <2>2 DEF GiveDiff
    <3>2. d \in Seq(Patch)
      BY <2>2, <3>1, DiffTextAssumption
    <3>3. TextFrom(d, 1) = Joined([i \in DOMAIN d |-> PatchStretches(d[i])])
      BY <3>2, TextFromIs
    <3>. QED  BY <2>2, <3>1, <3>3
  <2>4. CASE d = <<>>
    <3>1. TextFrom(d, 1) = <<>>
      <4>1. d \in Seq(Patch) /\ Len(d) + 1 = 1
        BY <2>4
      <4>2. TextFrom(d, Len(d) + 1) = <<>>
        BY <4>1, TextFromIs
      <4>. QED  BY <4>1, <4>2
    <3>. QED  BY <1>1, <2>2, <2>3, <2>4, <3>1, NothingLeft DEF TextInv, Unread
  <2>5. CASE d # <<>>
    BY <1>1, <2>2, <2>3, <2>5 DEF TextInv, Unread, Begun
  <2>. QED  BY <2>4, <2>5
<1>2. CASE patches \in Diffs /\ patches # <<>> /\ reviewed = Unfiltered /\ Begun(patches)
  <2>1. PICK d : d = patches
    OBVIOUS
  <2>2. d \in Seq(Patch) /\ d # <<>> /\ 1 \in 1..Len(d)
    <3>1. d \in Seq(Patch) /\ d # <<>>
      BY <1>2, <2>1, DiffTextAssumption
    <3>. QED  BY <3>1
  <2>3. /\ files' = files \o [i \in DOMAIN file |-> Parsed(file[i])] /\ UNCHANGED <<patches, reviewed>>
        /\ \E s : AtHeader(d, 1, s)'
    BY <1>2, <2>1, <2>2, FileStep DEF Begun
  <2>4. files' = Whole(d, 1 - 1)
    <3>1. files = <<>> /\ file = <<>>
      BY <1>2 DEF Begun
    <3>2. [i \in DOMAIN <<>> |-> Parsed(<<>>[i])] = <<>> /\ <<>> \o <<>> = <<>>
      OBVIOUS
    <3>3. Whole(d, 1 - 1) = <<>>
      BY DEF Whole
    <3>. QED  BY <2>3, <3>1, <3>2, <3>3
  <2>5. Within(d)'
    BY <2>2, <2>3, <2>4 DEF Within
  <2>. QED  BY <1>2, <2>1, <2>3, <2>5 DEF TextInv
<1>3. CASE patches \in Diffs /\ patches # <<>> /\ reviewed = Unfiltered /\ Within(patches)
  <2>1. PICK d : d = patches
    OBVIOUS
  <2>2. d \in Seq(Patch) /\ d # <<>> /\ d \in Diffs
    BY <1>3, <2>1, DiffTextAssumption
  <2>3. PICK k \in 1..Len(d) : /\ files = Whole(d, k - 1)
                               /\ (\E st : AtHeader(d, k, st)) \/ (\E h, l : AtBody(d, k, h, l))
    BY <1>3, <2>1 DEF Within
  <2>4. ASSUME UNCHANGED <<patches, files, reviewed>>,
               (\E s : AtHeader(d, k, s)') \/ (\E h, l : AtBody(d, k, h, l)')
        PROVE  TextInv'
    <3>1. Within(d)'
      BY <2>3, <2>4 DEF Within
    <3>. QED  BY <1>3, <2>1, <2>4, <3>1 DEF TextInv
  <2>5. CASE \E st : AtHeader(d, k, st)
    BY <2>1, <2>2, <2>4, <2>5, HeaderStep
  <2>6. CASE \E h, l : AtBody(d, k, h, l)
    <3>1. PICK h, l : AtBody(d, k, h, l)
      BY <2>6
    <3>2. CASE l # BodyLength(d[k], h)
      BY <2>1, <2>2, <2>4, <3>1, <3>2, LineStep
    <3>3. CASE l = BodyLength(d[k], h) /\ h # Len(d[k].hunks)
      BY <2>1, <2>2, <2>4, <3>1, <3>3, HunkStep
    <3>4. CASE l = BodyLength(d[k], h) /\ h = Len(d[k].hunks)
      <4>1. file = <<WholeFile(d[k])>> /\ lines = SplitLines(TextFrom(d, k + 1))
        BY <2>2, <3>1, <3>4, FileEnds
      <4> DEFINE more == files \o [i \in DOMAIN file |-> Parsed(file[i])]
      <4>2. more = Whole(d, k)
        <5> DEFINE w == WholeFile(d[k])
        <5>1. k \in Nat \ {0}
          BY <2>2
        <5>2. Whole(d, k - 1) \o [i \in DOMAIN <<w>> |-> Parsed(<<w>>[i])] = Whole(d, k)
          BY <5>1, WholeOn
        <5>. HIDE DEF w
        <5>3. file = <<w>>
          BY <4>1 DEF w
        <5>. QED  BY <2>3, <5>2, <5>3
      <4>. HIDE DEF more
      <4>3. CASE k # Len(d)
        <5>1. k + 1 \in 1..Len(d) /\ (k + 1) - 1 = k
          BY <2>2, <4>3
        <5>2. files' = more /\ UNCHANGED <<patches, reviewed>> /\ \E s : AtHeader(d, k + 1, s)'
          BY <2>1, <2>2, <4>1, <5>1, FileStep DEF more
        <5>3. Within(d)'
          BY <4>2, <5>1, <5>2 DEF Within
        <5>. QED  BY <1>3, <2>1, <5>2, <5>3 DEF TextInv
      <4>4. CASE k = Len(d)
        <5>1. lines = <<>>
          BY <2>2, <4>1, <4>4, TextFromIs, NothingLeft
        <5>2. EndDiff
          BY <1>3, <5>1, Guards DEF TextNext
        <5>3. /\ files' = more /\ file' = <<>> /\ UNCHANGED <<patches, lines>>
              /\ reviewed' = {i \in DOMAIN files' : ~IsFilterable(files'[i]) /\ ~ChangeExceeds(files'[i])}
          BY <5>2 DEF EndDiff, more
        <5>4. DOMAIN files' = 1..Len(d) /\ \A i \in 1..Len(d) : files'[i] = Parsed(WholeFile(d[i]))
          BY <4>2, <4>4, <5>3 DEF Whole
        <5>5. reviewed' = Kept(d)
          BY <5>3, <5>4 DEF Kept
        <5>6. ReadOut(d)'
          BY <4>2, <4>4, <5>1, <5>3, <5>5 DEF ReadOut
        <5>. QED  BY <1>3, <2>1, <5>3, <5>6 DEF TextInv
      <4>. QED  BY <4>3, <4>4
    <3>. QED  BY <3>2, <3>3, <3>4
  <2>. QED  BY <2>3, <2>5, <2>6
<1>4. CASE patches \in Diffs /\ patches # <<>> /\ ReadOut(patches)
  <2>1. lines = <<>> /\ reviewed = Kept(patches)
    BY <1>4 DEF ReadOut
  <2>2. EndDiff
    BY <1>4, <2>1, Guards DEF TextNext
  <2>3. reviewed = Unfiltered
    BY <2>2, Guards
  <2>4. 0 \in Kept(patches) /\ 0 \notin 1..Len(patches)
    <3>1. Len(patches) \in Nat
      BY <1>4, DiffTextAssumption
    <3>. QED  BY <2>1, <2>3, <3>1 DEF Unfiltered
  <2>. QED  BY <2>4 DEF Kept
<1>. QED  BY <1>1, <1>2, <1>3, <1>4 DEF TextInv

\* ---- what was read -----------------------------------------------------------

\* What the header of a patch says.
LEMMA HeaderSays ==
  ASSUME NEW p
  PROVE  LET g == HeaderFile(p, "hunks")
         IN /\ g.a = Cut(p)[1] /\ g.b = Cut(p)[2]
            /\ g.minus = IF p.content = "text" THEN OldName(p) ELSE Nothing
            /\ g.plus = IF p.content = "text" THEN NewName(p) ELSE Nothing
            /\ g.from = IF p.change = "renamed" THEN p.old ELSE Nothing
            /\ g.to = IF p.change = "renamed" THEN p.new ELSE Nothing
            /\ g.binary = (p.content = "binary")
            /\ g.deleted = (p.change = "deleted") /\ g.added = (p.change = "added")
BY DEF HeaderFile, FileOf

\* Two names without quotes are parted rightly unless " b/" is in the first.
LEMMA CutIs ==
  ASSUME NEW p \in Patch, p.old \notin Ambiguous
  PROVE  Cut(p)[1] = p.old /\ Cut(p)[2] = p.new
<1> DEFINE a == Raw(p.old)
           b == Raw(p.new)
           t == Line("git", <<p.old, p.new>>).names
<1>1. p.old \in Names /\ p.new \in Names /\ QuoteMark \notin Ambiguous
  BY DiffTextAssumption DEF Patch
<1>2. t[1] = a /\ t[2] = b
  BY DEF Line
<1>3. a[1] \notin Ambiguous
  BY <1>1 DEF Raw
<1>4. Unquote(a) = p.old /\ Unquote(b) = p.new
  <2>. HIDE DEF a, b
  <2>1. \A n \in Names : Unquote(Raw(n)) = n
    BY NamesAreRead
  <2>. QED  BY <1>1, <2>1 DEF a, b
<1>. HIDE DEF a, b, t
<1>5. PathsFromGitHeader(t) = <<Unquote(t[1]), Unquote(t[2])>>
  BY <1>2, <1>3 DEF PathsFromGitHeader
<1>6. Cut(p) = <<p.old, p.new>>
  BY <1>2, <1>4, <1>5 DEF Cut, t
<1>. QED  BY <1>6

\* What was read of a patch is what its header says, and all of its hunks.
LEMMA WholeIs ==
  ASSUME NEW p \in Patch
  PROVE  LET f == WholeFile(p)
             g == HeaderFile(p, "hunks")
         IN /\ f.a = g.a /\ f.b = g.b /\ f.minus = g.minus /\ f.plus = g.plus /\ f.from = g.from /\ f.to = g.to
            /\ f.binary = g.binary /\ f.deleted = g.deleted /\ f.added = g.added
            /\ Len(f.hunks) = Len(p.hunks) /\ (f.hunks = <<>> <=> p.hunks = <<>>)
            /\ \A h \in 1..Len(p.hunks) : f.hunks[h] = HunkRead(p, h, BodyLength(p, h))
<1> DEFINE f == WholeFile(p)
           g == HeaderFile(p, "hunks")
           n == Len(p.hunks)
           v == HunksRead(p, n, BodyLength(p, n))
<1>1. f = WithHunks(p, v)
  BY DEF WholeFile, FileRead, WithHunks
<1>2. /\ f.a = g.a /\ f.b = g.b /\ f.minus = g.minus /\ f.plus = g.plus /\ f.from = g.from /\ f.to = g.to
      /\ f.binary = g.binary /\ f.deleted = g.deleted /\ f.added = g.added /\ f.hunks = v
  <2>. HIDE DEF f, v, g
  <2>. QED  BY <1>1, WithHunksIs DEF g
<1>3. n \in Nat /\ (p.hunks = <<>> <=> n = 0)
  <2>1. p.hunks \in Seq(Bodies)
    BY DEF Patch
  <2>. QED  BY <2>1
<1>4. v = [j \in 1..n |-> HunkRead(p, j, BodyLength(p, j))]
  <2>1. \A j \in 1..n : HunkRead(p, j, IF j < n THEN BodyLength(p, j) ELSE BodyLength(p, n)) = HunkRead(p, j, BodyLength(p, j))
    <3> TAKE j \in 1..n
    <3>1. j < n \/ j = n
      <4>. HIDE DEF n
      <4>. QED  BY <1>3
    <3>. QED  BY <3>1
  <2>. QED  BY <2>1 DEF HunksRead
<1>5. Len(v) = n /\ (v = <<>> <=> n = 0) /\ \A h \in 1..n : v[h] = HunkRead(p, h, BodyLength(p, h))
  <2> DEFINE R(j) == HunkRead(p, j, BodyLength(p, j))
  <2>. HIDE DEF v, n, R
  <2>1. v = [j \in 1..n |-> R(j)]
    BY <1>4 DEF R
  <2>2. Len(v) = n /\ (v = <<>> <=> n = 0) /\ \A h \in 1..n : v[h] = R(h)
    BY <1>3, <2>1
  <2>. QED  BY <2>2 DEF R
<1>. HIDE DEF f, g, v, n
<1>6. Len(f.hunks) = n /\ (f.hunks = <<>> <=> p.hunks = <<>>) /\ \A h \in 1..n : f.hunks[h] = HunkRead(p, h, BodyLength(p, h))
  BY <1>2, <1>3, <1>5
<1>. QED  BY <1>2, <1>6 DEF f, g, n

\* The names that come out of a file read whole.
LEMMA NamesAreRight ==
  ASSUME NEW p \in Patch, p.old # p.new <=> p.change = "renamed", p.hunks # <<>> <=> p.content = "text",
         p.old \notin Ambiguous \/ p.change = "renamed" \/ (p.change = "modified" /\ p.content = "text")
  PROVE  LET f == Parsed(WholeFile(p))
         IN /\ f.path = IF p.change = "deleted" THEN p.old ELSE p.new
            /\ f.oldPath = IF p.change = "renamed" THEN p.old ELSE Nothing
<1> DEFINE w == WholeFile(p)
           g == HeaderFile(p, "hunks")
           old == Or(w.minus, Or(w.from, w.a))
           new == Or(w.plus, Or(w.to, w.b))
           f == Parsed(w)
           a == g.a
           b == g.b
           mi == g.minus
           pl == g.plus
           fr == g.from
           to == g.to
<1>1. /\ p.old \in Names /\ p.new \in Names /\ Nothing \notin Names
      /\ p.change \in {"modified", "added", "deleted", "renamed"} /\ p.content \in {"text", "binary", "none"}
  BY DiffTextAssumption DEF Patch, Changes_
<1>2. p.old \notin Ambiguous => a = p.old /\ b = p.new
  BY HeaderSays, CutIs
<1>3. /\ mi = IF p.content = "text" THEN OldName(p) ELSE Nothing
      /\ pl = IF p.content = "text" THEN NewName(p) ELSE Nothing
      /\ fr = IF p.change = "renamed" THEN p.old ELSE Nothing
      /\ to = IF p.change = "renamed" THEN p.new ELSE Nothing
  BY HeaderSays
<1>4. old = Or(mi, Or(fr, a)) /\ new = Or(pl, Or(to, b)) /\ w.from = fr
  <2>1. w.a = a /\ w.b = b /\ w.minus = mi /\ w.plus = pl /\ w.from = fr /\ w.to = to
    BY WholeIs
  <2>. HIDE DEF w, a, b, mi, pl, fr, to
  <2>. QED  BY <2>1
<1>5. PathOf(p) = Or(pl, Or(to, Or(b, Or(mi, a))))
  BY DEF PathOf
<1>. HIDE DEF a, b, mi, pl, fr, to, g
<1>6. old = p.old /\ new = p.new /\ (p.content = "text" => PathOf(p) = p.new)
  <2>. HIDE DEF old, new
  <2>1. CASE p.change = "renamed"
    BY <1>1, <1>3, <1>4, <1>5, <2>1 DEF Or, OldName, NewName
  <2>2. CASE p.change = "modified" /\ p.content = "text"
    BY <1>1, <1>3, <1>4, <1>5, <2>2 DEF Or, OldName, NewName
  <2>3. CASE p.old \notin Ambiguous /\ p.change # "renamed"
    BY <1>1, <1>2, <1>3, <1>4, <1>5, <2>3 DEF Or, OldName, NewName
  <2>. QED  BY <2>1, <2>2, <2>3
<1>7. p.change = "deleted" => p.old = p.new
  OBVIOUS
<1>8. p.hunks # <<>> => w.hunks[1].path = PathOf(p)
  <2>1. p.hunks # <<>> => 1 \in 1..Len(p.hunks)
    <3>1. p.hunks \in Seq(Bodies)
      BY DEF Patch
    <3>. QED  BY <3>1
  <2>2. \A h \in 1..Len(p.hunks) : w.hunks[h] = HunkRead(p, h, BodyLength(p, h))
    BY WholeIs
  <2>3. p.hunks # <<>> => w.hunks[1] = HunkRead(p, 1, BodyLength(p, 1))
    <3>. HIDE DEF w
    <3>. QED  BY <2>1, <2>2
  <2>4. HunkRead(p, 1, BodyLength(p, 1)).path = PathOf(p)
    BY DEF HunkRead
  <2>. HIDE DEF w
  <2>. QED  BY <2>3, <2>4
<1>9. w.hunks = <<>> <=> p.hunks = <<>>
  BY WholeIs
<1>10. /\ f.path = IF w.hunks # <<>> THEN w.hunks[1].path ELSE Or(new, old)
       /\ f.oldPath = IF w.from # Nothing \/ new # old THEN old ELSE Nothing
  <2>. HIDE DEF w
  <2>. QED  BY DEF Parsed
<1>. HIDE DEF f, w, old, new
<1>11. f.path = p.new
  BY <1>1, <1>6, <1>8, <1>9, <1>10 DEF Or
<1>12. f.oldPath = IF p.change = "renamed" THEN p.old ELSE Nothing
  BY <1>1, <1>3, <1>4, <1>6, <1>10
<1>. QED  BY <1>7, <1>11, <1>12 DEF f, w

\* The hunks that come out of a file read whole.
LEMMA HunksAreRight ==
  ASSUME NEW p \in Patch
  PROVE  LET f == Parsed(WholeFile(p))
         IN /\ Len(f.hunks) = Len(p.hunks)
            /\ \A h \in DOMAIN p.hunks :
                  f.hunks[h].signs = [l \in DOMAIN p.hunks[h].lines |-> p.hunks[h].lines[l].sign]
            /\ ChangeExceeds(f) <=> ~(Total([h \in DOMAIN p.hunks |-> p.hunks[h].bytes]) <= MaxFileBytes)
<1> DEFINE w == WholeFile(p)
           f == Parsed(w)
           n == Len(p.hunks)
           hs == f.hunks
<1>1. hs = w.hunks
  <2>. HIDE DEF w
  <2>. QED  BY DEF Parsed
<1>2. n \in Nat /\ DOMAIN p.hunks = 1..n /\ \A h \in 1..n : p.hunks[h] \in Bodies
  BY HunksFromIs
<1>3. Len(w.hunks) = n /\ \A h \in 1..n : w.hunks[h] = HunkRead(p, h, BodyLength(p, h))
  BY WholeIs
<1>. HIDE DEF w, f, n, hs
<1>4. ASSUME NEW h \in 1..n
      PROVE  /\ hs[h].signs = [l \in DOMAIN p.hunks[h].lines |-> p.hunks[h].lines[l].sign]
             /\ hs[h].chars = p.hunks[h].chars /\ hs[h].bytes = p.hunks[h].bytes
             /\ hs[h].chars \in Nat /\ hs[h].bytes \in Nat /\ hs[h].chars <= hs[h].bytes
  <2> DEFINE b == p.hunks[h]
  <2>1. b \in Bodies /\ h # 0 /\ hs[h] = HunkRead(p, h, BodyLength(p, h))
    BY <1>1, <1>2, <1>3
  <2>2. BodyLength(p, h) = Len(b.lines)
    BY <2>1 DEF BodyLength
  <2>3. hs[h] = [path |-> PathOf(p), signs |-> [x \in 1..Len(b.lines) |-> b.lines[x].sign], chars |-> b.chars, bytes |-> b.bytes]
    BY <2>1, <2>2 DEF HunkRead
  <2>. HIDE DEF b
  <2>4. DOMAIN b.lines = 1..Len(b.lines)
    BY <2>1, BodyIs
  <2>5. b.chars \in Nat /\ b.bytes \in Nat /\ b.chars <= b.bytes
    <3>1. b.chars \in Nat /\ b.bytes \in b.chars..(4 * b.chars)
      BY <2>1, DiffTextAssumption
    <3> DEFINE c == b.chars
               y == b.bytes
    <3>2. c \in Nat /\ y \in c..(4 * c)
      BY <3>1
    <3>. HIDE DEF c, y
    <3>3. y \in Nat /\ c <= y
      BY <3>2
    <3>. QED  BY <3>2, <3>3 DEF c, y
  <2>6. hs[h].signs = [l \in DOMAIN b.lines |-> b.lines[l].sign] /\ hs[h].chars = b.chars /\ hs[h].bytes = b.bytes
    BY <2>3, <2>4
  <2>. QED  BY <2>5, <2>6 DEF b
<1>5. Len(hs) = n
  BY <1>1, <1>3
<1>6. ChangeExceeds(f) <=> ~(Total([h \in 1..n |-> hs[h].bytes]) <= MaxFileBytes)
  <2>1. Weights(hs)[Len(hs)] > MaxFileBytes <=> ~(Total([h \in 1..Len(hs) |-> hs[h].bytes]) <= MaxFileBytes)
    BY <1>2, <1>4, <1>5, WeighedRightly
  <2>2. ChangeExceeds(f) <=> Weights(hs)[Len(hs)] > MaxFileBytes
    BY DEF ChangeExceeds, hs
  <2>. QED  BY <1>5, <2>1, <2>2
<1>7. [h \in 1..n |-> hs[h].bytes] = [h \in DOMAIN p.hunks |-> p.hunks[h].bytes]
  BY <1>2, <1>4
<1>8. ChangeExceeds(f) <=> ~(Total([h \in DOMAIN p.hunks |-> p.hunks[h].bytes]) <= MaxFileBytes)
  BY <1>6, <1>7
<1>. QED  BY <1>2, <1>4, <1>5, <1>8 DEF f, w, n, hs

\* What comes out says whether the file is new, gone or binary.
LEMMA FlagsAreRight ==
  ASSUME NEW p \in Patch
  PROVE  LET f == Parsed(WholeFile(p))
         IN f.added = (p.change = "added") /\ f.deleted = (p.change = "deleted") /\ f.binary = (p.content = "binary")
<1> DEFINE w == WholeFile(p)
<1>1. w.added = (p.change = "added") /\ w.deleted = (p.change = "deleted") /\ w.binary = (p.content = "binary")
  BY WholeIs, HeaderSays
<1>2. Parsed(w).added = w.added /\ Parsed(w).deleted = w.deleted /\ Parsed(w).binary = w.binary
  <2>. HIDE DEF w
  <2>. QED  BY DEF Parsed
<1>. QED  BY <1>1, <1>2

\* The reading is always where the invariant says.
LEMMA TextInvAlways == TextSpec => []TextInv
<1>1. TextInit => TextInv
  BY DEF TextInit, TextInv, Unread
<1>2. TextInv /\ UNCHANGED textVars => TextInv'
  BY DEF textVars, TextInv, Unread, Begun, Within, ReadOut, AtHeader, AtBody
<1>3. TextInv /\ [TextNext]_textVars => TextInv'
  BY <1>2, TextStep
<1>. QED  BY <1>1, <1>3, PTL DEF TextSpec

\* The invariant tells that what was read is what git wrote.
LEMMA TextIsRead == TextInv => ReadAsWritten
<1>. SUFFICES ASSUME TextInv PROVE ReadAsWritten
  OBVIOUS
<1> DEFINE d == patches
<1>1. CASE Unread
  BY <1>1 DEF Unread, ReadAsWritten
<1>2. CASE d \in Diffs
  <2>0. d \in Seq(Patch) /\ Len(d) \in Nat /\ DOMAIN d = 1..Len(d)
    BY <1>2, DiffTextAssumption
  <2>1. PICK n \in 0..Len(d) : files = Whole(d, n) /\ (reviewed # Unfiltered => n = Len(d) /\ reviewed = Kept(d))
    <3>1. CASE Unread
      <4>1. files = Whole(d, 0)
        BY <3>1 DEF Unread, Whole
      <4>. QED  BY <2>0, <3>1, <4>1 DEF Unread
    <3>2. CASE reviewed = Unfiltered /\ Begun(patches)
      <4>1. files = Whole(d, 0)
        BY <3>2 DEF Begun, Whole
      <4>. QED  BY <2>0, <3>2, <4>1
    <3>3. CASE reviewed = Unfiltered /\ Within(patches)
      <4>1. PICK k \in 1..Len(d) : files = Whole(d, k - 1)
        BY <3>3 DEF Within
      <4>. QED  BY <2>0, <3>3, <4>1
    <3>4. CASE ReadOut(patches)
      <4>1. Len(d) \in 0..Len(d)
        BY <2>0
      <4>2. files = Whole(d, Len(d)) /\ reviewed = Kept(d)
        BY <3>4 DEF ReadOut
      <4>. QED  BY <4>1, <4>2
    <3>. QED  BY <3>1, <3>2, <3>3, <3>4 DEF TextInv
  <2>2. DOMAIN files = 1..n /\ Len(files) = n /\ \A i \in 1..n : files[i] = Parsed(WholeFile(d[i]))
    <3> DEFINE P(i) == Parsed(WholeFile(d[i]))
    <3>1. files = [i \in 1..n |-> P(i)] /\ n \in Nat
      <4>1. files = Whole(d, n)
        BY <2>1
      <4>2. n \in Nat
        BY <2>0
      <4>. QED  BY <4>1, <4>2 DEF Whole
    <3>. HIDE DEF P
    <3>2. DOMAIN files = 1..n /\ Len(files) = n /\ \A i \in 1..n : files[i] = P(i)
      BY <3>1
    <3>. QED  BY <3>2 DEF P
  <2>3. ASSUME NEW i \in DOMAIN files
        PROVE  LET p == patches[i]
                   f == files[i]
               IN /\ f.added = (p.change = "added") /\ f.deleted = (p.change = "deleted")
                  /\ f.binary = (p.content = "binary")
                  /\ Len(f.hunks) = Len(p.hunks)
                  /\ \A h \in DOMAIN p.hunks :
                        f.hunks[h].signs = [l \in DOMAIN p.hunks[h].lines |-> p.hunks[h].lines[l].sign]
                  /\ \/ p.old \in Ambiguous /\ ~(p.change = "renamed" \/ (p.change = "modified" /\ p.content = "text"))
                     \/ /\ f.path = IF p.change = "deleted" THEN p.old ELSE p.new
                        /\ f.oldPath = IF p.change = "renamed" THEN p.old ELSE Nothing
                        /\ reviewed # Unfiltered =>
                              (i \in reviewed <=> /\ p.content # "binary" /\ f.path \notin Noise
                                              /\ Total([h \in DOMAIN p.hunks |-> p.hunks[h].bytes]) <= MaxFileBytes)
    <3> DEFINE p == patches[i]
               f == files[i]
               small == Total([h \in DOMAIN p.hunks |-> p.hunks[h].bytes]) <= MaxFileBytes
    <3>1. i \in 1..n /\ i \in 1..Len(d) /\ i \in DOMAIN d /\ f = Parsed(WholeFile(p))
      <4>1. i \in 1..n /\ f = Parsed(WholeFile(p))
        BY <2>2
      <4>2. i \in 1..Len(d)
        <5> DEFINE L == Len(d)
        <5>1. L \in Nat /\ n \in 0..L /\ i \in 1..n
          BY <2>0, <4>1
        <5>. HIDE DEF L
        <5>2. i \in 1..L
          BY <5>1
        <5>. QED  BY <5>2 DEF L
      <4>. QED  BY <2>0, <4>1, <4>2
    <3>2. p \in Patch /\ (p.old # p.new <=> p.change = "renamed") /\ (p.hunks # <<>> <=> p.content = "text")
      BY <1>2, <2>0, <3>1, DiffTextAssumption
    <3>3. f.added = (p.change = "added") /\ f.deleted = (p.change = "deleted") /\ f.binary = (p.content = "binary")
      <4>. HIDE DEF p, f
      <4>. QED  BY <3>1, <3>2, FlagsAreRight
    <3>4. /\ Len(f.hunks) = Len(p.hunks)
          /\ \A h \in DOMAIN p.hunks :
                f.hunks[h].signs = [l \in DOMAIN p.hunks[h].lines |-> p.hunks[h].lines[l].sign]
          /\ ChangeExceeds(f) <=> ~small
      <4>. HIDE DEF p, f
      <4>. QED  BY <3>1, <3>2, HunksAreRight
    <3>5. p.old \notin Ambiguous \/ p.change = "renamed" \/ (p.change = "modified" /\ p.content = "text")
            => /\ f.path = IF p.change = "deleted" THEN p.old ELSE p.new
               /\ f.oldPath = IF p.change = "renamed" THEN p.old ELSE Nothing
      <4>. HIDE DEF p, f
      <4>. QED  BY <3>1, <3>2, NamesAreRight
    <3>6. reviewed # Unfiltered => (i \in reviewed <=> p.content # "binary" /\ f.path \notin Noise /\ small)
      <4>1. reviewed # Unfiltered => (i \in reviewed <=> ~IsFilterable(f) /\ ~ChangeExceeds(f))
        BY <2>1, <3>1 DEF Kept
      <4>. HIDE DEF p, f, small
      <4>2. IsFilterable(f) <=> (p.content = "binary" \/ f.path \in Noise)
        BY <3>3 DEF IsFilterable
      <4>. QED  BY <3>4, <4>1, <4>2
    <3>. HIDE DEF small
    <3>. QED  BY <3>3, <3>4, <3>5, <3>6 DEF small
  <2>4. reviewed # Unfiltered => Len(files) = Len(patches)
    BY <2>1, <2>2
  <2>. QED  BY <2>3, <2>4 DEF ReadAsWritten
<1>. QED  BY <1>1, <1>2 DEF TextInv

\* What was read of a diff is what git wrote, whatever the lines of its files look like:
\* parse_diff tells a line of a file from a line of the diff, and change_exceeds weighs a
\* file rightly although it does not put every text into bytes.
THEOREM DiffIsReadAsWritten == TextSpec => []ReadAsWritten
BY TextInvAlways, TextIsRead, PTL
=============================================================================
