--------------------------- MODULE ContextAssembly ---------------------------
(***************************************************************************)
(* The packet a model is shown (application/context_assembly.py,           *)
(* use_cases/build_review_context.py, domain/context_budget.py): parts are *)
(* paid from a budget in a fixed order, two of them from a share of their  *)
(* own, and what does not fit is listed.  A text is its cost; a share, the *)
(* remaining budget and the packet are counted in the same unit.           *)
(***************************************************************************)
EXTENDS Integers, Functions, Listing

CONSTANTS
    Requests,       \* pull requests, see Request
    PacketLimit,    \* context_max_tokens, in units
    ReserveMax,     \* _OMITTED_RESERVE_MAX_BYTES
    PrMax, RulesMax,    \* pr_context_max_tokens, rules_max_tokens, in units
    SourceLimit,    \* ast_max_files
    OmissionCost, ShortestCut   \* of an entry of omitted, of a description of one character

Reserve == IF PacketLimit \div 10 < ReserveMax THEN PacketLimit \div 10 ELSE ReserveMax

\* frame: the cost of a packet without items; parts: of the author's text, long if a
\* message is longer than the share; files in the order of the diff; rules with a cost
\* for the rule and one for each file named; rejected: costs.
File == [hunks : Seq(Nat), filtered : BOOLEAN, deleted : BOOLEAN, language : BOOLEAN,
         secret : BOOLEAN, small : BOOLEAN, whole : Nat, window : Nat, scopes : Nat, imports : Nat]
Request == [frame : Nat, parts : Seq([part : {"title", "description", "commit"}, cost : Nat, long : BOOLEAN]),
            files : Seq(File), rules : Seq([base : Nat, files : SUBSET Nat]), rejected : Seq(Nat)]
\* context_max_tokens has a lower bound that leaves room for the frame.
ASSUME ContextAssumption ==
    /\ Requests \subseteq Request
    /\ {PacketLimit, ReserveMax, PrMax, RulesMax, SourceLimit, OmissionCost, ShortestCut} \subseteq Nat
    /\ \A q \in Requests : q.frame + Reserve <= PacketLimit

VARIABLES
    pull,           \* the pull request
    texts,          \* what there is: parts of the author's text, sources of files, outlines
    stage, todo,    \* where the assembly stands, and what is left of the stage
    left, share,    \* Budget.remaining of the budget and of the share split off
    size,           \* the cost of the packet
    packet, widened,    \* its items; files shown as a whole or with a window
    omitted, listed     \* what did not fit or was not to be had, and what omitted names of it

contextVars == <<pull, texts, stage, todo, left, share, size, packet, widened, omitted, listed>>

Lesser(a, b) == IF a < b THEN a ELSE b
NoTexts == [parts |-> {}, sources |-> {}, outlines |-> {}]
Unwidened == [whole |-> {}, window |-> {}]

ContextInit ==
    /\ pull \in Requests
    /\ texts = NoTexts /\ stage = "fetch" /\ todo = <<>>
    /\ left = 0 /\ share = 0 /\ size = pull.frame
    /\ packet = {} /\ widened = Unwidened /\ omitted = <<>> /\ listed = 0

\* An item of the packet, or what omitted says of it: what it is, of which, and where.
Item(what, n, m) == <<what, n, m>>
Each(what, places) == {Item(what, n, 0) : n \in places}
Reviewable(f) == ~pull.files[f].filtered
Hunks(f) == {Item("hunk", f, h) : h \in DOMAIN pull.files[f].hunks}
FilesShown == {f \in DOMAIN pull.files : Hunks(f) \cap packet # {}}

\* _fetch_sources: those whose language has an AST come first, up to the limit.
Sources == {f \in DOMAIN pull.files :
               Reviewable(f) /\ ~pull.files[f].deleted /\ pull.files[f].hunks # <<>>}
ComesBefore(f, g) ==
    IF pull.files[f].language = pull.files[g].language THEN f < g ELSE pull.files[f].language
Asked == {f \in Sources : Cardinality({g \in Sources : ComesBefore(g, f)}) < SourceLimit}

\* The description comes with the title, the commits by themselves; either may be
\* unavailable (_fetch_pr_context).
PartsFetched(metadata, commits) ==
    {i \in DOMAIN pull.parts : IF pull.parts[i].part = "commit" THEN commits ELSE metadata}

\* What the parts ask for; a message longer than the share asks for nothing
\* (_pr_context_items).
PartCosts(parts) == [i \in parts |-> IF pull.parts[i].long THEN 0 ELSE pull.parts[i].cost]

\* The texts with a language are parsed, and the parser may fail on one (_collect_asts).
Outlines(sources) == SUBSET {f \in sources : pull.files[f].language}

\* build_review_context; the text of a file may be unavailable.
FetchTexts ==
    /\ stage = "fetch" /\ stage' = "parts"
    /\ \E metadata, commits \in BOOLEAN, sources \in SUBSET Asked :
       \E outlines \in Outlines(sources) :
       LET parts == PartsFetched(metadata, commits)
           wanted == Total(PartCosts(parts))
           budget == PacketLimit - pull.frame - Reserve
       IN /\ texts' = [parts |-> parts, sources |-> sources, outlines |-> outlines]
          /\ todo' = ByPlace(Each("part", parts))
          /\ share' = Lesser(Lesser(PrMax, wanted), budget)
          /\ left' = budget - share'
          /\ omitted' = ByPlace(Each("file", {f \in DOMAIN pull.files : ~Reviewable(f)}))
                 \o ByPlace(Each("ast", {f \in Sources : pull.files[f].language} \ outlines))
                 \o (IF metadata THEN <<>> ELSE <<Item("metadata", 0, 0)>>)
                 \o (IF commits THEN <<>> ELSE <<Item("commits", 0, 0)>>)
    /\ UNCHANGED <<pull, size, packet, widened, listed>>

\* ---- items -----------------------------------------------------------------

Taken(item, cost) == packet' = packet \cup {item} /\ size' = size + cost
Omit(item) == omitted' = Append(omitted, item) /\ UNCHANGED <<packet, size>>
Working(s) == stage = s /\ todo # <<>> /\ todo' = Tail(todo) /\ UNCHANGED <<pull, texts, stage>>

\* Budget.take, from the budget or from the share.
Pay(item, cost) ==
    IF cost <= left THEN Taken(item, cost) /\ left' = left - cost /\ UNCHANGED omitted
    ELSE Omit(item) /\ UNCHANGED left
PayFromShare(item, cost) ==
    IF cost <= share THEN Taken(item, cost) /\ share' = share - cost /\ UNCHANGED omitted
    ELSE Omit(item) /\ UNCHANGED share

\* A description that does not fit is shown up to where it does (_cut_description).
TakePart ==
    /\ Working("parts")
    /\ LET item == Head(todo)
           part == pull.parts[item[2]]
       IN IF part.part = "description" /\ part.cost > share /\ ShortestCut <= share
          THEN \E cost \in ShortestCut..share :
                   Taken(item, cost) /\ share' = share - cost /\ UNCHANGED omitted
          ELSE PayFromShare(item, IF part.long THEN share + 1 ELSE part.cost)
    /\ UNCHANGED <<left, widened, listed>>

TakeHunk ==
    /\ Working("hunks")
    /\ LET item == Head(todo) IN Pay(item, pull.files[item[2]].hunks[item[3]])
    /\ UNCHANGED <<share, widened, listed>>

\* applicable_rules, and the cost of one: a file it names makes it longer.
RulesFor(files) == {r \in DOMAIN pull.rules : pull.rules[r].files \cap files # {}}
RuleCost(r, files) == pull.rules[r].base + Cardinality(pull.rules[r].files \cap files)
RulesWanted(files) ==
    Total([r \in RulesFor(files) |-> RuleCost(r, files)]) + Total(pull.rejected)
FilesWithHunks == {f \in DOMAIN pull.files : Reviewable(f) /\ pull.files[f].hunks # <<>>}

TakeRule ==
    /\ Working("rules")
    /\ LET item == Head(todo)
       IN PayFromShare(item, IF item[1] = "rule" THEN RuleCost(item[2], FilesShown)
                             ELSE pull.rejected[item[2]])
    /\ UNCHANGED <<left, widened, listed>>

\* _expand: the hunks of a file give way to its view if the difference fits, unless the
\* text is of another version.
TakeViews(f, cost, to) ==
    LET extra == cost - Total(pull.files[f].hunks)
    IN \/ /\ extra <= left
          /\ left' = left - extra /\ size' = size + extra
          /\ widened' = to
       \/ UNCHANGED <<left, size, widened>>
ShowWhole ==
    /\ Working("whole")
    /\ LET f == Head(todo)[2]
       IN TakeViews(f, pull.files[f].whole, [widened EXCEPT !.whole = @ \cup {f}])
    /\ UNCHANGED <<share, packet, omitted, listed>>
ShowWindow ==
    /\ Working("windows")
    /\ LET f == Head(todo)[2]
       IN TakeViews(f, pull.files[f].window, [widened EXCEPT !.window = @ \cup {f}])
    /\ UNCHANGED <<share, packet, omitted, listed>>

TakeAst ==
    /\ Working("ast")
    /\ LET item == Head(todo)
       IN Pay(item, IF item[1] = "scopes" THEN pull.files[item[2]].scopes ELSE pull.files[item[2]].imports)
    /\ UNCHANGED <<share, widened, listed>>

\* The list of what is left out is paid like the rest, the count is always there.
ListOmission ==
    /\ Working("omitted")
    /\ IF OmissionCost <= left
       THEN left' = left - OmissionCost /\ size' = size + OmissionCost /\ listed' = listed + 1
       ELSE UNCHANGED <<left, size, listed>>
    /\ UNCHANGED <<share, packet, widened, omitted>>

\* ---- from one stage to the next --------------------------------------------

Over(s, next) == stage = s /\ todo = <<>> /\ stage' = next /\ UNCHANGED <<pull, texts, size, packet, widened, omitted, listed>>

\* MUTANT of ReserveRules: the share of the rules is not taken from the budget.
ReserveRulesBesides ==
    /\ Over("parts", "hunks")
    /\ share' = Lesser(Lesser(RulesMax, RulesWanted(FilesWithHunks)), left + share)
    /\ left' = left + share
    /\ todo' = ByPlace(UNION {Hunks(f) : f \in FilesWithHunks})

\* What is left of the parts' share goes back; the rules reserve what they need for all files.
ReserveRules ==
    /\ Over("parts", "hunks")
    /\ share' = Lesser(Lesser(RulesMax, RulesWanted(FilesWithHunks)), left + share)
    /\ left' = left + share - share'
    /\ todo' = ByPlace(UNION {Hunks(f) : f \in FilesWithHunks})

BeginRules ==
    /\ Over("hunks", "rules")
    /\ todo' = ByPlace(Each("rule", RulesFor(FilesShown))) \o ByPlace(Each("rejected", DOMAIN pull.rejected))
    /\ UNCHANGED <<left, share>>

\* A file is widened if all its hunks are shown and its name is not that of a secret.
Complete(f) ==
    /\ f \in texts.sources /\ Reviewable(f) /\ ~pull.files[f].secret
    /\ Hunks(f) # {} /\ Hunks(f) \subseteq packet

BeginWhole ==
    /\ Over("rules", "whole")
    /\ left' = left + share /\ share' = 0
    /\ todo' = ByPlace(Each("view", {f \in DOMAIN pull.files : Complete(f) /\ pull.files[f].small}))

BeginAst ==
    /\ Over("whole", "ast")
    /\ LET outlined == (texts.outlines \cap FilesShown) \ widened.whole
       IN todo' = ByPlace(Each("scopes", {f \in outlined : pull.files[f].scopes > 0}))
                  \o ByPlace(Each("imports", {f \in outlined : pull.files[f].imports > 0}))
    /\ UNCHANGED <<left, share>>

BeginWindows ==
    /\ Over("ast", "windows")
    /\ todo' = ByPlace(Each("view", {f \in DOMAIN pull.files \ widened.whole :
                   Complete(f) /\ pull.files[f].window # Total(pull.files[f].hunks)}))
    /\ UNCHANGED <<left, share>>

BeginOmitted ==
    /\ Over("windows", "omitted")
    /\ left' = left + Reserve
    /\ todo' = omitted
    /\ UNCHANGED share

Finish == Over("omitted", "done") /\ UNCHANGED <<left, share, todo>>

ContextNext ==
    \/ FetchTexts \/ TakePart \/ ReserveRules \/ TakeHunk \/ BeginRules \/ TakeRule \/ BeginWhole
    \/ ShowWhole \/ BeginAst \/ TakeAst \/ BeginWindows \/ ShowWindow \/ BeginOmitted
    \/ ListOmission \/ Finish

ContextSpec == ContextInit /\ [][ContextNext]_contextVars

ContextTypeOK ==
    /\ left \in Nat /\ share \in Nat /\ size \in Nat /\ listed \in Nat
    /\ stage \in {"fetch", "parts", "hunks", "rules", "whole", "ast", "windows", "omitted", "done"}
    /\ widened.whole \cup widened.window \subseteq DOMAIN pull.files
    /\ texts.sources \subseteq DOMAIN pull.files /\ texts.parts \subseteq DOMAIN pull.parts

\* At each step what the packet costs and what may still be paid keep to the limit, the
\* reserve of the list included, whatever the pull request is; and the packet is silent
\* about nothing: a hunk, a part of the author's text or a rule for a file it shows is in it
\* or counted as omitted, once; rules that got what they asked for at the outset all fit
\* after the diff (assemble_context: "a subset, so they keep to the reserve"); no file is
\* widened twice.
PacketIsSound ==
    /\ size + left + share + (IF stage \in {"fetch", "omitted", "done"} THEN 0 ELSE Reserve) <= PacketLimit
    /\ stage = "done" =>
          /\ listed <= Len(omitted)
          /\ \A item \in (UNION {Hunks(f) : f \in FilesWithHunks}) \cup Each("part", texts.parts)
                         \cup Each("rule", RulesFor(FilesShown)) :
                 (item \in packet) # (\E n \in DOMAIN omitted : omitted[n] = item)
          /\ \A m, n \in DOMAIN omitted : omitted[m] = omitted[n] => m = n
          /\ RulesWanted(FilesWithHunks) <= RulesMax /\ pull.frame + Reserve + PrMax + RulesMax <= PacketLimit
                => \A n \in DOMAIN omitted : omitted[n][1] \notin {"rule", "rejected"}
          /\ widened.whole \cap widened.window = {}
=============================================================================
