------------------------------ MODULE MCServer ------------------------------
(***************************************************************************)
(* The parts of the server that share no state, and the algorithms of the  *)
(* review, checked side by side: part says which one a behaviour is about, *)
(* the others stand still.                                                 *)
(***************************************************************************)
EXTENDS UserSessions, RepositoryAccess, ServiceStatus,
        ModelCall, DiffHunks, Findings, ContextAssembly, Cabinet, DiffText, BranchGlob

VARIABLE part

serverVars == <<part, userVars, accessVars, statusVars, modelVars, diffVars,
                findingVars, contextVars, cabinetVars, textVars, globVars>>

\* ---- values of the constants -----------------------------------------------

Request_(k) == [kind |-> k, user |-> "u", repo |-> "p", settings |-> "strict"]
PlansOfThree == {<<Request_("connect"), Request_("disconnect"), Request_("setup")>>,
                 <<Request_("connect"), Request_("save"), Request_("list")>>}

SomeRules == {[alert |-> "down", status |-> "outage", component |-> "api"],
              [alert |-> "slow", status |-> "degraded", component |-> "api"],
              [alert |-> "slow", status |-> "unknown", component |-> "worker"]}

LocalThenHosted == <<"local", "hosted">>

ShortScripts == UNION {[1..n -> {Kept, Added, Removed}] : n \in 1..5}

RuleAtOne == {<<"check", 1>>}

Text(which, cost) == [part |-> which, cost |-> cost, long |-> FALSE]
PartLists == {<<Text("title", 2), Text("description", 5)>>,
              <<Text("title", 1), [Text("commit", 9) EXCEPT !.long = TRUE], Text("commit", 2)>>}
Plain == [hunks |-> <<3>>, filtered |-> FALSE, deleted |-> FALSE, language |-> FALSE, secret |-> FALSE,
          small |-> TRUE, whole |-> 5, window |-> 4, scopes |-> 0, imports |-> 0]
Small == [Plain EXCEPT !.hunks = <<2, 3>>, !.language = TRUE, !.whole = 8, !.window = 6,
                       !.scopes = 1, !.imports = 1]
Large == [Small EXCEPT !.hunks = <<4, 2>>, !.small = FALSE, !.window = 7]
FileLists == {<<Plain, Small>>, <<Large, Plain, [Plain EXCEPT !.deleted = TRUE]>>,
              <<[Plain EXCEPT !.filtered = TRUE], Small, Large>>,
              <<[Small EXCEPT !.secret = TRUE], Large>>}
RuleLists == {<<>>, <<[base |-> 1, files |-> {2}], [base |-> 2, files |-> {1, 2, 3}]>>}
PullRequests == {[frame |-> f, parts |-> p, files |-> l, rules |-> r, rejected |-> <<1>>] :
                    f \in {2, 8, 16}, p \in PartLists, l \in FileLists, r \in RuleLists}

Errand(k, r) == [kind |-> k, run |-> r]
TwoErrands == {<<Errand("rules", 1), Errand("rules", 1)>>, <<Errand("diff", 1), Errand("diff", 1)>>,
               <<Errand("diff", 1), Errand("diff", 2)>>, <<Errand("launch", 1), Errand("launch", 1)>>}
TwoTrees == {<<"loaded", "absent">>, <<"empty", "too_large">>}
TwoSizes == {<<"small", "small">>, <<"large", "noBase">>}
Fixed(S) == CHOOSE x \in S : TRUE
\* The contents that do not matter to a request are fixed.
CabinetStart ==
    /\ part = "cabinet" \/ errand = Fixed(Errands)
    /\ (part = "cabinet" /\ errand[1].kind = "rules") \/ tree = Fixed(Trees)
    /\ (part = "cabinet" /\ errand[1].kind = "diff") \/ extent = Fixed(Sizes)
    /\ errand[1].kind = "launch" \/ standing = "writer"
    /\ part = "cabinet" \/ (standing = "writer" /\ tip = Fixed(Commits))

Said(sign, text) == [sign |-> sign, text |-> text]
TwoBodies == {[lines |-> <<Said("-", "signs"), Said("+", "signs"), Said(" ", "broken")>>, chars |-> 6, bytes |-> 6],
              [lines |-> <<Said(" ", "code"), Said("+", "broken"), Said("\\", "code")>>, chars |-> 5, bytes |-> 9]}
ChangeOf(c, from, to, content, hunks) ==
    [change |-> c, old |-> from, new |-> to, content |-> content, hunks |-> hunks]
PatchesOf(names, bodies) ==
    {ChangeOf(IF n = m THEN c ELSE "renamed", n, m, k, h) : c \in {"modified", "added", "deleted"},
        n \in names, m \in names, k \in {"text", "binary", "none"}, h \in bodies \cup {<<>>}}
SomeDiffs ==
    LET long == {<<x>> : x \in TwoBodies} \cup {<<x, y>> : x \in TwoBodies, y \in TwoBodies}
        proper(P) == {p \in P : p.content = "text" <=> p.hunks # <<>>}
    IN {<<p>> : p \in proper(PatchesOf(Names, long))}
         \cup {<<p, q>> : p \in proper(PatchesOf({"plain", "quoted"}, {<<x>> : x \in TwoBodies})),
                         q \in proper(PatchesOf({"plain", "lock"}, {<<x, x>> : x \in TwoBodies}))}

SegmentPatterns == [x |-> {"a"}, any |-> {"a", "b"}]
ShortBranches == UNION {[1..n -> {"a", "b"}] : n \in 0..3}
SomeFilters ==
    {<< >>} \cup {<<p>> : p \in UNION {[1..n -> {"x", "any", Globstar}] : n \in 0..4}}
            \cup {<<p, q>> : p \in {<<"x">>, <<Globstar, "x">>}, q \in {<<"any", Globstar>>, <<"x", "x">>}}

\* ---- the composition -------------------------------------------------------

Parts == {"sessions", "access", "status", "model", "diff", "findings", "context", "cabinet", "text", "glob"}

ServerInit ==
    /\ part \in Parts
    /\ UserInit /\ AccessInit /\ StatusInit /\ ModelInit /\ DiffInit /\ FindingsInit
    /\ ContextInit /\ CabinetInit /\ TextInit /\ GlobInit
    /\ part # "access" => asked = Fixed(Plans)
    /\ part # "access" => \A p \in Repos : ~repository[p].there
    /\ part # "context" => pull = Fixed(Requests)
    /\ CabinetStart

ServerNext ==
    /\ UNCHANGED part
    /\ \/ /\ part = "sessions" /\ UserNext
          /\ UNCHANGED <<accessVars, statusVars, modelVars, diffVars, findingVars, contextVars, cabinetVars, textVars, globVars>>
       \/ /\ part = "access" /\ AccessNext
          /\ UNCHANGED <<userVars, statusVars, modelVars, diffVars, findingVars, contextVars, cabinetVars, textVars, globVars>>
       \/ /\ part = "status" /\ StatusNext
          /\ UNCHANGED <<userVars, accessVars, modelVars, diffVars, findingVars, contextVars, cabinetVars, textVars, globVars>>
       \/ /\ part = "model" /\ ModelNext
          /\ UNCHANGED <<userVars, accessVars, statusVars, diffVars, findingVars, contextVars, cabinetVars, textVars, globVars>>
       \/ /\ part = "diff" /\ DiffNext
          /\ UNCHANGED <<userVars, accessVars, statusVars, modelVars, findingVars, contextVars, cabinetVars, textVars, globVars>>
       \/ /\ part = "findings" /\ FindingsNext
          /\ UNCHANGED <<userVars, accessVars, statusVars, modelVars, diffVars, contextVars, cabinetVars, textVars, globVars>>
       \/ /\ part = "context" /\ ContextNext
          /\ UNCHANGED <<userVars, accessVars, statusVars, modelVars, diffVars, findingVars, cabinetVars, textVars, globVars>>
       \/ /\ part = "cabinet" /\ CabinetNext
          /\ UNCHANGED <<userVars, accessVars, statusVars, modelVars, diffVars, findingVars, contextVars, textVars, globVars>>
       \/ /\ part = "text" /\ TextNext
          /\ UNCHANGED <<userVars, accessVars, statusVars, modelVars, diffVars, findingVars, contextVars, cabinetVars, globVars>>
       \/ /\ part = "glob" /\ GlobNext
          /\ UNCHANGED <<userVars, accessVars, statusVars, modelVars, diffVars, findingVars, contextVars, cabinetVars, textVars>>

ServerSpec == ServerInit /\ [][ServerNext]_serverVars

\* The types of the part that moves.
ServerTypeOK ==
    CASE part = "sessions" -> UserTypeOK
      [] part = "access" -> AccessTypeOK
      [] part = "status" -> StatusTypeOK
      [] part = "model" -> ModelTypeOK
      [] part = "diff" -> DiffTypeOK
      [] part = "findings" -> FindingsTypeOK
      [] part = "context" -> ContextTypeOK
      [] part = "cabinet" -> CabinetTypeOK
      [] part = "text" -> TextTypeOK
      [] part = "glob" -> GlobTypeOK
=============================================================================
