------------------------------ MODULE Cabinet ------------------------------
(***************************************************************************)
(* What the cabinet asks of one repository: the diff of a run, the rules of *)
(* its default branch, and a review by hand (use_cases/run_diff.py,        *)
(* repository_rules.py, repo_config_loader.py, launch_review.py and their  *)
(* handlers).  Each asks GitHub several questions with nothing locked      *)
(* between them, and keeps what a commit holds in a cache.                 *)
(***************************************************************************)
EXTENDS MemoryCache, FiniteSets

CONSTANTS
    Readers, Errands,   \* the requests; what they may be about at once
    Commits, Trees,     \* commits; what each may have at .review/rules.md
    OldRuns, Sizes,     \* runs to be looked at; what the diff of each may be
    KeepFor, Room,      \* time to live and limit of a cache
    LastDay, Turns      \* bounds on the clock and on changes outside

\* What a commit may have at the path, and what a diff may be.
Texts == {"loaded", "empty", "absent", "too_large"}
Extents == {"small", "large", "noBase"}
ASSUME CabinetAssumption ==
    /\ {KeepFor, Room, LastDay, Turns} \subseteq Nat /\ Room > 0 /\ KeepFor > 0
    /\ Errands \subseteq [Readers -> [kind : {"rules", "diff", "launch"}, run : OldRuns]]
    /\ Trees \subseteq [Commits -> Texts] /\ Sizes \subseteq [OldRuns -> Extents]

VARIABLES
    standing, app, tip, pr, head, lost,   \* GitHub: the user's role, the application on
        \* the repository, the branch, the pull request, diffs it no longer builds
    tree, extent,     \* and what never changes: the rules of a commit, the diff of a run
    connected, active,  \* the database: the repository is on; commits with an active run
    listing, rules, diffs,   \* the caches: of visible repositories, of rules, of diffs
    errand, reader,     \* what each request is about, and where it stands
    today, upheavals,
    met, lapsed     \* history: what a request could see; was the application ever off

cabinetVars == <<standing, app, tip, pr, head, lost, tree, extent, connected, active, listing,
                 rules, diffs, errand, reader, today, upheavals, met, lapsed>>

Standings == {"hidden", "public", "reader", "writer"}
Pulls == {"none", "open", "closed", "stranger"}
Fresh_ == [step |-> "start", role |-> "hidden", commit |-> 0, reply |-> "none", of |-> 0]
Unmet == [facts |-> {}, heads |-> {}]

CabinetInit ==
    /\ standing \in {"reader", "writer"} /\ app = "on"
    /\ \E c \in Commits : tip = c /\ head = c
    /\ pr = "open" /\ lost = {}
    /\ tree \in Trees /\ extent \in Sizes
    /\ connected = TRUE /\ active = {} /\ listing = "unknown"
    /\ rules = << >> /\ diffs = << >>
    /\ errand \in Errands /\ reader = [a \in Readers |-> Fresh_]
    /\ today = 0 /\ upheavals = Turns
    /\ met = [a \in Readers |-> Unmet] /\ lapsed = FALSE

hosting == <<standing, app, tip, pr, head, lost, tree, extent, today, upheavals>>
caches == <<listing, rules, diffs>>
service == <<connected, active>>
SeenBy(r) == IF r \in {"reader", "writer"} THEN "visible" ELSE "hidden"
Stands(a, s) == reader[a].step = s
GoTo(a, s) == reader' = [reader EXCEPT ![a].step = s]
Say(a, word) == reader' = [reader EXCEPT ![a].step = "over", ![a].reply = word]
Show(a, run) == reader' = [reader EXCEPT ![a].step = "over", ![a].reply = "shown", ![a].of = run]
Does(a, kind) == errand[a].kind = kind

Come(a) ==
    /\ Stands(a, "start")
    /\ GoTo(a, IF Does(a, "launch") THEN "role" ELSE "list")
    /\ UNCHANGED <<hosting, service, caches, errand>>

\* user_repositories is asked before the run or the record is read, whatever the
\* id: the answer must not tell whether there is one.
AfterList(a) == IF Does(a, "rules") THEN "installation"
                ELSE IF extent[errand[a].run] = "noBase" THEN "noBase" ELSE "cache"
Admit(a, view) == IF view = "hidden" THEN Say(a, "notFound")
                  ELSE IF AfterList(a) = "noBase" THEN Say(a, "noBase") ELSE GoTo(a, AfterList(a))
ListFromCache(a) ==
    /\ Stands(a, "list") /\ listing # "unknown"
    /\ Admit(a, listing)
    /\ UNCHANGED <<hosting, service, caches, errand>>
ListFromGitHub(a) ==
    /\ Stands(a, "list")
    /\ listing' \in {listing, SeenBy(standing)}
    /\ Admit(a, SeenBy(standing))
    /\ UNCHANGED <<hosting, service, rules, diffs, errand>>
ListFails(a) ==
    /\ Stands(a, "list") /\ Say(a, "scm")
    /\ UNCHANGED <<hosting, service, caches, errand>>

\* repository_installation_id, past the caches.  For the rules a failure is a
\* status of its own, not an error.
Failure(a) == IF Does(a, "rules") THEN "unavailable" ELSE "scm"
AfterInstallation(a) == IF Does(a, "rules") THEN "branch" ELSE IF Does(a, "diff") THEN "diff" ELSE "pull"
AskApp(a) ==
    /\ Stands(a, "installation")
    /\ \/ app = "on" /\ GoTo(a, AfterInstallation(a))
       \/ app = "off" /\ Say(a, "notInstalled")
       \/ Say(a, Failure(a))
    /\ UNCHANGED <<hosting, service, caches, errand>>

\* load_default_branch_rules: the branch is resolved each time.
ResolveBranch(a) ==
    /\ Stands(a, "branch")
    /\ \/ /\ app = "on"
          /\ reader' = [reader EXCEPT ![a].step = "cache", ![a].commit = tip]
       \/ Say(a, "unavailable")
    /\ UNCHANGED <<hosting, service, caches, errand>>

\* A store that fails, and an entry that cannot be read, are a miss.
ReadRules(a) ==
    /\ Stands(a, "cache") /\ Does(a, "rules")
    /\ LET hit == Live(rules, reader[a].commit, today)
       IN \/ hit # << >> /\ Say(a, hit[1].value)
          \/ GoTo(a, "file")
    /\ rules' = AfterGet(rules, reader[a].commit, today)
    /\ UNCHANGED <<hosting, service, listing, diffs, errand>>

Holding(a, text) == reader' = [reader EXCEPT ![a].step = "keep", ![a].reply = text]

\* MUTANT of FetchRules: a failure reads as a file that is not there.
FetchRulesAnyway(a) ==
    /\ Stands(a, "file")
    /\ \/ app = "on" /\ Holding(a, tree[reader[a].commit])
       \/ Holding(a, "absent")
    /\ UNCHANGED <<hosting, service, caches, errand>>

\* fetch_file takes 404 for a file that is not there, be it that the application
\* has lost the repository meanwhile.  What the commit has is kept, a failure not.
FetchRules(a) ==
    /\ Stands(a, "file")
    /\ \/ app = "on" /\ Holding(a, tree[reader[a].commit])
       \/ app = "off" /\ Holding(a, "absent")
       \/ Say(a, "unavailable")
    /\ UNCHANGED <<hosting, service, caches, errand>>

KeepRules(a) ==
    /\ Stands(a, "keep") /\ Does(a, "rules")
    /\ rules' \in {rules, AfterSet(rules, reader[a].commit, reader[a].reply, today + KeepFor, today, Room)}
    /\ Say(a, reader[a].reply)
    /\ UNCHANGED <<hosting, service, listing, diffs, errand>>

\* load_run_diff: the key is the pair of commits, without the user, who has been
\* checked already; a hit asks GitHub nothing.
ReadDiff(a) ==
    /\ Stands(a, "cache") /\ Does(a, "diff")
    /\ LET hit == Live(diffs, errand[a].run, today)
       IN \/ hit # << >> /\ Show(a, hit[1].value)
          \/ GoTo(a, "installation")
    /\ diffs' = AfterGet(diffs, errand[a].run, today)
    /\ UNCHANGED <<hosting, service, listing, rules, errand>>

\* Too many bytes, too many lines, or GitHub's own refusal: not kept.
FetchDiff_(a) ==
    /\ Stands(a, "diff")
    /\ LET run == errand[a].run
       IN \/ app = "off" /\ Say(a, "gone")
          \/ app = "on" /\ run \in lost /\ Say(a, "gone")
          \/ app = "on" /\ run \notin lost /\ extent[run] = "large" /\ Say(a, "tooLarge")
          \/ app = "on" /\ run \notin lost /\ extent[run] = "small"
             /\ reader' = [reader EXCEPT ![a].step = "keep", ![a].of = run]
          \/ Say(a, "scm")
    /\ UNCHANGED <<hosting, service, caches, errand>>

KeepDiff(a) ==
    /\ Stands(a, "keep") /\ Does(a, "diff")
    /\ diffs' \in {diffs, AfterSet(diffs, errand[a].run, reader[a].of, today + KeepFor, today, Room)}
    /\ Show(a, reader[a].of)
    /\ UNCHANGED <<hosting, service, listing, rules, errand>>

\* ---- launch_review: the checks, from the cheap and untelling on -------------

AskStanding(a) ==
    /\ Stands(a, "role")
    /\ \/ SeenBy(standing) = "hidden" /\ Say(a, "notFound")
       \/ /\ SeenBy(standing) = "visible"
          /\ reader' = [reader EXCEPT ![a].step = "record", ![a].role = standing]
       \/ Say(a, "scm")
    /\ UNCHANGED <<hosting, service, caches, errand>>

CheckRecord(a) ==
    /\ Stands(a, "record")
    /\ IF ~connected THEN Say(a, "notFound")
       ELSE IF reader[a].role # "writer" THEN Say(a, "forbidden") ELSE GoTo(a, "installation")
    /\ UNCHANGED <<hosting, service, caches, errand>>

ReadPull(a) ==
    /\ Stands(a, "pull")
    /\ \/ (app = "off" \/ pr = "none") /\ Say(a, "noPull")
       \/ app = "on" /\ pr = "closed" /\ Say(a, "notOpen")
       \/ app = "on" /\ pr = "stranger" /\ Say(a, "untrusted")
       \/ /\ app = "on" /\ pr = "open"
          /\ reader' = [reader EXCEPT ![a].step = "find", ![a].commit = head]
       \/ Say(a, "scm")
    /\ UNCHANGED <<hosting, service, caches, errand>>

\* start_review_run: only an active run is a duplicate; the unique index decides a
\* race, and the loser that finds no run of the winner's any more tries again.
FindActive(a) ==
    /\ Stands(a, "find")
    /\ IF reader[a].commit \in active THEN Say(a, "alreadyActive") ELSE GoTo(a, "insert")
    /\ UNCHANGED <<hosting, service, caches, errand>>
InsertByHand(a) ==
    /\ Stands(a, "insert")
    /\ IF reader[a].commit \in active THEN Say(a, "alreadyActive") /\ UNCHANGED active
       ELSE GoTo(a, "enqueue") /\ active' = active \cup {reader[a].commit}
    /\ UNCHANGED <<hosting, connected, caches, errand>>
EnqueueByHand(a) ==
    /\ Stands(a, "enqueue") /\ Say(a, "accepted")
    /\ UNCHANGED <<hosting, service, caches, errand>>
EnqueueByHandFails(a) ==
    /\ Stands(a, "enqueue") /\ Say(a, "failed")
    /\ active' = active \ {reader[a].commit}
    /\ UNCHANGED <<hosting, connected, caches, errand>>

\* ---- what goes on meanwhile ------------------------------------------------

Turn == upheavals > 0 /\ upheavals' = upheavals - 1 /\ UNCHANGED <<errand, reader, today, caches, tree, extent>>
RoleChanges(r) == Turn /\ standing' = r /\ UNCHANGED <<app, tip, pr, head, lost, service>>
AppChanges == /\ Turn /\ app' = IF app = "on" THEN "off" ELSE "on"
              /\ UNCHANGED <<standing, tip, pr, head, lost, service>>
Pushed(c) == /\ Turn /\ tip' \in {tip, c} /\ head' \in {head, c}
             /\ UNCHANGED <<standing, app, pr, lost, service>>
PullChanges(p) == Turn /\ pr' = p /\ UNCHANGED <<standing, app, tip, head, lost, service>>
DiffLost(r) == Turn /\ lost' = lost \cup {r} /\ UNCHANGED <<standing, app, tip, pr, head, service>>
SwitchChanges == Turn /\ connected' = ~connected /\ UNCHANGED <<standing, app, tip, pr, head, lost, active>>
OtherRun(c) == /\ Turn /\ active' = IF c \in active THEN active \ {c} ELSE active \cup {c}
               /\ UNCHANGED <<standing, app, tip, pr, head, lost, connected>>
\* A day passes, and the list of what is visible with it.
DayPasses ==
    /\ today < LastDay /\ today' = today + 1 /\ listing' = "unknown"
    /\ UNCHANGED <<standing, app, tip, pr, head, lost, tree, extent, upheavals, service, rules, diffs, errand, reader>>

ReaderStep(a) ==
    \/ Come(a) \/ ListFromCache(a) \/ ListFromGitHub(a) \/ ListFails(a) \/ AskApp(a)
    \/ ResolveBranch(a) \/ ReadRules(a) \/ FetchRules(a) \/ KeepRules(a)
    \/ ReadDiff(a) \/ FetchDiff_(a) \/ KeepDiff(a)
    \/ AskStanding(a) \/ CheckRecord(a) \/ ReadPull(a) \/ FindActive(a)
    \/ InsertByHand(a) \/ EnqueueByHand(a) \/ EnqueueByHandFails(a)

CabinetAction ==
    \/ \E a \in Readers : ReaderStep(a)
    \/ \E r \in Standings : RoleChanges(r)
    \/ AppChanges \/ SwitchChanges \/ DayPasses
    \/ \E c \in Commits : Pushed(c) \/ OtherRun(c)
    \/ \E p \in Pulls : PullChanges(p)
    \/ \E r \in OldRuns : DiffLost(r)

\* What is so now and a request could come to know.
FactsFor(a) == {tree[tip], standing, app, pr, SeenBy(standing)}
    \cup (IF connected THEN {"connected"} ELSE {"disconnected"})
    \cup (IF reader[a].commit \in active THEN {"active"} ELSE {})
    \cup (IF Does(a, "diff") THEN {extent[errand[a].run]} ELSE {})
    \cup (IF Does(a, "diff") /\ errand[a].run \in lost THEN {"lost"} ELSE {})
Witness ==
    /\ met' = [a \in Readers |-> IF reader'[a].step \in {"start", "over"} THEN Unmet
                 ELSE [facts |-> met[a].facts \cup FactsFor(a) \cup FactsFor(a)',
                       heads |-> met[a].heads \cup {head, head'}]]
    /\ lapsed' = (lapsed \/ app' = "off")

CabinetNext == CabinetAction /\ Witness
CabinetSpec == CabinetInit /\ [][CabinetNext]_cabinetVars

CabinetTypeOK ==
    /\ standing \in Standings /\ app \in {"on", "off"} /\ pr \in Pulls
    /\ {tip, head} \subseteq Commits /\ lost \subseteq OldRuns /\ active \subseteq Commits
    /\ listing \in {"unknown", "visible", "hidden"}
    /\ rules \in Seq([key : Commits, value : Texts, expires : Nat]) /\ Len(rules) <= Room
    /\ diffs \in Seq([key : OldRuns, value : OldRuns, expires : Nat]) /\ Len(diffs) <= Room
    /\ \A a \in Readers : reader[a].role \in Standings /\ reader[a].commit \in Commits \cup {0}

\* What must have been so while a request was under way for its reply to be right.
OneOf(facts, some) == facts \cap some # {}
Right(a, word, of, facts, heads) ==
    /\ word \in {"loaded", "empty", "too_large"} => word \in facts
    /\ word = "absent" => "absent" \in facts \/ lapsed
    /\ word = "shown" => of = errand[a].run /\ "small" \in facts
    /\ word = "tooLarge" => "large" \in facts
    /\ word = "gone" => OneOf(facts, {"lost", "off"})
    /\ word = "notInstalled" => "off" \in facts
    /\ word = "forbidden" => "reader" \in facts
    /\ word = "noPull" => OneOf(facts, {"none", "off"})
    /\ word = "notOpen" => "closed" \in facts
    /\ word = "untrusted" => "stranger" \in facts
    /\ word = "alreadyActive" => "active" \in facts
    /\ word = "accepted" => {"writer", "connected", "on", "open"} \subseteq facts /\ reader[a].commit \in heads
    /\ word = "notFound" /\ Does(a, "launch") => OneOf(facts, {"hidden", "disconnected"})

\* A reply of the cabinet was right at some moment of its request, though GitHub is
\* asked several times, the commit's contents come from a cache that another request
\* filled, and all may change in between: a failure is never taken for what a commit
\* holds, and a run by hand is of a head, an open pull request, a connected repository
\* and a user as they were meanwhile (run_diff.py, repo_config_loader.py, launch_review.py).
ReplyWasRight == [][\A a \in Readers : reader'[a].step = "over" /\ reader[a].step # "over" =>
    Right(a, reader'[a].reply, reader'[a].of,
          met[a].facts \cup FactsFor(a), met[a].heads \cup {head})]_cabinetVars
=============================================================================
