-------------------------- MODULE RepositoryAccess --------------------------
(***************************************************************************)
(* Which repositories a user sees, and the requests that connect them,     *)
(* switch them off and set them up (use_cases/connect_repository.py,       *)
(* api/repositories.py, vcs/cached_installations.py).  GitHub decides what *)
(* a user may do; a list of what is visible is kept for a while; the role  *)
(* is asked for anew before a write.  The user's token is UserSessions'.   *)
(***************************************************************************)
EXTENDS MemoryCache

CONSTANTS
    Users, Repos,
    Asks, Plans,    \* the requests; what they may be about, sets of requests at once
    SavedSettings,  \* settings a user may save
    Ttl, Limit,     \* visible_repositories_cache_ttl, max_entries
    Patience,       \* how long a request takes, in ticks, a bound
    Until, Changes  \* bounds on the clock and on changes at GitHub

Default == "default"    \* the settings of a new record
Kinds == {"list", "connect", "disconnect", "save", "setup"}
ASSUME AccessAssumption ==
    /\ {Ttl, Limit, Patience, Until, Changes} \subseteq Nat /\ Limit > 0 /\ Ttl > 0
    /\ Default \notin SavedSettings
    /\ Plans \subseteq [Asks -> [kind : Kinds, user : Users, repo : Repos, settings : SavedSettings]]

VARIABLES
    role,       \* of each user on each repository, at GitHub
    installed,  \* repositories of the installation of the application
    repository, \* the records in the database
    entries,    \* the cache of the visible repositories
    asked,      \* what each request is about
    ask,        \* and where it stands
    day, changes,   \* the clock; how many changes at GitHub are left
    seen        \* history: what has been so while a request was under way

accessVars == <<role, installed, repository, entries, asked, ask, day, changes, seen>>

\* A public repository without a role shows itself by its id and in no list.
Roles == {"none", "public", "member", "manager"}
Absent == [there |-> FALSE, on |-> FALSE, settings |-> Default]
New == [there |-> TRUE, on |-> TRUE, settings |-> Default]
NoList == [asOf |-> 0, visible |-> {}]
Idle == [step |-> "idle", since |-> 0, list |-> NoList, role |-> "none", picked |-> {}, answer |-> "none"]

AccessInit ==
    /\ role = [u \in Users |-> [p \in Repos |-> "manager"]]
    /\ installed = Repos
    /\ repository \in [Repos -> {Absent, [New EXCEPT !.on = FALSE]}]
    /\ entries = << >>
    /\ asked \in Plans
    /\ ask = [a \in Asks |-> Idle]
    /\ day = 0 /\ changes = Changes
    /\ seen = [a \in Asks |-> {}]

Visible(u) == {p \in installed : role[u][p] \in {"member", "manager"}}
CanConnect(r) == r = "manager"
VisibleForConnect(r) == r \in {"member", "manager"}

InStep(a, s) == ask[a].step = s
Next_(a, s) == ask' = [ask EXCEPT ![a].step = s]
Reply(a, answer) == ask' = [ask EXCEPT ![a] = [Idle EXCEPT !.step = "over", !.answer = answer]]
github == <<role, installed>>
outside == <<github, asked, day, changes>>

Begin(a) ==
    /\ InStep(a, "idle")
    /\ ask' = [ask EXCEPT ![a].since = day,
           ![a].step = IF asked[a].kind = "connect" THEN "role"
                       ELSE IF asked[a].kind = "setup" THEN "selection" ELSE "list"]
    /\ UNCHANGED <<repository, entries, outside>>

\* Any request to GitHub may fail: 502, and nothing is written.
ProviderFails(a) ==
    /\ ask[a].step \in {"ask", "role", "installation", "selection", "pick"}
    /\ Reply(a, "unavailable")
    /\ UNCHANGED <<repository, entries, outside>>

\* list_repositories: a hit, or a miss; the key is of the token, so a renewed
\* token misses, and so does a store that fails.
ReadCache(a) ==
    /\ InStep(a, "list")
    /\ LET hit == Live(entries, asked[a].user, day)
       IN \/ /\ hit # << >>
             /\ ask' = [ask EXCEPT ![a].list = hit[1].value, ![a].step = "listed"]
          \/ Next_(a, "ask")
    /\ entries' = AfterGet(entries, asked[a].user, day)
    /\ UNCHANGED <<repository, outside>>

AskList(a) ==
    /\ InStep(a, "ask")
    /\ ask' = [ask EXCEPT ![a].list = [asOf |-> day, visible |-> Visible(asked[a].user)],
                          ![a].step = "keep"]
    /\ UNCHANGED <<repository, entries, outside>>

AfterListing(a) == IF asked[a].kind = "setup" THEN "pick" ELSE "listed"

KeepList(a) ==
    /\ InStep(a, "keep")
    /\ \/ entries' = AfterSet(entries, asked[a].user, ask[a].list, day + Ttl, day, Limit)
       \/ UNCHANGED entries
    /\ Next_(a, AfterListing(a))
    /\ UNCHANGED <<repository, outside>>

\* list_with_connections: what is visible, with the records there are.
ShowList(a) ==
    /\ InStep(a, "listed")
    /\ Reply(a, "ok")
    /\ UNCHANGED <<repository, entries, outside>>

\* _visible_with_host, which answers for what is hidden as for what does not exist.
Listed(a) ==
    /\ InStep(a, "listed")
    /\ IF asked[a].repo \in ask[a].list.visible /\ repository[asked[a].repo].there
       THEN Next_(a, "role") ELSE Reply(a, "notFound")
    /\ UNCHANGED <<repository, entries, outside>>

\* MUTANT of AskRole: whoever sees the repository may change it.
AskRoleOfVisible(a) ==
    /\ InStep(a, "role")
    /\ IF VisibleForConnect(role[asked[a].user][asked[a].repo])
       THEN Next_(a, "write") ELSE Reply(a, "notFound")
    /\ UNCHANGED <<repository, entries, outside>>

\* user_repository, past the cache: connecting, then _manage_refusal.
AskRole(a) ==
    /\ InStep(a, "role")
    /\ LET r == role[asked[a].user][asked[a].repo]
           connecting == asked[a].kind = "connect"
       IN \/ connecting /\ VisibleForConnect(r) /\ ask' = [ask EXCEPT ![a].role = r, ![a].step = "installation"]
          \/ connecting /\ ~VisibleForConnect(r) /\ Reply(a, "notFound")
          \/ ~connecting /\ r = "none" /\ Reply(a, "notFound")
          \/ ~connecting /\ r # "none" /\ ~CanConnect(r) /\ Reply(a, "forbidden")
          \/ ~connecting /\ CanConnect(r) /\ Next_(a, "write")
    /\ UNCHANGED <<repository, entries, outside>>

AskInstallation(a) ==
    /\ InStep(a, "installation")
    /\ \/ asked[a].repo \notin installed /\ Reply(a, "notFound")
       \/ asked[a].repo \in installed /\ ~CanConnect(ask[a].role) /\ Reply(a, "forbidden")
       \/ asked[a].repo \in installed /\ CanConnect(ask[a].role) /\ Next_(a, "write")
    /\ UNCHANGED <<repository, entries, outside>>

Write(p, r) == repository' = [repository EXCEPT ![p] = r]

\* reconnect: the update finds only a record that is switched off.
Reconnect(a) ==
    /\ InStep(a, "write")
    /\ LET p == asked[a].repo
       IN IF repository[p].there /\ ~repository[p].on
          THEN Write(p, [repository[p] EXCEPT !.on = TRUE]) /\ Reply(a, "created")
          ELSE Next_(a, "insert") /\ UNCHANGED repository
    /\ UNCHANGED <<entries, outside>>

\* add: ON CONFLICT DO NOTHING.
Insert(a) ==
    /\ InStep(a, "insert")
    /\ LET p == asked[a].repo
       IN IF repository[p].there THEN Reply(a, "conflict") /\ UNCHANGED repository
          ELSE Write(p, New) /\ Reply(a, "created")
    /\ UNCHANGED <<entries, outside>>

Disconnect(a) ==
    /\ InStep(a, "write")
    /\ Write(asked[a].repo, [repository[asked[a].repo] EXCEPT !.on = FALSE])
    /\ Reply(a, "done")
    /\ UNCHANGED <<entries, outside>>

SaveSettings(a) ==
    /\ InStep(a, "write")
    /\ Write(asked[a].repo, [repository[asked[a].repo] EXCEPT !.settings = asked[a].settings])
    /\ Reply(a, "done")
    /\ UNCHANGED <<entries, outside>>

\* A setup that was only requested or has a foreign state connects nothing.
SetupDeclined(a) ==
    /\ InStep(a, "idle")
    /\ Reply(a, "ok")
    /\ UNCHANGED <<repository, entries, outside>>

\* connect_installation, on the way back from GitHub's page: the installation is
\* looked up by the user's token, and its list is refreshed for the cache's sake.
AskSelection(a) ==
    /\ InStep(a, "selection")
    /\ IF Visible(asked[a].user) = {} THEN Reply(a, "notFound") ELSE Next_(a, "ask")
    /\ UNCHANGED <<repository, entries, outside>>

RefreshFails(a) ==
    /\ InStep(a, "ask")
    /\ Next_(a, "pick")
    /\ UNCHANGED <<repository, entries, outside>>

\* An update, or an installation on all repositories, connects nothing.
Pick(a) ==
    /\ InStep(a, "pick")
    /\ \/ ask' = [ask EXCEPT ![a].step = "register",
              ![a].picked = {p \in Visible(asked[a].user) : CanConnect(role[asked[a].user][p])}]
       \/ Reply(a, "ok")
    /\ UNCHANGED <<repository, entries, outside>>

\* to_connect_on_setup: without those that have a record.
Register(a) ==
    /\ InStep(a, "register")
    /\ ask' = [ask EXCEPT ![a].picked = {p \in @ : ~repository[p].there}, ![a].step = "addAll"]
    /\ UNCHANGED <<repository, entries, outside>>

\* MUTANT of AddAll: a record that is there by now is written anew.
AddAllAnyway(a) ==
    /\ InStep(a, "addAll")
    /\ repository' = [p \in Repos |-> IF p \in ask[a].picked THEN New ELSE repository[p]]
    /\ Reply(a, "ok")
    /\ UNCHANGED <<entries, outside>>

AddAll(a) ==
    /\ InStep(a, "addAll")
    /\ repository' = [p \in Repos |->
           IF p \in ask[a].picked /\ ~repository[p].there THEN New ELSE repository[p]]
    /\ Reply(a, "ok")
    /\ UNCHANGED <<entries, outside>>

Changing == changes > 0 /\ changes' = changes - 1

ChangeRole(u, p, r) ==
    /\ Changing /\ role[u][p] # r
    /\ role' = [role EXCEPT ![u][p] = r]
    /\ UNCHANGED <<installed, repository, entries, asked, ask, day>>

ChangeInstallation(p) ==
    /\ Changing
    /\ installed' = IF p \in installed THEN installed \ {p} ELSE installed \cup {p}
    /\ UNCHANGED <<role, repository, entries, asked, ask, day>>

Wait ==
    /\ day < Until
    /\ \A a \in Asks : ask[a].step \notin {"idle", "over"} => day < ask[a].since + Patience
    /\ day' = day + 1
    /\ UNCHANGED <<github, repository, entries, asked, ask, changes>>

\* The requests of the API; each begins, and may end for want of GitHub.
Look(a) == ReadCache(a) \/ AskList(a) \/ KeepList(a)
ListRequest(a) == asked[a].kind = "list" /\ (Look(a) \/ ShowList(a))
ConnectRequest(a) ==
    asked[a].kind = "connect" /\ (AskRole(a) \/ AskInstallation(a) \/ Reconnect(a) \/ Insert(a))
DisconnectRequest(a) ==
    asked[a].kind = "disconnect" /\ (Look(a) \/ Listed(a) \/ AskRole(a) \/ Disconnect(a))
SaveRequest(a) ==
    asked[a].kind = "save" /\ (Look(a) \/ Listed(a) \/ AskRole(a) \/ SaveSettings(a))
SetupRequest(a) ==
    /\ asked[a].kind = "setup"
    /\ \/ SetupDeclined(a) \/ AskSelection(a) \/ AskList(a) \/ KeepList(a) \/ RefreshFails(a)
       \/ Pick(a) \/ Register(a) \/ AddAll(a)

AskStep(a) ==
    \/ Begin(a) \/ ProviderFails(a)
    \/ ListRequest(a) \/ ConnectRequest(a) \/ DisconnectRequest(a) \/ SaveRequest(a) \/ SetupRequest(a)

AccessAction ==
    \/ \E a \in Asks : AskStep(a)
    \/ \E u \in Users, p \in Repos, r \in Roles : ChangeRole(u, p, r)
    \/ \E p \in Repos : ChangeInstallation(p)
    \/ Wait

Facts(a) ==
    (IF CanConnect(role[asked[a].user][asked[a].repo]) THEN {"managed"} ELSE {})
    \cup (IF repository[asked[a].repo].on THEN {"on"} ELSE {})
    \cup (IF asked[a].repo \in Visible(asked[a].user) THEN {} ELSE {"hidden"})

Remember == seen' = [a \in Asks |->
    IF ask'[a].step \in {"idle", "over"} THEN {} ELSE seen[a] \cup Facts(a)']

AccessNext == AccessAction /\ Remember
AccessSpec == AccessInit /\ [][AccessNext]_accessVars

Lists == [asOf : 0..Until, visible : SUBSET Repos]
AccessTypeOK ==
    /\ role \in [Users -> [Repos -> Roles]] /\ installed \subseteq Repos
    /\ repository \in [Repos -> [there : BOOLEAN, on : BOOLEAN, settings : SavedSettings \cup {Default}]]
    /\ \A p \in Repos : repository[p].on => repository[p].there
    /\ entries \in Seq([key : Users, value : Lists, expires : Nat]) /\ Len(entries) <= Limit
    /\ \A i, j \in DOMAIN entries : entries[i].key = entries[j].key => i = j
    /\ \A a \in Asks : ask[a].list \in Lists /\ ask[a].picked \subseteq Repos

\* An answer is true: a write is of somebody who managed the repository while
\* asking, whatever the cache says; a conflict is of a repository that was
\* connected meanwhile, and what is not found was hidden (connect_repository).
AnswerWasTrue == [][\A a \in Asks : ask'[a].answer # ask[a].answer =>
    /\ ask'[a].answer \in {"created", "done", "conflict"} => "managed" \in seen[a]
    /\ ask'[a].answer = "conflict" => "on" \in seen[a]
    /\ ask'[a].answer = "notFound" /\ asked[a].kind = "connect" => "hidden" \in seen[a]]_accessVars

\* A role withdrawn at GitHub shows within the time to live: a list that is served
\* is no older than that and the time a request takes, whoever wrote it last.
ListIsRecent == \A a \in Asks : InStep(a, "listed") => day < ask[a].list.asOf + Ttl + 2 * Patience

\* A repository that was switched off comes back only by a request to connect it,
\* and its settings are as they were saved: not by a setup that read the records
\* before (connect_installation, D7).
SwitchedOffStaysOff == [][\A p \in Repos :
    repository[p].there /\ ~repository[p].on /\ repository'[p].on =>
        /\ repository'[p].settings = repository[p].settings
        /\ \E a \in Asks : asked[a].kind = "connect" /\ asked[a].repo = p /\ InStep(a, "write")]_accessVars
=============================================================================
