--------------------------- MODULE GitHubRequest ---------------------------
(***************************************************************************)
(* One request to GitHub with its retries (app/infrastructure/vcs/         *)
(* github.py), the installation token it carries (github_auth.py), and the *)
(* search by marker that stands in for a lost answer (github_review.py).   *)
(* A request the host has not performed when its connection breaks is not  *)
(* performed later: the code allows for it only by the pause.              *)
(***************************************************************************)
EXTENDS Naturals

CONSTANTS
    Callers,        \* requests under way in one process
    KindOf,         \* what each asks: "read", "post" or "create"
    MaxAttempts,    \* max_attempts
    Budget,         \* rate_limit_budget_seconds, in half minutes
    DefaultWait,    \* _RATE_LIMIT_DEFAULT_WAIT_SECONDS, in half minutes
    Waits,          \* pauses the host may name
    NoWait,         \* a header that is absent
    MaxTokens       \* how many tokens the host issues, a bound

ASSUME RequestAssumption ==
    /\ KindOf \in [Callers -> {"read", "post", "create"}]
    /\ {MaxAttempts, MaxTokens} \subseteq Nat \ {0} /\ {Budget, DefaultWait} \subseteq Nat
    /\ Waits \subseteq Nat /\ NoWait \notin Nat

VARIABLES
    step,       \* where each request stands
    tries,      \* attempt, rate_limit_hits, waited, token_refreshed
    bearer,     \* the token it sends
    performed,  \* how often the host did what it asks
    outcome,    \* what the caller gets
    valid,      \* the token the host accepts
    cached      \* GitHubAppAuth._cache, 0 when there is no fresh entry

requestVars == <<step, tries, bearer, performed, outcome, valid, cached>>

Creates(c) == KindOf[c] = "create"      \* it came with already_done
Steps == {"token", "fetch", "store", "send", "performed", "pause", "check", "lastCheck", "over"}
Outcomes == {"none", "returned", "auth", "unavailable", "unknown", "notFound", "tooLarge", "refused"}

Limited == [kind : {"limited"}, after : Waits \cup {NoWait}, reset : Waits \cup {NoWait}]
Plain == [kind : {"ok", "badBody", "unauthorized", "redirect", "notFound", "unprocessable",
                  "forbidden", "server", "broken"}]

\* _rate_limit_wait after the hits-th refusal in a row; the second it adds to the reset
\* is rounded up to the unit.
LimitWait(a, hits) ==
    IF a.after # NoWait THEN a.after
    ELSE IF a.reset # NoWait THEN a.reset + 1
    ELSE DefaultWait * 2 ^ (hits - 1)

\* A 5xx or a broken connection can come after the host has done its work; the
\* answers that refuse cannot.
MayAnswer(c) ==
    IF step[c] = "performed" THEN {a \in Plain : a.kind \in {"ok", "badBody", "server", "broken"}}
    ELSE IF bearer[c] # valid THEN {a \in Plain : a.kind \in {"unauthorized", "broken"}}
    ELSE Limited \cup {a \in Plain : a.kind \notin {"ok", "badBody", "unauthorized"}}

NotTried == [attempt |-> 0, hits |-> 0, waited |-> 0, refreshed |-> FALSE]
RequestInit ==
    /\ step = [c \in Callers |-> "token"]
    /\ tries = [c \in Callers |-> NotTried]
    /\ bearer = [c \in Callers |-> 0]
    /\ performed = [c \in Callers |-> 0]
    /\ outcome = [c \in Callers |-> "none"]
    /\ valid = 1
    /\ cached = 0

Goto(c, s) == step' = [step EXCEPT ![c] = s]

\* _request returns or raises; what it held is gone.
End(c, o) ==
    /\ Goto(c, "over")
    /\ outcome' = [outcome EXCEPT ![c] = o]
    /\ tries' = [tries EXCEPT ![c] = NotTried]
    /\ bearer' = [bearer EXCEPT ![c] = 0]

\* installation_token: the cached token while it is fresh.
TakeToken(c) ==
    /\ step[c] = "token"
    /\ IF cached = 0 THEN Goto(c, "fetch") /\ UNCHANGED bearer
       ELSE Goto(c, "send") /\ bearer' = [bearer EXCEPT ![c] = cached]
    /\ UNCHANGED <<tries, performed, outcome, valid, cached>>

FetchToken(c) ==
    /\ step[c] = "fetch"
    /\ \/ /\ Goto(c, "store")
          /\ bearer' = [bearer EXCEPT ![c] = valid]
          /\ UNCHANGED <<outcome, tries>>
       \/ \E o \in {"auth", "unavailable"} : End(c, o)
    /\ UNCHANGED <<performed, valid, cached>>

StoreToken(c) ==
    /\ step[c] = "store"
    /\ cached' = bearer[c]
    /\ Goto(c, "send")
    /\ UNCHANGED <<tries, bearer, performed, outcome, valid>>

HostPerforms(c) ==
    /\ step[c] = "send" /\ bearer[c] = valid
    /\ performed' = [performed EXCEPT ![c] = @ + 1]
    /\ Goto(c, "performed")
    /\ UNCHANGED <<tries, bearer, outcome, valid, cached>>

\* Once per request a rejected token is dropped and taken anew.
Rejected(c) ==
    IF tries[c].refreshed
    THEN End(c, "auth") /\ UNCHANGED cached
    ELSE /\ cached' = 0
         /\ tries' = [tries EXCEPT ![c].refreshed = TRUE]
         /\ Goto(c, "token")
         /\ UNCHANGED <<outcome, bearer>>

\* MUTANT of TryAgain: the pause is not held against the budget.
TryAgainUnlimited(c, a) ==
    /\ IF tries[c].attempt + 1 >= MaxAttempts THEN End(c, "unavailable")
       ELSE /\ tries' = [tries EXCEPT ![c].attempt = @ + 1, ![c].waited = @ + DefaultWait]
            /\ Goto(c, "pause")
            /\ UNCHANGED <<outcome, bearer>>
    /\ UNCHANGED cached

\* Attempts and the budget of waiting decide whether the request goes out again.
TryAgain(c, a) ==
    LET t == tries[c]
        limited == a.kind = "limited"
        hits == IF limited THEN t.hits + 1 ELSE t.hits
        pause == IF limited THEN LimitWait(a, hits) ELSE 0
        givesUp == t.attempt + 1 >= MaxAttempts \/ (limited /\ t.waited + pause > Budget)
    IN /\ IF givesUp /\ ~Creates(c) THEN End(c, "unavailable")
          ELSE /\ tries' = [tries EXCEPT ![c].attempt = @ + 1, ![c].hits = hits,
                                         ![c].waited = IF givesUp THEN @ ELSE @ + pause]
               /\ Goto(c, IF givesUp THEN "lastCheck" ELSE "pause")
               /\ UNCHANGED <<outcome, bearer>>
       /\ UNCHANGED cached

Receive(c, a) ==
    /\ CASE a.kind = "unauthorized" -> Rejected(c)
         [] a.kind \in {"limited", "server"} -> TryAgain(c, a)
         [] a.kind = "broken" /\ Creates(c) -> TryAgain(c, a)
         [] OTHER ->
              /\ End(c, CASE a.kind = "ok" -> "returned"
                          [] a.kind = "badBody" -> "unknown"
                          [] a.kind = "broken" -> "unavailable"
                          [] a.kind = "notFound" /\ KindOf[c] = "read" -> "notFound"
                          [] a.kind = "unprocessable" /\ KindOf[c] = "read" -> "tooLarge"
                          [] OTHER -> "refused")
              /\ UNCHANGED cached
    /\ UNCHANGED <<performed, valid>>

HostAnswers(c) ==
    /\ step[c] \in {"send", "performed"}
    /\ \E a \in MayAnswer(c) : Receive(c, a)

Wake(c) ==
    /\ step[c] = "pause"
    /\ Goto(c, IF Creates(c) THEN "check" ELSE "send")
    /\ UNCHANGED <<tries, bearer, performed, outcome, valid, cached>>

\* MUTANT of Check: a search that fails is read as "not there".
CheckTakesFailureForNo(c) ==
    /\ step[c] \in {"check", "lastCheck"}
    /\ \/ performed[c] > 0 /\ End(c, "returned")
       \/ step[c] = "lastCheck" /\ End(c, "unavailable")
       \/ step[c] = "check" /\ Goto(c, "send") /\ UNCHANGED <<outcome, tries, bearer>>
    /\ UNCHANGED <<performed, valid, cached>>

\* already_done: the search by marker, which may itself fail.
Check(c) ==
    /\ step[c] \in {"check", "lastCheck"}
    /\ \/ End(c, "unknown")
       \/ performed[c] > 0 /\ End(c, "returned")
       \/ performed[c] = 0 /\ step[c] = "lastCheck" /\ End(c, "unavailable")
       \/ performed[c] = 0 /\ step[c] = "check" /\ Goto(c, "send") /\ UNCHANGED <<outcome, tries, bearer>>
    /\ UNCHANGED <<performed, valid, cached>>

\* The host revokes the token before its time.
Revoke ==
    /\ valid < MaxTokens
    /\ valid' = valid + 1
    /\ UNCHANGED <<step, tries, bearer, performed, outcome, cached>>

\* The cached token has less than a minute to live.
Expire ==
    /\ cached # 0
    /\ cached' = 0
    /\ UNCHANGED <<step, tries, bearer, performed, outcome, valid>>

RequestStep(c) ==
    \/ TakeToken(c) \/ FetchToken(c) \/ StoreToken(c) \/ HostPerforms(c)
    \/ HostAnswers(c) \/ Wake(c) \/ Check(c)

RequestNext == (\E c \in Callers : RequestStep(c)) \/ Revoke \/ Expire

RequestSpec == RequestInit /\ [][RequestNext]_requestVars

RequestTypeOK ==
    /\ step \in [Callers -> Steps] /\ outcome \in [Callers -> Outcomes]
    /\ bearer \in [Callers -> 0..MaxTokens] /\ performed \in [Callers -> Nat]
    /\ valid \in 1..MaxTokens /\ cached \in 0..MaxTokens
    /\ tries \in [Callers -> [attempt : 0..MaxAttempts, hits : 0..MaxAttempts,
                              waited : Nat, refreshed : BOOLEAN]]

Creating == {c \in Callers : Creates(c)}
ReplyOf == [none |-> "none", returned |-> "done", unavailable |-> "undone", auth |-> "undone",
            refused |-> "undone", unknown |-> "unknown"]

\* A request that must not be repeated is performed at most once whatever answers
\* are lost, and when the gateway says that it was done or that it was not, that
\* is so (_request with already_done).
Promise == INSTANCE RequestPromise WITH
    Asking <- Creating,
    effects <- [c \in Creating |-> performed[c]],
    reply <- [c \in Creating |-> ReplyOf[outcome[c]]]
KeepsRequestPromise == Promise!PromiseSpec

\* However the host spreads its refusals, a request waits no longer than the
\* budget and is sent at most once more than max_attempts, for the token.
PatienceIsBounded == \A c \in Callers :
    /\ tries[c].waited <= Budget
    /\ performed[c] <= MaxAttempts
=============================================================================
