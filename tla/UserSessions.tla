---------------------------- MODULE UserSessions ----------------------------
(***************************************************************************)
(* Sessions and the user's token at the provider (use_cases/auth.py,       *)
(* use_cases/user_token.py, domain/provider_token.py, oauth/github.py).    *)
(* A pair of access and refresh token is a number, its generation.  The    *)
(* provider honours one generation of a session's grant: a refresh spends  *)
(* the refresh token and replaces the pair, whether or not the answer      *)
(* arrives.                                                                *)
(***************************************************************************)
EXTENDS Naturals

CONSTANTS
    Calls,              \* requests of the application
    Sessions,           \* sessions, in the order of their logins
    Life,               \* how long an access token lives, in ticks
    RefreshMargin, UsableMargin,    \* REFRESH_MARGIN, USABLE_MARGIN, in ticks
    RequestTime,        \* how long a request may take, a bound
    MaxTime, MaxGeneration          \* bounds

Nobody == "nobody"

ASSUME SessionAssumption ==
    /\ Nobody \notin Calls /\ Sessions \subseteq Nat \ {0}
    /\ {Life, RefreshMargin, UsableMargin, RequestTime, MaxTime, MaxGeneration} \subseteq Nat
    /\ UsableMargin <= RefreshMargin /\ RefreshMargin + RequestTime < Life

VARIABLES
    stored,     \* sessions with their provider_tokens, as committed
    call,       \* the requests and what each holds
    holder,     \* who holds the row lock of a session's token
    granted,    \* the generation the provider honours, 0 for none
    opened,     \* how many sessions have been opened
    time,       \* the clock
    spoilt      \* history: grants withdrawn, answers to a refresh lost

userVars == <<stored, call, holder, granted, opened, time, spoilt>>

NoToken == [there |-> FALSE, gen |-> 0, expires |-> 0, renewable |-> FALSE, readable |-> FALSE]
Token(gen, renewable) ==
    [there |-> TRUE, gen |-> gen, expires |-> time + Life, renewable |-> renewable, readable |-> TRUE]
NoCall == [step |-> "idle", session |-> 0, now |-> 0, got |-> 0, usable |-> FALSE, rejected |-> FALSE]
Waiting == {"lock", "lockOut"}
CallSteps == Waiting \cup {"idle", "read", "exchange", "save", "call", "again", "close",
              "revoke", "delete", "replace", "ok", "unauthorized", "unavailable", "out", "left"}
Ended == {"ok", "unauthorized", "unavailable", "out", "left"}

UserInit ==
    /\ stored = [s \in Sessions |-> NoToken]
    /\ call = [c \in Calls |-> NoCall]
    /\ holder = [s \in Sessions |-> Nobody]
    /\ granted = [s \in Sessions |-> 0]
    /\ opened = 0 /\ time = 0 /\ spoilt = {}

NeedsRefresh(t, now) == now + RefreshMargin >= t.expires
IsUsable(t, now) == now + UsableMargin < t.expires

At(c, s) == call[c].step = s
On(c) == call[c].session
To(c, s) == call' = [call EXCEPT ![c].step = s]
End(c, s) == call' = [call EXCEPT ![c] = [NoCall EXCEPT !.step = s, !.session = On(c)]]
Lock(c) == holder[On(c)] = Nobody /\ holder' = [holder EXCEPT ![On(c)] = c]
Unlock(c) == holder' = [holder EXCEPT ![On(c)] = Nobody]
provider == <<granted, opened, time, spoilt>>

\* exchange_code: a grant of its own for every login.
Grant(s) ==
    /\ s = opened + 1
    /\ opened' = s
    /\ granted' = [granted EXCEPT ![s] = 1]

\* complete_login: the code is exchanged before the transaction; the session the
\* cookie names goes in the same transaction, once nobody holds its token.
Login(c, s, old) ==
    /\ At(c, "idle") /\ old <= opened /\ Grant(s)
    /\ call' = [call EXCEPT ![c] = [NoCall EXCEPT !.step = "replace", !.session = s, !.now = time, !.got = old]]
    /\ UNCHANGED <<stored, holder, time, spoilt>>

FinishLogin(c) ==
    /\ At(c, "replace")
    /\ LET s == On(c)
           old == call[c].got
       IN /\ old \in Sessions => holder[old] = Nobody
          /\ \E renewable \in BOOLEAN :
                stored' = [z \in Sessions |-> IF z = s THEN Token(1, renewable)
                                              ELSE IF z = old THEN NoToken ELSE stored[z]]
    /\ End(c, "ok")
    /\ UNCHANGED <<holder, provider>>

\* The pair cannot be written, and there is no session.
LoginFails(c) ==
    /\ At(c, "replace")
    /\ End(c, "unavailable")
    /\ UNCHANGED <<stored, holder, provider>>

\* authenticate: without a token the session is not one.
Enter(c, s) ==
    /\ At(c, "idle") /\ s <= opened
    /\ call' = [call EXCEPT ![c] = [NoCall EXCEPT !.session = s, !.now = time,
           !.step = IF stored[s].there THEN "read" ELSE "unauthorized"]]
    /\ UNCHANGED <<stored, holder, provider>>

\* _fresh_or_refreshed: the token as committed, without the lock.
ReadStored(c) ==
    /\ At(c, "read")
    /\ LET t == stored[On(c)]
       IN call' = [call EXCEPT ![c].got = t.gen, ![c].usable = IsUsable(t, call[c].now),
              ![c].step = IF ~t.there \/ ~t.readable THEN "close"
                          ELSE IF NeedsRefresh(t, call[c].now) THEN "lock" ELSE "call"]
    /\ UNCHANGED <<stored, holder, provider>>

\* Another request has refreshed the token meanwhile.
Changed(c, t) ==
    IF call[c].rejected THEN t.gen # call[c].got ELSE ~NeedsRefresh(t, call[c].now)

\* MUTANT of TakeLock: the row is read without FOR UPDATE.
TakeLockOfNobody(c) ==
    /\ At(c, "lock")
    /\ LET t == stored[On(c)]
       IN IF t.there /\ t.readable /\ ~Changed(c, t) /\ t.renewable
          THEN holder' = [holder EXCEPT ![On(c)] = c] /\ To(c, "exchange")
          ELSE To(c, "close") /\ UNCHANGED holder
    /\ UNCHANGED <<stored, provider>>

\* _refreshed, from the lock on the row to the decision.
TakeLock(c) ==
    /\ At(c, "lock") /\ holder[On(c)] = Nobody
    /\ LET t == stored[On(c)]
       IN IF t.there /\ t.readable /\ ~Changed(c, t) /\ t.renewable
          THEN /\ Lock(c)
               /\ To(c, "exchange")
          ELSE /\ IF t.there /\ t.readable /\ Changed(c, t)
                  THEN call' = [call EXCEPT ![c].got = t.gen,
                           ![c].step = IF call[c].rejected THEN "again" ELSE "call"]
                  ELSE To(c, "close")
               /\ UNCHANGED holder
    /\ UNCHANGED <<stored, provider>>

\* The provider or the lock gives no answer: a token that is not rejected and
\* lives a while yet does for the call.
Unavailable(c) ==
    IF ~call[c].rejected /\ call[c].usable THEN To(c, "call") ELSE End(c, "unavailable")

LockTimeout(c) ==
    /\ At(c, "lock") /\ holder[On(c)] # Nobody
    /\ Unavailable(c)
    /\ UNCHANGED <<stored, holder, provider>>

\* POST /login/oauth/access_token with the refresh token, under the lock.
Spend(c) ==
    /\ granted[On(c)] = stored[On(c)].gen /\ granted[On(c)] < MaxGeneration
    /\ granted' = [granted EXCEPT ![On(c)] = @ + 1]

Exchange(c) ==
    /\ At(c, "exchange") /\ Spend(c)
    /\ call' = [call EXCEPT ![c].step = "save", ![c].got = granted[On(c)] + 1]
    /\ UNCHANGED <<stored, holder, opened, time, spoilt>>

ExchangeFails(c) ==
    /\ At(c, "exchange")
    /\ \/ Spend(c) /\ spoilt' = spoilt \cup {On(c)}
       \/ UNCHANGED <<granted, spoilt>>
    /\ Unavailable(c)
    /\ Unlock(c)
    /\ UNCHANGED <<stored, opened, time>>

ExchangeRefused(c) ==
    /\ At(c, "exchange") /\ granted[On(c)] # stored[On(c)].gen
    /\ To(c, "close")
    /\ Unlock(c)
    /\ UNCHANGED <<stored, provider>>

SaveToken(c) ==
    /\ At(c, "save")
    /\ \E renewable \in BOOLEAN :
           stored' = [stored EXCEPT ![On(c)] = Token(call[c].got, renewable)]
    /\ To(c, IF call[c].rejected THEN "again" ELSE "call")
    /\ Unlock(c)
    /\ UNCHANGED provider

\* The provider takes the token it has granted while it lives.
Works(c) ==
    /\ granted[On(c)] = call[c].got
    /\ stored[On(c)].gen = call[c].got => time < stored[On(c)].expires

\* MUTANT of CallProvider: the first rejection closes the session.
CallProviderOnce(c) ==
    /\ call[c].step \in {"call", "again"}
    /\ IF Works(c) THEN End(c, "ok") ELSE To(c, "close")
    /\ UNCHANGED <<stored, holder, provider>>

\* call_with_user_token: one repetition with the token as it is under the lock.
CallProvider(c) ==
    /\ call[c].step \in {"call", "again"}
    /\ \/ Works(c) /\ End(c, "ok")
       \/ End(c, "unavailable")
       \/ /\ ~Works(c)
          /\ IF At(c, "call")
             THEN call' = [call EXCEPT ![c].rejected = TRUE, ![c].step = "lock"]
             ELSE To(c, "close")
    /\ UNCHANGED <<stored, holder, provider>>

\* _close: the deletion takes the token along and waits for its lock.
Close(c) ==
    /\ At(c, "close") /\ holder[On(c)] = Nobody
    /\ stored' = [stored EXCEPT ![On(c)] = NoToken]
    /\ End(c, "unauthorized")
    /\ UNCHANGED <<holder, provider>>

\* logout: the token is read under the lock, deleted with the session and then
\* revoked; if the lock is not to be had the session goes without a revocation.
Logout(c, s) ==
    /\ At(c, "idle") /\ s <= opened
    /\ call' = [call EXCEPT ![c] = [NoCall EXCEPT !.session = s, !.now = time,
           !.step = IF stored[s].there THEN "lockOut" ELSE "left"]]
    /\ UNCHANGED <<stored, holder, provider>>

\* MUTANT of LogoutLocked: the token is read without the lock.
LogoutUnlocked(c) ==
    /\ At(c, "lockOut")
    /\ call' = [call EXCEPT ![c].got = stored[On(c)].gen,
                            ![c].step = IF stored[On(c)].there THEN "revoke" ELSE "left"]
    /\ stored' = [stored EXCEPT ![On(c)] = NoToken]
    /\ UNCHANGED <<holder, provider>>

LogoutLocked(c) ==
    /\ At(c, "lockOut") /\ holder[On(c)] = Nobody
    /\ LET t == stored[On(c)]
       IN call' = [call EXCEPT ![c].got = t.gen,
              ![c].step = IF t.there /\ t.readable THEN "revoke" ELSE "left"]
    /\ stored' = [stored EXCEPT ![On(c)] = NoToken]
    /\ UNCHANGED <<holder, provider>>

LogoutBusy(c) ==
    /\ At(c, "lockOut") /\ holder[On(c)] # Nobody
    /\ To(c, "delete")
    /\ UNCHANGED <<stored, holder, provider>>

LogoutDelete(c) ==
    /\ At(c, "delete") /\ holder[On(c)] = Nobody
    /\ stored' = [stored EXCEPT ![On(c)] = NoToken]
    /\ End(c, "left")
    /\ UNCHANGED <<holder, provider>>

\* revoke: one token goes, and one that is no longer honoured counts as gone.
Revoked(c) ==
    IF granted[On(c)] = call[c].got THEN [granted EXCEPT ![On(c)] = 0] ELSE granted

\* revoke_quietly, after the answer to the user.
RevokeToken(c) ==
    /\ At(c, "revoke")
    /\ \/ granted' = Revoked(c) /\ End(c, "out")
       \/ End(c, "left") /\ UNCHANGED granted
    /\ UNCHANGED <<stored, holder, opened, time, spoilt>>

\* purge_expired_sessions, and authenticate of an expired session.
PurgeSession(s) ==
    /\ stored[s].there /\ holder[s] = Nobody
    /\ stored' = [stored EXCEPT ![s] = NoToken]
    /\ UNCHANGED <<call, holder, provider>>

\* The user withdraws the authorisation at the provider.
Withdraw(s) ==
    /\ granted[s] # 0
    /\ granted' = [granted EXCEPT ![s] = 0]
    /\ spoilt' = spoilt \cup {s}
    /\ UNCHANGED <<stored, call, holder, opened, time>>

RefreshTokenExpires(s) ==
    /\ stored[s].renewable /\ holder[s] = Nobody
    /\ stored' = [stored EXCEPT ![s].renewable = FALSE]
    /\ UNCHANGED <<call, holder, provider>>

\* A restart kills the requests and may come with another encryption key.
Restart ==
    /\ \E c \in Calls : call[c].step \notin Ended \cup {"idle"}
    /\ call' = [c \in Calls |-> IF At(c, "idle") THEN NoCall ELSE [NoCall EXCEPT !.step = "unavailable"]]
    /\ spoilt' = spoilt \cup {On(c) : c \in {d \in Calls : At(d, "save")}}
    /\ holder' = [s \in Sessions |-> Nobody]
    /\ \E same \in BOOLEAN :
           stored' = [s \in Sessions |-> [stored[s] EXCEPT !.readable = same /\ @]]
    /\ UNCHANGED <<granted, opened, time>>

Tick ==
    /\ time < MaxTime
    /\ \A c \in Calls : call[c].step \notin Ended \cup {"idle", "revoke"} => time < call[c].now + RequestTime
    /\ time' = time + 1
    /\ UNCHANGED <<stored, call, holder, granted, opened, spoilt>>

CallStep(c) ==
    \/ FinishLogin(c) \/ LoginFails(c) \/ ReadStored(c) \/ TakeLock(c) \/ LockTimeout(c) \/ Exchange(c)
    \/ ExchangeFails(c) \/ ExchangeRefused(c) \/ SaveToken(c) \/ CallProvider(c) \/ Close(c)
    \/ LogoutLocked(c) \/ LogoutBusy(c) \/ LogoutDelete(c) \/ RevokeToken(c)

UserNext ==
    \/ \E c \in Calls : CallStep(c)
    \/ \E c \in Calls, s \in Sessions : Enter(c, s) \/ Logout(c, s)
    \/ \E c \in Calls, s \in Sessions, old \in Sessions \cup {0} : Login(c, s, old)
    \/ \E s \in Sessions : PurgeSession(s) \/ Withdraw(s) \/ RefreshTokenExpires(s)
    \/ Restart \/ Tick

UserSpec == UserInit /\ [][UserNext]_userVars

Tokens == [there : BOOLEAN, gen : Nat, expires : Nat, renewable : BOOLEAN, readable : BOOLEAN]
UserTypeOK ==
    /\ stored \in [Sessions -> Tokens]
    /\ call \in [Calls -> [step : CallSteps, session : Sessions \cup {0}, now : Nat,
                           got : Nat, usable : BOOLEAN, rejected : BOOLEAN]]
    /\ holder \in [Sessions -> Calls \cup {Nobody}]
    /\ granted \in [Sessions -> Nat]
    /\ opened \in Nat /\ time \in Nat /\ spoilt \subseteq Sessions

\* A refresh token serves once: an exchange under way holds the generation the
\* provider honours, however many requests of the session run at once, unless an
\* earlier answer was lost or the user withdrew (design D4, _refreshed).
RefreshTokenServesOnce == \A c \in Calls :
    At(c, "exchange") /\ On(c) \notin spoilt => granted[On(c)] = stored[On(c)].gen

\* A request closes a session only when its token is of no use: it cannot be
\* renewed or read, or the provider has dropped it, or another request has closed
\* it; never because a parallel request has just renewed it (call_with_user_token).
OnlyDeadSessionIsClosed == \A c \in Calls :
    At(c, "close") /\ On(c) \notin spoilt =>
        LET t == stored[On(c)] IN t.there => ~t.renewable \/ ~t.readable

\* After a logout that revoked a token the provider honours none of the session:
\* a refresh under way at that moment leaves no live token behind (logout).
LogoutLeavesNoToken == \A c \in Calls : At(c, "out") => granted[On(c)] = 0 \/ On(c) \in spoilt
=============================================================================
