------------------------- MODULE UserSessionsProofs -------------------------
(***************************************************************************)
(* For any number of requests and sessions and any times: a refresh token  *)
(* is spent once, a logout that revoked a token leaves none behind, and a  *)
(* session is closed only when its token can no longer be renewed or read. *)
(***************************************************************************)
EXTENDS UserSessions, TLAPS

\* Who is at the provider with a session's refresh token, or holds its successor.
Refreshing(c) == call[c].step \in {"exchange", "save"}
Opening(c, s) == At(c, "replace") /\ On(c) = s

\* Requests stand in sessions that were opened.
Placed == \A c \in Calls :
    /\ On(c) <= opened
    /\ call[c].step \notin {"idle", "unavailable"} => On(c) \in Sessions

\* The lock of a row is held by the request that refreshes it, and the row is there.
Locking == \A c \in Calls, s \in Sessions :
    /\ holder[s] = c <=> Refreshing(c) /\ On(c) = s
    /\ holder[s] = c => stored[s].there

\* A session that is being opened has one request that opens it and no row yet, and its
\* grant is the first.
Opened == \A c \in Calls, s \in Sessions : Opening(c, s) =>
    /\ ~stored[s].there
    /\ \A d \in Calls : Opening(d, s) => d = c
    /\ s \notin spoilt => granted[s] = 1

\* The provider honours what is stored, or what is about to be.
Honoured ==
    /\ \A s \in Sessions : stored[s].there =>
          /\ s <= opened
          /\ s \notin spoilt => \/ granted[s] = stored[s].gen
                                \/ \E c \in Calls : holder[s] = c /\ At(c, "save")
    /\ \A c \in Calls : At(c, "save") /\ On(c) \notin spoilt => granted[On(c)] = call[c].got
    /\ \A c \in Calls : At(c, "exchange") /\ On(c) \notin spoilt => granted[On(c)] = stored[On(c)].gen

\* A session that was left does not come back, and what its logout is about to revoke
\* is what the provider honours.
Gone(s) == ~stored[s].there /\ \A d \in Calls : ~Opening(d, s)
Leaving == \A c \in Calls :
    /\ call[c].step \in {"revoke", "out"} => Gone(On(c))
    /\ At(c, "revoke") /\ On(c) \notin spoilt => granted[On(c)] \in {0, call[c].got}
    /\ At(c, "out") /\ On(c) \notin spoilt => granted[On(c)] = 0

SessionInv == UserTypeOK /\ Placed /\ Locking /\ Opened /\ Honoured /\ Leaving

\* ---- lemmas ----------------------------------------------------------------

CallRecords == [step : CallSteps, session : Sessions \cup {0}, now : Nat,
                got : Nat, usable : BOOLEAN, rejected : BOOLEAN]

\* Where a request may go without touching the row, the lock or the grant.
Plain == CallSteps \ {"exchange", "save", "replace", "revoke", "out"}

LEMMA CallTypes ==
  ASSUME UserTypeOK, NEW c \in Calls, NEW r \in CallRecords, call' = [call EXCEPT ![c] = r]
  PROVE  call' \in [Calls -> CallRecords] /\ call'[c] = r /\ \A d \in Calls \ {c} : call'[d] = call[d]
BY DEF UserTypeOK, CallRecords

LEMMA HolderRefreshes ==
  ASSUME SessionInv, NEW d \in Calls, Refreshing(d)
  PROVE  On(d) \in Sessions /\ holder[On(d)] = d /\ holder[On(d)] # Nobody /\ stored[On(d)].there
BY SessionAssumption DEF SessionInv, Locking, Placed, Refreshing

LEMMA SessionsAreNumbers == \A s \in Sessions \cup {0} : s \in Nat
<1>1. Sessions \subseteq Nat
  BY SessionAssumption
<1>. QED  BY <1>1

LEMMA TypesOfCalls == UserTypeOK => call \in [Calls -> CallRecords]
BY DEF UserTypeOK, CallRecords

\* A request goes on by itself, and rows that nobody has locked are deleted.
LEMMA RowsGo ==
  ASSUME SessionInv, NEW c \in Calls, NEW r \in CallRecords, call' = [call EXCEPT ![c] = r],
         ~Refreshing(c), r.step \in Plain, r.session <= opened,
         r.step \notin {"idle", "unavailable"} => r.session \in Sessions,
         NEW R \in SUBSET Sessions, \A s \in R : holder[s] = Nobody,
         stored' = [s \in Sessions |-> IF s \in R THEN NoToken ELSE stored[s]],
         UNCHANGED <<holder, granted, opened, time, spoilt>>
  PROVE  SessionInv'
<1>1. call' \in [Calls -> CallRecords] /\ call'[c] = r /\ \A d \in Calls \ {c} : call'[d] = call[d]
  BY CallTypes DEF SessionInv
<1>2. /\ \A s \in R : ~stored'[s].there
      /\ \A s \in Sessions \ R : stored'[s] = stored[s]
      /\ stored' \in [Sessions -> Tokens]
  BY DEF SessionInv, UserTypeOK, NoToken, Tokens
<1>3. \A d \in Calls : Refreshing(d) => On(d) \in Sessions \ R
  BY SessionAssumption DEF SessionInv, Locking, Placed, Refreshing
<1>4. UserTypeOK'
  BY <1>1, <1>2 DEF SessionInv, UserTypeOK, CallRecords
<1>5. Placed'
  BY <1>1 DEF SessionInv, Placed, On
<1>6. Locking'
  BY <1>1, <1>2, <1>3 DEF SessionInv, Locking, On, Refreshing, Plain
<1>7. Opened'
  BY <1>1, <1>2 DEF SessionInv, Opened, Opening, On, At, Plain
<1>8. Honoured'
  <2>1. ASSUME NEW s \in Sessions, stored'[s].there
        PROVE  /\ s <= opened'
               /\ s \notin spoilt' => \/ granted'[s] = stored'[s].gen
                                      \/ \E d \in Calls : holder'[s] = d /\ At(d, "save")'
    <3>1. stored'[s] = stored[s] /\ s \notin R
      BY <1>2, <2>1
    <3>2. \A d \in Calls : At(d, "save") => At(d, "save")'
      BY <1>1 DEF At, Refreshing
    <3>. QED  BY <2>1, <3>1, <3>2 DEF SessionInv, Honoured
  <2>2. ASSUME NEW d \in Calls, Refreshing(d)' PROVE d # c /\ Refreshing(d) /\ stored'[On(d)] = stored[On(d)]
    BY <1>1, <1>2, <1>3, <2>2 DEF Refreshing, Plain
  <2>. QED  BY <1>1, <2>1, <2>2 DEF SessionInv, Honoured, Refreshing, On, At
<1>9. Leaving'
  BY <1>1, <1>2 DEF SessionInv, Leaving, Gone, Opening, On, At, Plain, Placed
<1>. QED  BY <1>4, <1>5, <1>6, <1>7, <1>8, <1>9 DEF SessionInv

LEMMA GoesOn ==
  ASSUME SessionInv, NEW c \in Calls, NEW r \in CallRecords, call' = [call EXCEPT ![c] = r],
         ~Refreshing(c), r.step \in Plain, r.session <= opened,
         r.step \notin {"idle", "unavailable"} => r.session \in Sessions,
         UNCHANGED <<stored, holder, granted, opened, time, spoilt>>
  PROVE  SessionInv'
<1>1. stored' = [s \in Sessions |-> IF s \in {} THEN NoToken ELSE stored[s]]
  BY DEF SessionInv, UserTypeOK
<1>. QED  BY <1>1, RowsGo, {} \in SUBSET Sessions

LEMMA RowGoes ==
  ASSUME SessionInv, NEW c \in Calls, NEW r \in CallRecords, call' = [call EXCEPT ![c] = r],
         ~Refreshing(c), r.step \in Plain, r.session <= opened,
         r.step \notin {"idle", "unavailable"} => r.session \in Sessions,
         NEW s \in Sessions, holder[s] = Nobody, stored' = [stored EXCEPT ![s] = NoToken],
         UNCHANGED <<holder, granted, opened, time, spoilt>>
  PROVE  SessionInv'
<1>1. stored' = [z \in Sessions |-> IF z \in {s} THEN NoToken ELSE stored[z]]
  BY DEF SessionInv, UserTypeOK
<1>. QED  BY <1>1, RowsGo, {s} \in SUBSET Sessions

\* The records that requests go on with.
LEMMA ToRecord ==
  ASSUME SessionInv, NEW c \in Calls, NEW s \in CallSteps
  PROVE  LET r == [call[c] EXCEPT !.step = s]
         IN r \in CallRecords /\ r.step = s /\ r.session = On(c) /\ r.got = call[c].got
BY TypesOfCalls DEF SessionInv, CallRecords, On

LEMMA EndRecord ==
  ASSUME SessionInv, NEW c \in Calls, NEW s \in CallSteps
  PROVE  LET r == [NoCall EXCEPT !.step = s, !.session = On(c)]
         IN r \in CallRecords /\ r.step = s /\ r.session = On(c)
BY TypesOfCalls DEF SessionInv, CallRecords, On, NoCall

\* Ending and moving on leave a request where it is.
LEMMA EndsQuietly ==
  ASSUME SessionInv, NEW c \in Calls, NEW s \in Plain, End(c, s) \/ To(c, s), ~Refreshing(c),
         ~At(c, "idle"), At(c, "unavailable") => s = "unavailable",
         UNCHANGED <<stored, holder, granted, opened, time, spoilt>>
  PROVE  SessionInv'
<1>1. s \in CallSteps /\ On(c) <= opened /\ (s # "unavailable" => On(c) \in Sessions)
  BY DEF Plain, SessionInv, Placed, At
<1>2. CASE End(c, s)
  BY <1>1, <1>2, EndRecord, GoesOn DEF End
<1>3. CASE To(c, s)
  <2> DEFINE r == [call[c] EXCEPT !.step = s]
  <2>1. call' = [call EXCEPT ![c] = r]
    BY <1>3 DEF To
  <2>2. r \in CallRecords /\ r.step = s /\ r.session = On(c)
    BY <1>1, ToRecord
  <2> HIDE DEF r
  <2>. QED  BY <1>1, <2>1, <2>2, GoesOn
<1>. QED  BY <1>2, <1>3

LEMMA BeginInv ==
  ASSUME SessionInv, NEW c \in Calls, NEW s \in Sessions, Enter(c, s) \/ Logout(c, s)
  PROVE  SessionInv'
<1> DEFINE r(n) == [NoCall EXCEPT !.session = s, !.now = time, !.step = n]
<1>1. \A n \in CallSteps : r(n) \in CallRecords /\ r(n).step = n /\ r(n).session = s
  BY DEF SessionInv, UserTypeOK, CallRecords, NoCall
<1>2. PICK n \in {"read", "unauthorized", "lockOut", "left"} : call' = [call EXCEPT ![c] = r(n)]
  BY DEF Enter, Logout
<1>3. ~Refreshing(c) /\ s <= opened /\ UNCHANGED <<stored, holder, granted, opened, time, spoilt>>
  BY DEF Enter, Logout, Refreshing, At, provider
<1>4. n \in CallSteps /\ n \in Plain
  BY DEF Plain, CallSteps, Waiting
<1> HIDE DEF r
<1>. QED  BY <1>1, <1>2, <1>3, <1>4, GoesOn

LEMMA ReadStoredInv ==
  ASSUME SessionInv, NEW c \in Calls, ReadStored(c)
  PROVE  SessionInv'
<1> DEFINE t == stored[On(c)]
           n == IF ~t.there \/ ~t.readable THEN "close"
                ELSE IF NeedsRefresh(t, call[c].now) THEN "lock" ELSE "call"
           r == [call[c] EXCEPT !.got = t.gen, !.usable = IsUsable(t, call[c].now), !.step = n]
<1>1. call' = [call EXCEPT ![c] = r] /\ r \in CallRecords /\ r.session = On(c) /\ r.step = n
  <2>1. call' = [call EXCEPT ![c] = r]
    BY DEF ReadStored
  <2>2. On(c) \in Sessions /\ t.gen \in Nat /\ IsUsable(t, call[c].now) \in BOOLEAN
    BY DEF ReadStored, SessionInv, UserTypeOK, Placed, At, Tokens, IsUsable
  <2>3. n \in CallSteps
    BY DEF CallSteps, Waiting
  <2>4. call[c] \in CallRecords
    BY TypesOfCalls DEF SessionInv
  <2> HIDE DEF t, n
  <2>5. r \in CallRecords /\ r.session = On(c) /\ r.step = n
    BY <2>2, <2>3, <2>4 DEF CallRecords, On
  <2>. QED  BY <2>1, <2>5
<1>2. n \in Plain
  BY DEF Plain, CallSteps, Waiting
<1>3. ~Refreshing(c) /\ On(c) <= opened /\ On(c) \in Sessions
      /\ UNCHANGED <<stored, holder, granted, opened, time, spoilt>>
  BY DEF ReadStored, Refreshing, At, SessionInv, Placed, provider
<1> HIDE DEF n, r, t
<1>. QED  BY <1>1, <1>2, <1>3, GoesOn

LEMMA QuietStepsInv ==
  ASSUME SessionInv, NEW c \in Calls, LoginFails(c) \/ LockTimeout(c) \/ LogoutBusy(c)
  PROVE  SessionInv'
<1>1. PICK s \in {"unavailable", "call", "delete"} : End(c, s) \/ To(c, s)
  BY DEF LoginFails, LockTimeout, LogoutBusy, Unavailable
<1>2. /\ ~Refreshing(c) /\ ~At(c, "idle") /\ ~At(c, "unavailable")
      /\ UNCHANGED <<stored, holder, granted, opened, time, spoilt>>
  BY DEF LoginFails, LockTimeout, LogoutBusy, Refreshing, At, provider
<1>3. s \in Plain
  BY DEF Plain, CallSteps, Waiting
<1>. QED  BY <1>1, <1>2, <1>3, EndsQuietly

LEMMA CallProviderInv ==
  ASSUME SessionInv, NEW c \in Calls, CallProvider(c)
  PROVE  SessionInv'
<1>1. /\ ~Refreshing(c) /\ ~At(c, "idle") /\ ~At(c, "unavailable")
      /\ On(c) \in Sessions /\ On(c) <= opened
      /\ UNCHANGED <<stored, holder, granted, opened, time, spoilt>>
  BY DEF CallProvider, Refreshing, At, provider, SessionInv, Placed
<1>2. ASSUME NEW s \in {"ok", "unavailable", "close"}, End(c, s) \/ To(c, s) PROVE SessionInv'
  <2>1. s \in Plain
    BY DEF Plain, CallSteps, Waiting
  <2>. QED  BY <1>1, <1>2, <2>1, EndsQuietly
<1>3. ASSUME call' = [call EXCEPT ![c].rejected = TRUE, ![c].step = "lock"] PROVE SessionInv'
  <2> DEFINE r == [call[c] EXCEPT !.rejected = TRUE, !.step = "lock"]
  <2>1. call' = [call EXCEPT ![c] = r]
    BY <1>3
  <2>2. r \in CallRecords /\ r.step = "lock" /\ r.session = On(c) /\ "lock" \in Plain
    BY TypesOfCalls DEF SessionInv, CallRecords, On, CallSteps, Waiting, Plain
  <2> HIDE DEF r
  <2>. QED  BY <1>1, <2>1, <2>2, GoesOn
<1>. QED  BY <1>2, <1>3 DEF CallProvider

LEMMA RowStepsInv ==
  ASSUME SessionInv, NEW c \in Calls, Close(c) \/ LogoutDelete(c)
  PROVE  SessionInv'
<1>1. /\ ~Refreshing(c) /\ holder[On(c)] = Nobody /\ stored' = [stored EXCEPT ![On(c)] = NoToken]
      /\ On(c) \in Sessions /\ On(c) <= opened
      /\ UNCHANGED <<holder, granted, opened, time, spoilt>>
  BY DEF Close, LogoutDelete, Refreshing, At, provider, SessionInv, Placed
<1>2. PICK s \in {"unauthorized", "left"} : End(c, s)
  BY DEF Close, LogoutDelete
<1>3. s \in Plain /\ s \in CallSteps
  BY DEF Plain, CallSteps, Waiting
<1>. QED  BY <1>1, <1>2, <1>3, EndRecord, RowGoes DEF End

LEMMA PurgeInv ==
  ASSUME SessionInv, NEW s \in Sessions, PurgeSession(s)
  PROVE  SessionInv'
<1>1. /\ stored'[s] = NoToken /\ \A z \in Sessions \ {s} : stored'[z] = stored[z]
      /\ ~NoToken.there /\ NoToken \in Tokens
      /\ UNCHANGED <<call, holder, granted, opened, time, spoilt>> /\ holder[s] = Nobody
  BY DEF SessionInv, UserTypeOK, NoToken, Tokens, PurgeSession, provider
<1>2. UserTypeOK'
  BY <1>1 DEF SessionInv, UserTypeOK, PurgeSession
<1>3. Placed'
  BY <1>1 DEF SessionInv, Placed, On
<1>4. Locking'
  BY <1>1, SessionAssumption DEF SessionInv, Locking, On, Refreshing
<1>5. Opened'
  BY <1>1 DEF SessionInv, Opened, Opening, On, At
<1>6. Honoured'
  <2>1. ASSUME NEW c \in Calls, Refreshing(c) PROVE On(c) # s /\ On(c) \in Sessions
    BY <1>1, <2>1, SessionAssumption DEF SessionInv, Locking, Placed, Refreshing
  <2>. QED  BY <1>1, <2>1 DEF SessionInv, Honoured, Refreshing, On, At
<1>7. Leaving'
  BY <1>1 DEF SessionInv, Leaving, Gone, Opening, On, At, Placed
<1>. QED  BY <1>2, <1>3, <1>4, <1>5, <1>6, <1>7 DEF SessionInv

\* The lock is taken by one whose row is there and not locked.
LEMMA TakeLockInv ==
  ASSUME SessionInv, NEW c \in Calls, TakeLock(c)
  PROVE  SessionInv'
<1> DEFINE s == On(c)
           t == stored[s]
<1>1. /\ At(c, "lock") /\ ~Refreshing(c) /\ s \in Sessions /\ s <= opened /\ holder[s] = Nobody
      /\ t.gen \in Nat /\ UNCHANGED <<stored, granted, opened, time, spoilt>>
  BY DEF TakeLock, Refreshing, At, provider, SessionInv, Placed, UserTypeOK, Tokens
<1>2. CASE t.there /\ t.readable /\ ~Changed(c, t) /\ t.renewable
  <2> DEFINE r == [call[c] EXCEPT !.step = "exchange"]
  <2>1. call' = [call EXCEPT ![c] = r] /\ holder' = [holder EXCEPT ![s] = c]
    BY <1>2 DEF TakeLock, Lock, To
  <2>2. r \in CallRecords /\ r.step = "exchange" /\ r.session = s
    BY ToRecord DEF CallSteps
  <2> HIDE DEF r
  <2>3. call' \in [Calls -> CallRecords] /\ call'[c] = r /\ \A d \in Calls \ {c} : call'[d] = call[d]
    BY <2>1, <2>2, CallTypes DEF SessionInv
  <2>4. holder'[s] = c /\ \A z \in Sessions \ {s} : holder'[z] = holder[z]
    BY <1>1, <2>1 DEF SessionInv, UserTypeOK
  <2>5. UserTypeOK'
    BY <1>1, <2>1, <2>3 DEF SessionInv, UserTypeOK, CallRecords
  <2>6. Placed'
    BY <1>1, <2>2, <2>3 DEF SessionInv, Placed, On
  <2>7. Locking'
    BY <1>1, <1>2, <2>2, <2>3, <2>4, SessionAssumption DEF SessionInv, Locking, On, Refreshing
  <2>8. Opened'
    BY <1>1, <2>2, <2>3 DEF SessionInv, Opened, Opening, On, At
  <2>9. Honoured'
    <3>1. s \notin spoilt => granted[s] = t.gen
      BY <1>1, <1>2, SessionAssumption DEF SessionInv, Honoured
    <3>2. \A d \in Calls : At(d, "save")' => d # c /\ At(d, "save")
      BY <2>2, <2>3 DEF At
    <3>3. ASSUME NEW z \in Sessions, stored[z].there, z \notin spoilt
          PROVE  granted[z] = stored[z].gen \/ \E d \in Calls : holder'[z] = d /\ At(d, "save")'
      <4>1. \A d \in Calls : At(d, "save") => At(d, "save")'
        BY <1>1, <2>3 DEF At
      <4>. QED  BY <3>1, <3>3, <2>4, <4>1 DEF SessionInv, Honoured
    <3>4. \A d \in Calls : At(d, "exchange")' => d = c \/ (At(d, "exchange") /\ call'[d] = call[d])
      BY <2>2, <2>3 DEF At
    <3>. QED  BY <1>1, <2>2, <2>3, <3>1, <3>2, <3>3, <3>4 DEF SessionInv, Honoured, On
  <2>10. Leaving'
    BY <1>1, <2>2, <2>3 DEF SessionInv, Leaving, Gone, Opening, On, At
  <2>. QED  BY <2>5, <2>6, <2>7, <2>8, <2>9, <2>10 DEF SessionInv
<1>3. CASE ~(t.there /\ t.readable /\ ~Changed(c, t) /\ t.renewable)
  <2>1. UNCHANGED holder
    BY <1>3 DEF TakeLock
  <2>2. CASE To(c, "close")
    <3>1. "close" \in Plain
      BY DEF Plain, CallSteps
    <3>. QED  BY <1>1, <2>1, <2>2, <3>1, EndsQuietly DEF At
  <2>3. CASE call' = [call EXCEPT ![c].got = t.gen, ![c].step = IF call[c].rejected THEN "again" ELSE "call"]
    <3> DEFINE n == IF call[c].rejected THEN "again" ELSE "call"
               r == [call[c] EXCEPT !.got = t.gen, !.step = n]
    <3>1. call' = [call EXCEPT ![c] = r]
      BY <2>3
    <3>2. n \in Plain /\ n \in CallSteps
      BY DEF Plain, CallSteps, Waiting
    <3> HIDE DEF n
    <3>3. r \in CallRecords /\ r.step = n /\ r.session = s
      BY <1>1, <3>2, TypesOfCalls DEF SessionInv, CallRecords, On
    <3> HIDE DEF r, t, s
    <3>. QED  BY <1>1, <2>1, <3>1, <3>2, <3>3, GoesOn
  <2>. QED  BY <1>3, <2>2, <2>3 DEF TakeLock
<1>. QED  BY <1>2, <1>3

\* The lock is given back when the provider honours what is stored, or it is known
\* that it may not.
LEMMA Unlocks ==
  ASSUME SessionInv, NEW c \in Calls, Refreshing(c), Unlock(c),
         NEW r \in CallRecords, call' = [call EXCEPT ![c] = r], r.step \in Plain, r.session = On(c),
         stored' \in [Sessions -> Tokens], granted' \in [Sessions -> Nat],
         spoilt \subseteq spoilt', spoilt' \subseteq Sessions, UNCHANGED <<opened, time>>,
         \A z \in Sessions \ {On(c)} : stored'[z] = stored[z] /\ granted'[z] = granted[z],
         stored'[On(c)].there,
         On(c) \notin spoilt' => granted'[On(c)] = stored'[On(c)].gen
  PROVE  SessionInv'
<1> DEFINE s == On(c)
<1>1. call' \in [Calls -> CallRecords] /\ call'[c] = r /\ \A d \in Calls \ {c} : call'[d] = call[d]
  BY CallTypes DEF SessionInv
<1>2. s \in Sessions /\ s <= opened /\ holder[s] = c /\ stored[s].there
  BY DEF SessionInv, Placed, Locking, Refreshing
<1>3. holder'[s] = Nobody /\ \A z \in Sessions \ {s} : holder'[z] = holder[z]
  BY <1>2 DEF SessionInv, UserTypeOK, Unlock
<1>4. \A d \in Calls \ {c} : Refreshing(d) => On(d) # s /\ On(d) \in Sessions
  BY <1>2 DEF SessionInv, Locking, Placed, Refreshing
<1>5. UserTypeOK'
  BY <1>1, <1>2 DEF SessionInv, UserTypeOK, CallRecords, Unlock
<1>6. Placed'
  BY <1>1, <1>2 DEF SessionInv, Placed, On
<1>7. Locking'
  BY <1>1, <1>2, <1>3, <1>4, SessionAssumption DEF SessionInv, Locking, On, Refreshing, Plain
<1>8. Opened'
  BY <1>1, <1>2 DEF SessionInv, Opened, Opening, On, At, Plain
<1>9. Honoured'
  <2>1. ASSUME NEW z \in Sessions, stored'[z].there, z \notin spoilt', z # s
        PROVE  granted'[z] = stored'[z].gen \/ \E d \in Calls : holder'[z] = d /\ At(d, "save")'
    <3>1. granted[z] = stored[z].gen \/ \E d \in Calls : holder[z] = d /\ At(d, "save")
      BY <2>1 DEF SessionInv, Honoured
    <3>2. ASSUME NEW d \in Calls, holder[z] = d, At(d, "save") PROVE holder'[z] = d /\ At(d, "save")'
      <4>1. d # c
        BY <1>2, <2>1, <3>2 DEF SessionInv, Locking
      <4>. QED  BY <1>1, <1>3, <2>1, <3>2, <4>1 DEF At
    <3>. QED  BY <2>1, <3>1, <3>2
  <2>2. ASSUME NEW d \in Calls, Refreshing(d)'
        PROVE  /\ d # c /\ Refreshing(d) /\ call'[d] = call[d] /\ stored'[On(d)] = stored[On(d)]
               /\ granted'[On(d)] = granted[On(d)]
    BY <1>1, <1>4, <2>2 DEF Refreshing, Plain
  <2>3. \A z \in Sessions : stored'[z].there => z <= opened
    BY <1>2 DEF SessionInv, Honoured
  <2>. QED  BY <1>2, <2>1, <2>2, <2>3 DEF SessionInv, Honoured, Refreshing, On, At
<1>10. Leaving'
  BY <1>1, <1>2 DEF SessionInv, Leaving, Gone, Opening, On, At, Plain, Placed
<1>. QED  BY <1>5, <1>6, <1>7, <1>8, <1>9, <1>10 DEF SessionInv

LEMMA ExchangeFailsInv ==
  ASSUME SessionInv, NEW c \in Calls, ExchangeFails(c) \/ ExchangeRefused(c)
  PROVE  SessionInv'
<1> DEFINE s == On(c)
<1>1. /\ At(c, "exchange") /\ Refreshing(c) /\ s \in Sessions /\ stored[s].there
      /\ Unlock(c) /\ UNCHANGED <<stored, opened, time>>
  BY DEF ExchangeFails, ExchangeRefused, provider, Refreshing, At, SessionInv, Placed, Locking
<1>2. PICK n \in {"call", "unavailable", "close"} : To(c, n) \/ End(c, n)
  BY DEF ExchangeFails, ExchangeRefused, Unavailable
<1>3. n \in Plain /\ n \in CallSteps
  BY DEF Plain, CallSteps, Waiting
<1>4. PICK r \in CallRecords : call' = [call EXCEPT ![c] = r] /\ r.step = n /\ r.session = s
  <2>1. CASE To(c, n)
    BY <1>3, <2>1, ToRecord DEF To
  <2>2. CASE End(c, n)
    BY <1>3, <2>2, EndRecord DEF End
  <2>. QED  BY <1>2, <2>1, <2>2
<1>5. \/ UNCHANGED <<granted, spoilt>>
      \/ granted' = [granted EXCEPT ![s] = @ + 1] /\ spoilt' = spoilt \cup {s}
  BY DEF ExchangeFails, ExchangeRefused, Spend, provider
<1>6. /\ granted' \in [Sessions -> Nat] /\ \A z \in Sessions \ {s} : granted'[z] = granted[z]
      /\ spoilt \subseteq spoilt' /\ spoilt' \subseteq Sessions
      /\ s \notin spoilt' => granted' = granted /\ s \notin spoilt
  BY <1>1, <1>5 DEF SessionInv, UserTypeOK
<1>7. s \notin spoilt => granted[s] = stored[s].gen
  BY <1>1 DEF SessionInv, Honoured
<1>8. stored' \in [Sessions -> Tokens] /\ stored'[s].there
  BY <1>1 DEF SessionInv, UserTypeOK
<1>. QED  BY <1>1, <1>3, <1>4, <1>6, <1>7, <1>8, Unlocks

LEMMA SaveTokenInv ==
  ASSUME SessionInv, NEW c \in Calls, SaveToken(c)
  PROVE  SessionInv'
<1> DEFINE s == On(c)
<1>1. /\ At(c, "save") /\ Refreshing(c) /\ s \in Sessions /\ call[c].got \in Nat
      /\ Unlock(c) /\ UNCHANGED <<granted, opened, time, spoilt>>
  BY DEF SaveToken, provider, Refreshing, At, SessionInv, Placed, UserTypeOK
<1>2. PICK renewable \in BOOLEAN : stored' = [stored EXCEPT ![s] = Token(call[c].got, renewable)]
  BY DEF SaveToken
<1>3. Token(call[c].got, renewable) \in Tokens
  BY <1>1, SessionAssumption DEF Token, Tokens, SessionInv, UserTypeOK
<1>4. /\ stored' \in [Sessions -> Tokens] /\ stored'[s] = Token(call[c].got, renewable)
      /\ \A z \in Sessions \ {s} : stored'[z] = stored[z]
  BY <1>1, <1>2, <1>3 DEF SessionInv, UserTypeOK
<1>5. stored'[s].there /\ stored'[s].gen = call[c].got
  BY <1>4 DEF Token
<1>6. PICK n \in {"again", "call"} : To(c, n)
  BY DEF SaveToken
<1>7. n \in Plain /\ n \in CallSteps
  BY DEF Plain, CallSteps, Waiting
<1>8. PICK r \in CallRecords : call' = [call EXCEPT ![c] = r] /\ r.step = n /\ r.session = s
  BY <1>6, <1>7, ToRecord DEF To
<1>9. granted' \in [Sessions -> Nat] /\ spoilt' = spoilt /\ spoilt \subseteq Sessions
  BY <1>1 DEF SessionInv, UserTypeOK
<1>10. s \notin spoilt => granted[s] = call[c].got
  BY <1>1 DEF SessionInv, Honoured
<1>. QED  BY <1>1, <1>4, <1>5, <1>7, <1>8, <1>9, <1>10, Unlocks

LEMMA ExchangeInv ==
  ASSUME SessionInv, NEW c \in Calls, Exchange(c)
  PROVE  SessionInv'
<1> DEFINE s == On(c)
           r == [call[c] EXCEPT !.step = "save", !.got = granted[s] + 1]
<1>1. /\ At(c, "exchange") /\ Refreshing(c) /\ s \in Sessions /\ s <= opened
      /\ holder[s] = c /\ stored[s].there /\ granted[s] \in Nat
      /\ granted' = [granted EXCEPT ![s] = @ + 1]
      /\ UNCHANGED <<stored, holder, opened, time, spoilt>>
  BY DEF Exchange, Spend, Refreshing, At, SessionInv, Placed, Locking, UserTypeOK
<1>2. call' = [call EXCEPT ![c] = r]
  BY DEF Exchange
<1>3. r \in CallRecords /\ r.step = "save" /\ r.session = s /\ r.got = granted[s] + 1
  <2>1. call[c] \in CallRecords /\ call[c].session = s /\ "save" \in CallSteps
    BY TypesOfCalls DEF SessionInv, On, CallSteps
  <2>2. granted[s] + 1 \in Nat
    BY <1>1
  <2> HIDE DEF s
  <2>. QED  BY <2>1, <2>2 DEF CallRecords
<1> HIDE DEF r
<1>4. call' \in [Calls -> CallRecords] /\ call'[c] = r /\ \A d \in Calls \ {c} : call'[d] = call[d]
  BY <1>2, <1>3, CallTypes DEF SessionInv
<1>5. granted'[s] = granted[s] + 1 /\ \A z \in Sessions \ {s} : granted'[z] = granted[z]
  BY <1>1 DEF SessionInv, UserTypeOK
<1>6. \A d \in Calls \ {c} : Refreshing(d) => On(d) # s /\ On(d) \in Sessions
  BY <1>1 DEF SessionInv, Locking, Placed, Refreshing
<1>7. UserTypeOK'
  BY <1>1, <1>4 DEF SessionInv, UserTypeOK, CallRecords
<1>8. Placed'
  BY <1>1, <1>3, <1>4 DEF SessionInv, Placed, On
<1>9. Locking'
  BY <1>1, <1>3, <1>4 DEF SessionInv, Locking, On, Refreshing
<1>10. Opened'
  BY <1>1, <1>3, <1>4, <1>5 DEF SessionInv, Opened, Opening, On, At
<1>11. Honoured'
  <2>1. ASSUME NEW z \in Sessions, stored[z].there, z \notin spoilt
        PROVE  granted'[z] = stored[z].gen \/ \E d \in Calls : holder[z] = d /\ At(d, "save")'
    <3>1. \A d \in Calls : At(d, "save") => At(d, "save")'
      BY <1>1, <1>4 DEF At
    <3>2. At(c, "save")'
      BY <1>3, <1>4 DEF At
    <3>. QED  BY <1>1, <1>5, <2>1, <3>1, <3>2 DEF SessionInv, Honoured
  <2>2. \A d \in Calls \ {c} : /\ At(d, "save")' => At(d, "save") /\ granted'[On(d)] = granted[On(d)]
                               /\ At(d, "exchange")' => At(d, "exchange") /\ granted'[On(d)] = granted[On(d)]
    BY <1>4, <1>5, <1>6 DEF At, Refreshing
  <2>3. /\ granted'[On(c)'] = call'[c].got /\ ~At(c, "exchange")'
        /\ \A d \in Calls \ {c} : On(d)' = On(d) /\ call'[d] = call[d]
    BY <1>3, <1>4, <1>5 DEF On, At
  <2>4. \A z \in Sessions : stored[z].there => z <= opened
    BY DEF SessionInv, Honoured
  <2>. QED  BY <1>1, <2>1, <2>2, <2>3, <2>4 DEF SessionInv, Honoured
<1>12. Leaving'
  BY <1>1, <1>3, <1>4, <1>5 DEF SessionInv, Leaving, Gone, Opening, On, At, Placed
<1>. QED  BY <1>7, <1>8, <1>9, <1>10, <1>11, <1>12 DEF SessionInv

LEMMA LoginInv ==
  ASSUME SessionInv, NEW c \in Calls, NEW s \in Sessions, NEW old \in Sessions \cup {0}, Login(c, s, old)
  PROVE  SessionInv'
<1> DEFINE r == [NoCall EXCEPT !.step = "replace", !.session = s, !.now = time, !.got = old]
<1>1. /\ At(c, "idle") /\ ~Refreshing(c) /\ s = opened + 1 /\ opened' = s /\ opened \in Nat
      /\ granted' = [granted EXCEPT ![s] = 1]
      /\ UNCHANGED <<stored, holder, time, spoilt>> /\ call' = [call EXCEPT ![c] = r]
  BY DEF Login, Grant, At, Refreshing, SessionInv, UserTypeOK
<1>2. r \in CallRecords /\ r.step = "replace" /\ r.session = s
  <2>1. old \in Nat /\ time \in Nat /\ s \in Sessions \cup {0}
    BY SessionAssumption DEF SessionInv, UserTypeOK
  <2>2. "replace" \in CallSteps
    BY DEF CallSteps
  <2>. QED  BY <2>1, <2>2 DEF NoCall, CallRecords
<1> HIDE DEF r
<1>3. call' \in [Calls -> CallRecords] /\ call'[c] = r /\ \A d \in Calls \ {c} : call'[d] = call[d]
  BY <1>1, <1>2, CallTypes DEF SessionInv
<1>4. granted'[s] = 1 /\ \A z \in Sessions \ {s} : granted'[z] = granted[z]
  BY <1>1 DEF SessionInv, UserTypeOK
<1>5. ~stored[s].there
  BY <1>1 DEF SessionInv, Honoured
<1>6. \A d \in Calls : On(d) # s
  BY <1>1 DEF SessionInv, Placed, UserTypeOK, On
<1>7. UserTypeOK'
  BY <1>1, <1>3 DEF SessionInv, UserTypeOK, CallRecords
<1>8. Placed'
  <2>1. call'[c].session = s /\ s \in Sessions /\ s <= opened'
    BY <1>1, <1>2, <1>3, SessionAssumption
  <2>2. ASSUME NEW d \in Calls \ {c} PROVE call'[d].session <= opened'
    <3>1. call[d] \in CallRecords /\ call[d].session <= opened
      BY TypesOfCalls DEF SessionInv, Placed, On
    <3>2. call[d].session \in Sessions \cup {0}
      BY <3>1 DEF CallRecords
    <3>3. call[d].session \in Nat
      BY <3>2, SessionsAreNumbers
    <3>. QED  BY <1>1, <1>3, <3>1, <3>3
  <2>. QED  BY <1>3, <2>1, <2>2 DEF SessionInv, Placed, On
<1>9. Locking'
  BY <1>1, <1>2, <1>3 DEF SessionInv, Locking, On, Refreshing
<1>10. Opened'
  BY <1>1, <1>2, <1>3, <1>4, <1>5, <1>6 DEF SessionInv, Opened, Opening, On, At
<1>11. Honoured'
  <2>1. \A d \in Calls : At(d, "save") => At(d, "save")'
    BY <1>1, <1>3 DEF At
  <2>2. ASSUME NEW z \in Sessions, stored[z].there PROVE z # s /\ z <= opened' /\ granted'[z] = granted[z]
    BY <1>1, <1>4, <1>5, <2>2, SessionAssumption DEF SessionInv, Honoured
  <2>3. ASSUME NEW d \in Calls, Refreshing(d)'
        PROVE  d # c /\ Refreshing(d) /\ call'[d] = call[d] /\ granted'[On(d)] = granted[On(d)]
    BY <1>2, <1>3, <1>4, <1>6, <2>3 DEF Refreshing, SessionInv, Placed
  <2>. QED  BY <1>1, <2>1, <2>2, <2>3 DEF SessionInv, Honoured, Refreshing, On, At
<1>12. Leaving'
  BY <1>1, <1>2, <1>3, <1>4, <1>6 DEF SessionInv, Leaving, Gone, Opening, On, At, Placed
<1>. QED  BY <1>7, <1>8, <1>9, <1>10, <1>11, <1>12 DEF SessionInv

LEMMA FinishLoginInv ==
  ASSUME SessionInv, NEW c \in Calls, FinishLogin(c)
  PROVE  SessionInv'
<1> DEFINE s == On(c)
           old == call[c].got
           r == [NoCall EXCEPT !.step = "ok", !.session = s]
<1>1. /\ At(c, "replace") /\ ~Refreshing(c) /\ s \in Sessions /\ s <= opened /\ Opening(c, s)
      /\ old \in Sessions => holder[old] = Nobody
      /\ UNCHANGED <<holder, granted, opened, time, spoilt>>
  BY DEF FinishLogin, At, Refreshing, SessionInv, Placed, provider, Opening
<1>2. PICK renewable \in BOOLEAN :
          stored' = [z \in Sessions |-> IF z = s THEN Token(1, renewable)
                                         ELSE IF z = old THEN NoToken ELSE stored[z]]
  BY DEF FinishLogin
<1>3. Token(1, renewable) \in Tokens /\ NoToken \in Tokens /\ ~NoToken.there
      /\ Token(1, renewable).there /\ Token(1, renewable).gen = 1
  BY SessionAssumption DEF Token, NoToken, Tokens, SessionInv, UserTypeOK
<1>4. /\ stored' \in [Sessions -> Tokens] /\ stored'[s] = Token(1, renewable)
      /\ \A z \in Sessions \ {s} : IF z = old THEN stored'[z] = NoToken ELSE stored'[z] = stored[z]
  <2>1. stored' = [z \in Sessions |-> IF z = s THEN Token(1, renewable)
                                     ELSE IF z = old THEN NoToken ELSE stored[z]]
    BY <1>2
  <2> HIDE DEF s, old
  <2>. QED  BY <1>1, <1>3, <2>1 DEF SessionInv, UserTypeOK
<1>5. call' = [call EXCEPT ![c] = r] /\ r \in CallRecords /\ r.step = "ok" /\ r.session = s /\ "ok" \in Plain
  BY EndRecord DEF FinishLogin, End, CallSteps, Plain
<1> HIDE DEF r, old
<1>6. call' \in [Calls -> CallRecords] /\ call'[c] = r /\ \A d \in Calls \ {c} : call'[d] = call[d]
  BY <1>5, CallTypes DEF SessionInv
<1>7. \A d \in Calls : Refreshing(d) => d # c /\ On(d) # s /\ On(d) # old /\ On(d) \in Sessions
  <2>1. ASSUME NEW d \in Calls, Refreshing(d), On(d) = s PROVE FALSE
    BY <1>1, <2>1, HolderRefreshes DEF SessionInv, Opened
  <2>. QED  BY <1>1, <2>1, HolderRefreshes
<1>8. \A d \in Calls \ {c} : ~Opening(d, s)
  BY <1>1 DEF SessionInv, Opened
<1>9. UserTypeOK'
  BY <1>1, <1>4, <1>6 DEF SessionInv, UserTypeOK, CallRecords
<1>10. Placed'
  BY <1>1, <1>5, <1>6 DEF SessionInv, Placed, On
<1>11. Locking'
  <2>1. ASSUME NEW d \in Calls, NEW z \in Sessions, holder[z] = d PROVE stored'[z].there
    BY <1>1, <1>4, <1>7, <2>1 DEF SessionInv, Locking
  <2>2. \A d \in Calls, z \in Sessions : (Refreshing(d) /\ On(d) = z) <=> (Refreshing(d) /\ On(d) = z)'
    BY <1>1, <1>5, <1>6 DEF Refreshing, On, Plain
  <2>. QED  BY <1>1, <2>1, <2>2 DEF SessionInv, Locking
<1>12. Opened'
  BY <1>1, <1>3, <1>4, <1>5, <1>6, <1>8 DEF SessionInv, Opened, Opening, On, At
<1>13. Honoured'
  <2>1. \A d \in Calls : At(d, "save") => At(d, "save")'
    BY <1>1, <1>6 DEF At
  <2>2. s \notin spoilt => granted[s] = 1
    BY <1>1 DEF SessionInv, Opened
  <2>3. ASSUME NEW d \in Calls, Refreshing(d)'
        PROVE  Refreshing(d) /\ call'[d] = call[d] /\ stored'[On(d)] = stored[On(d)]
    BY <1>4, <1>5, <1>6, <1>7, <2>3 DEF Refreshing, Plain
  <2>. QED  BY <1>1, <1>3, <1>4, <2>1, <2>2, <2>3 DEF SessionInv, Honoured, Refreshing, On, At
<1>14. Leaving'
  <2>1. ASSUME NEW d \in Calls, call'[d].step \in {"revoke", "out"}
        PROVE  d # c /\ call'[d] = call[d] /\ Gone(On(d)) /\ On(d) # s /\ On(d) \in Sessions
    BY <1>1, <1>5, <1>6, <2>1 DEF SessionInv, Leaving, Gone, Placed, Plain
  <2>2. ASSUME NEW z \in Sessions, z # s, Gone(z) PROVE Gone(z)'
    BY <1>1, <1>3, <1>4, <1>5, <1>6, <2>2 DEF Gone, Opening, At, On
  <2>. QED  BY <1>1, <2>1, <2>2 DEF SessionInv, Leaving, On, At
<1>. QED  BY <1>9, <1>10, <1>11, <1>12, <1>13, <1>14 DEF SessionInv

LEMMA LogoutLockedInv ==
  ASSUME SessionInv, NEW c \in Calls, LogoutLocked(c)
  PROVE  SessionInv'
<1> DEFINE s == On(c)
           t == stored[s]
           n == IF t.there /\ t.readable THEN "revoke" ELSE "left"
           r == [call[c] EXCEPT !.got = t.gen, !.step = n]
<1>1. /\ At(c, "lockOut") /\ ~Refreshing(c) /\ s \in Sessions /\ s <= opened /\ holder[s] = Nobody
      /\ t.gen \in Nat /\ stored' = [stored EXCEPT ![s] = NoToken]
      /\ UNCHANGED <<holder, granted, opened, time, spoilt>> /\ call' = [call EXCEPT ![c] = r]
  BY DEF LogoutLocked, At, Refreshing, provider, SessionInv, Placed, UserTypeOK, Tokens
<1>2. r \in CallRecords /\ r.step = n /\ r.session = s /\ r.got = t.gen
  <2>1. call[c] \in CallRecords /\ call[c].session = s /\ n \in CallSteps
    BY TypesOfCalls DEF SessionInv, On, CallSteps
  <2> HIDE DEF n, t, s
  <2>. QED  BY <1>1, <2>1 DEF CallRecords
<1> HIDE DEF r
<1>3. CASE n = "left"
  <2>1. "left" \in Plain
    BY DEF Plain, CallSteps
  <2>. QED  BY <1>1, <1>2, <1>3, <2>1, RowGoes
<1>4. CASE n = "revoke"
  <2>1. call' \in [Calls -> CallRecords] /\ call'[c] = r /\ \A d \in Calls \ {c} : call'[d] = call[d]
    BY <1>1, <1>2, CallTypes DEF SessionInv
  <2>2. /\ stored'[s] = NoToken /\ \A z \in Sessions \ {s} : stored'[z] = stored[z]
        /\ ~NoToken.there /\ NoToken \in Tokens
    BY <1>1 DEF SessionInv, UserTypeOK, NoToken, Tokens
  <2>3. \A d \in Calls : Refreshing(d) => d # c /\ On(d) # s /\ On(d) \in Sessions
    BY <1>1, HolderRefreshes
  <2>4. t.there
    BY <1>4
  <2>5. (\A d \in Calls : ~Opening(d, s)) /\ (s \notin spoilt => granted[s] = t.gen)
    BY <1>1, <2>4, SessionAssumption DEF SessionInv, Opened, Honoured
  <2>6. UserTypeOK'
    BY <1>1, <2>1, <2>2 DEF SessionInv, UserTypeOK, CallRecords
  <2>7. Placed'
    BY <1>1, <1>2, <2>1 DEF SessionInv, Placed, On
  <2>8. Locking'
    BY <1>1, <1>2, <1>4, <2>1, <2>2, <2>3 DEF SessionInv, Locking, On, Refreshing
  <2>9. Opened'
    BY <1>1, <1>2, <1>4, <2>1, <2>2 DEF SessionInv, Opened, Opening, On, At
  <2>10. Honoured'
    <3>1. \A d \in Calls : At(d, "save") => At(d, "save")'
      BY <1>1, <2>1 DEF At
    <3>2. ASSUME NEW d \in Calls, Refreshing(d)'
          PROVE  Refreshing(d) /\ call'[d] = call[d] /\ stored'[On(d)] = stored[On(d)]
      BY <1>2, <1>4, <2>1, <2>2, <2>3, <3>2 DEF Refreshing
    <3>. QED  BY <1>1, <2>2, <3>1, <3>2 DEF SessionInv, Honoured, Refreshing, On, At
  <2>11. Leaving'
    <3>1. ASSUME NEW z, Gone(z), z \in Sessions PROVE Gone(z)'
      BY <1>2, <1>4, <2>1, <2>2, <3>1 DEF Gone, Opening, At, On
    <3>2. Gone(s)'
      BY <1>1, <1>2, <1>4, <2>1, <2>2, <2>5 DEF Gone, Opening, At, On
    <3>3. ASSUME NEW d \in Calls \ {c}, call'[d].step \in {"revoke", "out"}
          PROVE  call'[d] = call[d] /\ Gone(On(d)) /\ On(d) \in Sessions
      BY <2>1, <3>3 DEF SessionInv, Leaving, Placed
    <3>. QED  BY <1>1, <1>2, <1>4, <2>1, <2>5, <3>1, <3>2, <3>3 DEF SessionInv, Leaving, On, At
  <2>. QED  BY <2>6, <2>7, <2>8, <2>9, <2>10, <2>11 DEF SessionInv
<1>. QED  BY <1>3, <1>4

LEMMA RevokeTokenInv ==
  ASSUME SessionInv, NEW c \in Calls, RevokeToken(c)
  PROVE  SessionInv'
<1> DEFINE s == On(c)
<1>1. /\ At(c, "revoke") /\ ~Refreshing(c) /\ s \in Sessions /\ s <= opened /\ Gone(s)
      /\ s \notin spoilt => granted[s] \in {0, call[c].got}
      /\ UNCHANGED <<stored, holder, opened, time, spoilt>>
  BY DEF RevokeToken, At, Refreshing, SessionInv, Placed, Leaving
<1>2. CASE End(c, "left") /\ UNCHANGED granted
  <2> DEFINE r == [NoCall EXCEPT !.step = "left", !.session = s]
  <2>1. r \in CallRecords /\ r.step = "left" /\ r.session = s /\ call' = [call EXCEPT ![c] = r]
    BY <1>1, <1>2, EndRecord DEF End, CallSteps
  <2>2. "left" \in Plain
    BY DEF Plain, CallSteps
  <2> HIDE DEF r
  <2>. QED  BY <1>1, <1>2, <2>1, <2>2, GoesOn
<1>3. CASE granted' = Revoked(c) /\ End(c, "out")
  <2> DEFINE r == [NoCall EXCEPT !.step = "out", !.session = s]
  <2>1. r \in CallRecords /\ r.step = "out" /\ r.session = s /\ call' = [call EXCEPT ![c] = r]
    BY <1>1, <1>3, EndRecord DEF End, CallSteps
  <2> HIDE DEF r
  <2>2. call' \in [Calls -> CallRecords] /\ call'[c] = r /\ \A d \in Calls \ {c} : call'[d] = call[d]
    BY <2>1, CallTypes DEF SessionInv
  <2>3. /\ granted' \in [Sessions -> Nat]
        /\ \A z \in Sessions \ {s} : granted'[z] = granted[z]
        /\ s \notin spoilt => granted'[s] = 0
    BY <1>1, <1>3 DEF Revoked, SessionInv, UserTypeOK
  <2>4. \A d \in Calls : Refreshing(d) => d # c /\ On(d) # s /\ On(d) \in Sessions
    BY <1>1, HolderRefreshes DEF Gone
  <2>5. UserTypeOK'
    BY <1>1, <2>2, <2>3 DEF SessionInv, UserTypeOK, CallRecords
  <2>6. Placed'
    BY <1>1, <2>1, <2>2 DEF SessionInv, Placed, On
  <2>7. Locking'
    BY <1>1, <2>1, <2>2 DEF SessionInv, Locking, On, Refreshing
  <2>8. Opened'
    BY <1>1, <2>1, <2>2, <2>3 DEF SessionInv, Opened, Opening, On, At, Gone
  <2>9. Honoured'
    <3>1. \A d \in Calls : At(d, "save") => At(d, "save")'
      BY <1>1, <2>2 DEF At
    <3>2. ASSUME NEW d \in Calls, Refreshing(d)'
          PROVE  Refreshing(d) /\ call'[d] = call[d] /\ granted'[On(d)] = granted[On(d)]
      BY <2>1, <2>2, <2>3, <2>4, <3>2 DEF Refreshing
    <3>. QED  BY <1>1, <2>3, <3>1, <3>2 DEF SessionInv, Honoured, Refreshing, On, At, Gone
  <2>10. Leaving'
    <3>1. ASSUME NEW z \in Sessions, Gone(z) PROVE Gone(z)'
      BY <1>1, <2>1, <2>2, <3>1 DEF Gone, Opening, At, On
    <3>2. ASSUME NEW d \in Calls \ {c}, call'[d].step \in {"revoke", "out"}
          PROVE  /\ call'[d] = call[d] /\ Gone(On(d)) /\ On(d) \in Sessions
                 /\ On(d) \notin spoilt => granted'[On(d)] \in {0, granted[On(d)]}
      BY <1>1, <2>2, <2>3, <3>2 DEF SessionInv, Leaving, Placed
    <3>. QED  BY <1>1, <2>1, <2>2, <2>3, <3>1, <3>2 DEF SessionInv, Leaving, On, At
  <2>. QED  BY <2>5, <2>6, <2>7, <2>8, <2>9, <2>10 DEF SessionInv
<1>. QED  BY <1>2, <1>3 DEF RevokeToken

LEMMA WithdrawInv ==
  ASSUME SessionInv, NEW s \in Sessions, Withdraw(s)
  PROVE  SessionInv'
<1>1. /\ UNCHANGED <<stored, call, holder, opened, time>> /\ spoilt' = spoilt \cup {s}
      /\ granted' \in [Sessions -> Nat] /\ \A z \in Sessions \ {s} : granted'[z] = granted[z]
  BY DEF Withdraw, SessionInv, UserTypeOK
<1>2. UserTypeOK' /\ Placed' /\ Locking'
  BY <1>1 DEF SessionInv, UserTypeOK, Placed, Locking, On, Refreshing
<1>3. Opened'
  BY <1>1 DEF SessionInv, Opened, Opening, On, At
<1>4. Honoured'
  BY <1>1 DEF SessionInv, Honoured, On, At, Placed
<1>5. Leaving'
  BY <1>1 DEF SessionInv, Leaving, Gone, Opening, On, At, Placed
<1>. QED  BY <1>2, <1>3, <1>4, <1>5 DEF SessionInv

\* What a row says beside its generation does not matter.
LEMMA SameRows ==
  ASSUME SessionInv, UNCHANGED <<call, holder, granted, opened, time, spoilt>>,
         stored' \in [Sessions -> Tokens],
         \A z \in Sessions : stored'[z].there = stored[z].there /\ stored'[z].gen = stored[z].gen
  PROVE  SessionInv'
<1>1. UserTypeOK' /\ Placed' /\ Locking'
  BY DEF SessionInv, UserTypeOK, Placed, Locking, On, Refreshing
<1>2. Opened'
  BY DEF SessionInv, Opened, Opening, On, At
<1>3. Honoured'
  BY HolderRefreshes DEF SessionInv, Honoured, On, At, Refreshing
<1>4. Leaving'
  BY DEF SessionInv, Leaving, Gone, Opening, On, At, Placed
<1>. QED  BY <1>1, <1>2, <1>3, <1>4 DEF SessionInv

LEMMA RefreshTokenExpiresInv ==
  ASSUME SessionInv, NEW s \in Sessions, RefreshTokenExpires(s)
  PROVE  SessionInv'
<1>1. /\ UNCHANGED <<call, holder, granted, opened, time, spoilt>>
      /\ stored' \in [Sessions -> Tokens]
      /\ \A z \in Sessions : stored'[z].there = stored[z].there /\ stored'[z].gen = stored[z].gen
  BY DEF RefreshTokenExpires, provider, SessionInv, UserTypeOK, Tokens
<1>. QED  BY <1>1, SameRows

LEMMA TickInv == SessionInv /\ Tick => SessionInv'
<1> SUFFICES ASSUME SessionInv, Tick PROVE SessionInv'
  OBVIOUS
<1>1. UNCHANGED <<stored, call, holder, granted, opened, spoilt>> /\ time' \in Nat
  BY DEF Tick, SessionInv, UserTypeOK
<1>. QED  BY <1>1 DEF SessionInv, UserTypeOK, Placed, Locking, Opened, Honoured, Leaving, Gone,
                      Opening, Refreshing, On, At

LEMMA RestartInv == SessionInv /\ Restart => SessionInv'
<1> SUFFICES ASSUME SessionInv, Restart PROVE SessionInv'
  OBVIOUS
<1>1. PICK same \in BOOLEAN :
          stored' = [s \in Sessions |-> [stored[s] EXCEPT !.readable = same /\ @]]
  BY DEF Restart
<1>2. /\ stored' \in [Sessions -> Tokens]
      /\ \A z \in Sessions : stored'[z].there = stored[z].there /\ stored'[z].gen = stored[z].gen
  BY <1>1 DEF SessionInv, UserTypeOK, Tokens
<1>3. UNCHANGED <<granted, opened, time>> /\ holder' = [s \in Sessions |-> Nobody]
  BY DEF Restart
<1>4. /\ call' \in [Calls -> CallRecords]
      /\ \A c \in Calls : call'[c].step \in {"idle", "unavailable"} /\ call'[c].session = 0
  <2>1. /\ NoCall \in CallRecords /\ NoCall.step = "idle" /\ NoCall.session = 0
        /\ [NoCall EXCEPT !.step = "unavailable"] \in CallRecords
        /\ [NoCall EXCEPT !.step = "unavailable"].step = "unavailable"
        /\ [NoCall EXCEPT !.step = "unavailable"].session = 0
    BY DEF NoCall, CallRecords, CallSteps
  <2>. QED  BY <2>1 DEF Restart
<1>5. spoilt \subseteq spoilt' /\ spoilt' \subseteq Sessions
      /\ \A c \in Calls : At(c, "save") => On(c) \in spoilt'
  BY DEF Restart, SessionInv, UserTypeOK, Placed, At
<1>6. \A c \in Calls, s \in Sessions : ~Opening(c, s)' /\ ~Refreshing(c)'
  BY <1>4 DEF Opening, Refreshing, At
<1>7. UserTypeOK'
  BY <1>2, <1>3, <1>4, <1>5 DEF SessionInv, UserTypeOK, CallRecords
<1>8. Placed'
  BY <1>3, <1>4 DEF SessionInv, UserTypeOK, Placed, On
<1>9. Locking'
  BY <1>3, <1>6, SessionAssumption DEF Locking
<1>10. Opened'
  BY <1>6 DEF Opened
<1>11. Honoured'
  <2>1. ASSUME NEW s \in Sessions, stored'[s].there, s \notin spoilt' PROVE granted'[s] = stored'[s].gen
    <3>1. granted[s] = stored[s].gen \/ \E c \in Calls : holder[s] = c /\ At(c, "save")
      BY <1>2, <1>5, <2>1 DEF SessionInv, Honoured
    <3>2. \A c \in Calls : holder[s] = c => On(c) = s
      BY DEF SessionInv, Locking
    <3>. QED  BY <1>2, <1>3, <1>5, <2>1, <3>1, <3>2
  <2>. QED  BY <1>2, <1>3, <1>4, <2>1 DEF SessionInv, Honoured, On, At
<1>12. Leaving'
  BY <1>4 DEF Leaving, At
<1>. QED  BY <1>7, <1>8, <1>9, <1>10, <1>11, <1>12 DEF SessionInv

LEMMA InitInv == UserInit => SessionInv
<1> SUFFICES ASSUME UserInit PROVE SessionInv
  OBVIOUS
<1>1. NoToken \in Tokens /\ ~NoToken.there /\ NoCall \in CallRecords /\ NoCall.step = "idle"
      /\ NoCall.session = 0
  BY DEF NoToken, Tokens, NoCall, CallRecords, CallSteps
<1>2. UserTypeOK
  BY <1>1 DEF UserInit, UserTypeOK, CallRecords
<1>3. Placed /\ Locking /\ Opened /\ Honoured /\ Leaving
  BY <1>1, SessionAssumption
     DEF UserInit, Placed, Locking, Opened, Honoured, Leaving, Opening, Refreshing, On, At
<1>. QED  BY <1>2, <1>3 DEF SessionInv

LEMMA StutterInv == SessionInv /\ UNCHANGED userVars => SessionInv'
BY DEF userVars, SessionInv, UserTypeOK, Placed, Locking, Opened, Honoured, Leaving, Gone,
       Opening, Refreshing, On, At

LEMMA CallStepInv ==
  ASSUME SessionInv, NEW c \in Calls, CallStep(c)
  PROVE  SessionInv'
<1>1. CASE FinishLogin(c)
  BY <1>1, FinishLoginInv
<1>2. CASE LoginFails(c) \/ LockTimeout(c) \/ LogoutBusy(c)
  BY <1>2, QuietStepsInv
<1>3. CASE ReadStored(c)
  BY <1>3, ReadStoredInv
<1>4. CASE TakeLock(c)
  BY <1>4, TakeLockInv
<1>5. CASE Exchange(c)
  BY <1>5, ExchangeInv
<1>6. CASE ExchangeFails(c) \/ ExchangeRefused(c)
  BY <1>6, ExchangeFailsInv
<1>7. CASE SaveToken(c)
  BY <1>7, SaveTokenInv
<1>8. CASE CallProvider(c)
  BY <1>8, CallProviderInv
<1>9. CASE Close(c) \/ LogoutDelete(c)
  BY <1>9, RowStepsInv
<1>10. CASE LogoutLocked(c)
  BY <1>10, LogoutLockedInv
<1>11. CASE RevokeToken(c)
  BY <1>11, RevokeTokenInv
<1>. QED  BY <1>1, <1>2, <1>3, <1>4, <1>5, <1>6, <1>7, <1>8, <1>9, <1>10, <1>11 DEF CallStep

LEMMA StepInv == SessionInv /\ [UserNext]_userVars => SessionInv'
<1> SUFFICES ASSUME SessionInv, [UserNext]_userVars PROVE SessionInv'
  OBVIOUS
<1>1. CASE \E c \in Calls : CallStep(c)
  BY <1>1, CallStepInv
<1>2. CASE \E c \in Calls, s \in Sessions : Enter(c, s) \/ Logout(c, s)
  BY <1>2, BeginInv
<1>3. CASE \E c \in Calls, s \in Sessions, old \in Sessions \cup {0} : Login(c, s, old)
  BY <1>3, LoginInv
<1>4. CASE \E s \in Sessions : PurgeSession(s) \/ Withdraw(s) \/ RefreshTokenExpires(s)
  BY <1>4, PurgeInv, WithdrawInv, RefreshTokenExpiresInv
<1>5. CASE Restart
  BY <1>5, RestartInv
<1>6. CASE Tick
  BY <1>6, TickInv
<1>7. CASE UNCHANGED userVars
  BY <1>7, StutterInv
<1>. QED  BY <1>1, <1>2, <1>3, <1>4, <1>5, <1>6, <1>7 DEF UserNext

LEMMA SessionsAreSound == UserSpec => []SessionInv
<1>. QED  BY InitInv, StepInv, PTL DEF UserSpec

\* Every session, request and lock keeps its shape, whatever the requests do.
THEOREM SessionTypes == UserSpec => []UserTypeOK
<1>1. SessionInv => UserTypeOK
  BY DEF SessionInv
<1>. QED  BY <1>1, SessionsAreSound, PTL

\* However many requests of a session run at once, the one at the provider holds
\* the refresh token the provider still honours (_refreshed, user_token.py).
THEOREM RefreshOnce == UserSpec => []RefreshTokenServesOnce
<1>1. SessionInv => RefreshTokenServesOnce
  BY DEF SessionInv, Honoured, RefreshTokenServesOnce
<1>. QED  BY <1>1, SessionsAreSound, PTL

\* A logout that revoked a token leaves none that the provider honours, whatever
\* refreshes, logins and restarts run around it (logout, auth.py).
THEOREM LogoutIsFinal == UserSpec => []LogoutLeavesNoToken
<1>1. SessionInv => LogoutLeavesNoToken
  BY DEF SessionInv, Leaving, LogoutLeavesNoToken
<1>. QED  BY <1>1, SessionsAreSound, PTL

\* ---- why a session is closed -------------------------------------------------

\* Steps of a request under way, and those at which it has read the row.
Busy == CallSteps \ (Ended \cup {"idle", "revoke"})
Reading == {"lock", "exchange", "call", "again"}

\* A request is served within its time.
Timely(c) == call[c].step \in Busy => call[c].now <= time /\ time <= call[c].now + RequestTime

\* A row that was replaced after a request has read it lives longer than the request.
Behind(c) == call[c].step \in Reading /\ stored[On(c)].there =>
    /\ call[c].got <= stored[On(c)].gen
    /\ call[c].got # stored[On(c)].gen => call[c].now + Life <= stored[On(c)].expires

\* A token the provider has rejected is replaced, about to be, or past its time.
Rejected(c) ==
    /\ At(c, "read") => ~call[c].rejected
    /\ At(c, "lock") /\ call[c].rejected /\ stored[On(c)].there /\ On(c) \notin spoilt
            /\ call[c].got = stored[On(c)].gen
        => stored[On(c)].expires <= time \/ granted[On(c)] # stored[On(c)].gen

\* The token of the second call is the stored one, and nobody replaces it meanwhile.
Renewed(c) == At(c, "again") /\ stored[On(c)].there /\ On(c) \notin spoilt =>
    /\ stored[On(c)].gen = call[c].got /\ granted[On(c)] = call[c].got
    /\ call[c].now + Life <= stored[On(c)].expires
    /\ holder[On(c)] = Nobody

Closing(c) == At(c, "close") /\ On(c) \notin spoilt /\ stored[On(c)].there =>
    ~stored[On(c)].renewable \/ ~stored[On(c)].readable

\* What is saved follows what is stored.
Storing(c) == At(c, "save") => call[c].got = stored[On(c)].gen + 1

Fit(c) == Timely(c) /\ Behind(c) /\ Rejected(c) /\ Renewed(c) /\ Closing(c) /\ Storing(c)

\* What is refreshed can be, and a session that is being opened serves no request yet.
Refreshable == \A s \in Sessions :
    holder[s] # Nobody => stored[s].readable /\ stored[s].renewable
Alone == \A c, d \in Calls : Opening(c, On(d)) /\ d # c => call[d].step \in Ended \cup {"idle"}

CloseInv == Refreshable /\ Alone /\ \A c \in Calls : Fit(c)

\* A request whose session others leave alone, delete, or are known to have spoilt.
LEMMA OthersFit ==
  ASSUME SessionInv, NEW d \in Calls, Fit(d), call'[d] = call[d], time' = time, spoilt \subseteq spoilt',
         On(d) \in Sessions =>
           \/ /\ stored'[On(d)] = stored[On(d)] /\ granted'[On(d)] = granted[On(d)]
              /\ holder'[On(d)] \in {holder[On(d)], Nobody} \/ ~At(d, "again")
           \/ ~stored'[On(d)].there /\ ~At(d, "save")
           \/ stored'[On(d)] = stored[On(d)] /\ On(d) \in spoilt'
  PROVE  Fit(d)'
<1> DEFINE s == On(d)
<1>1. On(d)' = s /\ \A n : At(d, n)' <=> At(d, n)
  BY DEF On, At
<1>2. Timely(d)'
  BY DEF Fit, Timely
<1>3. CASE s \notin Sessions
  <2>1. call[d].step \in {"idle", "unavailable"}
    BY <1>3 DEF SessionInv, Placed
  <2>. QED  BY <1>2, <2>1 DEF Fit, Behind, Rejected, Renewed, Closing, Storing, Reading, At
<1>4. CASE s \in Sessions /\ ~stored'[s].there /\ ~At(d, "save")
  BY <1>1, <1>2, <1>4 DEF Fit, Behind, Rejected, Renewed, Closing, Storing
<1>5. CASE s \in Sessions /\ stored'[s] = stored[s] /\ s \in spoilt'
  BY <1>1, <1>2, <1>5 DEF Fit, Behind, Rejected, Renewed, Closing, Storing
<1>6. CASE s \in Sessions /\ stored'[s] = stored[s] /\ granted'[s] = granted[s]
           /\ (holder'[s] \in {holder[s], Nobody} \/ ~At(d, "again"))
  BY <1>1, <1>2, <1>6 DEF Fit, Behind, Rejected, Renewed, Closing, Storing
<1>. QED  BY <1>3, <1>4, <1>5, <1>6

\* A request of a session that is open does not disturb one that is being opened.
LEMMA StaysAlone ==
  ASSUME SessionInv, Alone, NEW c \in Calls, NEW r \in CallRecords, call' = [call EXCEPT ![c] = r],
         r.session = On(c), call[c].step \notin Ended \cup {"idle"}, r.step # "replace"
  PROVE  Alone'
<1>1. call'[c] = r /\ \A d \in Calls \ {c} : call'[d] = call[d]
  BY CallTypes DEF SessionInv
<1>. QED  BY <1>1 DEF Alone, Opening, On, At

\* Steps at which a request holds nothing it has read.
Dull == {"idle", "read", "lockOut", "delete", "replace", "revoke"} \cup Ended

LEMMA DullFit ==
  ASSUME NEW c \in Calls, Timely(c), time' = time,
         call'[c].step \in Dull, call'[c].step = "read" => ~call'[c].rejected,
         call'[c].step \in Busy => call[c].step \in Busy /\ call'[c].now = call[c].now
  PROVE  Fit(c)'
<1>1. Timely(c)'
  BY DEF Timely
<1>. QED  BY <1>1 DEF Fit, Behind, Rejected, Renewed, Closing, Storing, Dull, Reading, At, Ended

\* A request that gives its session up, for a reason.
LEMMA ClosingFit ==
  ASSUME NEW c \in Calls, NEW s, Timely(c), time' = time, call[c].step \in Busy,
         call'[c].step = "close", call'[c].now = call[c].now, call'[c].session = s,
         s \notin spoilt' /\ stored'[s].there => ~stored'[s].renewable \/ ~stored'[s].readable
  PROVE  Fit(c)'
<1>1. Timely(c)'
  BY DEF Timely
<1>. QED  BY <1>1 DEF Fit, Behind, Rejected, Renewed, Closing, Storing, Reading, At, On

LEMMA Moves ==
  ASSUME SessionInv, CloseInv, NEW c \in Calls, NEW r \in CallRecords, call' = [call EXCEPT ![c] = r],
         r.session = On(c), call[c].step \notin Ended \cup {"idle"}, r.step # "replace",
         Refreshable', Fit(c)', \A d \in Calls \ {c} : call'[d] = call[d] => Fit(d)'
  PROVE  CloseInv'
<1>1. \A d \in Calls \ {c} : call'[d] = call[d]
  BY CallTypes DEF SessionInv
<1>2. Alone'
  BY StaysAlone DEF CloseInv
<1>. QED  BY <1>1, <1>2 DEF CloseInv

\* A request goes on, and rows that nobody has locked are deleted.
LEMMA RowsClose ==
  ASSUME SessionInv, CloseInv, NEW c \in Calls, NEW r \in CallRecords, call' = [call EXCEPT ![c] = r],
         r.session = On(c), call[c].step \notin Ended \cup {"idle"}, r.step # "replace", Fit(c)',
         NEW R \in SUBSET Sessions, \A s \in R : holder[s] = Nobody,
         stored' = [s \in Sessions |-> IF s \in R THEN NoToken ELSE stored[s]],
         UNCHANGED <<holder, granted, opened, time, spoilt>>
  PROVE  CloseInv'
<1>1. /\ \A s \in R : ~stored'[s].there
      /\ \A s \in Sessions \ R : stored'[s] = stored[s]
  BY DEF NoToken
<1>2. Refreshable'
  BY <1>1 DEF CloseInv, Refreshable
<1>3. ASSUME NEW d \in Calls \ {c}, call'[d] = call[d] PROVE Fit(d)'
  <2>1. On(d) \in R => ~At(d, "save")
    BY HolderRefreshes DEF Refreshing, At
  <2>. QED  BY <1>1, <1>3, <2>1, OthersFit DEF CloseInv
<1>. QED  BY <1>2, <1>3, Moves

LEMMA GoesOnFit ==
  ASSUME SessionInv, CloseInv, NEW c \in Calls, NEW r \in CallRecords, call' = [call EXCEPT ![c] = r],
         r.session = On(c), call[c].step \notin Ended \cup {"idle"}, r.step # "replace", Fit(c)',
         UNCHANGED <<stored, holder, granted, opened, time, spoilt>>
  PROVE  CloseInv'
<1>1. stored' = [s \in Sessions |-> IF s \in {} THEN NoToken ELSE stored[s]]
  BY DEF SessionInv, UserTypeOK
<1>. QED  BY <1>1, RowsClose, {} \in SUBSET Sessions

\* What a request carries on with, by the step it goes to.
LEMMA Carried ==
  ASSUME SessionInv, NEW c \in Calls, NEW s \in CallSteps, To(c, s) \/ End(c, s)
  PROVE  \E r \in CallRecords : /\ call' = [call EXCEPT ![c] = r] /\ r.step = s /\ r.session = On(c)
                                /\ To(c, s) => r = [call[c] EXCEPT !.step = s]
<1>1. CASE To(c, s)
  <2> DEFINE r == [call[c] EXCEPT !.step = s]
  <2>1. r \in CallRecords /\ r.step = s /\ r.session = On(c)
    BY ToRecord
  <2>2. call' = [call EXCEPT ![c] = r]
    BY <1>1 DEF To
  <2>. QED  BY <2>1, <2>2
<1>2. CASE ~To(c, s) /\ End(c, s)
  BY <1>2, EndRecord DEF End
<1>. QED  BY <1>1, <1>2

LEMMA QuietClose ==
  ASSUME SessionInv, CloseInv, NEW c \in Calls, LoginFails(c) \/ LockTimeout(c) \/ LogoutBusy(c)
  PROVE  CloseInv'
<1>1. /\ call[c].step \in Busy \ {"read"} /\ call[c].step \notin Ended \cup {"idle"}
      /\ UNCHANGED <<stored, holder, granted, opened, time, spoilt>>
  BY DEF LoginFails, LockTimeout, LogoutBusy, At, provider, Busy, CallSteps, Waiting, Ended
<1>2. Fit(c) /\ Timely(c)
  BY DEF CloseInv, Fit
<1>3. CASE End(c, "unavailable")
  <2>1. PICK r \in CallRecords : call' = [call EXCEPT ![c] = r] /\ r.step = "unavailable" /\ r.session = On(c)
    BY <1>3, Carried DEF CallSteps
  <2>2. call'[c] = r
    BY <2>1, CallTypes DEF SessionInv
  <2>3. Fit(c)'
    BY <1>1, <1>2, <2>1, <2>2, DullFit DEF Dull, Busy, Ended
  <2>. QED  BY <1>1, <2>1, <2>3, GoesOnFit
<1>4. CASE LogoutBusy(c)
  <2>1. PICK r \in CallRecords : /\ call' = [call EXCEPT ![c] = r] /\ r.step = "delete" /\ r.session = On(c)
                                 /\ r = [call[c] EXCEPT !.step = "delete"]
    BY <1>4, Carried DEF CallSteps, LogoutBusy
  <2>2. call'[c] = r /\ call'[c].now = call[c].now
    BY <2>1, CallTypes, TypesOfCalls DEF SessionInv, CallRecords
  <2>3. Fit(c)'
    BY <1>1, <1>2, <2>1, <2>2, DullFit DEF Dull, Busy, Ended
  <2>. QED  BY <1>1, <2>1, <2>3, GoesOnFit
<1>5. CASE LockTimeout(c) /\ To(c, "call")
  <2>1. PICK r \in CallRecords : /\ call' = [call EXCEPT ![c] = r] /\ r.step = "call" /\ r.session = On(c)
                                 /\ r = [call[c] EXCEPT !.step = "call"]
    BY <1>5, Carried DEF CallSteps
  <2>2. call'[c] = r /\ call'[c].now = call[c].now /\ call'[c].got = call[c].got
    BY <2>1, CallTypes, TypesOfCalls DEF SessionInv, CallRecords
  <2>3. Fit(c)'
    BY <1>1, <1>2, <1>5, <2>1, <2>2 DEF LockTimeout, Fit, Timely, Behind, Rejected, Renewed, Closing,
       Storing, At, On, Reading, Busy, CallSteps, Waiting, Ended
  <2>. QED  BY <1>1, <2>1, <2>3, GoesOnFit
<1>. QED  BY <1>3, <1>4, <1>5 DEF LoginFails, LockTimeout, LogoutBusy, Unavailable

LEMMA ReadStoredClose ==
  ASSUME SessionInv, CloseInv, NEW c \in Calls, ReadStored(c)
  PROVE  CloseInv'
<1> DEFINE s == On(c)
           t == stored[s]
           n == IF ~t.there \/ ~t.readable THEN "close"
                ELSE IF NeedsRefresh(t, call[c].now) THEN "lock" ELSE "call"
           r == [call[c] EXCEPT !.got = t.gen, !.usable = IsUsable(t, call[c].now), !.step = n]
<1>1. /\ At(c, "read") /\ s \in Sessions /\ t.gen \in Nat /\ call[c] \in CallRecords
      /\ call' = [call EXCEPT ![c] = r]
      /\ UNCHANGED <<stored, holder, granted, opened, time, spoilt>>
  BY TypesOfCalls DEF ReadStored, At, provider, SessionInv, Placed, UserTypeOK, Tokens
<1>2. n \in {"close", "lock", "call"} /\ (n = "close" => ~t.there \/ ~t.readable)
  OBVIOUS
<1>3. IsUsable(t, call[c].now) \in BOOLEAN /\ n \in CallSteps
  BY DEF IsUsable, CallSteps, Waiting
<1> HIDE DEF n
<1>4. /\ r \in CallRecords /\ r.session = s /\ r.step = n /\ r.got = t.gen /\ r.now = call[c].now
      /\ r.rejected = call[c].rejected
  <2> HIDE DEF t
  <2>. QED  BY <1>1, <1>3 DEF CallRecords, On
<1> HIDE DEF r
<1>5. call'[c] = r
  BY <1>1, <1>4, CallTypes DEF SessionInv
<1>6. Timely(c) /\ Rejected(c) /\ call[c].step \in Busy
  BY <1>1 DEF CloseInv, Fit, Busy, At, CallSteps, Ended
<1>7. Timely(c)' /\ ~r.rejected
  BY <1>1, <1>4, <1>5, <1>6 DEF Timely, Rejected
<1>8. Fit(c)'
  BY <1>1, <1>2, <1>4, <1>5, <1>7 DEF Fit, Behind, Rejected, Renewed, Closing, Storing, At, On
<1>9. call[c].step \notin Ended \cup {"idle"} /\ r.step # "replace"
  BY <1>1, <1>2, <1>4 DEF At, Ended
<1>. QED  BY <1>1, <1>4, <1>8, <1>9, GoesOnFit

LEMMA CallProviderClose ==
  ASSUME SessionInv, CloseInv, NEW c \in Calls, CallProvider(c)
  PROVE  CloseInv'
<1> DEFINE s == On(c)
           t == stored[s]
<1>1. /\ call[c].step \in {"call", "again"} /\ s \in Sessions /\ t \in Tokens /\ call[c] \in CallRecords
      /\ UNCHANGED <<stored, holder, granted, opened, time, spoilt>>
  BY TypesOfCalls DEF CallProvider, provider, SessionInv, Placed, UserTypeOK
<1>2. call[c].step \notin Ended \cup {"idle"} /\ call[c].step \in Busy
  BY <1>1 DEF Busy, CallSteps, Waiting, Ended
<1>3. Fit(c) /\ Timely(c)
  BY DEF CloseInv, Fit
<1>4. ASSUME NEW n \in {"ok", "unavailable"}, End(c, n) PROVE CloseInv'
  <2>1. PICK r \in CallRecords : call' = [call EXCEPT ![c] = r] /\ r.step = n /\ r.session = s
    BY <1>4, Carried DEF CallSteps
  <2>2. call'[c] = r
    BY <2>1, CallTypes DEF SessionInv
  <2>3. Fit(c)'
    BY <1>1, <1>3, <2>1, <2>2, DullFit DEF Dull, Busy, Ended
  <2>. QED  BY <1>1, <1>2, <2>1, <2>3, GoesOnFit
<1>5. ASSUME ~Works(c), At(c, "call"), call' = [call EXCEPT ![c].rejected = TRUE, ![c].step = "lock"]
      PROVE  CloseInv'
  <2> DEFINE r == [call[c] EXCEPT !.rejected = TRUE, !.step = "lock"]
  <2>1. call' = [call EXCEPT ![c] = r]
    BY <1>5
  <2>2. /\ r \in CallRecords /\ r.step = "lock" /\ r.session = s /\ r.got = call[c].got
        /\ r.now = call[c].now
    BY <1>1 DEF CallRecords, On, CallSteps, Waiting
  <2> HIDE DEF r
  <2>3. call'[c] = r
    BY <2>1, <2>2, CallTypes DEF SessionInv
  <2>4. Timely(c)' /\ Behind(c)'
    BY <1>1, <1>2, <1>3, <2>2, <2>3 DEF Fit, Timely, Behind, Reading, On
  <2>5. t.gen = call[c].got => t.expires <= time \/ granted[s] # t.gen
    BY <1>1, <1>5 DEF Works, Tokens, SessionInv, UserTypeOK
  <2>6. Fit(c)'
    BY <1>1, <2>2, <2>3, <2>4, <2>5 DEF Fit, Rejected, Renewed, Closing, Storing, At, On
  <2>. QED  BY <1>1, <1>2, <2>1, <2>2, <2>6, GoesOnFit
<1>6. ASSUME ~Works(c), At(c, "again"), To(c, "close") PROVE CloseInv'
  <2>1. PICK r \in CallRecords : /\ call' = [call EXCEPT ![c] = r] /\ r.step = "close" /\ r.session = s
                                 /\ r = [call[c] EXCEPT !.step = "close"]
    BY <1>6, Carried DEF CallSteps
  <2>2. call'[c] = r /\ call'[c].now = call[c].now
    BY <1>1, <2>1, CallTypes DEF SessionInv, CallRecords
  <2>3. ~t.there \/ s \in spoilt
    <3>1. call[c].now <= time /\ time <= call[c].now + RequestTime
      BY <1>2, <1>3 DEF Timely
    <3>2. SUFFICES ASSUME t.there, s \notin spoilt PROVE FALSE
      OBVIOUS
    <3>3. t.gen = call[c].got /\ granted[s] = call[c].got /\ call[c].now + Life <= t.expires
      BY <1>3, <1>6, <3>2 DEF Fit, Renewed
    <3>4. ~(time < t.expires)
      BY <1>6, <3>3 DEF Works
    <3>5. /\ call[c].now \in Nat /\ t.expires \in Nat /\ time \in Nat
          /\ RefreshMargin \in Nat /\ RequestTime \in Nat /\ Life \in Nat
          /\ RefreshMargin + RequestTime < Life
      BY <1>1, SessionAssumption DEF CallRecords, Tokens, SessionInv, UserTypeOK
    <3> HIDE DEF t
    <3>. QED  BY <3>1, <3>3, <3>4, <3>5
  <2>4. Fit(c)'
    BY <1>1, <1>2, <1>3, <2>1, <2>2, <2>3, ClosingFit
  <2>. QED  BY <1>1, <1>2, <2>1, <2>4, GoesOnFit
<1>. QED  BY <1>1, <1>4, <1>5, <1>6 DEF CallProvider, At

\* Rows that nobody has locked go, and their requests are at an end.
LEMMA RowStepsClose ==
  ASSUME SessionInv, CloseInv, NEW c \in Calls, Close(c) \/ LogoutLocked(c) \/ LogoutDelete(c)
  PROVE  CloseInv'
<1> DEFINE s == On(c)
<1>1. /\ call[c].step \notin Ended \cup {"idle"} /\ s \in Sessions /\ holder[s] = Nobody
      /\ stored' = [stored EXCEPT ![s] = NoToken] /\ call[c] \in CallRecords
      /\ UNCHANGED <<holder, granted, opened, time, spoilt>>
  BY TypesOfCalls DEF Close, LogoutLocked, LogoutDelete, At, provider, Ended, SessionInv, Placed
<1>2. stored' = [z \in Sessions |-> IF z \in {s} THEN NoToken ELSE stored[z]]
  BY <1>1 DEF SessionInv, UserTypeOK
<1>3. PICK r \in CallRecords : /\ call' = [call EXCEPT ![c] = r] /\ r.session = s
                               /\ r.step \in {"unauthorized", "left", "revoke"}
  <2>1. CASE End(c, "unauthorized") \/ End(c, "left")
    BY <2>1, Carried DEF CallSteps
  <2>2. CASE LogoutLocked(c)
    <3> DEFINE t == stored[s]
               n == IF t.there /\ t.readable THEN "revoke" ELSE "left"
               r == [call[c] EXCEPT !.got = t.gen, !.step = n]
    <3>1. call' = [call EXCEPT ![c] = r]
      BY <2>2 DEF LogoutLocked
    <3>2. n \in {"revoke", "left"} /\ n \in CallSteps /\ t.gen \in Nat
      BY <1>1 DEF CallSteps, SessionInv, UserTypeOK, Tokens
    <3> HIDE DEF n, t
    <3>3. r \in CallRecords /\ r.step = n /\ r.session = s
      BY <1>1, <3>2 DEF CallRecords, On
    <3> HIDE DEF r
    <3>. QED  BY <3>1, <3>2, <3>3
  <2>. QED  BY <2>1, <2>2 DEF Close, LogoutDelete
<1>4. call'[c] = r
  BY <1>3, CallTypes DEF SessionInv
<1>5. Fit(c)'
  BY <1>1, <1>3, <1>4, DullFit DEF CloseInv, Fit, Dull, Busy, Ended
<1>6. {s} \in SUBSET Sessions /\ \A z \in {s} : holder[z] = Nobody
  BY <1>1
<1>7. r.step # "replace"
  BY <1>3
<1> HIDE DEF s
<1>8. r.session = On(c)
  BY <1>3 DEF s
<1>. QED  BY <1>1, <1>2, <1>3, <1>5, <1>6, <1>7, <1>8, RowsClose

\* A revocation is of a session that is gone.
LEMMA RevokeTokenClose ==
  ASSUME SessionInv, CloseInv, NEW c \in Calls, RevokeToken(c)
  PROVE  CloseInv'
<1>1. /\ At(c, "revoke") /\ Gone(On(c)) /\ On(c) \in Sessions
      /\ UNCHANGED <<stored, holder, opened, time, spoilt>>
  BY DEF RevokeToken, At, SessionInv, Leaving, Placed
<1>2. PICK n \in {"out", "left"} : End(c, n)
  BY DEF RevokeToken
<1>3. PICK r \in CallRecords : call' = [call EXCEPT ![c] = r] /\ r.step = n /\ r.session = On(c)
  BY <1>2, Carried DEF CallSteps
<1>4. call'[c] = r
  BY <1>3, CallTypes DEF SessionInv
<1>5. Fit(c)'
  BY <1>1, <1>3, <1>4, DullFit DEF CloseInv, Fit, Dull, Busy, Ended
<1>6. \A z \in Sessions \ {On(c)} : granted'[z] = granted[z]
  BY DEF RevokeToken, Revoked, SessionInv, UserTypeOK
<1>7. ASSUME NEW d \in Calls \ {c}, call'[d] = call[d] PROVE Fit(d)'
  <2>1. On(d) = On(c) => ~stored'[On(d)].there /\ ~At(d, "save")
    BY <1>1, HolderRefreshes DEF Gone, Refreshing, At
  <2>. QED  BY <1>1, <1>6, <1>7, <2>1, OthersFit DEF CloseInv
<1>8. Refreshable'
  BY <1>1 DEF CloseInv, Refreshable
<1>. QED  BY <1>1, <1>3, <1>5, <1>7, <1>8, Moves DEF At, Ended

\* A token that was renewed for a second call is fresh for every other request.
LEMMA RenewedIsFresh ==
  ASSUME SessionInv, CloseInv, NEW c \in Calls, NEW d \in Calls, At(c, "lock"), At(d, "again"),
         On(d) = On(c), stored[On(c)].there, On(c) \notin spoilt
  PROVE  Changed(c, stored[On(c)])
<1> DEFINE t == stored[On(c)]
<1>1. t \in Tokens /\ call[c] \in CallRecords /\ call[d] \in CallRecords
  BY TypesOfCalls DEF SessionInv, Placed, UserTypeOK, At
<1>2. t.gen = call[d].got /\ granted[On(c)] = t.gen /\ call[d].now + Life <= t.expires
  BY DEF CloseInv, Fit, Renewed
<1>3. /\ call[c].now <= time /\ time <= call[d].now + RequestTime
  <2>1. "lock" \in Busy /\ "again" \in Busy
    BY DEF Busy, CallSteps, Waiting, Ended
  <2>. QED  BY <2>1 DEF CloseInv, Fit, Timely, At
<1>4. /\ call[c].now \in Nat /\ call[d].now \in Nat /\ t.expires \in Nat /\ time \in Nat
      /\ RefreshMargin \in Nat /\ RequestTime \in Nat /\ Life \in Nat
      /\ RefreshMargin + RequestTime < Life
  BY <1>1, SessionAssumption DEF CallRecords, Tokens, SessionInv, UserTypeOK
<1>5. CASE call[c].rejected
  <2>1. t.gen = call[c].got => t.expires <= time \/ granted[On(c)] # t.gen
    BY <1>5 DEF CloseInv, Fit, Rejected
  <2> HIDE DEF t
  <2>2. t.gen # call[c].got
    BY <1>2, <1>3, <1>4, <2>1
  <2>. QED  BY <1>5, <2>2 DEF Changed, t
<1>6. CASE ~call[c].rejected
  <2> HIDE DEF t
  <2>1. ~(call[c].now + RefreshMargin >= t.expires)
    BY <1>2, <1>3, <1>4
  <2>. QED  BY <1>6, <2>1 DEF Changed, NeedsRefresh, t
<1>. QED  BY <1>5, <1>6

LEMMA TakeLockClose ==
  ASSUME SessionInv, CloseInv, NEW c \in Calls, TakeLock(c)
  PROVE  CloseInv'
<1> DEFINE s == On(c)
           t == stored[s]
<1>1. /\ At(c, "lock") /\ s \in Sessions /\ t \in Tokens /\ call[c] \in CallRecords /\ holder[s] = Nobody
      /\ UNCHANGED <<stored, granted, opened, time, spoilt>>
  BY TypesOfCalls DEF TakeLock, At, provider, SessionInv, Placed, UserTypeOK
<1>2. call[c].step \notin Ended \cup {"idle"} /\ call[c].step \in Busy
  BY <1>1 DEF Busy, CallSteps, Waiting, Ended, At
<1>3. Fit(c) /\ Timely(c)
  BY DEF CloseInv, Fit
<1>4. CASE t.there /\ t.readable /\ ~Changed(c, t) /\ t.renewable
  <2>1. holder' = [holder EXCEPT ![s] = c] /\ To(c, "exchange")
    BY <1>4 DEF TakeLock, Lock
  <2>2. PICK r \in CallRecords : /\ call' = [call EXCEPT ![c] = r] /\ r.step = "exchange" /\ r.session = s
                                 /\ r = [call[c] EXCEPT !.step = "exchange"]
    BY <2>1, Carried DEF CallSteps
  <2>3. call'[c] = r /\ call'[c].now = call[c].now /\ call'[c].got = call[c].got
    BY <1>1, <2>2, CallTypes DEF SessionInv, CallRecords
  <2>4. \A z \in Sessions \ {s} : holder'[z] = holder[z]
    BY <2>1 DEF SessionInv, UserTypeOK
  <2>5. Timely(c)' /\ Behind(c)'
    BY <1>1, <1>2, <1>3, <2>2, <2>3 DEF Fit, Timely, Behind, Reading, At, On
  <2>6. Fit(c)'
    BY <1>1, <2>2, <2>3, <2>5 DEF Fit, Rejected, Renewed, Closing, Storing, At, On
  <2>7. Refreshable'
    BY <1>1, <1>4, <2>4 DEF CloseInv, Refreshable
  <2>8. ASSUME NEW d \in Calls \ {c}, call'[d] = call[d] PROVE Fit(d)'
    <3>1. On(d) = s /\ At(d, "again") => s \in spoilt'
      BY <1>1, <1>4, RenewedIsFresh
    <3>. QED  BY <1>1, <2>4, <2>8, <3>1, OthersFit DEF CloseInv
  <2>. QED  BY <1>2, <2>2, <2>6, <2>7, <2>8, Moves
<1>5. CASE ~(t.there /\ t.readable /\ ~Changed(c, t) /\ t.renewable)
  <2>1. UNCHANGED holder
    BY <1>5 DEF TakeLock
  <2>2. CASE t.there /\ t.readable /\ Changed(c, t)
    <3> DEFINE n == IF call[c].rejected THEN "again" ELSE "call"
               r == [call[c] EXCEPT !.got = t.gen, !.step = n]
    <3>1. call' = [call EXCEPT ![c] = r]
      BY <1>5, <2>2 DEF TakeLock
    <3>2. n \in {"again", "call"} /\ n \in CallSteps /\ (n = "again" => t.gen # call[c].got)
      BY <2>2 DEF CallSteps, Changed
    <3> HIDE DEF n
    <3>3. r \in CallRecords /\ r.step = n /\ r.session = s /\ r.got = t.gen /\ r.now = call[c].now
      <4> HIDE DEF t
      <4>. QED  BY <1>1, <3>2 DEF CallRecords, On, Tokens
    <3> HIDE DEF r
    <3>4. call'[c] = r
      BY <3>1, <3>3, CallTypes DEF SessionInv
    <3>5. Timely(c)'
      BY <1>1, <1>2, <1>3, <3>3, <3>4 DEF Timely
    <3>6. Behind(c)'
      BY <1>1, <3>3, <3>4 DEF Behind, On, Tokens
    <3>7. Renewed(c)'
      <4>1. SUFFICES ASSUME n = "again", s \notin spoilt
            PROVE  granted[s] = t.gen /\ call[c].now + Life <= t.expires
        BY <1>1, <2>1, <3>3, <3>4 DEF Renewed, At, On
      <4>2. call[c].now + Life <= t.expires
        BY <1>1, <1>3, <2>2, <3>2, <4>1 DEF Fit, Behind, Reading, At
      <4>3. granted[s] = t.gen
        BY <1>1, <2>2, <4>1, SessionAssumption DEF SessionInv, Honoured
      <4>. QED  BY <4>2, <4>3
    <3>8. Fit(c)'
      BY <3>2, <3>3, <3>4, <3>5, <3>6, <3>7 DEF Fit, Rejected, Closing, Storing, At
    <3>. QED  BY <1>1, <1>2, <2>1, <3>1, <3>2, <3>3, <3>8, GoesOnFit
  <2>3. CASE ~(t.there /\ t.readable /\ Changed(c, t))
    <3>1. To(c, "close")
      BY <1>5, <2>3 DEF TakeLock
    <3>2. PICK r \in CallRecords : /\ call' = [call EXCEPT ![c] = r] /\ r.step = "close" /\ r.session = s
                                   /\ r = [call[c] EXCEPT !.step = "close"]
      BY <3>1, Carried DEF CallSteps
    <3>3. call'[c] = r /\ call'[c].now = call[c].now
      BY <1>1, <3>2, CallTypes DEF SessionInv, CallRecords
    <3>4. t.there => ~t.renewable \/ ~t.readable
      BY <1>5, <2>3
    <3>5. Fit(c)'
      BY <1>1, <1>2, <1>3, <3>2, <3>3, <3>4, ClosingFit
    <3>. QED  BY <1>1, <1>2, <2>1, <3>2, <3>5, GoesOnFit
  <2>. QED  BY <2>2, <2>3
<1>. QED  BY <1>4, <1>5

\* What holds of the request that refreshes, and of the others of its session.
LEMMA RefreshFacts ==
  ASSUME SessionInv, CloseInv, NEW c \in Calls, Refreshing(c)
  PROVE  /\ On(c) \in Sessions /\ holder[On(c)] = c /\ holder[On(c)] # Nobody
         /\ stored[On(c)].there /\ stored[On(c)].readable /\ stored[On(c)].renewable
         /\ stored[On(c)] \in Tokens /\ call[c] \in CallRecords /\ granted[On(c)] \in Nat
         /\ call[c].step \notin Ended \cup {"idle"} /\ call[c].step \in Busy
         /\ Fit(c) /\ Timely(c)
         /\ \A d \in Calls \ {c} : Refreshing(d) => On(d) # On(c)
<1>1. On(c) \in Sessions /\ holder[On(c)] = c /\ holder[On(c)] # Nobody /\ stored[On(c)].there
  BY HolderRefreshes
<1>2. stored[On(c)].readable /\ stored[On(c)].renewable
  BY <1>1 DEF CloseInv, Refreshable
<1>3. stored[On(c)] \in Tokens /\ call[c] \in CallRecords /\ granted[On(c)] \in Nat
  BY <1>1, TypesOfCalls DEF SessionInv, UserTypeOK
<1>4. call[c].step \notin Ended \cup {"idle"} /\ call[c].step \in Busy
  BY DEF Refreshing, Busy, CallSteps, Waiting, Ended
<1>5. \A d \in Calls \ {c} : Refreshing(d) => On(d) # On(c)
  BY <1>1, HolderRefreshes
<1>. QED  BY <1>1, <1>2, <1>3, <1>4, <1>5 DEF CloseInv, Fit

LEMMA ExchangeClose ==
  ASSUME SessionInv, CloseInv, NEW c \in Calls, Exchange(c)
  PROVE  CloseInv'
<1> DEFINE s == On(c)
           t == stored[s]
           r == [call[c] EXCEPT !.step = "save", !.got = granted[s] + 1]
<1>1. /\ At(c, "exchange") /\ Refreshing(c) /\ granted[s] = t.gen
      /\ granted' = [granted EXCEPT ![s] = @ + 1] /\ call' = [call EXCEPT ![c] = r]
      /\ UNCHANGED <<stored, holder, opened, time, spoilt>>
  BY DEF Exchange, Spend, Refreshing, At
<1>2. /\ s \in Sessions /\ holder[s] # Nobody /\ t \in Tokens /\ call[c] \in CallRecords
      /\ granted[s] \in Nat /\ call[c].step \notin Ended \cup {"idle"} /\ call[c].step \in Busy
      /\ Fit(c) /\ Timely(c) /\ \A d \in Calls \ {c} : Refreshing(d) => On(d) # s
  BY <1>1, RefreshFacts
<1>3. r \in CallRecords /\ r.step = "save" /\ r.session = s /\ r.got = granted[s] + 1 /\ r.now = call[c].now
  <2>1. granted[s] + 1 \in Nat /\ "save" \in CallSteps
    BY <1>2 DEF CallSteps
  <2>2. call[c] \in CallRecords /\ call[c].session = s
    BY <1>2 DEF On
  <2> HIDE DEF s
  <2>. QED  BY <2>1, <2>2 DEF CallRecords
<1> HIDE DEF r
<1>4. call'[c] = r
  BY <1>1, <1>3, CallTypes DEF SessionInv
<1>5. granted'[s] = granted[s] + 1 /\ \A z \in Sessions \ {s} : granted'[z] = granted[z]
  BY <1>1, <1>2 DEF SessionInv, UserTypeOK
<1>6. Timely(c)'
  BY <1>1, <1>2, <1>3, <1>4 DEF Timely
<1>7. Fit(c)'
  BY <1>1, <1>3, <1>4, <1>6 DEF Fit, Behind, Rejected, Renewed, Closing, Storing, Reading, At, On
<1>8. ASSUME NEW d \in Calls \ {c}, call'[d] = call[d] PROVE Fit(d)'
  <2>1. CASE On(d) # s
    BY <1>1, <1>5, <1>8, <2>1, OthersFit DEF CloseInv
  <2>2. CASE On(d) = s
    <3>1. Fit(d)
      BY DEF CloseInv
    <3>2. Timely(d)'
      BY <1>1, <1>8, <3>1 DEF Fit, Timely
    <3>3. Behind(d)' /\ Storing(d)' /\ Closing(d)'
      BY <1>1, <1>8, <3>1 DEF Fit, Behind, Storing, Closing, At, On
    <3>4. Rejected(d)'
      BY <1>1, <1>2, <1>5, <1>8, <2>2, <3>1 DEF Fit, Rejected, At, On, Tokens
    <3>5. Renewed(d)'
      <4>1. ~(At(d, "again") /\ stored[s].there /\ s \notin spoilt)
        BY <1>2, <2>2, <3>1 DEF Fit, Renewed
      <4>. QED  BY <1>1, <1>8, <2>2, <4>1 DEF Renewed, At, On
    <3>. QED  BY <3>2, <3>3, <3>4, <3>5 DEF Fit
  <2>. QED  BY <2>1, <2>2
<1>9. Refreshable'
  BY <1>1 DEF CloseInv, Refreshable
<1>. QED  BY <1>1, <1>2, <1>3, <1>7, <1>8, <1>9, Moves

LEMMA ExchangeFailsClose ==
  ASSUME SessionInv, CloseInv, NEW c \in Calls, ExchangeFails(c) \/ ExchangeRefused(c)
  PROVE  CloseInv'
<1> DEFINE s == On(c)
           t == stored[s]
<1>1. /\ At(c, "exchange") /\ Refreshing(c) /\ Unlock(c) /\ UNCHANGED <<stored, opened, time>>
      /\ \/ UNCHANGED <<granted, spoilt>>
         \/ granted' = [granted EXCEPT ![s] = @ + 1] /\ spoilt' = spoilt \cup {s}
  BY DEF ExchangeFails, ExchangeRefused, Spend, provider, Refreshing, At
<1>2. /\ s \in Sessions /\ t \in Tokens /\ call[c] \in CallRecords
      /\ call[c].step \notin Ended \cup {"idle"} /\ call[c].step \in Busy
      /\ Fit(c) /\ Timely(c)
  BY <1>1, RefreshFacts
<1>3. holder'[s] = Nobody /\ \A z \in Sessions \ {s} : holder'[z] = holder[z]
  BY <1>1, <1>2 DEF Unlock, SessionInv, UserTypeOK
<1>4. /\ spoilt \subseteq spoilt' /\ \A z \in Sessions \ {s} : granted'[z] = granted[z]
      /\ s \in spoilt' \/ granted' = granted
  BY <1>1 DEF SessionInv, UserTypeOK
<1>5. Refreshable'
  BY <1>1, <1>3 DEF CloseInv, Refreshable
<1>6. ASSUME NEW d \in Calls \ {c}, call'[d] = call[d] PROVE Fit(d)'
  BY <1>1, <1>3, <1>4, <1>6, OthersFit DEF CloseInv
<1>7. PICK n \in {"call", "unavailable", "close"} :
          /\ To(c, n) \/ (End(c, n) /\ n = "unavailable")
          /\ n = "call" => ~call[c].rejected
          /\ n = "close" => ExchangeRefused(c)
  BY DEF ExchangeFails, ExchangeRefused, Unavailable
<1>8. PICK r \in CallRecords : /\ call' = [call EXCEPT ![c] = r] /\ r.step = n /\ r.session = s
                               /\ To(c, n) => r = [call[c] EXCEPT !.step = n]
  <2>1. n \in CallSteps
    BY DEF CallSteps
  <2>. QED  BY <1>7, <2>1, Carried
<1>9. call'[c] = r
  BY <1>8, CallTypes DEF SessionInv
<1>10. n # "unavailable" => r.got = call[c].got /\ r.now = call[c].now
  <2>1. n # "unavailable" => r = [call[c] EXCEPT !.step = n]
    BY <1>7, <1>8
  <2>. QED  BY <1>2, <2>1 DEF CallRecords
<1>11. Fit(c)'
  <2>1. CASE n = "unavailable"
    BY <1>1, <1>2, <1>8, <1>9, <2>1, DullFit DEF Dull, Busy, Ended
  <2>2. CASE n = "close"
    <3>1. s \in spoilt'
      BY <1>1, <1>4, <1>7, <2>2 DEF ExchangeRefused, SessionInv, Honoured
    <3>. QED  BY <1>1, <1>2, <1>8, <1>9, <1>10, <2>2, <3>1, ClosingFit
  <2>3. CASE n = "call"
    <3>1. Timely(c)' /\ Behind(c)'
      BY <1>1, <1>2, <1>8, <1>9, <1>10, <2>3 DEF Fit, Timely, Behind, Reading, At, On
    <3>. QED  BY <1>8, <1>9, <2>3, <3>1 DEF Fit, Rejected, Renewed, Closing, Storing, At
  <2>. QED  BY <2>1, <2>2, <2>3
<1>. QED  BY <1>2, <1>5, <1>6, <1>8, <1>11, Moves

LEMMA SaveTokenClose ==
  ASSUME SessionInv, CloseInv, NEW c \in Calls, SaveToken(c)
  PROVE  CloseInv'
<1> DEFINE s == On(c)
           t == stored[s]
           u == stored'[s]
<1>1. /\ At(c, "save") /\ Refreshing(c) /\ Unlock(c) /\ UNCHANGED <<granted, opened, time, spoilt>>
  BY DEF SaveToken, provider, Refreshing, At
<1>2. /\ s \in Sessions /\ t \in Tokens /\ t.readable /\ t.renewable /\ call[c] \in CallRecords
      /\ call[c].step \notin Ended \cup {"idle"} /\ call[c].step \in Busy
      /\ Fit(c) /\ Timely(c) /\ \A d \in Calls \ {c} : Refreshing(d) => On(d) # s
      /\ t.there
  BY <1>1, RefreshFacts
<1>3. PICK renewable \in BOOLEAN : stored' = [stored EXCEPT ![s] = Token(call[c].got, renewable)]
  BY DEF SaveToken
<1>4. /\ u = Token(call[c].got, renewable) /\ u.gen = call[c].got /\ u.expires = time + Life /\ u.there
      /\ \A z \in Sessions \ {s} : stored'[z] = stored[z]
  BY <1>2, <1>3 DEF SessionInv, UserTypeOK, Token
<1>5. holder'[s] = Nobody /\ \A z \in Sessions \ {s} : holder'[z] = holder[z]
  BY <1>1, <1>2 DEF Unlock, SessionInv, UserTypeOK
<1>6. u.gen = t.gen + 1 /\ t.gen \in Nat
  BY <1>1, <1>2, <1>4 DEF Fit, Storing, Tokens
<1>7. s \notin spoilt => granted[s] = u.gen
  BY <1>1, <1>4 DEF SessionInv, Honoured
<1>8. time \in Nat /\ Life \in Nat
  BY SessionAssumption DEF SessionInv, UserTypeOK
<1> HIDE DEF u
<1>9. Refreshable'
  BY <1>4, <1>5 DEF CloseInv, Refreshable
<1>10. ASSUME NEW d \in Calls \ {c}, call'[d] = call[d] PROVE Fit(d)'
  <2>1. CASE On(d) # s
    BY <1>1, <1>4, <1>5, <1>10, <2>1, OthersFit DEF CloseInv
  <2>2. CASE On(d) = s
    <3>1. Fit(d) /\ call[d] \in CallRecords
      BY TypesOfCalls DEF CloseInv, SessionInv
    <3>2. Timely(d)'
      BY <1>1, <1>10, <3>1 DEF Fit, Timely
    <3>3. Behind(d)'
      <4>1. call[d].step \in Reading => call[d].step \in Busy
        BY DEF Reading, Busy, CallSteps, Waiting, Ended
      <4>2. SUFFICES ASSUME call[d].step \in Reading PROVE call[d].got <= u.gen /\ call[d].now + Life <= u.expires
        BY <1>10, <2>2 DEF Behind, On, u
      <4>3. call[d].got <= t.gen /\ call[d].now <= time /\ call[d].got \in Nat /\ call[d].now \in Nat
        BY <1>2, <2>2, <3>1, <4>1, <4>2 DEF Fit, Behind, Timely, CallRecords
      <4> HIDE DEF t
      <4>. QED  BY <1>4, <1>6, <1>8, <4>3 DEF u
    <3>4. Rejected(d)'
      <4>1. SUFFICES ASSUME At(d, "lock") PROVE call[d].got # u.gen
        BY <1>1, <1>10, <2>2, <3>1 DEF Fit, Rejected, At, On, u
      <4>2. call[d].got <= t.gen /\ call[d].got \in Nat
        BY <1>2, <2>2, <3>1, <4>1 DEF Fit, Behind, Reading, At, CallRecords
      <4> HIDE DEF t
      <4>. QED  BY <1>6, <4>2
    <3>5. Renewed(d)'
      <4>1. ~(At(d, "again") /\ s \notin spoilt)
        BY <1>1, <1>2, <2>2, <3>1, RefreshFacts DEF Fit, Renewed
      <4>. QED  BY <1>1, <1>10, <2>2, <4>1 DEF Renewed, At, On
    <3>6. Closing(d)'
      BY <1>1, <1>2, <1>10, <2>2, <3>1 DEF Fit, Closing, At, On
    <3>7. Storing(d)'
      BY <1>2, <1>10, <2>2 DEF Storing, Refreshing, At
    <3>. QED  BY <3>2, <3>3, <3>4, <3>5, <3>6, <3>7 DEF Fit
  <2>. QED  BY <2>1, <2>2
<1>11. PICK n \in {"again", "call"} : To(c, n)
  BY DEF SaveToken
<1>12. PICK r \in CallRecords : /\ call' = [call EXCEPT ![c] = r] /\ r.step = n /\ r.session = s
                                /\ r = [call[c] EXCEPT !.step = n]
  <2>1. n \in CallSteps
    BY DEF CallSteps
  <2>. QED  BY <1>11, <2>1, Carried
<1>13. call'[c] = r
  BY <1>12, CallTypes DEF SessionInv
<1>14. r.got = call[c].got /\ r.now = call[c].now
  BY <1>2, <1>12 DEF CallRecords
<1>15. call[c].got \in Nat /\ call[c].now \in Nat /\ call[c].now <= time
  BY <1>2 DEF Timely, CallRecords
<1>16. Timely(c)'
  BY <1>1, <1>2, <1>12, <1>13, <1>14 DEF Timely
<1>17. Behind(c)'
  BY <1>4, <1>12, <1>13, <1>14, <1>15 DEF Behind, On, u
<1>18. Renewed(c)'
  <2>1. call[c].now + Life <= u.expires
    BY <1>4, <1>8, <1>15
  <2>. QED  BY <1>1, <1>4, <1>5, <1>7, <1>12, <1>13, <1>14, <2>1 DEF Renewed, On, u
<1>19. Fit(c)'
  BY <1>12, <1>13, <1>16, <1>17, <1>18 DEF Fit, Rejected, Closing, Storing, At
<1>. QED  BY <1>2, <1>9, <1>10, <1>12, <1>19, Moves

\* A session that is being opened had no request under way when its row comes.
LEMMA FinishLoginClose ==
  ASSUME SessionInv, CloseInv, NEW c \in Calls, FinishLogin(c)
  PROVE  CloseInv'
<1> DEFINE s == On(c)
           old == call[c].got
<1>1. /\ At(c, "replace") /\ s \in Sessions /\ Opening(c, s) /\ ~stored[s].there
      /\ old \in Sessions => holder[old] = Nobody
      /\ UNCHANGED <<holder, granted, opened, time, spoilt>>
  BY DEF FinishLogin, At, SessionInv, Placed, provider, Opening, Opened
<1>2. \A z \in Sessions \ {s} : IF z = old THEN ~stored'[z].there ELSE stored'[z] = stored[z]
  BY DEF FinishLogin, NoToken
<1>3. call[c].step \notin Ended \cup {"idle"} /\ call[c].step \in Busy
  BY <1>1 DEF Busy, CallSteps, Waiting, Ended, At
<1>4. PICK r \in CallRecords : call' = [call EXCEPT ![c] = r] /\ r.step = "ok" /\ r.session = s
  BY Carried DEF FinishLogin, CallSteps
<1>5. call'[c] = r
  BY <1>4, CallTypes DEF SessionInv
<1>6. Fit(c)'
  BY <1>1, <1>4, <1>5, DullFit DEF CloseInv, Fit, Dull, Busy, Ended
<1>7. holder[s] = Nobody
  BY <1>1 DEF SessionInv, Locking, UserTypeOK
<1>8. Refreshable'
  BY <1>1, <1>2, <1>7 DEF CloseInv, Refreshable
<1>9. ASSUME NEW d \in Calls \ {c}, call'[d] = call[d] PROVE Fit(d)'
  <2>1. CASE On(d) = s
    <3>1. call[d].step \in Ended \cup {"idle"}
      BY <1>1, <2>1 DEF CloseInv, Alone
    <3>. QED  BY <1>1, <1>9, <3>1, DullFit DEF CloseInv, Fit, Dull, Busy, Ended
  <2>2. CASE On(d) = old /\ On(d) # s
    <3>1. On(d) \in Sessions => ~stored'[On(d)].there /\ ~At(d, "save")
      BY <1>1, <1>2, <2>2, HolderRefreshes DEF Refreshing, At
    <3>. QED  BY <1>1, <1>9, <3>1, OthersFit DEF CloseInv
  <2>3. CASE On(d) # old /\ On(d) # s
    BY <1>1, <1>2, <1>9, <2>3, OthersFit DEF CloseInv
  <2>. QED  BY <2>1, <2>2, <2>3
<1>. QED  BY <1>3, <1>4, <1>6, <1>8, <1>9, Moves

LEMMA LoginClose ==
  ASSUME SessionInv, CloseInv, NEW c \in Calls, NEW s \in Sessions, NEW old \in Sessions \cup {0}, Login(c, s, old)
  PROVE  CloseInv'
<1> DEFINE r == [NoCall EXCEPT !.step = "replace", !.session = s, !.now = time, !.got = old]
<1>1. /\ At(c, "idle") /\ s = opened + 1 /\ opened \in Nat /\ granted' = [granted EXCEPT ![s] = 1]
      /\ UNCHANGED <<stored, holder, time, spoilt>> /\ call' = [call EXCEPT ![c] = r]
  BY DEF Login, Grant, At, SessionInv, UserTypeOK
<1>2. r \in CallRecords /\ r.step = "replace" /\ r.session = s /\ r.now = time
  <2>1. old \in Nat /\ time \in Nat /\ s \in Sessions \cup {0} /\ "replace" \in CallSteps
    BY SessionsAreNumbers DEF SessionInv, UserTypeOK, CallSteps
  <2>. QED  BY <2>1 DEF NoCall, CallRecords
<1> HIDE DEF r
<1>3. call'[c] = r /\ \A d \in Calls \ {c} : call'[d] = call[d]
  BY <1>1, <1>2, CallTypes DEF SessionInv
<1>4. \A z \in Sessions \ {s} : granted'[z] = granted[z]
  BY <1>1 DEF SessionInv, UserTypeOK
<1>5. \A d \in Calls : On(d) # s
  BY <1>1 DEF SessionInv, Placed, UserTypeOK, On
<1>6. Timely(c)'
  <2>1. time \in Nat /\ RequestTime \in Nat
    BY SessionAssumption DEF SessionInv, UserTypeOK
  <2>. QED  BY <1>1, <1>2, <1>3, <2>1 DEF Timely
<1>7. Fit(c)'
  BY <1>2, <1>3, <1>6 DEF Fit, Behind, Rejected, Renewed, Closing, Storing, Reading, At
<1>8. \A d \in Calls \ {c} : Fit(d)'
  BY <1>1, <1>3, <1>4, <1>5, OthersFit DEF CloseInv
<1>9. Refreshable'
  BY <1>1 DEF CloseInv, Refreshable
<1>10. Alone'
  <2>1. ASSUME NEW e \in Calls, NEW d \in Calls, d # e, Opening(e, On(d))'
        PROVE  call'[d].step \in Ended \cup {"idle"}
    <3>1. e # c
      BY <1>2, <1>3, <1>5, <2>1 DEF Opening, At, On
    <3>2. d # c
      BY <1>2, <1>3, <1>5, <2>1, <3>1 DEF Opening, At, On
    <3>. QED  BY <1>3, <2>1, <3>1, <3>2 DEF CloseInv, Alone, Opening, At, On
  <2>. QED  BY <2>1 DEF Alone
<1>. QED  BY <1>7, <1>8, <1>9, <1>10 DEF CloseInv

LEMMA BeginClose ==
  ASSUME SessionInv, CloseInv, NEW c \in Calls, NEW s \in Sessions, Enter(c, s) \/ Logout(c, s)
  PROVE  CloseInv'
<1> DEFINE r(n) == [NoCall EXCEPT !.session = s, !.now = time, !.step = n]
<1>1. PICK n \in {"read", "unauthorized", "lockOut", "left"} :
          /\ call' = [call EXCEPT ![c] = r(n)]
          /\ ~stored[s].there => n \in {"unauthorized", "left"}
  BY DEF Enter, Logout
<1>2. UNCHANGED <<stored, holder, granted, opened, time, spoilt>> /\ time \in Nat /\ At(c, "idle")
  BY DEF Enter, Logout, provider, SessionInv, UserTypeOK
<1>3. /\ r(n) \in CallRecords /\ r(n).step = n /\ r(n).session = s /\ r(n).now = time /\ ~r(n).rejected
  <2>1. n \in CallSteps
    BY DEF CallSteps, Waiting
  <2>. QED  BY <1>2, <2>1 DEF CallRecords, NoCall
<1> HIDE DEF r
<1>4. call'[c] = r(n) /\ \A d \in Calls \ {c} : call'[d] = call[d]
  BY <1>1, <1>3, CallTypes DEF SessionInv
<1>5. Timely(c)'
  <2>1. RequestTime \in Nat
    BY SessionAssumption
  <2>. QED  BY <1>2, <1>3, <1>4, <2>1 DEF Timely
<1>6. Fit(c)'
  BY <1>3, <1>4, <1>5 DEF Fit, Behind, Rejected, Renewed, Closing, Storing, Reading, At
<1>7. \A d \in Calls \ {c} : Fit(d)'
  BY <1>2, <1>4, OthersFit DEF CloseInv
<1>8. Refreshable'
  BY <1>2 DEF CloseInv, Refreshable
<1>9. Alone'
  <2>1. ASSUME NEW e \in Calls, NEW d \in Calls, d # e, Opening(e, On(d))'
        PROVE  call'[d].step \in Ended \cup {"idle"}
    <3>1. e # c /\ call'[e] = call[e]
      BY <1>3, <1>4, <2>1 DEF Opening, At, On
    <3>2. CASE d = c
      <4>1. Opening(e, s)
        BY <1>3, <1>4, <2>1, <3>1, <3>2 DEF Opening, At, On
      <4>2. ~stored[s].there
        BY <4>1 DEF SessionInv, Opened
      <4>. QED  BY <1>1, <1>3, <1>4, <3>2, <4>2 DEF Ended
    <3>3. CASE d # c
      BY <1>4, <2>1, <3>1, <3>3 DEF CloseInv, Alone, Opening, At, On
    <3>. QED  BY <3>2, <3>3
  <2>. QED  BY <2>1 DEF Alone
<1>. QED  BY <1>6, <1>7, <1>8, <1>9 DEF CloseInv

LEMMA PurgeClose ==
  ASSUME SessionInv, CloseInv, NEW s \in Sessions, PurgeSession(s)
  PROVE  CloseInv'
<1>1. /\ ~stored'[s].there /\ \A z \in Sessions \ {s} : stored'[z] = stored[z]
      /\ UNCHANGED <<call, holder, granted, opened, time, spoilt>> /\ holder[s] = Nobody
  BY DEF SessionInv, UserTypeOK, NoToken, PurgeSession, provider
<1>2. Refreshable' /\ Alone'
  BY <1>1 DEF CloseInv, Refreshable, Alone, Opening, At, On
<1>3. ASSUME NEW d \in Calls PROVE Fit(d)'
  <2>1. On(d) = s => ~At(d, "save")
    BY <1>1, HolderRefreshes DEF Refreshing, At
  <2>. QED  BY <1>1, <2>1, OthersFit DEF CloseInv
<1>. QED  BY <1>2, <1>3 DEF CloseInv

LEMMA WithdrawClose ==
  ASSUME SessionInv, CloseInv, NEW s \in Sessions, Withdraw(s)
  PROVE  CloseInv'
<1>1. /\ UNCHANGED <<stored, call, holder, opened, time>> /\ spoilt' = spoilt \cup {s}
      /\ \A z \in Sessions \ {s} : granted'[z] = granted[z]
  BY DEF Withdraw, SessionInv, UserTypeOK
<1>2. Refreshable' /\ Alone'
  BY <1>1 DEF CloseInv, Refreshable, Alone, Opening, At, On
<1>3. \A d \in Calls : Fit(d)'
  BY <1>1, OthersFit DEF CloseInv
<1>. QED  BY <1>2, <1>3 DEF CloseInv

LEMMA RefreshTokenExpiresClose ==
  ASSUME SessionInv, CloseInv, NEW s \in Sessions, RefreshTokenExpires(s)
  PROVE  CloseInv'
<1>1. /\ UNCHANGED <<call, holder, granted, opened, time, spoilt>> /\ holder[s] = Nobody
      /\ \A z \in Sessions \ {s} : stored'[z] = stored[z]
      /\ stored'[s].there = stored[s].there /\ stored'[s].gen = stored[s].gen
      /\ stored'[s].expires = stored[s].expires /\ stored'[s].renewable = FALSE
  BY DEF RefreshTokenExpires, provider, SessionInv, UserTypeOK, Tokens
<1>2. Refreshable' /\ Alone'
  BY <1>1 DEF CloseInv, Refreshable, Alone, Opening, At, On
<1>3. ASSUME NEW d \in Calls PROVE Fit(d)'
  <2>1. CASE On(d) # s
    BY <1>1, <2>1, OthersFit DEF CloseInv
  <2>2. CASE On(d) = s
    BY <1>1, <2>2 DEF CloseInv, Fit, Timely, Behind, Rejected, Renewed, Closing, Storing, At, On
  <2>. QED  BY <2>1, <2>2
<1>. QED  BY <1>2, <1>3 DEF CloseInv

\* Time passes while every request under way has some left.
LEMMA TickClose ==
  ASSUME SessionInv, CloseInv, Tick
  PROVE  CloseInv'
<1>1. UNCHANGED <<stored, call, holder, granted, opened, spoilt>> /\ time' = time + 1 /\ time \in Nat
  BY DEF Tick, SessionInv, UserTypeOK
<1>2. Refreshable' /\ Alone'
  BY <1>1 DEF CloseInv, Refreshable, Alone, Opening, At, On
<1>3. ASSUME NEW d \in Calls PROVE Fit(d)'
  <2>1. Fit(d) /\ call[d] \in CallRecords
    BY TypesOfCalls DEF CloseInv, SessionInv
  <2>2. Timely(d)'
    <3>1. call[d].now \in Nat /\ RequestTime \in Nat
      BY <2>1, SessionAssumption DEF CallRecords
    <3>2. call[d].step \in Busy => time < call[d].now + RequestTime
      BY DEF Tick, Busy
    <3>. QED  BY <1>1, <2>1, <3>1, <3>2 DEF Fit, Timely
  <2>3. Rejected(d)'
    <3>1. At(d, "lock") => stored[On(d)].expires \in Nat
      BY DEF SessionInv, Placed, UserTypeOK, At, Tokens
    <3>. QED  BY <1>1, <2>1, <3>1 DEF Fit, Rejected, At, On
  <2>. QED  BY <1>1, <2>1, <2>2, <2>3 DEF Fit, Behind, Renewed, Closing, Storing, At, On
<1>. QED  BY <1>2, <1>3 DEF CloseInv

LEMMA RestartClose ==
  ASSUME SessionInv, CloseInv, Restart
  PROVE  CloseInv'
<1>1. \A c \in Calls : call'[c].step \in {"idle", "unavailable"}
  BY DEF Restart, NoCall
<1>2. \A s \in Sessions : holder'[s] = Nobody
  BY DEF Restart
<1>3. \A c \in Calls : Fit(c)'
  BY <1>1 DEF Fit, Timely, Behind, Rejected, Renewed, Closing, Storing, At, Reading, Busy, Ended
<1>. QED  BY <1>1, <1>2, <1>3 DEF CloseInv, Refreshable, Alone, Opening, At

LEMMA InitClose == UserInit => CloseInv
BY DEF UserInit, CloseInv, Refreshable, Alone, Opening, Fit, Timely, Behind, Rejected, Renewed, Closing,
       Storing, At, Reading, Busy, NoCall

LEMMA StutterClose == CloseInv /\ UNCHANGED userVars => CloseInv'
BY DEF userVars, CloseInv, Refreshable, Alone, Opening, Fit, Timely, Behind, Rejected, Renewed, Closing,
       Storing, At, On

LEMMA CallStepClose ==
  ASSUME SessionInv, CloseInv, NEW c \in Calls, CallStep(c)
  PROVE  CloseInv'
<1>1. CASE FinishLogin(c)
  BY <1>1, FinishLoginClose
<1>2. CASE LoginFails(c) \/ LockTimeout(c) \/ LogoutBusy(c)
  BY <1>2, QuietClose
<1>3. CASE ReadStored(c)
  BY <1>3, ReadStoredClose
<1>4. CASE TakeLock(c)
  BY <1>4, TakeLockClose
<1>5. CASE Exchange(c)
  BY <1>5, ExchangeClose
<1>6. CASE ExchangeFails(c) \/ ExchangeRefused(c)
  BY <1>6, ExchangeFailsClose
<1>7. CASE SaveToken(c)
  BY <1>7, SaveTokenClose
<1>8. CASE CallProvider(c)
  BY <1>8, CallProviderClose
<1>9. CASE Close(c) \/ LogoutLocked(c) \/ LogoutDelete(c)
  BY <1>9, RowStepsClose
<1>10. CASE RevokeToken(c)
  BY <1>10, RevokeTokenClose
<1>. QED  BY <1>1, <1>2, <1>3, <1>4, <1>5, <1>6, <1>7, <1>8, <1>9, <1>10 DEF CallStep

LEMMA StepClose == SessionInv /\ CloseInv /\ [UserNext]_userVars => CloseInv'
<1> SUFFICES ASSUME SessionInv, CloseInv, [UserNext]_userVars PROVE CloseInv'
  OBVIOUS
<1>1. CASE \E c \in Calls : CallStep(c)
  BY <1>1, CallStepClose
<1>2. CASE \E c \in Calls, s \in Sessions : Enter(c, s) \/ Logout(c, s)
  BY <1>2, BeginClose
<1>3. CASE \E c \in Calls, s \in Sessions, old \in Sessions \cup {0} : Login(c, s, old)
  BY <1>3, LoginClose
<1>4. CASE \E s \in Sessions : PurgeSession(s) \/ Withdraw(s) \/ RefreshTokenExpires(s)
  BY <1>4, PurgeClose, WithdrawClose, RefreshTokenExpiresClose
<1>5. CASE Restart
  BY <1>5, RestartClose
<1>6. CASE Tick
  BY <1>6, TickClose
<1>7. CASE UNCHANGED userVars
  BY <1>7, StutterClose
<1>. QED  BY <1>1, <1>2, <1>3, <1>4, <1>5, <1>6, <1>7 DEF UserNext

\* A request closes a session only when its token cannot be renewed or read, never because
\* a parallel request has just renewed it (call_with_user_token, user_token.py).
THEOREM LivingSessionsStay == UserSpec => []OnlyDeadSessionIsClosed
<1>1. CloseInv => OnlyDeadSessionIsClosed
  BY DEF CloseInv, Fit, Closing, OnlyDeadSessionIsClosed
<1>. QED  BY <1>1, InitClose, InitInv, StepClose, StepInv, PTL DEF UserSpec
=============================================================================
