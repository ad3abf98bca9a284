---------------------------- MODULE WorkerProofs ----------------------------
(***************************************************************************)
(* What the parts of the worker, and the stream of events of its runs,     *)
(* promise for any number of threads, steps, runs, requests to GitHub and  *)
(* failures.                                                               *)
(***************************************************************************)
EXTENDS GitHubRequest, JobPublisher, Redelivery, RunSteps, RunFeed, ListingProofs, FiniteSetTheorems, TLAPS

\* ---- putting jobs into the queue -------------------------------------------

Calls == [step : PublisherSteps, attempt : {1, 2}, waited : Nat, lasted : Nat]
\* The steps between taking the lock and the answer, and those with a channel.
Busy == {"connecting", "sending", "held", "sent"}
OnChannel == {"sending", "held", "sent"}
Broke(t) == met[t] \cap {"cut", "down"} # {}
\* What the attempts before may have lasted.
Earlier(t) == LockTimeout + (IF publisher[t].attempt = 1 THEN 0 ELSE BlockedTimeout)

\* The lock and the connection: the second attempt opens its own, and a connection that breaks
\* under it breaks while the call is under way.
Linked(t) ==
    /\ owner = t <=> publisher[t].step \in Busy
    /\ publisher[t].step \in OnChannel => link \in {"open", "cut"}
    /\ IsAt(t, "connecting") /\ publisher[t].attempt = 2 => link = "none"
    /\ link = "cut" /\ publisher[t].step \in OnChannel =>
          Broke(t) \/ (IsAt(t, "sending") /\ publisher[t].attempt = 1)
\* What goes wrong during a call is its cause.
Caused(t) ==
    /\ Calling(t) /\ broker # "up" => broker \in met[t]
    /\ IsAt(t, "waiting") /\ publisher[t].waited > 0 => met[t] # {}
    /\ IsAt(t, "held") => "alarm" \in met[t]
\* Each attempt waits once for the broker, the first one for the lock.
Timed(t) ==
    /\ IsAt(t, "waiting") => publisher[t].lasted = publisher[t].waited /\ publisher[t].waited <= LockTimeout
    /\ publisher[t].step \in {"connecting", "sending"} => publisher[t].lasted <= Earlier(t)
    /\ IsAt(t, "held") => publisher[t].waited <= BlockedTimeout
                          /\ publisher[t].lasted <= Earlier(t) + publisher[t].waited
    /\ IsAt(t, "sent") => publisher[t].lasted <= Earlier(t) + BlockedTimeout
\* Each attempt leaves at most one copy.
Counted(t) ==
    /\ IsAt(t, "waiting") => copies[t] = 0 /\ publisher[t].attempt = 1
    /\ publisher[t].step \in {"connecting", "sending", "held"} =>
          copies[t] < publisher[t].attempt /\ (copies[t] > 0 => Broke(t))
    /\ IsAt(t, "sent") => copies[t] \in 1..publisher[t].attempt /\ (copies[t] > 1 => Broke(t))
Concluded(t) == publisher[t].step \in Endings =>
    /\ IsAt(t, "queued") => copies[t] > 0
    /\ copies[t] > 1 => copies[t] = 2 /\ Broke(t)
    /\ ~IsAt(t, "queued") => met[t] # {}
    /\ publisher[t].lasted < HookLimit
Sound(t) == Linked(t) /\ Caused(t) /\ Timed(t) /\ Counted(t) /\ Concluded(t)
PublisherInv == PublisherTypeOK /\ \A t \in Publishers : Sound(t)

LEMMA PublisherInvInit == PublisherInit => PublisherInv
BY PublisherAssumption DEF PublisherInit, PublisherInv, PublisherTypeOK, Sound, Linked, Caused, Timed,
   Counted, Concluded, IsAt, Calling, NotCalled, PublisherSteps, Endings, Busy, OnChannel

\* A step of one thread: the others hold neither the lock nor the connection it works on.
LEMMA ThreadStep ==
  ASSUME PublisherInv, NEW t \in Publishers, NEW p \in Calls, NEW c \in Nat,
         publisher' = [publisher EXCEPT ![t] = p], copies' = [copies EXCEPT ![t] = c],
         met' \in [Publishers -> SUBSET {"cut", "alarm", "down", "refusal"}],
         \A u \in Publishers \ {t} : met[u] \subseteq met'[u],
         upsets' \in 0..Upsets, broker' = broker, link' \in {"none", "open", "cut", "noChannel"},
         owner' = owner \/ (owner \in {t, NoThread} /\ owner' \in {t, NoThread}),
         link' = link \/ owner = t, Sound(t)'
  PROVE  PublisherInv'
<1>1. PublisherTypeOK'
  BY DEF PublisherInv, PublisherTypeOK, Calls
<1>2. ASSUME NEW u \in Publishers \ {t} PROVE Sound(u)'
  <2>1. /\ publisher'[u] = publisher[u] /\ copies'[u] = copies[u] /\ met[u] \subseteq met'[u]
        /\ Sound(u) /\ u # NoThread /\ u # t
    BY PublisherAssumption DEF PublisherInv, PublisherTypeOK
  <2>2. (owner = u <=> owner' = u) /\ (owner = u => link' = link)
    BY <2>1
  <2>3. Linked(u)'
    BY <2>1, <2>2 DEF Sound, Linked, IsAt, OnChannel, Busy, Broke
  <2>4. Caused(u)' /\ Timed(u)' /\ Counted(u)' /\ Concluded(u)'
    BY <2>1 DEF Sound, Caused, Timed, Counted, Concluded, IsAt, Calling, Broke, Earlier
  <2>. QED  BY <2>3, <2>4 DEF Sound
<1>. QED  BY <1>1, <1>2 DEF PublisherInv

\* What holds of the thread that moves.
LEMMA ThreadKnown ==
  ASSUME PublisherInv, NEW t \in Publishers
  PROVE  /\ PublisherTypeOK /\ Sound(t) /\ publisher[t] \in Calls /\ copies[t] \in Nat /\ t # NoThread
         /\ upsets \in 0..Upsets /\ met \in [Publishers -> SUBSET {"cut", "alarm", "down", "refusal"}]
         /\ {LockTimeout, BlockedTimeout, HookLimit, Upsets} \subseteq Nat
         /\ publisher = [publisher EXCEPT ![t] = publisher[t]] /\ copies = [copies EXCEPT ![t] = copies[t]]
BY PublisherAssumption DEF PublisherInv, PublisherTypeOK, Calls

LEMMA EnqueueInv ==
  ASSUME PublisherInv, NEW t \in Publishers, EnqueueJob(t)
  PROVE  PublisherInv'
<1> DEFINE p == [step |-> "waiting", attempt |-> 1, waited |-> 0, lasted |-> 0]
<1>1. PublisherTypeOK /\ Sound(t) /\ upsets \in 0..Upsets
  BY ThreadKnown
<1>0. p \in Calls /\ p = [NotCalled EXCEPT !.step = "waiting"]
  BY DEF NotCalled, Calls, PublisherSteps
<1>2. /\ p \in Calls /\ publisher' = [publisher EXCEPT ![t] = p] /\ copies' = [copies EXCEPT ![t] = 0]
      /\ UNCHANGED <<broker, link, owner, upsets>> /\ met' = [met EXCEPT ![t] = {broker} \ {"up"}]
  BY <1>0 DEF EnqueueJob
<1>3. /\ publisher'[t] = p /\ copies'[t] = 0 /\ met'[t] = {broker} \ {"up"}
      /\ met' \in [Publishers -> SUBSET {"cut", "alarm", "down", "refusal"}]
      /\ \A u \in Publishers \ {t} : met[u] \subseteq met'[u]
  BY <1>1, <1>2 DEF PublisherTypeOK
<1>4. publisher[t].step \notin Busy /\ owner # t
  BY <1>1 DEF EnqueueJob, Calling, Sound, Linked, Busy, Endings
<1>5. Sound(t)'
  <2>1. /\ publisher'[t].step = "waiting" /\ publisher'[t].attempt = 1 /\ publisher'[t].waited = 0
        /\ publisher'[t].lasted = 0
    BY <1>3
  <2>2. Linked(t)'
    BY <1>2, <1>4, <2>1 DEF Linked, IsAt, Busy, OnChannel
  <2>3. Caused(t)'
    BY <1>2, <1>3, <2>1 DEF Caused, IsAt
  <2>4. Timed(t)' /\ Counted(t)' /\ Concluded(t)'
    BY <1>3, <2>1, PublisherAssumption DEF Timed, Counted, Concluded, IsAt, Endings
  <2>. QED  BY <2>2, <2>3, <2>4 DEF Sound
<1> HIDE DEF p
<1>. QED  BY <1>1, <1>2, <1>3, <1>5, ThreadStep DEF PublisherTypeOK

\* A call goes on with the lock, or concludes: nothing but its step and its wait change.
LEMMA ProceedIs ==
  ASSUME PublisherInv, NEW t \in Publishers, NEW s \in PublisherSteps, Proceed(t, s)
  PROVE  LET p == [publisher[t] EXCEPT !.step = s, !.waited = 0]
         IN /\ p \in Calls /\ publisher' = [publisher EXCEPT ![t] = p] /\ publisher'[t].step = s
            /\ publisher'[t].attempt = publisher[t].attempt /\ publisher'[t].lasted = publisher[t].lasted
            /\ publisher'[t].waited = 0
<1>1. PublisherTypeOK /\ publisher[t] \in Calls
  BY ThreadKnown
<1>. QED  BY <1>1 DEF Proceed, PublisherTypeOK, Calls

\* A step that proceeds without a mishap.
LEMMA ProceedInv ==
  ASSUME PublisherInv, NEW t \in Publishers, NEW s \in PublisherSteps, Proceed(t, s),
         NEW c \in Nat, copies' = [copies EXCEPT ![t] = c],
         UNCHANGED <<broker, upsets, met>>, link' \in {"none", "open", "cut", "noChannel"},
         owner' = owner \/ (owner \in {t, NoThread} /\ owner' \in {t, NoThread}),
         link' = link \/ owner = t, Sound(t)'
  PROVE  PublisherInv'
<1> DEFINE p == [publisher[t] EXCEPT !.step = s, !.waited = 0]
<1>1. p \in Calls /\ publisher' = [publisher EXCEPT ![t] = p]
  BY ProceedIs
<1>2. /\ upsets' \in 0..Upsets /\ met' \in [Publishers -> SUBSET {"cut", "alarm", "down", "refusal"}]
      /\ \A u \in Publishers \ {t} : met[u] \subseteq met'[u] /\ broker' = broker
  BY ThreadKnown
<1> HIDE DEF p
<1>. QED  BY <1>1, <1>2, ThreadStep

LEMMA TakeInv ==
  ASSUME PublisherInv, NEW t \in Publishers, TakeConnection(t)
  PROVE  PublisherInv'
<1>1. /\ PublisherTypeOK /\ Sound(t) /\ publisher[t] \in Calls /\ IsAt(t, "waiting") /\ owner = NoThread
      /\ t # NoThread /\ copies[t] \in Nat /\ copies' = [copies EXCEPT ![t] = copies[t]]
      /\ owner' = t /\ Proceed(t, "connecting") /\ UNCHANGED <<broker, link, copies, upsets, met>>
  BY ThreadKnown DEF TakeConnection, calm
<1>2. "connecting" \in PublisherSteps /\ link' \in {"none", "open", "cut", "noChannel"}
  BY <1>1 DEF PublisherTypeOK, PublisherSteps
<1>3. /\ publisher'[t].step = "connecting" /\ publisher'[t].attempt = publisher[t].attempt
      /\ publisher'[t].lasted = publisher[t].lasted
  BY <1>1, <1>2, ProceedIs
<1>4. /\ publisher[t].attempt = 1 /\ copies[t] = 0 /\ publisher[t].lasted <= LockTimeout
      /\ broker # "up" => broker \in met[t]
  BY <1>1 DEF Sound, Caused, Timed, Counted, IsAt, Calling, Endings
<1>5. Sound(t)'
  BY <1>1, <1>3, <1>4, PublisherAssumption DEF Sound, Linked, Caused, Timed, Counted, Concluded, IsAt, Busy, OnChannel,
     Endings, Earlier, Calls
<1>. QED  BY <1>1, <1>2, <1>5, ProceedInv

LEMMA GiveUpInv ==
  ASSUME PublisherInv, NEW t \in Publishers, GiveUpLock(t)
  PROVE  PublisherInv'
<1>1. /\ PublisherTypeOK /\ Sound(t) /\ publisher[t] \in Calls /\ IsAt(t, "waiting")
      /\ copies[t] \in Nat /\ copies' = [copies EXCEPT ![t] = copies[t]] /\ owner # t
      /\ owner' = owner /\ Proceed(t, "blocked") /\ UNCHANGED <<broker, link, copies, upsets, met>>
      /\ publisher[t].waited = LockTimeout
  BY ThreadKnown DEF GiveUpLock, calm, Conclude, Sound, Linked, IsAt, Busy
<1>2. "blocked" \in PublisherSteps /\ link' \in {"none", "open", "cut", "noChannel"}
  BY <1>1 DEF PublisherTypeOK, PublisherSteps, Endings
<1>3. publisher'[t].step = "blocked" /\ publisher'[t].lasted = publisher[t].lasted
  BY <1>1, <1>2, ProceedIs
<1>4. copies[t] = 0 /\ publisher[t].lasted = LockTimeout /\ met[t] # {}
  BY <1>1, PublisherAssumption DEF Sound, Caused, Timed, Counted, IsAt
<1>5. Sound(t)'
  BY <1>1, <1>3, <1>4, PublisherAssumption DEF Sound, Linked, Caused, Timed, Counted, Concluded, IsAt, Busy, OnChannel,
     Endings, Calling
<1>. QED  BY <1>1, <1>2, <1>5, ProceedInv

LEMMA ChannelInv ==
  ASSUME PublisherInv, NEW t \in Publishers, ReuseChannel(t) \/ OpenChannel(t)
  PROVE  PublisherInv'
<1>1. /\ PublisherTypeOK /\ Sound(t) /\ publisher[t] \in Calls /\ IsAt(t, "connecting")
      /\ copies[t] \in Nat /\ copies' = [copies EXCEPT ![t] = copies[t]] /\ owner = t
      /\ Proceed(t, "sending") /\ UNCHANGED <<broker, owner, copies, upsets, met>>
      /\ link' = "open" \/ (link' = link /\ link \in {"open", "cut"})
  BY ThreadKnown DEF ReuseChannel, OpenChannel, calm, Sound, Linked, IsAt, Busy
<1>2. "sending" \in PublisherSteps /\ link' \in {"none", "open", "cut", "noChannel"}
  BY <1>1 DEF PublisherTypeOK, PublisherSteps
<1>3. /\ publisher'[t].step = "sending" /\ publisher'[t].attempt = publisher[t].attempt
      /\ publisher'[t].lasted = publisher[t].lasted
  BY <1>1, <1>2, ProceedIs
<1>4. /\ copies[t] < publisher[t].attempt /\ (copies[t] > 0 => Broke(t)) /\ publisher[t].lasted <= Earlier(t)
      /\ (broker # "up" => broker \in met[t]) /\ (publisher[t].attempt = 2 => link = "none")
      /\ publisher[t].attempt \in {1, 2}
  BY <1>1 DEF Sound, Linked, Caused, Timed, Counted, IsAt, Calling, Endings, Calls
<1>5. Sound(t)'
  BY <1>1, <1>3, <1>4 DEF Sound, Linked, Caused, Timed, Counted, Concluded, IsAt, Busy, OnChannel,
     Endings, Earlier, Broke
<1>. QED  BY <1>1, <1>2, <1>5, ProceedInv

\* What a call that ends has to show.
LEMMA ConcludesSound ==
  ASSUME NEW t \in Publishers, publisher'[t].step \in Endings, owner' # t, owner' = NoThread \/ owner' = owner,
         publisher'[t].step = "queued" => copies'[t] > 0,
         copies'[t] > 1 => copies'[t] = 2 /\ Broke(t)',
         publisher'[t].step # "queued" => met'[t] # {},
         publisher'[t].lasted < HookLimit
  PROVE  Sound(t)'
BY DEF Sound, Linked, Caused, Timed, Counted, Concluded, IsAt, Busy, OnChannel, Endings, Calling

LEMMA BreaksInv ==
  ASSUME PublisherInv, NEW t \in Publishers, Breaks(t)
  PROVE  PublisherInv'
<1>1. /\ PublisherTypeOK /\ Sound(t) /\ publisher[t] \in Calls /\ t # NoThread
      /\ copies[t] \in Nat /\ copies' = [copies EXCEPT ![t] = copies[t]] /\ owner = t
      /\ UNCHANGED <<broker, copies, upsets, met>> /\ link' = "none"
      /\ publisher[t].step \in Busy /\ publisher[t].attempt \in {1, 2}
      /\ publisher[t].lasted \in Nat /\ upsets' \in 0..Upsets
      /\ met' \in [Publishers -> SUBSET {"cut", "alarm", "down", "refusal"}]
  BY ThreadKnown DEF Breaks, Broken, calm, Sound, Linked, IsAt, Busy, Calls
<1>2. /\ publisher[t].lasted <= Earlier(t) + BlockedTimeout /\ copies[t] <= publisher[t].attempt
      /\ copies[t] > 0 => Broke(t)
      /\ publisher[t].attempt = 2 => Broke(t)
  <2>1. publisher[t].lasted <= Earlier(t) + BlockedTimeout /\ copies[t] <= publisher[t].attempt
    BY <1>1, PublisherAssumption DEF Sound, Timed, Counted, IsAt, Busy, Earlier, Calls
  <2>2. CASE IsAt(t, "connecting") /\ broker = "down"
    <3>1. broker \in met[t]
      BY <1>1, <2>2 DEF Sound, Caused, IsAt, Calling, Endings
    <3>. QED  BY <2>1, <2>2, <3>1 DEF Broke
  <2>3. CASE publisher[t].step \in OnChannel /\ link = "cut"
    <3>1. Broke(t) \/ (IsAt(t, "sending") /\ publisher[t].attempt = 1)
      BY <1>1, <2>3 DEF Sound, Linked
    <3>2. IsAt(t, "sending") /\ publisher[t].attempt = 1 => copies[t] = 0
      BY <1>1 DEF Sound, Counted, IsAt
    <3>. QED  BY <2>1, <3>1, <3>2
  <2>. QED  BY <2>1, <2>2, <2>3 DEF Breaks, OnChannel
<1>3. CASE publisher[t].attempt = 1
  <2> DEFINE p == [publisher[t] EXCEPT !.attempt = 2, !.step = "connecting", !.waited = 0]
  <2>1. p \in Calls /\ publisher' = [publisher EXCEPT ![t] = p] /\ owner' = owner
    <3>1. p \in Calls
      BY <1>1 DEF Calls, PublisherSteps
    <3>2. /\ publisher' = [publisher EXCEPT ![t].attempt = 2, ![t].step = "connecting", ![t].waited = 0]
          /\ owner' = owner
      BY <1>3 DEF Breaks, Broken
    <3>3. publisher' = [publisher EXCEPT ![t] = p]
      BY <1>1, <3>2 DEF PublisherTypeOK, Calls
    <3>. QED  BY <3>1, <3>2, <3>3
  <2>2. /\ publisher'[t].step = "connecting" /\ publisher'[t].attempt = 2
        /\ publisher'[t].lasted = publisher[t].lasted /\ copies'[t] = copies[t] /\ met'[t] = met[t]
    BY <1>1, <2>1 DEF PublisherTypeOK, Calls
  <2>3. Linked(t)'
    BY <1>1, <2>1, <2>2 DEF Linked, IsAt, Busy, OnChannel
  <2>4. Caused(t)'
    BY <1>1, <2>2 DEF Sound, Caused, IsAt, Calling, Busy, Endings
  <2>5. Timed(t)'
    BY <1>1, <1>2, <1>3, <2>2, PublisherAssumption DEF Timed, IsAt, Earlier
  <2>6. Counted(t)' /\ Concluded(t)'
    BY <1>1, <1>2, <1>3, <2>2 DEF Counted, Concluded, IsAt, Broke, Endings
  <2> HIDE DEF p
  <2>. QED  BY <1>1, <2>1, <2>3, <2>4, <2>5, <2>6, ThreadStep DEF Sound
<1>4. CASE publisher[t].attempt = 2
  <2>1. Proceed(t, "failed") /\ owner' = NoThread /\ "failed" \in PublisherSteps
    BY <1>1, <1>4 DEF Breaks, Broken, Conclude, PublisherSteps, Endings
  <2>2. publisher'[t].step = "failed" /\ publisher'[t].lasted = publisher[t].lasted
    BY <2>1, ProceedIs
  <2>3. publisher[t].lasted < HookLimit
    BY <1>1, <1>2, <1>4, PublisherAssumption DEF Earlier
  <2>4. Sound(t)'
    BY <1>1, <1>2, <1>4, <2>1, <2>2, <2>3, ConcludesSound DEF Broke, Endings
  <2>. QED  BY <1>1, <2>1, <2>4, ProceedInv
<1>. QED  BY <1>1, <1>3, <1>4

\* An upset is told to every call under way.
LEMMA UpsetIs ==
  ASSUME PublisherInv, NEW kind \in {"cut", "alarm", "down", "refusal"}, Upset(kind)
  PROVE  /\ upsets' \in 0..Upsets /\ met' \in [Publishers -> SUBSET {"cut", "alarm", "down", "refusal"}]
         /\ \A u \in Publishers : met[u] \subseteq met'[u] /\ (Calling(u) => kind \in met'[u])
BY PublisherAssumption DEF Upset, PublisherInv, PublisherTypeOK

LEMMA RefusesInv ==
  ASSUME PublisherInv, NEW t \in Publishers, Refuses(t)
  PROVE  PublisherInv'
<1>1. /\ PublisherTypeOK /\ Sound(t) /\ publisher[t] \in Calls /\ t # NoThread
      /\ copies[t] \in Nat /\ copies' = [copies EXCEPT ![t] = copies[t]] /\ owner = t
      /\ UNCHANGED <<broker, copies>> /\ link' \in {"open", "noChannel"}
      /\ IsAt(t, "sending") /\ publisher[t].attempt \in {1, 2} /\ publisher[t].lasted \in Nat
      /\ Proceed(t, "refused") /\ owner' = NoThread /\ "refused" \in PublisherSteps
      /\ Upset("refusal")
  BY ThreadKnown DEF Refuses, Conclude, Sound, Linked, IsAt, Busy, Calls, PublisherSteps, Endings
<1>2. /\ upsets' \in 0..Upsets /\ met' \in [Publishers -> SUBSET {"cut", "alarm", "down", "refusal"}]
      /\ \A u \in Publishers : met[u] \subseteq met'[u]
      /\ met'[t] # {}
  BY <1>1, UpsetIs DEF Calling, IsAt, Endings
<1> DEFINE p == [publisher[t] EXCEPT !.step = "refused", !.waited = 0]
<1>3. /\ p \in Calls /\ publisher' = [publisher EXCEPT ![t] = p]
      /\ publisher'[t].step = "refused" /\ publisher'[t].lasted = publisher[t].lasted
  BY <1>1, ProceedIs
<1>4. publisher[t].lasted < HookLimit /\ copies[t] < 2
  BY <1>1, PublisherAssumption DEF Sound, Timed, Counted, IsAt, Earlier
<1>5. Sound(t)'
  BY <1>1, <1>2, <1>3, <1>4, ConcludesSound DEF Endings
<1> HIDE DEF p
<1>. QED  BY <1>1, <1>2, <1>3, <1>5, ThreadStep

LEMMA SendInv ==
  ASSUME PublisherInv, NEW t \in Publishers, BrokerTakes(t) \/ BrokerDoesNotRead(t)
  PROVE  PublisherInv'
<1>1. /\ PublisherTypeOK /\ Sound(t) /\ publisher[t] \in Calls /\ link = "open"
      /\ copies[t] \in Nat /\ owner = t /\ publisher[t].attempt \in {1, 2} /\ publisher[t].lasted \in Nat
      /\ publisher[t].waited \in Nat
      /\ publisher[t].step \in {"sending", "held"} /\ {"sent", "held"} \subseteq PublisherSteps
      /\ UNCHANGED <<broker, link, owner, upsets, met>>
      /\ link' \in {"none", "open", "cut", "noChannel"}
  BY ThreadKnown DEF BrokerTakes, BrokerDoesNotRead, calm, Sound, Linked, IsAt, Busy, Calls, PublisherSteps
<1>2. /\ copies[t] < publisher[t].attempt /\ (copies[t] > 0 => Broke(t))
      /\ (broker # "up" => broker \in met[t])
  BY <1>1 DEF Sound, Caused, Counted, IsAt, Calling, Endings
<1>3. publisher[t].lasted <= Earlier(t) + BlockedTimeout
  BY <1>1, PublisherAssumption DEF Sound, Timed, IsAt, Earlier
<1>4. CASE BrokerTakes(t)
  <2>1. Proceed(t, "sent") /\ copies' = [copies EXCEPT ![t] = copies[t] + 1] /\ copies'[t] = copies[t] + 1
        /\ copies[t] + 1 \in Nat
    BY <1>1, <1>4 DEF BrokerTakes, Taken, PublisherTypeOK
  <2>2. /\ publisher'[t].step = "sent" /\ publisher'[t].attempt = publisher[t].attempt
        /\ publisher'[t].lasted = publisher[t].lasted
    BY <1>1, <2>1, ProceedIs
  <2>3. Sound(t)'
    BY <1>1, <1>2, <1>3, <2>1, <2>2 DEF Sound, Linked, Caused, Timed, Counted, Concluded, IsAt, Busy, OnChannel,
       Endings, Calling, Earlier, Broke
  <2>. QED  BY <1>1, <2>1, <2>3, ProceedInv
<1>5. CASE BrokerDoesNotRead(t)
  <2>1. /\ Proceed(t, "held") /\ UNCHANGED copies /\ copies' = [copies EXCEPT ![t] = copies[t]]
        /\ publisher[t].step = "sending" /\ broker = "alarm"
    BY <1>1, <1>5 DEF BrokerDoesNotRead, PublisherTypeOK, IsAt
  <2>2. /\ publisher'[t].step = "held" /\ publisher'[t].attempt = publisher[t].attempt
        /\ publisher'[t].lasted = publisher[t].lasted /\ publisher'[t].waited = 0
    BY <1>1, <2>1, ProceedIs
  <2>3. publisher[t].lasted <= Earlier(t)
    BY <1>1, <2>1 DEF Sound, Timed
  <2>4. Sound(t)'
    BY <1>1, <1>2, <2>1, <2>2, <2>3, PublisherAssumption DEF Sound, Linked, Caused, Timed, Counted, Concluded, IsAt, Busy,
       OnChannel, Endings, Calling, Earlier, Broke
  <2>. QED  BY <1>1, <2>1, <2>4, ProceedInv
<1>. QED  BY <1>4, <1>5

LEMMA EndsInv ==
  ASSUME PublisherInv, NEW t \in Publishers, BlockedTooLong(t) \/ Confirmed(t)
  PROVE  PublisherInv'
<1>1. /\ PublisherTypeOK /\ Sound(t) /\ publisher[t] \in Calls /\ t # NoThread
      /\ copies[t] \in Nat /\ owner = t /\ publisher[t].attempt \in {1, 2} /\ publisher[t].lasted \in Nat
      /\ {"blocked", "queued"} \subseteq PublisherSteps /\ owner' = NoThread
      /\ UNCHANGED <<broker, upsets, met>> /\ link' \in {"none", "open", "cut", "noChannel"}
  BY ThreadKnown DEF BlockedTooLong, Confirmed, calm, Sound, Linked, IsAt, Busy, Calls, PublisherSteps,
     Endings, Conclude
<1>2. CASE BlockedTooLong(t)
  <2>1. PICK c \in {copies[t], copies[t] + 1} : copies' = [copies EXCEPT ![t] = c]
    BY <1>1, <1>2 DEF BlockedTooLong, Taken, PublisherTypeOK
  <2>2. Proceed(t, "blocked") /\ IsAt(t, "held") /\ copies'[t] = c /\ c \in Nat
    BY <1>1, <1>2, <2>1 DEF BlockedTooLong, Conclude, PublisherTypeOK
  <2>3. publisher'[t].step = "blocked" /\ publisher'[t].lasted = publisher[t].lasted
    BY <1>1, <2>2, ProceedIs
  <2>4. publisher[t].lasted < HookLimit /\ met[t] # {} /\ c <= 2 /\ (c > 1 => Broke(t))
    BY <1>1, <2>1, <2>2, PublisherAssumption DEF Sound, Timed, Counted, Caused, IsAt, Earlier, Calls
  <2>5. Sound(t)'
    BY <1>1, <2>2, <2>3, <2>4, ConcludesSound DEF Endings, Broke
  <2>. QED  BY <1>1, <2>1, <2>2, <2>5, ProceedInv
<1>3. CASE Confirmed(t)
  <2>1. Proceed(t, "queued") /\ IsAt(t, "sent") /\ copies' = [copies EXCEPT ![t] = copies[t]] /\ UNCHANGED copies
    BY <1>1, <1>3 DEF Confirmed, Conclude, PublisherTypeOK
  <2>2. publisher'[t].step = "queued" /\ publisher'[t].lasted = publisher[t].lasted
    BY <1>1, <2>1, ProceedIs
  <2>3. publisher[t].lasted < HookLimit /\ copies[t] > 0 /\ copies[t] <= 2 /\ (copies[t] > 1 => Broke(t))
    BY <1>1, <2>1, PublisherAssumption DEF Sound, Timed, Counted, IsAt, Earlier, Calls
  <2>4. Sound(t)'
    BY <1>1, <2>1, <2>2, <2>3, ConcludesSound DEF Endings, Broke
  <2>. QED  BY <1>1, <2>1, <2>4, ProceedInv
<1>. QED  BY <1>2, <1>3

\* What the broker and the network do to the calls under way.
LEMMA WorldInv ==
  ASSUME PublisherInv,
         HangUp \/ (\E state \in {"alarm", "down"} : BrokerFails(state)) \/ BrokerRecovers
  PROVE  PublisherInv'
<1>1. /\ PublisherTypeOK /\ UNCHANGED <<owner, publisher, copies>>
      /\ broker' \in {"up", "alarm", "down"} /\ link' \in {"open", "cut", link}
  BY DEF PublisherInv, HangUp, BrokerFails, BrokerRecovers, PublisherTypeOK
<1>2. /\ upsets' \in 0..Upsets /\ met' \in [Publishers -> SUBSET {"cut", "alarm", "down", "refusal"}]
      /\ \A u \in Publishers : met[u] \subseteq met'[u]
      /\ \A u \in Publishers : Calling(u) /\ broker' # "up" => broker' \in met'[u] \/ broker' = broker
      /\ \A u \in Publishers : Calling(u) /\ link' # link => Broke(u)' /\ link = "open" /\ link' = "cut"
  <2>1. CASE HangUp
    BY <2>1, UpsetIs DEF HangUp, Broke
  <2>2. ASSUME NEW state \in {"alarm", "down"}, BrokerFails(state)
        PROVE  /\ upsets' \in 0..Upsets
               /\ met' \in [Publishers -> SUBSET {"cut", "alarm", "down", "refusal"}]
               /\ \A u \in Publishers : met[u] \subseteq met'[u] /\ (Calling(u) => state \in met'[u])
               /\ broker' = state /\ (link' # link => state = "down" /\ link = "open" /\ link' = "cut")
    BY <2>2, UpsetIs DEF BrokerFails
  <2>3. CASE BrokerRecovers
    BY <1>1, <2>3 DEF BrokerRecovers, calm, PublisherTypeOK
  <2>. QED  BY <2>1, <2>2, <2>3 DEF Broke
<1>3. ASSUME NEW u \in Publishers PROVE Sound(u)'
  <2>1. Sound(u) /\ (publisher[u].step \in Busy => Calling(u))
    BY DEF PublisherInv, Busy, Calling, Endings
  <2>2. Linked(u)'
    BY <1>1, <1>2, <2>1 DEF Sound, Linked, IsAt, OnChannel, Busy, Broke
  <2>3. Caused(u)' /\ Timed(u)' /\ Counted(u)' /\ Concluded(u)'
    BY <1>1, <1>2, <2>1 DEF Sound, Caused, Timed, Counted, Concluded, IsAt, Calling, Broke, Earlier
  <2>. QED  BY <2>2, <2>3 DEF Sound
<1>. QED  BY <1>1, <1>2, <1>3 DEF PublisherInv, PublisherTypeOK

\* Time passes only while the holder of the lock waits for the broker, whose alarm every call
\* under way has met.
LEMMA SecondInv ==
  ASSUME PublisherInv, SecondPasses
  PROVE  PublisherInv'
<1>1. /\ PublisherTypeOK /\ UNCHANGED <<broker, link, owner, copies, upsets, met>>
      /\ \A u \in Publishers : Sound(u) /\ publisher[u] \in Calls
      /\ \A u \in Publishers : Calling(u) => MayWait(u)
      /\ publisher' = [t \in Publishers |->
           IF Calling(t) THEN [publisher[t] EXCEPT !.waited = @ + 1, !.lasted = @ + 1] ELSE publisher[t]]
  BY ThreadKnown DEF SecondPasses, calm
<1>2. \A u \in Publishers : Calling(u) => "alarm" \in met[u]
  <2>1. SUFFICES ASSUME NEW u \in Publishers, Calling(u) PROVE "alarm" \in met[u]
    OBVIOUS
  <2>2. CASE IsAt(u, "held")
    BY <1>1, <2>2 DEF Sound, Caused
  <2>3. CASE owner # NoThread
    <3>1. owner \in Publishers /\ publisher[owner].step \in Busy
      BY <1>1, <2>3 DEF PublisherTypeOK, Sound, Linked
    <3>2. IsAt(owner, "held") /\ broker = "alarm"
      BY <1>1, <3>1 DEF MayWait, Busy, IsAt, Calling, Endings
    <3>. QED  BY <1>1, <2>1, <3>2 DEF Sound, Caused
  <2>. QED  BY <1>1, <2>1, <2>2, <2>3 DEF MayWait
<1>3. ASSUME NEW u \in Publishers
      PROVE  /\ publisher'[u] \in Calls /\ publisher'[u].step = publisher[u].step
             /\ publisher'[u].attempt = publisher[u].attempt
             /\ IF Calling(u) THEN /\ publisher'[u].waited = publisher[u].waited + 1
                                   /\ publisher'[u].lasted = publisher[u].lasted + 1
                ELSE publisher'[u] = publisher[u]
  <2>1. publisher[u] \in Calls
    BY <1>1
  <2>2. CASE Calling(u)
    <3>1. publisher'[u] = [publisher[u] EXCEPT !.waited = @ + 1, !.lasted = @ + 1]
      BY <1>1, <2>2
    <3>2. ASSUME NEW r \in Calls, NEW q, q = [r EXCEPT !.waited = @ + 1, !.lasted = @ + 1]
          PROVE  /\ q \in Calls /\ q.step = r.step /\ q.attempt = r.attempt
                 /\ q.waited = r.waited + 1 /\ q.lasted = r.lasted + 1
      <4> DEFINE a == [r EXCEPT !.waited = r.waited + 1]
      <4>1. a \in Calls /\ a.step = r.step /\ a.attempt = r.attempt /\ a.waited = r.waited + 1 /\ a.lasted = r.lasted
        BY <3>2 DEF Calls
      <4>2. q = [a EXCEPT !.lasted = r.lasted + 1]
        BY <3>2, Zenon
      <4> HIDE DEF a
      <4>. QED  BY <4>1, <4>2 DEF Calls
    <3>. QED  BY <2>1, <2>2, <3>1, <3>2
  <2>3. CASE ~Calling(u)
    <3>1. publisher'[u] = publisher[u]
      BY <1>1, <2>3
    <3>. QED  BY <2>1, <2>3, <3>1
  <2>. QED  BY <2>2, <2>3
<1>4. PublisherTypeOK'
  <2>1. publisher' \in [Publishers -> Calls]
    BY <1>1, <1>3
  <2>. QED  BY <1>1, <2>1 DEF PublisherTypeOK, Calls
<1>5. ASSUME NEW u \in Publishers PROVE Sound(u)'
  <2>1. Sound(u) /\ publisher[u] \in Calls
    BY <1>1
  <2>2. Linked(u)' /\ Counted(u)'
    BY <1>1, <1>3, <2>1 DEF Sound, Linked, Counted, IsAt, Broke
  <2>3. Caused(u)'
    BY <1>1, <1>2, <1>3, <2>1 DEF Sound, Caused, IsAt, Calling, Endings
  <2>4. Timed(u)'
    <3>1. Earlier(u)' = Earlier(u) /\ Earlier(u) \in Nat /\ publisher[u].waited \in Nat /\ publisher[u].lasted \in Nat
      BY <1>3, <2>1, PublisherAssumption DEF Earlier, Calls
    <3>2. CASE ~Calling(u)
      BY <1>3, <2>1, <3>1, <3>2 DEF Sound, Timed, IsAt
    <3>3. CASE Calling(u) /\ IsAt(u, "waiting")
      <4>1. publisher[u].lasted = publisher[u].waited /\ publisher[u].waited < LockTimeout
            /\ publisher'[u].waited = publisher[u].waited + 1 /\ publisher'[u].lasted = publisher[u].lasted + 1
            /\ publisher'[u].step = "waiting"
        BY <1>1, <1>3, <2>1, <3>3 DEF Sound, Timed, IsAt, MayWait
      <4>. QED  BY <3>1, <4>1, PublisherAssumption DEF Timed, IsAt
    <3>4. CASE Calling(u) /\ IsAt(u, "held")
      <4>1. publisher[u].lasted <= Earlier(u) + publisher[u].waited /\ publisher[u].waited < BlockedTimeout
            /\ publisher'[u].waited = publisher[u].waited + 1 /\ publisher'[u].lasted = publisher[u].lasted + 1
            /\ publisher'[u].step = "held"
        BY <1>1, <1>3, <2>1, <3>4 DEF Sound, Timed, IsAt, MayWait
      <4>. QED  BY <3>1, <4>1, PublisherAssumption DEF Timed, IsAt
    <3>. QED  BY <1>1, <3>2, <3>3, <3>4 DEF MayWait
  <2>5. Concluded(u)'
    BY <1>1, <1>3, <2>1 DEF Sound, Concluded, IsAt, Calling, Broke
  <2>. QED  BY <2>2, <2>3, <2>4, <2>5 DEF Sound
<1>. QED  BY <1>4, <1>5 DEF PublisherInv

LEMMA PublisherInvNext == PublisherInv /\ [PublisherNext]_publisherVars => PublisherInv'
<1> SUFFICES ASSUME PublisherInv, [PublisherNext]_publisherVars PROVE PublisherInv'
  OBVIOUS
<1>1. CASE UNCHANGED publisherVars
  BY <1>1 DEF publisherVars, PublisherInv, PublisherTypeOK, Sound, Linked, Caused, Timed, Counted,
     Concluded, IsAt, Calling, Broke, Earlier
<1>. QED  BY <1>1, EnqueueInv, TakeInv, GiveUpInv, ChannelInv, BreaksInv, RefusesInv, SendInv, EndsInv,
     WorldInv, SecondInv DEF PublisherNext

\* An enqueue that says queued has queued; it leaves a second copy only if its connection broke;
\* it fails for what went wrong while it was under way; and it is over before GitHub gives up.
THEOREM EnqueueAnswersTruly == PublisherSpec => []EnqueueFailsForCause
<1>1. PublisherInv => EnqueueFailsForCause
  BY DEF PublisherInv, Sound, Concluded, EnqueueFailsForCause, Broke
<1>. QED  BY <1>1, PublisherInvInit, PublisherInvNext, PTL DEF PublisherSpec

\* ---- asking for failed deliveries again ------------------------------------

Attempt == [at : 0..Horizon, again : BOOLEAN, ok : BOOLEAN]
Delivery == [push : Pushes \cup {0}, again : BOOLEAN, fresh : BOOLEAN,
             stage : {"none", "arriving", "inserting", "enqueuing"}]
PassRecord == [due : SUBSET Pushes, accepted : 0..PassLimit, stage : {"none", "asking", "sending"}]

\* What was repeated, what is being repeated, and who may still repeat a push in this interval.
Repeated(p) == {i \in DOMAIN attempts[p] : attempts[p][i].again}
UnderWay(p) == {s \in Slots : delivery[s].push = p /\ delivery[s].again}
Holders(p) == {w \in Passers : p \in pass[w].due}
ToPass == {w \in Passers : pass[w].stage = "none" /\ w \notin passed}

\* A worker between two passes holds nothing.
Rested == \A w \in Passers :
    /\ pass[w].stage = "none" => pass[w].due = {}
    /\ w \in passed => pass[w].stage = "none"
    /\ pass[w].stage = "sending" => pass[w].due # {} /\ pass[w].accepted < PassLimit
\* What is under way is a push, and one that is not fresh repeats a failure once it inserts.
Carried == \A s \in Slots :
    /\ delivery[s] # Nothing => delivery[s].push \in Pushes /\ delivery[s].stage # "none"
    /\ delivery[s] # Nothing /\ ~delivery[s].fresh => reviews[delivery[s].push] > 0
    /\ delivery[s].stage = "inserting" => delivery[s].fresh \/ delivery[s].push \in relapsed
\* A commit that was reviewed has a run, and one that failed since is remembered.
Remembered == \A p \in Pushes : reviews[p] > 0 =>
    headRun[p] # "none" /\ (headRun[p] = "failed" => p \in relapsed)
\* In one interval each worker repeats a push at most once.
OneEach(p) ==
    Cardinality(UnderWay(p)) + Cardinality(ToPass) + Cardinality(Holders(p)) <= Cardinality(Passers)
WithinLimit(p) ==
    Cardinality(Repeated(p)) + Cardinality(UnderWay(p)) + Cardinality(Holders(p))
        <= MaxRedeliveries + Cardinality(Passers) - 1
RedeliveryInv ==
    /\ RedeliveryTypeOK /\ Rested /\ Carried /\ Remembered
    /\ \A p \in Pushes : OneEach(p) /\ WithinLimit(p)

LEMMA RedeliveryFinite ==
  ASSUME RedeliveryTypeOK, NEW p \in Pushes
  PROVE  /\ IsFiniteSet(Repeated(p)) /\ IsFiniteSet(UnderWay(p)) /\ IsFiniteSet(Holders(p))
         /\ IsFiniteSet(ToPass)
         /\ Cardinality(Repeated(p)) \in Nat /\ Cardinality(UnderWay(p)) \in Nat
         /\ Cardinality(Holders(p)) \in Nat /\ Cardinality(ToPass) \in Nat
         /\ Cardinality(Passers) \in Nat
<1>1. IsFiniteSet(Repeated(p))
  <2>1. attempts[p] \in Seq(Attempt)
    BY DEF RedeliveryTypeOK, Attempt
  <2>2. DOMAIN attempts[p] = 1..Len(attempts[p]) /\ Len(attempts[p]) \in Nat
    BY <2>1
  <2>3. IsFiniteSet(1..Len(attempts[p]))
    BY <2>2, FS_Interval
  <2>. QED  BY <2>2, <2>3, FS_Subset DEF Repeated
<1>2. IsFiniteSet(UnderWay(p))
  BY RedeliveryAssumption, FS_Subset DEF UnderWay
<1>3. IsFiniteSet(Holders(p))
  BY RedeliveryAssumption, FS_Subset DEF Holders
<1>4. IsFiniteSet(ToPass)
  BY RedeliveryAssumption, FS_Subset DEF ToPass
<1>. QED  BY <1>1, <1>2, <1>3, <1>4, RedeliveryAssumption, FS_CardinalityType

LEMMA FirstIsDue ==
  ASSUME RedeliveryTypeOK, NEW w \in Passers, pass[w].due # {}
  PROVE  First(w) \in pass[w].due
<1>. DEFINE D == pass[w].due
            R == OpToRel(<, Nat)
<1>1. D \in SUBSET Nat
  BY RedeliveryAssumption DEF RedeliveryTypeOK
<1>2. \E m \in D : \A q \in D : <<q, m>> \notin R
  <2>1. IsWellFoundedOn(R, Nat)
    BY NatLessThanWellFounded
  <2>. HIDE DEF R
  <2>. QED  BY <1>1, <2>1, WFMin
<1>3. PICK m \in D : \A q \in D : <<q, m>> \notin R
  BY <1>2
<1>4. ASSUME NEW q \in D PROVE m <= q
  <2>1. m \in Nat /\ q \in Nat
    BY <1>1
  <2>2. ~(q < m)
    BY <1>3, <2>1 DEF OpToRel
  <2>. QED  BY <2>1, <2>2
<1>. QED  BY <1>4 DEF First

\* ---- types ----
LEMMA AttemptAdded ==
  ASSUME RedeliveryTypeOK, Carried, NEW s \in Slots, NEW ok \in BOOLEAN, delivery[s] # Nothing,
         DeliveryAnswered(s, ok)
  PROVE  /\ attempts' \in [Pushes -> Seq(Attempt)]
         /\ delivery' \in [Slots -> Delivery]
<1>1. delivery[s].push \in Pushes /\ delivery[s].again \in BOOLEAN
  BY DEF Carried, RedeliveryTypeOK
<1>2. [at |-> tick, again |-> delivery[s].again, ok |-> ok] \in Attempt
  BY <1>1 DEF RedeliveryTypeOK, Attempt
<1>3. attempts[delivery[s].push] \in Seq(Attempt)
  BY <1>1 DEF RedeliveryTypeOK, Attempt
<1>4. Append(attempts[delivery[s].push], [at |-> tick, again |-> delivery[s].again, ok |-> ok]) \in Seq(Attempt)
  BY <1>2, <1>3
<1>5. Nothing \in Delivery
  BY DEF Nothing, Delivery
<1>6. attempts \in [Pushes -> Seq(Attempt)] /\ delivery \in [Slots -> Delivery]
  BY DEF RedeliveryTypeOK, Attempt, Delivery
<1>. QED  BY <1>4, <1>5, <1>6 DEF DeliveryAnswered

\* ---- counting ----
\* An answer moves a repetition from under way to the list.
LEMMA AnswerCounts ==
  ASSUME RedeliveryTypeOK, Carried, NEW s \in Slots, NEW ok \in BOOLEAN, delivery[s] # Nothing,
         DeliveryAnswered(s, ok), NEW p \in Pushes
  PROVE  \E k \in {0, 1} : /\ Cardinality(Repeated(p)') = Cardinality(Repeated(p)) + k
                            /\ Cardinality(UnderWay(p)') = Cardinality(UnderWay(p)) - k
<1>. DEFINE q == delivery[s].push
            a == [at |-> tick, again |-> delivery[s].again, ok |-> ok]
<1>1. q \in Pushes /\ a \in Attempt
  BY DEF Carried, RedeliveryTypeOK, Attempt
<1>2. delivery' = [delivery EXCEPT ![s] = Nothing] /\ delivery \in [Slots -> Delivery]
  BY DEF DeliveryAnswered, RedeliveryTypeOK, Delivery
<1>3. attempts' = [attempts EXCEPT ![q] = Append(@, a)] /\ attempts \in [Pushes -> Seq(Attempt)]
  BY DEF DeliveryAnswered, RedeliveryTypeOK, Attempt
<1>4. CASE p # q \/ ~delivery[s].again
  <2>1. UnderWay(p)' = UnderWay(p)
    BY <1>2, <1>4 DEF UnderWay, Nothing
  <2>2. Repeated(p)' = Repeated(p)
    <3>1. CASE p # q
      BY <1>1, <1>3, <3>1 DEF Repeated
    <3>2. CASE p = q /\ ~delivery[s].again
      <4>. HIDE DEF a
      <4>1. attempts'[p] = Append(attempts[p], a) /\ attempts[p] \in Seq(Attempt) /\ ~a.again
        BY <1>1, <1>3, <3>2 DEF a
      <4>2. DOMAIN attempts[p] = 1..Len(attempts[p])
            /\ DOMAIN Append(attempts[p], a) = 1..(Len(attempts[p]) + 1)
            /\ Append(attempts[p], a)[Len(attempts[p]) + 1] = a
            /\ \A i \in 1..Len(attempts[p]) : Append(attempts[p], a)[i] = attempts[p][i]
            /\ Len(attempts[p]) \in Nat
        BY <4>1, <1>1
      <4>. QED  BY <4>1, <4>2 DEF Repeated
    <3>. QED  BY <3>1, <3>2, <1>4
  <2>3. Cardinality(UnderWay(p)) \in Nat /\ Cardinality(Repeated(p)) \in Nat
    BY RedeliveryFinite
  <2>. QED  BY <2>1, <2>2, <2>3
<1>5. CASE p = q /\ delivery[s].again
  <2>1. UnderWay(p)' = UnderWay(p) \ {s} /\ s \in UnderWay(p)
    BY <1>2, <1>5 DEF UnderWay, Nothing
  <2>. DEFINE n == Len(attempts[p]) + 1
  <2>2. Repeated(p)' = Repeated(p) \cup {n} /\ n \notin Repeated(p)
    <3>. HIDE DEF a
    <3>1. attempts'[p] = Append(attempts[p], a) /\ attempts[p] \in Seq(Attempt) /\ a.again
      BY <1>1, <1>3, <1>5 DEF a
    <3>2. DOMAIN attempts[p] = 1..Len(attempts[p])
          /\ DOMAIN Append(attempts[p], a) = 1..(Len(attempts[p]) + 1)
          /\ Append(attempts[p], a)[Len(attempts[p]) + 1] = a
          /\ \A i \in 1..Len(attempts[p]) : Append(attempts[p], a)[i] = attempts[p][i]
          /\ Len(attempts[p]) \in Nat
      BY <3>1, <1>1
    <3>. QED  BY <3>1, <3>2 DEF Repeated
  <2>3. Cardinality(UnderWay(p)') = Cardinality(UnderWay(p)) - 1
    BY <2>1, RedeliveryFinite, FS_RemoveElement
  <2>4. Cardinality(Repeated(p)') = Cardinality(Repeated(p)) + 1
    BY <2>2, RedeliveryFinite, FS_AddElement
  <2>5. Cardinality(UnderWay(p)) \in Nat /\ Cardinality(Repeated(p)) \in Nat
    BY RedeliveryFinite
  <2>. QED  BY <2>3, <2>4, <2>5
<1>. QED  BY <1>4, <1>5

\* Sending a delivery adds one that is under way, and repeats nothing by itself.
LEMMA SendCounts ==
  ASSUME RedeliveryTypeOK, NEW q \in Pushes, NEW again \in BOOLEAN, Send(q, again), NEW p \in Pushes
  PROVE  /\ p = q /\ again => Cardinality(UnderWay(p)') = Cardinality(UnderWay(p)) + 1
         /\ p # q \/ ~again => Cardinality(UnderWay(p)') = Cardinality(UnderWay(p))
<1>1. PICK s \in Slots :
          /\ delivery[s] = Nothing
          /\ delivery' = [delivery EXCEPT ![s] =
                 [push |-> q, again |-> again, stage |-> "arriving", fresh |-> reviews[q] = 0]]
  BY DEF Send
<1>2. delivery \in [Slots -> Delivery]
  BY DEF RedeliveryTypeOK, Delivery
<1>3. s \notin UnderWay(p)
  BY <1>1 DEF UnderWay, Nothing
<1>4. CASE p = q /\ again
  <2>1. UnderWay(p)' = UnderWay(p) \cup {s}
    BY <1>1, <1>2, <1>4 DEF UnderWay
  <2>. QED  BY <1>3, <1>4, <2>1, RedeliveryFinite, FS_AddElement
<1>5. CASE ~(p = q /\ again)
  <2>1. UnderWay(p)' = UnderWay(p)
    BY <1>1, <1>2, <1>3, <1>5 DEF UnderWay
  <2>. QED  BY <1>5, <2>1, RedeliveryFinite
<1>. QED  BY <1>4, <1>5

\* ---- the parts of the invariant, action by action ----

LEMMA RedeliveryInvInit == RedeliveryInit => RedeliveryInv
<1>. SUFFICES ASSUME RedeliveryInit PROVE RedeliveryInv
  OBVIOUS
<1>1. RedeliveryTypeOK
  BY RedeliveryAssumption DEF RedeliveryInit, RedeliveryTypeOK, Nothing, Resting
<1>2. Rested /\ Carried /\ Remembered
  BY DEF RedeliveryInit, Rested, Carried, Remembered, Nothing, Resting
<1>3. ASSUME NEW p \in Pushes PROVE OneEach(p) /\ WithinLimit(p)
  <2>1. Repeated(p) = {} /\ UnderWay(p) = {} /\ Holders(p) = {}
    BY <1>3 DEF RedeliveryInit, Repeated, UnderWay, Holders, Nothing, Resting
  <2>2. Cardinality(ToPass) <= Cardinality(Passers)
    BY RedeliveryAssumption, FS_Subset DEF ToPass
  <2>. QED  BY <1>1, <2>1, <2>2, FS_EmptySet, RedeliveryFinite, RedeliveryAssumption DEF OneEach, WithinLimit
<1>. QED  BY <1>1, <1>2, <1>3 DEF RedeliveryInv

\* A step of the intake or of a run: no worker's pass moves, and what was repeated and what is
\* being repeated together stay as many.
LEMMA CountsKept ==
  ASSUME RedeliveryInv, UNCHANGED <<pass, passed>>,
         \A p \in Pushes : \E k \in {0, 1} :
             /\ Cardinality(Repeated(p)') = Cardinality(Repeated(p)) + k
             /\ Cardinality(UnderWay(p)') = Cardinality(UnderWay(p)) - k
  PROVE  Rested' /\ \A p \in Pushes : OneEach(p)' /\ WithinLimit(p)'
<1>1. Rested'
  BY DEF RedeliveryInv, Rested
<1>2. ASSUME NEW p \in Pushes PROVE OneEach(p)' /\ WithinLimit(p)'
  <2>1. Holders(p)' = Holders(p) /\ ToPass' = ToPass
    BY DEF Holders, ToPass
  <2>2. /\ Cardinality(Repeated(p)) \in Nat /\ Cardinality(UnderWay(p)) \in Nat
        /\ Cardinality(Holders(p)) \in Nat /\ Cardinality(ToPass) \in Nat
        /\ Cardinality(Passers) \in Nat
    BY RedeliveryFinite DEF RedeliveryInv
  <2>3. PICK k \in {0, 1} : /\ Cardinality(Repeated(p)') = Cardinality(Repeated(p)) + k
                            /\ Cardinality(UnderWay(p)') = Cardinality(UnderWay(p)) - k
    OBVIOUS
  <2>4. OneEach(p) /\ WithinLimit(p)
    BY DEF RedeliveryInv
  <2>. QED  BY <2>1, <2>2, <2>3, <2>4, RedeliveryAssumption DEF OneEach, WithinLimit
<1>. QED  BY <1>1, <1>2

\* An intake only answers or goes on with one delivery.
GoesOn(s, stg) == delivery[s] # Nothing /\ Continue(s, stg) /\ UNCHANGED attempts
Answers(s) == delivery[s] # Nothing /\ \E ok \in BOOLEAN : DeliveryAnswered(s, ok)

LEMMA IntakeCounts ==
  ASSUME RedeliveryInv, NEW s \in Slots, UNCHANGED <<pass, passed>>,
         Answers(s) \/ \E stg \in {"arriving", "inserting", "enqueuing"} : GoesOn(s, stg)
  PROVE  Rested' /\ \A p \in Pushes : OneEach(p)' /\ WithinLimit(p)'
<1>1. ASSUME NEW p \in Pushes
      PROVE  \E k \in {0, 1} : /\ Cardinality(Repeated(p)') = Cardinality(Repeated(p)) + k
                               /\ Cardinality(UnderWay(p)') = Cardinality(UnderWay(p)) - k
  <2>1. CASE Answers(s)
    BY <2>1, AnswerCounts DEF Answers, RedeliveryInv
  <2>2. ASSUME NEW stg \in {"arriving", "inserting", "enqueuing"}, GoesOn(s, stg)
        PROVE  UnderWay(p)' = UnderWay(p) /\ Repeated(p)' = Repeated(p)
    <3>1. delivery \in [Slots -> Delivery]
      BY DEF RedeliveryInv, RedeliveryTypeOK, Delivery
    <3>2. \A t \in Slots : delivery'[t].push = delivery[t].push /\ delivery'[t].again = delivery[t].again
      BY <2>2, <3>1 DEF GoesOn, Continue, Delivery
    <3>. QED  BY <2>2, <3>2 DEF GoesOn, UnderWay, Repeated
  <2>3. Cardinality(UnderWay(p)) \in Nat /\ Cardinality(Repeated(p)) \in Nat
    BY RedeliveryFinite DEF RedeliveryInv
  <2>. QED  BY <2>1, <2>2, <2>3
<1>. QED  BY <1>1, CountsKept

LEMMA IntakeTypes ==
  ASSUME RedeliveryInv, NEW s \in Slots,
         Answers(s) \/ \E stg \in {"arriving", "inserting", "enqueuing"} : GoesOn(s, stg)
  PROVE  attempts' \in [Pushes -> Seq(Attempt)] /\ delivery' \in [Slots -> Delivery]
<1>1. attempts \in [Pushes -> Seq(Attempt)] /\ delivery \in [Slots -> Delivery]
  BY DEF RedeliveryInv, RedeliveryTypeOK, Attempt, Delivery
<1>2. CASE Answers(s)
  <2>1. PICK ok \in BOOLEAN : DeliveryAnswered(s, ok) /\ delivery[s] # Nothing
    BY <1>2 DEF Answers
  <2>2. RedeliveryTypeOK /\ Carried
    BY DEF RedeliveryInv
  <2>. QED  BY <2>1, <2>2, AttemptAdded
<1>3. ASSUME NEW stg \in {"arriving", "inserting", "enqueuing"}, GoesOn(s, stg)
      PROVE  attempts' = attempts /\ delivery' \in [Slots -> Delivery]
  BY <1>1, <1>3 DEF GoesOn, Continue, Delivery
<1>. QED  BY <1>1, <1>2, <1>3

\* Deliveries keep what they carry while reviews and relapses grow, if one that starts to insert may.
LEMMA IntakeCarries ==
  ASSUME RedeliveryInv, NEW s \in Slots, relapsed \subseteq relapsed', UNCHANGED reviews,
         \/ Answers(s)
         \/ \E stg \in {"arriving", "enqueuing"} : GoesOn(s, stg)
         \/ GoesOn(s, "inserting") /\ (delivery[s].fresh \/ delivery[s].push \in relapsed)
  PROVE  Carried'
<1>1. delivery \in [Slots -> Delivery]
  BY DEF RedeliveryInv, RedeliveryTypeOK, Delivery
<1>2. CASE Answers(s)
  <2>1. /\ delivery'[s] = Nothing
        /\ \A t \in Slots : t # s => delivery'[t] = delivery[t]
    BY <1>1, <1>2 DEF Answers, DeliveryAnswered
  <2>2. Nothing.stage # "inserting"
    BY DEF Nothing
  <2>. QED  BY <2>1, <2>2 DEF RedeliveryInv, Carried
<1>3. ASSUME NEW stg \in {"arriving", "inserting", "enqueuing"}, GoesOn(s, stg),
             stg = "inserting" => delivery[s].fresh \/ delivery[s].push \in relapsed
      PROVE  Carried'
  <2>1. \A t \in Slots : /\ delivery'[t].push = delivery[t].push /\ delivery'[t].fresh = delivery[t].fresh
                         /\ t # s => delivery'[t] = delivery[t]
    BY <1>1, <1>3 DEF GoesOn, Continue, Delivery
  <2>2. delivery'[s].stage = stg /\ delivery[s] # Nothing
    BY <1>1, <1>3 DEF GoesOn, Continue, Delivery
  <2>3. delivery'[s] # Nothing
    BY <2>2 DEF Nothing
  <2>. QED  BY <1>3, <2>1, <2>2, <2>3 DEF RedeliveryInv, Carried
<1>. QED  BY <1>2, <1>3

\* What an intake and the end of a run do besides.
RunsTyped ==
    /\ headRun \in [Pushes -> {"none", "inserted", "queued", "completed", "failed"}]
    /\ reviews \in [Pushes -> Nat] /\ relapsed \subseteq Pushes

LEMMA FailsRemembers ==
  ASSUME RedeliveryInv, NEW p \in Pushes, Fails(p), UNCHANGED reviews
  PROVE  RunsTyped' /\ Remembered' /\ relapsed \subseteq relapsed'
BY DEF RedeliveryInv, RedeliveryTypeOK, RunsTyped, Fails, Remembered

LEMMA IntakeActs ==
  ASSUME RedeliveryInv, NEW s \in Slots,
         Intake(s) \/ InsertRun(s) \/ EnqueueRun(s) \/ EnqueueFails(s) \/ IntakeFails(s)
  PROVE  /\ Answers(s) \/ \E stg \in {"arriving", "inserting", "enqueuing"} : GoesOn(s, stg)
         /\ \/ Answers(s)
            \/ \E stg \in {"arriving", "enqueuing"} : GoesOn(s, stg)
            \/ GoesOn(s, "inserting") /\ (delivery[s].fresh \/ delivery[s].push \in relapsed)
         /\ RunsTyped' /\ Remembered' /\ relapsed \subseteq relapsed'
         /\ faults' \in 0..Faults /\ shadowed' \subseteq Pushes
         /\ UNCHANGED <<headPush, reviews, pass, knownStale, passed, tick>>
<1>. DEFINE p == delivery[s].push
<1>1. delivery[s].stage # "none" => delivery[s] # Nothing
  BY DEF Nothing
<1>2. delivery[s] # Nothing => p \in Pushes
  BY DEF RedeliveryInv, Carried
<1>3. RunsTyped /\ Remembered /\ faults \in 0..Faults /\ Faults \in Nat /\ shadowed \subseteq Pushes
  BY RedeliveryAssumption DEF RedeliveryInv, RedeliveryTypeOK, RunsTyped
<1>4. Fault => faults' \in 0..Faults
  BY <1>3 DEF Fault
<1>5. AnswerDelivery(s) /\ delivery[s] # Nothing => Answers(s) /\ faults' \in 0..Faults
  BY <1>3, <1>4 DEF AnswerDelivery, Answers
<1>6. CASE Intake(s)
  <2>1. UNCHANGED <<headPush, headRun, reviews, pass, knownStale, passed, tick, shadowed, relapsed>>
    BY <1>6 DEF Intake, passing
  <2>2. RunsTyped' /\ Remembered'
    BY <1>3, <2>1 DEF RunsTyped, Remembered
  <2>3. Answers(s) \/ (GoesOn(s, "inserting") /\ ~Active(p) /\ ~Reviewed(p))
    BY <1>1, <1>5, <1>6 DEF Intake, GoesOn
  <2>4. faults' \in 0..Faults
    BY <1>1, <1>3, <1>5, <1>6 DEF Intake
  <2>5. GoesOn(s, "inserting") /\ ~Active(p) /\ ~Reviewed(p) =>
            delivery[s].fresh \/ delivery[s].push \in relapsed
    <3>. SUFFICES ASSUME delivery[s] # Nothing, ~Active(p), ~Reviewed(p), ~delivery[s].fresh
                  PROVE  p \in relapsed
      BY DEF GoesOn
    <3>1. reviews[p] > 0 /\ p \in Pushes
      BY DEF RedeliveryInv, Carried
    <3>2. headRun[p] = "failed"
      BY <1>3, <3>1 DEF RunsTyped, Active, Reviewed, Remembered
    <3>. QED  BY <1>3, <3>1, <3>2 DEF Remembered
  <2>. QED  BY <1>3, <2>1, <2>2, <2>3, <2>4, <2>5
<1>7. CASE InsertRun(s)
  <2>1. UNCHANGED <<headPush, reviews, pass, knownStale, passed, tick, shadowed, relapsed>>
    BY <1>7 DEF InsertRun, passing
  <2>2. RunsTyped' /\ Remembered'
    BY <1>1, <1>2, <1>3, <1>7, <2>1 DEF InsertRun, RunsTyped, Remembered
  <2>3. Answers(s) \/ GoesOn(s, "enqueuing")
    BY <1>1, <1>5, <1>7 DEF InsertRun, GoesOn
  <2>4. faults' \in 0..Faults
    BY <1>1, <1>3, <1>5, <1>7 DEF InsertRun
  <2>. QED  BY <1>3, <2>1, <2>2, <2>3, <2>4
<1>8. CASE EnqueueRun(s)
  <2>1. UNCHANGED <<headPush, reviews, pass, knownStale, passed, tick, shadowed, relapsed>>
    BY <1>8 DEF EnqueueRun, passing
  <2>2. RunsTyped' /\ Remembered'
    BY <1>1, <1>2, <1>3, <1>8, <2>1 DEF EnqueueRun, RunsTyped, Remembered
  <2>. QED  BY <1>1, <1>3, <1>5, <1>8, <2>1, <2>2 DEF EnqueueRun
<1>9. CASE EnqueueFails(s)
  <2>1. delivery[s] # Nothing /\ p \in Pushes
    BY <1>1, <1>2, <1>9 DEF EnqueueFails
  <2>2. UNCHANGED <<headPush, reviews, pass, knownStale, passed, tick>> /\ Fails(p) /\ Fault
        /\ DeliveryAnswered(s, FALSE)
    BY <1>9 DEF EnqueueFails, passing
  <2>3. shadowed' \subseteq Pushes
    BY <1>3, <1>9, <2>1 DEF EnqueueFails
  <2>. QED  BY <1>4, <2>1, <2>2, <2>3, FailsRemembers DEF Answers
<1>10. CASE IntakeFails(s)
  <2>1. UNCHANGED <<headPush, headRun, reviews, pass, knownStale, passed, tick, shadowed, relapsed>>
    BY <1>10 DEF IntakeFails, passing
  <2>2. RunsTyped' /\ Remembered'
    BY <1>3, <2>1 DEF RunsTyped, Remembered
  <2>. QED  BY <1>3, <1>4, <1>10, <2>1, <2>2 DEF IntakeFails, Answers
<1>. QED  BY <1>6, <1>7, <1>8, <1>9, <1>10

LEMMA IntakeInv ==
  ASSUME RedeliveryInv, NEW s \in Slots,
         Intake(s) \/ InsertRun(s) \/ EnqueueRun(s) \/ EnqueueFails(s) \/ IntakeFails(s)
  PROVE  RedeliveryInv'
<1>1. Rested' /\ \A p \in Pushes : OneEach(p)' /\ WithinLimit(p)'
  BY IntakeActs, IntakeCounts
<1>2. Carried'
  BY IntakeActs, IntakeCarries
<1>3. RedeliveryTypeOK'
  <2>1. attempts' \in [Pushes -> Seq(Attempt)] /\ delivery' \in [Slots -> Delivery]
    BY IntakeActs, IntakeTypes
  <2>. QED  BY <2>1, IntakeActs DEF RedeliveryInv, RedeliveryTypeOK, RunsTyped, Attempt, Delivery
<1>. QED  BY <1>1, <1>2, <1>3, IntakeActs DEF RedeliveryInv

LEMMA RunEndsInv ==
  ASSUME RedeliveryInv, NEW p \in Pushes, RunEnds(p)
  PROVE  RedeliveryInv'
<1>1. UNCHANGED <<attempts, headPush, delivery, pass, knownStale, passed, tick, faults, shadowed>>
  BY DEF RunEnds, github, passing
<1>2. RunsTyped' /\ Remembered' /\ relapsed \subseteq relapsed'
  <2>1. CASE Fails(p) /\ UNCHANGED reviews
    BY <2>1, FailsRemembers
  <2>2. CASE headRun' = [headRun EXCEPT ![p] = "completed"] /\ UNCHANGED relapsed
             /\ reviews' = [reviews EXCEPT ![p] = @ + 1]
    BY <2>2 DEF RedeliveryInv, RedeliveryTypeOK, RunsTyped, Remembered
  <2>. QED  BY <2>1, <2>2 DEF RunEnds
<1>3. \A q \in Pushes : reviews[q] > 0 => reviews'[q] > 0
  <2>1. ASSUME NEW q \in Pushes PROVE reviews[q] > 0 => reviews'[q] > 0
    <3>1. reviews[q] \in Nat /\ (reviews'[q] = reviews[q] \/ reviews'[q] = reviews[q] + 1)
      BY DEF RedeliveryInv, RedeliveryTypeOK, RunEnds
    <3>. QED  BY <3>1
  <2>. QED  BY <2>1
<1>4. RedeliveryTypeOK'
  BY <1>1, <1>2 DEF RedeliveryInv, RedeliveryTypeOK, RunsTyped
<1>5. Carried'
  BY <1>1, <1>2, <1>3 DEF RedeliveryInv, Carried
<1>6. Rested' /\ \A q \in Pushes : OneEach(q)' /\ WithinLimit(q)'
  <2>1. Rested'
    BY <1>1 DEF RedeliveryInv, Rested
  <2>2. ASSUME NEW q \in Pushes PROVE OneEach(q)' /\ WithinLimit(q)'
    <3>1. Repeated(q)' = Repeated(q) /\ UnderWay(q)' = UnderWay(q) /\ Holders(q)' = Holders(q) /\ ToPass' = ToPass
      BY <1>1 DEF Repeated, UnderWay, Holders, ToPass
    <3>. QED  BY <3>1 DEF RedeliveryInv, OneEach, WithinLimit
  <2>. QED  BY <2>1, <2>2
<1>. QED  BY <1>2, <1>4, <1>5, <1>6 DEF RedeliveryInv

LEMMA SendKeeps ==
  ASSUME RedeliveryTypeOK, Carried, NEW q \in Pushes, NEW again \in BOOLEAN, Send(q, again),
         UNCHANGED <<reviews, relapsed>>
  PROVE  delivery' \in [Slots -> Delivery] /\ Carried'
<1>. DEFINE d == [push |-> q, again |-> again, stage |-> "arriving", fresh |-> reviews[q] = 0]
<1>1. PICK s \in Slots : delivery' = [delivery EXCEPT ![s] = d]
  BY DEF Send
<1>2. delivery \in [Slots -> Delivery] /\ reviews[q] \in Nat
  BY DEF RedeliveryTypeOK, Delivery
<1>3. d \in Delivery /\ d.push = q /\ d.stage = "arriving" /\ (~d.fresh => reviews[q] > 0)
  <2>1. (reviews[q] = 0) \in BOOLEAN /\ (reviews[q] # 0 => reviews[q] > 0)
    BY <1>2
  <2>2. \A f \in BOOLEAN : [push |-> q, again |-> again, stage |-> "arriving", fresh |-> f] \in Delivery
    BY DEF Delivery
  <2>3. d \in Delivery
    BY <2>1, <2>2, Zenon
  <2>4. d.push = q /\ d.stage = "arriving" /\ (~d.fresh => reviews[q] > 0)
    BY <2>1
  <2>. QED  BY <2>3, <2>4
<1>. HIDE DEF d
<1>4. /\ delivery'[s] = d
      /\ \A t \in Slots : t # s => delivery'[t] = delivery[t]
  BY <1>1, <1>2
<1>5. delivery' \in [Slots -> Delivery]
  BY <1>1, <1>2, <1>3
<1>. QED  BY <1>3, <1>4, <1>5 DEF Carried

LEMMA PushInv ==
  ASSUME RedeliveryInv, NEW p \in Pushes, Push(p)
  PROVE  RedeliveryInv'
<1>1. UNCHANGED <<attempts, headRun, reviews, pass, knownStale, passed, tick, faults, shadowed, relapsed>>
  BY DEF Push, passing
<1>2. Send(p, FALSE) /\ headPush' = p
  BY DEF Push
<1>3. RedeliveryTypeOK' /\ Carried'
  BY <1>1, <1>2, SendKeeps DEF RedeliveryInv, RedeliveryTypeOK, Delivery
<1>4. Rested' /\ Remembered'
  BY <1>1 DEF RedeliveryInv, Rested, Remembered
<1>5. ASSUME NEW q \in Pushes PROVE OneEach(q)' /\ WithinLimit(q)'
  <2>1. Repeated(q)' = Repeated(q) /\ Holders(q)' = Holders(q) /\ ToPass' = ToPass
    BY <1>1 DEF Repeated, Holders, ToPass
  <2>2. Cardinality(UnderWay(q)') = Cardinality(UnderWay(q))
    <3>1. ~FALSE /\ FALSE \in BOOLEAN
      OBVIOUS
    <3>. QED  BY <1>2, <3>1, SendCounts DEF RedeliveryInv
  <2>. QED  BY <2>1, <2>2 DEF RedeliveryInv, OneEach, WithinLimit
<1>. QED  BY <1>3, <1>4, <1>5 DEF RedeliveryInv

\* A worker that begins its pass takes up no push that has no attempt left.
LEMMA PassBeginsInv ==
  ASSUME RedeliveryInv, NEW w \in Passers, PassBegins(w)
  PROVE  RedeliveryInv'
<1>1. UNCHANGED <<attempts, headPush, delivery, headRun, reviews, passed, tick, faults, shadowed, relapsed>>
  BY DEF PassBegins, github
<1>2. /\ pass[w].stage = "none" /\ w \notin passed /\ pass \in [Passers -> PassRecord]
      /\ pass' = [pass EXCEPT ![w] = [due |-> Due \ knownStale[w], accepted |-> 0, stage |-> "asking"]]
      /\ knownStale' = [knownStale EXCEPT ![w] = @ \cap Due] /\ knownStale \in [Passers -> SUBSET Pushes]
  BY DEF PassBegins, RedeliveryInv, RedeliveryTypeOK, PassRecord
<1>3. Due \in SUBSET Pushes /\ 0 \in 0..PassLimit
  BY RedeliveryAssumption DEF Due
<1>4. pass' \in [Passers -> PassRecord] /\ knownStale' \in [Passers -> SUBSET Pushes]
  BY <1>2, <1>3 DEF PassRecord
<1>5. RedeliveryTypeOK'
  BY <1>1, <1>4 DEF RedeliveryInv, RedeliveryTypeOK, PassRecord
<1>6. Rested' /\ Carried' /\ Remembered'
  BY <1>1, <1>2 DEF RedeliveryInv, Rested, Carried, Remembered
<1>7. ASSUME NEW p \in Pushes PROVE OneEach(p)' /\ WithinLimit(p)'
  <2>1. Repeated(p)' = Repeated(p) /\ UnderWay(p)' = UnderWay(p)
    BY <1>1 DEF Repeated, UnderWay
  <2>2. ToPass' = ToPass \ {w} /\ w \in ToPass
    BY <1>1, <1>2 DEF ToPass
  <2>3. Cardinality(ToPass') = Cardinality(ToPass) - 1 /\ Cardinality(ToPass') \in Nat
    BY <2>2, RedeliveryFinite, FS_RemoveElement, FS_CardinalityType DEF RedeliveryInv
  <2>4. /\ Cardinality(Repeated(p)) \in Nat /\ Cardinality(UnderWay(p)) \in Nat
        /\ Cardinality(Holders(p)) \in Nat /\ Cardinality(ToPass) \in Nat
        /\ Cardinality(Passers) \in Nat /\ MaxRedeliveries \in Nat
    BY RedeliveryFinite, RedeliveryAssumption DEF RedeliveryInv
  <2>5. OneEach(p) /\ WithinLimit(p)
    BY DEF RedeliveryInv
  <2>6. w \notin Holders(p)
    BY <1>2 DEF RedeliveryInv, Rested, Holders
  <2>7. CASE p \in Due \ knownStale[w]
    <3>1. Holders(p)' = Holders(p) \cup {w}
      BY <1>2, <2>7 DEF Holders
    <3>2. Cardinality(Holders(p)') = Cardinality(Holders(p)) + 1
      BY <2>6, <3>1, RedeliveryFinite, FS_AddElement DEF RedeliveryInv
    <3>3. Cardinality(Repeated(p)) < MaxRedeliveries
      BY <2>4, <2>7 DEF Due, Exhausted, Again, Repeated
    <3>. QED  BY <2>1, <2>3, <2>4, <2>5, <3>2, <3>3 DEF OneEach, WithinLimit
  <2>8. CASE p \notin Due \ knownStale[w]
    <3>1. Holders(p)' = Holders(p)
      BY <1>2, <2>6, <2>8 DEF Holders
    <3>. QED  BY <2>1, <2>3, <2>4, <2>5, <3>1 DEF OneEach, WithinLimit
  <2>. QED  BY <2>7, <2>8
<1>. QED  BY <1>5, <1>6, <1>7 DEF RedeliveryInv

\* A worker that asks, ends or gives up holds no more than before.
LEMMA PassShrinks ==
  ASSUME RedeliveryInv, NEW w \in Passers, NEW r \in PassRecord,
         UNCHANGED <<attempts, headPush, delivery, headRun, reviews, tick, shadowed, relapsed>>,
         pass' = [pass EXCEPT ![w] = r], r.due \subseteq pass[w].due,
         r.stage = "none" => r.due = {} /\ passed' = passed \cup {w},
         r.stage # "none" => passed' = passed /\ w \notin passed,
         r.stage = "sending" => r.due # {} /\ r.accepted < PassLimit,
         knownStale' \in [Passers -> SUBSET Pushes], faults' \in 0..Faults
  PROVE  RedeliveryInv'
<1>1. pass \in [Passers -> PassRecord] /\ passed \subseteq Passers
  BY DEF RedeliveryInv, RedeliveryTypeOK, PassRecord
<1>2. pass' \in [Passers -> PassRecord] /\ passed' \subseteq Passers
  BY <1>1 DEF PassRecord
<1>3. RedeliveryTypeOK'
  BY <1>2 DEF RedeliveryInv, RedeliveryTypeOK, PassRecord
<1>4. Carried' /\ Remembered'
  BY DEF RedeliveryInv, Carried, Remembered
<1>5. Rested'
  BY <1>1 DEF RedeliveryInv, Rested, PassRecord
<1>6. ASSUME NEW p \in Pushes PROVE OneEach(p)' /\ WithinLimit(p)'
  <2>1. Repeated(p)' = Repeated(p) /\ UnderWay(p)' = UnderWay(p)
    BY DEF Repeated, UnderWay
  <2>2. Holders(p)' \subseteq Holders(p) /\ ToPass' \subseteq ToPass
    BY <1>1 DEF Holders, ToPass
  <2>3. /\ Cardinality(Holders(p)') <= Cardinality(Holders(p)) /\ Cardinality(Holders(p)') \in Nat
        /\ Cardinality(ToPass') <= Cardinality(ToPass) /\ Cardinality(ToPass') \in Nat
    BY <2>2, RedeliveryFinite, FS_Subset, FS_CardinalityType DEF RedeliveryInv
  <2>4. /\ Cardinality(Repeated(p)) \in Nat /\ Cardinality(UnderWay(p)) \in Nat
        /\ Cardinality(Holders(p)) \in Nat /\ Cardinality(ToPass) \in Nat
        /\ Cardinality(Passers) \in Nat /\ MaxRedeliveries \in Nat
    BY RedeliveryFinite, RedeliveryAssumption DEF RedeliveryInv
  <2>. QED  BY <2>1, <2>3, <2>4 DEF RedeliveryInv, OneEach, WithinLimit
<1>. QED  BY <1>3, <1>4, <1>5, <1>6 DEF RedeliveryInv

LEMMA AskInv ==
  ASSUME RedeliveryInv, NEW w \in Passers, AskWhetherCurrent(w)
  PROVE  RedeliveryInv'
<1>1. /\ UNCHANGED <<attempts, headPush, delivery, headRun, reviews, passed, tick, faults, shadowed, relapsed>>
      /\ pass[w].stage = "asking" /\ pass[w].due # {} /\ pass[w].accepted < PassLimit
  BY DEF AskWhetherCurrent, github
<1>2. pass[w] \in PassRecord /\ pass \in [Passers -> PassRecord] /\ First(w) \in pass[w].due
  BY <1>1, FirstIsDue DEF RedeliveryInv, RedeliveryTypeOK, PassRecord
<1>3. w \notin passed /\ faults \in 0..Faults /\ knownStale \in [Passers -> SUBSET Pushes]
  BY <1>1 DEF RedeliveryInv, RedeliveryTypeOK, Rested
<1>4. CASE pass' = [pass EXCEPT ![w].stage = "sending"] /\ UNCHANGED knownStale
  <2>. DEFINE r == [pass[w] EXCEPT !.stage = "sending"]
  <2>1. r \in PassRecord /\ r.due = pass[w].due /\ r.stage = "sending" /\ r.accepted = pass[w].accepted
    BY <1>2 DEF PassRecord
  <2>2. pass' = [pass EXCEPT ![w] = r]
    BY <1>2, <1>4
  <2>. HIDE DEF r
  <2>. QED  BY <1>1, <1>3, <1>4, <2>1, <2>2, PassShrinks
<1>5. CASE pass' = Others(w) /\ knownStale' = [knownStale EXCEPT ![w] = @ \cup {First(w)}]
  <2>. DEFINE r == [[pass[w] EXCEPT !.due = @ \ {First(w)}] EXCEPT !.stage = "asking"]
  <2>1. r \in PassRecord /\ r.due \subseteq pass[w].due /\ r.stage = "asking"
    BY <1>2 DEF PassRecord
  <2>2. pass' = [pass EXCEPT ![w] = r]
    BY <1>2, <1>5 DEF Others
  <2>3. knownStale' \in [Passers -> SUBSET Pushes]
    BY <1>2, <1>3, <1>5 DEF PassRecord
  <2>. HIDE DEF r
  <2>. QED  BY <1>1, <1>3, <2>1, <2>2, <2>3, PassShrinks
<1>. QED  BY <1>4, <1>5 DEF AskWhetherCurrent

LEMMA EndsPass ==
  ASSUME RedeliveryInv, NEW w \in Passers, PassEnds(w) \/ PassAborts(w)
  PROVE  RedeliveryInv'
<1>1. /\ UNCHANGED <<attempts, headPush, delivery, headRun, reviews, knownStale, tick, shadowed, relapsed>>
      /\ pass' = [pass EXCEPT ![w] = Resting] /\ passed' = passed \cup {w}
  BY DEF PassEnds, PassAborts, Ended, github
<1>2. faults' \in 0..Faults /\ knownStale \in [Passers -> SUBSET Pushes]
  BY RedeliveryAssumption DEF PassEnds, PassAborts, Fault, RedeliveryInv, RedeliveryTypeOK
<1>3. Resting \in PassRecord /\ Resting.due = {} /\ Resting.stage = "none"
  BY RedeliveryAssumption DEF Resting, PassRecord
<1>. QED  BY <1>1, <1>2, <1>3, PassShrinks

\* What a worker sends again it no longer holds.
LEMMA RedeliverInv ==
  ASSUME RedeliveryInv, NEW w \in Passers, Redeliver(w)
  PROVE  RedeliveryInv'
<1>. DEFINE q == First(w)
<1>1. /\ UNCHANGED <<attempts, headPush, headRun, reviews, knownStale, passed, tick, faults, shadowed, relapsed>>
      /\ Send(q, TRUE) /\ pass[w].stage = "sending"
  BY DEF Redeliver, github
<1>2. pass[w] \in PassRecord /\ pass \in [Passers -> PassRecord] /\ pass[w].due # {}
      /\ pass[w].accepted < PassLimit
  BY <1>1 DEF RedeliveryInv, RedeliveryTypeOK, PassRecord, Rested
<1>3. q \in pass[w].due /\ q \in Pushes
  BY <1>2, FirstIsDue DEF RedeliveryInv, PassRecord
<1>. DEFINE d == [pass[w] EXCEPT !.due = @ \ {q}]
            a == [d EXCEPT !.stage = "asking"]
            r == [a EXCEPT !.accepted = @ + 1]
<1>4. /\ r \in PassRecord /\ r.due = pass[w].due \ {q} /\ r.stage = "asking"
  <2>1. /\ d \in PassRecord /\ d.due = pass[w].due \ {q} /\ d.accepted = pass[w].accepted
        /\ a \in PassRecord /\ a.due = d.due /\ a.stage = "asking" /\ a.accepted = d.accepted
    BY <1>2 DEF PassRecord
  <2>2. a.accepted + 1 \in 0..PassLimit
    BY <1>2, <2>1, RedeliveryAssumption DEF PassRecord
  <2>. HIDE DEF a
  <2>. QED  BY <2>1, <2>2 DEF PassRecord
<1>5. pass' = [pass EXCEPT ![w] = r]
  BY <1>2 DEF Redeliver, Others
<1>. HIDE DEF r, a, d, q
<1>6. delivery' \in [Slots -> Delivery] /\ Carried'
  BY <1>1, <1>3, SendKeeps DEF RedeliveryInv
<1>7. RedeliveryTypeOK'
  <2>1. pass' \in [Passers -> PassRecord]
    BY <1>2, <1>4, <1>5
  <2>. QED  BY <1>1, <1>6, <2>1 DEF RedeliveryInv, RedeliveryTypeOK, PassRecord, Delivery
<1>8. Rested' /\ Remembered'
  BY <1>1, <1>2, <1>4, <1>5 DEF RedeliveryInv, Rested, Remembered
<1>9. ASSUME NEW p \in Pushes PROVE OneEach(p)' /\ WithinLimit(p)'
  <2>1. Repeated(p)' = Repeated(p) /\ ToPass' = ToPass
    BY <1>1, <1>2, <1>4, <1>5 DEF Repeated, ToPass
  <2>2. OneEach(p) /\ WithinLimit(p) /\ RedeliveryTypeOK
    BY DEF RedeliveryInv
  <2>3. /\ Cardinality(Repeated(p)) \in Nat /\ Cardinality(UnderWay(p)) \in Nat
        /\ Cardinality(Holders(p)) \in Nat /\ Cardinality(ToPass) \in Nat
        /\ Cardinality(Passers) \in Nat /\ MaxRedeliveries \in Nat
    BY <2>2, RedeliveryFinite, RedeliveryAssumption
  <2>4. CASE p = q
    <3>1. Holders(p)' = Holders(p) \ {w} /\ w \in Holders(p)
      BY <1>2, <1>3, <1>4, <1>5, <2>4 DEF Holders
    <3>2. Cardinality(Holders(p)') = Cardinality(Holders(p)) - 1
      BY <2>2, <3>1, RedeliveryFinite, FS_RemoveElement
    <3>3. Cardinality(UnderWay(p)') = Cardinality(UnderWay(p)) + 1
      BY <1>1, <1>3, <2>2, <2>4, SendCounts
    <3>. QED  BY <2>1, <2>2, <2>3, <3>2, <3>3 DEF OneEach, WithinLimit
  <2>5. CASE p # q
    <3>1. Holders(p)' = Holders(p)
      BY <1>2, <1>4, <1>5, <2>5 DEF Holders
    <3>2. Cardinality(UnderWay(p)') = Cardinality(UnderWay(p))
      BY <1>1, <1>3, <2>2, <2>5, SendCounts
    <3>. QED  BY <2>1, <2>2, <3>1, <3>2 DEF OneEach, WithinLimit
  <2>. QED  BY <2>4, <2>5
<1>. QED  BY <1>6, <1>7, <1>8, <1>9 DEF RedeliveryInv

\* The next interval begins when nothing is under way and nobody holds anything.
LEMMA RedeliveryTick ==
  ASSUME RedeliveryInv, Tick
  PROVE  RedeliveryInv'
<1>1. /\ UNCHANGED <<attempts, headPush, delivery, headRun, reviews, pass, knownStale, faults, shadowed, relapsed>>
      /\ passed = Passers /\ passed' = {} /\ tick' = tick + 1 /\ tick < Horizon
      /\ \A s \in Slots : delivery[s] = Nothing
  BY DEF Tick, github
<1>2. RedeliveryTypeOK'
  <2>1. tick' \in 0..Horizon /\ passed' \subseteq Passers
    BY <1>1, RedeliveryAssumption DEF RedeliveryInv, RedeliveryTypeOK
  <2>. QED  BY <1>1, <2>1 DEF RedeliveryInv, RedeliveryTypeOK
<1>3. Rested' /\ Carried' /\ Remembered'
  BY <1>1 DEF RedeliveryInv, Rested, Carried, Remembered
<1>4. ASSUME NEW p \in Pushes PROVE OneEach(p)' /\ WithinLimit(p)'
  <2>1. Repeated(p)' = Repeated(p) /\ UnderWay(p)' = UnderWay(p) /\ Holders(p)' = Holders(p)
    BY <1>1 DEF Repeated, UnderWay, Holders
  <2>2. UnderWay(p) = {} /\ Holders(p) = {}
    BY <1>1 DEF UnderWay, Holders, Nothing, RedeliveryInv, Rested
  <2>3. Cardinality(ToPass') <= Cardinality(Passers) /\ Cardinality(ToPass') \in Nat
    <3>1. ToPass' \in SUBSET Passers
      BY DEF ToPass
    <3>. QED  BY <3>1, RedeliveryAssumption, FS_Subset, FS_CardinalityType
  <2>4. Cardinality(Passers) \in Nat
    BY RedeliveryAssumption, FS_CardinalityType
  <2>5. Cardinality(UnderWay(p)) = 0 /\ Cardinality(Holders(p)) = 0
    BY <2>2, FS_EmptySet
  <2>6. OneEach(p)'
    BY <2>1, <2>3, <2>4, <2>5 DEF OneEach
  <2>7. WithinLimit(p)'
    BY <2>1 DEF RedeliveryInv, WithinLimit
  <2>. QED  BY <2>6, <2>7
<1>. QED  BY <1>2, <1>3, <1>4 DEF RedeliveryInv

LEMMA RedeliveryInvNext == RedeliveryInv /\ [RedeliveryNext]_redeliveryVars => RedeliveryInv'
<1>. SUFFICES ASSUME RedeliveryInv, [RedeliveryNext]_redeliveryVars PROVE RedeliveryInv'
  OBVIOUS
<1>1. CASE UNCHANGED redeliveryVars
  <2>1. RedeliveryTypeOK' /\ Rested' /\ Carried' /\ Remembered'
    BY <1>1 DEF redeliveryVars, RedeliveryInv, RedeliveryTypeOK, Rested, Carried, Remembered
  <2>2. ASSUME NEW p \in Pushes PROVE OneEach(p)' /\ WithinLimit(p)'
    <3>1. Repeated(p)' = Repeated(p) /\ UnderWay(p)' = UnderWay(p) /\ Holders(p)' = Holders(p) /\ ToPass' = ToPass
      BY <1>1 DEF redeliveryVars, Repeated, UnderWay, Holders, ToPass
    <3>. QED  BY <3>1 DEF RedeliveryInv, OneEach, WithinLimit
  <2>. QED  BY <2>1, <2>2 DEF RedeliveryInv
<1>. QED  BY <1>1, PushInv, RunEndsInv, IntakeInv, PassBeginsInv, AskInv, RedeliverInv, EndsPass,
     RedeliveryTick DEF RedeliveryNext

LEMMA RedeliveryInvHolds == RedeliverySpec => []RedeliveryInv
<1>. QED  BY RedeliveryInvInit, RedeliveryInvNext, PTL DEF RedeliverySpec

\* ---- theorems ----

\* Workers that list the deliveries before each other's repeats are made exceed the limit
\* of attempts by at most one each (redeliver_failed_webhooks holds no lock).
THEOREM RepeatsAreBounded == RedeliverySpec => []AttemptsAreBounded
<1>1. RedeliveryInv => AttemptsAreBounded
  <2>. SUFFICES ASSUME RedeliveryInv, NEW p \in Pushes
                PROVE  RepeatsOf(p) <= MaxRedeliveries + Cardinality(Passers) - 1
    BY DEF AttemptsAreBounded
  <2>1. RepeatsOf(p) = Cardinality(Repeated(p)) + Cardinality(UnderWay(p))
    BY DEF RepeatsOf, Repeated, UnderWay
  <2>2. WithinLimit(p)
    BY DEF RedeliveryInv
  <2>. QED  BY <2>1, <2>2, RedeliveryFinite, RedeliveryAssumption DEF WithinLimit, RedeliveryInv
<1>. QED  BY <1>1, RedeliveryInvHolds, PTL

\* A commit that has been reviewed is reviewed again only by a delivery that was under way
\* before, or after a run on it failed (_duplicate_of, the unique index).
THEOREM RepeatStartsNoSecondReview == RedeliverySpec => ReviewedOnce
<1>. DEFINE Enters(s) == delivery[s].stage = "inserting" /\ delivery'[s].stage = "enqueuing"
            Due_(s) == delivery[s].fresh \/ delivery[s].push \in relapsed
<1>1. RedeliveryInv => [\A s \in Slots : Enters(s) => Due_(s)]_redeliveryVars
  BY DEF RedeliveryInv, Carried
<1>. QED  BY <1>1, RedeliveryInvHolds, PTL DEF ReviewedOnce

\* ---- making up for a push ----------------------------------------------------

\* The pauses before the k-th repetition and the ones before it, added up.
Pauses(k) == Backoff * (2^k - 1)
\* The pauses of all the attempts fit into the window, there is a worker, and a pass may
\* send something (the defaults of config.py: five pauses from five minutes on, three days).
WindowSuffices ==
    Passers # {} /\ PassLimit > 0 /\ Backoff > 0 /\ Pauses(MaxRedeliveries) <= Window

\* A push that is still the head and that no attempt has delivered.
Unheard(p) == /\ p = headPush /\ p \notin Ignored /\ attempts[p] # <<>>
           /\ \A i \in DOMAIN attempts[p] : ~attempts[p][i].ok
OnTheWay(p) == \E s \in Slots : delivery[s] # Nothing /\ delivery[s].push = p
Spent == Faults - faults
Count(p) == Len(attempts[p])
FirstAt(p) == attempts[p][1].at
LastAt(p) == attempts[p][Count(p)].at
\* The pause is over.
Ripe(p) == tick - LastAt(p) >= Backoff * 2^(Count(p) - 1)

\* Each attempt has cost a fault, and so has each interval that let the pause pass.
Timely(p) ==
    /\ Count(p) <= Spent
    /\ LastAt(p) - FirstAt(p) <= Pauses(Count(p) - 1) + Spent - Count(p)
    /\ tick - FirstAt(p) <= Pauses(Count(p)) + Spent - Count(p)
\* A worker that is through with an overdue push has cost a fault; one that is at work has
\* the push before it.
Missed(p) == passed # {} => tick - FirstAt(p) < Pauses(Count(p)) + Spent - Count(p)
InHand(p, w) == pass[w].stage # "none" =>
    /\ p \in pass[w].due /\ pass[w].accepted = 0
    /\ pass[w].stage = "sending" => First(w) = p
InTime(p) == Timely(p) /\ (Ripe(p) /\ ~OnTheWay(p) => Missed(p) /\ \A w \in Passers : InHand(p, w))

\* Nothing is known of pushes to come; a push is delivered once and then repeated.
Known == \A p \in Pushes : attempts[p] # <<>> \/ OnTheWay(p) => p <= headPush
Listed == \A w \in Passers : \A p \in pass[w].due : attempts[p] # <<>>
Overtaken == \A w \in Passers : \A p \in knownStale[w] : p < headPush \/ p \in Ignored
Repeating == \A s \in Slots : delivery[s] # Nothing =>
    (delivery[s].again <=> attempts[delivery[s].push] # <<>>)
Single == \A s, t \in Slots :
    (/\ delivery[s] # Nothing /\ delivery[t] # Nothing /\ delivery[t].push = delivery[s].push
     /\ attempts[delivery[s].push] = <<>>) => s = t
Numbered == \A p \in Pushes : \A i \in DOMAIN attempts[p] : (attempts[p][i].again <=> i > 1)
Ordered == Known /\ Listed /\ Overtaken /\ Repeating /\ Single /\ Numbered
MadeUpInv == RedeliveryInv /\ Ordered /\ \A p \in Pushes : Unheard(p) /\ Spent <= MaxRedeliveries => InTime(p)

\* The pauses grow by at least one with each attempt.
LEMMA PausesGrow ==
  ASSUME NEW k \in Nat
  PROVE  /\ Pauses(k) \in Nat /\ Pauses(k + 1) = Pauses(k) + Backoff * 2^k
         /\ Backoff * 2^k \in Nat /\ Pauses(0) = 0 /\ (Backoff > 0 => Backoff * 2^k >= 1)
<1>1. Backoff \in Nat /\ 2^k \in Nat /\ 2^(k + 1) = 2 * 2^k /\ 2^0 = 1
  BY RedeliveryAssumption, PowerType, PowerDoubles, PowerOfNone
<1>2. 2^k >= 1
  <2> DEFINE Small == {n \in Nat : ~(2^n >= 1)}
  <2>1. CASE Small = {}
    BY <2>1
  <2>2. CASE Small # {}
    <3>1. PICK m \in Small : \A n \in Small : m <= n
      <4>1. Small \subseteq Nat
        OBVIOUS
      <4>. HIDE DEF Small
      <4>. QED  BY <2>2, <4>1, LeastNumber
    <3>2. m # 0
      <4>1. CASE m = 0
        <5>1. 2^0 >= 1
          BY <1>1
        <5>2. 2^m >= 1
          BY <4>1, <5>1, Zenon
        <5>. QED  BY <3>1, <5>2
      <4>. QED  BY <4>1
    <3>3. m - 1 \in Nat /\ m - 1 \notin Small
      BY <3>1, <3>2
    <3>4. 2^(m - 1) >= 1 /\ 2^(m - 1) \in Nat
      BY <3>3, PowerType
    <3>5. 2^m = 2 * 2^(m - 1)
      <4>1. (m - 1) + 1 = m
        BY <3>1
      <4>. QED  BY <3>3, <4>1, PowerDoubles
    <3>. QED  BY <3>1, <3>4, <3>5
  <2>. QED  BY <2>1, <2>2
<1> DEFINE x == 2^k
           y == 2^(k + 1)
<1>3. x \in Nat /\ x >= 1 /\ y = 2 * x /\ Backoff \in Nat
  BY <1>1, <1>2
<1>4. Pauses(k) = Backoff * (x - 1) /\ Pauses(k + 1) = Backoff * (y - 1) /\ Pauses(0) = Backoff * (1 - 1)
  BY <1>1 DEF Pauses
<1>. HIDE DEF x, y
<1>5. Backoff * x \in Nat /\ Backoff * (x - 1) = Backoff * x - Backoff /\ Backoff * (y - 1) = Backoff * y - Backoff
      /\ Backoff * y = Backoff * x + Backoff * x /\ Backoff * (1 - 1) = 0 /\ Backoff * (x - 1) \in Nat
      /\ (Backoff > 0 => Backoff * x >= 1)
  BY <1>3
<1>. QED  BY <1>3, <1>4, <1>5 DEF x

LEMMA PausesSuffice ==
  ASSUME WindowSuffices, NEW n \in Nat, n <= MaxRedeliveries
  PROVE  Pauses(n) + MaxRedeliveries - n <= Window
<1> DEFINE Beyond == {m \in Nat : m >= n /\ Pauses(n) + (m - n) > Pauses(m)}
<1>1. Pauses(n) \in Nat /\ MaxRedeliveries \in Nat /\ Window \in Nat /\ Pauses(MaxRedeliveries) \in Nat
      /\ Pauses(MaxRedeliveries) <= Window
  BY PausesGrow, RedeliveryAssumption DEF WindowSuffices
<1>2. CASE Beyond = {}
  <2>1. ~(Pauses(n) + (MaxRedeliveries - n) > Pauses(MaxRedeliveries))
    BY <1>1, <1>2
  <2>. QED  BY <1>1, <2>1
<1>3. CASE Beyond # {}
  <2>1. PICK m \in Beyond : \A i \in Beyond : m <= i
    <3>1. Beyond \subseteq Nat
      OBVIOUS
    <3>. HIDE DEF Beyond
    <3>. QED  BY <1>3, <3>1, LeastNumber
  <2>2. m \in Nat /\ m >= n /\ Pauses(n) + (m - n) > Pauses(m) /\ Pauses(m) \in Nat
    BY <2>1, PausesGrow
  <2>3. m # n
    BY <1>1, <2>2
  <2>4. m - 1 \in Nat /\ m - 1 >= n /\ m - 1 \notin Beyond
    BY <2>1, <2>2, <2>3
  <2>5. Pauses(m - 1) >= Pauses(n) + ((m - 1) - n) /\ Pauses(m - 1) \in Nat
    BY <1>1, <2>4, PausesGrow
  <2>6. Pauses(m) = Pauses(m - 1) + Backoff * 2^(m - 1) /\ Backoff * 2^(m - 1) \in Nat /\ Backoff * 2^(m - 1) >= 1
    <3>1. (m - 1) + 1 = m /\ Backoff > 0
      BY <2>2 DEF WindowSuffices
    <3>. QED  BY <2>4, <3>1, PausesGrow
  <2> DEFINE z == Backoff * 2^(m - 1)
  <2>. HIDE DEF z
  <2>7. Pauses(m) = Pauses(m - 1) + z /\ z \in Nat /\ z >= 1
    BY <2>6 DEF z
  <2>. QED  BY <1>1, <2>2, <2>5, <2>7
<1>. QED  BY <1>2, <1>3

LEMMA AttemptsAre ==
  ASSUME RedeliveryTypeOK, NEW p \in Pushes, attempts[p] # <<>>
  PROVE  /\ Count(p) \in Nat /\ Count(p) >= 1 /\ DOMAIN attempts[p] = 1..Count(p)
         /\ FirstAt(p) \in Nat /\ LastAt(p) \in Nat /\ tick \in Nat /\ Faults \in Nat /\ Spent \in Nat
         /\ attempts[p] \in Seq(Attempt) /\ p \in Nat /\ Count(p) - 1 \in Nat
<1>1. attempts[p] \in Seq(Attempt) /\ tick \in 0..Horizon /\ faults \in 0..Faults
  BY DEF RedeliveryTypeOK, Attempt
<1>2. Len(attempts[p]) \in Nat /\ Len(attempts[p]) # 0 /\ DOMAIN attempts[p] = 1..Len(attempts[p])
  BY <1>1
<1>3. 1 \in DOMAIN attempts[p] /\ Len(attempts[p]) \in DOMAIN attempts[p]
  BY <1>2
<1>4. \A i \in DOMAIN attempts[p] : attempts[p][i] \in Attempt
  BY <1>1
<1>5. attempts[p][1].at \in 0..Horizon /\ attempts[p][Len(attempts[p])].at \in 0..Horizon
  BY <1>3, <1>4 DEF Attempt
<1>6. Horizon \in Nat /\ Faults \in Nat /\ p \in Nat
  BY RedeliveryAssumption
<1>. QED  BY <1>1, <1>2, <1>5, <1>6 DEF Count, FirstAt, LastAt, Spent

LEMMA AgainIs ==
  ASSUME RedeliveryTypeOK, Numbered, NEW p \in Pushes, attempts[p] # <<>>
  PROVE  Again(p) = Count(p) - 1
<1>1. Count(p) \in Nat /\ Count(p) >= 1 /\ DOMAIN attempts[p] = 1..Count(p)
  BY AttemptsAre
<1> DEFINE R == {i \in DOMAIN attempts[p] : attempts[p][i].again}
<1>2. R = 2..Count(p)
  <2>1. \A i \in DOMAIN attempts[p] : (attempts[p][i].again <=> i > 1)
    BY DEF Numbered
  <2>2. \A i \in 1..Count(p) : i > 1 <=> i \in 2..Count(p)
    BY <1>1
  <2>3. 2..Count(p) \subseteq 1..Count(p)
    BY <1>1
  <2>. QED  BY <1>1, <2>1, <2>2, <2>3
<1>3. Cardinality(2..Count(p)) = IF 2 > Count(p) THEN 0 ELSE Count(p) - 2 + 1
  <2>1. 2 \in Int /\ Count(p) \in Int
    BY <1>1
  <2>. QED  BY <2>1, FS_Interval
<1>4. Again(p) = Cardinality(R)
  BY DEF Again
<1>. HIDE DEF R
<1>5. Cardinality(R) = Cardinality(2..Count(p))
  BY <1>2, Zenon
<1>. QED  BY <1>1, <1>3, <1>4, <1>5

\* A worker that lists the deliveries takes up a push whose pause is over.
LEMMA RipeIsDue ==
  ASSUME WindowSuffices, RedeliveryTypeOK, Ordered, NEW p \in Pushes, Unheard(p), Timely(p), Ripe(p),
         Spent <= MaxRedeliveries
  PROVE  p \in Due
<1>1. attempts[p] # <<>> /\ \A i \in DOMAIN attempts[p] : ~attempts[p][i].ok
  BY DEF Unheard
<1>2. /\ Count(p) \in Nat /\ Count(p) >= 1 /\ FirstAt(p) \in Nat /\ tick \in Nat /\ Spent \in Nat
      /\ MaxRedeliveries \in Nat /\ Window \in Nat
  BY <1>1, AttemptsAre, RedeliveryAssumption
<1>3. Again(p) = Count(p) - 1
  BY <1>1, AgainIs DEF Ordered
<1>4. ~Exhausted(p)
  BY <1>2, <1>3 DEF Exhausted, Timely
<1>5. ~Old(p)
  <2>1. Count(p) <= MaxRedeliveries
    BY <1>2 DEF Timely
  <2>2. Pauses(Count(p)) + MaxRedeliveries - Count(p) <= Window
    BY <1>2, <2>1, PausesSuffice
  <2>3. Pauses(Count(p)) \in Nat
    BY <1>2, PausesGrow
  <2>4. tick - FirstAt(p) <= Pauses(Count(p)) + Spent - Count(p)
    BY DEF Timely
  <2>5. tick - FirstAt(p) <= Window
    BY <1>2, <2>2, <2>3, <2>4
  <2>. QED  BY <1>2, <2>5 DEF Old, FirstAt
<1>6. tick - attempts[p][Len(attempts[p])].at >= Pause(p)
  BY <1>3 DEF Ripe, Pause, LastAt, Count
<1>. QED  BY <1>1, <1>4, <1>5, <1>6 DEF Due

\* A push that nothing has touched stays in time while the clock stands still.
LEMMA Lingers ==
  ASSUME MadeUpInv, NEW p \in Pushes, UNCHANGED <<headPush, tick>>, attempts'[p] = attempts[p],
         faults' \in 0..Faults, faults' <= faults, Unheard(p)', Spent' <= MaxRedeliveries
  PROVE  /\ Unheard(p) /\ Spent <= MaxRedeliveries /\ InTime(p) /\ Timely(p)' /\ (Ripe(p)' => Ripe(p))
         /\ (passed' # {} => passed # {}) /\ Missed(p) => Missed(p)'
         /\ faults' < faults => Missed(p)'
<1>1. Unheard(p)
  BY DEF Unheard
<1>2. attempts[p] # <<>> /\ RedeliveryTypeOK
  BY <1>1 DEF Unheard, MadeUpInv, RedeliveryInv
<1>3. /\ Count(p) \in Nat /\ Count(p) >= 1 /\ FirstAt(p) \in Nat /\ LastAt(p) \in Nat /\ tick \in Nat
      /\ Spent \in Nat /\ Faults \in Nat /\ Count(p) - 1 \in Nat
  BY <1>2, AttemptsAre
<1>4. Count(p)' = Count(p) /\ FirstAt(p)' = FirstAt(p) /\ LastAt(p)' = LastAt(p)
  BY DEF Count, FirstAt, LastAt
<1>5. faults \in 0..Faults /\ MaxRedeliveries \in Nat
  BY <1>2, RedeliveryAssumption DEF RedeliveryTypeOK
<1>6. Spent <= Spent' /\ Spent' \in Nat /\ (faults' < faults => Spent < Spent')
  BY <1>3, <1>5 DEF Spent
<1>7. Spent <= MaxRedeliveries
  BY <1>3, <1>5, <1>6
<1>8. InTime(p)
  BY <1>1, <1>7 DEF MadeUpInv
<1>9. Pauses(Count(p)) \in Nat /\ Pauses(Count(p) - 1) \in Nat
  BY <1>3, PausesGrow
<1>10. Timely(p)'
  <2>1. Timely(p)
    BY <1>8 DEF InTime
  <2>2. Pauses(Count(p)') = Pauses(Count(p)) /\ Pauses(Count(p)' - 1) = Pauses(Count(p) - 1)
    BY <1>4
  <2>. QED  BY <1>3, <1>4, <1>6, <1>9, <2>1, <2>2 DEF Timely
<1>11. Ripe(p)' => Ripe(p)
  BY <1>4 DEF Ripe
<1>12. (passed' # {} => passed # {}) /\ Missed(p) => Missed(p)'
  BY <1>3, <1>4, <1>6, <1>9 DEF Missed
<1>13. faults' < faults => Missed(p)'
  <2>1. tick - FirstAt(p) <= Pauses(Count(p)) + Spent - Count(p)
    BY <1>8 DEF InTime, Timely
  <2>. QED  BY <1>3, <1>4, <1>6, <1>9, <2>1 DEF Missed
<1>. QED  BY <1>1, <1>7, <1>8, <1>10, <1>11, <1>12, <1>13

\* What an answer adds to the list.
LEMMA AnswerEffect ==
  ASSUME RedeliveryTypeOK, Carried, NEW s \in Slots, NEW ok \in BOOLEAN, delivery[s] # Nothing,
         DeliveryAnswered(s, ok)
  PROVE  LET q == delivery[s].push IN
         /\ q \in Pushes /\ delivery'[s] = Nothing
         /\ \A t \in Slots : t # s => delivery'[t] = delivery[t]
         /\ \A p \in Pushes : p # q => attempts'[p] = attempts[p]
         /\ Len(attempts[q]) \in Nat /\ attempts'[q] # <<>>
         /\ Len(attempts'[q]) = Len(attempts[q]) + 1
         /\ DOMAIN attempts[q] = 1..Len(attempts[q]) /\ DOMAIN attempts'[q] = 1..Len(attempts[q]) + 1
         /\ \A i \in 1..Len(attempts[q]) : attempts'[q][i] = attempts[q][i]
         /\ attempts'[q][Len(attempts[q]) + 1] = [at |-> tick, again |-> delivery[s].again, ok |-> ok]
<1> DEFINE q == delivery[s].push
           a == [at |-> tick, again |-> delivery[s].again, ok |-> ok]
<1>1. q \in Pushes /\ a \in Attempt
  BY DEF Carried, RedeliveryTypeOK, Attempt
<1>2. delivery' = [delivery EXCEPT ![s] = Nothing] /\ delivery \in [Slots -> Delivery]
  BY DEF DeliveryAnswered, RedeliveryTypeOK, Delivery
<1>3. attempts' = [attempts EXCEPT ![q] = Append(@, a)] /\ attempts \in [Pushes -> Seq(Attempt)]
  BY DEF DeliveryAnswered, RedeliveryTypeOK, Attempt
<1>4. delivery'[s] = Nothing /\ \A t \in Slots : t # s => delivery'[t] = delivery[t]
  BY <1>2
<1>. HIDE DEF a, q
<1>5. attempts'[q] = Append(attempts[q], a) /\ attempts[q] \in Seq(Attempt)
      /\ \A p \in Pushes : p # q => attempts'[p] = attempts[p]
  BY <1>1, <1>3
<1>6. /\ DOMAIN attempts[q] = 1..Len(attempts[q]) /\ Len(attempts[q]) \in Nat
      /\ Len(Append(attempts[q], a)) = Len(attempts[q]) + 1
      /\ DOMAIN Append(attempts[q], a) = 1..(Len(attempts[q]) + 1)
      /\ Append(attempts[q], a)[Len(attempts[q]) + 1] = a
      /\ \A i \in 1..Len(attempts[q]) : Append(attempts[q], a)[i] = attempts[q][i]
      /\ Append(attempts[q], a) # <<>>
  BY <1>5, <1>1
<1>. QED  BY <1>1, <1>4, <1>5, <1>6 DEF a, q

LEMMA AnswerOrders ==
  ASSUME RedeliveryTypeOK, Carried, Ordered, NEW s \in Slots, NEW ok \in BOOLEAN, delivery[s] # Nothing,
         DeliveryAnswered(s, ok), UNCHANGED <<headPush, pass, knownStale>>
  PROVE  Ordered'
<1> DEFINE q == delivery[s].push
<1>1. /\ q \in Pushes /\ delivery'[s] = Nothing
      /\ \A t \in Slots : t # s => delivery'[t] = delivery[t]
      /\ \A p \in Pushes : p # q => attempts'[p] = attempts[p]
      /\ attempts'[q] # <<>>
  BY AnswerEffect
<1>. HIDE DEF q
<1>2. OnTheWay(q)
  BY DEF OnTheWay, q
<1>3. Known'
  BY <1>1, <1>2 DEF Ordered, Known, OnTheWay
<1>4. Listed'
  <2>1. \A p \in Pushes : attempts[p] # <<>> => attempts'[p] # <<>>
    BY <1>1
  <2>2. \A w \in Passers : pass[w].due \subseteq Pushes
    BY DEF RedeliveryTypeOK
  <2>. QED  BY <2>1, <2>2 DEF Ordered, Listed
<1>5. Overtaken'
  BY DEF Ordered, Overtaken
<1>6. \A t \in Slots : delivery'[t] # Nothing => t # s /\ delivery'[t] = delivery[t] /\ delivery[t].push \in Pushes
  BY <1>1 DEF Carried
<1>7. Single'
  <2>. SUFFICES ASSUME NEW t \in Slots, NEW u \in Slots, delivery'[t] # Nothing, delivery'[u] # Nothing,
                       delivery'[u].push = delivery'[t].push, attempts'[delivery'[t].push] = <<>>
                PROVE  t = u
    BY DEF Single
  <2>1. delivery'[t] = delivery[t] /\ delivery'[u] = delivery[u] /\ delivery[t].push \in Pushes
    BY <1>6
  <2>2. delivery[t].push # q /\ attempts[delivery[t].push] = <<>>
    BY <1>1, <2>1
  <2>. QED  BY <2>1, <2>2 DEF Ordered, Single
<1>8. Repeating'
  <2>. SUFFICES ASSUME NEW t \in Slots, delivery'[t] # Nothing
                PROVE  delivery'[t].again <=> attempts'[delivery'[t].push] # <<>>
    BY DEF Repeating
  <2>1. t # s /\ delivery'[t] = delivery[t] /\ delivery[t].push \in Pushes
    BY <1>6
  <2>2. delivery[t].again <=> attempts[delivery[t].push] # <<>>
    BY <2>1 DEF Ordered, Repeating
  <2>3. CASE delivery[t].push = q
    <3>1. attempts[q] # <<>>
      BY <2>1, <2>3 DEF Ordered, Single, q
    <3>. QED  BY <1>1, <2>1, <2>2, <2>3, <3>1
  <2>4. CASE delivery[t].push # q
    BY <1>1, <2>1, <2>2, <2>4
  <2>. QED  BY <2>3, <2>4
<1>9. Numbered'
  <2>1. /\ Len(attempts[q]) \in Nat
        /\ DOMAIN attempts[q] = 1..Len(attempts[q]) /\ DOMAIN attempts'[q] = 1..Len(attempts[q]) + 1
        /\ \A i \in 1..Len(attempts[q]) : attempts'[q][i] = attempts[q][i]
        /\ attempts'[q][Len(attempts[q]) + 1] = [at |-> tick, again |-> delivery[s].again, ok |-> ok]
    BY AnswerEffect DEF q
  <2>2. delivery[s].again <=> attempts[q] # <<>>
    BY DEF Ordered, Repeating, q
  <2>3. attempts[q] # <<>> <=> Len(attempts[q]) + 1 > 1
    <3>1. attempts[q] \in Seq(Attempt)
      BY <1>1 DEF RedeliveryTypeOK, Attempt
    <3>. QED  BY <2>1, <3>1
  <2>4. attempts'[q][Len(attempts[q]) + 1].again <=> Len(attempts[q]) + 1 > 1
    BY <2>1, <2>2, <2>3
  <2>5. ASSUME NEW i \in DOMAIN attempts'[q] PROVE attempts'[q][i].again <=> i > 1
    <3>1. CASE i = Len(attempts[q]) + 1
      BY <2>4, <3>1
    <3>2. CASE i # Len(attempts[q]) + 1
      <4>1. i \in 1..Len(attempts[q])
        BY <2>1, <3>2
      <4>2. attempts'[q][i] = attempts[q][i] /\ i \in DOMAIN attempts[q]
        BY <2>1, <4>1
      <4>. QED  BY <1>1, <4>2 DEF Ordered, Numbered
    <3>. QED  BY <3>1, <3>2
  <2>6. ASSUME NEW p \in Pushes, p # q, NEW i \in DOMAIN attempts'[p] PROVE attempts'[p][i].again <=> i > 1
    <3>1. attempts'[p] = attempts[p]
      BY <1>1, <2>6
    <3>. QED  BY <2>6, <3>1 DEF Ordered, Numbered
  <2>. QED  BY <2>5, <2>6 DEF Numbered
<1>. QED  BY <1>3, <1>4, <1>5, <1>7, <1>8, <1>9 DEF Ordered

\* One more failed attempt begins a longer pause, and has cost a fault.
LEMMA AnswerTimes ==
  ASSUME WindowSuffices, MadeUpInv, NEW s \in Slots, NEW ok \in BOOLEAN, delivery[s] # Nothing,
         DeliveryAnswered(s, ok), UNCHANGED <<headPush, pass, knownStale, passed, tick>>,
         faults' = IF ok THEN faults ELSE faults - 1, RedeliveryTypeOK',
         NEW p \in Pushes, Unheard(p)', Spent' <= MaxRedeliveries
  PROVE  InTime(p)'
<1> DEFINE q == delivery[s].push
           n == Len(attempts[q])
<1>1. RedeliveryTypeOK /\ Carried /\ Ordered
  BY DEF MadeUpInv, RedeliveryInv
<1>2. /\ q \in Pushes /\ delivery'[s] = Nothing
      /\ \A t \in Slots : t # s => delivery'[t] = delivery[t]
      /\ \A r \in Pushes : r # q => attempts'[r] = attempts[r]
      /\ attempts'[q] # <<>> /\ n \in Nat /\ Len(attempts'[q]) = n + 1
      /\ DOMAIN attempts[q] = 1..n /\ DOMAIN attempts'[q] = 1..n + 1
      /\ \A i \in 1..n : attempts'[q][i] = attempts[q][i]
      /\ attempts'[q][n + 1] = [at |-> tick, again |-> delivery[s].again, ok |-> ok]
  BY <1>1, AnswerEffect
<1>3. faults \in 0..Faults /\ faults' \in 0..Faults /\ Faults \in Nat /\ MaxRedeliveries \in Nat /\ tick \in Nat
  BY <1>1, RedeliveryAssumption DEF RedeliveryTypeOK
<1>4. faults' <= faults
  BY <1>3
<1>. HIDE DEF q
<1>5. CASE p # q
  <2>1. attempts'[p] = attempts[p]
    BY <1>2, <1>5
  <2>2. /\ Unheard(p) /\ Spent <= MaxRedeliveries /\ InTime(p) /\ Timely(p)' /\ (Ripe(p)' => Ripe(p))
        /\ (passed' # {} => passed # {}) /\ Missed(p) => Missed(p)'
    BY <1>3, <1>4, <2>1, Lingers
  <2>3. OnTheWay(p) => OnTheWay(p)'
    BY <1>2, <1>5 DEF OnTheWay, q
  <2>4. \A w \in Passers : InHand(p, w) => InHand(p, w)'
    BY DEF InHand, First
  <2>. QED  BY <2>2, <2>3, <2>4 DEF InTime
<1>6. CASE p = q
  <2>1. ~ok /\ faults' = faults - 1
    <3>1. n + 1 \in DOMAIN attempts'[q] /\ attempts'[q][n + 1].ok = ok
      BY <1>2
    <3>. QED  BY <1>6, <3>1 DEF Unheard
  <2>2. Count(p)' = n + 1 /\ LastAt(p)' = tick /\ Spent' = Spent + 1 /\ Spent \in Nat
    BY <1>2, <1>3, <1>6, <2>1 DEF Count, LastAt, Spent
  <2>3. Timely(p)'
    <3>1. CASE n = 0
      <4>1. FirstAt(p)' = tick
        BY <1>2, <1>6, <3>1 DEF FirstAt
      <4>2. Pauses(0) = 0 /\ Pauses(1) \in Nat
        BY PausesGrow
      <4>. QED  BY <1>3, <2>2, <3>1, <4>1, <4>2 DEF Timely
    <3>2. CASE n # 0
      <4>1. attempts[p] # <<>>
        BY <1>2, <1>6, <3>2
      <4>2. /\ Count(p) = n /\ FirstAt(p)' = FirstAt(p)
        <5>1. 1 \in 1..n
          BY <1>2, <3>2
        <5>2. attempts'[q][1] = attempts[q][1]
          BY <1>2, <5>1
        <5>. QED  BY <1>6, <5>2 DEF Count, FirstAt
      <4>3. \A i \in DOMAIN attempts[p] : ~attempts[p][i].ok
        <5>1. \A i \in 1..n : i \in 1..n + 1
          BY <1>2
        <5>. QED  BY <1>2, <1>6, <5>1 DEF Unheard
      <4>4. Unheard(p)
        BY <4>1, <4>3 DEF Unheard
      <4>5. Timely(p)
        BY <1>3, <2>2, <4>4 DEF MadeUpInv, InTime
      <4>6. FirstAt(p) \in Nat
        BY <1>1, <4>1, AttemptsAre
      <4>7. Pauses(n + 1) = Pauses(n) + Backoff * 2^n /\ Pauses(n) \in Nat /\ Backoff * 2^n \in Nat
        BY <1>2, PausesGrow
      <4>8. Pauses(n + 1) >= Pauses(n) /\ Pauses(n + 1) \in Nat
        <5> DEFINE z == Backoff * 2^n
        <5>. HIDE DEF z
        <5>1. Pauses(n + 1) = Pauses(n) + z /\ z \in Nat
          BY <4>7 DEF z
        <5>. QED  BY <4>7, <5>1
      <4>9. /\ n <= Spent /\ tick - FirstAt(p) <= Pauses(n) + Spent - n
        BY <4>2, <4>5 DEF Timely
      <4>10. (n + 1) - 1 = n
        BY <1>2
      <4>11. Pauses(Count(p)' - 1) = Pauses(n) /\ Pauses(Count(p)') = Pauses(n + 1)
        BY <2>2, <4>10
      <4>12. Count(p)' <= Spent'
        BY <1>2, <2>2, <4>9
      <4> DEFINE f == FirstAt(p)
                 g == Pauses(n)
                 h == Pauses(n + 1)
                 e == Spent
      <4>13. /\ f \in Nat /\ g \in Nat /\ h \in Nat /\ h >= g /\ e \in Nat /\ n \in Nat /\ tick \in Nat
             /\ tick - f <= g + e - n
        BY <1>2, <1>3, <2>2, <4>6, <4>7, <4>8, <4>9
      <4>14. tick - f <= g + (e + 1) - (n + 1) /\ tick - f <= h + (e + 1) - (n + 1)
        <5>. HIDE DEF f, g, h, e, n
        <5>. QED  BY <4>13
      <4>15. LastAt(p)' - FirstAt(p)' <= Pauses(n) + Spent' - Count(p)'
        BY ONLY <2>2, <4>2, <4>14
      <4>16. tick' = tick
        OBVIOUS
      <4>17. tick' - FirstAt(p)' <= Pauses(n + 1) + Spent' - Count(p)'
        BY ONLY <2>2, <4>2, <4>14, <4>16
      <4>. QED  BY <4>11, <4>12, <4>15, <4>17 DEF Timely
    <3>. QED  BY <3>1, <3>2
  <2>4. ~Ripe(p)'
    <3>1. (n + 1) - 1 = n /\ Backoff > 0
      BY <1>2 DEF WindowSuffices
    <3>2. Backoff * 2^n \in Nat /\ Backoff * 2^n >= 1
      BY <1>2, <3>1, PausesGrow
    <3>3. Ripe(p)' <=> tick - tick >= Backoff * 2^((n + 1) - 1)
      BY <2>2 DEF Ripe
    <3>4. Ripe(p)' => tick - tick >= Backoff * 2^n
      BY <3>1, <3>3
    <3> DEFINE z == Backoff * 2^n
    <3>5. z >= 1 /\ z \in Nat /\ (Ripe(p)' => tick - tick >= z)
      BY <3>2, <3>4
    <3>. HIDE DEF z
    <3>. QED  BY <1>3, <3>5
  <2>. QED  BY <2>3, <2>4 DEF InTime
<1>. QED  BY <1>5, <1>6

\* A step that leaves the list, the deliveries' pushes and the passes alone.
LEMMA NothingMoves ==
  ASSUME MadeUpInv, UNCHANGED <<attempts, headPush, pass, knownStale, passed, tick, faults>>,
         \A s \in Slots : /\ delivery'[s].push = delivery[s].push /\ delivery'[s].again = delivery[s].again
                          /\ delivery'[s] # Nothing <=> delivery[s] # Nothing
  PROVE  Ordered' /\ \A p \in Pushes : Unheard(p)' /\ Spent' <= MaxRedeliveries => InTime(p)'
<1>1. Ordered
  BY DEF MadeUpInv
<1>2. \A p \in Pushes : OnTheWay(p)' <=> OnTheWay(p)
  BY DEF OnTheWay
<1>3. Known' /\ Listed' /\ Overtaken' /\ Numbered'
  BY <1>1, <1>2 DEF Ordered, Known, Listed, Overtaken, Numbered
<1>4. Repeating' /\ Single'
  BY <1>1 DEF Ordered, Repeating, Single
<1>5. ASSUME NEW p \in Pushes, Unheard(p)', Spent' <= MaxRedeliveries PROVE InTime(p)'
  <2>1. Unheard(p) /\ Spent <= MaxRedeliveries
    BY <1>5 DEF Unheard, Spent
  <2>2. InTime(p)
    BY <2>1 DEF MadeUpInv
  <2>3. (Timely(p) => Timely(p)') /\ (Missed(p) => Missed(p)') /\ (Ripe(p)' => Ripe(p))
    BY DEF Timely, Missed, Ripe, Count, FirstAt, LastAt, Spent
  <2>4. \A w \in Passers : InHand(p, w) => InHand(p, w)'
    BY DEF InHand, First
  <2>. QED  BY <1>2, <2>2, <2>3, <2>4 DEF InTime
<1>. QED  BY <1>3, <1>4, <1>5 DEF Ordered

LEMMA IntakePays ==
  ASSUME RedeliveryInv, NEW s \in Slots,
         Intake(s) \/ InsertRun(s) \/ EnqueueRun(s) \/ EnqueueFails(s) \/ IntakeFails(s)
  PROVE  /\ delivery[s] # Nothing
         /\ \/ \E ok \in BOOLEAN : DeliveryAnswered(s, ok) /\ faults' = IF ok THEN faults ELSE faults - 1
            \/ (\E stg \in {"inserting", "enqueuing"} : GoesOn(s, stg)) /\ UNCHANGED faults
<1>1. delivery[s].stage # "none" => delivery[s] # Nothing
  BY DEF Nothing
<1>2. delivery[s] # Nothing
  BY <1>1 DEF Intake, InsertRun, EnqueueRun, EnqueueFails, IntakeFails
<1>3. AnswerDelivery(s) =>
          \E ok \in BOOLEAN : DeliveryAnswered(s, ok) /\ faults' = IF ok THEN faults ELSE faults - 1
  BY DEF AnswerDelivery, Fault
<1>4. DeliveryAnswered(s, FALSE) /\ Fault =>
          \E ok \in BOOLEAN : DeliveryAnswered(s, ok) /\ faults' = IF ok THEN faults ELSE faults - 1
  BY DEF Fault
<1>5. CASE Intake(s)
  BY <1>2, <1>3, <1>5 DEF Intake, GoesOn
<1>6. CASE InsertRun(s)
  BY <1>2, <1>3, <1>6 DEF InsertRun, GoesOn
<1>7. CASE EnqueueRun(s)
  BY <1>2, <1>3, <1>7 DEF EnqueueRun
<1>8. CASE EnqueueFails(s) \/ IntakeFails(s)
  BY <1>2, <1>4, <1>8 DEF EnqueueFails, IntakeFails
<1>. QED  BY <1>5, <1>6, <1>7, <1>8

LEMMA IntakeMadeUp ==
  ASSUME WindowSuffices, MadeUpInv, NEW s \in Slots,
         Intake(s) \/ InsertRun(s) \/ EnqueueRun(s) \/ EnqueueFails(s) \/ IntakeFails(s)
  PROVE  MadeUpInv'
<1>1. RedeliveryInv /\ Ordered /\ RedeliveryTypeOK /\ Carried
  BY DEF MadeUpInv, RedeliveryInv
<1>2. RedeliveryInv' /\ RedeliveryTypeOK'
  BY <1>1, IntakeInv DEF RedeliveryInv
<1>3. UNCHANGED <<headPush, pass, knownStale, passed, tick>> /\ delivery[s] # Nothing
  BY <1>1, IntakeActs, IntakePays
<1>4. CASE \E ok \in BOOLEAN : DeliveryAnswered(s, ok) /\ faults' = IF ok THEN faults ELSE faults - 1
  <2>1. PICK ok \in BOOLEAN : DeliveryAnswered(s, ok) /\ faults' = IF ok THEN faults ELSE faults - 1
    BY <1>4
  <2>2. Ordered'
    BY <1>1, <1>3, <2>1, AnswerOrders
  <2>3. \A p \in Pushes : Unheard(p)' /\ Spent' <= MaxRedeliveries => InTime(p)'
    BY <1>2, <1>3, <2>1, AnswerTimes
  <2>. QED  BY <1>2, <2>2, <2>3 DEF MadeUpInv
<1>5. CASE (\E stg \in {"inserting", "enqueuing"} : GoesOn(s, stg)) /\ UNCHANGED faults
  <2>1. PICK stg \in {"inserting", "enqueuing"} : GoesOn(s, stg)
    BY <1>5
  <2>2. delivery \in [Slots -> Delivery]
    BY <1>1 DEF RedeliveryTypeOK, Delivery
  <2>3. \A t \in Slots : /\ delivery'[t].push = delivery[t].push /\ delivery'[t].again = delivery[t].again
                         /\ t # s => delivery'[t] = delivery[t]
    BY <2>1, <2>2 DEF GoesOn, Continue, Delivery
  <2>4. delivery'[s].stage = stg
    BY <2>1, <2>2 DEF GoesOn, Continue, Delivery
  <2>5. delivery'[s] # Nothing
    BY <2>4 DEF Nothing
  <2>6. UNCHANGED attempts /\ UNCHANGED faults
    BY <1>5, <2>1 DEF GoesOn
  <2>7. Ordered' /\ \A p \in Pushes : Unheard(p)' /\ Spent' <= MaxRedeliveries => InTime(p)'
    BY <1>3, <2>3, <2>5, <2>6, NothingMoves
  <2>. QED  BY <1>2, <2>7 DEF MadeUpInv
<1>. QED  BY <1>1, <1>4, <1>5, IntakePays

LEMMA RunEndsMadeUp ==
  ASSUME MadeUpInv, NEW p \in Pushes, RunEnds(p)
  PROVE  MadeUpInv'
<1>1. UNCHANGED <<attempts, headPush, delivery, pass, knownStale, passed, tick, faults>>
  BY DEF RunEnds, github, passing
<1>2. RedeliveryInv'
  BY RunEndsInv DEF MadeUpInv
<1>3. Ordered' /\ \A q \in Pushes : Unheard(q)' /\ Spent' <= MaxRedeliveries => InTime(q)'
  BY <1>1, NothingMoves
<1>. QED  BY <1>2, <1>3 DEF MadeUpInv

LEMMA SendAdds ==
  ASSUME RedeliveryTypeOK, NEW q \in Pushes, NEW again \in BOOLEAN, Send(q, again)
  PROVE  \E s \in Slots : /\ delivery[s] = Nothing /\ delivery'[s] # Nothing
                          /\ delivery'[s].push = q /\ delivery'[s].again = again
                          /\ \A t \in Slots : t # s => delivery'[t] = delivery[t]
<1> DEFINE d == [push |-> q, again |-> again, stage |-> "arriving", fresh |-> reviews[q] = 0]
<1>1. PICK s \in Slots : delivery[s] = Nothing /\ delivery' = [delivery EXCEPT ![s] = d]
  BY DEF Send
<1>2. delivery \in [Slots -> Delivery]
  BY DEF RedeliveryTypeOK, Delivery
<1>3. d # Nothing /\ d.push = q /\ d.again = again
  <2>1. d.stage = "arriving" /\ d.push = q /\ d.again = again
    OBVIOUS
  <2>. HIDE DEF d
  <2>. QED  BY <2>1 DEF Nothing
<1>. HIDE DEF d
<1>. QED  BY <1>1, <1>2, <1>3

\* A delivery sets out: the first of a push, or a repetition of one that has failed.
LEMMA SendOrders ==
  ASSUME RedeliveryTypeOK, Carried, Ordered, NEW q \in Pushes, NEW again \in BOOLEAN, Send(q, again),
         UNCHANGED <<attempts>>, q <= headPush', headPush <= headPush', headPush' \in Nat,
         again <=> attempts[q] # <<>>, ~again => headPush < q
  PROVE  Known' /\ Repeating' /\ Single' /\ Numbered'
<1>1. PICK s \in Slots : /\ delivery[s] = Nothing /\ delivery'[s] # Nothing
                         /\ delivery'[s].push = q /\ delivery'[s].again = again
                         /\ \A t \in Slots : t # s => delivery'[t] = delivery[t]
  BY SendAdds
<1>2. headPush \in Nat /\ \A p \in Pushes : p \in Nat
  BY RedeliveryAssumption DEF RedeliveryTypeOK
<1>3. Known'
  <2>. SUFFICES ASSUME NEW p \in Pushes, attempts[p] # <<>> \/ OnTheWay(p)'
                PROVE  p <= headPush'
    BY DEF Known
  <2>1. p = q \/ attempts[p] # <<>> \/ OnTheWay(p)
    BY <1>1 DEF OnTheWay
  <2>. QED  BY <1>2, <2>1 DEF Ordered, Known
<1>4. Repeating'
  <2>. SUFFICES ASSUME NEW t \in Slots, delivery'[t] # Nothing
                PROVE  delivery'[t].again <=> attempts[delivery'[t].push] # <<>>
    BY DEF Repeating
  <2>1. CASE t = s
    BY <1>1, <2>1
  <2>2. CASE t # s
    BY <1>1, <2>2 DEF Ordered, Repeating
  <2>. QED  BY <2>1, <2>2
<1>5. ~again => \A t \in Slots : delivery[t] # Nothing => delivery[t].push # q
  <2>. SUFFICES ASSUME ~again, NEW t \in Slots, delivery[t] # Nothing, delivery[t].push = q
                PROVE  FALSE
    OBVIOUS
  <2>1. OnTheWay(q)
    BY DEF OnTheWay
  <2>. QED  BY <1>2, <2>1 DEF Ordered, Known
<1>6. Single'
  <2>. SUFFICES ASSUME NEW t \in Slots, NEW u \in Slots, delivery'[t] # Nothing, delivery'[u] # Nothing,
                       delivery'[u].push = delivery'[t].push, attempts[delivery'[t].push] = <<>>
                PROVE  t = u
    BY DEF Single
  <2>1. CASE t = s \/ u = s
    BY <1>1, <1>5, <2>1
  <2>2. CASE t # s /\ u # s
    <3>1. delivery'[t] = delivery[t] /\ delivery'[u] = delivery[u]
      BY <1>1, <2>2
    <3>. QED  BY <3>1 DEF Ordered, Single
  <2>. QED  BY <2>1, <2>2
<1>7. Numbered'
  BY DEF Ordered, Numbered
<1>. QED  BY <1>3, <1>4, <1>6, <1>7

LEMMA PushMadeUp ==
  ASSUME MadeUpInv, NEW q \in Pushes, Push(q)
  PROVE  MadeUpInv'
<1>1. RedeliveryInv /\ RedeliveryTypeOK /\ Carried /\ Ordered
  BY DEF MadeUpInv, RedeliveryInv
<1>2. /\ q = headPush + 1 /\ headPush' = q /\ Send(q, FALSE)
      /\ UNCHANGED <<attempts, pass, knownStale, passed, tick, faults>>
  BY DEF Push, passing
<1>3. RedeliveryInv'
  BY <1>1, PushInv
<1>4. headPush \in Nat /\ q \in Nat /\ \A p \in Pushes : p \in Nat
  BY <1>1, RedeliveryAssumption DEF RedeliveryTypeOK
<1>5. attempts[q] = <<>>
  <2>1. ~(q <= headPush)
    BY <1>2, <1>4
  <2>. QED  BY <1>1, <2>1 DEF Ordered, Known
<1>6. Known' /\ Repeating' /\ Single' /\ Numbered'
  <2>1. q <= headPush' /\ headPush <= headPush' /\ headPush' \in Nat /\ headPush < q /\ FALSE \in BOOLEAN
    BY <1>2, <1>4
  <2>2. FALSE <=> attempts[q] # <<>>
    BY <1>5
  <2>. QED  BY <1>1, <1>2, <2>1, <2>2, SendOrders
<1>7. Listed'
  BY <1>1, <1>2 DEF Ordered, Listed
<1>8. Overtaken'
  <2>1. \A w \in Passers : knownStale[w] \subseteq Nat
    BY <1>1, <1>4 DEF RedeliveryTypeOK
  <2>. QED  BY <1>1, <1>2, <1>4, <2>1 DEF Ordered, Overtaken
<1>9. \A p \in Pushes : ~Unheard(p)'
  BY <1>2, <1>5 DEF Unheard
<1>. QED  BY <1>3, <1>6, <1>7, <1>8, <1>9 DEF Ordered, MadeUpInv

\* What a worker takes up has been listed, and what it remembers as stale has been overtaken.
LEMMA PassOrders ==
  ASSUME Ordered, UNCHANGED <<attempts, headPush, delivery>>,
         \A w \in Passers : \A p \in pass'[w].due : p \in pass[w].due \/ p \in Due,
         \A w \in Passers : \A p \in knownStale'[w] : p \in knownStale[w] \/ p < headPush \/ p \in Ignored
  PROVE  Ordered'
<1>1. Known' /\ Repeating' /\ Single' /\ Numbered'
  BY DEF Ordered, Known, OnTheWay, Repeating, Single, Numbered
<1>2. Listed'
  BY DEF Ordered, Listed, Due
<1>3. Overtaken'
  BY DEF Ordered, Overtaken
<1>. QED  BY <1>1, <1>2, <1>3 DEF Ordered

LEMMA PassBeginsMadeUp ==
  ASSUME WindowSuffices, MadeUpInv, NEW w \in Passers, PassBegins(w)
  PROVE  MadeUpInv'
<1>1. RedeliveryInv /\ RedeliveryTypeOK /\ Ordered
  BY DEF MadeUpInv, RedeliveryInv
<1>2. RedeliveryInv'
  BY <1>1, PassBeginsInv
<1>3. /\ UNCHANGED <<attempts, headPush, delivery, passed, tick, faults>>
      /\ pass' = [pass EXCEPT ![w] = [due |-> Due \ knownStale[w], accepted |-> 0, stage |-> "asking"]]
      /\ knownStale' = [knownStale EXCEPT ![w] = @ \cap Due]
  BY DEF PassBegins, github
<1>4. pass \in [Passers -> PassRecord] /\ knownStale \in [Passers -> SUBSET Pushes] /\ faults \in 0..Faults
      /\ headPush \in Nat
  <2>1. /\ pass \in [Passers -> PassRecord] /\ knownStale \in [Passers -> SUBSET Pushes]
        /\ faults \in 0..Faults /\ headPush \in Pushes \cup {0}
    BY <1>1, Zenon DEF RedeliveryTypeOK, PassRecord
  <2>2. Pushes \subseteq Nat
    BY RedeliveryAssumption, Zenon
  <2>. QED  BY <2>1, <2>2
<1>5. /\ pass'[w] = [due |-> Due \ knownStale[w], accepted |-> 0, stage |-> "asking"]
      /\ \A u \in Passers : u # w => pass'[u] = pass[u]
      /\ \A u \in Passers : knownStale'[u] \subseteq knownStale[u]
  BY <1>3, <1>4
<1>6. Ordered'
  <2>1. \A u \in Passers : \A p \in pass'[u].due : p \in pass[u].due \/ p \in Due
    BY <1>5
  <2>. QED  BY <1>1, <1>3, <1>5, <2>1, PassOrders
<1>7. ASSUME NEW p \in Pushes, Unheard(p)', Spent' <= MaxRedeliveries PROVE InTime(p)'
  <2>1. faults' \in 0..Faults /\ faults' <= faults
    BY <1>3, <1>4
  <2>2. /\ Unheard(p) /\ Spent <= MaxRedeliveries /\ InTime(p) /\ Timely(p)' /\ (Ripe(p)' => Ripe(p))
        /\ (passed' # {} => passed # {}) /\ Missed(p) => Missed(p)'
    BY <1>3, <1>7, <2>1, Lingers
  <2>3. ASSUME Ripe(p)', ~OnTheWay(p)' PROVE Missed(p)' /\ \A u \in Passers : InHand(p, u)'
    <3>1. Ripe(p) /\ ~OnTheWay(p)
      BY <1>3, <2>2, <2>3 DEF OnTheWay
    <3>2. Missed(p) /\ \A u \in Passers : InHand(p, u)
      BY <2>2, <3>1 DEF InTime
    <3>3. p \in Due
      BY <1>1, <2>2, <3>1, RipeIsDue DEF InTime
    <3>4. p \notin knownStale[w]
      <4>1. p = headPush /\ p \notin Ignored
        BY <2>2 DEF Unheard
      <4>. QED  BY <1>1, <1>4, <4>1 DEF Ordered, Overtaken
    <3>5. InHand(p, w)'
      BY <1>5, <3>3, <3>4 DEF InHand
    <3>6. \A u \in Passers : u # w => InHand(p, u)'
      BY <1>5, <3>2 DEF InHand, First
    <3>. QED  BY <1>3, <2>2, <3>2, <3>5, <3>6
  <2>. QED  BY <2>2, <2>3 DEF InTime
<1>. QED  BY <1>2, <1>6, <1>7 DEF MadeUpInv

\* Only the push at the head gets past the question, so a worker sends nothing before it.
LEMMA AskMadeUp ==
  ASSUME MadeUpInv, NEW w \in Passers, AskWhetherCurrent(w)
  PROVE  MadeUpInv'
<1> DEFINE q == First(w)
<1>1. RedeliveryInv /\ RedeliveryTypeOK /\ Ordered
  BY DEF MadeUpInv, RedeliveryInv
<1>2. RedeliveryInv'
  BY <1>1, AskInv
<1>3. /\ UNCHANGED <<attempts, headPush, delivery, passed, tick, faults>>
      /\ pass[w].stage = "asking" /\ pass[w].due # {}
  BY DEF AskWhetherCurrent, github
<1>4. pass \in [Passers -> PassRecord] /\ knownStale \in [Passers -> SUBSET Pushes] /\ faults \in 0..Faults
      /\ headPush \in Nat /\ pass[w].due \subseteq Pushes /\ \A p \in Pushes : p \in Nat
  BY <1>1, RedeliveryAssumption DEF RedeliveryTypeOK, PassRecord
<1>5. q \in pass[w].due
  BY <1>1, <1>3, FirstIsDue
<1>6. \A u \in Passers : u # w => pass'[u] = pass[u] /\ knownStale'[u] = knownStale[u]
  BY <1>4 DEF AskWhetherCurrent, Others
<1>7. \/ /\ q = headPush /\ q \notin Ignored /\ knownStale' = knownStale
         /\ pass'[w].due = pass[w].due /\ pass'[w].accepted = pass[w].accepted /\ pass'[w].stage = "sending"
      \/ /\ ~(q = headPush /\ q \notin Ignored) /\ knownStale'[w] = knownStale[w] \cup {q}
         /\ pass'[w].due = pass[w].due \ {q} /\ pass'[w].accepted = pass[w].accepted
         /\ pass'[w].stage = "asking"
  BY <1>4 DEF AskWhetherCurrent, Others, Relevant, PassRecord
<1>8. q \in Nat /\ q <= headPush
  <2>1. attempts[q] # <<>>
    BY <1>1, <1>5 DEF Ordered, Listed
  <2>. QED  BY <1>1, <1>4, <1>5, <2>1 DEF Ordered, Known
<1>. HIDE DEF q
<1>9. Ordered'
  <2>1. \A u \in Passers : \A p \in pass'[u].due : p \in pass[u].due \/ p \in Due
    BY <1>6, <1>7
  <2>2. ASSUME NEW u \in Passers, NEW p \in knownStale'[u]
        PROVE  p \in knownStale[u] \/ p < headPush \/ p \in Ignored
    BY <1>4, <1>6, <1>7, <1>8
  <2>. QED  BY <1>1, <1>3, <2>1, <2>2, PassOrders
<1>10. ASSUME NEW p \in Pushes, Unheard(p)', Spent' <= MaxRedeliveries PROVE InTime(p)'
  <2>1. faults' \in 0..Faults /\ faults' <= faults
    BY <1>3, <1>4
  <2>2. /\ Unheard(p) /\ Spent <= MaxRedeliveries /\ InTime(p) /\ Timely(p)' /\ (Ripe(p)' => Ripe(p))
        /\ (passed' # {} => passed # {}) /\ Missed(p) => Missed(p)'
    BY <1>3, <1>10, <2>1, Lingers
  <2>3. ASSUME Ripe(p)', ~OnTheWay(p)' PROVE Missed(p)' /\ \A u \in Passers : InHand(p, u)'
    <3>1. Ripe(p) /\ ~OnTheWay(p)
      BY <1>3, <2>2, <2>3 DEF OnTheWay
    <3>2. Missed(p) /\ \A u \in Passers : InHand(p, u)
      BY <2>2, <3>1 DEF InTime
    <3>3. p \in pass[w].due /\ pass[w].accepted = 0 /\ p = headPush /\ p \notin Ignored
      BY <1>3, <2>2, <3>2 DEF InHand, Unheard
    <3>4. InHand(p, w)'
      <4>1. CASE q = headPush /\ q \notin Ignored
        <5>1. pass'[w].due = pass[w].due /\ pass'[w].accepted = pass[w].accepted
          BY <1>7, <4>1
        <5>2. First(w)' = q
          BY <5>1 DEF First, q
        <5>. QED  BY <3>3, <4>1, <5>1, <5>2 DEF InHand
      <4>2. CASE ~(q = headPush /\ q \notin Ignored)
        BY <1>7, <3>3, <4>2 DEF InHand
      <4>. QED  BY <4>1, <4>2
    <3>5. \A u \in Passers : u # w => InHand(p, u)'
      BY <1>6, <3>2 DEF InHand, First
    <3>. QED  BY <1>3, <2>2, <3>2, <3>4, <3>5
  <2>. QED  BY <2>2, <2>3 DEF InTime
<1>. QED  BY <1>2, <1>9, <1>10 DEF MadeUpInv

\* A worker that is about to send has the push at the head before it.
LEMMA RedeliverMadeUp ==
  ASSUME MadeUpInv, NEW w \in Passers, Redeliver(w)
  PROVE  MadeUpInv'
<1> DEFINE q == First(w)
<1>1. RedeliveryInv /\ RedeliveryTypeOK /\ Ordered /\ Carried /\ Rested
  BY DEF MadeUpInv, RedeliveryInv
<1>2. RedeliveryInv'
  BY <1>1, RedeliverInv
<1>3. /\ UNCHANGED <<attempts, headPush, knownStale, passed, tick, faults>>
      /\ pass[w].stage = "sending" /\ pass[w].due # {} /\ Send(q, TRUE)
      /\ pass' = [Others(w) EXCEPT ![w].accepted = @ + 1]
  BY <1>1 DEF Redeliver, github, Rested
<1>4. pass \in [Passers -> PassRecord] /\ faults \in 0..Faults /\ headPush \in Nat
      /\ \A p \in Pushes : p \in Nat
  BY <1>1, RedeliveryAssumption DEF RedeliveryTypeOK, PassRecord
<1>5. q \in pass[w].due /\ q \in Pushes
  BY <1>1, <1>3, <1>4, FirstIsDue DEF PassRecord
<1>6. \A u \in Passers : u # w => pass'[u] = pass[u]
  BY <1>3, <1>4 DEF Others
<1>7. pass'[w].due = pass[w].due \ {q}
  BY <1>3, <1>4 DEF Others, PassRecord
<1>8. attempts[q] # <<>> /\ q <= headPush
  <2>1. attempts[q] # <<>>
    BY <1>1, <1>5 DEF Ordered, Listed
  <2>. QED  BY <1>1, <1>5, <2>1 DEF Ordered, Known
<1>. HIDE DEF q
<1>9. Ordered'
  <2>1. Known' /\ Repeating' /\ Single' /\ Numbered'
    <3>1. q <= headPush' /\ headPush <= headPush' /\ headPush' \in Nat /\ TRUE \in BOOLEAN
          /\ (TRUE <=> attempts[q] # <<>>) /\ (~TRUE => headPush < q)
      BY <1>3, <1>4, <1>8
    <3>. QED  BY <1>1, <1>3, <1>5, <3>1, SendOrders
  <2>2. Listed'
    BY <1>1, <1>3, <1>6, <1>7 DEF Ordered, Listed
  <2>3. Overtaken'
    BY <1>1, <1>3 DEF Ordered, Overtaken
  <2>. QED  BY <2>1, <2>2, <2>3 DEF Ordered
<1>10. PICK s \in Slots : /\ delivery[s] = Nothing /\ delivery'[s] # Nothing
                          /\ delivery'[s].push = q /\ delivery'[s].again = TRUE
                          /\ \A t \in Slots : t # s => delivery'[t] = delivery[t]
  <2>1. TRUE \in BOOLEAN /\ q \in Pushes /\ Send(q, TRUE) /\ RedeliveryTypeOK
    BY <1>1, <1>3, <1>5
  <2>. QED  BY ONLY <2>1, SendAdds
<1>11. ASSUME NEW p \in Pushes, Unheard(p)', Spent' <= MaxRedeliveries PROVE InTime(p)'
  <2>1. faults' \in 0..Faults /\ faults' <= faults
    BY <1>3, <1>4
  <2>2. InTime(p) /\ Timely(p)' /\ (Ripe(p)' => Ripe(p))
    BY <1>3, <1>11, <2>1, Lingers
  <2>3. ASSUME Ripe(p)', ~OnTheWay(p)' PROVE FALSE
    <3>1. Ripe(p) /\ ~OnTheWay(p) /\ p # q
      BY <1>10, <2>2, <2>3 DEF OnTheWay
    <3>2. InHand(p, w)
      BY <2>2, <3>1 DEF InTime
    <3>. QED  BY <1>3, <3>1, <3>2 DEF InHand, q
  <2>. QED  BY <2>2, <2>3 DEF InTime
<1>. QED  BY <1>2, <1>9, <1>11 DEF MadeUpInv

\* A pass does not end before it has come to an overdue push, unless it gives up.
LEMMA EndsMadeUp ==
  ASSUME WindowSuffices, MadeUpInv, NEW w \in Passers, PassEnds(w) \/ PassAborts(w)
  PROVE  MadeUpInv'
<1>1. RedeliveryInv /\ RedeliveryTypeOK /\ Ordered
  BY DEF MadeUpInv, RedeliveryInv
<1>2. RedeliveryInv'
  BY <1>1, EndsPass
<1>3. /\ UNCHANGED <<attempts, headPush, delivery, knownStale, tick>>
      /\ pass' = [pass EXCEPT ![w] = Resting]
  BY DEF PassEnds, PassAborts, Ended, github
<1>4. pass \in [Passers -> PassRecord] /\ faults \in 0..Faults /\ Faults \in Nat
  BY <1>1, RedeliveryAssumption DEF RedeliveryTypeOK, PassRecord
<1>5. pass'[w] = Resting /\ \A u \in Passers : u # w => pass'[u] = pass[u]
  BY <1>3, <1>4
<1>6. faults' \in 0..Faults /\ faults' <= faults
  BY <1>4 DEF PassEnds, PassAborts, Fault
<1>7. Ordered'
  <2>1. \A u \in Passers : \A p \in pass'[u].due : p \in pass[u].due \/ p \in Due
    BY <1>5 DEF Resting
  <2>. QED  BY <1>1, <1>3, <2>1, PassOrders
<1>8. ASSUME NEW p \in Pushes, Unheard(p)', Spent' <= MaxRedeliveries PROVE InTime(p)'
  <2>1. InTime(p) /\ Timely(p)' /\ (Ripe(p)' => Ripe(p)) /\ (faults' < faults => Missed(p)')
    BY <1>3, <1>6, <1>8, Lingers
  <2>2. ASSUME Ripe(p)', ~OnTheWay(p)' PROVE Missed(p)' /\ \A u \in Passers : InHand(p, u)'
    <3>1. Ripe(p) /\ ~OnTheWay(p)
      BY <1>3, <2>1, <2>2 DEF OnTheWay
    <3>2. \A u \in Passers : InHand(p, u)
      BY <2>1, <3>1 DEF InTime
    <3>3. PassAborts(w)
      <4>1. SUFFICES ASSUME PassEnds(w) PROVE FALSE
        OBVIOUS
      <4>2. p \in pass[w].due /\ pass[w].accepted = 0
        BY <3>2, <4>1 DEF PassEnds, InHand
      <4>3. PassLimit > 0 /\ PassLimit \in Nat
        BY RedeliveryAssumption DEF WindowSuffices
      <4>. QED  BY <4>1, <4>2, <4>3 DEF PassEnds
    <3>4. faults' < faults
      BY <1>4, <3>3 DEF PassAborts, Fault
    <3>5. \A u \in Passers : InHand(p, u)'
      BY <1>5, <3>2 DEF InHand, First, Resting
    <3>. QED  BY <2>1, <3>4, <3>5
  <2>. QED  BY <2>1, <2>2 DEF InTime
<1>. QED  BY <1>2, <1>7, <1>8 DEF MadeUpInv

\* The clock moves on: either the pause is not over, or a pass that should have repeated the
\* push has cost a fault.
LEMMA TickMadeUp ==
  ASSUME WindowSuffices, MadeUpInv, Tick
  PROVE  MadeUpInv'
<1>1. RedeliveryInv /\ RedeliveryTypeOK /\ Ordered /\ Rested
  BY DEF MadeUpInv, RedeliveryInv
<1>2. RedeliveryInv'
  BY <1>1, RedeliveryTick
<1>3. /\ UNCHANGED <<attempts, headPush, delivery, pass, knownStale, faults>>
      /\ passed = Passers /\ passed' = {} /\ tick' = tick + 1
      /\ \A s \in Slots : delivery[s] = Nothing
  BY DEF Tick, github
<1>4. Ordered'
  BY <1>1, <1>3 DEF Ordered, Known, Listed, Overtaken, Repeating, Single, Numbered, OnTheWay
<1>5. \A w \in Passers : pass'[w].stage = "none"
  BY <1>1, <1>3 DEF Rested
<1>6. ASSUME NEW p \in Pushes, Unheard(p)', Spent' <= MaxRedeliveries PROVE InTime(p)'
  <2>1. Unheard(p) /\ Spent <= MaxRedeliveries /\ attempts[p] # <<>>
    BY <1>3, <1>6 DEF Unheard, Spent
  <2>2. InTime(p)
    BY <2>1 DEF MadeUpInv
  <2>3. /\ Count(p) \in Nat /\ Count(p) >= 1 /\ FirstAt(p) \in Nat /\ LastAt(p) \in Nat /\ tick \in Nat
        /\ Spent \in Nat /\ Count(p) - 1 \in Nat
    BY <1>1, <2>1, AttemptsAre
  <2>4. Count(p)' = Count(p) /\ FirstAt(p)' = FirstAt(p) /\ LastAt(p)' = LastAt(p) /\ Spent' = Spent
    BY <1>3 DEF Count, FirstAt, LastAt, Spent
  <2>5. tick + 1 - FirstAt(p) <= Pauses(Count(p)) + Spent - Count(p)
    <3> DEFINE k == Count(p) - 1
               z == Backoff * 2^k
               f == FirstAt(p)
               l == LastAt(p)
               a == Pauses(Count(p))
               b == Pauses(k)
               n == Count(p)
               e == Spent
    <3>1. k + 1 = Count(p) /\ k \in Nat
      BY <2>3
    <3>2. a = b + z /\ a \in Nat /\ b \in Nat /\ z \in Nat
      BY <2>3, <3>1, PausesGrow
    <3>3. l - f <= b + e - n
      BY <2>2 DEF InTime, Timely
    <3>4. {f, l, n, e, tick} \subseteq Nat
      BY <2>3
    <3>5. CASE Ripe(p)
      <4>1. ~OnTheWay(p)
        BY <1>3 DEF OnTheWay
      <4>2. tick - f < a + e - n
        BY <1>3, <2>2, <3>5, <4>1 DEF InTime, Missed, WindowSuffices
      <4>. HIDE DEF f, a, e, n
      <4>3. tick + 1 - f <= a + e - n
        BY <3>2, <3>4, <4>2
      <4>. QED  BY <4>3 DEF f, a, e, n
    <3>6. CASE ~Ripe(p)
      <4>1. ~(tick - l >= z)
        BY <3>6 DEF Ripe
      <4>. HIDE DEF f, l, a, b, e, n, z, k
      <4>2. tick + 1 - f <= a + e - n
        BY <3>2, <3>3, <3>4, <4>1
      <4>. QED  BY <4>2 DEF f, a, e, n
    <3>. QED  BY <3>5, <3>6
  <2>6. Timely(p)'
    <3>1. Pauses(Count(p)') = Pauses(Count(p)) /\ Pauses(Count(p)' - 1) = Pauses(Count(p) - 1)
      BY <2>4
    <3>2. /\ Count(p) <= Spent /\ LastAt(p) - FirstAt(p) <= Pauses(Count(p) - 1) + Spent - Count(p)
      BY <2>2 DEF InTime, Timely
    <3>3. tick' = tick + 1
      BY <1>3
    <3>4. Count(p)' <= Spent'
      BY ONLY <2>4, <3>2
    <3>5. LastAt(p)' - FirstAt(p)' <= Pauses(Count(p)' - 1) + Spent' - Count(p)'
      BY ONLY <2>4, <3>1, <3>2
    <3>6. tick' - FirstAt(p)' <= Pauses(Count(p)') + Spent' - Count(p)'
      <4>1. tick' - FirstAt(p)' = tick + 1 - FirstAt(p)
        BY <2>3, <2>4, <3>3
      <4>2. Pauses(Count(p)') + Spent' - Count(p)' = Pauses(Count(p)) + Spent - Count(p)
        BY ONLY <2>4, <3>1
      <4>. QED  BY ONLY <2>5, <4>1, <4>2
    <3>. QED  BY ONLY <3>4, <3>5, <3>6 DEF Timely
  <2>7. Missed(p)' /\ \A w \in Passers : InHand(p, w)'
    BY <1>3, <1>5 DEF Missed, InHand
  <2>. QED  BY <2>6, <2>7 DEF InTime
<1>. QED  BY <1>2, <1>4, <1>6 DEF MadeUpInv

LEMMA MadeUpInvNext ==
  ASSUME WindowSuffices, MadeUpInv, [RedeliveryNext]_redeliveryVars
  PROVE  MadeUpInv'
<1>1. CASE UNCHANGED redeliveryVars
  <2>1. RedeliveryInv'
    BY <1>1, RedeliveryInvNext DEF MadeUpInv
  <2>2. UNCHANGED <<attempts, headPush, delivery, pass, knownStale, passed, tick, faults>>
    BY <1>1 DEF redeliveryVars
  <2>3. Ordered' /\ \A p \in Pushes : Unheard(p)' /\ Spent' <= MaxRedeliveries => InTime(p)'
    BY <2>2, NothingMoves
  <2>. QED  BY <2>1, <2>3 DEF MadeUpInv
<1>2. CASE \E p \in Pushes : Push(p) \/ RunEnds(p)
  BY <1>2, PushMadeUp, RunEndsMadeUp
<1>3. CASE \E s \in Slots : Intake(s) \/ InsertRun(s) \/ EnqueueRun(s) \/ EnqueueFails(s) \/ IntakeFails(s)
  BY <1>3, IntakeMadeUp
<1>4. CASE \E w \in Passers : PassBegins(w) \/ AskWhetherCurrent(w) \/ Redeliver(w)
                              \/ PassEnds(w) \/ PassAborts(w)
  BY <1>4, PassBeginsMadeUp, AskMadeUp, RedeliverMadeUp, EndsMadeUp
<1>5. CASE Tick
  BY <1>5, TickMadeUp
<1>. QED  BY <1>1, <1>2, <1>3, <1>4, <1>5 DEF RedeliveryNext

\* As long as no more goes wrong than there are attempts, no push is lost: whatever fails, each
\* failed attempt and each pass that gives up has used up one of the failures, so the pauses add
\* up to less than the window and a pass comes in time (redeliver_failed_webhooks).
THEOREM PushesAreMadeUp == ASSUME WindowSuffices PROVE RedeliverySpec => []PushIsMadeUp
<1>1. RedeliveryInit => MadeUpInv
  <2>. SUFFICES ASSUME RedeliveryInit PROVE MadeUpInv
    OBVIOUS
  <2>1. RedeliveryInv
    BY RedeliveryInvInit
  <2>2. \A p \in Pushes : attempts[p] = <<>> /\ ~OnTheWay(p)
    BY DEF RedeliveryInit, OnTheWay
  <2>3. Ordered
    BY <2>2 DEF RedeliveryInit, Ordered, Known, Listed, Overtaken, Repeating, Single, Numbered, Nothing, Resting
  <2>. QED  BY <2>1, <2>2, <2>3 DEF MadeUpInv, Unheard
<1>2. MadeUpInv => PushIsMadeUp
  <2>. SUFFICES ASSUME MadeUpInv, NEW p \in Pushes \ Ignored, p = headPush, attempts[p] # <<>>, Old(p),
                       Faults - faults <= MaxRedeliveries, ~WasMadeUp(p)
                PROVE  FALSE
    BY DEF PushIsMadeUp
  <2>1. Unheard(p)
    BY DEF Unheard, WasMadeUp
  <2>2. Timely(p) /\ Spent <= MaxRedeliveries
    BY <2>1 DEF MadeUpInv, InTime, Spent
  <2>3. /\ Count(p) \in Nat /\ Count(p) >= 1 /\ FirstAt(p) \in Nat /\ tick \in Nat /\ Spent \in Nat
        /\ MaxRedeliveries \in Nat /\ Window \in Nat
    BY AttemptsAre, RedeliveryAssumption DEF MadeUpInv, RedeliveryInv
  <2>4. Pauses(Count(p)) + MaxRedeliveries - Count(p) <= Window
    <3>1. Count(p) <= MaxRedeliveries
      BY <2>2, <2>3 DEF Timely
    <3>. QED  BY <2>3, <3>1, PausesSuffice
  <2>5. Pauses(Count(p)) \in Nat
    BY <2>3, PausesGrow
  <2>6. tick - FirstAt(p) <= Pauses(Count(p)) + Spent - Count(p)
    BY <2>2 DEF Timely
  <2>7. tick - FirstAt(p) <= Window
    BY <2>2, <2>3, <2>4, <2>5, <2>6
  <2>. QED  BY <2>3, <2>7 DEF Old, FirstAt
<1>3. MadeUpInv /\ [RedeliveryNext]_redeliveryVars => MadeUpInv'
  BY MadeUpInvNext
<1>. QED  BY <1>1, <1>2, <1>3, PTL DEF RedeliverySpec

\* ---- a request to GitHub ---------------------------------------------------

\* What the attempts of a request say of what the host has done: it performs at most
\* once per attempt, and while another attempt is to come one is left.
Bounded(c) ==
    /\ tries[c].waited <= Budget
    /\ performed[c] <= MaxAttempts
    /\ tries[c].hits <= tries[c].attempt
    /\ step[c] # "over" => performed[c] <= tries[c].attempt + (IF step[c] = "performed" THEN 1 ELSE 0)
    /\ step[c] \notin {"over", "lastCheck"} => tries[c].attempt < MaxAttempts

\* What a request that must not be repeated knows when it is sent: the host has not
\* performed it; and what its outcome says of that.
Once(c) ==
    /\ performed[c] \in {0, 1}
    /\ step[c] \in {"token", "fetch", "store", "send"} => performed[c] = 0
    /\ step[c] = "performed" => performed[c] = 1
    /\ outcome[c] # "none" => step[c] = "over"
    /\ outcome[c] \in {"none", "returned", "unavailable", "auth", "refused", "unknown"}
    /\ outcome[c] = "returned" => performed[c] = 1
    /\ outcome[c] \in {"unavailable", "auth", "refused"} => performed[c] = 0

RequestSound(c) == Bounded(c) /\ (Creates(c) => Once(c))
Tries == [attempt : 0..MaxAttempts, hits : 0..MaxAttempts, waited : Nat, refreshed : BOOLEAN]
RequestInv == RequestTypeOK /\ \A c \in Callers : RequestSound(c)

\* ---- lemmas ----------------------------------------------------------------

LEMMA LimitWaitType ==
  ASSUME NEW a \in Limited, NEW hits \in Nat \ {0}
  PROVE  LimitWait(a, hits) \in Nat
<1>1. hits - 1 \in Nat
  OBVIOUS
<1>2. 2 ^ (hits - 1) \in Nat
  BY <1>1, PowerType
<1>3. \A m, n \in Nat : m * n \in Nat
  OBVIOUS
<1>4. DefaultWait \in Nat
  BY RequestAssumption
<1>5. DefaultWait * 2 ^ (hits - 1) \in Nat
  BY <1>2, <1>3, <1>4, Zenon
<1>6. a.after \in Waits \cup {NoWait} /\ a.reset \in Waits \cup {NoWait}
  BY DEF Limited
<1>7. a.after # NoWait => a.after \in Nat
  BY <1>6, RequestAssumption
<1>8. a.reset # NoWait => a.reset \in Nat
  BY <1>6, RequestAssumption
<1>9. \A n \in Nat : n + 1 \in Nat
  OBVIOUS
<1>. QED  BY <1>5, <1>7, <1>8, <1>9, Zenon DEF LimitWait

\* A request whose step, attempts, effects and outcome stand still stays sound.
LEMMA Frame ==
  ASSUME NEW d \in Callers, RequestSound(d),
         step'[d] = step[d], tries'[d] = tries[d], performed'[d] = performed[d],
         outcome'[d] = outcome[d]
  PROVE  RequestSound(d)'
BY DEF RequestSound, Bounded, Once, Creates

\* A request ends soundly when its outcome is true of what the host has done.
LEMMA EndIsSound ==
  ASSUME RequestInv, NEW c \in Callers, NEW o \in Outcomes \ {"none"}, End(c, o),
         UNCHANGED <<performed, valid>>, cached' \in 0..MaxTokens,
         Creates(c) => /\ o \in {"returned", "unavailable", "auth", "refused", "unknown"}
                       /\ o = "returned" => performed[c] = 1
                       /\ o \in {"unavailable", "auth", "refused"} => performed[c] = 0
  PROVE  RequestInv'
<1>1. RequestTypeOK'
  BY RequestAssumption DEF RequestInv, RequestTypeOK, End, Goto, NotTried, Steps, Outcomes
<1>2. ASSUME NEW d \in Callers PROVE RequestSound(d)'
  <2>1. CASE d = c
    <3>1. step'[c] = "over" /\ outcome'[c] = o /\ tries'[c] = NotTried /\ performed'[c] = performed[c]
      BY DEF End, Goto, RequestInv, RequestTypeOK
    <3>2. Bounded(c)'
      BY <3>1, RequestAssumption DEF Bounded, NotTried, RequestInv, RequestSound
    <3>3. Creates(c)' => Once(c)'
      BY <3>1 DEF Once, RequestInv, RequestSound, Creates
    <3>. QED  BY <2>1, <3>2, <3>3 DEF RequestSound
  <2>2. CASE d # c
    BY <2>2, Frame DEF RequestInv, RequestTypeOK, End, Goto
  <2>. QED  BY <2>1, <2>2
<1>. QED  BY <1>1, <1>2 DEF RequestInv

\* A request that goes on soundly: the others stand still.
LEMMA RequestGoesOn ==
  ASSUME RequestInv, RequestTypeOK', NEW c \in Callers, RequestSound(c)',
         \A d \in Callers \ {c} :
            /\ step'[d] = step[d] /\ tries'[d] = tries[d]
            /\ performed'[d] = performed[d] /\ outcome'[d] = outcome[d]
  PROVE  RequestInv'
<1>. SUFFICES ASSUME NEW d \in Callers PROVE RequestSound(d)'
  BY DEF RequestInv
<1>1. CASE d = c
  BY <1>1
<1>2. CASE d # c
  BY <1>2, Frame DEF RequestInv
<1>. QED  BY <1>1, <1>2

\* ---- the invariant ---------------------------------------------------------

LEMMA InitIsSound == RequestInit => RequestInv
<1> SUFFICES ASSUME RequestInit PROVE RequestInv
  OBVIOUS
<1>1. RequestTypeOK
  BY RequestAssumption DEF RequestInit, RequestTypeOK, NotTried, Steps, Outcomes
<1>2. ASSUME NEW c \in Callers PROVE RequestSound(c)
  BY RequestAssumption DEF RequestInit, RequestSound, Bounded, Once, NotTried
<1>. QED  BY <1>1, <1>2 DEF RequestInv

LEMMA TakeTokenIsSound ==
  ASSUME RequestInv, NEW c \in Callers, TakeToken(c)
  PROVE  RequestInv'
<1>1. RequestTypeOK'
  BY DEF RequestInv, RequestTypeOK, TakeToken, Goto, Steps
<1>2. RequestSound(c)'
  BY DEF RequestInv, RequestTypeOK, TakeToken, Goto, RequestSound, Bounded, Once, Creates
<1>. QED  BY <1>1, <1>2, RequestGoesOn DEF RequestInv, RequestTypeOK, TakeToken, Goto

LEMMA FetchTokenIsSound ==
  ASSUME RequestInv, NEW c \in Callers, FetchToken(c)
  PROVE  RequestInv'
<1>1. ASSUME Goto(c, "store"), bearer' = [bearer EXCEPT ![c] = valid], UNCHANGED <<outcome, tries>>
      PROVE  RequestInv'
  <2>1. RequestTypeOK'
    BY <1>1, RequestAssumption DEF RequestInv, RequestTypeOK, FetchToken, Goto, Steps
  <2>2. RequestSound(c)'
    BY <1>1 DEF RequestInv, RequestTypeOK, FetchToken, Goto, RequestSound, Bounded, Once, Creates
  <2>. QED  BY <1>1, <2>1, <2>2, RequestGoesOn DEF RequestInv, RequestTypeOK, FetchToken, Goto
<1>2. ASSUME NEW o \in {"auth", "unavailable"}, End(c, o)
      PROVE  RequestInv'
  BY <1>2, EndIsSound DEF FetchToken, RequestInv, RequestTypeOK, Outcomes, RequestSound, Once
<1>. QED  BY <1>1, <1>2 DEF FetchToken

LEMMA StoreTokenIsSound ==
  ASSUME RequestInv, NEW c \in Callers, StoreToken(c)
  PROVE  RequestInv'
<1>1. RequestTypeOK'
  BY DEF RequestInv, RequestTypeOK, StoreToken, Goto, Steps
<1>2. RequestSound(c)'
  BY DEF RequestInv, RequestTypeOK, StoreToken, Goto, RequestSound, Bounded, Once, Creates
<1>. QED  BY <1>1, <1>2, RequestGoesOn DEF RequestInv, RequestTypeOK, StoreToken, Goto

LEMMA HostPerformsIsSound ==
  ASSUME RequestInv, NEW c \in Callers, HostPerforms(c)
  PROVE  RequestInv'
<1>1. RequestTypeOK'
  BY DEF RequestInv, RequestTypeOK, HostPerforms, Goto, Steps
<1>2. /\ step[c] = "send" /\ step'[c] = "performed" /\ performed'[c] = performed[c] + 1
      /\ tries' = tries /\ outcome' = outcome /\ performed[c] \in Nat /\ tries[c].attempt \in Nat
  BY DEF RequestInv, RequestTypeOK, HostPerforms, Goto
<1>3. Bounded(c)'
  BY <1>2, RequestAssumption DEF RequestInv, RequestSound, Bounded
<1>4. Creates(c)' => Once(c)'
  BY <1>2 DEF RequestInv, RequestSound, Once, Creates
<1>5. RequestSound(c)'
  BY <1>3, <1>4 DEF RequestSound
<1>. QED  BY <1>1, <1>5, RequestGoesOn DEF RequestInv, RequestTypeOK, HostPerforms, Goto

\* What the answers of the host tell of what it has done: one that refuses comes
\* before the effect, and one that confirms comes after it.
LEMMA AnswerTells ==
  ASSUME RequestInv, NEW c \in Callers, step[c] \in {"send", "performed"}, NEW a \in MayAnswer(c)
  PROVE  /\ a.kind = "limited" => a \in Limited
         /\ a.kind = "unauthorized" => step[c] = "send"
         /\ a.kind = "ok" => step[c] = "performed"
         /\ a.kind \notin {"ok", "badBody", "server", "broken"} => step[c] = "send"
BY DEF MayAnswer, Limited, Plain

LEMMA RejectedIsSound ==
  ASSUME RequestInv, NEW c \in Callers, step[c] = "send", Rejected(c), UNCHANGED <<performed, valid>>
  PROVE  RequestInv'
<1>1. ASSUME End(c, "auth"), UNCHANGED cached
      PROVE  RequestInv'
  BY <1>1, EndIsSound DEF RequestInv, RequestTypeOK, Outcomes, RequestSound, Once
<1>2. ASSUME cached' = 0, tries' = [tries EXCEPT ![c].refreshed = TRUE], Goto(c, "token"),
             UNCHANGED <<outcome, bearer>>
      PROVE  RequestInv'
  <2>1. tries[c] \in Tries
    BY DEF RequestInv, RequestTypeOK, Tries
  <2>2. /\ step'[c] = "token" /\ tries'[c] = [tries[c] EXCEPT !.refreshed = TRUE]
        /\ UNCHANGED <<performed, outcome>>
    BY <1>2 DEF RequestInv, RequestTypeOK, Goto
  <2>3. /\ tries'[c] \in Tries /\ tries'[c].waited = tries[c].waited
        /\ tries'[c].attempt = tries[c].attempt /\ tries'[c].hits = tries[c].hits
    BY <2>1, <2>2 DEF Tries
  <2>4. RequestTypeOK'
    BY <1>2, <2>3, RequestAssumption DEF RequestInv, RequestTypeOK, Goto, Steps, Tries
  <2>5. RequestSound(c)'
    BY <2>2, <2>3 DEF RequestInv, RequestSound, Bounded, Once, Creates
  <2>. QED  BY <1>2, <2>4, <2>5, RequestGoesOn DEF RequestInv, RequestTypeOK, Goto
<1>. QED  BY <1>1, <1>2 DEF Rejected

LEMMA TryAgainIsSound ==
  ASSUME RequestInv, NEW c \in Callers, step[c] \in {"send", "performed"}, NEW a \in MayAnswer(c),
         TryAgain(c, a), UNCHANGED <<performed, valid>>
  PROVE  RequestInv'
<1> DEFINE t == tries[c]
           limited == a.kind = "limited"
           hits == IF limited THEN t.hits + 1 ELSE t.hits
           pause == IF limited THEN LimitWait(a, hits) ELSE 0
           exhausted == t.attempt + 1 >= MaxAttempts
           givesUp == exhausted \/ (limited /\ t.waited + pause > Budget)
<1>1. /\ t \in Tries /\ t.hits <= t.attempt
      /\ t.attempt \in 0..MaxAttempts /\ t.hits \in 0..MaxAttempts /\ t.waited \in Nat
      /\ t.refreshed \in BOOLEAN /\ t.attempt < MaxAttempts /\ t.waited <= Budget
      /\ MaxAttempts \in Nat /\ Budget \in Nat
  BY RequestAssumption DEF RequestInv, RequestTypeOK, RequestSound, Bounded, Tries
<1>2. pause \in Nat
  <2>1. ASSUME limited PROVE LimitWait(a, hits) \in Nat
    BY <1>1, <2>1, LimitWaitType, AnswerTells
  <2>. QED  BY <2>1
<1>3. CASE givesUp /\ ~Creates(c)
  <2>1. End(c, "unavailable") /\ UNCHANGED cached
    BY <1>3 DEF TryAgain
  <2>. QED  BY <1>3, <2>1, EndIsSound DEF RequestInv, RequestTypeOK, Outcomes
<1>4. CASE ~(givesUp /\ ~Creates(c))
  <2> DEFINE waits == IF givesUp THEN t.waited ELSE t.waited + pause
             next == IF givesUp THEN "lastCheck" ELSE "pause"
  <2>1. /\ tries' = [tries EXCEPT ![c].attempt = @ + 1, ![c].hits = hits,
                                  ![c].waited = IF givesUp THEN @ ELSE @ + pause]
        /\ Goto(c, next) /\ UNCHANGED <<outcome, bearer, cached>>
    BY <1>4 DEF TryAgain
  <2>2. tries'[c] = [attempt |-> t.attempt + 1, hits |-> hits, waited |-> waits, refreshed |-> t.refreshed]
    BY <2>1, <1>1 DEF RequestInv, RequestTypeOK, Tries
  <2>3. /\ waits \in Nat /\ waits <= Budget
        /\ t.attempt + 1 \in 0..MaxAttempts
        /\ hits \in 0..MaxAttempts
        /\ ~givesUp => t.attempt + 1 < MaxAttempts
    BY <1>1, <1>2
  <2> HIDE DEF t, hits, pause, limited, exhausted, givesUp, waits
  <2>4. tries'[c] \in Tries /\ tries'[c].waited = waits /\ tries'[c].hits = hits
        /\ tries'[c].attempt = t.attempt + 1
    BY <2>2, <2>3, <1>1 DEF Tries
  <2>5. RequestTypeOK'
    <3>1. tries' \in [Callers -> Tries]
      <4>1. tries' = [tries EXCEPT ![c] = tries'[c]]
        BY <2>1 DEF RequestInv, RequestTypeOK
      <4>. QED  BY <4>1, <2>4 DEF RequestInv, RequestTypeOK, Tries
    <3>2. step' \in [Callers -> Steps]
      BY <2>1 DEF RequestInv, RequestTypeOK, Goto, Steps
    <3>. QED  BY <2>1, <3>1, <3>2 DEF RequestInv, RequestTypeOK, Tries
  <2>6. RequestSound(c)'
    <3>1. step'[c] = next /\ outcome'[c] = outcome[c] /\ performed'[c] = performed[c]
      BY <2>1 DEF RequestInv, RequestTypeOK, Goto
    <3>2. performed[c] <= t.attempt + 1 /\ performed[c] \in Nat /\ t.attempt \in Nat /\ hits <= t.attempt + 1
      BY <1>1 DEF RequestInv, RequestTypeOK, RequestSound, Bounded, t, hits, limited
    <3>3. Bounded(c)'
      BY <2>3, <2>4, <3>1, <3>2 DEF RequestInv, RequestSound, Bounded
    <3>4. Creates(c)' => Once(c)'
      BY <3>1 DEF RequestInv, RequestSound, Once, Creates
    <3>. QED  BY <3>3, <3>4 DEF RequestSound
  <2>. QED  BY <2>1, <2>5, <2>6, RequestGoesOn DEF RequestInv, RequestTypeOK, Goto
<1>. QED  BY <1>3, <1>4

LEMMA HostAnswersIsSound ==
  ASSUME RequestInv, NEW c \in Callers, HostAnswers(c)
  PROVE  RequestInv'
<1>1. PICK a \in MayAnswer(c) : Receive(c, a)
  BY DEF HostAnswers
<1>2. step[c] \in {"send", "performed"} /\ UNCHANGED <<performed, valid>>
  BY <1>1 DEF HostAnswers, Receive
<1>3. CASE a.kind = "unauthorized"
  BY <1>1, <1>2, <1>3, AnswerTells, RejectedIsSound DEF Receive
<1>4. CASE a.kind \in {"limited", "server"} \/ (a.kind = "broken" /\ Creates(c))
  BY <1>1, <1>2, <1>4, TryAgainIsSound DEF Receive
<1>5. CASE ~(a.kind \in {"unauthorized", "limited", "server"} \/ (a.kind = "broken" /\ Creates(c)))
  <2> DEFINE o == CASE a.kind = "ok" -> "returned"
                    [] a.kind = "badBody" -> "unknown"
                    [] a.kind = "broken" -> "unavailable"
                    [] a.kind = "notFound" /\ KindOf[c] = "read" -> "notFound"
                    [] a.kind = "unprocessable" /\ KindOf[c] = "read" -> "tooLarge"
                    [] OTHER -> "refused"
  <2>1. End(c, o) /\ UNCHANGED cached
    BY <1>1, <1>5 DEF Receive
  <2>2. o \in Outcomes \ {"none"}
    BY DEF Outcomes
  <2>3. Creates(c) => /\ o \in {"returned", "refused", "unknown"}
                      /\ o = "returned" => a.kind = "ok"
                      /\ o = "refused" => a.kind \notin {"ok", "badBody", "server", "broken"}
    BY <1>5 DEF Creates
  <2>4. Creates(c) => /\ o = "returned" => performed[c] = 1
                      /\ o = "refused" => performed[c] = 0
    BY <1>2, <2>3, AnswerTells DEF RequestInv, RequestSound, Once
  <2> HIDE DEF o
  <2>. QED  BY <1>2, <2>1, <2>2, <2>3, <2>4, EndIsSound DEF RequestInv, RequestTypeOK
<1>. QED  BY <1>3, <1>4, <1>5

LEMMA WakeIsSound ==
  ASSUME RequestInv, NEW c \in Callers, Wake(c)
  PROVE  RequestInv'
<1>1. RequestTypeOK'
  BY DEF RequestInv, RequestTypeOK, Wake, Goto, Steps
<1>2. /\ step[c] = "pause" /\ step'[c] = IF Creates(c) THEN "check" ELSE "send"
      /\ UNCHANGED <<tries, performed, outcome>>
  BY DEF RequestInv, RequestTypeOK, Wake, Goto
<1>3. RequestSound(c)'
  BY <1>2 DEF RequestInv, RequestSound, Bounded, Once, Creates
<1>. QED  BY <1>1, <1>3, RequestGoesOn DEF RequestInv, RequestTypeOK, Wake, Goto

LEMMA CheckIsSound ==
  ASSUME RequestInv, NEW c \in Callers, Check(c)
  PROVE  RequestInv'
<1>1. ASSUME NEW o \in {"unknown", "returned", "unavailable"}, End(c, o),
             o = "returned" => performed[c] > 0, o = "unavailable" => performed[c] = 0
      PROVE  RequestInv'
  <2>1. Creates(c) /\ o = "returned" => performed[c] = 1
    BY <1>1 DEF RequestInv, RequestSound, Once
  <2>. QED  BY <1>1, <2>1, EndIsSound DEF Check, RequestInv, RequestTypeOK, Outcomes
<1>2. ASSUME performed[c] = 0, step[c] = "check", Goto(c, "send"), UNCHANGED <<outcome, tries, bearer>>
      PROVE  RequestInv'
  <2>1. UNCHANGED <<performed, valid, cached>>
    BY DEF Check
  <2>2. RequestTypeOK'
    BY <1>2, <2>1 DEF RequestInv, RequestTypeOK, Goto, Steps
  <2>3. RequestSound(c)'
    BY <1>2, <2>1 DEF RequestInv, RequestTypeOK, Goto, RequestSound, Bounded, Once, Creates
  <2>. QED  BY <1>2, <2>1, <2>2, <2>3, RequestGoesOn DEF RequestInv, RequestTypeOK, Goto
<1>. QED  BY <1>1, <1>2 DEF Check

LEMMA StepIsSound == RequestInv /\ [RequestNext]_requestVars => RequestInv'
<1> SUFFICES ASSUME RequestInv, [RequestNext]_requestVars PROVE RequestInv'
  OBVIOUS
<1>1. ASSUME NEW c \in Callers, RequestStep(c) PROVE RequestInv'
  BY <1>1, TakeTokenIsSound, FetchTokenIsSound, StoreTokenIsSound, HostPerformsIsSound,
     HostAnswersIsSound, WakeIsSound, CheckIsSound DEF RequestStep
<1>2. ASSUME UNCHANGED <<step, tries, bearer, performed, outcome>>, valid' \in 1..MaxTokens,
             cached' \in 0..MaxTokens
      PROVE  RequestInv'
  <2>1. RequestTypeOK'
    BY <1>2 DEF RequestInv, RequestTypeOK
  <2>2. ASSUME NEW c \in Callers PROVE RequestSound(c)'
    BY <1>2, Frame DEF RequestInv
  <2>. QED  BY <2>1, <2>2 DEF RequestInv
<1>3. CASE Revoke
  BY <1>2, <1>3, RequestAssumption DEF Revoke, RequestInv, RequestTypeOK
<1>4. CASE Expire
  BY <1>2, <1>4, RequestAssumption DEF Expire, RequestInv, RequestTypeOK
<1>5. CASE UNCHANGED requestVars
  BY <1>2, <1>5 DEF requestVars, RequestInv, RequestTypeOK
<1>. QED  BY <1>1, <1>3, <1>4, <1>5 DEF RequestNext

\* ---- what follows ----------------------------------------------------------

\* The types of the requests hold, with the attempts within max_attempts (_request).
THEOREM RequestTypes == RequestSpec => []RequestTypeOK
<1>1. RequestInv => RequestTypeOK
  BY DEF RequestInv
<1>. QED  BY <1>1, InitIsSound, StepIsSound, PTL DEF RequestSpec

\* No request waits longer than its budget, whatever pauses the host names, nor is
\* performed more often than max_attempts (_request, _rate_limit_wait).
THEOREM Patience == RequestSpec => []PatienceIsBounded
<1>1. RequestInv => PatienceIsBounded
  BY DEF RequestInv, RequestSound, Bounded, PatienceIsBounded
<1>. QED  BY <1>1, InitIsSound, StepIsSound, PTL DEF RequestSpec

\* A step performs a request that was about to be sent, or answers one, or
\* neither; the other requests do not notice.
LEMMA StepTells ==
  ASSUME RequestInv, NEW c \in Callers, RequestStep(c)
  PROVE  /\ \A d \in Callers \ {c} : performed'[d] = performed[d] /\ outcome'[d] = outcome[d]
         /\ \/ HostPerforms(c)
            \/ /\ performed' = performed
               /\ \/ outcome' = outcome
                  \/ step[c] # "over" /\ step'[c] = "over"
<1>1. CASE HostPerforms(c)
  BY <1>1 DEF HostPerforms, RequestInv, RequestTypeOK
<1>2. ASSUME NEW o, End(c, o), performed' = performed, step[c] # "over"
      PROVE  /\ performed' = performed /\ step[c] # "over" /\ step'[c] = "over"
             /\ \A d \in Callers \ {c} : performed'[d] = performed[d] /\ outcome'[d] = outcome[d]
  BY <1>2 DEF End, Goto, RequestInv, RequestTypeOK
<1>3. CASE TakeToken(c) \/ StoreToken(c) \/ Wake(c)
  BY <1>3 DEF TakeToken, StoreToken, Wake
<1>4. CASE FetchToken(c)
  BY <1>2, <1>4 DEF FetchToken
<1>5. CASE HostAnswers(c)
  <2>1. PICK a \in MayAnswer(c) : Receive(c, a)
    BY <1>5 DEF HostAnswers
  <2>2. performed' = performed /\ step[c] # "over"
    BY <1>5, <2>1 DEF HostAnswers, Receive
  <2>3. outcome' = outcome \/ \E o : End(c, o)
    BY <2>1 DEF Receive, Rejected, TryAgain
  <2>. QED  BY <1>2, <2>2, <2>3
<1>6. CASE Check(c)
  BY <1>2, <1>6 DEF Check
<1>. QED  BY <1>1, <1>3, <1>4, <1>5, <1>6 DEF RequestStep

\* Each step is one of the promise for the request that takes it, or none.
LEMMA PromiseStep ==
  ASSUME RequestInv, RequestInv', [RequestNext]_requestVars
  PROVE  [Promise!PromiseNext]_<<[c \in Creating |-> performed[c]],
                                 [c \in Creating |-> ReplyOf[outcome[c]]]>>
<1> DEFINE effects == [c \in Creating |-> performed[c]]
           reply == [c \in Creating |-> ReplyOf[outcome[c]]]
<1>0. Creating' = Creating /\ Creating \subseteq Callers
  BY DEF Creating, Creates
<1>1. ASSUME UNCHANGED <<performed, outcome>> PROVE UNCHANGED <<effects, reply>>
  BY <1>0, <1>1 DEF ReplyOf
<1>2. ASSUME NEW c \in Callers, RequestStep(c),
             \A d \in Callers \ {c} : performed'[d] = performed[d] /\ outcome'[d] = outcome[d]
      PROVE  Promise!PromiseNext \/ UNCHANGED <<effects, reply>>
  <2>1. CASE c \notin Creating
    <3>1. \A d \in Creating : performed'[d] = performed[d] /\ outcome'[d] = outcome[d]
      BY <1>0, <1>2, <2>1
    <3>. QED  BY <1>0, <3>1 DEF ReplyOf
  <2>2. CASE c \in Creating
    <3>1. Creates(c) /\ Once(c) /\ Once(c)'
      BY <2>2 DEF Creating, RequestInv, RequestSound, Creates
    <3>2. CASE HostPerforms(c)
      <4>1. performed[c] = 0 /\ performed'[c] = 1 /\ outcome' = outcome /\ outcome[c] = "none"
        BY <3>1, <3>2 DEF HostPerforms, Once, RequestInv, RequestTypeOK
      <4>2. effects' = [effects EXCEPT ![c] = 1] /\ reply' = reply
        BY <1>0, <1>2, <2>2, <4>1 DEF ReplyOf
      <4>3. effects[c] = 0 /\ reply[c] = "none"
        BY <2>2, <4>1 DEF ReplyOf
      <4>. QED  BY <2>2, <4>2, <4>3 DEF Promise!PromiseNext, Promise!Perform
    <3>3. CASE performed' = performed /\ outcome' = outcome
      BY <1>1, <3>3
    <3>4. CASE performed' = performed /\ step[c] # "over" /\ step'[c] = "over"
      <4>1. outcome[c] = "none"
        BY <3>1, <3>4 DEF Once
      <4>2. CASE outcome'[c] = "none"
        <5>1. \A d \in Creating : outcome'[d] = outcome[d]
          BY <1>0, <1>2, <4>1, <4>2
        <5>. QED  BY <1>0, <3>4, <5>1 DEF ReplyOf
      <4>3. CASE outcome'[c] # "none"
        <5> DEFINE word == ReplyOf[outcome'[c]]
        <5>1. /\ word \in {"done", "undone", "unknown"}
              /\ word = "done" => performed[c] = 1
              /\ word = "undone" => performed[c] = 0
          BY <3>1, <3>4, <4>3 DEF Once, ReplyOf
        <5>2. effects[c] = performed[c] /\ reply[c] = "none"
          BY <2>2, <4>1 DEF ReplyOf
        <5>3. effects' = effects
          BY <1>0, <3>4
        <5>4. reply' = [reply EXCEPT ![c] = word]
          BY <1>0, <1>2, <2>2 DEF ReplyOf
        <5> HIDE DEF word
        <5>. QED  BY <2>2, <5>1, <5>2, <5>3, <5>4 DEF Promise!PromiseNext, Promise!Answer
      <4>. QED  BY <4>2, <4>3
    <3>. QED  BY <1>2, <3>2, <3>3, <3>4, StepTells
  <2>. QED  BY <2>1, <2>2
<1>3. CASE \E c \in Callers : RequestStep(c)
  BY <1>2, <1>3, StepTells
<1>4. CASE Revoke \/ Expire \/ UNCHANGED requestVars
  BY <1>1, <1>4 DEF Revoke, Expire, requestVars
<1>. QED  BY <1>3, <1>4 DEF RequestNext

\* The gateway keeps its promise to those that create something: their request takes
\* effect at most once, and the answer they get is true (_request with already_done).
THEOREM RequestImplements == RequestSpec => KeepsRequestPromise
<1>1. RequestInit => Promise!PromiseInit
  BY DEF RequestInit, Promise!PromiseInit, Creating, ReplyOf
<1>2. RequestInv /\ RequestInv' /\ [RequestNext]_requestVars
        => [Promise!PromiseNext]_<<[c \in Creating |-> performed[c]],
                                   [c \in Creating |-> ReplyOf[outcome[c]]]>>
  BY PromiseStep
<1>. QED  BY <1>1, <1>2, InitIsSound, StepIsSound, PTL
          DEF RequestSpec, KeepsRequestPromise, Promise!PromiseSpec

\* ---- the steps of a run -----------------------------------------------------

\* What the journal says of a step, and what the worker still knows of it.
Told ==
    /\ StepTellsTheTruth
    /\ \A i \in DOMAIN journal : Over(i) \/ truth[i] = Running \/ \E k \in unwritten : k[1] = i
    /\ \A k \in unwritten : k[2] = truth[k[1]] /\ k[2].status # "running"
\* The step under way runs, unless the sweep has closed it.
OpenRow == openStep # 0 => truth[openStep] = Running /\ (Over(openStep) => openStep \in swept)
\* Between the steps the worker has none open.
Handled ==
    /\ hand \in {"between", "marking", "closing"} => ~opened
    /\ hand \in {"entered", "inside", "retrying"} => opened
    /\ ~opened \/ hand = "retrying" => openStep = 0
\* What is spent since the start of a step is what no other step was given.
Shared ==
    /\ hand \in {"between", "retrying"} => meter = shared
    /\ opened /\ hand \in {"entered", "inside", "raised", "cancelled", "failing"} => meter = shared + spent
    /\ hand \in {"entered", "inside"} /\ stage \notin ModelStages => spent = 0
Swept ==
    /\ sweeping \in {"none", "closing"} => swept = {}
    /\ sweeping # "none" => runState = "failed"
    /\ sweeping = "done" => \A i \in DOMAIN journal : Over(i) \/ i \in late
\* A run that its own worker ended is closed by it.
Finished == sweeping = "none" /\ runState \in {"completed", "failed"} =>
    /\ hand \in {"closing", "done", "gaveUp", "dead"}
    /\ hand = "done" => \A i \in DOMAIN journal : Over(i)
\* The last step of a run that failed in a stage has not succeeded.
Doomed == Len(journal) > 0 /\ truth[Len(journal)].status # "completed"
FailsVisibly ==
    /\ failure # "none" => hand \notin {"between", "entered", "inside", "retrying"}
    /\ hand \in {"entered", "inside"} /\ ~startLost =>
          Len(journal) > 0 /\ truth[Len(journal)] = Running /\ openStep \in {0, Len(journal)}
    /\ failure = "stage" /\ ~startLost => Doomed

StepsInv == StepsTypeOK /\ Told /\ OpenRow /\ Handled /\ Shared /\ Swept /\ Finished /\ FailsVisibly

LEMMA RowsAre ==
  /\ Running \in Row /\ Stale \in Row /\ Stale.status = "failed" /\ Running.status = "running"
  /\ \A tokens \in Tokens, code \in Codes : /\ Outcome(tokens, code) \in Row
                                            /\ Outcome(tokens, code).status # "running"
                                            /\ code # "none" => Outcome(tokens, code).status = "failed"
BY DEF Running, Stale, Row, Outcome, Tokens, Codes

LEMMA StepsInvInit == StepsInit => StepsInv
<1> SUFFICES ASSUME StepsInit PROVE StepsInv
  OBVIOUS
<1>1. journal = <<>> /\ truth = <<>> /\ Len(journal) = 0 /\ DOMAIN journal = {}
  BY DEF StepsInit
<1>2. StepsTypeOK
  <2>1. /\ journal \in Seq(Row) /\ truth \in Seq(Row) /\ Len(truth) = Len(journal) /\ openStep \in 0..Len(journal)
        /\ unwritten \subseteq (1..Len(journal)) \X Row /\ late \subseteq DOMAIN journal /\ swept \subseteq DOMAIN journal
    BY <1>1 DEF StepsInit
  <2>2. /\ runState \in {"working", "completed", "failed", "cancelled"}
        /\ hand \in Live \cup {"done", "gaveUp", "dead"} /\ opened \in BOOLEAN /\ startLost \in BOOLEAN
        /\ sweeping \in {"none", "closing", "done", "gaveUp"} /\ failure \in {"none", "stage", "completing"}
    BY DEF StepsInit, Live
  <2>3. /\ stage \in 0..Publishing /\ meter \in 0..TokenLimit /\ shared \in 0..TokenLimit
        /\ spent \in 0..TokenLimit /\ retried \in 0..Retries /\ refusals \in 0..Refusals
    BY StepsAssumption DEF StepsInit, Publishing
  <2>. QED  BY <2>1, <2>2, <2>3 DEF StepsTypeOK
<1>. QED  BY <1>1, <1>2 DEF StepsInit, StepsInv, Told, StepTellsTheTruth, OpenRow, Handled, Shared, Swept,
          Finished, FailsVisibly

\* Closing a step: its row and what the worker knows of it.
LEMMA CloseIs ==
  ASSUME StepsTypeOK, Told, OpenRow, NEW used \in BOOLEAN, NEW code \in Codes, NEW result \in Results,
         Close(used, code, result), used /\ openStep # 0 => meter = shared + spent
  PROVE  /\ journal' \in Seq(Row) /\ truth' \in Seq(Row)
         /\ Len(journal') = Len(journal) /\ Len(truth') = Len(journal)
         /\ unwritten' \subseteq (1..Len(journal)) \X Row /\ refusals' \in 0..Refusals
         /\ shared' = (IF used /\ meter > shared THEN meter ELSE shared)
         /\ openStep' = 0 /\ UNCHANGED <<swept, late, startLost>>
         /\ Told' /\ \A i \in DOMAIN journal : Over(i) => Over(i)'
         /\ openStep # 0 => (code # "none" => truth'[openStep].status = "failed")
         /\ \A i \in DOMAIN journal : i # openStep => truth'[i] = truth[i]
<1>1. openStep' = 0 /\ UNCHANGED <<swept, late, startLost>>
      /\ shared' = (IF used /\ meter > shared THEN meter ELSE shared)
  BY DEF Close
<1>2. CASE openStep = 0
  <2>1. UNCHANGED <<refusals, journal, truth, unwritten>>
    BY <1>2 DEF Close
  <2>. QED  BY <1>1, <1>2, <2>1 DEF StepsTypeOK, Told, StepTellsTheTruth, Over
<1>3. CASE openStep # 0
  <2> DEFINE written == Outcome(Share(used), code)
             ended == Outcome(IF used THEN spent ELSE NoTokens, code)
  <2>1. /\ Write(result) /\ truth' = [truth EXCEPT ![openStep] = ended]
        /\ journal' = IF result = "refused" THEN journal ELSE Updated(journal, openStep, written)
        /\ unwritten' = IF result = "applied" THEN unwritten ELSE unwritten \cup {<<openStep, written>>}
    BY <1>3 DEF Close
  <2>2. /\ openStep \in 1..Len(journal) /\ journal \in Seq(Row) /\ truth \in Seq(Row)
        /\ Len(truth) = Len(journal) /\ meter \in 0..TokenLimit /\ shared \in 0..TokenLimit
        /\ spent \in 0..TokenLimit /\ TokenLimit \in Nat /\ refusals \in 0..Refusals
    BY <1>3, StepsAssumption DEF StepsTypeOK
  <2>3. Share(used) = (IF used THEN spent ELSE NoTokens) /\ Share(used) \in Tokens
    BY <1>3, <2>2 DEF Share, Tokens
  <2>4. written = ended /\ written \in Row /\ written.status # "running"
        /\ (code # "none" => written.status = "failed")
    BY <2>3, RowsAre
  <2> HIDE DEF written, ended
  <2>5. /\ truth' \in Seq(Row) /\ Len(truth') = Len(journal) /\ truth'[openStep] = written
        /\ \A i \in 1..Len(journal) : i # openStep => truth'[i] = truth[i]
    BY <2>1, <2>2, <2>4
  <2>6. /\ journal' \in Seq(Row) /\ Len(journal') = Len(journal)
        /\ \A i \in 1..Len(journal) : i # openStep \/ Over(i) => journal'[i] = journal[i]
        /\ ~Over(openStep) => journal'[openStep] = IF result = "refused" THEN journal[openStep] ELSE written
    <3>1. CASE result = "refused" \/ Over(openStep)
      BY <2>1, <2>2, <3>1 DEF Updated, Over
    <3>2. CASE result # "refused" /\ ~Over(openStep)
      <4>1. journal' = [journal EXCEPT ![openStep] = written]
        BY <2>1, <3>2 DEF Updated, Over
      <4>. QED  BY <2>2, <2>4, <3>2, <4>1
    <3>. QED  BY <3>1, <3>2
  <2>7. unwritten' \subseteq (1..Len(journal)) \X Row /\ refusals' \in 0..Refusals
    <3>1. unwritten \subseteq (1..Len(journal)) \X Row /\ <<openStep, written>> \in (1..Len(journal)) \X Row
      BY <2>2, <2>4 DEF StepsTypeOK
    <3>2. unwritten' \subseteq (1..Len(journal)) \X Row
      BY <2>1, <3>1
    <3>3. refusals' \in 0..Refusals
      BY <2>1, <2>2, StepsAssumption DEF Write
    <3>. QED  BY <3>2, <3>3
  <2>8. \A i \in 1..Len(journal) : Over(i) => Over(i)'
    BY <2>6 DEF Over
  <2>9. \A k \in unwritten : k[1] # openStep /\ k[1] \in 1..Len(journal)
    BY <1>3, <2>2, RowsAre DEF Told, OpenRow, StepsTypeOK
  <2>10. StepTellsTheTruth'
    <3> SUFFICES ASSUME NEW i \in 1..Len(journal), Over(i)'
                 PROVE  journal'[i] = truth'[i]
                        \/ (journal'[i] = Stale /\ (truth'[i] = Running \/ i \in swept'))
      BY <2>2, <2>6 DEF StepTellsTheTruth
    <3>1. CASE i # openStep
      <4>1. journal'[i] = journal[i] /\ truth'[i] = truth[i] /\ Over(i)
        BY <2>5, <2>6, <3>1 DEF Over
      <4>. QED  BY <1>1, <2>2, <4>1 DEF Told, StepTellsTheTruth
    <3>2. CASE i = openStep /\ Over(i)
      <4>1. journal[i] = Stale /\ i \in swept
        BY <1>3, <2>2, <3>2, RowsAre DEF Told, StepTellsTheTruth, OpenRow, Over
      <4>. QED  BY <1>1, <2>6, <3>2, <4>1
    <3>3. CASE i = openStep /\ ~Over(i)
      BY <2>2, <2>5, <2>6, <3>3 DEF Over
    <3>. QED  BY <3>1, <3>2, <3>3
  <2>11. \A i \in 1..Len(journal) : Over(i)' \/ truth'[i] = Running \/ \E k \in unwritten' : k[1] = i
    <3> SUFFICES ASSUME NEW i \in 1..Len(journal), ~Over(i)'
                 PROVE  truth'[i] = Running \/ \E k \in unwritten' : k[1] = i
      OBVIOUS
    <3>1. CASE i # openStep
      BY <2>1, <2>2, <2>5, <2>8, <3>1 DEF Told
    <3>2. CASE i = openStep
      <4>1. result = "refused"
        BY <2>2, <2>4, <2>6, <2>8, <3>2 DEF Over
      <4>2. <<openStep, written>> \in unwritten'
        BY <2>1, <4>1
      <4>. QED  BY <3>2, <4>2
    <3>. QED  BY <3>1, <3>2
  <2>12. \A k \in unwritten' : k[2] = truth'[k[1]] /\ k[2].status # "running"
    <3>1. ASSUME NEW k \in unwritten PROVE k[2] = truth'[k[1]] /\ k[2].status # "running"
      BY <2>5, <2>9 DEF Told
    <3>2. ASSUME NEW k, k = <<openStep, written>> PROVE k[2] = truth'[k[1]] /\ k[2].status # "running"
      BY <2>4, <2>5, <3>2
    <3>. QED  BY <2>1, <3>1, <3>2
  <2>13. DOMAIN journal = 1..Len(journal) /\ DOMAIN journal' = 1..Len(journal)
    BY <2>2, <2>6
  <2>14. Told'
    BY <2>10, <2>11, <2>12, <2>13 DEF Told
  <2>15. openStep # 0 => (code # "none" => truth'[openStep].status = "failed")
    BY <2>4, <2>5
  <2>. QED  BY <1>1, <1>3, <2>2, <2>5, <2>6, <2>7, <2>8, <2>13, <2>14, <2>15
<1>. QED  BY <1>2, <1>3

\* Opening a step: the row that comes, if it comes, is the last one and runs.
LEMMA OpenIs ==
  ASSUME StepsTypeOK, Told, openStep = 0, NEW result \in Results, Open(result), UNCHANGED <<unwritten, runState>>
  PROVE  /\ journal' \in Seq(Row) /\ truth' \in Seq(Row) /\ Len(truth') = Len(journal')
         /\ openStep' \in 0..Len(journal') /\ refusals' \in 0..Refusals
         /\ unwritten' \subseteq (1..Len(journal')) \X Row /\ spent' = 0 /\ opened' = TRUE
         /\ late \subseteq late' /\ late' \subseteq DOMAIN journal' /\ startLost' \in BOOLEAN /\ swept' = swept
         /\ DOMAIN journal \subseteq DOMAIN journal'
         /\ \A i \in DOMAIN journal : journal'[i] = journal[i] /\ truth'[i] = truth[i]
         /\ \A i \in DOMAIN journal' \ DOMAIN journal : runState = "working" \/ i \in late'
         /\ Told' /\ OpenRow'
         /\ ~startLost' => Len(journal') > 0 /\ truth'[Len(journal')] = Running
                           /\ openStep' \in {0, Len(journal')}
<1>1. /\ journal \in Seq(Row) /\ truth \in Seq(Row) /\ Len(truth) = Len(journal) /\ refusals \in 0..Refusals
      /\ unwritten \subseteq (1..Len(journal)) \X Row /\ late \subseteq 1..Len(journal) /\ swept \subseteq 1..Len(journal)
      /\ Running \in Row /\ Refusals \in Nat
  BY RowsAre, StepsAssumption DEF StepsTypeOK
<1>2. refusals' \in 0..Refusals /\ spent' = 0 /\ opened' = TRUE /\ swept' = swept /\ startLost' \in BOOLEAN
  BY <1>1 DEF Open, Write
<1>3. CASE result = "refused"
  <2>1. UNCHANGED <<journal, truth>> /\ openStep' = 0 /\ startLost' /\ late' = late
    BY <1>3 DEF Open
  <2>2. Told' /\ OpenRow'
    BY <1>1, <1>2, <2>1 DEF Told, StepTellsTheTruth, Over, OpenRow
  <2>. QED  BY <1>1, <1>2, <2>1, <2>2
<1>4. CASE result # "refused"
  <2>1. /\ journal' = Append(journal, Running) /\ truth' = Append(truth, Running)
        /\ openStep' = IF result = "applied" THEN Len(journal) + 1 ELSE openStep
    BY <1>4 DEF Open
  <2>2. /\ journal' \in Seq(Row) /\ truth' \in Seq(Row) /\ Len(journal') = Len(journal) + 1
        /\ Len(truth') = Len(journal) + 1 /\ DOMAIN journal' = 1..(Len(journal) + 1)
        /\ DOMAIN journal = 1..Len(journal)
        /\ \A i \in 1..Len(journal) : journal'[i] = journal[i] /\ truth'[i] = truth[i]
        /\ journal'[Len(journal) + 1] = Running /\ truth'[Len(journal) + 1] = Running
        /\ openStep' \in {0, Len(journal) + 1}
    BY <1>1, <2>1
  <2>3. late' = IF runState = "working" THEN late ELSE late \cup (DOMAIN journal' \ DOMAIN journal)
    BY DEF Open
  <2>4. Told'
    <3>1. StepTellsTheTruth'
      <4> SUFFICES ASSUME NEW i \in 1..(Len(journal) + 1), Over(i)'
                   PROVE  journal'[i] = truth'[i]
                          \/ (journal'[i] = Stale /\ (truth'[i] = Running \/ i \in swept'))
        BY <2>2 DEF StepTellsTheTruth
      <4>1. i \in 1..Len(journal)
        BY <1>1, <2>2, RowsAre DEF Over
      <4>2. Over(i)
        BY <2>2, <4>1 DEF Over
      <4>. QED  BY <1>2, <2>2, <4>1, <4>2 DEF Told, StepTellsTheTruth
    <3>2. ASSUME NEW i \in 1..(Len(journal) + 1)
          PROVE  Over(i)' \/ truth'[i] = Running \/ \E k \in unwritten' : k[1] = i
      <4>1. CASE i = Len(journal) + 1
        BY <2>2, <4>1
      <4>2. CASE i \in 1..Len(journal)
        BY <2>2, <4>2 DEF Told, Over
      <4>. QED  BY <1>1, <4>1, <4>2
    <3>3. \A k \in unwritten' : k[2] = truth'[k[1]] /\ k[2].status # "running"
      BY <1>1, <2>2 DEF Told
    <3>. QED  BY <2>2, <3>1, <3>2, <3>3 DEF Told
  <2>5. OpenRow'
    BY <1>1, <2>2, RowsAre DEF OpenRow, Over
  <2>6. late \subseteq late' /\ late' \subseteq DOMAIN journal'
    <3>1. CASE runState = "working"
      BY <1>1, <2>2, <2>3, <3>1
    <3>2. CASE runState # "working"
      <4>1. late' = late \cup (DOMAIN journal' \ DOMAIN journal)
        BY <2>3, <3>2
      <4>2. late \subseteq DOMAIN journal'
        BY <1>1, <2>2
      <4>. QED  BY <4>1, <4>2
    <3>. QED  BY <3>1, <3>2
  <2>7. \A i \in DOMAIN journal' \ DOMAIN journal : runState = "working" \/ i \in late'
    BY <2>3
  <2>8. unwritten' \subseteq (1..Len(journal')) \X Row
    BY <1>1, <2>2
  <2>. QED  BY <1>1, <1>2, <2>2, <2>4, <2>5, <2>6, <2>7, <2>8
<1>. QED  BY <1>3, <1>4

\* Closing what is left running: nobody's rows are rewritten.
LEMMA AbandonedIs ==
  ASSUME StepsTypeOK, Told, NEW known \in {{}, unwritten}
  PROVE  LET abandoned == Abandoned(journal, known)
         IN /\ abandoned \in Seq(Row) /\ Len(abandoned) = Len(journal)
            /\ \A i \in DOMAIN journal : /\ abandoned[i].status # "running"
                                         /\ Over(i) => abandoned[i] = journal[i]
                                         /\ ~Over(i) => abandoned[i] = Stale \/ abandoned[i] = truth[i]
                                         /\ known = unwritten /\ ~Over(i) /\ abandoned[i] # truth[i] =>
                                               truth[i] = Running
<1> DEFINE abandoned == Abandoned(journal, known)
<1>1. journal \in Seq(Row) /\ unwritten \subseteq (1..Len(journal)) \X Row /\ DOMAIN journal = 1..Len(journal)
  BY DEF StepsTypeOK
<1>2. ASSUME NEW i \in 1..Len(journal)
      PROVE  /\ abandoned[i] \in Row /\ abandoned[i].status # "running" /\ (Over(i) => abandoned[i] = journal[i])
             /\ ~Over(i) => abandoned[i] = Stale \/ abandoned[i] = truth[i]
             /\ known = unwritten /\ ~Over(i) /\ abandoned[i] # truth[i] => truth[i] = Running
  <2>1. CASE Over(i)
    <3>1. abandoned[i] = journal[i]
      BY <1>1, <2>1 DEF Abandoned, Over
    <3>. QED  BY <1>1, <2>1, <3>1 DEF Over
  <2>2. CASE ~Over(i) /\ \E k \in known : k[1] = i
    <3> DEFINE c == CHOOSE k \in known : k[1] = i
    <3>1. c \in known /\ c[1] = i
      BY <2>2
    <3>2. abandoned[i] = c[2]
      BY <1>1, <2>2 DEF Abandoned, Over
    <3> HIDE DEF c
    <3>3. c \in unwritten
      BY <3>1
    <3>. QED  BY <1>1, <2>2, <3>1, <3>2, <3>3 DEF Told
  <2>3. CASE ~Over(i) /\ ~\E k \in known : k[1] = i
    <3>1. abandoned[i] = Stale
      BY <1>1, <2>3 DEF Abandoned, Over
    <3>. QED  BY <1>1, <2>3, <3>1, RowsAre DEF Told
  <2>. QED  BY <2>1, <2>2, <2>3
<1>3. abandoned = [i \in 1..Len(journal) |-> abandoned[i]] /\ Len(journal) \in Nat
  BY <1>1 DEF Abandoned
<1> HIDE DEF abandoned
<1>4. abandoned \in Seq(Row) /\ Len(abandoned) = Len(journal)
  BY <1>2, <1>3
<1>. QED  BY <1>1, <1>2, <1>4 DEF abandoned

\* A step that does not touch the journal.
LEMMA JournalKept ==
  ASSUME Told, OpenRow, UNCHANGED <<journal, truth, unwritten, swept, openStep>>
  PROVE  Told' /\ OpenRow'
BY DEF Told, StepTellsTheTruth, Over, OpenRow

LEMMA EnterStageInv == StepsInv /\ EnterStage => StepsInv'
<1> SUFFICES ASSUME StepsInv, EnterStage PROVE StepsInv'
  OBVIOUS
<1>1. UNCHANGED <<journal, runState, stage, opened, openStep, unwritten, meter, shared, retried, spent, sweeping,
                  refusals, truth, swept, late, startLost, failure>> /\ hand = "entered" /\ hand' = "inside"
  BY DEF EnterStage, recorder, stepHistory
<1>2. StepsTypeOK'
  BY <1>1 DEF StepsInv, StepsTypeOK, Live
<1>3. Told' /\ OpenRow'
  BY <1>1, JournalKept DEF StepsInv
<1>. QED  BY <1>1, <1>2, <1>3 DEF StepsInv, EnterStage, Handled, Shared, Swept, Finished, FailsVisibly, Doomed, Over

LEMMA SpendInv == StepsInv /\ Spend => StepsInv'
<1> SUFFICES ASSUME StepsInv, Spend PROVE StepsInv'
  OBVIOUS
<1>1. UNCHANGED <<journal, runState, hand, stage, opened, openStep, unwritten, shared, retried, sweeping,
                  refusals, truth, swept, late, startLost, failure>>
      /\ hand = "inside" /\ stage \in ModelStages /\ meter < TokenLimit /\ meter' = meter + 1 /\ spent' = spent + 1
  BY DEF Spend, stepHistory
<1>2. meter = shared + spent /\ meter \in Nat /\ shared \in Nat /\ spent \in Nat /\ TokenLimit \in Nat
  BY <1>1, StepsAssumption DEF StepsInv, StepsTypeOK, Handled, Shared
<1>3. meter' \in 0..TokenLimit /\ spent' \in 0..TokenLimit /\ meter' = shared' + spent'
  BY <1>1, <1>2
<1>4. StepsTypeOK'
  BY <1>1, <1>3 DEF StepsInv, StepsTypeOK
<1>5. Told' /\ OpenRow'
  BY <1>1, JournalKept DEF StepsInv
<1>6. Shared'
  BY <1>1, <1>3 DEF Shared
<1>. QED  BY <1>1, <1>4, <1>5, <1>6 DEF StepsInv, Handled, Swept, Finished, FailsVisibly, Doomed, Over

LEMMA StageRaisesInv == StepsInv /\ StageRaises => StepsInv'
<1> SUFFICES ASSUME StepsInv, StageRaises PROVE StepsInv'
  OBVIOUS
<1>1. UNCHANGED <<journal, runState, stage, opened, openStep, unwritten, meter, shared, retried, spent, sweeping,
                  refusals, truth, swept, late, startLost>>
      /\ hand \in {"entered", "inside"} /\ hand' = "raised" /\ failure' = "stage"
  BY DEF StageRaises, recorder, stepHistory
<1>2. StepsTypeOK'
  BY <1>1 DEF StepsInv, StepsTypeOK, Live
<1>3. Told' /\ OpenRow'
  BY <1>1, JournalKept DEF StepsInv
<1>4. FailsVisibly'
  <2>1. ~startLost' => Doomed'
    BY <1>1, RowsAre DEF StepsInv, FailsVisibly, Doomed
  <2>. QED  BY <1>1, <2>1 DEF FailsVisibly
<1>. QED  BY <1>1, <1>2, <1>3, <1>4 DEF StepsInv, Handled, Shared, Swept, Finished, Over

LEMMA CompleteRunInv == StepsInv /\ CompleteRun => StepsInv'
<1> SUFFICES ASSUME StepsInv, CompleteRun PROVE StepsInv'
  OBVIOUS
<1>1. UNCHANGED <<journal, stage, opened, openStep, unwritten, meter, shared, retried, spent, sweeping,
                  refusals, truth, swept, late, startLost, failure>>
      /\ hand = "between" /\ hand' = "closing" /\ runState = "working" /\ runState' = "completed"
  BY DEF CompleteRun, recorder, stepHistory
<1>2. StepsTypeOK'
  BY <1>1 DEF StepsInv, StepsTypeOK, Live
<1>3. Told' /\ OpenRow'
  BY <1>1, JournalKept DEF StepsInv
<1>. QED  BY <1>1, <1>2, <1>3 DEF StepsInv, Handled, Shared, Swept, Finished, FailsVisibly, Doomed, Over

LEMMA CompleteFailsInv == StepsInv /\ CompleteFails => StepsInv'
<1> SUFFICES ASSUME StepsInv, CompleteFails PROVE StepsInv'
  OBVIOUS
<1>1. UNCHANGED <<journal, runState, stage, opened, openStep, unwritten, meter, shared, retried, spent, sweeping,
                  refusals, truth, swept, late, startLost>>
      /\ hand = "between" /\ hand' = "raised" /\ failure' = "completing"
  BY DEF CompleteFails, recorder, stepHistory
<1>2. StepsTypeOK'
  BY <1>1 DEF StepsInv, StepsTypeOK, Live
<1>3. Told' /\ OpenRow'
  BY <1>1, JournalKept DEF StepsInv
<1>. QED  BY <1>1, <1>2, <1>3 DEF StepsInv, Handled, Shared, Swept, Finished, FailsVisibly, Doomed, Over

LEMMA AskCancelledInv == StepsInv /\ AskCancelled => StepsInv'
<1> SUFFICES ASSUME StepsInv, AskCancelled PROVE StepsInv'
  OBVIOUS
<1>1. UNCHANGED <<journal, runState, stage, opened, openStep, unwritten, meter, shared, retried, spent, sweeping,
                  truth, swept, late, startLost, failure>>
      /\ hand = "raised" /\ hand' \in {"cancelled", "failing"}
  BY DEF AskCancelled, recorder, stepHistory
<1>2. refusals' \in 0..Refusals
  BY StepsAssumption DEF StepsInv, StepsTypeOK, AskCancelled, Write
<1>3. StepsTypeOK'
  BY <1>1, <1>2 DEF StepsInv, StepsTypeOK, Live
<1>4. Told' /\ OpenRow'
  BY <1>1, JournalKept DEF StepsInv
<1>. QED  BY <1>1, <1>3, <1>4 DEF StepsInv, Handled, Shared, Swept, Finished, FailsVisibly, Doomed, Over

\* A worker that finds the run over leaves it: no run it ended itself is met here.
LEMMA MarkFailedInv == StepsInv /\ MarkFailed => StepsInv'
<1> SUFFICES ASSUME StepsInv, MarkFailed PROVE StepsInv'
  OBVIOUS
<1>1. UNCHANGED <<journal, stage, opened, openStep, unwritten, meter, shared, retried, spent, sweeping,
                  truth, swept, late, startLost, failure>>
      /\ hand = "marking"
      /\ \/ runState = "working" /\ runState' = "failed" /\ hand' = "closing"
         \/ hand' = "done" /\ runState' = runState
  BY DEF MarkFailed, recorder, stepHistory
<1>2. refusals' \in 0..Refusals
  BY StepsAssumption DEF StepsInv, StepsTypeOK, MarkFailed, Write
<1>3. StepsTypeOK'
  BY <1>1, <1>2 DEF StepsInv, StepsTypeOK, Live
<1>4. Told' /\ OpenRow'
  BY <1>1, JournalKept DEF StepsInv
<1>5. Finished' /\ Swept'
  BY <1>1 DEF StepsInv, Finished, Swept, Over
<1>. QED  BY <1>1, <1>3, <1>4, <1>5 DEF StepsInv, Handled, Shared, FailsVisibly, Doomed

LEMMA StepCrashInv == StepsInv /\ StepCrash => StepsInv'
<1> SUFFICES ASSUME StepsInv, StepCrash PROVE StepsInv'
  OBVIOUS
<1>1. UNCHANGED <<journal, runState, stage, opened, openStep, unwritten, meter, shared, retried, spent, sweeping,
                  refusals, truth, swept, late, startLost, failure>> /\ hand \in Live /\ hand' = "dead"
  BY DEF StepCrash, recorder, stepHistory
<1>2. StepsTypeOK'
  BY <1>1 DEF StepsInv, StepsTypeOK
<1>3. Told' /\ OpenRow'
  BY <1>1, JournalKept DEF StepsInv
<1>. QED  BY <1>1, <1>2, <1>3 DEF StepsInv, Handled, Shared, Swept, Finished, FailsVisibly, Doomed, Over

LEMMA CancelRunInv == StepsInv /\ CancelRun => StepsInv'
<1> SUFFICES ASSUME StepsInv, CancelRun PROVE StepsInv'
  OBVIOUS
<1>1. UNCHANGED <<journal, hand, stage, opened, openStep, unwritten, meter, shared, retried, spent, sweeping,
                  refusals, truth, swept, late, startLost, failure>>
      /\ runState = "working" /\ runState' = "cancelled"
  BY DEF CancelRun, recorder, stepHistory
<1>2. StepsTypeOK'
  BY <1>1 DEF StepsInv, StepsTypeOK
<1>3. Told' /\ OpenRow'
  BY <1>1, JournalKept DEF StepsInv
<1>. QED  BY <1>1, <1>2, <1>3 DEF StepsInv, Handled, Shared, Swept, Finished, FailsVisibly, Doomed, Over

LEMMA SweepRunInv == StepsInv /\ SweepRun => StepsInv'
<1> SUFFICES ASSUME StepsInv, SweepRun PROVE StepsInv'
  OBVIOUS
<1>1. UNCHANGED <<journal, hand, stage, opened, openStep, unwritten, meter, shared, retried, spent,
                  refusals, truth, swept, late, startLost, failure>>
      /\ runState = "working" /\ runState' = "failed" /\ sweeping' = "closing"
  BY DEF SweepRun, recorder, stepHistory
<1>2. StepsTypeOK'
  BY <1>1 DEF StepsInv, StepsTypeOK
<1>3. Told' /\ OpenRow'
  BY <1>1, JournalKept DEF StepsInv
<1>. QED  BY <1>1, <1>2, <1>3 DEF StepsInv, Handled, Shared, Swept, Finished, FailsVisibly, Doomed, Over

\* What the end of the open step keeps, whatever the action that ends it.
LEMMA ClosedIs ==
  ASSUME StepsInv, NEW used \in BOOLEAN, NEW code \in Codes, NEW result \in Results,
         Close(used, code, result), used /\ openStep # 0 => meter = shared + spent,
         UNCHANGED <<runState, stage, sweeping, meter, spent>>,
         opened' \in BOOLEAN, retried' \in 0..Retries,
         hand' \in Live \cup {"done", "gaveUp", "dead"}, failure' \in {"none", "stage", "completing"}
  PROVE  StepsTypeOK' /\ Told' /\ OpenRow' /\ Swept'
<1>1. /\ journal' \in Seq(Row) /\ truth' \in Seq(Row)
      /\ Len(journal') = Len(journal) /\ Len(truth') = Len(journal)
      /\ unwritten' \subseteq (1..Len(journal)) \X Row /\ refusals' \in 0..Refusals
      /\ shared' = (IF used /\ meter > shared THEN meter ELSE shared)
      /\ openStep' = 0 /\ UNCHANGED <<swept, late, startLost>>
      /\ Told' /\ \A i \in DOMAIN journal : Over(i) => Over(i)'
  BY CloseIs DEF StepsInv
<1>2. journal \in Seq(Row) /\ DOMAIN journal' = DOMAIN journal /\ openStep' \in 0..Len(journal')
  BY <1>1 DEF StepsInv, StepsTypeOK
<1>3. StepsTypeOK'
  <2>1. /\ journal' \in Seq(Row) /\ truth' \in Seq(Row) /\ Len(truth') = Len(journal')
        /\ openStep' \in 0..Len(journal') /\ unwritten' \subseteq (1..Len(journal')) \X Row
        /\ late' \subseteq DOMAIN journal' /\ startLost' \in BOOLEAN /\ swept' \subseteq DOMAIN journal'
    BY <1>1, <1>2 DEF StepsInv, StepsTypeOK
  <2>2. /\ stage' \in 0..Publishing /\ meter' \in 0..TokenLimit /\ shared' \in 0..TokenLimit
        /\ spent' \in 0..TokenLimit /\ refusals' \in 0..Refusals
        /\ runState' \in {"working", "completed", "failed", "cancelled"}
        /\ sweeping' \in {"none", "closing", "done", "gaveUp"}
    BY <1>1 DEF StepsInv, StepsTypeOK
  <2>. QED  BY <2>1, <2>2 DEF StepsTypeOK
<1>4. OpenRow'
  BY <1>1 DEF OpenRow
<1>5. Swept'
  BY <1>1, <1>2 DEF StepsInv, Swept
<1>. QED  BY <1>1, <1>3, <1>4, <1>5

LEMMA RetryInv == ASSUME StepsInv, NEW result \in Results, Retry(result) PROVE StepsInv'
<1>1. /\ hand = "inside" /\ stage \in ModelStages /\ retried < Retries /\ retried' = retried + 1
      /\ hand' = "retrying" /\ Close(TRUE, "error", result)
      /\ UNCHANGED <<runState, stage, opened, meter, spent, sweeping, failure>>
  BY DEF Retry
<1>2. opened /\ meter = shared + spent /\ meter \in Nat /\ shared \in Nat /\ spent \in Nat
  BY <1>1, StepsAssumption DEF StepsInv, StepsTypeOK, Handled, Shared
<1>3. retried' \in 0..Retries /\ opened' \in BOOLEAN /\ failure' \in {"none", "stage", "completing"}
      /\ hand' \in Live \cup {"done", "gaveUp", "dead"} /\ "error" \in Codes
  BY <1>1, StepsAssumption DEF StepsInv, StepsTypeOK, Live, Codes
<1>4. StepsTypeOK' /\ Told' /\ OpenRow' /\ Swept'
  BY <1>1, <1>2, <1>3, ClosedIs
<1>5. /\ shared' = (IF meter > shared THEN meter ELSE shared) /\ openStep' = 0 /\ UNCHANGED startLost
  BY <1>1 DEF Close
<1>6. Handled' /\ Finished'
  BY <1>1, <1>2, <1>5 DEF StepsInv, Handled, Finished
<1>7. Shared'
  BY <1>1, <1>2, <1>5 DEF Shared
<1>8. failure = "none"
  BY <1>1, <1>4 DEF StepsInv, StepsTypeOK, FailsVisibly
<1>9. FailsVisibly'
  BY <1>1, <1>8 DEF FailsVisibly
<1>. QED  BY <1>4, <1>6, <1>7, <1>9 DEF StepsInv

LEMMA FinishStageInv == ASSUME StepsInv, NEW result \in Results, FinishStage(result) PROVE StepsInv'
<1>1. PICK used \in BOOLEAN, code \in Codes :
         FinishOpen(used, code, result) /\ (~used => stage \notin ModelStages \/ spent = 0)
  BY DEF FinishStage, Codes
<1>2. /\ hand = "inside" /\ hand' = "between" /\ UNCHANGED <<runState, stage, sweeping, failure>>
      /\ Close(used, code, result) /\ opened' = FALSE /\ UNCHANGED <<meter, retried, spent>>
  BY <1>1 DEF FinishStage, FinishOpen
<1>3. opened /\ meter = shared + spent /\ meter \in Nat /\ shared \in Nat /\ spent \in Nat
      /\ (~used => spent = 0)
  BY <1>1, <1>2, StepsAssumption DEF StepsInv, StepsTypeOK, Handled, Shared
<1>4. retried' \in 0..Retries /\ opened' \in BOOLEAN /\ failure' \in {"none", "stage", "completing"}
      /\ hand' \in Live \cup {"done", "gaveUp", "dead"}
  BY <1>2 DEF StepsInv, StepsTypeOK, Live
<1>5. StepsTypeOK' /\ Told' /\ OpenRow' /\ Swept'
  BY <1>2, <1>3, <1>4, ClosedIs
<1>6. /\ shared' = (IF used /\ meter > shared THEN meter ELSE shared) /\ openStep' = 0 /\ UNCHANGED startLost
  BY <1>2 DEF Close
<1>7. Handled' /\ Finished'
  BY <1>2, <1>6 DEF StepsInv, Handled, Finished
<1>8. Shared'
  BY <1>2, <1>3, <1>6 DEF Shared
<1>9. failure = "none"
  BY <1>2 DEF StepsInv, StepsTypeOK, FailsVisibly
<1>10. FailsVisibly'
  BY <1>2, <1>9 DEF FailsVisibly
<1>. QED  BY <1>5, <1>7, <1>8, <1>10 DEF StepsInv

\* A step closed for a failure is no success: the last step, or one before it, stays so.
LEMMA DoomedIs ==
  ASSUME StepsInv, NEW used \in BOOLEAN, NEW code \in Codes, code # "none", NEW result \in Results,
         Close(used, code, result), used /\ openStep # 0 => meter = shared + spent, Doomed
  PROVE  Doomed'
<1>1. /\ Len(journal') = Len(journal) /\ (openStep # 0 => truth'[openStep].status = "failed")
      /\ \A i \in DOMAIN journal : i # openStep => truth'[i] = truth[i]
  BY CloseIs DEF StepsInv
<1>2. Len(journal) > 0 /\ Len(journal) \in DOMAIN journal
  BY DEF StepsInv, StepsTypeOK, Doomed
<1>3. CASE openStep = Len(journal)
  BY <1>1, <1>2, <1>3 DEF Doomed
<1>4. CASE openStep # Len(journal)
  BY <1>1, <1>2, <1>4 DEF Doomed
<1>. QED  BY <1>3, <1>4

LEMMA ScreeningFailsInv == ASSUME StepsInv, NEW result \in Results, ScreeningFails(result) PROVE StepsInv'
<1>1. /\ hand = "inside" /\ hand' = "raised" /\ failure' = "stage" /\ UNCHANGED <<runState, stage, sweeping>>
      /\ Close(TRUE, "error", result) /\ opened' = FALSE /\ UNCHANGED <<meter, retried, spent>>
  BY DEF ScreeningFails, FinishOpen
<1>2. opened /\ meter = shared + spent
  BY <1>1 DEF StepsInv, Handled, Shared
<1>3. retried' \in 0..Retries /\ opened' \in BOOLEAN /\ failure' \in {"none", "stage", "completing"}
      /\ hand' \in Live \cup {"done", "gaveUp", "dead"} /\ "error" \in Codes
  BY <1>1 DEF StepsInv, StepsTypeOK, Live, Codes
<1>4. StepsTypeOK' /\ Told' /\ OpenRow' /\ Swept'
  BY <1>1, <1>2, <1>3, ClosedIs
<1>5. openStep' = 0 /\ UNCHANGED startLost
  BY <1>1 DEF Close
<1>6. Handled' /\ Finished' /\ Shared'
  BY <1>1, <1>5 DEF StepsInv, Handled, Finished, Shared
<1>7. ~startLost => Doomed
  BY <1>1, RowsAre DEF StepsInv, FailsVisibly, Doomed
<1>8. ~startLost' => Doomed'
  BY <1>1, <1>2, <1>3, <1>5, <1>7, DoomedIs
<1>9. FailsVisibly'
  BY <1>1, <1>8 DEF FailsVisibly
<1>. QED  BY <1>4, <1>6, <1>9 DEF StepsInv

\* The step that was open when the run came to its end.
LEMMA EndStepInv ==
  ASSUME StepsInv, NEW used \in BOOLEAN, NEW code \in Codes \ {"none"}, NEW result \in Results,
         hand \in {"cancelled", "failing"}, hand' \in {"closing", "marking"},
         used => opened,
         IF opened THEN FinishOpen(used, code, result)
            ELSE result = "applied" /\ UNCHANGED <<journal, recorder, refusals, stepHistory>>,
         UNCHANGED <<runState, stage, sweeping, failure>>
  PROVE  StepsInv'
<1>1. hand' \in Live \cup {"done", "gaveUp", "dead"} /\ failure' \in {"none", "stage", "completing"}
  BY DEF StepsInv, StepsTypeOK, Live
<1>2. CASE opened
  <2>1. Close(used, code, result) /\ opened' = FALSE /\ UNCHANGED <<meter, retried, spent>>
    BY <1>2 DEF FinishOpen
  <2>2. meter = shared + spent
    BY <1>2 DEF StepsInv, Shared
  <2>3. retried' \in 0..Retries /\ opened' \in BOOLEAN
    BY <2>1 DEF StepsInv, StepsTypeOK
  <2>4. StepsTypeOK' /\ Told' /\ OpenRow' /\ Swept'
    BY <1>1, <2>1, <2>2, <2>3, ClosedIs
  <2>5. openStep' = 0 /\ UNCHANGED startLost
    BY <2>1 DEF Close
  <2>6. Handled' /\ Shared'
    BY <2>1, <2>5 DEF Handled, Shared
  <2>7. Finished'
    BY DEF StepsInv, Finished
  <2>8. Doomed => Doomed'
    BY <2>1, <2>2, DoomedIs
  <2>9. FailsVisibly'
    BY <2>5, <2>8 DEF StepsInv, FailsVisibly
  <2>. QED  BY <2>4, <2>6, <2>7, <2>9 DEF StepsInv
<1>3. CASE ~opened
  <2>1. UNCHANGED <<journal, opened, openStep, unwritten, meter, shared, retried, spent, refusals, truth,
                    swept, late, startLost>>
    BY <1>3 DEF recorder, stepHistory
  <2>2. StepsTypeOK'
    BY <1>1, <2>1 DEF StepsInv, StepsTypeOK
  <2>3. Told' /\ OpenRow'
    BY <2>1, JournalKept DEF StepsInv
  <2>4. Handled' /\ Shared'
    BY <1>3, <2>1 DEF StepsInv, Handled, Shared
  <2>5. Swept' /\ Finished'
    BY <2>1 DEF StepsInv, Swept, Finished, Over
  <2>6. FailsVisibly'
    BY <2>1 DEF StepsInv, FailsVisibly, Doomed
  <2>. QED  BY <2>2, <2>3, <2>4, <2>5, <2>6 DEF StepsInv
<1>. QED  BY <1>2, <1>3

LEMMA AbandonStepInv == ASSUME StepsInv, NEW result \in Results, AbandonStep(result) PROVE StepsInv'
<1>1. /\ hand = "cancelled" /\ hand' = "closing" /\ UNCHANGED <<runState, stage, sweeping, failure>>
      /\ IF opened THEN FinishOpen(FALSE, "stale", result)
         ELSE result = "applied" /\ UNCHANGED <<journal, recorder, refusals, stepHistory>>
  BY DEF AbandonStep
<1>2. "stale" \in Codes \ {"none"}
  BY DEF Codes
<1>. QED  BY <1>1, <1>2, EndStepInv

LEMMA FailStepInv ==
  ASSUME StepsInv, NEW used \in BOOLEAN, NEW result \in Results, FailStep(used, result) PROVE StepsInv'
<1>1. /\ hand = "failing" /\ hand' = "marking" /\ UNCHANGED <<runState, stage, sweeping, failure>>
      /\ used => opened
      /\ IF opened THEN FinishOpen(used, "error", result)
         ELSE result = "applied" /\ UNCHANGED <<journal, recorder, refusals, stepHistory>>
  BY DEF FailStep
<1>2. "error" \in Codes \ {"none"}
  BY DEF Codes
<1>. QED  BY <1>1, <1>2, EndStepInv

\* What the start of a step keeps, the first of its stage or one more attempt.
LEMMA OpenedIs ==
  ASSUME StepsInv, openStep = 0, NEW result \in Results, Open(result),
         UNCHANGED <<runState, unwritten, meter, shared, sweeping, failure>>,
         stage' \in 0..Publishing, retried' \in 0..Retries, hand' \in Live
  PROVE  StepsTypeOK' /\ Told' /\ OpenRow' /\ Swept'
<1>1. /\ journal' \in Seq(Row) /\ truth' \in Seq(Row) /\ Len(truth') = Len(journal')
      /\ openStep' \in 0..Len(journal') /\ refusals' \in 0..Refusals
      /\ unwritten' \subseteq (1..Len(journal')) \X Row /\ spent' = 0 /\ opened' = TRUE
      /\ late \subseteq late' /\ late' \subseteq DOMAIN journal' /\ startLost' \in BOOLEAN /\ swept' = swept
      /\ DOMAIN journal \subseteq DOMAIN journal'
      /\ \A i \in DOMAIN journal : journal'[i] = journal[i] /\ truth'[i] = truth[i]
      /\ \A i \in DOMAIN journal' \ DOMAIN journal : runState = "working" \/ i \in late'
      /\ Told' /\ OpenRow'
  BY OpenIs DEF StepsInv
<1>2. StepsTypeOK'
  <2>1. swept' \subseteq DOMAIN journal'
    BY <1>1 DEF StepsInv, StepsTypeOK
  <2>2. /\ spent' \in 0..TokenLimit /\ meter' \in 0..TokenLimit /\ shared' \in 0..TokenLimit
        /\ opened' \in BOOLEAN /\ hand' \in Live \cup {"done", "gaveUp", "dead"}
        /\ runState' \in {"working", "completed", "failed", "cancelled"}
        /\ sweeping' \in {"none", "closing", "done", "gaveUp"} /\ failure' \in {"none", "stage", "completing"}
    BY <1>1, StepsAssumption DEF StepsInv, StepsTypeOK
  <2>. QED  BY <1>1, <2>1, <2>2 DEF StepsTypeOK
<1>3. Swept'
  <2>1. sweeping' \in {"none", "closing"} => swept' = {}
    BY <1>1 DEF StepsInv, Swept
  <2>2. sweeping' # "none" => runState' = "failed"
    BY DEF StepsInv, Swept
  <2>3. ASSUME sweeping' = "done", NEW i \in DOMAIN journal' PROVE Over(i)' \/ i \in late'
    <3>1. CASE i \in DOMAIN journal
      BY <1>1, <2>3, <3>1 DEF StepsInv, Swept, Over
    <3>2. CASE i \notin DOMAIN journal
      BY <1>1, <2>2, <2>3, <3>2
    <3>. QED  BY <3>1, <3>2
  <2>. QED  BY <2>1, <2>2, <2>3 DEF Swept
<1>. QED  BY <1>1, <1>2, <1>3

LEMMA StartInv == ASSUME StepsInv, NEW result \in Results, Start(result) PROVE StepsInv'
<1>1. /\ hand = "between" /\ stage < Publishing /\ Open(result) /\ stage' = stage + 1 /\ retried' = 0
      /\ hand' = (IF stage + 1 \in {Fetching, Building} THEN "inside" ELSE "entered")
      /\ UNCHANGED <<runState, unwritten, meter, shared, sweeping, failure>>
  BY DEF Start
<1>2. stage' \in 0..Publishing /\ retried' \in 0..Retries /\ hand' \in Live /\ hand' \in {"entered", "inside"}
  BY <1>1, StepsAssumption DEF StepsInv, StepsTypeOK, Publishing, Live
<1>3. openStep = 0 /\ ~opened /\ meter = shared /\ failure = "none"
  BY <1>1 DEF StepsInv, StepsTypeOK, Handled, Shared, FailsVisibly
<1>4. StepsTypeOK' /\ Told' /\ OpenRow' /\ Swept'
  BY <1>1, <1>2, <1>3, OpenedIs
<1>5. /\ opened' = TRUE /\ spent' = 0
      /\ ~startLost' => Len(journal') > 0 /\ truth'[Len(journal')] = Running /\ openStep' \in {0, Len(journal')}
  BY <1>1, <1>3, OpenIs DEF StepsInv
<1>6. Handled'
  BY <1>2, <1>5 DEF Handled
<1>7. Shared'
  <2>1. shared \in Nat
    BY StepsAssumption DEF StepsInv, StepsTypeOK
  <2>. QED  BY <1>1, <1>2, <1>3, <1>5, <2>1 DEF Shared
<1>8. Finished'
  BY <1>1 DEF StepsInv, Finished
<1>9. FailsVisibly'
  BY <1>1, <1>2, <1>3, <1>5 DEF FailsVisibly
<1>. QED  BY <1>4, <1>6, <1>7, <1>8, <1>9 DEF StepsInv

LEMMA ReopenInv == ASSUME StepsInv, NEW result \in Results, Reopen(result) PROVE StepsInv'
<1>1. /\ hand = "retrying" /\ hand' = "inside" /\ Open(result)
      /\ UNCHANGED <<runState, stage, unwritten, meter, shared, retried, sweeping, failure>>
  BY DEF Reopen
<1>2. stage' \in 0..Publishing /\ retried' \in 0..Retries /\ hand' \in Live
  BY <1>1 DEF StepsInv, StepsTypeOK, Live
<1>3. openStep = 0 /\ meter = shared /\ failure = "none"
  BY <1>1 DEF StepsInv, StepsTypeOK, Handled, Shared, FailsVisibly
<1>4. StepsTypeOK' /\ Told' /\ OpenRow' /\ Swept'
  BY <1>1, <1>2, <1>3, OpenedIs
<1>5. /\ opened' = TRUE /\ spent' = 0
      /\ ~startLost' => Len(journal') > 0 /\ truth'[Len(journal')] = Running /\ openStep' \in {0, Len(journal')}
  BY <1>1, <1>3, OpenIs DEF StepsInv
<1>6. Handled'
  BY <1>1, <1>5 DEF Handled
<1>7. Shared'
  <2>1. shared \in Nat
    BY StepsAssumption DEF StepsInv, StepsTypeOK
  <2>. QED  BY <1>1, <1>3, <1>5, <2>1 DEF Shared
<1>8. Finished'
  BY <1>1 DEF StepsInv, Finished
<1>9. FailsVisibly'
  BY <1>1, <1>3, <1>5 DEF FailsVisibly
<1>. QED  BY <1>4, <1>6, <1>7, <1>8, <1>9 DEF StepsInv

LEMMA CloseAbandonedInv == ASSUME StepsInv, NEW result \in Results, CloseAbandoned(result) PROVE StepsInv'
<1>1. /\ hand = "closing" /\ Write(result)
      /\ journal' = (IF result = "refused" THEN journal ELSE Abandoned(journal, unwritten))
      /\ hand' = (IF result = "refused" THEN "gaveUp" ELSE "done")
      /\ UNCHANGED <<runState, stage, opened, openStep, unwritten, meter, shared, retried, spent, sweeping,
                     truth, swept, late, startLost, failure>>
  BY DEF CloseAbandoned, recorder, stepHistory
<1>2. refusals' \in 0..Refusals
  BY <1>1, StepsAssumption DEF StepsInv, StepsTypeOK, Write
<1>3. openStep = 0 /\ ~opened
  BY <1>1 DEF StepsInv, Handled
<1>4. CASE result = "refused"
  <2>1. journal' = journal /\ hand' = "gaveUp"
    BY <1>1, <1>4
  <2>2. StepsTypeOK'
    BY <1>1, <1>2, <2>1 DEF StepsInv, StepsTypeOK
  <2>3. Told' /\ OpenRow'
    BY <1>1, <2>1, JournalKept DEF StepsInv
  <2>. QED  BY <1>1, <2>1, <2>2, <2>3 DEF StepsInv, Handled, Shared, Swept, Finished, FailsVisibly, Doomed, Over
<1>5. CASE result # "refused"
  <2>1. journal' = Abandoned(journal, unwritten) /\ hand' = "done"
    BY <1>1, <1>5
  <2>2. /\ journal' \in Seq(Row) /\ Len(journal') = Len(journal)
        /\ \A i \in DOMAIN journal : /\ journal'[i].status # "running" /\ (Over(i) => journal'[i] = journal[i])
                                     /\ ~Over(i) => journal'[i] = Stale \/ journal'[i] = truth[i]
                                     /\ ~Over(i) /\ journal'[i] # truth[i] => truth[i] = Running
    BY <2>1, AbandonedIs DEF StepsInv
  <2>3. DOMAIN journal' = DOMAIN journal /\ \A i \in DOMAIN journal : Over(i)'
    BY <2>2 DEF StepsInv, StepsTypeOK, Over
  <2>4. StepsTypeOK'
    BY <1>1, <1>2, <2>1, <2>2, <2>3 DEF StepsInv, StepsTypeOK
  <2>5. Told'
    <3>1. StepTellsTheTruth'
      BY <1>1, <2>2, <2>3 DEF StepsInv, Told, StepTellsTheTruth
    <3>. QED  BY <1>1, <2>3, <3>1 DEF StepsInv, Told
  <2>6. OpenRow'
    BY <1>1, <1>3 DEF OpenRow
  <2>7. Swept' /\ Finished'
    BY <1>1, <2>1, <2>3 DEF StepsInv, Swept, Finished
  <2>8. FailsVisibly'
    BY <1>1, <2>1, <2>2 DEF StepsInv, FailsVisibly, Doomed
  <2>9. Handled' /\ Shared'
    BY <1>1, <1>3, <2>1 DEF Handled, Shared
  <2>. QED  BY <2>4, <2>5, <2>6, <2>7, <2>8, <2>9 DEF StepsInv
<1>. QED  BY <1>4, <1>5

\* The sweep closes what the worker may still be at: from then on the worker's own
\* outcome of those rows is not written.
LEMMA SweepClosesInv == ASSUME StepsInv, NEW result \in Results, SweepCloses(result) PROVE StepsInv'
<1>1. /\ sweeping = "closing" /\ Write(result)
      /\ journal' = (IF result = "refused" THEN journal ELSE Abandoned(journal, {}))
      /\ sweeping' = (IF result = "refused" THEN "gaveUp" ELSE "done")
      /\ swept' = {i \in DOMAIN journal : journal'[i] # journal[i]}
      /\ UNCHANGED <<runState, hand, stage, opened, openStep, unwritten, meter, shared, retried, spent,
                     truth, late, startLost, failure>>
  BY DEF SweepCloses, recorder
<1>2. refusals' \in 0..Refusals
  BY <1>1, StepsAssumption DEF StepsInv, StepsTypeOK, Write
<1>3. swept = {} /\ runState = "failed"
  BY <1>1 DEF StepsInv, Swept
<1>4. CASE result = "refused"
  <2>1. journal' = journal /\ sweeping' = "gaveUp" /\ swept' = {}
    BY <1>1, <1>4
  <2>2. StepsTypeOK'
    BY <1>1, <1>2, <2>1 DEF StepsInv, StepsTypeOK
  <2>3. Told' /\ OpenRow'
    BY <1>1, <1>3, <2>1, JournalKept DEF StepsInv
  <2>. QED  BY <1>1, <1>3, <2>1, <2>2, <2>3 DEF StepsInv, Handled, Shared, Swept, Finished, FailsVisibly, Doomed
<1>5. CASE result # "refused"
  <2>1. journal' = Abandoned(journal, {}) /\ sweeping' = "done"
    BY <1>1, <1>5
  <2>2. /\ journal' \in Seq(Row) /\ Len(journal') = Len(journal)
        /\ \A i \in DOMAIN journal : /\ journal'[i].status # "running" /\ (Over(i) => journal'[i] = journal[i])
                                     /\ ~Over(i) => journal'[i] = Stale \/ journal'[i] = truth[i]
    BY <2>1, AbandonedIs DEF StepsInv
  <2>3. DOMAIN journal' = DOMAIN journal /\ (\A i \in DOMAIN journal : Over(i)') /\ swept' \subseteq DOMAIN journal'
    BY <1>1, <2>2 DEF StepsInv, StepsTypeOK, Over
  <2>4. \A i \in DOMAIN journal : ~Over(i) => i \in swept'
    BY <1>1, <2>2 DEF Over
  <2>5. StepsTypeOK'
    BY <1>1, <1>2, <2>1, <2>2, <2>3 DEF StepsInv, StepsTypeOK
  <2>6. Told'
    <3>1. StepTellsTheTruth'
      <4> SUFFICES ASSUME NEW i \in DOMAIN journal
                   PROVE  journal'[i] = truth'[i]
                          \/ (journal'[i] = Stale /\ (truth'[i] = Running \/ i \in swept'))
        BY <2>3 DEF StepTellsTheTruth
      <4>1. CASE Over(i)
        BY <1>1, <1>3, <2>2, <4>1 DEF StepsInv, Told, StepTellsTheTruth
      <4>2. CASE ~Over(i)
        BY <1>1, <2>2, <2>4, <4>2
      <4>. QED  BY <4>1, <4>2
    <3>. QED  BY <1>1, <2>3, <3>1 DEF StepsInv, Told
  <2>7. OpenRow'
    <3>1. openStep # 0 => openStep \in DOMAIN journal
      BY DEF StepsInv, StepsTypeOK
    <3>2. openStep # 0 => openStep \in swept' /\ truth[openStep] = Running
      BY <1>3, <2>4, <3>1 DEF StepsInv, OpenRow
    <3>. QED  BY <1>1, <3>2 DEF OpenRow
  <2>8. Swept' /\ Finished'
    BY <1>1, <1>3, <2>1, <2>3 DEF Swept, Finished
  <2>9. FailsVisibly'
    BY <1>1, <2>2 DEF StepsInv, FailsVisibly, Doomed
  <2>10. Handled' /\ Shared'
    BY <1>1 DEF StepsInv, Handled, Shared
  <2>. QED  BY <2>5, <2>6, <2>7, <2>8, <2>9, <2>10 DEF StepsInv
<1>. QED  BY <1>4, <1>5

LEMMA StepsInvNext == StepsInv /\ [StepsNext]_stepVars => StepsInv'
<1> SUFFICES ASSUME StepsInv, [StepsNext]_stepVars PROVE StepsInv'
  OBVIOUS
<1>1. CASE EnterStage \/ Spend \/ StageRaises \/ CompleteRun \/ CompleteFails \/ AskCancelled \/ MarkFailed
           \/ StepCrash \/ CancelRun \/ SweepRun
  BY <1>1, EnterStageInv, SpendInv, StageRaisesInv, CompleteRunInv, CompleteFailsInv, AskCancelledInv,
     MarkFailedInv, StepCrashInv, CancelRunInv, SweepRunInv
<1>2. ASSUME NEW result \in Results,
             \/ Start(result) \/ Retry(result) \/ Reopen(result) \/ FinishStage(result)
             \/ ScreeningFails(result) \/ AbandonStep(result) \/ CloseAbandoned(result) \/ SweepCloses(result)
      PROVE  StepsInv'
  BY <1>2, StartInv, RetryInv, ReopenInv, FinishStageInv, ScreeningFailsInv, AbandonStepInv, CloseAbandonedInv,
     SweepClosesInv
<1>3. ASSUME NEW result \in Results, NEW used \in BOOLEAN, FailStep(used, result) PROVE StepsInv'
  BY <1>3, FailStepInv
<1>4. CASE UNCHANGED stepVars
  <2>1. UNCHANGED <<journal, runState, hand, stage, opened, openStep, unwritten, meter, shared, retried, spent,
                    sweeping, refusals, truth, swept, late, startLost, failure>>
    BY <1>4 DEF stepVars, recorder, stepHistory
  <2>2. Told' /\ OpenRow'
    BY <2>1, JournalKept DEF StepsInv
  <2>. QED  BY <2>1, <2>2 DEF StepsInv, StepsTypeOK, Handled, Shared, Swept, Finished, FailsVisibly, Doomed, Over
<1>. QED  BY <1>1, <1>2, <1>3, <1>4 DEF StepsNext

LEMMA StepsInvHolds == StepsSpec => []StepsInv
<1>. QED  BY StepsInvInit, StepsInvNext, PTL DEF StepsSpec

\* A step that is closed tells how it ended: the recorder's outcome of it, or that it
\* was abandoned, which only a lost worker or the sweep explains (abandon_steps,
\* StepRecorder._close).
THEOREM StepsTellTheTruth == StepsSpec => []StepTellsTheTruth
<1>1. StepsInv => StepTellsTheTruth
  BY DEF StepsInv, Told
<1>. QED  BY <1>1, StepsInvHolds, PTL

LEMMA NothingIsLeft == StepsInv => NoStepIsLeft
<1> SUFFICES ASSUME StepsInv PROVE NoStepIsLeft
  OBVIOUS
<1>1. ASSUME runState \in {"completed", "failed"}, Through, NEW i \in DOMAIN journal
      PROVE  Over(i) \/ (i \in late /\ (truth[i] = Running \/ \E k \in unwritten : k[1] = i))
  <2>1. CASE sweeping = "none"
    BY <1>1, <2>1 DEF StepsInv, Finished, Through
  <2>2. CASE sweeping # "none"
    BY <1>1, <2>2 DEF StepsInv, Swept, Told, Through
  <2>. QED  BY <2>1, <2>2
<1>2. ASSUME runState = "failed", sweeping = "none", hand = "done", failure = "stage", ~startLost
      PROVE  \E i \in DOMAIN journal : journal[i].status = "failed"
  <2>1. Doomed /\ Len(journal) \in DOMAIN journal
    BY <1>2 DEF StepsInv, FailsVisibly, StepsTypeOK, Doomed
  <2>2. Over(Len(journal))
    BY <1>2, <2>1 DEF StepsInv, Finished
  <2>3. journal[Len(journal)] = Stale \/ journal[Len(journal)] = truth[Len(journal)]
    BY <2>1, <2>2 DEF StepsInv, Told, StepTellsTheTruth
  <2>4. journal[Len(journal)] \in Row
    BY <2>1 DEF StepsInv, StepsTypeOK
  <2>5. journal[Len(journal)].status = "failed"
    BY <2>1, <2>2, <2>3, <2>4, RowsAre DEF Row, Over, Doomed
  <2>. QED  BY <2>1, <2>5
<1>. QED  BY <1>1, <1>2 DEF NoStepIsLeft

\* Once those who close its steps are through, a run that is over shows no running
\* step but one started late, and a run that failed in a stage shows a failed step
\* (close_abandoned_steps, StepRecorder.fail).
THEOREM NoStepStaysRunning == StepsSpec => []NoStepIsLeft
<1>. QED  BY NothingIsLeft, StepsInvHolds, PTL

\* ---- the stream of run events ------------------------------------------------

FeedStates == [connected : Nat, lower : Nat, cursor : Nat \X Nat,
               recent : SUBSET (FeedRuns \X Nat), announced : SUBSET FeedRuns, more : BOOLEAN]
FeedTyped ==
    /\ rows \in [FeedRuns -> Versions] /\ writing \in [FeedRuns -> Versions]
    /\ client \in [FeedRuns -> Versions] /\ instant \in Nat
    /\ phase \in {"off", "opening", "waiting", "reading"}
    /\ listener \in {"down", "up", "dead"}
    /\ signal \in {"none", "changed", "lost"} /\ catchingUp \in BOOLEAN
    /\ feed \in FeedStates /\ delivered \in [FeedRuns -> Nat]
    /\ snapshot \in [step : {"none", "read", "shown"}, rows : [FeedRuns -> Versions]]

\* A version knows the latest stamp before it and is committed while its own is in the
\* window of every reader.
Stamped ==
    /\ instant > Recheck
    /\ \A r \in FeedRuns :
          /\ rows[r].at <= instant + Skew
          /\ rows[r].number = 0 => rows[r] = NoVersion
          /\ writing[r] # NoVersion =>
                /\ rows[r].number < writing[r].number
                /\ rows[r].at <= writing[r].past /\ rows[r].past <= writing[r].past
                /\ writing[r].at <= instant + Skew /\ instant + Skew < writing[r].at + Recheck
                /\ rows[r] # NoVersion => writing[r].created = rows[r].created

\* What is shown or was read is a committed version, the last one or an earlier one.
Past(v, r) == v = rows[r] \/ (v.number < rows[r].number /\ v.at <= rows[r].past)
ShownWasCommitted == \A r \in FeedRuns : Past(client[r], r) /\ Past(snapshot.rows[r], r)

\* The cursor is no farther than a stamp can be; without a stream nothing is remembered.
CursorIsDated ==
    /\ feed.lower <= feed.cursor[1] /\ feed.cursor[1] <= instant + Skew
    /\ feed.lower + Recheck <= instant + Skew
    /\ phase = "off" => feed = ClosedFeed
    /\ phase \in {"off", "opening"} => snapshot.step = "none" /\ delivered = NothingDelivered
    /\ listener = "down" /\ phase # "off" => signal = "lost"

\* What a connection remembers as given is shown, or the snapshot has it or will, unless
\* the client prefers an earlier version.
GivenIsKnown ==
    /\ \A e \in feed.recent : e[2] = rows[e[1]].at \/ e[2] <= rows[e[1]].past
    /\ \A r \in FeedRuns : <<r, rows[r].at>> \in feed.recent /\ ~Outpaced(r) =>
          \/ snapshot.step = "none"
          \/ snapshot.step = "read" /\ snapshot.rows[r] = rows[r]
          \/ client[r] = rows[r]

\* A run the client has missed since its snapshot is still to come.
Behind(r) == /\ ~Outpaced(r) /\ client[r] # rows[r]
             /\ snapshot.step = "shown" \/ (snapshot.step = "read" /\ snapshot.rows[r] # rows[r])
InWindow(r) == rows[r].at > RecheckFrom(feed)
Pending(r) ==
    \/ listener = "dead" \/ signal = "lost"
    \/ Above(r, feed.cursor) /\ (feed.more \/ phase = "reading" \/ signal = "changed")
    \/ InWindow(r) /\ phase = "reading" /\ ~catchingUp
    \/ /\ InWindow(r) /\ signal = "changed"
       /\ phase = "reading" /\ catchingUp => instant + Skew < rows[r].at + Recheck
NothingIsMissed == \A r \in FeedRuns : Behind(r) => Pending(r)

\* What this connection gave is under the cursor; the last version of a run is remembered,
\* or under the window, and so is the run's creation.
SentOnce ==
    /\ repeated = {}
    /\ \A r \in FeedRuns : delivered[r] # 0 =>
          /\ rows[r] # NoVersion /\ delivered[r] <= rows[r].number
          /\ rows[r].created > feed.connected => r \in feed.announced
          /\ delivered[r] = rows[r].number =>
                /\ ~Before(feed.cursor, Key(r))
                /\ <<r, rows[r].at>> \in feed.recent \/ rows[r].at <= RecheckFrom(feed)

FeedInv == FeedTyped /\ Stamped /\ ShownWasCommitted /\ CursorIsDated /\ GivenIsKnown
           /\ NothingIsMissed /\ SentOnce

\* ---- keys and batches --------------------------------------------------------

LEMMA RunsAreNumbers == \A r \in FeedRuns : r \in Nat
<1>1. FeedRuns \subseteq Nat
  BY FeedAssumption
<1>. QED  BY <1>1

LEMMA MarginsAreNumbers ==
  Recheck \in Nat /\ BatchLimit \in Nat /\ Skew \in Nat /\ Skew < Recheck
BY FeedAssumption

LEMMA KeysAreOrdered ==
  ASSUME NEW p \in Nat \X Nat, NEW q \in Nat \X Nat
  PROVE  /\ p = q \/ Before(p, q) \/ Before(q, p)
         /\ ~(Before(p, q) /\ Before(q, p)) /\ ~Before(p, p)
         /\ \A o \in Nat \X Nat : Before(p, q) /\ Before(q, o) => Before(p, o)
<1>1. /\ p[1] \in Nat /\ p[2] \in Nat /\ q[1] \in Nat /\ q[2] \in Nat
      /\ p = <<p[1], p[2]>> /\ q = <<q[1], q[2]>>
  OBVIOUS
<1>2. p[1] = q[1] /\ p[2] = q[2] => p = q
  BY <1>1
<1>3. ASSUME NEW o \in Nat \X Nat, Before(p, q), Before(q, o) PROVE Before(p, o)
  <2>1. o[1] \in Nat /\ o[2] \in Nat
    OBVIOUS
  <2>. QED  BY <1>1, <1>3, <2>1 DEF Before
<1>. QED  BY <1>1, <1>2, <1>3 DEF Before

\* A finite set of keys has a last one.
LEMMA LastKey ==
  ASSUME NEW K, K \subseteq Nat \X Nat, IsFiniteSet(K), K # {}
  PROVE  \E k \in K : \A o \in K : o = k \/ Before(o, k)
<1> DEFINE Beyond(k) == {o \in K : Before(k, o)}
           C(k) == Cardinality(Beyond(k))
<1>1. ASSUME NEW k \in K PROVE IsFiniteSet(Beyond(k)) /\ C(k) \in Nat
  BY FS_Subset, FS_CardinalityType
<1>2. PICK k \in K : \A o \in K : C(k) <= C(o)
  <2> DEFINE D == {C(o) : o \in K}
  <2>1. D \subseteq Nat /\ D # {}
    BY <1>1
  <2>2. \E m \in D : \A n \in D : m <= n
    BY <2>1, LeastNumber
  <2>. QED  BY <2>2
<1>3. ASSUME NEW o \in K, Before(k, o) PROVE FALSE
  <2>1. Beyond(o) \subseteq Beyond(k) /\ o \in Beyond(k) /\ o \notin Beyond(o)
    BY <1>3, KeysAreOrdered
  <2>2. C(o) < C(k)
    <3>1. Beyond(o) # Beyond(k)
      BY <2>1
    <3> HIDE DEF Beyond
    <3>2. Cardinality(Beyond(o)) < Cardinality(Beyond(k))
      BY <1>1, <2>1, <3>1, SmallerSet
    <3>. QED  BY <3>2
  <2>3. C(k) <= C(o) /\ C(k) \in Nat /\ C(o) \in Nat
    BY <1>1, <1>2
  <2> HIDE DEF C
  <2>. QED  BY <2>2, <2>3
<1>. QED  BY <1>3, KeysAreOrdered

\* What the limit leaves behind comes after all that is read, and the limit is reached.
LEMMA Leftover ==
  ASSUME NEW fresh \in SUBSET FeedRuns, rows \in [FeedRuns -> Versions],
         NEW limited, limited = {r \in fresh : Cardinality({q \in fresh : Before(Key(q), Key(r))}) < BatchLimit},
         NEW r \in fresh, r \notin limited
  PROVE  /\ IsFiniteSet(limited) /\ Cardinality(limited) >= BatchLimit
         /\ \A q \in limited : Before(Key(q), Key(r))
<1> DEFINE Under(q) == {o \in fresh : Before(Key(o), Key(q))}
           C(q) == Cardinality(Under(q))
<1>1. IsFiniteSet(fresh) /\ IsFiniteSet(limited)
  BY FeedAssumption, FS_Subset
<1>2. \A q \in fresh : IsFiniteSet(Under(q)) /\ C(q) \in Nat
  BY <1>1, FS_Subset, FS_CardinalityType
<1>3. \A q \in fresh : Key(q) \in Nat \X Nat
  BY RunsAreNumbers DEF Key, Versions
<1>4. \A q \in fresh : q \in limited <=> C(q) < BatchLimit
  OBVIOUS
<1>5. ASSUME NEW p \in fresh, NEW q \in fresh, Before(Key(p), Key(q)) PROVE C(p) < C(q)
  <2>1. Under(p) \subseteq Under(q) /\ p \in Under(q) /\ p \notin Under(p)
    BY <1>3, <1>5, KeysAreOrdered
  <2>2. Under(p) # Under(q) /\ IsFiniteSet(Under(q))
    BY <1>2, <2>1
  <2> HIDE DEF Under
  <2>3. Cardinality(Under(p)) < Cardinality(Under(q))
    BY <2>1, <2>2, SmallerSet
  <2>. QED  BY <2>3
<1>6. \A p, q \in fresh : Key(p) = Key(q) => p = q
  BY DEF Key
<1>7. ASSUME NEW q \in limited PROVE Before(Key(q), Key(r))
  <2>1. q \in fresh /\ q # r
    OBVIOUS
  <2>2. ~Before(Key(r), Key(q))
    <3>1. C(q) < BatchLimit /\ ~(C(r) < BatchLimit) /\ C(q) \in Nat /\ C(r) \in Nat
      BY <1>2, <1>4, <2>1
    <3>2. Before(Key(r), Key(q)) => C(r) < C(q)
      BY <1>5, <2>1
    <3> HIDE DEF C
    <3>. QED  BY <3>1, <3>2, MarginsAreNumbers
  <2>. QED  BY <1>3, <1>6, <2>1, <2>2, KeysAreOrdered
<1>8. Cardinality(limited) >= BatchLimit
  <2>1. PICK m \in fresh \ limited : \A q \in fresh \ limited : C(m) <= C(q)
    <3> DEFINE D == {C(q) : q \in fresh \ limited}
    <3>1. D \subseteq Nat /\ D # {}
      BY <1>2
    <3>2. PICK l \in D : \A n \in D : l <= n
      BY <3>1, LeastNumber
    <3>3. PICK m \in fresh \ limited : l = C(m)
      OBVIOUS
    <3>4. \A q \in fresh \ limited : C(q) \in D
      OBVIOUS
    <3> HIDE DEF C, D
    <3>. QED  BY <3>2, <3>3, <3>4
  <2>2. ASSUME NEW q \in Under(m) PROVE q \in limited
    <3>1. q \in fresh /\ C(q) < C(m) /\ C(q) \in Nat /\ C(m) \in Nat
      BY <1>2, <1>5
    <3>2. q \notin limited => C(m) <= C(q)
      BY <2>1, <3>1
    <3> HIDE DEF C
    <3>. QED  BY <3>1, <3>2
  <2>3. Cardinality(Under(m)) <= Cardinality(limited)
    <3>1. Under(m) \subseteq limited
      BY <2>2
    <3> HIDE DEF Under
    <3>. QED  BY <1>1, <3>1, FS_Subset
  <2>4. ~(C(m) < BatchLimit)
    BY <1>4, <2>1
  <2>5. C(m) \in Nat /\ Cardinality(limited) \in Nat
    BY <1>1, <1>2, FS_CardinalityType
  <2>. QED  BY <2>3, <2>4, <2>5, MarginsAreNumbers
<1>. QED  BY <1>1, <1>7, <1>8

\* ---- the state of a stream ---------------------------------------------------

LEMMA WindowMoves ==
  ASSUME NEW f \in FeedStates, f.lower <= f.cursor[1]
  PROVE  /\ RecheckFrom(f) \in Nat /\ f.lower <= RecheckFrom(f) /\ RecheckFrom(f) <= f.cursor[1]
         /\ RecheckFrom(f) + Recheck = f.cursor[1] \/ RecheckFrom(f) = f.lower
         /\ \A g \in FeedStates : g.lower = f.lower /\ f.cursor[1] <= g.cursor[1]
                                      => RecheckFrom(f) <= RecheckFrom(g)
<1>1. f.lower \in Nat /\ f.cursor[1] \in Nat
  BY DEF FeedStates
<1>2. \A g \in FeedStates : g.cursor[1] \in Nat
  BY DEF FeedStates
<1>. QED  BY <1>1, <1>2, MarginsAreNumbers DEF RecheckFrom

\* advance_feed: how far the cursor goes, what is announced and what is remembered.
LEMMA Advanced ==
  ASSUME NEW f \in FeedStates, NEW batch \in SUBSET FeedRuns, rows \in [FeedRuns -> Versions],
         NEW g, g = AdvanceFeed(f, batch)
  PROVE  /\ g \in FeedStates
         /\ g.connected = f.connected /\ g.lower = f.lower /\ g.more = f.more
         /\ g.cursor = f.cursor \/ \E r \in batch : g.cursor = Key(r)
         /\ g.cursor = f.cursor \/ Before(f.cursor, g.cursor)
         /\ \A r \in batch : Key(r) = g.cursor \/ Before(Key(r), g.cursor)
         /\ g.announced = f.announced \cup {r \in Novel(f, batch) : rows[r].created > f.connected}
         /\ \A r \in FeedRuns, a \in Nat : <<r, a>> \in g.recent <=>
                /\ a > RecheckFrom(g)
                /\ IF r \in Novel(f, batch) THEN a = rows[r].at ELSE <<r, a>> \in f.recent
<1> DEFINE keys == {Key(r) : r \in batch} \cup {f.cursor}
           cursor == CHOOSE k \in keys : \A other \in keys : other = k \/ Before(other, k)
           N == Novel(f, batch)
           announced == f.announced \cup {r \in N : rows[r].created > f.connected}
           moved == [f EXCEPT !.cursor = cursor, !.announced = announced]
           known == {e \in f.recent : e[1] \notin N} \cup {<<r, rows[r].at>> : r \in N}
           recent == {e \in known : e[2] > RecheckFrom(moved)}
<1>1. g = [moved EXCEPT !.recent = recent]
  BY DEF AdvanceFeed
<1>2. keys \subseteq Nat \X Nat /\ keys # {} /\ IsFiniteSet(keys)
  <2>1. \A r \in batch : Key(r) \in Nat \X Nat
    BY RunsAreNumbers DEF Key, Versions
  <2>2. f.cursor \in Nat \X Nat
    BY DEF FeedStates
  <2>3. IsFiniteSet(batch)
    BY FeedAssumption, FS_Subset
  <2>4. IsFiniteSet({Key(r) : r \in batch})
    <3> DEFINE T == {Key(r) : r \in batch}
               K == [r \in batch |-> Key(r)]
    <3>1. K \in Surjection(batch, T)
      BY DEF Surjection
    <3> HIDE DEF K
    <3>. QED  BY <2>3, <3>1, FS_Surjection
  <2>5. IsFiniteSet(keys)
    BY <2>4, FS_Singleton, FS_Union
  <2>. QED  BY <2>1, <2>2, <2>5
<1>3. cursor \in keys /\ \A other \in keys : other = cursor \/ Before(other, cursor)
  <2>1. \E k \in keys : \A other \in keys : other = k \/ Before(other, k)
    <3> HIDE DEF keys
    <3>. QED  BY <1>2, LastKey
  <2>. QED  BY <2>1
<1>4. cursor \in Nat \X Nat
  BY <1>2, <1>3
<1>5. /\ cursor = f.cursor \/ \E r \in batch : cursor = Key(r)
      /\ cursor = f.cursor \/ Before(f.cursor, cursor)
      /\ \A r \in batch : Key(r) = cursor \/ Before(Key(r), cursor)
  BY <1>3
<1> HIDE DEF cursor
<1>6. N \subseteq FeedRuns /\ announced \subseteq FeedRuns
  BY DEF Novel, FeedStates
<1> HIDE DEF announced
<1>7. /\ moved \in FeedStates /\ moved.cursor = cursor /\ moved.announced = announced
      /\ moved.lower = f.lower /\ moved.connected = f.connected /\ moved.more = f.more
  BY <1>4, <1>6 DEF FeedStates
<1> HIDE DEF moved
<1>8. f.recent \subseteq FeedRuns \X Nat
  BY DEF FeedStates
<1>9. recent \subseteq FeedRuns \X Nat
  <2>1. \A r \in N : rows[r].at \in Nat
    BY <1>6 DEF Versions
  <2>. QED  BY <1>6, <1>8, <2>1
<1>10. \A r \in FeedRuns, a \in Nat : <<r, a>> \in recent <=>
         /\ a > RecheckFrom(moved)
         /\ IF r \in N THEN a = rows[r].at ELSE <<r, a>> \in f.recent
  <2>1. ASSUME NEW r \in FeedRuns, NEW a \in Nat
        PROVE  <<r, a>> \in known <=> IF r \in N THEN a = rows[r].at ELSE <<r, a>> \in f.recent
    <3>1. (\E q \in N : <<r, a>> = <<q, rows[q].at>>) <=> (r \in N /\ a = rows[r].at)
      OBVIOUS
    <3> HIDE DEF N
    <3>. QED  BY <3>1
  <2>2. ASSUME NEW r \in FeedRuns, NEW a \in Nat
        PROVE  <<r, a>> \in recent <=> <<r, a>> \in known /\ a > RecheckFrom(moved)
    <3> HIDE DEF known
    <3>. QED  OBVIOUS
  <2>. QED  BY <2>1, <2>2
<1> HIDE DEF recent, N
<1>11. /\ g \in FeedStates /\ g.cursor = cursor /\ g.announced = announced /\ g.recent = recent
       /\ g.lower = f.lower /\ g.connected = f.connected /\ g.more = f.more
  BY <1>1, <1>7, <1>9 DEF FeedStates
<1>12. RecheckFrom(g) = RecheckFrom(moved)
  BY <1>7, <1>11 DEF RecheckFrom
<1>. QED  BY <1>5, <1>10, <1>11, <1>12 DEF announced, N

\* ---- the steps ---------------------------------------------------------------

LEMMA FeedInitInv == FeedInit => FeedInv
<1> SUFFICES ASSUME FeedInit PROVE FeedInv
  OBVIOUS
<1>1. /\ NoVersion \in Versions /\ NoVersion.at = 0 /\ NoVersion.number = 0
      /\ ClosedFeed \in FeedStates /\ ClosedFeed.cursor = <<0, 0>> /\ ClosedFeed.lower = 0
      /\ ClosedFeed.recent = {}
      /\ NoSnapshot.step = "none" /\ NoSnapshot.rows = [r \in FeedRuns |-> NoVersion]
      /\ NoSnapshot \in [step : {"none", "read", "shown"}, rows : [FeedRuns -> Versions]]
  BY DEF NoVersion, Versions, ClosedFeed, FeedStates, NoSnapshot
<1>2. FeedTyped
  <2>1. rows \in [FeedRuns -> Versions] /\ writing \in [FeedRuns -> Versions] /\ client \in [FeedRuns -> Versions]
    BY <1>1 DEF FeedInit
  <2>2. instant \in Nat /\ delivered \in [FeedRuns -> Nat]
    BY MarginsAreNumbers DEF FeedInit, NothingDelivered
  <2>3. feed \in FeedStates /\ snapshot \in [step : {"none", "read", "shown"}, rows : [FeedRuns -> Versions]]
    BY <1>1 DEF FeedInit
  <2>. QED  BY <2>1, <2>2, <2>3 DEF FeedInit, FeedTyped
<1>3. Stamped /\ ShownWasCommitted /\ CursorIsDated
  BY <1>1, MarginsAreNumbers DEF FeedInit, Stamped, ShownWasCommitted, Past, CursorIsDated
<1>4. GivenIsKnown /\ NothingIsMissed /\ SentOnce
  BY <1>1 DEF FeedInit, GivenIsKnown, NothingIsMissed, Behind, SentOnce, NothingDelivered
<1>. QED  BY <1>2, <1>3, <1>4 DEF FeedInv

\* A stamp is given inside the window of every reader.
LEMMA WriteInv ==
  ASSUME FeedInv, NEW r \in FeedRuns, NEW v \in Versions, v # NoVersion,
         rows[r].number < v.number, rows[r].at <= v.past, rows[r].past <= v.past,
         v.at <= instant + Skew, instant + Skew < v.at + Recheck,
         rows[r] # NoVersion => v.created = rows[r].created,
         writing' = [writing EXCEPT ![r] = v],
         UNCHANGED <<rows, instant, phase, listening, signal, feed, catchingUp, browser, delivered, repeated>>
  PROVE  FeedInv'
<1>1. /\ UNCHANGED <<rows, instant, phase, listener, signal, feed, catchingUp, snapshot, client, delivered, repeated>>
      /\ writing' \in [FeedRuns -> Versions]
      /\ \A q \in FeedRuns : writing'[q] = IF q = r THEN v ELSE writing[q]
  BY DEF listening, browser, FeedInv, FeedTyped
<1>2. FeedTyped' /\ Stamped'
  BY <1>1 DEF FeedInv, FeedTyped, Stamped
<1>3. ShownWasCommitted' /\ CursorIsDated' /\ GivenIsKnown' /\ SentOnce'
  BY <1>1 DEF FeedInv, ShownWasCommitted, Past, CursorIsDated, GivenIsKnown, Outpaced, SentOnce, Before, Key,
              RecheckFrom
<1>4. NothingIsMissed'
  BY <1>1 DEF FeedInv, NothingIsMissed, Behind, Outpaced, Pending, InWindow, Above, RecheckFrom
<1>. QED  BY <1>2, <1>3, <1>4 DEF FeedInv

LEMMA WritersInv ==
  ASSUME FeedInv, NEW r \in FeedRuns, (\E ahead \in {0, Skew} : InsertFeedRun(r, ahead)) \/ UpdateFeedRun(r)
  PROVE  FeedInv'
<1>1. /\ instant \in Nat /\ instant > Recheck /\ rows[r] \in Versions
      /\ Recheck \in Nat /\ Skew \in Nat /\ Skew < Recheck
  BY MarginsAreNumbers DEF FeedInv, FeedTyped, Stamped
<1>2. ASSUME NEW ahead \in {0, Skew}, InsertFeedRun(r, ahead) PROVE FeedInv'
  <2> DEFINE v == [number |-> 1, at |-> instant + ahead, created |-> instant + ahead, past |-> 0]
  <2>1. v \in Versions /\ v.number = 1 /\ v.at = instant + ahead /\ v.past = 0 /\ ahead \in Nat /\ ahead <= Skew
    BY <1>1 DEF Versions
  <2>2. /\ rows[r] = NoVersion /\ rows[r].number = 0 /\ rows[r].at = 0 /\ rows[r].past = 0
        /\ writing' = [writing EXCEPT ![r] = v] /\ NoVersion.number = 0
        /\ UNCHANGED <<rows, instant, phase, listening, signal, feed, catchingUp, browser, delivered, repeated>>
    BY <1>2 DEF InsertFeedRun, NoVersion
  <2> HIDE DEF v
  <2>3. /\ v # NoVersion /\ rows[r].number < v.number /\ rows[r].at <= v.past /\ rows[r].past <= v.past
        /\ v.at <= instant + Skew /\ instant + Skew < v.at + Recheck
    BY <1>1, <2>1, <2>2
  <2>. QED  BY <2>1, <2>2, <2>3, WriteInv
<1>3. CASE UpdateFeedRun(r)
  <2> DEFINE latest == IF rows[r].at > rows[r].past THEN rows[r].at ELSE rows[r].past
             v == [number |-> rows[r].number + 1, at |-> instant, created |-> rows[r].created, past |-> latest]
  <2>1. rows[r].number \in Nat /\ rows[r].at \in Nat /\ rows[r].past \in Nat /\ rows[r].created \in Nat
    BY <1>1 DEF Versions
  <2>2. latest \in Nat /\ rows[r].at <= latest /\ rows[r].past <= latest
    BY <2>1
  <2>3. /\ writing' = [writing EXCEPT ![r] = v] /\ NoVersion.number = 0
        /\ UNCHANGED <<rows, instant, phase, listening, signal, feed, catchingUp, browser, delivered, repeated>>
    BY <1>3 DEF UpdateFeedRun, NoVersion
  <2> HIDE DEF latest
  <2>4. v \in Versions /\ v.number = rows[r].number + 1 /\ v.at = instant /\ v.created = rows[r].created
        /\ v.past = latest
    BY <1>1, <2>1, <2>2 DEF Versions
  <2> HIDE DEF v
  <2>5. /\ v # NoVersion /\ rows[r].number < v.number /\ rows[r].at <= v.past /\ rows[r].past <= v.past
        /\ v.at <= instant + Skew /\ instant + Skew < v.at + Recheck
    BY <1>1, <2>1, <2>2, <2>3, <2>4
  <2>. QED  BY <2>3, <2>4, <2>5, WriteInv
<1>. QED  BY <1>2, <1>3

\* What is committed is signalled while every window still reaches it, or nobody listens.
LEMMA CommitInv ==
  ASSUME FeedInv, NEW r \in FeedRuns, CommitFeedRun(r)
  PROVE  FeedInv'
<1>1. /\ UNCHANGED <<instant, phase, listener, feed, catchingUp, snapshot, client, delivered, repeated>>
      /\ rows' = [rows EXCEPT ![r] = writing[r]] /\ writing' = [writing EXCEPT ![r] = NoVersion]
      /\ signal' = IF listener = "up" /\ phase # "off" /\ signal = "none" THEN "changed" ELSE signal
      /\ writing[r] # NoVersion /\ writing[r] \in Versions
  BY DEF CommitFeedRun, listening, browser, FeedInv, FeedTyped
<1>2. /\ rows'[r] = writing[r] /\ writing'[r] = NoVersion
      /\ \A q \in FeedRuns \ {r} : rows'[q] = rows[q] /\ writing'[q] = writing[q]
  BY <1>1 DEF FeedInv, FeedTyped
<1>3. /\ rows[r].number < rows'[r].number /\ rows[r].at <= rows'[r].past /\ rows[r].past <= rows'[r].past
      /\ rows'[r].at <= instant + Skew /\ instant + Skew < rows'[r].at + Recheck
      /\ rows[r] # NoVersion => rows'[r].created = rows[r].created
      /\ rows'[r].number \in Nat /\ rows'[r].at \in Nat /\ rows'[r].past \in Nat
      /\ rows[r].number \in Nat /\ rows[r].at \in Nat /\ rows[r].past \in Nat
  BY <1>1, <1>2 DEF FeedInv, FeedTyped, Stamped, Versions
<1>4. FeedTyped'
  <2>1. NoVersion \in Versions
    BY DEF NoVersion, Versions
  <2>. QED  BY <1>1, <2>1 DEF FeedInv, FeedTyped
<1>5. Stamped'
  BY <1>1, <1>2, <1>3 DEF FeedInv, Stamped
<1>6. ShownWasCommitted'
  <2>1. ASSUME NEW v \in Versions, Past(v, r) PROVE Past(v, r)'
    <3>1. v.number \in Nat /\ v.at \in Nat
      BY DEF Versions
    <3>. QED  BY <1>3, <2>1, <3>1 DEF Past
  <2>2. client[r] \in Versions /\ snapshot.rows[r] \in Versions
    BY DEF FeedInv, FeedTyped
  <2>. QED  BY <1>1, <1>2, <2>1, <2>2 DEF FeedInv, ShownWasCommitted, Past
<1>7. CursorIsDated'
  BY <1>1 DEF FeedInv, CursorIsDated
<1>8. GivenIsKnown'
  <2>1. ASSUME NEW e \in feed.recent
        PROVE  /\ e[2] = rows'[e[1]].at \/ e[2] <= rows'[e[1]].past
               /\ e[1] = r => e[2] <= rows'[r].past
    <3>1. e[1] \in FeedRuns /\ e[2] \in Nat /\ (e[2] = rows[e[1]].at \/ e[2] <= rows[e[1]].past)
      BY DEF FeedInv, FeedTyped, FeedStates, GivenIsKnown
    <3>2. e[1] = r => e[2] <= rows'[r].past
      BY <1>3, <3>1
    <3>. QED  BY <1>2, <3>1, <3>2
  <2>2. <<r, rows'[r].at>> \in feed.recent => Outpaced(r)'
    <3>1. <<r, rows'[r].at>> \in feed.recent => rows'[r].at <= rows'[r].past
      BY <2>1
    <3>2. rows'[r] # NoVersion
      BY <1>1, <1>2
    <3>. QED  BY <3>1, <3>2 DEF Outpaced
  <2>3. ASSUME NEW q \in FeedRuns, <<q, rows'[q].at>> \in feed.recent, ~Outpaced(q)'
        PROVE  \/ snapshot.step = "none"
               \/ snapshot.step = "read" /\ snapshot.rows[q] = rows'[q]
               \/ client[q] = rows'[q]
    <3>1. q # r
      BY <2>2, <2>3
    <3>. QED  BY <1>2, <2>3, <3>1 DEF FeedInv, GivenIsKnown, Outpaced
  <2>. QED  BY <1>1, <2>1, <2>3 DEF GivenIsKnown
<1>9. NothingIsMissed'
  <2>1. ASSUME NEW q \in FeedRuns, q # r, Behind(q)' PROVE Pending(q)'
    <3>1. Behind(q)
      BY <1>1, <1>2, <2>1 DEF Behind, Outpaced
    <3>2. Pending(q)
      BY <3>1 DEF FeedInv, NothingIsMissed
    <3>. QED  BY <1>1, <1>2, <2>1, <3>2 DEF Pending, InWindow, Above, RecheckFrom
  <2>2. Behind(r)' => Pending(r)'
    <3>1. SUFFICES ASSUME snapshot.step # "none" PROVE Pending(r)'
      BY <1>1 DEF Behind, FeedInv, FeedTyped
    <3>2. phase \in {"waiting", "reading"}
      BY <3>1 DEF FeedInv, FeedTyped, CursorIsDated
    <3>3. listener = "dead" \/ signal' \in {"changed", "lost"}
      BY <1>1, <3>2 DEF FeedInv, FeedTyped, CursorIsDated
    <3>4. rows'[r].at > RecheckFrom(feed)
      <4>1. /\ feed \in FeedStates /\ feed.lower <= feed.cursor[1] /\ feed.cursor[1] <= instant + Skew
            /\ feed.lower + Recheck <= instant + Skew /\ instant \in Nat
        BY DEF FeedInv, FeedTyped, CursorIsDated
      <4>2. feed.lower \in Nat /\ feed.cursor[1] \in Nat
        BY <4>1 DEF FeedStates
      <4>. QED  BY <1>3, <4>1, <4>2, WindowMoves, MarginsAreNumbers
    <3>. QED  BY <1>1, <1>3, <3>3, <3>4 DEF Pending, InWindow, RecheckFrom
  <2>. QED  BY <2>1, <2>2 DEF NothingIsMissed
<1>10. SentOnce'
  <2>1. RecheckFrom(feed)' = RecheckFrom(feed)
    BY <1>1 DEF RecheckFrom
  <2>2. delivered[r] # 0 => /\ rows[r] # NoVersion /\ delivered[r] < rows'[r].number
                            /\ rows'[r] # NoVersion /\ rows'[r].created = rows[r].created
    <3>1. delivered[r] \in Nat
      BY DEF FeedInv, FeedTyped
    <3>2. delivered[r] # 0 => rows[r] # NoVersion /\ delivered[r] <= rows[r].number
      BY DEF FeedInv, SentOnce
    <3>3. rows'[r] # NoVersion
      BY <1>1, <1>2
    <3>. QED  BY <1>3, <3>1, <3>2, <3>3
  <2>3. \A q \in FeedRuns \ {r} : Key(q)' = Key(q)
    BY <1>2 DEF Key
  <2>4. ASSUME NEW q \in FeedRuns, delivered[q] # 0
        PROVE  /\ rows'[q] # NoVersion /\ delivered[q] <= rows'[q].number
               /\ rows'[q].created > feed.connected => q \in feed.announced
               /\ delivered[q] = rows'[q].number =>
                     /\ ~Before(feed.cursor, Key(q)')
                     /\ <<q, rows'[q].at>> \in feed.recent \/ rows'[q].at <= RecheckFrom(feed)
    <3>1. CASE q = r
      <4>1. delivered[r] \in Nat
        BY DEF FeedInv, FeedTyped
      <4>2. rows[r].created > feed.connected => r \in feed.announced
        BY <2>4, <3>1 DEF FeedInv, SentOnce
      <4>. QED  BY <1>3, <2>2, <2>4, <3>1, <4>1, <4>2
    <3>2. CASE q # r
      BY <1>2, <2>3, <2>4, <3>2 DEF FeedInv, SentOnce
    <3>. QED  BY <3>1, <3>2
  <2>. QED  BY <1>1, <2>1, <2>4 DEF FeedInv, SentOnce, Before
<1>. QED  BY <1>4, <1>5, <1>6, <1>7, <1>8, <1>9, <1>10 DEF FeedInv

LEMMA InstantPassesInv == FeedInv /\ InstantPasses => FeedInv'
<1> SUFFICES ASSUME FeedInv, InstantPasses PROVE FeedInv'
  OBVIOUS
<1>1. /\ UNCHANGED <<rows, writing, phase, listener, signal, feed, catchingUp, snapshot, client, delivered, repeated>>
      /\ instant' = instant + 1 /\ instant \in Nat
      /\ \A r \in FeedRuns : writing[r] # NoVersion => instant' + Skew < writing[r].at + Recheck
      /\ ~(phase = "reading" /\ catchingUp)
  BY DEF InstantPasses, listening, browser, FeedInv, FeedTyped
<1>2. FeedTyped'
  BY <1>1 DEF FeedInv, FeedTyped
<1>3. Stamped'
  <2>1. \A r \in FeedRuns : rows[r].at \in Nat /\ writing[r].at \in Nat
    BY DEF FeedInv, FeedTyped, Versions
  <2>. QED  BY <1>1, <2>1, MarginsAreNumbers DEF FeedInv, Stamped
<1>4. CursorIsDated'
  <2>1. feed.lower \in Nat /\ feed.cursor[1] \in Nat
    BY DEF FeedInv, FeedTyped, FeedStates
  <2>. QED  BY <1>1, <2>1, MarginsAreNumbers DEF FeedInv, CursorIsDated
<1>5. ShownWasCommitted' /\ GivenIsKnown' /\ SentOnce'
  BY <1>1 DEF FeedInv, ShownWasCommitted, Past, GivenIsKnown, Outpaced, SentOnce, Before, Key, RecheckFrom
<1>6. NothingIsMissed'
  BY <1>1 DEF FeedInv, NothingIsMissed, Behind, Outpaced, Pending, InWindow, Above, RecheckFrom
<1>. QED  BY <1>2, <1>3, <1>4, <1>5, <1>6 DEF FeedInv

LEMMA ListenerInv == FeedInv /\ (Listen \/ ListenerDies \/ HeartbeatFails) => FeedInv'
<1> SUFFICES ASSUME FeedInv, Listen \/ ListenerDies \/ HeartbeatFails PROVE FeedInv'
  OBVIOUS
<1>1. /\ UNCHANGED <<rows, writing, instant, phase, feed, catchingUp, snapshot, client, delivered, repeated>>
      /\ \/ listener = "down" /\ listener' = "up" /\ signal' = signal
         \/ listener = "up" /\ listener' = "dead" /\ signal' = signal
         \/ /\ listener = "dead" /\ listener' = "down"
            /\ signal' = IF phase # "off" THEN "lost" ELSE signal
  BY DEF Listen, ListenerDies, HeartbeatFails, RestOfFeed, server, browser
<1>2. FeedTyped' /\ Stamped'
  BY <1>1 DEF FeedInv, FeedTyped, Stamped
<1>3. CursorIsDated'
  BY <1>1 DEF FeedInv, CursorIsDated
<1>4. ShownWasCommitted' /\ GivenIsKnown' /\ SentOnce'
  BY <1>1 DEF FeedInv, ShownWasCommitted, Past, GivenIsKnown, Outpaced, SentOnce, Before, Key, RecheckFrom
<1>5. ASSUME NEW r \in FeedRuns, Behind(r)' PROVE Pending(r)'
  <2>1. Behind(r)
    BY <1>1, <1>5 DEF Behind, Outpaced
  <2>2. Pending(r) /\ phase # "off"
    BY <2>1 DEF FeedInv, NothingIsMissed, CursorIsDated, Behind
  <2>. QED  BY <1>1, <2>2 DEF Pending, InWindow, Above, RecheckFrom
<1>. QED  BY <1>2, <1>3, <1>4, <1>5 DEF FeedInv, NothingIsMissed

\* A new connection, and one that is over, remember nothing.
LEMMA FreshStreamInv ==
  ASSUME FeedInv, UNCHANGED <<rows, writing, instant, listener, client, repeated>>,
         feed' \in FeedStates, feed'.recent = {}, feed'.lower <= feed'.cursor[1],
         feed'.cursor[1] <= instant + Skew, feed'.lower + Recheck <= instant + Skew,
         phase' \in {"off", "opening"}, phase' = "off" => feed' = ClosedFeed,
         listener = "down" => phase' = "off",
         signal' = "none", catchingUp' \in BOOLEAN, delivered' = NothingDelivered, snapshot' = NoSnapshot
  PROVE  FeedInv'
<1>1. /\ NoSnapshot.step = "none" /\ NoSnapshot.rows = [r \in FeedRuns |-> NoVersion]
      /\ NoSnapshot \in [step : {"none", "read", "shown"}, rows : [FeedRuns -> Versions]]
      /\ NoVersion.at = 0 /\ NoVersion.number = 0
  BY DEF NoSnapshot, NoVersion, Versions
<1>2. FeedTyped'
  <2>1. delivered' \in [FeedRuns -> Nat]
    BY DEF NothingDelivered
  <2>. QED  BY <1>1, <2>1 DEF FeedInv, FeedTyped
<1>3. Stamped' /\ CursorIsDated'
  BY <1>1 DEF FeedInv, Stamped, CursorIsDated
<1>4. ShownWasCommitted'
  <2>1. ASSUME NEW r \in FeedRuns PROVE Past(NoVersion, r)
    <3>1. rows[r].number \in Nat /\ rows[r].past \in Nat /\ (rows[r].number = 0 => rows[r] = NoVersion)
      BY DEF FeedInv, FeedTyped, Stamped, Versions
    <3>. QED  BY <1>1, <3>1 DEF Past
  <2>. QED  BY <1>1, <2>1 DEF FeedInv, ShownWasCommitted, Past
<1>5. GivenIsKnown' /\ NothingIsMissed' /\ SentOnce'
  BY <1>1 DEF FeedInv, GivenIsKnown, NothingIsMissed, Behind, SentOnce, NothingDelivered
<1>. QED  BY <1>2, <1>3, <1>4, <1>5 DEF FeedInv

LEMMA ConnectInv ==
  ASSUME FeedInv, NEW ahead \in {0, Skew}, Connect(ahead)
  PROVE  FeedInv'
<1> DEFINE lower == instant + ahead - Recheck
<1>1. /\ UNCHANGED <<rows, writing, instant, listener, client, repeated, catchingUp>> /\ listener # "down"
      /\ phase' = "opening" /\ signal' = "none" /\ delivered' = NothingDelivered /\ snapshot' = NoSnapshot
      /\ feed' = [ClosedFeed EXCEPT !.connected = instant + ahead, !.lower = lower, !.cursor = <<lower, 0>>]
  BY DEF Connect, server, listening
<1>2. /\ lower \in Nat /\ lower + Recheck = instant + ahead /\ ahead <= Skew /\ instant + ahead \in Nat
      /\ lower <= instant + Skew /\ lower + Recheck <= instant + Skew
  BY MarginsAreNumbers DEF FeedInv, FeedTyped, Stamped
<1> HIDE DEF lower
<1>3. /\ feed' \in FeedStates /\ feed'.recent = {} /\ feed'.lower = lower /\ feed'.cursor[1] = lower
  BY <1>1, <1>2 DEF ClosedFeed, FeedStates
<1>4. catchingUp' \in BOOLEAN
  BY <1>1 DEF FeedInv, FeedTyped
<1>. QED  BY <1>1, <1>2, <1>3, <1>4, FreshStreamInv

LEMMA StreamEndsInv == FeedInv /\ StreamEnds => FeedInv'
<1> SUFFICES ASSUME FeedInv, StreamEnds PROVE FeedInv'
  OBVIOUS
<1>1. /\ UNCHANGED <<rows, writing, instant, listener, client, repeated>>
      /\ phase' = "off" /\ signal' = "none" /\ delivered' = NothingDelivered /\ snapshot' = NoSnapshot
      /\ feed' = ClosedFeed /\ catchingUp' = FALSE
  BY DEF StreamEnds, server, listening
<1>2. /\ ClosedFeed \in FeedStates /\ ClosedFeed.cursor[1] = 0 /\ ClosedFeed.lower = 0 /\ ClosedFeed.recent = {}
  BY DEF ClosedFeed, FeedStates
<1>3. /\ feed' \in FeedStates /\ feed'.recent = {} /\ feed'.lower <= feed'.cursor[1]
      /\ feed'.cursor[1] <= instant + Skew /\ feed'.lower + Recheck <= instant + Skew
  BY <1>1, <1>2, MarginsAreNumbers DEF FeedInv, FeedTyped, Stamped
<1>4. catchingUp' \in BOOLEAN /\ phase' \in {"off", "opening"} /\ (listener = "down" => phase' = "off")
  BY <1>1
<1>. QED  BY <1>1, <1>3, <1>4, FreshStreamInv

\* What the snapshot has read needs no event.
LEMMA ReadSnapshotInv == FeedInv /\ ReadSnapshot => FeedInv'
<1> SUFFICES ASSUME FeedInv, ReadSnapshot PROVE FeedInv'
  OBVIOUS
<1>1. /\ UNCHANGED <<rows, writing, instant, phase, listener, signal, feed, catchingUp, client, delivered, repeated>>
      /\ snapshot' = [step |-> "read", rows |-> rows] /\ phase \in {"waiting", "reading"}
  BY DEF ReadSnapshot, Opened, server, listening
<1>2. snapshot'.step = "read" /\ snapshot'.rows = rows
  BY <1>1
<1>3. FeedTyped' /\ Stamped' /\ CursorIsDated' /\ SentOnce'
  BY <1>1 DEF FeedInv, FeedTyped, Stamped, CursorIsDated, SentOnce, Before, Key, RecheckFrom
<1>4. ShownWasCommitted'
  BY <1>1, <1>2 DEF FeedInv, FeedTyped, Versions, ShownWasCommitted, Past
<1>5. GivenIsKnown' /\ NothingIsMissed'
  BY <1>1, <1>2 DEF FeedInv, GivenIsKnown, NothingIsMissed, Behind
<1>. QED  BY <1>3, <1>4, <1>5 DEF FeedInv

\* Of two committed versions a committed one stays: the last, unless it is stamped too early.
LEMMA NewerOf ==
  ASSUME FeedTyped, NEW r \in FeedRuns, NEW old \in Versions, NEW new \in Versions, Past(old, r), Past(new, r)
  PROVE  /\ Newer(old, new) \in Versions /\ Past(Newer(old, new), r)
         /\ ~Outpaced(r) /\ (old = rows[r] \/ new = rows[r]) => Newer(old, new) = rows[r]
<1>1. /\ old.at \in Nat /\ new.at \in Nat /\ rows[r].at \in Nat /\ rows[r].past \in Nat
      /\ old.number \in Nat /\ new.number \in Nat
  BY DEF FeedTyped, Versions
<1>2. Newer(old, new) = IF new.at >= old.at THEN new ELSE old
  BY DEF Newer
<1>3. ASSUME ~Outpaced(r), old = rows[r] \/ new = rows[r] PROVE Newer(old, new) = rows[r]
  <2>1. CASE rows[r] = NoVersion
    <3>1. rows[r].number = 0
      BY <2>1 DEF NoVersion
    <3>. QED  BY <1>1, <1>2, <2>1, <3>1 DEF Past
  <2>2. CASE rows[r] # NoVersion
    <3>1. rows[r].at > rows[r].past
      BY <1>1, <1>3, <2>2 DEF Outpaced
    <3>. QED  BY <1>1, <1>2, <1>3, <3>1 DEF Past
  <2>. QED  BY <2>1, <2>2
<1>. QED  BY <1>2, <1>3

LEMMA ShowSnapshotInv == FeedInv /\ ShowSnapshot => FeedInv'
<1> SUFFICES ASSUME FeedInv, ShowSnapshot PROVE FeedInv'
  OBVIOUS
<1>1. /\ UNCHANGED <<rows, writing, instant, phase, listener, signal, feed, catchingUp, delivered, repeated>>
      /\ snapshot' = [NoSnapshot EXCEPT !.step = "shown"] /\ snapshot.step = "read"
      /\ client' = [r \in FeedRuns |-> Newer(client[r], snapshot.rows[r])]
  BY DEF ShowSnapshot, server, listening
<1>2. /\ snapshot'.step = "shown" /\ snapshot'.rows = [r \in FeedRuns |-> NoVersion]
      /\ snapshot' \in [step : {"none", "read", "shown"}, rows : [FeedRuns -> Versions]]
      /\ NoVersion.at = 0 /\ NoVersion.number = 0
  BY <1>1 DEF NoSnapshot, NoVersion, Versions
<1>3. ASSUME NEW r \in FeedRuns
      PROVE  /\ client'[r] \in Versions /\ Past(client'[r], r)
             /\ ~Outpaced(r) /\ (client[r] = rows[r] \/ snapshot.rows[r] = rows[r]) => client'[r] = rows[r]
  <2>1. client[r] \in Versions /\ snapshot.rows[r] \in Versions
    BY DEF FeedInv, FeedTyped
  <2>2. Past(client[r], r) /\ Past(snapshot.rows[r], r)
    BY DEF FeedInv, ShownWasCommitted
  <2>. QED  BY <1>1, <2>1, <2>2, NewerOf DEF FeedInv
<1>4. FeedTyped' /\ Stamped'
  BY <1>1, <1>2, <1>3 DEF FeedInv, FeedTyped, Stamped
<1>5. ShownWasCommitted'
  <2>1. ASSUME NEW r \in FeedRuns PROVE Past(NoVersion, r)
    <3>1. rows[r].number \in Nat /\ rows[r].past \in Nat /\ (rows[r].number = 0 => rows[r] = NoVersion)
      BY DEF FeedInv, FeedTyped, Stamped, Versions
    <3>. QED  BY <1>2, <3>1 DEF Past
  <2>. QED  BY <1>1, <1>2, <1>3, <2>1 DEF ShownWasCommitted, Past
<1>6. CursorIsDated' /\ SentOnce'
  BY <1>1, <1>2 DEF FeedInv, CursorIsDated, SentOnce, Before, Key, RecheckFrom
<1>7. GivenIsKnown'
  <2>1. ASSUME NEW r \in FeedRuns, <<r, rows[r].at>> \in feed.recent, ~Outpaced(r) PROVE client'[r] = rows[r]
    <3>1. snapshot.rows[r] = rows[r] \/ client[r] = rows[r]
      BY <1>1, <2>1 DEF FeedInv, GivenIsKnown
    <3>. QED  BY <1>3, <2>1, <3>1
  <2>. QED  BY <1>1, <2>1 DEF FeedInv, GivenIsKnown, Outpaced
<1>8. NothingIsMissed'
  BY <1>1, <1>2, <1>3 DEF FeedInv, NothingIsMissed, Behind, Outpaced, Pending, InWindow, Above, RecheckFrom
<1>. QED  BY <1>4, <1>5, <1>6, <1>7, <1>8 DEF FeedInv

\* A signal is followed by a read with the window, a read without one takes what is above.
LEMMA WaitChangeInv == FeedInv /\ WaitChange => FeedInv'
<1> SUFFICES ASSUME FeedInv, WaitChange PROVE FeedInv'
  OBVIOUS
<1>1. /\ UNCHANGED <<rows, writing, instant, listener, snapshot, client, delivered, repeated>>
      /\ phase = "waiting" /\ signal # "lost" /\ phase' = "reading"
      /\ catchingUp' = (signal = "none") /\ signal' = "none"
      /\ feed' = [feed EXCEPT !.more = FALSE]
  BY DEF WaitChange, server, listening, browser
<1>2. /\ feed' \in FeedStates /\ feed'.cursor = feed.cursor /\ feed'.lower = feed.lower
      /\ feed'.recent = feed.recent /\ feed'.announced = feed.announced /\ feed'.connected = feed.connected
      /\ RecheckFrom(feed') = RecheckFrom(feed)
  BY <1>1 DEF FeedInv, FeedTyped, FeedStates, RecheckFrom
<1>3. FeedTyped' /\ Stamped'
  BY <1>1, <1>2 DEF FeedInv, FeedTyped, Stamped
<1>4. CursorIsDated'
  BY <1>1, <1>2 DEF FeedInv, CursorIsDated
<1>5. ShownWasCommitted' /\ GivenIsKnown'
  BY <1>1, <1>2 DEF FeedInv, ShownWasCommitted, Past, GivenIsKnown, Outpaced
<1>6. SentOnce'
  BY <1>1, <1>2 DEF FeedInv, SentOnce, Before, Key
<1>7. NothingIsMissed'
  BY <1>1, <1>2 DEF FeedInv, FeedTyped, NothingIsMissed, Behind, Outpaced, Pending, InWindow, Above
<1>. QED  BY <1>3, <1>4, <1>5, <1>6, <1>7 DEF FeedInv

\* A batch is of committed rows: those that follow the cursor, up to the limit, and those of the window.
LEMMA BatchHolds ==
  ASSUME FeedTyped, NEW cursor \in Nat \X Nat, NEW from \in Nat, NEW r \in FeedRuns, rows[r] # NoVersion
  PROVE  LET batch == ListChanged(cursor, from)
         IN /\ batch \in SUBSET FeedRuns
            /\ r \in batch => Before(cursor, Key(r)) \/ rows[r].at > from
            /\ r \notin batch /\ ~Above(r, cursor) => ~(rows[r].at > from)
            /\ r \notin batch /\ Above(r, cursor) =>
                  /\ Cardinality({q \in batch : Above(q, cursor)}) >= BatchLimit
                  /\ \A q \in batch : Before(Key(q), Key(r))
<1> DEFINE fresh == {q \in FeedRuns : rows[q] # NoVersion /\ Above(q, cursor)}
           limited == {q \in fresh : Cardinality({o \in fresh : Before(Key(o), Key(q))}) < BatchLimit}
           window == {q \in FeedRuns : rows[q] # NoVersion /\ rows[q].at > from /\ ~Above(q, cursor)}
           batch == limited \cup window
           above == {q \in batch : Above(q, cursor)}
<1>1. ListChanged(cursor, from) = batch
  BY DEF ListChanged
<1>2. fresh \in SUBSET FeedRuns /\ limited \subseteq fresh /\ batch \in SUBSET FeedRuns
  OBVIOUS
<1>3. \A q \in FeedRuns : Above(q, cursor) <=> Before(cursor, Key(q))
  BY DEF Above, Before, Key, FeedTyped, Versions
<1>4. \A q \in FeedRuns : Key(q) \in Nat \X Nat
  BY RunsAreNumbers DEF Key, FeedTyped, Versions
<1>5. ASSUME r \notin batch, Above(r, cursor)
      PROVE  Cardinality(above) >= BatchLimit /\ \A q \in batch : Before(Key(q), Key(r))
  <2>1. r \in fresh /\ r \notin limited
    BY <1>5
  <2>2. IsFiniteSet(limited) /\ Cardinality(limited) >= BatchLimit /\ \A q \in limited : Before(Key(q), Key(r))
    <3>1. rows \in [FeedRuns -> Versions]
      BY DEF FeedTyped
    <3> DEFINE limitedTo == limited
    <3>2. limitedTo = {q \in fresh : Cardinality({o \in fresh : Before(Key(o), Key(q))}) < BatchLimit}
      OBVIOUS
    <3>3. r \notin limitedTo
      BY <2>1
    <3> HIDE DEF fresh, limitedTo
    <3>4. IsFiniteSet(limitedTo) /\ Cardinality(limitedTo) >= BatchLimit /\ \A q \in limitedTo : Before(Key(q), Key(r))
      BY <1>2, <2>1, <3>1, <3>2, <3>3, Leftover
    <3>. QED  BY <3>4 DEF limitedTo
  <2>3. limited \subseteq above /\ above \in SUBSET FeedRuns
    OBVIOUS
  <2>4. IsFiniteSet(above)
    BY <2>3, FeedAssumption, FS_Subset
  <2> HIDE DEF limited, above
  <2>5. Cardinality(limited) <= Cardinality(above) /\ Cardinality(limited) \in Nat /\ Cardinality(above) \in Nat
    BY <2>2, <2>3, <2>4, FS_Subset, FS_CardinalityType
  <2>6. Cardinality(above) >= BatchLimit
    BY <2>2, <2>5, MarginsAreNumbers
  <2>7. ASSUME NEW q \in window PROVE Before(Key(q), Key(r))
    <3>1. q \in FeedRuns /\ ~Before(cursor, Key(q)) /\ Before(cursor, Key(r))
      BY <1>3, <1>5
    <3>. QED  BY <1>4, <3>1, KeysAreOrdered
  <2>. QED  BY <2>2, <2>6, <2>7
<1>6. /\ r \in batch => Before(cursor, Key(r)) \/ rows[r].at > from
      /\ r \notin batch /\ ~Above(r, cursor) => ~(rows[r].at > from)
  BY <1>3
<1> HIDE DEF batch
<1>. QED  BY <1>1, <1>2, <1>5, <1>6

\* A read moves the cursor and the window on, no farther than a stamp can be.
LEMMA CursorAdvances ==
  ASSUME FeedInv, NEW batch \in SUBSET FeedRuns, NEW g, g = AdvanceFeed(feed, batch)
  PROVE  /\ g \in FeedStates /\ g.lower = feed.lower
         /\ feed.cursor[1] <= g.cursor[1] /\ g.cursor[1] <= instant + Skew /\ g.lower <= g.cursor[1]
         /\ RecheckFrom(feed) <= RecheckFrom(g) /\ RecheckFrom(feed) \in Nat /\ RecheckFrom(g) \in Nat
<1>1. /\ feed \in FeedStates /\ rows \in [FeedRuns -> Versions] /\ feed.lower <= feed.cursor[1]
      /\ feed.cursor[1] <= instant + Skew /\ instant \in Nat /\ \A r \in FeedRuns : rows[r].at <= instant + Skew
  BY DEF FeedInv, FeedTyped, CursorIsDated, Stamped
<1>2. /\ g \in FeedStates /\ g.lower = feed.lower
      /\ g.cursor = feed.cursor \/ \E r \in batch : g.cursor = Key(r)
      /\ g.cursor = feed.cursor \/ Before(feed.cursor, g.cursor)
  BY <1>1, Advanced
<1>3. g.cursor[1] \in Nat /\ feed.cursor[1] \in Nat /\ g.lower \in Nat
  BY <1>1, <1>2 DEF FeedStates
<1>4. feed.cursor[1] <= g.cursor[1]
  BY <1>2, <1>3 DEF Before
<1>5. g.cursor[1] <= instant + Skew
  BY <1>1, <1>2 DEF Key
<1>6. g.lower <= g.cursor[1]
  BY <1>1, <1>2, <1>3, <1>4
<1>7. RecheckFrom(feed) <= RecheckFrom(g) /\ RecheckFrom(feed) \in Nat
  BY <1>1, <1>2, <1>4, WindowMoves
<1>8. RecheckFrom(g) \in Nat
  BY <1>2, <1>6, WindowMoves
<1>. QED  BY <1>2, <1>4, <1>5, <1>6, <1>7, <1>8

\* The first read counts as given: the snapshot, which comes later, has it.
LEMMA FirstReadInv == FeedInv /\ FirstRead => FeedInv'
<1> SUFFICES ASSUME FeedInv, FirstRead PROVE FeedInv'
  OBVIOUS
<1> DEFINE batch == ListChanged(feed.cursor, RecheckFrom(feed))
           g == AdvanceFeed(feed, batch)
<1>1. /\ UNCHANGED <<rows, writing, instant, listener, signal, catchingUp, snapshot, client, delivered, repeated>>
      /\ phase = "opening" /\ phase' = "waiting" /\ feed' = g
      /\ snapshot.step = "none" /\ delivered = NothingDelivered
  BY DEF FirstRead, server, listening, browser, FeedInv, CursorIsDated
<1>2. batch \in SUBSET FeedRuns
  BY DEF ListChanged
<1> HIDE DEF batch
<1>3. /\ g \in FeedStates /\ g.lower = feed.lower
      /\ feed.cursor[1] <= g.cursor[1] /\ g.cursor[1] <= instant + Skew /\ g.lower <= g.cursor[1]
  BY <1>2, CursorAdvances
<1>4. \A r \in FeedRuns, a \in Nat : <<r, a>> \in g.recent => a = rows[r].at \/ <<r, a>> \in feed.recent
  <2>1. feed \in FeedStates /\ rows \in [FeedRuns -> Versions]
    BY DEF FeedInv, FeedTyped
  <2>. QED  BY <1>2, <2>1, Advanced
<1> HIDE DEF g
<1>5. FeedTyped' /\ Stamped'
  BY <1>1, <1>3 DEF FeedInv, FeedTyped, Stamped
<1>6. CursorIsDated'
  BY <1>1, <1>3 DEF FeedInv, CursorIsDated
<1>7. ShownWasCommitted' /\ NothingIsMissed' /\ SentOnce'
  BY <1>1 DEF FeedInv, ShownWasCommitted, Past, NothingIsMissed, Behind, SentOnce, NothingDelivered
<1>8. GivenIsKnown'
  <2>1. ASSUME NEW e \in g.recent PROVE e[2] = rows[e[1]].at \/ e[2] <= rows[e[1]].past
    <3>1. e[1] \in FeedRuns /\ e[2] \in Nat /\ e = <<e[1], e[2]>>
      BY <1>3 DEF FeedStates
    <3>2. e[2] = rows[e[1]].at \/ e \in feed.recent
      BY <1>4, <3>1
    <3>. QED  BY <3>2 DEF FeedInv, GivenIsKnown
  <2>. QED  BY <1>1, <2>1 DEF GivenIsKnown
<1>. QED  BY <1>5, <1>6, <1>7, <1>8 DEF FeedInv

\* What a batch gives is news, and the client shows it.
LEMMA ReadBatchInv == FeedInv /\ ReadBatch => FeedInv'
<1> SUFFICES ASSUME FeedInv, ReadBatch PROVE FeedInv'
  OBVIOUS
<1> DEFINE from == IF catchingUp THEN feed.cursor[1] ELSE RecheckFrom(feed)
           batch == ListChanged(feed.cursor, from)
           N == Novel(feed, batch)
           g == AdvanceFeed(feed, batch)
           more == Cardinality({r \in batch : Above(r, feed.cursor)}) >= BatchLimit
<1>1. /\ UNCHANGED <<rows, writing, instant, listener, signal, snapshot>> /\ catchingUp' = FALSE
      /\ phase = "reading" /\ phase' = "waiting" /\ feed' = [g EXCEPT !.more = more]
      /\ client' = [r \in FeedRuns |-> IF r \in N THEN Newer(client[r], rows[r]) ELSE client[r]]
      /\ delivered' = [r \in FeedRuns |-> IF r \in N THEN rows[r].number ELSE delivered[r]]
      /\ repeated' = repeated \cup {r \in N :
             delivered[r] # 0 /\ (delivered[r] = rows[r].number \/ EventType(feed, r) = "created")}
  BY DEF ReadBatch, server, listening
<1>2. /\ batch \in SUBSET FeedRuns /\ \A r \in batch : rows[r] # NoVersion
      /\ N = {r \in batch : <<r, rows[r].at>> \notin feed.recent}
  BY DEF ListChanged, Novel
<1>3. /\ feed \in FeedStates /\ rows \in [FeedRuns -> Versions] /\ feed.lower <= feed.cursor[1]
      /\ feed.cursor \in Nat \X Nat /\ feed.cursor[1] \in Nat /\ feed.lower \in Nat
      /\ instant \in Nat
  BY DEF FeedInv, FeedTyped, CursorIsDated, FeedStates
<1>4. from \in Nat /\ RecheckFrom(feed) <= from /\ RecheckFrom(feed) \in Nat /\ feed.lower <= RecheckFrom(feed)
  BY <1>3, WindowMoves
<1>5. ASSUME NEW r \in FeedRuns, rows[r] # NoVersion
      PROVE  /\ r \in batch => Before(feed.cursor, Key(r)) \/ rows[r].at > from
             /\ r \notin batch /\ ~Above(r, feed.cursor) => ~(rows[r].at > from)
             /\ r \notin batch /\ Above(r, feed.cursor) => more /\ \A q \in batch : Before(Key(q), Key(r))
  <2>1. FeedTyped
    BY DEF FeedInv
  <2> HIDE DEF from
  <2>. QED  BY <1>3, <1>4, <1>5, <2>1, BatchHolds
<1> HIDE DEF from, batch, more
<1>6. /\ g \in FeedStates /\ g.connected = feed.connected /\ g.lower = feed.lower
      /\ g.cursor = feed.cursor \/ \E r \in batch : g.cursor = Key(r)
      /\ g.cursor = feed.cursor \/ Before(feed.cursor, g.cursor)
      /\ \A r \in batch : Key(r) = g.cursor \/ Before(Key(r), g.cursor)
      /\ g.announced = feed.announced \cup {r \in N : rows[r].created > feed.connected}
      /\ \A r \in FeedRuns, a \in Nat : <<r, a>> \in g.recent <=>
             /\ a > RecheckFrom(g)
             /\ IF r \in N THEN a = rows[r].at ELSE <<r, a>> \in feed.recent
  BY <1>2, <1>3, Advanced
<1>7. /\ feed.cursor[1] <= g.cursor[1] /\ g.cursor[1] <= instant + Skew /\ g.lower <= g.cursor[1]
      /\ RecheckFrom(feed) <= RecheckFrom(g) /\ RecheckFrom(g) \in Nat
  BY <1>2, CursorAdvances
<1>8. g.cursor \in Nat \X Nat /\ g.cursor[1] \in Nat /\ g.lower \in Nat /\ more \in BOOLEAN
  BY <1>6 DEF FeedStates, more
<1> HIDE DEF g
<1>9. /\ feed' \in FeedStates /\ feed'.cursor = g.cursor /\ feed'.lower = g.lower /\ feed'.more = more
      /\ feed'.connected = g.connected /\ feed'.announced = g.announced /\ feed'.recent = g.recent
      /\ RecheckFrom(feed') = RecheckFrom(g)
  BY <1>1, <1>6, <1>8 DEF FeedStates, RecheckFrom
<1>10. \A r \in FeedRuns : Key(r) \in Nat \X Nat /\ rows[r] \in Versions /\ rows[r].at \in Nat
                           /\ rows[r].number \in Nat /\ Key(r) = <<rows[r].at, r>>
  BY <1>3, RunsAreNumbers DEF Key, Versions
<1> HIDE DEF N
<1>11. N \subseteq batch /\ N \subseteq FeedRuns
  BY <1>2
<1>12. ASSUME NEW r \in FeedRuns
       PROVE  /\ client'[r] \in Versions /\ Past(client'[r], r)
              /\ r \notin N => client'[r] = client[r]
              /\ ~Outpaced(r) /\ (r \in N \/ client[r] = rows[r]) => client'[r] = rows[r]
  <2>1. client[r] \in Versions /\ rows[r] \in Versions /\ Past(client[r], r) /\ Past(rows[r], r)
    BY <1>10 DEF FeedInv, FeedTyped, ShownWasCommitted, Past
  <2>2. client'[r] = IF r \in N THEN Newer(client[r], rows[r]) ELSE client[r]
    BY <1>1
  <2>3. /\ Newer(client[r], rows[r]) \in Versions /\ Past(Newer(client[r], rows[r]), r)
        /\ ~Outpaced(r) => Newer(client[r], rows[r]) = rows[r]
    BY <2>1, NewerOf DEF FeedInv
  <2>. QED  BY <2>1, <2>2, <2>3
<1>13. FeedTyped'
  <2>1. client' \in [FeedRuns -> Versions]
    BY <1>1, <1>12
  <2>2. delivered' \in [FeedRuns -> Nat]
    BY <1>1, <1>10 DEF FeedInv, FeedTyped
  <2>. QED  BY <1>1, <1>9, <2>1, <2>2 DEF FeedInv, FeedTyped
<1>14. Stamped'
  BY <1>1 DEF FeedInv, Stamped
<1>15. ShownWasCommitted'
  BY <1>1, <1>12 DEF FeedInv, ShownWasCommitted, Past
<1>16. CursorIsDated'
  BY <1>1, <1>6, <1>7, <1>9 DEF FeedInv, CursorIsDated
<1>17. GivenIsKnown'
  <2>1. ASSUME NEW e \in g.recent PROVE e[2] = rows[e[1]].at \/ e[2] <= rows[e[1]].past
    <3>1. e[1] \in FeedRuns /\ e[2] \in Nat /\ e = <<e[1], e[2]>>
      BY <1>6 DEF FeedStates
    <3>2. e[2] = rows[e[1]].at \/ e \in feed.recent
      BY <1>6, <3>1
    <3>. QED  BY <3>2 DEF FeedInv, GivenIsKnown
  <2>2. ASSUME NEW r \in FeedRuns, <<r, rows[r].at>> \in g.recent, ~Outpaced(r)
        PROVE  \/ snapshot.step = "none"
               \/ snapshot.step = "read" /\ snapshot.rows[r] = rows[r]
               \/ client'[r] = rows[r]
    <3>1. CASE r \in N
      BY <1>12, <2>2, <3>1
    <3>2. CASE r \notin N
      <4>1. <<r, rows[r].at>> \in feed.recent
        BY <1>6, <1>10, <2>2, <3>2
      <4>. QED  BY <1>12, <2>2, <4>1 DEF FeedInv, GivenIsKnown
    <3>. QED  BY <3>1, <3>2
  <2>. QED  BY <1>1, <1>9, <2>1, <2>2 DEF GivenIsKnown, Outpaced
<1>18. ASSUME NEW r \in FeedRuns, Behind(r)' PROVE Pending(r)'
  <2>1. ~Outpaced(r) /\ r \notin N /\ client'[r] = client[r] /\ Behind(r) /\ Pending(r)
    <3>1. ~Outpaced(r) /\ client'[r] # rows[r]
      BY <1>1, <1>18 DEF Behind, Outpaced
    <3>2. r \notin N /\ client'[r] = client[r]
      BY <1>12, <3>1
    <3>3. Behind(r)
      BY <1>1, <1>18, <3>1, <3>2 DEF Behind
    <3>. QED  BY <3>1, <3>2, <3>3 DEF FeedInv, NothingIsMissed
  <2>2. rows[r] # NoVersion
    <3>1. SUFFICES ASSUME rows[r] = NoVersion PROVE client[r] = rows[r]
      BY <2>1 DEF Behind
    <3>2. rows[r].number = 0 /\ client[r].number \in Nat
      BY <3>1 DEF FeedInv, FeedTyped, Versions, NoVersion
    <3>. QED  BY <3>2 DEF FeedInv, ShownWasCommitted, Past
  <2>3. r \notin batch
    <3>1. SUFFICES ASSUME r \in batch PROVE FALSE
      OBVIOUS
    <3>2. <<r, rows[r].at>> \in feed.recent
      BY <1>2, <2>1, <3>1
    <3>. QED  BY <2>1, <3>2 DEF FeedInv, GivenIsKnown, Behind
  <2>4. CASE Above(r, feed.cursor)
    <3>1. more /\ \A q \in batch : Before(Key(q), Key(r))
      BY <1>5, <2>2, <2>3, <2>4
    <3>2. Before(g.cursor, Key(r))
      <4>1. Before(feed.cursor, Key(r))
        BY <1>10, <2>4 DEF Above, Before
      <4>. QED  BY <1>6, <3>1, <4>1
    <3>3. Above(r, g.cursor)
      BY <1>10, <3>2 DEF Above, Before
    <3>. QED  BY <1>1, <1>9, <3>1, <3>3 DEF Pending, Above
  <2>5. CASE ~Above(r, feed.cursor)
    <3>1. ~(rows[r].at > from)
      BY <1>5, <2>2, <2>3, <2>5
    <3>2. CASE listener = "dead" \/ signal = "lost"
      BY <1>1, <3>2 DEF Pending
    <3>3. CASE ~(listener = "dead" \/ signal = "lost")
      <4>1. rows[r].at > RecheckFrom(feed) /\ catchingUp /\ signal = "changed"
            /\ instant + Skew < rows[r].at + Recheck
        BY <1>1, <2>1, <2>5, <3>1, <3>3 DEF Pending, InWindow, from
      <4>2. rows[r].at > RecheckFrom(g)
        <5>1. RecheckFrom(g) + Recheck = g.cursor[1] \/ RecheckFrom(g) = g.lower
          BY <1>6, <1>7, WindowMoves
        <5>. QED  BY <1>3, <1>4, <1>6, <1>7, <1>8, <1>10, <4>1, <5>1, MarginsAreNumbers
      <4>. QED  BY <1>1, <1>9, <4>1, <4>2 DEF Pending, InWindow
    <3>. QED  BY <3>2, <3>3
  <2>. QED  BY <2>4, <2>5
<1>19. \A r \in N : /\ Key(r) = g.cursor \/ Before(Key(r), g.cursor)
                    /\ <<r, rows[r].at>> \notin feed.recent /\ rows[r] # NoVersion
                    /\ Before(feed.cursor, Key(r)) \/ rows[r].at > RecheckFrom(feed)
  <2>1. ASSUME NEW r \in N PROVE Before(feed.cursor, Key(r)) \/ rows[r].at > RecheckFrom(feed)
    <3>1. Before(feed.cursor, Key(r)) \/ rows[r].at > from
      BY <1>2, <1>5, <1>11
    <3>. QED  BY <1>4, <1>10, <1>11, <3>1
  <2>. QED  BY <1>2, <1>6, <1>11, <2>1
<1>20. ASSUME NEW r \in FeedRuns, delivered[r] # 0
       PROVE  /\ delivered[r] \in Nat /\ rows[r] # NoVersion /\ delivered[r] <= rows[r].number
              /\ rows[r].created > feed.connected => r \in feed.announced
              /\ delivered[r] = rows[r].number =>
                    /\ ~Before(feed.cursor, Key(r))
                    /\ <<r, rows[r].at>> \in feed.recent \/ rows[r].at <= RecheckFrom(feed)
  BY <1>20 DEF FeedInv, FeedTyped, SentOnce
<1>21. repeated' = {}
  <2>1. ASSUME NEW r \in N, delivered[r] # 0
        PROVE  delivered[r] # rows[r].number /\ EventType(feed, r) # "created"
    <3>1. EventType(feed, r) # "created"
      BY <1>11, <1>20, <2>1 DEF EventType
    <3>2. ASSUME delivered[r] = rows[r].number PROVE FALSE
      <4>1. rows[r].at <= RecheckFrom(feed) /\ ~Before(feed.cursor, Key(r))
        BY <1>11, <1>19, <1>20, <2>1, <3>2
      <4>2. rows[r].at > RecheckFrom(feed)
        BY <1>19, <4>1
      <4>3. rows[r].at \in Nat /\ RecheckFrom(feed) \in Nat
        BY <1>4, <1>10, <1>11
      <4>. QED  BY <4>1, <4>2, <4>3
    <3>. QED  BY <3>1, <3>2
  <2>. QED  BY <1>1, <2>1 DEF FeedInv, SentOnce
<1>22. ASSUME NEW r \in FeedRuns, delivered'[r] # 0
       PROVE  /\ rows[r] # NoVersion /\ delivered'[r] <= rows[r].number
              /\ rows[r].created > feed.connected => r \in g.announced
              /\ delivered'[r] = rows[r].number =>
                    /\ ~Before(g.cursor, Key(r))
                    /\ <<r, rows[r].at>> \in g.recent \/ rows[r].at <= RecheckFrom(g)
  <2>1. CASE r \notin N
    <3>1. delivered'[r] = delivered[r]
      BY <1>1, <2>1
    <3>2. ASSUME delivered[r] = rows[r].number
          PROVE  ~Before(g.cursor, Key(r)) /\ (<<r, rows[r].at>> \in g.recent \/ rows[r].at <= RecheckFrom(g))
      <4>1. ~Before(feed.cursor, Key(r)) /\ (<<r, rows[r].at>> \in feed.recent \/ rows[r].at <= RecheckFrom(feed))
        BY <1>20, <1>22, <3>1, <3>2
      <4>2. ~Before(g.cursor, Key(r))
        BY <1>3, <1>6, <1>8, <1>10, <4>1, KeysAreOrdered
      <4>3. SUFFICES ASSUME ~(rows[r].at <= RecheckFrom(g)) PROVE <<r, rows[r].at>> \in g.recent
        BY <4>2
      <4>4. rows[r].at > RecheckFrom(g) /\ ~(rows[r].at <= RecheckFrom(feed)) /\ rows[r].at \in Nat
        BY <1>4, <1>7, <1>10, <4>3
      <4>. QED  BY <1>6, <2>1, <4>1, <4>4
    <3>. QED  BY <1>6, <1>20, <1>22, <3>1, <3>2
  <2>2. CASE r \in N
    <3>1. delivered'[r] = rows[r].number
      BY <1>1, <2>2
    <3>2. ~Before(g.cursor, Key(r))
      BY <1>8, <1>10, <1>19, <2>2, KeysAreOrdered
    <3>3. <<r, rows[r].at>> \in g.recent \/ rows[r].at <= RecheckFrom(g)
      BY <1>6, <1>7, <1>10, <2>2
    <3>4. rows[r].created > feed.connected => r \in g.announced
      BY <1>6, <2>2
    <3>. QED  BY <1>10, <1>19, <2>2, <3>1, <3>2, <3>3, <3>4
  <2>. QED  BY <2>1, <2>2
<1>23. SentOnce'
  BY <1>1, <1>6, <1>9, <1>21, <1>22 DEF SentOnce, Before, Key
<1>. QED  BY <1>13, <1>14, <1>15, <1>16, <1>17, <1>18, <1>23 DEF FeedInv, NothingIsMissed

LEMMA FeedStutterInv == FeedInv /\ UNCHANGED feedVars => FeedInv'
BY DEF feedVars, FeedInv, FeedTyped, Stamped, ShownWasCommitted, Past, CursorIsDated, GivenIsKnown,
       NothingIsMissed, Behind, Outpaced, Pending, InWindow, Above, RecheckFrom, SentOnce, Before, Key

LEMMA FeedStepInv == FeedInv /\ [FeedNext]_feedVars => FeedInv'
<1> SUFFICES ASSUME FeedInv, [FeedNext]_feedVars PROVE FeedInv'
  OBVIOUS
<1>1. ASSUME NEW r \in FeedRuns, \/ \E ahead \in {0, Skew} : InsertFeedRun(r, ahead)
                                 \/ UpdateFeedRun(r) \/ CommitFeedRun(r)
      PROVE  FeedInv'
  BY <1>1, WritersInv, CommitInv
<1>2. CASE \E ahead \in {0, Skew} : Connect(ahead)
  BY <1>2, ConnectInv
<1>3. CASE InstantPasses
  BY <1>3, InstantPassesInv
<1>4. CASE Listen \/ ListenerDies \/ HeartbeatFails
  BY <1>4, ListenerInv
<1>5. CASE FirstRead
  BY <1>5, FirstReadInv
<1>6. CASE WaitChange
  BY <1>6, WaitChangeInv
<1>7. CASE ReadBatch
  BY <1>7, ReadBatchInv
<1>8. CASE StreamEnds
  BY <1>8, StreamEndsInv
<1>9. CASE ReadSnapshot
  BY <1>9, ReadSnapshotInv
<1>10. CASE ShowSnapshot
  BY <1>10, ShowSnapshotInv
<1>11. CASE UNCHANGED feedVars
  BY <1>11, FeedStutterInv
<1>. QED  BY <1>1, <1>2, <1>3, <1>4, <1>5, <1>6, <1>7, <1>8, <1>9, <1>10, <1>11 DEF FeedNext

\* A quiet stream has given its client every run as committed, unless the client goes by an
\* earlier version with a stamp as late, whatever the clocks, late commits, limits and lost
\* connections; and it gives no version twice (advance_feed, events.py).
THEOREM QuietClientHasAll == FeedSpec => []QuietClientIsCurrent
<1>1. FeedInv => QuietClientIsCurrent
  <2>1. SUFFICES ASSUME FeedInv, phase = "waiting", signal = "none", listener # "dead", ~feed.more,
                        snapshot.step = "shown", NEW r \in FeedRuns
                 PROVE  client[r] = rows[r] \/ Outpaced(r)
    BY DEF QuietClientIsCurrent, FeedInv, SentOnce
  <2>. QED  BY <2>1 DEF FeedInv, NothingIsMissed, Behind, Pending
<1>. QED  BY <1>1, FeedInitInv, FeedStepInv, PTL DEF FeedSpec

\* The variables of the stream keep their types, within the bounds of the model.
THEOREM FeedTypes == FeedSpec => []FeedTypeOK
<1> DEFINE InBounds == instant <= LastInstant /\ losses \in 0..Losses /\ connections \in 0..Connections
<1>1. FeedInit => InBounds
  BY FeedAssumption DEF FeedInit
<1>2. FeedInv /\ InBounds /\ [FeedNext]_feedVars => InBounds'
  <2> SUFFICES ASSUME FeedInv, InBounds, [FeedNext]_feedVars PROVE InBounds'
    OBVIOUS
  <2>1. instant \in Nat /\ LastInstant \in Nat /\ Losses \in Nat /\ Connections \in Nat
    BY FeedAssumption DEF FeedInv, FeedTyped
  <2>2. CASE InstantPasses
    BY <2>1, <2>2 DEF InstantPasses, listening, browser
  <2>3. CASE ListenerDies
    BY <2>1, <2>3 DEF ListenerDies, RestOfFeed, server, browser
  <2>4. CASE \E ahead \in {0, Skew} : Connect(ahead)
    BY <2>1, <2>4 DEF Connect, server, listening
  <2>5. CASE UNCHANGED <<instant, losses, connections>>
    BY <2>5
  <2>6. \/ InstantPasses \/ ListenerDies \/ (\E ahead \in {0, Skew} : Connect(ahead))
        \/ UNCHANGED <<instant, losses, connections>>
    BY DEF FeedNext, feedVars, InsertFeedRun, UpdateFeedRun, CommitFeedRun, Listen, HeartbeatFails, FirstRead,
           WaitChange, ReadBatch, StreamEnds, ReadSnapshot, ShowSnapshot, RestOfFeed, server, listening, browser
  <2>. QED  BY <2>2, <2>3, <2>4, <2>5, <2>6
<1>3. FeedInv /\ InBounds => FeedTypeOK
  <2>1. LastInstant \in Nat
    BY FeedAssumption
  <2>. QED  BY <2>1 DEF FeedInv, FeedTyped, FeedStates, SentOnce, FeedTypeOK
<1>. QED  BY <1>1, <1>2, <1>3, FeedInitInv, FeedStepInv, PTL DEF FeedSpec
=============================================================================
