------------------------------- MODULE RunFeed -------------------------------
(***************************************************************************)
(* The stream of run events of one client (app/api/events.py,              *)
(* app/domain/run_feed.py, app/application/run_feed_events.py): a signal   *)
(* at each commit of a run, a read behind a cursor over (updated_at, id)   *)
(* with a window for rows that are committed late, and the client, which   *)
(* takes a REST snapshot after `open` and keeps the newer version of a row.*)
(* The signals come over one LISTEN connection (run_changes.py), which may *)
(* die unnoticed until its heartbeat fails.                                *)
(* A row is stamped before its commit.  An insertion is stamped by its     *)
(* process, whose clock may be ahead of the database by Skew, an update by *)
(* the database: the later version may bear the earlier stamp.             *)
(***************************************************************************)
EXTENDS Naturals, FiniteSets

CONSTANTS
    FeedRuns,       \* ids of the runs, numbers from 1
    Recheck,        \* RECHECK, the window under the cursor
    BatchLimit,     \* BATCH_LIMIT
    Skew,           \* by how much a process may be ahead of the database
    LastInstant, Connections,   \* bounds: time, connections of the client,
    WriteLimit,     \* writes of each run
    Losses          \* and deaths of the LISTEN connection

\* The window outlasts what the clocks differ by, which it is there for (RECHECK).
ASSUME FeedAssumption ==
    /\ FeedRuns \subseteq Nat \ {0} /\ IsFiniteSet(FeedRuns)
    /\ {Recheck, BatchLimit, Skew, LastInstant, Connections, Losses} \subseteq Nat
    /\ Skew < Recheck /\ Recheck < LastInstant

VARIABLES
    rows,         \* the committed row of each run, NoVersion before
    writing,        \* the version a transaction is about to commit
    instant,        \* the clock of the database
    phase,          \* where stream_events stands
    listener,       \* the LISTEN connection: "down", "up", or "dead" and not known to be
    losses,         \* how often it has died
    signal,         \* of the subscription: "none", "changed" or "lost"
    feed,           \* RunFeedState, and whether the last read hit the limit
    catchingUp,     \* the read under way is a catch-up without a signal
    snapshot,       \* of the REST request: what it has read, whether it is shown
    client,         \* what the client shows of each run
    connections,
    delivered, repeated \* history: the last version of a run this connection gave, runs given twice

feedVars == <<rows, writing, instant, phase, listener, losses, signal, feed, catchingUp, snapshot, client,
              connections, delivered, repeated>>
server == <<rows, writing, instant>>
listening == <<listener, losses>>
browser == <<snapshot, client, connections>>

\* A version of a row: its number, updated_at, created_at and, as history, the latest
\* updated_at among the versions it follows.
NoVersion == [number |-> 0, at |-> 0, created |-> 0, past |-> 0]
Versions == [number : Nat, at : Nat, created : Nat, past : Nat]
NoSnapshot == [step |-> "none", rows |-> [r \in FeedRuns |-> NoVersion]]
NothingDelivered == [r \in FeedRuns |-> 0]
ClosedFeed == [connected |-> 0, lower |-> 0, cursor |-> <<0, 0>>, recent |-> {},
           announced |-> {}, more |-> FALSE]

FeedInit ==
    /\ rows = [r \in FeedRuns |-> NoVersion] /\ writing = rows
    /\ instant = Recheck + 1
    /\ listener = "down" /\ losses = 0
    /\ phase = "off" /\ signal = "none" /\ feed = ClosedFeed /\ catchingUp = FALSE
    /\ snapshot = NoSnapshot /\ client = rows /\ connections = 0
    /\ delivered = NothingDelivered /\ repeated = {}

\* ---- the writers ---------------------------------------------------------

\* add() keeps the time of the process, update() takes clock_timestamp() under the
\* lock of the row, which no other transaction holds until the commit.
InsertFeedRun(r, ahead) ==
    /\ rows[r] = NoVersion /\ writing[r] = NoVersion
    /\ writing' = [writing EXCEPT ![r] =
           [number |-> 1, at |-> instant + ahead, created |-> instant + ahead, past |-> 0]]
    /\ UNCHANGED <<rows, instant, phase, listening, signal, feed, catchingUp, browser, delivered, repeated>>

\* It may follow the insertion at once: a claim, a compensation.
UpdateFeedRun(r) ==
    /\ rows[r] # NoVersion /\ writing[r] = NoVersion
    /\ rows[r].number < WriteLimit[r]
    /\ writing' = [writing EXCEPT ![r] =
           [number |-> rows[r].number + 1, at |-> instant, created |-> rows[r].created,
            past |-> IF rows[r].at > rows[r].past THEN rows[r].at ELSE rows[r].past]]
    /\ UNCHANGED <<rows, instant, phase, listening, signal, feed, catchingUp, browser, delivered, repeated>>

\* pg_notify goes out with the commit to whoever listens by then.
CommitFeedRun(r) ==
    /\ writing[r] # NoVersion
    /\ rows' = [rows EXCEPT ![r] = writing[r]]
    /\ writing' = [writing EXCEPT ![r] = NoVersion]
    /\ signal' = IF listener = "up" /\ phase # "off" /\ signal = "none" THEN "changed" ELSE signal
    /\ UNCHANGED <<instant, phase, listening, feed, catchingUp, browser, delivered, repeated>>

\* Time passes. A transaction is over before its stamp leaves the window of a reader
\* whose cursor is as far as a stamp can be (run_feed.RECHECK), and a catch-up, which
\* does not look at the window, is over at once: a slow one would carry the cursor past
\* a row that was committed, and signalled, while it was under way.
InstantPasses ==
    /\ instant < LastInstant
    /\ \A r \in FeedRuns : writing[r] # NoVersion => instant + 1 + Skew < writing[r].at + Recheck
    /\ ~(phase = "reading" /\ catchingUp)
    /\ instant' = instant + 1
    /\ UNCHANGED <<rows, writing, phase, listening, signal, feed, catchingUp, browser, delivered, repeated>>

\* ---- the LISTEN connection of the process --------------------------------

RestOfFeed == <<server, phase, feed, catchingUp, browser, delivered, repeated>>

\* _listen_once, to LISTEN.
Listen ==
    /\ listener = "down" /\ listener' = "up"
    /\ UNCHANGED <<losses, signal, RestOfFeed>>

\* The connection dies; until it is used nobody knows.
ListenerDies ==
    /\ listener = "up" /\ losses < Losses
    /\ listener' = "dead" /\ losses' = losses + 1
    /\ UNCHANGED <<signal, RestOfFeed>>

\* The heartbeat fails, and _drop_subscribers tells every stream.
HeartbeatFails ==
    /\ listener = "dead" /\ listener' = "down"
    /\ signal' = IF phase # "off" THEN "lost" ELSE signal
    /\ UNCHANGED <<losses, RestOfFeed>>

\* ---- the stream ----------------------------------------------------------

Above(r, cursor) == rows[r].at > cursor[1] \/ (rows[r].at = cursor[1] /\ r > cursor[2])
RecheckFrom(f) ==
    IF f.cursor[1] > f.lower + Recheck THEN f.cursor[1] - Recheck ELSE f.lower
Key(r) == <<rows[r].at, r>>
Before(p, q) == p[1] < q[1] \/ (p[1] = q[1] /\ p[2] < q[2])

\* MUTANT of ListChanged: the window under the cursor is not looked at.
ListChangedAbove(cursor, recheckFrom) == {r \in FeedRuns : rows[r] # NoVersion /\ Above(r, cursor)}

\* list_changed: the rows above the cursor up to the limit, the window under it whole.
ListChanged(cursor, recheckFrom) ==
    LET fresh == {r \in FeedRuns : rows[r] # NoVersion /\ Above(r, cursor)}
        limited == {r \in fresh :
            Cardinality({q \in fresh : Before(Key(q), Key(r))}) < BatchLimit}
        late == {r \in FeedRuns :
            rows[r] # NoVersion /\ rows[r].at > recheckFrom /\ ~Above(r, cursor)}
    IN limited \cup late

\* advance_feed: the state after a batch; Novel are the rows that give an event.
Novel(f, batch) == {r \in batch : <<r, rows[r].at>> \notin f.recent}
\* MUTANT of AdvanceFeed: what was given is not remembered.
AdvanceFeedForgetting(f, batch) ==
    LET keys == {Key(r) : r \in batch} \cup {f.cursor}
    IN [f EXCEPT !.cursor = CHOOSE k \in keys : \A other \in keys : other = k \/ Before(other, k)]

AdvanceFeed(f, batch) ==
    LET keys == {Key(r) : r \in batch} \cup {f.cursor}
        cursor == CHOOSE k \in keys : \A other \in keys : other = k \/ Before(other, k)
        moved == [f EXCEPT !.cursor = cursor,
                     !.announced = @ \cup {r \in Novel(f, batch) : rows[r].created > f.connected}]
        seen == {e \in f.recent : e[1] \notin Novel(f, batch)}
                    \cup {<<r, rows[r].at>> : r \in Novel(f, batch)}
    IN [moved EXCEPT !.recent = {e \in seen : e[2] > RecheckFrom(moved)}]

\* run.created, or one of the two events of a change, which differ by the status only.
EventType(f, r) ==
    IF rows[r].created > f.connected /\ r \notin f.announced THEN "created" ELSE "changed"

\* subscribe() comes before the first read.
Connect(ahead) ==
    /\ phase = "off" /\ connections < Connections
    /\ listener # "down"
    /\ phase' = "opening" /\ signal' = "none"
    /\ connections' = connections + 1
    /\ LET lower == instant + ahead - Recheck
       IN feed' = [ClosedFeed EXCEPT !.connected = instant + ahead, !.lower = lower,
                                 !.cursor = <<lower, 0>>]
    /\ delivered' = NothingDelivered /\ snapshot' = NoSnapshot
    /\ UNCHANGED <<server, listening, catchingUp, client, repeated>>

\* start_feed: the first batch counts as seen and gives no events.
FirstRead ==
    /\ phase = "opening"
    /\ feed' = AdvanceFeed(feed, ListChanged(feed.cursor, RecheckFrom(feed)))
    /\ phase' = "waiting"
    /\ UNCHANGED <<server, listening, signal, catchingUp, browser, delivered, repeated>>

\* wait_change: a signal, or no signal but rows the limit left behind.
WaitChange ==
    /\ phase = "waiting" /\ signal # "lost"
    /\ signal = "changed" \/ feed.more
    /\ catchingUp' = (signal = "none")
    /\ signal' = "none"
    /\ feed' = [feed EXCEPT !.more = FALSE]
    /\ phase' = "reading"
    /\ UNCHANGED <<server, listening, browser, delivered, repeated>>

\* Of two versions of a row the one with the larger updated_at wins, at a tie the later.
Newer(old, new) == IF new.at >= old.at THEN new ELSE old

\* A catch-up skips the window: a late commit will signal by itself.
ReadBatch ==
    /\ phase = "reading"
    /\ LET batch == ListChanged(feed.cursor, IF catchingUp THEN feed.cursor[1] ELSE RecheckFrom(feed))
           events == Novel(feed, batch)
           more == Cardinality({r \in batch : Above(r, feed.cursor)}) >= BatchLimit
       IN /\ feed' = [AdvanceFeed(feed, batch) EXCEPT !.more = more]
          /\ client' = [r \in FeedRuns |-> IF r \in events THEN Newer(client[r], rows[r])
                                           ELSE client[r]]
          /\ delivered' = [r \in FeedRuns |-> IF r \in events THEN rows[r].number ELSE delivered[r]]
          /\ repeated' = repeated \cup {r \in events :
                 delivered[r] # 0 /\ (delivered[r] = rows[r].number \/ EventType(feed, r) = "created")}
    /\ phase' = "waiting" /\ catchingUp' = FALSE
    /\ UNCHANGED <<server, listening, signal, snapshot, connections>>

\* The subscription is lost (RunChangesLost), the session ends or the client goes away.
StreamEnds ==
    /\ phase # "off"
    /\ phase' = "off" /\ signal' = "none" /\ feed' = ClosedFeed /\ snapshot' = NoSnapshot
    /\ catchingUp' = FALSE /\ delivered' = NothingDelivered
    /\ UNCHANGED <<server, listening, client, connections, repeated>>

\* ---- the client ----------------------------------------------------------

Opened == phase \in {"waiting", "reading"}
ReadSnapshot ==
    /\ Opened /\ snapshot.step = "none"
    /\ snapshot' = [step |-> "read", rows |-> rows]
    /\ UNCHANGED <<server, phase, listening, signal, feed, catchingUp, client, connections, delivered, repeated>>

ShowSnapshot ==
    /\ snapshot.step = "read"
    /\ client' = [r \in FeedRuns |-> Newer(client[r], snapshot.rows[r])]
    /\ snapshot' = [NoSnapshot EXCEPT !.step = "shown"]
    /\ UNCHANGED <<server, phase, listening, signal, feed, catchingUp, connections, delivered, repeated>>

FeedNext ==
    \/ \E r \in FeedRuns :
          \/ \E ahead \in {0, Skew} : InsertFeedRun(r, ahead)
          \/ UpdateFeedRun(r) \/ CommitFeedRun(r)
    \/ \E ahead \in {0, Skew} : Connect(ahead)
    \/ InstantPasses \/ Listen \/ ListenerDies \/ HeartbeatFails
    \/ FirstRead \/ WaitChange \/ ReadBatch \/ StreamEnds
    \/ ReadSnapshot \/ ShowSnapshot

FeedSpec == FeedInit /\ [][FeedNext]_feedVars

FeedTypeOK ==
    /\ rows \in [FeedRuns -> Versions] /\ writing \in [FeedRuns -> Versions]
    /\ client \in [FeedRuns -> Versions] /\ instant \in 0..LastInstant
    /\ phase \in {"off", "opening", "waiting", "reading"}
    /\ listener \in {"down", "up", "dead"} /\ losses \in 0..Losses
    /\ signal \in {"none", "changed", "lost"} /\ catchingUp \in BOOLEAN
    /\ feed \in [connected : Nat, lower : Nat, cursor : Nat \X Nat,
                 recent : SUBSET (FeedRuns \X Nat), announced : SUBSET FeedRuns, more : BOOLEAN]
    /\ snapshot \in [step : {"none", "read", "shown"}, rows : [FeedRuns -> Versions]]
    /\ connections \in 0..Connections /\ repeated \subseteq FeedRuns /\ delivered \in [FeedRuns -> Nat]

\* The committed version of a row is stamped no later than one before it.
Outpaced(r) == rows[r] # NoVersion /\ rows[r].at <= rows[r].past

\* While the stream is open and has nothing left to do, the client that has its
\* snapshot shows the committed version of every run, as long as no dead connection
\* awaits its heartbeat: what was committed while it was dead is made up for.  The
\* client goes by the stamps (events.py), so this is not said of a version that is
\* stamped no later than one before it, and is said again of the next that is later
\* than all.  And a connection gives no version twice, whatever the stamps, and tells
\* of a run's creation at most once.
QuietClientIsCurrent ==
    /\ (phase = "waiting" /\ signal = "none" /\ listener # "dead" /\ ~feed.more
            /\ snapshot.step = "shown") => \A r \in FeedRuns : client[r] = rows[r] \/ Outpaced(r)
    /\ repeated = {}
=============================================================================
