------------------------------ MODULE MCWorker ------------------------------
(***************************************************************************)
(* The parts of the worker that share no state, and the stream of events   *)
(* of its runs, checked side by side: part says which one a behaviour is   *)
(* about, the others stand still.                                          *)
(***************************************************************************)
EXTENDS GitHubRequest, Publication, Redelivery, RunSteps, JobPublisher, RunFeed

VARIABLE part

workerVars == <<part, requestVars, pubVars, redeliveryVars, stepVars, publisherVars, feedVars>>

CreateAndRead == [c \in Callers |-> IF c = "a" THEN "create" ELSE "read"]
AllTroubles == {"lookup", "threads", "ids", "answer", "crash", "cancel", "close", "outdate", "slow"}
WritesOfTwo == <<2, 1>>

WorkerInit ==
    /\ part \in {"request", "publication", "redelivery", "steps", "publisher", "feed"}
    /\ RequestInit /\ PubInit /\ RedeliveryInit /\ StepsInit /\ PublisherInit /\ FeedInit

WorkerNext ==
    /\ UNCHANGED part
    /\ \/ /\ part = "request" /\ RequestNext
          /\ UNCHANGED <<pubVars, redeliveryVars, stepVars, publisherVars, feedVars>>
       \/ /\ part = "publication" /\ PubNext
          /\ UNCHANGED <<requestVars, redeliveryVars, stepVars, publisherVars, feedVars>>
       \/ /\ part = "redelivery" /\ RedeliveryNext
          /\ UNCHANGED <<requestVars, pubVars, stepVars, publisherVars, feedVars>>
       \/ /\ part = "steps" /\ StepsNext
          /\ UNCHANGED <<requestVars, pubVars, redeliveryVars, publisherVars, feedVars>>
       \/ /\ part = "publisher" /\ PublisherNext
          /\ UNCHANGED <<requestVars, pubVars, redeliveryVars, stepVars, feedVars>>
       \/ /\ part = "feed" /\ FeedNext
          /\ UNCHANGED <<requestVars, pubVars, redeliveryVars, stepVars, publisherVars>>

WorkerSpec == WorkerInit /\ [][WorkerNext]_workerVars

\* The types of the part that moves.
WorkerTypeOK ==
    /\ part = "request" => RequestTypeOK
    /\ part = "publication" => PubTypeOK
    /\ part = "redelivery" => RedeliveryTypeOK
    /\ part = "steps" => StepsTypeOK
    /\ part = "publisher" => PublisherTypeOK
    /\ part = "feed" => FeedTypeOK
=============================================================================
