------------------------------ MODULE ModelCall ------------------------------
(***************************************************************************)
(* Calls of the language model: the providers in turn                      *)
(* (infrastructure/llm/fallback.py), the attempts at an answer that fits   *)
(* the schema (structured.py), the keys of the hosted provider             *)
(* (openai_compatible.py) and the local one (ollama.py).  What a reply     *)
(* cost goes to the meter of the request; a repetition is told to its      *)
(* on_retry, which makes a step of each attempt.  The texts are left out.  *)
(***************************************************************************)
EXTENDS Naturals, Sequences

CONSTANTS
    ModelCalls,     \* calls of the gateway
    Providers,      \* a sequence of "local" and "hosted"
    SchemaAttempts, \* max_attempts
    Keys            \* how many keys the hosted provider has

ASSUME ModelAssumption ==
    /\ Providers \in Seq({"local", "hosted"}) /\ Providers # <<>>
    /\ SchemaAttempts \in Nat \ {0} /\ Keys \in Nat \ {0}

VARIABLES
    request,    \* each call
    turns,      \* _turns, modulo the number of keys
    told,       \* how often its on_retry was told
    metered,    \* replies whose usage its meter holds
    attempts, paid  \* history: attempts made, replies with a usage

modelVars == <<request, turns, told, metered, attempts, paid>>

NoRequest == [at |-> "idle", provider |-> 0, attempt |-> 0, first |-> 0, refusals |-> <<>>,
              reply |-> "none", result |-> "none"]
Failures == {"unavailable", "timeout", "rateLimited", "invalidOutput", "tooLarge"}
Replies == {"valid", "invalid", "cut", "partial"}
Refusal == {"limited", "denied"}        \* 429; 401 and 403: the key's fault

ModelInit ==
    /\ request = [c \in ModelCalls |-> NoRequest]
    /\ turns = 0
    /\ told = [c \in ModelCalls |-> 0] /\ metered = told /\ attempts = told /\ paid = told

Counted(counter, c) == [counter EXCEPT ![c] = @ + 1]
Asking(c) == request[c].at = "asking"
Kind(c) == Providers[request[c].provider]

\* MUTANT of AskProvider: the turn does not come round.
AskProviderOn(c, n) ==
    /\ request' = [request EXCEPT ![c] =
           [NoRequest EXCEPT !.at = "asking", !.provider = n, !.attempt = 1, !.first = turns]]
    /\ turns' = IF Providers[n] = "hosted" THEN turns + 1 ELSE turns
    /\ attempts' = Counted(attempts, c)

\* complete() of provider n: the hosted one begins with the next key.
AskProvider(c, n) ==
    /\ request' = [request EXCEPT ![c] =
           [NoRequest EXCEPT !.at = "asking", !.provider = n, !.attempt = 1, !.first = turns]]
    /\ turns' = IF Providers[n] = "hosted" THEN (turns + 1) % Keys ELSE turns
    /\ attempts' = Counted(attempts, c)

Return(c, result) ==
    /\ request' = [request EXCEPT ![c] = [NoRequest EXCEPT !.at = "over", !.result = result]]
    /\ UNCHANGED <<turns, attempts>>

\* A request that does not fit the window goes to nobody (_fitting).
Ask(c) ==
    /\ request[c].at = "idle"
    /\ AskProvider(c, 1) \/ Return(c, "tooLarge")
    /\ UNCHANGED <<told, metered, paid>>

\* MUTANT of NextProvider: the listener is not told that another provider is asked.
NextProviderUntold(c, failure) ==
    IF request[c].provider < Len(Providers)
    THEN AskProvider(c, request[c].provider + 1) /\ UNCHANGED told
    ELSE Return(c, failure) /\ UNCHANGED told

\* The next provider is a repetition; after the last its failure is the call's.
NextProvider(c, failure) ==
    IF request[c].provider < Len(Providers)
    THEN AskProvider(c, request[c].provider + 1) /\ told' = Counted(told, c)
    ELSE Return(c, failure) /\ UNCHANGED told

\* No reply, an error of the provider, or a body without a usage one can read.
NoReply(c, failure) ==
    /\ Asking(c)
    /\ NextProvider(c, failure)
    /\ UNCHANGED <<metered, paid>>

\* _post_rotating: the next key, and after the last one the provider has failed.
KeyRefused(c, code) ==
    /\ Asking(c) /\ Kind(c) = "hosted"
    /\ LET refusals == Append(request[c].refusals, code)
       IN IF Len(refusals) < Keys
          THEN /\ request' = [request EXCEPT ![c].refusals = refusals]
               /\ UNCHANGED <<turns, told, attempts>>
          ELSE NextProvider(c, IF \A i \in DOMAIN refusals : refusals[i] = "limited"
                                THEN "rateLimited" ELSE "unavailable")
    /\ UNCHANGED <<metered, paid>>

\* A reply that does not fit the schema, or was cut off, is asked for again.
Repeat(c) ==
    IF request[c].attempt < SchemaAttempts
    THEN /\ request' = [request EXCEPT ![c].at = "asking", ![c].attempt = @ + 1,
                                              ![c].refusals = <<>>, ![c].reply = "none"]
         /\ told' = Counted(told, c) /\ attempts' = Counted(attempts, c)
         /\ UNCHANGED turns
    ELSE NextProvider(c, "invalidOutput")

\* The provider answers and is paid: a text that fits the schema or does not, a prompt the
\* local model may have cut, or a body without its parts.
ReplyComes(c, reply) ==
    /\ Asking(c)
    /\ reply = "cut" => Kind(c) = "local"
    /\ request' = [request EXCEPT ![c].at = "replied", ![c].reply = reply]
    /\ paid' = Counted(paid, c)
    /\ UNCHANGED <<turns, told, metered, attempts>>

\* complete_structured meters a reply before it looks at it.
ReadReply(c) ==
    /\ request[c].at = "replied"
    /\ metered' = Counted(metered, c)
    /\ LET reply == request[c].reply
       IN \/ reply = "valid" /\ Return(c, "answer") /\ UNCHANGED told
          \/ reply = "invalid" /\ Repeat(c)
          \/ reply \in {"cut", "partial"} /\ NextProvider(c, "unavailable")
    /\ UNCHANGED paid

ModelNext == \E c \in ModelCalls :
    \/ Ask(c)
    \/ \E failure \in {"unavailable", "timeout"} : NoReply(c, failure)
    \/ \E code \in Refusal : KeyRefused(c, code)
    \/ \E reply \in Replies : ReplyComes(c, reply)
    \/ ReadReply(c)

ModelSpec == ModelInit /\ [][ModelNext]_modelVars

ModelTypeOK ==
    /\ request \in [ModelCalls ->
           [at : {"idle", "asking", "replied", "over"}, provider : 0..Len(Providers), attempt : 0..SchemaAttempts,
            first : 0..(Keys - 1), refusals : Seq(Refusal),
            reply : Replies \cup {"none"}, result : Failures \cup {"none", "answer"}]]
    /\ turns \in 0..(Keys - 1)
    /\ \A c \in ModelCalls : Len(request[c].refusals) < Keys
    /\ \A counter \in {told, metered, attempts, paid} : counter \in [ModelCalls -> Nat]

\* Whatever fails and at whichever provider, key or attempt: each reply with a usage is
\* in the meter once, each attempt but the last was told to the listener once, so that
\* steps and attempts agree; and an answer never comes of more attempts than allowed.
EveryAttemptIsAccounted == \A c \in ModelCalls :
    /\ metered[c] = IF request[c].at = "replied" THEN paid[c] - 1 ELSE paid[c]
    /\ paid[c] <= attempts[c]
    /\ request[c].at # "idle" /\ attempts[c] > 0 => told[c] = attempts[c] - 1
    /\ request[c].at # "idle" /\ attempts[c] = 0 => told[c] = 0 /\ request[c].result = "tooLarge"
    /\ attempts[c] <= Len(Providers) * SchemaAttempts
==============================================================================
