--------------------------- MODULE RequestPromise ---------------------------
(***************************************************************************)
(* What a caller of GitHubVcsGateway may rely on when it asks for something *)
(* that must not happen twice (the POST of a review): it is done at most   *)
(* once, and a definite answer is true when it is given.                   *)
(***************************************************************************)
EXTENDS Naturals

CONSTANT Asking             \* the calls
VARIABLES effects, reply    \* how often each took effect, and what it was told

PromiseInit ==
    /\ effects = [c \in Asking |-> 0]
    /\ reply = [c \in Asking |-> "none"]

Perform(c) ==
    /\ reply[c] = "none" /\ effects[c] = 0
    /\ effects' = [effects EXCEPT ![c] = 1]
    /\ UNCHANGED reply

Answer(c, a) ==
    /\ reply[c] = "none"
    /\ a = "done" => effects[c] = 1
    /\ a = "undone" => effects[c] = 0
    /\ reply' = [reply EXCEPT ![c] = a]
    /\ UNCHANGED effects

PromiseNext == \E c \in Asking :
    \/ Perform(c)
    \/ \E a \in {"done", "undone", "unknown"} : Answer(c, a)

PromiseSpec == PromiseInit /\ [][PromiseNext]_<<effects, reply>>
=============================================================================
