---------------------------- MODULE MCMergeGate ----------------------------
(* Settings and bounds for the runs on MergeGate. *)
EXTENDS MergeGateInv

Setting(connected, auto, filter, level) ==
    [connected |-> connected, auto |-> auto, filter |-> filter, level |-> level]

\* Reviews of every branch and of one, automatic reviews off, the repository off.
Auto == Setting(TRUE, TRUE, {"main", "dev"}, 1)
Filtered == Setting(TRUE, TRUE, {"main"}, 1)
AutoOff == Setting(TRUE, FALSE, {"main"}, 1)
Off == Setting(FALSE, FALSE, {"main"}, 1)

Paused == {Filtered, AutoOff}
AllSettings == {Auto, Filtered, AutoOff, Off}
OnlyAuto == {Auto}
OnlyFiltered == {Filtered}
=============================================================================
