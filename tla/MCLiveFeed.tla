----------------------------- MODULE MCLiveFeed -----------------------------
(* Instances of LiveFeed for TLC. *)
EXTENDS LiveFeed, TLC

Msg(type, value) == [type |-> type, value |-> value]
By(target, patch) == [target |-> target, patch |-> patch]

CONSTANTS v1, v2
OneCandle == {v1, v2}
CandleMessages == {Msg("partial", v1), Msg("final", v2)}
OtherMessages ==
    {Msg("final", v1), Msg("heartbeat", NoValue), Msg("error", NoValue)}
StopAndResume ==
    {By("stopped", FALSE), By("stopped", TRUE), By("active", TRUE)}
SubSymmetry == Permutations(Subs)
=============================================================================
