--------------------------- MODULE MCActionItems ----------------------------
(* Instances of ActionItems for TLC. *)
EXTENDS ActionItems

AllKinds == {"outcome", "replay", "news", "wait", "review"}
JustReplay == {"replay"}
JustOutcome == {"outcome"}
ReplayAndNews == {"replay", "news"}
Now == {0}
NowOrLater == {0, 1}
=============================================================================
