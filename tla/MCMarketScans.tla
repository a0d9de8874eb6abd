---------------------------- MODULE MCMarketScans ----------------------------
(* Instances of MarketScans for TLC. *)
EXTENDS MarketScans

Unscheduled == [status |-> "paused", next |-> NoTime]

\* All configs are new; or one is, and the others were paused without a time.
NewOrUnscheduled ==
    LET first == CHOOSE c \in Configs : TRUE
    IN  {[c \in Configs |-> CreatedConfig(0)],
         [c \in Configs |-> IF c = first THEN CreatedConfig(0) ELSE Unscheduled]}
=============================================================================
