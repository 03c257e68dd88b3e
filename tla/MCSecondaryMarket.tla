------------------------- MODULE MCSecondaryMarket --------------------------
(* Instances of SecondaryMarket for TLC. *)
EXTENDS SecondaryMarket

CONSTANTS al, bo

\* Everybody starts with enough of both for two orders.
EqualDeposit == [t \in Trader |-> [base |-> 4, rwa |-> 2]]

\* Trader al sells up to three tokens and bo pays for them.
DeepDeposit == [t \in Trader |-> [base |-> 6, rwa |-> 3]]

Open(rate) == [is_paused |-> FALSE, fee_rate_bps |-> rate]
RebateOrFee == {Open(5000), Open(-5000)}
PausedOrOpen == {Open(0), [is_paused |-> TRUE, fee_rate_bps |-> 0]}

\* Both sides pay half of a settlement of 2 or more.
HalfTier == {[maker_fee_bps |-> 5000, taker_fee_bps |-> 5000]}

\* The breaker trips when a price doubles.
ThresholdBreaker == {[threshold_bps |-> 5000, cooldown_seconds |-> 1, auto_reset |-> TRUE]}

StopAtOne == {<<"StopLoss", 1>>}
ProfitAtTwo == {<<"TakeProfit", 2>>}
=============================================================================
