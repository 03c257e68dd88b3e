--------------------------- MODULE MCDividendPool ---------------------------
(* Instances of DividendPool for TLC. *)
EXTENDS DividendPool

CONSTANTS al, bo

\* Shares that do not divide the amounts.
UnevenHoldings == (al :> 1) @@ (bo :> 2)

\* Two distributions at once.
Pair == {<<4, 5>>}

AlToBo == {<<al, bo, 1>>}

\* Half of every claim is a fee.
HalfFee ==
    {[fee_rate |-> 5000, min_distribution_amount |-> 1, min_claim_window |-> 1,
      auto_distribute |-> TRUE, max_distribution_frequency |-> 2]}
=============================================================================
