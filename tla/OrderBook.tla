----------------------------- MODULE OrderBook ------------------------------
(***************************************************************************)
(* One side of the price-time book of an asset token (book_insert,         *)
(* book_remove and best_order_id of src/src/secondary_market.rs): a sorted *)
(* list of price levels, and for each price the orders resting there in    *)
(* arrival order.  Orders are numbered as they arrive; a resting order     *)
(* leaves the book when it is cancelled, filled or pruned, expires while   *)
(* it still rests, and loses its temporary entry when the ledger archives  *)
(* it, of which the book hears nothing.                                    *)
(***************************************************************************)
EXTENDS Integers, Sequences, SequencesExt

CONSTANTS
    Prices,             \* limit prices of orders
    MaxOrders           \* bound: orders that ever arrive

ASSUME BookAssumption ==
    Prices \subseteq Int /\ MaxOrders \in Nat

VARIABLES
    is_bid,             \* which side this is: the best buy price is the highest
    price,              \* price[i]: the limit price of the i-th order
    status,             \* status[i]: "resting", "expired", "closed" or "archived"
    prices,             \* BidPrices or AskPrices: the price levels, best first
    level               \* BidOrders or AskOrders: the orders of every price level

bookVars == <<is_bid, price, status, prices, level>>

-----------------------------------------------------------------------------
\* An incoming order at price p belongs after the level at price q.
MoveRight(p, q) == IF is_bid THEN p < q ELSE p > q

\* Where the level of p is, or belongs, among the first n levels: search[<<lo, hi>>]
\* looks between the lo-th and the hi-th.
Search(p, n) ==
    LET search[r \in (0..n) \X (0..n)] ==
            LET mid == r[1] + (r[2] - r[1]) \div 2
            IN  IF r[1] >= r[2] THEN r[1]
                ELSE IF MoveRight(p, prices[mid + 1]) THEN search[<<mid + 1, r[2]>>]
                ELSE search[<<r[1], mid>>]
    IN  search[<<0, n>>]

\* The binary search of book_insert.
Position(p) == Search(p, Len(prices))

\* Mutant: a new level goes in front of every other.
WithLevelFirst(p) == <<p>> \o prices

\* The levels with one for p.
WithLevel(p) ==
    LET lo == Position(p)
    IN  IF lo < Len(prices) /\ prices[lo + 1] = p THEN prices
        ELSE InsertAt(prices, lo + 1, p)

\* The loop of book_remove that keeps everything else.
Without(s, x) == FoldLeft(LAMBDA kept, y : IF y = x THEN kept ELSE Append(kept, y), <<>>, s)

\* Mutant: an emptied level stays in the list of levels.
WithoutLevelKept(p, kept) == prices

\* The levels once `kept` is what rests at p.
WithoutLevel(p, kept) ==
    IF kept = <<>> THEN Without(prices, p) ELSE prices

Queued(p, id) == [level EXCEPT ![p] = Append(@, id)]

\* book_insert
BookInsert(p) ==
    LET id == Len(price) + 1
    IN  /\ id <= MaxOrders
        /\ price' = Append(price, p)
        /\ status' = Append(status, "resting")
        /\ prices' = WithLevel(p)
        /\ level' = Queued(p, id)
        /\ UNCHANGED is_bid

\* book_remove, when the order with this id is cancelled, filled or pruned; an
\* archived order is never read again, so it is never removed.
BookRemove(id) ==
    LET p == price[id]
        kept == Without(level[p], id)
    IN  /\ status[id] \in {"resting", "expired"}
        /\ status' = [status EXCEPT ![id] = "closed"]
        /\ level' = [level EXCEPT ![p] = kept]
        /\ prices' = WithoutLevel(p, kept)
        /\ UNCHANGED <<is_bid, price>>

\* Time passes the expiry of an order.
Expire(id) ==
    /\ status[id] = "resting"
    /\ status' = [status EXCEPT ![id] = "expired"]
    /\ UNCHANGED <<is_bid, price, prices, level>>

\* The ledger archives the entry of an order.
Archive(id) ==
    /\ status[id] # "archived"
    /\ status' = [status EXCEPT ![id] = "archived"]
    /\ UNCHANGED <<is_bid, price, prices, level>>

\* best_order_id: the first order that still rests of the first level with one, 0
\* for none.
RestingAt(p) == {j \in DOMAIN level[p] : status[level[p][j]] = "resting"}

BestOrderId ==
    LET found == {k \in DOMAIN prices : RestingAt(prices[k]) # {}}
        p == prices[Min(found)]
    IN  IF found = {} THEN 0 ELSE level[p][Min(RestingAt(p))]

-----------------------------------------------------------------------------
BookInit ==
    /\ is_bid \in BOOLEAN
    /\ price = <<>>
    /\ status = <<>>
    /\ prices = <<>>
    /\ level = [p \in Prices |-> <<>>]

BookNext ==
    \/ \E p \in Prices : BookInsert(p)
    \/ \E id \in DOMAIN price : BookRemove(id) \/ Expire(id) \/ Archive(id)

BookSpec == BookInit /\ [][BookNext]_bookVars

-----------------------------------------------------------------------------
Resting == {id \in DOMAIN price : status[id] = "resting"}

\* id1 has priority over id2: a better price, or the same price and earlier.
Before(id1, id2) ==
    \/ MoveRight(price[id2], price[id1])
    \/ price[id1] = price[id2] /\ id1 < id2

\* The last conjunct: an order is listed once, at its own price, after the earlier ones.
BookTypeOK ==
    /\ is_bid \in BOOLEAN
    /\ price \in Seq(Prices)
    /\ status \in Seq({"resting", "expired", "closed", "archived"})
    /\ Len(status) = Len(price)
    /\ prices \in Seq(Prices)
    /\ level \in [Prices -> Seq(1..MaxOrders)]
    /\ \A p \in Prices : \A j, k \in DOMAIN level[p] :
          price[level[p][j]] = p /\ (j < k => level[p][j] < level[p][k])

\* Exactly the prices at which something is listed have a level, so every resting
\* order is found from the list of levels and a level is never left empty.
LevelsMatchOrders ==
    /\ \A p \in Prices : (level[p] # <<>>) <=> (\E k \in DOMAIN prices : prices[k] = p)
    /\ \A id \in Resting : \E k \in DOMAIN level[price[id]] : level[price[id]][k] = id

\* The order best_order_id picks has priority over every other order that could be
\* matched, whatever expired or was archived in front of it; this is the order the
\* scan of best_opposing_order picks.
BestHasPriority ==
    /\ BestOrderId = 0 <=> Resting = {}
    /\ BestOrderId # 0 =>
          /\ BestOrderId \in Resting
          /\ \A id \in Resting \ {BestOrderId} : Before(BestOrderId, id)

\* The levels and the orders tell the same book, and its best order comes first.
BookIsSound == LevelsMatchOrders /\ BestHasPriority

=============================================================================
