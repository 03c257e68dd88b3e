----------------------------- MODULE MarketScreen -----------------------------
(* The trading screen's polling: a fetch of four questions started when the  *)
(* screen is shown, every five seconds, after an order, and anew whenever    *)
(* the effect that starts it is run again.                                   *)
(*                                                                           *)
(* The effect depends on the toast context, whose value is made anew when a  *)
(* toast comes or goes: each change of the toasts fetches once more, with a  *)
(* toast should it fail.                                                     *)
EXTENDS Integers, FiniteSets

CONSTANTS
    MaxFetches,     \* bound: fetches started
    MaxAhead,       \* bound: fetches under way at once
    MaxVersion      \* bound: versions of the order book

ASSUME ScreenAssumption == MaxFetches \in Nat /\ MaxAhead \in Nat /\ MaxVersion \in Nat

VARIABLES
    book,       \* the order book's version on the network
    shown,      \* orderBook: the version on the screen, 0 for none
    fetches,    \* fetches under way: the version each has read, 0 before
    fetchCount, \* fetches so far: each is named by its number
    toastCount, \* error toasts on the screen
    together  \* two fetches were under way together

screenVars == <<book, shown, fetches, fetchCount, toastCount, together>>

FetchStarted(loud) ==
    /\ fetchCount < MaxFetches /\ Cardinality(fetches) < MaxAhead
    /\ fetchCount' = fetchCount + 1
    /\ fetches' = fetches \cup {[n |-> fetchCount, loud |-> loud, read |-> 0]}
    /\ together' = (together \/ fetches # {})

ScreenInit ==
    /\ book = 1 /\ shown = 0 /\ toastCount = 0 /\ together = FALSE
    /\ fetchCount = 1 /\ fetches = {[n |-> 0, loud |-> TRUE, read |-> 0]}

(* setInterval: without toasts.  Nothing waits for the last fetch. *)
IntervalPolls == FetchStarted(FALSE) /\ UNCHANGED <<book, shown, toastCount>>

(* handlePlaceOrder, handleRetryFetch. *)
FetchAsked == FetchStarted(TRUE) /\ UNCHANGED <<book, shown, toastCount>>

(* The order book is read first, three more questions follow. *)
BookRead(f) ==
    /\ f \in fetches /\ f.read = 0
    /\ fetches' = (fetches \ {f}) \cup {[f EXCEPT !.read = book]}
    /\ UNCHANGED <<book, shown, fetchCount, toastCount, together>>

(* All were answered: the answers are shown together. *)
FetchDone(f) ==
    /\ f \in fetches /\ f.read # 0
    /\ shown' = f.read /\ fetches' = fetches \ {f}
    /\ UNCHANGED <<book, fetchCount, toastCount, together>>

\* Mutant: a failed fetch takes the order book off the screen.
NothingShown == 0
(* What a failed fetch leaves on the screen. *)
StillShown == shown

(* A question fails: a loud fetch adds a toast, which runs the effect again. *)
FetchFails(f) ==
    /\ f \in fetches /\ shown' = StillShown
    /\ IF f.loud /\ fetchCount < MaxFetches
       THEN /\ toastCount' = toastCount + 1 /\ fetchCount' = fetchCount + 1
            /\ fetches' = (fetches \ {f}) \cup {[n |-> fetchCount, loud |-> TRUE, read |-> 0]}
            /\ together' = (together \/ fetches # {f})
       ELSE fetches' = fetches \ {f} /\ UNCHANGED <<fetchCount, toastCount, together>>
    /\ UNCHANGED book

(* A toast is dismissed, retried or times out: the effect runs again. *)
ToastLeaves ==
    /\ toastCount > 0 /\ toastCount' = toastCount - 1
    /\ FetchStarted(TRUE) /\ UNCHANGED <<book, shown>>

OrderBookMoves == book < MaxVersion /\ book' = book + 1 /\ UNCHANGED <<shown, fetches, fetchCount, toastCount, together>>

ScreenNext ==
    \/ IntervalPolls \/ FetchAsked \/ ToastLeaves \/ OrderBookMoves
    \/ \E f \in fetches : BookRead(f) \/ FetchDone(f) \/ FetchFails(f)

ScreenSpec == ScreenInit /\ [][ScreenNext]_screenVars

-----------------------------------------------------------------------------
(* Properties *)

(* The order book on the screen goes back to an older version only after two *)
(* fetches were under way together, when the one that read first answered    *)
(* last: the interval does not wait for the fetch before it.                 *)
BackOnlyByOverlap == [][shown' >= shown \/ together]_screenVars
=============================================================================
