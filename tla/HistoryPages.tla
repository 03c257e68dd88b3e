----------------------------- MODULE HistoryPages -----------------------------
(* The transaction history's filters and pages: the page is state of its     *)
(* own, kept beside the filters that decide how many pages there are.        *)
EXTENDS Integers

CONSTANTS
    Filter,     \* settings of the type, token, status and search filters
    DateRange,  \* settings of the two date inputs
    NoDates,    \* the setting with both inputs empty
    Pages,      \* pages[<<f, d>>]: the pages of results each combination may have
    PagerSize   \* the pager's numbered buttons, 5

ASSUME PagesAssumption ==
    /\ NoDates \in DateRange
    /\ Pages \in [Filter \X DateRange -> SUBSET Nat] /\ PagerSize \in Nat \ {0}

VARIABLES
    filter, dates,  \* the filters
    totalPages,     \* pages of filteredTransactions
    currentPage,
    moved           \* the dates or the transactions changed since the page was set

historyVars == <<filter, dates, totalPages, currentPage, moved>>

HistoryInit ==
    /\ filter \in Filter /\ dates \in DateRange
    /\ totalPages \in Pages[<<filter, dates>>] /\ currentPage = 1 /\ moved = FALSE

\* Mutant: the page stays.
PageKept == currentPage
(* setCurrentPage(1) in handleFilterChange, handleSort and the Clear button. *)
PageReset == 1

ChangeFilter(f) ==
    /\ f # filter /\ filter' = f
    /\ totalPages' \in Pages[<<f, dates>>] /\ currentPage' = PageReset /\ moved' = FALSE
    /\ UNCHANGED dates

SortBy ==
    /\ currentPage' = PageReset /\ moved' = FALSE
    /\ UNCHANGED <<filter, dates, totalPages>>

(* The date inputs set the range and nothing else. *)
ChangeDates(d) ==
    /\ d # dates /\ dates' = d
    /\ totalPages' \in Pages[<<filter, d>>] /\ moved' = TRUE
    /\ UNCHANGED <<filter, currentPage>>

(* The Clear button, there while a date is set, goes to the first page. *)
ClearDates ==
    /\ dates # NoDates /\ dates' = NoDates
    /\ totalPages' \in Pages[<<filter, NoDates>>] /\ currentPage' = PageReset /\ moved' = FALSE
    /\ UNCHANGED filter

(* Other transactions are passed in. *)
TransactionsChange ==
    /\ totalPages' \in Pages[<<filter, dates>>] /\ moved' = TRUE
    /\ UNCHANGED <<filter, dates, currentPage>>

Goes(page) == currentPage' = page /\ UNCHANGED <<filter, dates, totalPages, moved>>

(* The pager is shown when there is more than one page. *)
Previous == totalPages > 1 /\ currentPage # 1 /\ Goes(currentPage - 1)
NextPage ==
    /\ totalPages > 1 /\ currentPage # totalPages
    /\ Goes(IF currentPage + 1 < totalPages THEN currentPage + 1 ELSE totalPages)

Half == PagerSize \div 2
(* The numbered buttons: around the current page, within the pages there are. *)
Numbered ==
    LET first == IF totalPages <= PagerSize \/ currentPage <= Half + 1 THEN 1
                 ELSE IF currentPage >= totalPages - Half THEN totalPages - PagerSize + 1
                 ELSE currentPage - Half
        shown == IF totalPages < PagerSize THEN totalPages ELSE PagerSize IN
    first..(first + shown - 1)
GoTo(page) == totalPages > 1 /\ page \in Numbered /\ Goes(page)

HistoryNext ==
    \/ \E f \in Filter : ChangeFilter(f)
    \/ \E d \in DateRange : ChangeDates(d)
    \/ \E p \in Numbered : GoTo(p)
    \/ SortBy \/ ClearDates \/ TransactionsChange \/ Previous \/ NextPage

HistorySpec == HistoryInit /\ [][HistoryNext]_historyVars

-----------------------------------------------------------------------------
(* Properties *)

(* The page shown is one of the pages there are, through any mixture of      *)
(* filtering, sorting and turning pages, unless the dates or the             *)
(* transactions changed under it (handleFilterChange, handleSort, the pager). *)
EmptyPageNeedsCause == moved \/ currentPage = 1 \/ currentPage <= totalPages

-----------------------------------------------------------------------------
(* What the repository's words say and the code does not do.  Each was       *)
(* refuted by TLC; the README tells the shortest behaviour that does it.     *)

(* TransactionHistory.tsx:165 says "Reset page on filter change": a change   *)
(* of any filter shows the first page.                                       *)
FilterShowsFirstPage ==
    [][<<filter, dates>>' # <<filter, dates>> => currentPage' = 1]_historyVars
=============================================================================
