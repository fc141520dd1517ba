--------------------------- MODULE DrilldownView -----------------------------
(***************************************************************************)
(* The drilldown in the browser (components/DrilldownModal.jsx): a list    *)
(* for the filters, the search and the page chosen, its totals, and, when  *)
(* the list is long and its totals are partial, the full totals that a     *)
(* second request fetches behind it.                                       *)
(*                                                                         *)
(* A newer list request aborts the older one, a newer request for totals   *)
(* the older one of its kind; an aborted request is not answered.          *)
(*                                                                         *)
(* Left out: the button that retries a failed list, and the chip of the    *)
(* search, which clears what is typed and what is searched for at once.    *)
(***************************************************************************)
EXTENDS Naturals

CONSTANTS
  Choices,       \* what the filters can be
  Searches,      \* what can be typed
  Pages, Sizes,  \* pages and page sizes; 1000 and more are bulk
  Heavy,         \* the filters whose totals are partial in fast mode
  Minimum,       \* the filters with minimum earnings: always partial totals
  Long,          \* the filters that too many employees match for full totals
  MaxViewClicks  \* bound: choices, and requests that fail

VARIABLES
  filters, typed, searched, page, size,  \* what is chosen; typed before it counts
  waiting,     \* the half second after the last character is not over
  list,        \* the list request under way: what it asks, or NoRequest
  totalling,   \* the request for full totals under way, or NoRequest
  rowsShown,   \* what the rows shown were asked with
  totalsShown, \* of what the totals are, whether full, whether announced
  failed,      \* the last list request failed
  overtaken,   \* history: full totals were under way when a list needed none
  viewClicks

viewVars == <<filters, typed, searched, page, size, waiting, list, totalling, rowsShown,
              totalsShown, failed, overtaken, viewClicks>>

NoRequest == [page |-> 0]
IsBulk(s) == s >= 1000

\* summaryKey: a search and filters; the page does not matter.
Key(q) == <<q.filters, q.search>>
\* A list request; had: the full totals were shown when it began.
Asks == [filters |-> filters, search |-> searched, page |-> page, size |-> size,
         had |-> totalsShown.full /\ totalsShown.of = <<filters, searched>>]

\* loadData: the effect of every change.
LoadData == list' = Asks'

Partial(q) == q.filters \in Minimum \/ (IsBulk(q.size) /\ q.filters \in Heavy)

Nowhere == <<"none", "none">>

Init ==
  /\ filters \in Choices /\ searched \in Searches /\ typed = searched
  /\ page = 1 /\ size \in Sizes /\ waiting = TRUE
  /\ totalsShown = [of |-> Nowhere, full |-> FALSE, updating |-> FALSE]
  /\ list = Asks /\ totalling = NoRequest
  /\ rowsShown = NoRequest
  /\ failed = FALSE /\ overtaken = FALSE
  /\ viewClicks = 0

ClickView == viewClicks < MaxViewClicks /\ viewClicks' = viewClicks + 1
screen == <<totalling, rowsShown, totalsShown, overtaken>>

\* A filter, or a preset or an address that brings a search with it: back to
\* the first page.
ChooseFilters ==
  /\ ClickView
  /\ filters' \in Choices \ {filters} /\ page' = 1
  /\ \/ UNCHANGED <<typed, searched, waiting>>
     \/ /\ typed' \in Searches /\ searched' = typed'
        /\ waiting' = (waiting \/ typed' # typed)
  /\ UNCHANGED <<size, screen>>
  /\ LoadData /\ failed' = FALSE

ChoosePage ==
  /\ ClickView
  /\ page' \in Pages \ {page}
  /\ UNCHANGED <<filters, typed, searched, waiting, size, screen>>
  /\ LoadData /\ failed' = FALSE

ChooseSize ==
  /\ ClickView
  /\ size' \in Sizes \ {size} /\ page' = 1
  /\ UNCHANGED <<filters, typed, searched, waiting, screen>>
  /\ LoadData /\ failed' = FALSE

\* Each character starts the wait of half a second anew.
Type ==
  /\ ClickView
  /\ typed' \in Searches \ {typed} /\ waiting' = TRUE
  /\ UNCHANGED <<filters, searched, page, size, list, failed, screen>>

\* Back to the first page, also when what was typed is what was searched.
Debounced ==
  /\ waiting /\ waiting' = FALSE
  /\ searched' = typed /\ page' = 1
  /\ UNCHANGED <<filters, typed, size, screen, viewClicks>>
  /\ IF <<searched', page'>> = <<searched, page>> THEN UNCHANGED <<list, failed>>
     ELSE LoadData /\ failed' = FALSE

\* The answer of the list brings totals with it.  When they are partial, the
\* full ones are fetched unless too many employees match, or unless they
\* were shown already when the request began.
ListArrives ==
  /\ list # NoRequest
  /\ rowsShown' = list /\ list' = NoRequest
  /\ LET fetch == Partial(list) /\ list.filters \notin Long IN
       /\ totalsShown' = [of |-> Key(list), full |-> ~ Partial(list), updating |-> fetch]
       /\ IF fetch /\ ~ list.had
          THEN totalling' = list /\ overtaken' = FALSE
          ELSE /\ UNCHANGED totalling
               /\ overtaken' = (fetch \/ totalling # NoRequest)
  /\ UNCHANGED <<filters, typed, searched, page, size, waiting, failed, viewClicks>>

ListFails ==
  /\ list # NoRequest /\ ClickView
  /\ list' = NoRequest /\ failed' = TRUE
  /\ UNCHANGED <<filters, typed, searched, page, size, waiting, screen>>

TotalsArrive ==
  /\ totalling # NoRequest
  /\ totalsShown' = [of |-> Key(totalling), full |-> totalling.filters \notin Minimum,
                updating |-> FALSE]
  /\ totalling' = NoRequest
  /\ UNCHANGED <<filters, typed, searched, page, size, waiting, list, rowsShown, failed,
                 overtaken, viewClicks>>

TotalsFail ==
  /\ totalling # NoRequest /\ ClickView
  /\ totalsShown' = [totalsShown EXCEPT !.updating = FALSE]
  /\ totalling' = NoRequest
  /\ UNCHANGED <<filters, typed, searched, page, size, waiting, list, rowsShown, failed,
                 overtaken>>

Next ==
  \/ ChooseFilters \/ ChoosePage \/ ChooseSize \/ Type \/ Debounced
  \/ ListArrives \/ ListFails \/ TotalsArrive \/ TotalsFail

\* When nothing is under way and the last list was answered, the rows are
\* those of the filters, the search and the page chosen; and the totals are
\* of the same filters and search, none of them still announced.  Known
\* exceptions of the totals: full ones that were under way, or shown, when a
\* list arrived that asked for none.
RowsAreChosen ==
  list = NoRequest /\ ~ waiting /\ ~ failed =>
    /\ [rowsShown EXCEPT !.had = Asks.had] = Asks
    /\ totalling = NoRequest /\ ~ overtaken =>
         totalsShown.of = Key(Asks) /\ ~ totalsShown.updating
=============================================================================
