------------------------------ MODULE TuiSearch ------------------------------
(***************************************************************************)
(* The search of the terminal UI (demo/tui.mjs).  What is typed is looked  *)
(* for when nothing was typed for a while, at once when it is submitted or *)
(* another asset class is chosen; requestGeneration tells the answer of    *)
(* the newest search from the others.  A keypress is handled in the turn   *)
(* after it (setImmediate), so that other keys may come in between.        *)
(***************************************************************************)
EXTENDS Naturals

CONSTANTS
  Queries,     \* what may be in the field, NoText among it
  Classes,     \* the tabs of searchAssetClasses
  MaxSearches  \* bound on requestGeneration

NoText == ""

ASSUME TuiSearchAssumption == NoText \in Queries /\ Classes # {} /\ MaxSearches \in Nat

VARIABLES
  visible,     \* search.visible
  input,       \* the text in searchInput
  unhandled,   \* whether a keypress waits for scheduleSearchFromInput
  query,       \* search.query
  class,       \* search.assetClassIndex
  searches,    \* the assets.search() calls that have not ended
  newest,      \* search.requestGeneration
  debounce,    \* what debounceTimer will search for
  results,     \* search.results: of which query and class they are
  loading      \* search.loading

tuiSearchVars ==
  <<visible, input, unhandled, query, class, searches, newest, debounce, results, loading>>
field == <<visible, input, unhandled, class>>

NoSearch == [query |-> NoText, class |-> "none", generation |-> 0]
NoResults == [query |-> NoText, class |-> "none"]

(***************************************************************************)
(* runSearch, up to the answer, of the generation the search was given.    *)
(***************************************************************************)
Runs(text, asked) ==
  /\ query' = text /\ loading' = TRUE
  /\ searches' = searches \union {[query |-> text, class |-> asked, generation |-> newest']}

\* resetSearchResults, the field left empty.
Resets == query' = NoText /\ results' = NoResults /\ loading' = FALSE

NextGeneration == newest < MaxSearches /\ newest' = newest + 1

(***************************************************************************)
(* Keys in the field: the text changes, or a key leaves it as it is.       *)
(***************************************************************************)
Types(text) ==
  /\ visible /\ input' = text /\ unhandled' = TRUE
  /\ UNCHANGED <<visible, query, class, searches, newest, debounce, results, loading>>

\* scheduleSearchFromInput: the timer is stopped before it is known whether
\* there is anything new to look for.
Scheduled ==
  /\ unhandled /\ unhandled' = FALSE
  /\ UNCHANGED <<visible, input, class, searches>>
  /\ \/ /\ ~visible
        /\ UNCHANGED <<query, newest, debounce, results, loading>>
     \/ /\ visible /\ input = query /\ debounce' = NoSearch
        /\ UNCHANGED <<query, newest, results, loading>>
     \/ /\ visible /\ input # query /\ NextGeneration
        /\ query' = input /\ results' = NoResults /\ loading' = FALSE
        /\ debounce' = IF input = NoText THEN NoSearch
                       ELSE [query |-> input, class |-> "none", generation |-> newest']

DebounceFires ==
  /\ debounce # NoSearch /\ debounce' = NoSearch
  /\ IF visible /\ debounce.generation = newest
     THEN newest' = newest /\ Runs(debounce.query, class)
     ELSE UNCHANGED <<query, searches, newest, loading>>
  /\ UNCHANGED <<field, results>>

\* Enter.  Nothing stops a search or a timer when the field is empty.
Submitted ==
  /\ visible
  /\ \/ input = NoText /\ Resets /\ UNCHANGED <<searches, newest, debounce>>
     \/ input # NoText /\ NextGeneration /\ debounce' = NoSearch /\ Runs(input, class)
        /\ UNCHANGED results
  /\ UNCHANGED field

\* selectSearchAssetClass, of another class.
ClassChosen(chosen) ==
  /\ visible /\ chosen # class /\ class' = chosen
  /\ NextGeneration /\ debounce' = NoSearch
  /\ \/ input = NoText /\ Resets /\ UNCHANGED searches
     \/ input # NoText /\ results' = NoResults /\ Runs(input, chosen)
  /\ UNCHANGED <<visible, input, unhandled>>

(***************************************************************************)
(* The answer of a search.                                                 *)
(***************************************************************************)
MutantCurrentSearch(search) == visible

CurrentSearch(search) == visible /\ search.generation = newest

\* The answer, or no results if the search failed.
SearchEnds(search, found) ==
  /\ searches' = searches \ {search}
  /\ IF CurrentSearch(search)
     THEN loading' = FALSE /\ results' = found
     ELSE UNCHANGED <<loading, results>>
  /\ UNCHANGED <<field, query, newest, debounce>>

(***************************************************************************)
(* openSearch; closeSearch, by a key, a selected result or the order       *)
(* dialogs; hideSearch of the login screen.                                *)
(***************************************************************************)
SearchOpens ==
  /\ ~visible /\ visible' = TRUE /\ input' = NoText /\ Resets
  /\ UNCHANGED <<unhandled, class, searches, newest, debounce>>

SearchCloses ==
  /\ visible /\ visible' = FALSE /\ debounce' = NoSearch /\ NextGeneration
  /\ UNCHANGED <<input, unhandled, query, class, searches, results, loading>>

(***************************************************************************)
(* The specification.                                                      *)
(***************************************************************************)
TuiSearchInit ==
  /\ visible = FALSE /\ input = NoText /\ unhandled = FALSE /\ query = NoText
  /\ class = CHOOSE first \in Classes : TRUE
  /\ searches = {} /\ newest = 0 /\ debounce = NoSearch
  /\ results = NoResults /\ loading = FALSE

TuiSearchNext ==
  \/ \E text \in Queries : Types(text)
  \/ Scheduled \/ DebounceFires \/ Submitted
  \/ \E chosen \in Classes : ClassChosen(chosen)
  \/ \E search \in searches :
       \/ SearchEnds(search, [query |-> search.query, class |-> search.class])
       \/ SearchEnds(search, NoResults)
  \/ SearchOpens \/ SearchCloses

TuiSearchSpec == TuiSearchInit /\ [][TuiSearchNext]_tuiSearchVars

(***************************************************************************)
(* Properties.                                                             *)
(***************************************************************************)
\* The results under a query are those of this query in this class: no answer
\* of an older search, an older class or a search window that was closed is
\* shown for them (runSearch).
ResultsMatchQuery ==
  visible /\ ~loading /\ query # NoText /\ results # NoResults =>
    results = [query |-> query, class |-> class]
=============================================================================
