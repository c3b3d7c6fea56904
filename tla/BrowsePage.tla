----------------------------- MODULE BrowsePage -----------------------------
(***************************************************************************)
(* The filters, the debounced search and the pages of frontend/src/pages/  *)
(* Browse.js over the published stories, and getAllStories of backend/     *)
(* controllers/storyController.js, which cuts them into pages.             *)
(*                                                                         *)
(* The page shown is told by the query it answers.  The stories do not     *)
(* change meanwhile: PagesOf says how many pages a query has.  The hearts  *)
(* are left out: the page asks without the token, so all are shown empty.  *)
(***************************************************************************)
EXTENDS Integers, FiniteSets

CONSTANTS
    Searches,    \* what can be typed, NoSearch included
    NoSearch,
    Filters,     \* categories and sort orders
    AllStories,  \* the filter at the start
    PagesOf,     \* the number of pages of a search and a filter
    MaxFetches,  \* bound on the list requests
    NotAsked     \* no list

ASSUME BrowseAssumption ==
    /\ NoSearch \in Searches /\ AllStories \in Filters
    /\ PagesOf \in [Searches \X Filters -> Nat]
    /\ MaxFetches \in Nat

VARIABLES
    input,      \* searchInput
    debouncing, \* the 300 ms after the last change of it are not over
    query,      \* filters: search, filter and page
    shown,      \* the query of the list on the page, NotAsked for an empty list
    pagination, \* page and pages the buttons go by, NotAsked before the first answer
    fetching,   \* loading
    fetches,    \* list requests in flight
    fetched,    \* how many there have been
    mixedUp     \* an answer came while another was awaited, or a request failed

browseVars ==
    <<input, debouncing, query, shown, pagination, fetching, fetches, fetched, mixedUp>>

Query == [search : Searches, filter : Filters, page : Int]

BrowseTypeOK ==
    /\ input \in Searches /\ debouncing \in BOOLEAN
    /\ query \in Query
    /\ shown \in Query \cup {NotAsked}
    /\ pagination \in [page : Int, pages : Nat] \cup {NotAsked}
    /\ fetching \in BOOLEAN /\ mixedUp \in BOOLEAN
    /\ fetched \in 0 .. MaxFetches
    /\ fetches \subseteq [n : 1 .. MaxFetches, query : Query]

FirstQuery == [search |-> NoSearch, filter |-> AllStories, page |-> 1]

\* The page has been mounted and has asked for its first list.
BrowseInit ==
    /\ input = NoSearch /\ debouncing = FALSE
    /\ query = FirstQuery
    /\ shown = NotAsked /\ pagination = NotAsked
    /\ fetching = TRUE
    /\ fetches = {[n |-> 1, query |-> FirstQuery]}
    /\ fetched = 1
    /\ mixedUp = FALSE

\* setFilters and fetchStories.
Fetch(q) ==
    /\ fetched < MaxFetches
    /\ fetched' = fetched + 1
    /\ fetches' = fetches \cup {[n |-> fetched + 1, query |-> q]}
    /\ query' = q
    /\ fetching' = TRUE
    /\ UNCHANGED <<shown, pagination, mixedUp>>

\* handleFilterChange("search").
TypeSearch(s) ==
    /\ s # input
    /\ input' = s
    /\ debouncing' = TRUE
    /\ UNCHANGED <<query, shown, pagination, fetching, fetches, fetched, mixedUp>>

\* The query of a new search starts at its first page.  Mutant: it does not.
SearchedHere(s) == [query EXCEPT !.search = s]
Searched(s) == [query EXCEPT !.search = s, !.page = 1]

\* The timer of useDebounce, and the effect on what it hands on.
DebounceEnds ==
    /\ debouncing
    /\ debouncing' = FALSE
    /\ IF input # query.search
       THEN Fetch(Searched(input))
       ELSE UNCHANGED <<query, shown, pagination, fetching, fetches, fetched, mixedUp>>
    /\ UNCHANGED input

\* handleFilterChange of the chips and lists.
ChangeFilter(f) ==
    /\ Fetch([query EXCEPT !.filter = f, !.page = 1])
    /\ UNCHANGED <<input, debouncing>>

\* The buttons, handlePageChange.
HasPages == pagination # NotAsked /\ pagination.pages > 1
Previous ==
    /\ HasPages /\ ~fetching /\ pagination.page > 1
    /\ Fetch([query EXCEPT !.page = @ - 1])
    /\ UNCHANGED <<input, debouncing>>
NextPage ==
    /\ HasPages /\ ~fetching /\ pagination.page < pagination.pages
    /\ Fetch([query EXCEPT !.page = @ + 1])
    /\ UNCHANGED <<input, debouncing>>

\* getAllStories: what the page and the buttons get for a query.
PageOf(q) == [page |-> q.page, pages |-> PagesOf[<<q.search, q.filter>>]]

FetchAnswered(r) ==
    /\ fetches' = fetches \ {r}
    /\ fetching' = FALSE
    /\ shown' = IF r.query.page <= PageOf(r.query).pages THEN r.query ELSE NotAsked
    /\ pagination' = PageOf(r.query)
    /\ mixedUp' = (mixedUp \/ fetches' # {})
    /\ UNCHANGED <<input, debouncing, query, fetched>>

\* The server refuses, or is not reached: the list is emptied, the buttons are not.
FetchFails(r) ==
    /\ fetches' = fetches \ {r}
    /\ fetching' = FALSE
    /\ shown' = NotAsked
    /\ mixedUp' = TRUE
    /\ UNCHANGED <<input, debouncing, query, pagination, fetched>>

BrowseNext ==
    \/ \E s \in Searches : TypeSearch(s)
    \/ DebounceEnds
    \/ \E f \in Filters : ChangeFilter(f)
    \/ Previous \/ NextPage
    \/ \E r \in fetches : FetchAnswered(r) \/ FetchFails(r)

BrowseSpec == BrowseInit /\ [][BrowseNext]_browseVars

-----------------------------------------------------------------------------
(* Properties.                                                             *)

\* The page asked for is one the query has, the first at least, through every order of
\* searches, filters, pages and answers, until two answers are awaited at once or one
\* fails: then the buttons go by the pages of another query (Browse.js).
PageInRange ==
    mixedUp \/ query.page = 1 \/ query.page \in 1 .. PageOf(query).pages

=============================================================================
