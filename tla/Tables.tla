------------------------------- MODULE Tables -------------------------------
(***************************************************************************)
(* The tables of the console: rows that come and go are filtered, sorted   *)
(* and shown page by page, keys move a ring over the rows of the page, and *)
(* the view is written to the address, from which a reload restores it.    *)
(* (AgentsPanel, ContainersPanel, TaskHistoryPage and TrafficLog with      *)
(* useSearch, useSort, usePagination, useQueryParams, useSelection,        *)
(* useTableKeyboardNav and SearchInput.)                                   *)
(***************************************************************************)
EXTENDS Integers, Sequences, FiniteSets, Ranking

CONSTANTS
    Rows,       \* numbers: the order of the list the service sends
    RowSets,    \* which of them there may be at a time
    Kinds,      \* the tables looked at
    Searches,   \* what may be searched for
    NoSearch,   \* one of them: nothing
    Found,      \* [Searches -> SUBSET Rows]
    Statuses,   \* the values of the status filter but "all"
    OfStatus,   \* [Statuses -> SUBSET Rows]
    Favorites,  \* the rows that are pinned
    Sizes       \* page sizes

ASSUME TablesAssumption ==
    /\ IsFiniteSet(Rows) /\ Rows \subseteq Nat \ {0}
    /\ RowSets \subseteq SUBSET Rows
    /\ NoSearch \in Searches
    /\ Sizes \subseteq Nat \ {0} /\ Sizes # {}

VARIABLES
    kind,      \* the table
    rows,      \* the rows there are
    view,      \* the state of the component
    url,       \* the query of the address
    past,      \* the query the browser's back leads to, or none: a set of one at most
    selected

tableVars == <<kind, rows, view, url, past, selected>>

HasSort == {"agents", "containers", "history"}
HasStatus == {"containers", "history", "traffic"}
HasSelection == {"agents", "containers"}
Unsorted == [key |-> "none", dir |-> "none"]
DefaultSort(k) == IF k = "history" THEN [key |-> "time", dir |-> "desc"] ELSE Unsorted
Keys(k) == IF k = "history" THEN {"time", "name"} ELSE {"name"}

\* A parameter that has its default is left out of the address.
DefaultUrl(k) == [search |-> NoSearch, status |-> "all", sort |-> DefaultSort(k), page |-> 1]

Sorts == {Unsorted} \cup [key : {"time", "name"}, dir : {"asc", "desc"}]
FirstSize == CHOOSE n \in Sizes : \A m \in Sizes : n <= m

TableTypeOK ==
    /\ kind \in Kinds /\ rows \subseteq Rows /\ selected \subseteq Rows
    /\ view \in [search : Searches, typed : Searches, pending : BOOLEAN, sort : Sorts,
                 page : 1..Cardinality(Rows) + 1, size : Sizes, focus : -1..Cardinality(Rows),
                 opened : Rows \cup {0}]
    /\ LET Urls == [search : Searches, status : Statuses \cup {"all"}, sort : Sorts,
                    page : 1..Cardinality(Rows) + 1]
       IN  url \in Urls /\ past \subseteq Urls

-----------------------------------------------------------------------------

\* The search of TrafficLog is the one in the address.
Search == IF kind = "traffic" THEN url.search ELSE view.search

Filtered ==
    {r \in rows : /\ Search # NoSearch => r \in Found[Search]
                  /\ url.status # "all" => r \in OfStatus[url.status]}

\* The name of a row orders the rows backwards, time as they are sent.
Before(a, b) ==
    CASE view.sort.key = "none" -> a < b
      [] view.sort.key = "time" -> IF view.sort.dir = "asc" THEN a < b ELSE b < a
      [] view.sort.key = "name" -> IF view.sort.dir = "asc" THEN b < a ELSE a < b

Pinned(r) == kind = "agents" /\ r \in Favorites
ComesFirst(a, b) == IF Pinned(a) = Pinned(b) THEN Before(a, b) ELSE Pinned(a)

\* sortedItems, the pinned agents lifted to the top.
Ordered == Ranked(Filtered, {p \in Filtered \X Filtered : ComesFirst(p[1], p[2])})

\* usePagination.
TotalPages ==
    LET n == Cardinality(Filtered) IN IF n = 0 THEN 1 ELSE (n + view.size - 1) \div view.size

\* Mutant of PageShown: the page is the one that was turned to.
PageTurnedTo == view.page

PageShown == IF view.page < TotalPages THEN view.page ELSE TotalPages

StartIndex == (PageShown - 1) * view.size
EndIndex ==
    IF StartIndex + view.size < Cardinality(Filtered) THEN StartIndex + view.size ELSE Cardinality(Filtered)
PageRows == SubSeq(Ordered, StartIndex + 1, EndIndex)

\* The component is mounted: it takes its state from the address.
Mounted(k, u) ==
    [search |-> IF k = "traffic" THEN NoSearch ELSE u.search, typed |-> u.search, pending |-> FALSE,
     sort |-> IF k \in HasSort THEN u.sort ELSE Unsorted, page |-> u.page,
     size |-> FirstSize, focus |-> -1, opened |-> 0]

TableInit ==
    /\ kind \in Kinds
    /\ rows \in RowSets
    /\ url = DefaultUrl(kind)
    /\ past = {}
    /\ view = Mounted(kind, url)
    /\ selected = {}

Reload ==
    /\ view' = Mounted(kind, url)
    /\ selected' = {}
    /\ UNCHANGED <<kind, rows, url, past>>

\* A poll, or an entry of the log, changes the rows; nothing else looks at it.
RowsChange(new) ==
    /\ rows' = new
    /\ UNCHANGED <<kind, view, url, past, selected>>

\* SearchInput waits for 300 ms; the bar of TrafficLog does not.
Type(text) ==
    /\ text # view.typed
    /\ IF kind = "traffic"
       THEN /\ url' = [url EXCEPT !.search = text, !.page = 1]
            /\ view' = [view EXCEPT !.typed = text]
       ELSE /\ view' = [view EXCEPT !.typed = text, !.pending = TRUE]
            /\ url' = url
    /\ UNCHANGED <<kind, rows, past, selected>>

\* handleSearchChange.
Searched(text) ==
    /\ view' = [view EXCEPT !.search = text, !.typed = text, !.pending = FALSE]
    /\ url' = [url EXCEPT !.search = text, !.page = 1]
    /\ UNCHANGED <<kind, rows, past, selected>>

TypingEnds == view.pending /\ Searched(view.typed)

\* The cross of SearchInput.
ClearSearch == kind # "traffic" /\ view.typed # NoSearch /\ Searched(NoSearch)

\* handleStatusFilterChange and its like: the address is pushed, the page kept.
FilterStatus(s) ==
    /\ kind \in HasStatus /\ s # url.status
    /\ url' = [url EXCEPT !.status = s, !.page = 1]
    /\ past' = {url}
    /\ UNCHANGED <<kind, rows, view, selected>>

\* handleClearFilters: the input follows the search when that changes, and what
\* was typed just before is searched for after all.
ClearFilters ==
    /\ kind = "history" /\ (url.status # "all" \/ view.search # NoSearch)
    /\ view' = [view EXCEPT !.search = NoSearch,
                            !.typed = IF view.search = NoSearch \/ view.pending THEN @ ELSE NoSearch]
    /\ url' = [url EXCEPT !.status = "all", !.search = NoSearch, !.page = 1]
    /\ past' = {url}
    /\ UNCHANGED <<kind, rows, selected>>

\* The browser's back: the address changes, and with it what is read from it.
Back ==
    /\ \E u \in past :
          /\ url' = u
          /\ view' = IF kind = "traffic" THEN [view EXCEPT !.typed = u.search] ELSE view
    /\ past' = {}
    /\ UNCHANGED <<kind, rows, selected>>

\* requestSort: ascending, descending, not at all.
NextSort(key) ==
    IF view.sort.key # key THEN [key |-> key, dir |-> "asc"]
    ELSE IF view.sort.dir = "asc" THEN [key |-> key, dir |-> "desc"] ELSE Unsorted

\* What handleRequestSort and handleSortClick write to the address.
UrlSort(key) ==
    IF kind # "history" THEN NextSort(key)
    ELSE [key |-> key,
          dir |-> IF url.sort.key = key /\ url.sort.dir = "desc" THEN "asc" ELSE "desc"]

SortBy(key) ==
    /\ kind \in HasSort /\ key \in Keys(kind)
    /\ view' = [view EXCEPT !.sort = NextSort(key)]
    /\ url' = [url EXCEPT !.sort = UrlSort(key), !.page = 1]
    /\ UNCHANGED <<kind, rows, past, selected>>

\* handleNextPage and handlePrevPage; the history does not write the address.
UrlPage(p) == IF kind = "history" THEN url ELSE [url EXCEPT !.page = p]

NextPage ==
    /\ PageShown < TotalPages
    /\ view' = [view EXCEPT !.page = IF view.page + 1 < TotalPages THEN view.page + 1 ELSE TotalPages]
    /\ url' = UrlPage(PageShown + 1)
    /\ UNCHANGED <<kind, rows, past, selected>>

PrevPage ==
    /\ PageShown > 1
    /\ view' = [view EXCEPT !.page = view.page - 1]
    /\ url' = UrlPage(PageShown - 1)
    /\ UNCHANGED <<kind, rows, past, selected>>

\* handlePageSizeChange.
SetPageSize(n) ==
    /\ n # view.size /\ Filtered # {}
    /\ view' = [view EXCEPT !.size = n, !.page = 1]
    /\ url' = [url EXCEPT !.page = 1]
    /\ UNCHANGED <<kind, rows, past, selected>>

-----------------------------------------------------------------------------

\* handleKeyDown: the ring moves within the page, and does not wrap.
MoveRing(key) ==
    LET n == Len(PageRows)
        Least(a, b) == IF a < b THEN a ELSE b
    IN  /\ kind \in HasSelection /\ n > 0
        /\ view' = [view EXCEPT !.focus =
               CASE key = "down" -> IF @ < 0 THEN 0 ELSE Least(@ + 1, n - 1)
                 [] key = "up"   -> IF @ < 0 THEN n - 1 ELSE IF @ = 0 THEN 0 ELSE @ - 1
                 [] key = "home" -> 0
                 [] key = "end"  -> n - 1]
        /\ UNCHANGED <<kind, rows, url, past, selected>>

Ringed == view.focus >= 0 /\ view.focus < Len(PageRows)

Toggled(r) == IF r \in selected THEN selected \ {r} ELSE selected \cup {r}

\* Space, and Enter in the table of the agents.
PressSpace ==
    /\ kind \in HasSelection /\ Ringed
    /\ selected' = Toggled(PageRows[view.focus + 1])
    /\ UNCHANGED <<kind, rows, view, url, past>>

PressEnter ==
    /\ kind = "agents" /\ Ringed
    /\ LET r == PageRows[view.focus + 1]
       IN  view' = [view EXCEPT !.opened = IF @ = r THEN 0 ELSE r]
    /\ UNCHANGED <<kind, rows, url, past, selected>>

\* A row of the history is opened by a click.
OpenRow(i) ==
    /\ kind = "history" /\ i \in DOMAIN PageRows
    /\ view' = [view EXCEPT !.opened = IF @ = PageRows[i] THEN 0 ELSE PageRows[i]]
    /\ UNCHANGED <<kind, rows, url, past, selected>>

\* The box of the header selects what is filtered, on every page.
SelectAll ==
    /\ kind \in HasSelection /\ Filtered # {}
    /\ selected' = IF Filtered \subseteq selected THEN {} ELSE Filtered
    /\ UNCHANGED <<kind, rows, view, url, past>>

TableNext ==
    \/ Reload \/ Back \/ TypingEnds \/ ClearSearch \/ ClearFilters \/ NextPage \/ PrevPage
    \/ \E new \in RowSets \ {rows} : RowsChange(new)
    \/ \E text \in Searches : Type(text)
    \/ \E s \in Statuses \cup {"all"} : FilterStatus(s)
    \/ \E key \in Keys(kind) : SortBy(key)
    \/ \E n \in Sizes : SetPageSize(n)
    \/ \E key \in {"down", "up", "home", "end"} : MoveRing(key)
    \/ PressSpace \/ PressEnter \/ SelectAll
    \/ \E i \in 1..Cardinality(Rows) : OpenRow(i)

TableSpec == TableInit /\ [][TableNext]_tableVars

-----------------------------------------------------------------------------

\* While a row passes the filters the page shows one, and at most its size,
\* however the rows and the filters change under the page that was turned to
\* (usePagination); unless the user is typing the input shows the search that
\* filters (SearchInput, useSearch); and the order of the agents, which useSort
\* and the address each step on their own, is the same in both.
ViewIsSound ==
    /\ Filtered # {} => PageRows # <<>>
    /\ Len(PageRows) <= view.size
    /\ PageShown = TotalPages <=> EndIndex = Cardinality(Filtered)
    /\ ~view.pending => view.typed = Search
    /\ kind = "agents" => url.sort = view.sort

\* "URL-persisted state" (TaskHistoryPage): a link restores the order.
HistorySortIsInUrl == kind = "history" => url.sort = view.sort

\* "Filter state (search, sort, status, page) is persisted in the URL": a link
\* restores the page that is shown.
PageIsInUrl == kind # "history" => url.page = PageShown

\* "Go to previous page" (usePagination).
PrevGoesBack == [][PrevPage => PageShown' < PageShown]_tableVars

=============================================================================
