----------------------------- MODULE Work_proofs -----------------------------
(***************************************************************************)
(* That a table shows what passes its filters, that the wizard sends valid *)
(* configurations only, that the page of an agent waits for what is in     *)
(* flight, and that every dispatch is logged once, for any rows, agents,   *)
(* names and numbers of calls; and that a behavior of where the work is    *)
(* done is one of each of its parts.                                       *)
(*                                                                         *)
(* The rows of a table are ranked, the number of its pages is a quotient   *)
(* rounded up, and the rest of it is arithmetic; the input and the search, *)
(* the order and the address are kept together.  What the wizard's later   *)
(* steps send was validated when an earlier one was left: its invariant    *)
(* says what holds from which step on.  That of the page adds that the     *)
(* buttons wait for one call at most, and that nothing is open that was    *)
(* aborted.  Dispatches are numbered: what is in flight and what is logged *)
(* are disjoint sets of numbers, counted by the sets themselves, whatever  *)
(* the forms forget of them.                                               *)
(***************************************************************************)
EXTENDS MCWork, Ranking_proofs, SequenceTheorems

-----------------------------------------------------------------------------
(* Tables                                                                  *)

\* A bounded set of numbers has a greatest one.
LEMMA GreatestNat ==
    ASSUME NEW n \in Nat, NEW T \in SUBSET (1..n), T # {}
    PROVE  \E x \in T : \A y \in T : y <= x
<1> DEFINE U == {n - t : t \in T}
<1>1. U # {} /\ \A t \in T : t \in 1..n
    OBVIOUS
<1>5. U \in SUBSET Nat
    <2> SUFFICES ASSUME NEW t \in T PROVE n - t \in Nat
        OBVIOUS
    <2> QED
        BY <1>1
<1>2. PICK u \in U : \A v \in U : u <= v
    BY <1>1, <1>5, LeastNat
<1>3. PICK x \in T : u = n - x
    OBVIOUS
<1>4. ASSUME NEW y \in T PROVE y <= x
    <2>1. n - y \in U
        OBVIOUS
    <2> QED
        BY <1>2, <1>3, <2>1
<1> QED
    BY <1>4

-----------------------------------------------------------------------------

PageNumbers == 1..Cardinality(Rows) + 1
Views == [search : Searches, typed : Searches, pending : BOOLEAN, sort : Sorts,
          page : PageNumbers, size : Sizes, focus : -1..Cardinality(Rows), opened : Rows \cup {0}]
Urls == [search : Searches, status : Statuses \cup {"all"}, sort : Sorts, page : PageNumbers]

\* The input shows the search that filters, but while one types.
InputIsTrue ==
    IF kind = "traffic" THEN ~view.pending /\ view.typed = url.search
    ELSE view.pending \/ view.typed = view.search

\* The agents' order is in the address; nothing leads back from there.
OrderIsInUrl == kind = "agents" => url.sort = view.sort /\ past = {}

TableIInv == TableTypeOK /\ InputIsTrue /\ OrderIsInUrl

LEMMA TableTypes ==
    TableTypeOK <=> /\ kind \in Kinds /\ rows \subseteq Rows /\ selected \subseteq Rows
                    /\ view \in Views /\ url \in Urls /\ past \subseteq Urls
BY DEF TableTypeOK, Views, Urls, PageNumbers

LEMMA RowCount == Cardinality(Rows) \in Nat /\ 1 \in PageNumbers
<1>1. Cardinality(Rows) \in Nat
    BY FS_CardinalityType, TablesAssumption
<1> QED
    BY <1>1 DEF PageNumbers

LEMMA FilteredCount ==
    ASSUME TableTypeOK
    PROVE  /\ Filtered \subseteq Rows /\ IsFiniteSet(Filtered)
           /\ Cardinality(Filtered) \in Nat /\ Cardinality(Filtered) <= Cardinality(Rows)
           /\ Cardinality(Filtered) = 0 <=> Filtered = {}
<1>1. Filtered \subseteq Rows
    BY DEF Filtered, TableTypeOK
<1> QED
    BY <1>1, FS_Subset, FS_CardinalityType, FS_EmptySet, TablesAssumption

\* What comes first is a strict order of the rows.
LEMMA FirstIsOrder ==
    ASSUME view.sort \in Sorts, NEW q \in Rows, NEW r \in Rows, NEW s \in Rows
    PROVE  /\ ~ComesFirst(q, q)
           /\ ComesFirst(q, r) /\ ComesFirst(r, s) => ComesFirst(q, s)
           /\ q # r => ComesFirst(q, r) \/ ComesFirst(r, q)
<1>1. q \in Nat /\ r \in Nat /\ s \in Nat
    BY TablesAssumption
<1>2. view.sort.key \in {"none", "time", "name"}
    <2>1. CASE view.sort = Unsorted
        BY <2>1 DEF Unsorted
    <2>2. CASE view.sort \in [key : {"time", "name"}, dir : {"asc", "desc"}]
        BY <2>2
    <2> QED
        BY <2>1, <2>2 DEF Sorts
<1> DEFINE up == \/ view.sort.key = "none"
                 \/ view.sort.key = "time" /\ view.sort.dir = "asc"
                 \/ view.sort.key = "name" /\ view.sort.dir # "asc"
<1>3. \A x, y \in Nat : Before(x, y) <=> IF up THEN x < y ELSE y < x
    <2>1. CASE view.sort.key = "none"
        <3>1. \A x, y \in Nat : Before(x, y) <=> x < y
            BY <2>1 DEF Before
        <3> QED
            BY <2>1, <3>1
    <2>2. CASE view.sort.key = "time"
        <3>1. \A x, y \in Nat : Before(x, y) <=> IF view.sort.dir = "asc" THEN x < y ELSE y < x
            BY <2>2 DEF Before
        <3> QED
            BY <2>2, <3>1
    <2>3. CASE view.sort.key = "name"
        <3>1. \A x, y \in Nat : Before(x, y) <=> IF view.sort.dir = "asc" THEN y < x ELSE x < y
            BY <2>3 DEF Before
        <3> QED
            BY <2>3, <3>1
    <2> QED
        BY <1>2, <2>1, <2>2, <2>3
<1>4. \A x : Pinned(x) \in BOOLEAN
    BY DEF Pinned
<1> HIDE DEF up
<1> QED
    BY <1>1, <1>3, <1>4 DEF ComesFirst

\* The table shows what is filtered, each row once, in the order it is sorted by.
LEMMA OrderedIsSorted ==
    ASSUME TableTypeOK
    PROVE  /\ Ordered \in [1..Cardinality(Filtered) -> Filtered]
           /\ \A r \in Filtered : \E i \in DOMAIN Ordered : Ordered[i] = r
           /\ \A i, j \in DOMAIN Ordered : i < j => ComesFirst(Ordered[i], Ordered[j])
<1> DEFINE first == {p \in Filtered \X Filtered : ComesFirst(p[1], p[2])}
<1>1. view.sort \in Sorts /\ Filtered \subseteq Rows /\ IsFiniteSet(Filtered)
    BY TableTypes, FilteredCount DEF Views
<1>2. \A q, r : <<q, r>> \in first <=> q \in Filtered /\ r \in Filtered /\ ComesFirst(q, r)
    OBVIOUS
<1>3. Ordered = Ranked(Filtered, first)
    BY DEF Ordered
<1> HIDE DEF first
<1>4. StrictOrder(first, Filtered)
    BY <1>1, <1>2, FirstIsOrder DEF StrictOrder
<1>5. /\ Ranked(Filtered, first) \in [1..Cardinality(Filtered) -> Filtered]
      /\ \A r \in Filtered : \E i \in DOMAIN Ranked(Filtered, first) : Ranked(Filtered, first)[i] = r
      /\ \A i, j \in DOMAIN Ranked(Filtered, first) :
             i < j => <<Ranked(Filtered, first)[i], Ranked(Filtered, first)[j]>> \in first
    BY <1>1, <1>4, RankedIsSorted
<1> QED
    BY <1>2, <1>3, <1>5

\* Rounding a number of rows up to pages.
LEMMA PagesOf ==
    ASSUME NEW n \in Nat \ {0}, NEW s \in Nat \ {0}
    PROVE  LET q == (n + s - 1) \div s
           IN  q \in 1..n /\ (q - 1) * s < n /\ n <= q * s
<1> DEFINE m == n + s - 1
           q == m \div s
           r == m % s
<1>1. m \in Nat /\ s \in Nat \ {0}
    OBVIOUS
<1>2. q \in Int /\ r \in Int /\ m = s * q + r /\ 0 <= r /\ r < s
    <2> HIDE DEF m
    <2> QED
        BY <1>1
<1> HIDE DEF q, r
<1>3. q >= 1
    <2> SUFFICES ASSUME q <= 0 PROVE FALSE
        BY <1>2
    <2>1. s * q <= 0
        BY <1>2
    <2> QED
        BY <1>2, <2>1
<1>4. q <= n
    <2> SUFFICES ASSUME q >= n + 1 PROVE FALSE
        BY <1>2
    <2>1. s * q >= s * (n + 1)
        BY <1>2
    <2>2. s * (n + 1) >= n + s
        OBVIOUS
    <2>3. s * q \in Int /\ s * (n + 1) \in Int
        BY <1>2
    <2> QED
        BY <1>2, <2>1, <2>2, <2>3
<1>5. (q - 1) * s = s * q - s /\ q * s = s * q /\ s * q \in Int
    BY <1>2
<1> QED
    BY <1>2, <1>3, <1>4, <1>5 DEF q

LEMMA FirstSizeType == FirstSize \in Sizes
<1>1. Sizes \in SUBSET Nat /\ Sizes # {}
    BY TablesAssumption
<1>2. \E n \in Sizes : \A m \in Sizes : n <= m
    BY <1>1, LeastNat
<1> QED
    BY <1>2 DEF FirstSize

\* The pages: that shown is one of them, and what it shows of the rows.
LEMMA PageBounds ==
    ASSUME TableTypeOK
    PROVE  LET n == Cardinality(Filtered) IN
           /\ TotalPages \in PageNumbers /\ PageShown \in 1..TotalPages
           /\ StartIndex \in Nat /\ EndIndex \in 0..n /\ StartIndex <= EndIndex
           /\ EndIndex - StartIndex <= view.size
           /\ n # 0 => StartIndex < EndIndex
           /\ PageShown = TotalPages <=> EndIndex = n
<1> DEFINE n == Cardinality(Filtered)
           s == view.size
           tp == TotalPages
           ps == PageShown
<1>1. /\ n \in Nat /\ n <= Cardinality(Rows) /\ Cardinality(Rows) \in Nat
      /\ s \in Nat \ {0} /\ view.page \in Nat \ {0}
    <2>1. view \in Views
        BY TableTypes
    <2>2. view.size \in Nat \ {0}
        BY <2>1, TablesAssumption DEF Views
    <2>3. view.page \in Nat \ {0}
        BY <2>1, RowCount DEF Views, PageNumbers
    <2> QED
        BY <2>2, <2>3, FilteredCount, RowCount
<1>2. tp = IF n = 0 THEN 1 ELSE (n + s - 1) \div s
    BY DEF TotalPages
<1>3. ps = IF view.page < tp THEN view.page ELSE tp
    BY DEF PageShown
<1>4. /\ StartIndex = (ps - 1) * s
      /\ EndIndex = IF StartIndex + s < n THEN StartIndex + s ELSE n
    BY DEF StartIndex, EndIndex
<1>5. /\ n = 0 => tp = 1
      /\ n # 0 => tp \in 1..n /\ (tp - 1) * s < n /\ n <= tp * s
    <2> HIDE DEF n, s, tp
    <2> QED
        BY <1>1, <1>2, PagesOf
<1>6. tp \in Nat /\ tp >= 1 /\ ps \in 1..tp
    <2> HIDE DEF n, s, tp, ps
    <2> QED
        BY <1>1, <1>3, <1>5
<1>7. tp \in PageNumbers
    <2> HIDE DEF n, tp
    <2> QED
        BY <1>1, <1>5 DEF PageNumbers
<1>8. /\ ps = tp => ps * s = tp * s
      /\ ps # tp => ps <= tp - 1
      /\ (ps - 1) * s \in Nat /\ ps * s \in Nat /\ tp * s \in Nat /\ (tp - 1) * s \in Nat
      /\ (ps - 1) * s + s = ps * s
      /\ (ps - 1) * s <= (tp - 1) * s
    <2> HIDE DEF n, s, tp, ps
    <2> QED
        BY <1>1, <1>6
<1>9. ps # tp => ps * s <= (tp - 1) * s
    <2> HIDE DEF n, s, tp, ps
    <2> QED
        BY <1>1, <1>6, <1>8
<1>10. n = 0 => ps = 1 /\ tp = 1 /\ (ps - 1) * s = 0
    <2> HIDE DEF n, s, tp, ps
    <2> QED
        BY <1>1, <1>5, <1>6
<1> HIDE DEF n, s, tp, ps
<1>11. StartIndex \in Nat /\ EndIndex \in 0..n /\ StartIndex <= EndIndex
       /\ EndIndex - StartIndex <= s /\ (n # 0 => StartIndex < EndIndex)
    <2>1. n # 0 => (ps - 1) * s < n
        BY <1>1, <1>5, <1>8
    <2> QED
        BY <1>1, <1>4, <1>8, <1>10, <2>1
<1>12. ps = tp <=> EndIndex = n
    <2>1. CASE n = 0
        BY <1>4, <1>8, <1>10, <2>1, <1>1
    <2>2. CASE n # 0 /\ ps = tp
        BY <1>1, <1>4, <1>5, <1>8, <2>2
    <2>3. CASE n # 0 /\ ps # tp
        BY <1>1, <1>4, <1>5, <1>8, <1>9, <2>3
    <2> QED
        BY <2>1, <2>2, <2>3
<1> QED
    BY <1>6, <1>7, <1>11, <1>12 DEF n, s, tp, ps

\* The rows of the page.
LEMMA PageRowsType ==
    ASSUME TableTypeOK
    PROVE  /\ PageRows \in Seq(Filtered)
           /\ Len(PageRows) = EndIndex - StartIndex
           /\ Len(PageRows) \in 0..Cardinality(Rows)
           /\ \A i \in 1..Len(PageRows) : PageRows[i] \in Rows
<1> DEFINE n == Cardinality(Filtered)
<1>1. n \in Nat /\ n <= Cardinality(Rows) /\ Filtered \subseteq Rows /\ Cardinality(Rows) \in Nat
    BY FilteredCount, RowCount
<1>2. Ordered \in Seq(Filtered) /\ Len(Ordered) = n
    <2>1. Ordered \in [1..n -> Filtered]
        BY OrderedIsSorted
    <2> HIDE DEF n
    <2> QED
        BY <1>1, <2>1, IsASeq, LenProperties
<1>3. /\ StartIndex \in Nat /\ EndIndex \in 0..n /\ StartIndex <= EndIndex
    BY PageBounds
<1> HIDE DEF n
<1>4. StartIndex + 1 \in 1..n + 1 /\ EndIndex \in StartIndex..n
    BY <1>1, <1>3
<1>5. PageRows \in Seq(Filtered) /\ Len(PageRows) = EndIndex - (StartIndex + 1) + 1
    BY <1>1, <1>2, <1>3, <1>4, SubSeqProperties DEF PageRows
<1>6. Len(PageRows) = EndIndex - StartIndex /\ Len(PageRows) \in 0..Cardinality(Rows)
    BY <1>1, <1>3, <1>5
<1>7. \A i \in 1..Len(PageRows) : PageRows[i] \in Filtered
    BY <1>5, ElementOfSeq
<1> QED
    BY <1>1, <1>5, <1>6, <1>7

\* A table that is mounted with the address satisfies what depends on both.
LEMMA MountedType ==
    ASSUME NEW k, NEW u \in Urls
    PROVE  /\ Mounted(k, u) \in Views
           /\ IF k = "traffic" THEN ~Mounted(k, u).pending /\ Mounted(k, u).typed = u.search
              ELSE Mounted(k, u).typed = Mounted(k, u).search
           /\ k = "agents" => Mounted(k, u).sort = u.sort
<1>1. -1 \in -1..Cardinality(Rows) /\ Unsorted \in Sorts
    BY RowCount DEF Sorts
<1>2. /\ (IF k = "traffic" THEN NoSearch ELSE u.search) \in Searches
      /\ (IF k \in HasSort THEN u.sort ELSE Unsorted) \in Sorts
    BY <1>1, TablesAssumption DEF Urls
<1>3. Mounted(k, u) \in Views
    BY <1>1, <1>2, FirstSizeType DEF Mounted, Views, Urls
<1> QED
    BY <1>3 DEF Mounted, HasSort

-----------------------------------------------------------------------------

\* A table that is entered satisfies the invariant.
THEOREM TableStarts == TableInit => TableIInv
<1> SUFFICES ASSUME TableInit PROVE TableIInv
    OBVIOUS
<1>1. DefaultSort(kind) \in Sorts
    BY DEF DefaultSort, Sorts, Unsorted
<1>2. url \in Urls
    BY <1>1, RowCount, TablesAssumption DEF TableInit, DefaultUrl, Urls
<1>3. TableTypeOK
    BY <1>2, MountedType, TableTypes, TablesAssumption DEF TableInit
<1> QED
    BY <1>2, <1>3, MountedType DEF TableIInv, TableInit, InputIsTrue, OrderIsInUrl

\* No click, key or change of the rows leaves it.
THEOREM TableKeeps == TableIInv /\ [TableNext]_tableVars => TableIInv'
<1> SUFFICES ASSUME TableIInv, [TableNext]_tableVars PROVE TableIInv'
    OBVIOUS
<1>0. /\ kind \in Kinds /\ rows \subseteq Rows /\ selected \subseteq Rows
      /\ view \in Views /\ url \in Urls /\ past \subseteq Urls /\ TableTypeOK
      /\ InputIsTrue /\ OrderIsInUrl
      /\ NoSearch \in Searches /\ 1 \in PageNumbers
    BY TableTypes, RowCount, TablesAssumption DEF TableIInv
<1>a. ASSUME kind' = kind, rows' \subseteq Rows, selected' \subseteq Rows, view' \in Views,
             url' \in Urls, past' \subseteq Urls, InputIsTrue', OrderIsInUrl'
      PROVE  TableIInv'
    BY <1>0, <1>a DEF TableIInv, TableTypeOK, Views, Urls, PageNumbers
\* Steps that leave search, order and history alone.
<1>b. ASSUME kind' = kind, rows' \subseteq Rows, selected' \subseteq Rows, view' \in Views,
             url' \in Urls, past' = past, view'.pending = view.pending, view'.typed = view.typed,
             view'.search = view.search, view'.sort = view.sort, url'.search = url.search,
             url'.sort = url.sort
      PROVE  TableIInv'
    BY <1>0, <1>a, <1>b DEF InputIsTrue, OrderIsInUrl
<1>1. CASE Reload
    BY <1>0, <1>1, <1>a, MountedType DEF Reload, InputIsTrue, OrderIsInUrl
<1>2. CASE Back
    <2>1. PICK u \in past :
              /\ url' = u
              /\ view' = IF kind = "traffic" THEN [view EXCEPT !.typed = u.search] ELSE view
        BY <1>2 DEF Back
    <2>2. past' = {} /\ UNCHANGED <<kind, rows, selected>> /\ u \in Urls /\ u.search \in Searches
        BY <1>0, <1>2, <2>1 DEF Back, Urls
    <2>3. view' \in Views
        BY <1>0, <2>1, <2>2 DEF Views
    <2>4. InputIsTrue'
        BY <1>0, <2>1, <2>2 DEF InputIsTrue, Views
    <2>5. OrderIsInUrl'
        BY <1>0, <2>1, <2>2 DEF OrderIsInUrl
    <2> QED
        BY <1>0, <1>a, <2>1, <2>2, <2>3, <2>4, <2>5
<1>c. ASSUME NEW text \in Searches, Searched(text), kind # "traffic" PROVE TableIInv'
    <2>1. /\ view' \in Views /\ view'.typed = text /\ view'.search = text /\ view'.sort = view.sort
          /\ url' \in Urls /\ url'.sort = url.sort
        BY <1>0, <1>c DEF Searched, Views, Urls
    <2> QED
        BY <1>0, <1>a, <1>c, <2>1 DEF Searched, InputIsTrue, OrderIsInUrl
<1>3. CASE TypingEnds
    <2>1. kind # "traffic" /\ view.typed \in Searches
        BY <1>0, <1>3 DEF TypingEnds, InputIsTrue, Views
    <2> QED
        BY <1>3, <1>c, <2>1 DEF TypingEnds
<1>4. CASE ClearSearch
    BY <1>0, <1>4, <1>c DEF ClearSearch
<1>5. CASE ClearFilters
    <2>1. /\ kind = "history" /\ past' = {url} /\ UNCHANGED <<kind, rows, selected>>
          /\ url' = [url EXCEPT !.status = "all", !.search = NoSearch, !.page = 1]
          /\ view' = [view EXCEPT !.search = NoSearch,
                        !.typed = IF view.search = NoSearch \/ view.pending THEN @ ELSE NoSearch]
        BY <1>5 DEF ClearFilters
    <2>2. url' \in Urls /\ view' \in Views
        BY <1>0, <2>1 DEF Urls, Views
    <2>3. InputIsTrue' /\ OrderIsInUrl'
        BY <1>0, <2>1 DEF InputIsTrue, OrderIsInUrl, Views
    <2> QED
        BY <1>0, <1>a, <2>1, <2>2, <2>3
<1>d. ASSUME NEW v \in Views, NEW p \in PageNumbers, view' = v, v.pending = view.pending,
             v.typed = view.typed, v.search = view.search, v.sort = view.sort,
             url' = UrlPage(p) \/ url' = [url EXCEPT !.page = p],
             UNCHANGED <<kind, rows, past, selected>>
      PROVE  TableIInv'
    <2>1. url' \in Urls /\ url'.search = url.search /\ url'.sort = url.sort
        BY <1>0, <1>d DEF UrlPage, Urls
    <2> QED
        BY <1>0, <1>b, <1>d, <2>1
<1>e. /\ TotalPages \in PageNumbers /\ PageShown \in 1..TotalPages /\ TotalPages \in Nat
      /\ view.page \in Nat /\ view.page >= 1 /\ Cardinality(Rows) \in Nat
    BY <1>0, PageBounds, RowCount DEF PageNumbers, Views
<1>6. CASE NextPage
    <2> DEFINE p == IF view.page + 1 < TotalPages THEN view.page + 1 ELSE TotalPages
               v == [view EXCEPT !.page = p]
    <2>1. p \in PageNumbers /\ PageShown + 1 \in PageNumbers
        BY <1>6, <1>e DEF NextPage, PageNumbers
    <2>2. /\ v \in Views /\ v.pending = view.pending /\ v.typed = view.typed
          /\ v.search = view.search /\ v.sort = view.sort
        <3> HIDE DEF p
        <3> QED
            BY <1>0, <2>1 DEF Views
    <2>3. view' = v /\ url' = UrlPage(PageShown + 1) /\ UNCHANGED <<kind, rows, past, selected>>
        BY <1>6 DEF NextPage
    <2> HIDE DEF v
    <2> QED
        BY <1>d, <2>1, <2>2, <2>3
<1>7. CASE PrevPage
    <2> DEFINE v == [view EXCEPT !.page = view.page - 1]
    <2>1. view.page - 1 \in PageNumbers /\ PageShown - 1 \in PageNumbers
        <3>1. PageShown > 1 /\ (PageShown = view.page \/ PageShown = TotalPages)
              /\ PageShown <= view.page
            BY <1>7, <1>e DEF PrevPage, PageShown
        <3>2. view.page \in PageNumbers
            BY <1>0 DEF Views
        <3> QED
            BY <1>e, <3>1, <3>2 DEF PageNumbers
    <2>2. /\ v \in Views /\ v.pending = view.pending /\ v.typed = view.typed
          /\ v.search = view.search /\ v.sort = view.sort
        BY <1>0, <2>1 DEF Views
    <2>3. view' = v /\ url' = UrlPage(PageShown - 1) /\ UNCHANGED <<kind, rows, past, selected>>
        BY <1>7 DEF PrevPage
    <2> HIDE DEF v
    <2> QED
        BY <1>d, <2>1, <2>2, <2>3
<1>8. ASSUME NEW new \in RowSets, RowsChange(new) PROVE TableIInv'
    BY <1>0, <1>8, <1>b, TablesAssumption DEF RowsChange
<1>9. ASSUME NEW text \in Searches, Type(text) PROVE TableIInv'
    <2>1. CASE kind = "traffic"
        <3>1. /\ url' = [url EXCEPT !.search = text, !.page = 1]
              /\ view' = [view EXCEPT !.typed = text] /\ UNCHANGED <<kind, rows, past, selected>>
            BY <1>9, <2>1 DEF Type
        <3> QED
            BY <1>0, <1>a, <2>1, <3>1 DEF InputIsTrue, OrderIsInUrl, Views, Urls
    <2>2. CASE kind # "traffic"
        <3>1. /\ view' = [view EXCEPT !.typed = text, !.pending = TRUE]
              /\ UNCHANGED <<kind, rows, url, past, selected>>
            BY <1>9, <2>2 DEF Type
        <3> QED
            BY <1>0, <1>a, <2>2, <3>1 DEF InputIsTrue, OrderIsInUrl, Views
    <2> QED
        BY <2>1, <2>2
<1>10. ASSUME NEW s \in Statuses \cup {"all"}, FilterStatus(s) PROVE TableIInv'
    <2>1. /\ url' \in Urls /\ url'.search = url.search /\ kind # "agents"
        BY <1>0, <1>10 DEF FilterStatus, Urls, HasStatus
    <2> QED
        BY <1>0, <1>a, <1>10, <2>1 DEF FilterStatus, InputIsTrue, OrderIsInUrl
<1>11. ASSUME NEW key \in Keys(kind), SortBy(key) PROVE TableIInv'
    <2>1. key \in {"time", "name"}
        BY DEF Keys
    <2>2. NextSort(key) \in Sorts /\ UrlSort(key) \in Sorts
        BY <2>1 DEF NextSort, UrlSort, Sorts
    <2>3. /\ view' = [view EXCEPT !.sort = NextSort(key)]
          /\ url' = [url EXCEPT !.sort = UrlSort(key), !.page = 1]
          /\ UNCHANGED <<kind, rows, past, selected>>
        BY <1>11 DEF SortBy
    <2>4. kind = "agents" => UrlSort(key) = NextSort(key)
        BY DEF UrlSort
    <2> QED
        BY <1>0, <1>a, <2>2, <2>3, <2>4 DEF InputIsTrue, OrderIsInUrl, Views, Urls
<1>12. ASSUME NEW n \in Sizes, SetPageSize(n) PROVE TableIInv'
    <2> DEFINE v == [view EXCEPT !.size = n, !.page = 1]
    <2>1. /\ v \in Views /\ v.pending = view.pending /\ v.typed = view.typed
          /\ v.search = view.search /\ v.sort = view.sort
        BY <1>0 DEF Views
    <2>2. view' = v /\ url' = [url EXCEPT !.page = 1] /\ UNCHANGED <<kind, rows, past, selected>>
        BY <1>12 DEF SetPageSize
    <2> HIDE DEF v
    <2> QED
        BY <1>0, <1>d, <2>1, <2>2
<1>f. /\ Len(PageRows) \in 0..Cardinality(Rows) /\ view.focus \in -1..Cardinality(Rows)
      /\ \A i \in 1..Len(PageRows) : PageRows[i] \in Rows
    BY <1>0, PageRowsType DEF Views
<1>13. ASSUME NEW key \in {"down", "up", "home", "end"}, MoveRing(key) PROVE TableIInv'
    <2> DEFINE n == Len(PageRows)
               at == view.focus
    <2>1. PICK to \in -1..Cardinality(Rows) : view' = [view EXCEPT !.focus = to]
        <3>0. n \in 1..Cardinality(Rows)
            BY <1>13, <1>f DEF MoveRing
        <3>1. CASE key = "down"
            <4> DEFINE to == IF at < 0 THEN 0 ELSE IF at + 1 < n - 1 THEN at + 1 ELSE n - 1
            <4>1. to \in -1..Cardinality(Rows)
                <5> HIDE DEF n, at
                <5> QED
                    BY <1>e, <1>f, <3>0 DEF at
            <4>2. view' = [view EXCEPT !.focus = to]
                BY <1>13, <3>1 DEF MoveRing
            <4> QED
                BY <4>1, <4>2
        <3>2. CASE key = "up"
            <4> DEFINE to == IF at < 0 THEN n - 1 ELSE IF at = 0 THEN 0 ELSE at - 1
            <4>1. to \in -1..Cardinality(Rows)
                <5> HIDE DEF n, at
                <5> QED
                    BY <1>e, <1>f, <3>0 DEF at
            <4>2. view' = [view EXCEPT !.focus = to]
                BY <1>13, <3>2 DEF MoveRing
            <4> QED
                BY <4>1, <4>2
        <3>3. CASE key = "home"
            <4>1. 0 \in -1..Cardinality(Rows) /\ view' = [view EXCEPT !.focus = 0]
                BY <1>13, <1>e, <3>3 DEF MoveRing
            <4> QED
                BY <4>1
        <3>4. CASE key = "end"
            <4>1. n - 1 \in -1..Cardinality(Rows)
                <5> HIDE DEF n
                <5> QED
                    BY <1>e, <3>0
            <4>2. view' = [view EXCEPT !.focus = n - 1]
                BY <1>13, <3>4 DEF MoveRing
            <4> QED
                BY <4>1, <4>2
        <3> QED
            BY <3>1, <3>2, <3>3, <3>4
    <2>2. UNCHANGED <<kind, rows, url, past, selected>>
        BY <1>13 DEF MoveRing
    <2> QED
        BY <1>0, <1>b, <2>1, <2>2 DEF Views
<1>g. ASSUME NEW i \in 1..Len(PageRows),
             view' = [view EXCEPT !.opened = IF @ = PageRows[i] THEN 0 ELSE PageRows[i]],
             UNCHANGED <<kind, rows, url, past, selected>>
      PROVE  TableIInv'
    <2>1. (IF view.opened = PageRows[i] THEN 0 ELSE PageRows[i]) \in Rows \cup {0}
        BY <1>f
    <2> QED
        BY <1>0, <1>b, <1>g, <2>1 DEF Views
<1>h. Ringed => view.focus + 1 \in 1..Len(PageRows)
    BY <1>f DEF Ringed
<1>14. CASE PressSpace
    <2>1. selected' \subseteq Rows
        BY <1>0, <1>14, <1>f, <1>h DEF PressSpace, Toggled
    <2> QED
        BY <1>0, <1>14, <1>b, <2>1 DEF PressSpace
<1>15. CASE PressEnter
    BY <1>15, <1>g, <1>h DEF PressEnter
<1>16. CASE SelectAll
    <2>1. selected' \subseteq Rows
        BY <1>0, <1>16, FilteredCount DEF SelectAll
    <2> QED
        BY <1>0, <1>16, <1>b, <2>1 DEF SelectAll
<1>17. ASSUME NEW i \in 1..Cardinality(Rows), OpenRow(i) PROVE TableIInv'
    <2>1. i \in 1..Len(PageRows)
        BY <1>0, <1>17, PageRowsType, LenProperties DEF OpenRow
    <2> QED
        BY <1>17, <1>g, <2>1 DEF OpenRow
<1>18. CASE UNCHANGED tableVars
    BY <1>0, <1>18, <1>b DEF tableVars
<1> QED
    BY <1>1, <1>2, <1>3, <1>4, <1>5, <1>6, <1>7, <1>8, <1>9, <1>10, <1>11, <1>12, <1>13, <1>14,
       <1>15, <1>16, <1>17, <1>18 DEF TableNext

\* The invariant holds in every reachable state, for any rows and any page sizes.
THEOREM TableInvariance == TableSpec => []TableIInv
BY TableStarts, TableKeeps, PTL DEF TableSpec

\* The page shows a row while one passes the filters, never more than its size;
\* the input shows the search; the agents' order is in the address.
THEOREM SoundView == TableSpec => []ViewIsSound
<1>1. TableIInv => ViewIsSound
    <2> SUFFICES ASSUME TableIInv PROVE ViewIsSound
        OBVIOUS
    <2>1. TableTypeOK /\ InputIsTrue /\ OrderIsInUrl
        BY DEF TableIInv
    <2>2. /\ view.size \in Nat /\ Cardinality(Filtered) \in Nat
          /\ Cardinality(Filtered) = 0 <=> Filtered = {}
        BY <2>1, TableTypes, FilteredCount, TablesAssumption DEF Views
    <2>3. Filtered # {} => PageRows # <<>>
        <3> SUFFICES ASSUME Filtered # {} PROVE Len(PageRows) > 0
            BY <2>1, PageRowsType
        <3> QED
            BY <2>1, <2>2, PageBounds, PageRowsType
    <2>4. Len(PageRows) <= view.size
        BY <2>1, PageBounds, PageRowsType
    <2>5. PageShown = TotalPages <=> EndIndex = Cardinality(Filtered)
        BY <2>1, PageBounds
    <2>6. ~view.pending => view.typed = Search
        BY <2>1 DEF InputIsTrue, Search
    <2> QED
        BY <2>1, <2>3, <2>4, <2>5, <2>6 DEF ViewIsSound, OrderIsInUrl
<1> QED
    BY <1>1, TableInvariance, PTL

-----------------------------------------------------------------------------
(* The wizard                                                              *)

\* What has been validated when a step is reached.
StepsAreValid ==
    /\ wizard.form.step > 1 => wizard.form.name \in GoodNames
    /\ wizard.form.step > 2 => wizard.form.caps # {}

\* The wizard waits for its own call, and has no result until it is over.
WaitsForItsOwn ==
    /\ wizard.form.spawning <=> \E c \in spawns : c.mine
    /\ \A c, d \in spawns : c.mine /\ d.mine => c = d
    /\ wizard.form.result = "ok" => made.done /\ ~wizard.form.spawning

SpawnIInv == SpawnTypeOK /\ StepsAreValid /\ SpawnsAreValid /\ WaitsForItsOwn

-----------------------------------------------------------------------------

LEMMA NothingMadeType == NothingMade \in [n : 0..MaxSpawns, config : Configs, done : BOOLEAN]
BY MaxSpawnsAssumption DEF NothingMade, Config, Configs, Start, Names, Presets

LEMMA FreshType == Fresh \in Wizards /\ Start \in Forms
BY DEF Fresh, Wizards, Forms, Start, Names, Presets

LEMMA StartFields ==
    /\ Fresh.form = Start
    /\ ~(Start.step > 1) /\ ~(Start.step > 2)
    /\ Start.spawning = FALSE /\ Start.result = "none"
BY DEF Fresh, Start

LEMMA ConfigType == ASSUME NEW f \in Forms PROVE Config(f) \in Configs
BY DEF Forms, Config, Configs

LEMMA RenderedType ==
    ASSUME NEW w \in Wizards
    PROVE  Rendered(w) \in Wizards /\ Rendered(w).form = w.form
<1>1. (IF w.asks < 2 THEN w.asks + 1 ELSE w.asks) \in 0..2
    BY DEF Wizards
<1> QED
    BY <1>1 DEF Rendered, Wizards

\* A step of the wizard that calls for nothing keeps the form valid.
LEMMA Edits ==
    ASSUME SpawnIInv, wizard' \in Wizards, StepsAreValid', UNCHANGED <<spawns, made>>,
           wizard'.form.spawning = wizard.form.spawning,
           wizard'.form.result = wizard.form.result
    PROVE  SpawnIInv'
BY DEF SpawnIInv, SpawnTypeOK, SpawnsAreValid, WaitsForItsOwn

\* And so does one that changes other fields of the form.
LEMMA Fields ==
    ASSUME SpawnIInv, NEW f \in Forms, Fill(f), UNCHANGED <<spawns, made>>,
           f.step = wizard.form.step, f.spawning = wizard.form.spawning,
           f.result = wizard.form.result,
           f.step > 1 => f.name = wizard.form.name,
           f.step > 2 => f.caps = wizard.form.caps
    PROVE  SpawnIInv'
<1>1. wizard' \in Wizards /\ wizard'.form = f
    BY DEF SpawnIInv, SpawnTypeOK, Wizards, Fill
<1>2. StepsAreValid'
    BY <1>1 DEF SpawnIInv, StepsAreValid
<1> QED
    BY <1>1, <1>2, Edits

\* The fresh wizard satisfies the invariant.
THEOREM SpawnStarts == SpawnInit => SpawnIInv
BY FreshType, StartFields, NothingMadeType
DEF SpawnInit, SpawnIInv, SpawnTypeOK, StepsAreValid, SpawnsAreValid, WaitsForItsOwn

\* No step of the wizard, of the registry or of the manager leaves it.
THEOREM SpawnStep == SpawnIInv /\ [SpawnNext]_spawnVars => SpawnIInv'
<1> SUFFICES ASSUME SpawnIInv, [SpawnNext]_spawnVars PROVE SpawnIInv'
    OBVIOUS
<1> DEFINE f == wizard.form
<1>0. SpawnTypeOK /\ StepsAreValid /\ SpawnsAreValid /\ WaitsForItsOwn /\ f \in Forms
      /\ wizard \in Wizards
    BY DEF SpawnIInv, SpawnTypeOK, Wizards
<1>1. ASSUME NEW name \in Names, TypeName(name) PROVE SpawnIInv'
    <2> DEFINE g == [f EXCEPT !.name = name, !.nameError = FALSE]
    <2>1. /\ g \in Forms /\ g.step = f.step /\ g.caps = f.caps
          /\ g.spawning = f.spawning /\ g.result = f.result
        BY <1>0 DEF Forms
    <2>2. Fill(g) /\ UNCHANGED <<spawns, made>> /\ f.step = 1
        BY <1>1 DEF TypeName
    <2>3. ~(f.step > 1)
        BY <2>2
    <2> HIDE DEF g
    <2> QED
        BY <2>1, <2>2, <2>3, Fields
<1>2. ASSUME NEW c \in Caps, ToggleCap(c) PROVE SpawnIInv'
    <2> DEFINE g == [f EXCEPT !.caps = IF c \in @ THEN @ \ {c} ELSE @ \cup {c}]
    <2>1. /\ g \in Forms /\ g.step = f.step /\ g.name = f.name
          /\ g.spawning = f.spawning /\ g.result = f.result
        BY <1>0 DEF Forms
    <2>2. Fill(g) /\ UNCHANGED <<spawns, made>> /\ f.step = 2
        BY <1>2 DEF ToggleCap, ChoosesCaps
    <2>3. ~(f.step > 2)
        BY <2>2
    <2> HIDE DEF g
    <2> QED
        BY <2>1, <2>2, <2>3, Fields
<1>3. ASSUME NEW text \in Custom \cup {""}, TypeCap(text) PROVE SpawnIInv'
    <2>1. [f EXCEPT !.typed = text] \in Forms
        BY <1>0 DEF Forms
    <2> QED
        BY <1>0, <1>3, <2>1, Fields DEF TypeCap, Forms
<1>4. CASE AddCap
    <2>1. f.typed \in Caps
        BY <1>0, <1>4 DEF AddCap, Forms, Caps
    <2>2. wizard' \in Wizards
        BY <1>0, <1>4, <2>1 DEF AddCap, Wizards, Forms
    <2>3. /\ wizard'.form.step = 2 /\ wizard'.form.name = f.name
          /\ wizard'.form.spawning = f.spawning /\ wizard'.form.result = f.result
          /\ f.step = 2
        BY <1>0, <1>4 DEF AddCap, ChoosesCaps, Wizards, Forms
    <2>4. StepsAreValid'
        BY <1>0, <2>3 DEF StepsAreValid
    <2> QED
        BY <1>4, <2>2, <2>3, <2>4, Edits DEF AddCap
<1>5. ASSUME NEW known \in SUBSET Caps,
             wizard' = Rendered([wizard EXCEPT !.known = known, !.asking = FALSE]),
             UNCHANGED <<spawns, made>>
      PROVE  SpawnIInv'
    <2>1. /\ [wizard EXCEPT !.known = known, !.asking = FALSE] \in Wizards
          /\ [wizard EXCEPT !.known = known, !.asking = FALSE].form = f
        BY <1>0 DEF Wizards
    <2>2. wizard' \in Wizards /\ wizard'.form = f
        BY <1>5, <2>1, RenderedType
    <2> QED
        BY <1>0, <1>5, <2>2, Edits DEF StepsAreValid
<1>6. CASE CapsFailed
    <2>1. wizard.known \in SUBSET Caps
        BY <1>0 DEF Wizards
    <2>2. [wizard EXCEPT !.asking = FALSE] = [wizard EXCEPT !.known = wizard.known, !.asking = FALSE]
        BY <1>0 DEF Wizards
    <2> QED
        BY <1>5, <1>6, <2>1, <2>2 DEF CapsFailed
<1>7. ASSUME NEW caps \in SUBSET Listed, CapsAnswered(caps) PROVE SpawnIInv'
    <2>1. caps \in SUBSET Caps
        BY DEF Caps
    <2> QED
        BY <1>5, <1>7, <2>1 DEF CapsAnswered
<1>8. CASE NextStep
    <2> DEFINE nameBad == f.step = 1 /\ f.name \notin GoodNames
               capsBad == f.step = 2 /\ f.caps = {}
               g == [f EXCEPT !.nameError = IF f.step = 1 THEN nameBad ELSE @,
                              !.capsError = IF f.step = 2 THEN capsBad ELSE @,
                              !.step = IF nameBad \/ capsBad THEN @ ELSE @ + 1]
               w == [wizard EXCEPT !.form = g, !.asks = 0]
    <2>0. f.step \in 1..4 /\ f.step < 4
        BY <1>0, <1>8 DEF NextStep, Forms
    <2>1. /\ g.step = IF nameBad \/ capsBad THEN f.step ELSE f.step + 1
          /\ g.name = f.name /\ g.caps = f.caps
          /\ g.spawning = f.spawning /\ g.result = f.result
        BY <1>0 DEF Forms
    <2>2. g \in Forms
        <3>1. (IF nameBad \/ capsBad THEN f.step ELSE f.step + 1) \in 1..4
            BY <2>0
        <3>2. /\ (IF f.step = 1 THEN nameBad ELSE f.nameError) \in BOOLEAN
              /\ (IF f.step = 2 THEN capsBad ELSE f.capsError) \in BOOLEAN
            BY <1>0 DEF Forms
        <3> HIDE DEF nameBad, capsBad
        <3> QED
            BY <1>0, <3>1, <3>2 DEF Forms
    <2>3. w \in Wizards /\ w.form = g
        <3>1. 0 \in 0..2
            OBVIOUS
        <3> HIDE DEF g
        <3> QED
            BY <1>0, <2>2, <3>1 DEF Wizards
    <2>4. wizard' = Rendered(w)
        BY <1>0, <1>8 DEF NextStep, Wizards, Forms
    <2>5. wizard' \in Wizards /\ wizard'.form = g
        BY <2>3, <2>4, RenderedType
    <2>6. StepsAreValid'
        <3>1. /\ g.step > 1 => g.name \in GoodNames
              /\ g.step > 2 => g.caps # {}
            BY <1>0, <2>0, <2>1 DEF StepsAreValid
        <3> HIDE DEF g
        <3> QED
            BY <2>5, <3>1 DEF StepsAreValid
    <2> HIDE DEF g
    <2> QED
        BY <1>8, <2>1, <2>5, <2>6, Edits DEF NextStep
<1>9. CASE BackStep
    <2> DEFINE g == [f EXCEPT !.step = @ - 1]
               w == [wizard EXCEPT !.form = g, !.asks = 0]
    <2>0. f.step \in 1..4 /\ f.step - 1 \in 1..4
        <3>1. f.step > 1
            BY <1>9 DEF BackStep
        <3>2. f.step \in 1..4
            BY <1>0 DEF Forms
        <3> QED
            BY <3>1, <3>2
    <2>1. g \in Forms
        BY <1>0, <2>0 DEF Forms
    <2>2. w \in Wizards /\ w.form = g
        <3>1. 0 \in 0..2
            OBVIOUS
        <3> HIDE DEF g
        <3> QED
            BY <1>0, <2>1, <3>1 DEF Wizards
    <2>3. wizard' = Rendered(w)
        BY <1>0, <1>9 DEF BackStep, Wizards, Forms
    <2>4. wizard' \in Wizards /\ wizard'.form = g
        BY <2>2, <2>3, RenderedType
    <2>5. g.step = f.step - 1 /\ g.name = f.name /\ g.caps = f.caps
          /\ g.spawning = f.spawning /\ g.result = f.result /\ f.step \in 1..4
        BY <1>0 DEF Forms
    <2>6. StepsAreValid'
        BY <1>0, <2>4, <2>5 DEF StepsAreValid
    <2> QED
        BY <1>9, <2>4, <2>5, <2>6, Edits DEF BackStep
<1>10. ASSUME NEW preset \in Presets, Choose(preset) PROVE SpawnIInv'
    <2>1. [f EXCEPT !.preset = preset] \in Forms
        BY <1>0 DEF Forms
    <2> QED
        BY <1>0, <1>10, <2>1, Fields DEF Choose, Forms
<1>11. CASE SpawnKubex
    <2> DEFINE g == [f EXCEPT !.spawning = TRUE, !.result = "none"]
               call == [n |-> made.n + 1, config |-> Config(f), mine |-> TRUE,
                        answer |-> "pending"]
    <2>1. g \in Forms /\ g.step = f.step /\ g.name = f.name /\ g.caps = f.caps
          /\ g.spawning = TRUE /\ g.result = "none"
        BY <1>0 DEF Forms
    <2>2. wizard' \in Wizards /\ wizard'.form = g
        BY <1>0, <1>11, <2>1 DEF SpawnKubex, Fill, Wizards
    <2>3. made.n + 1 \in 1..MaxSpawns /\ made.n \in Nat
        BY <1>0, <1>11, MaxSpawnsAssumption DEF SpawnKubex, SpawnTypeOK
    <2>4. call \in Calls
        BY <1>0, <2>3, ConfigType DEF Calls
    <2>5. made' \in [n : 0..MaxSpawns, config : Configs, done : BOOLEAN]
        BY <1>11, <2>3, NothingMadeType, MaxSpawnsAssumption DEF SpawnKubex
    <2>6. spawns' = spawns \cup {call}
        BY <1>11 DEF SpawnKubex
    <2>7. call.mine /\ call.config.name \in GoodNames /\ call.config.caps # {}
        BY <1>0, <1>11 DEF SpawnKubex, StepsAreValid, Config
    <2>8. \A c \in spawns : ~c.mine
        BY <1>0, <1>11 DEF SpawnKubex, WaitsForItsOwn
    <2>9. SpawnTypeOK'
        BY <1>0, <2>2, <2>4, <2>5, <2>6 DEF SpawnTypeOK
    <2>10. StepsAreValid'
        BY <1>0, <2>1, <2>2 DEF StepsAreValid
    <2>11. SpawnsAreValid'
        BY <1>0, <2>6, <2>7 DEF SpawnsAreValid
    <2>12. WaitsForItsOwn'
        BY <2>1, <2>2, <2>6, <2>7, <2>8 DEF WaitsForItsOwn
    <2> QED
        BY <2>9, <2>10, <2>11, <2>12 DEF SpawnIInv
<1>12. ASSUME NEW c \in spawns, ServeSpawn(c) PROVE SpawnIInv'
    <2>1. PICK answer \in {"done", "refused"} :
              spawns' = (spawns \ {c}) \cup {[c EXCEPT !.answer = answer]}
        BY <1>12 DEF ServeSpawn
    <2> DEFINE d == [c EXCEPT !.answer = answer]
    <2>2. d \in Calls /\ d.config = c.config /\ d.mine = c.mine
        BY <1>0 DEF SpawnTypeOK, Calls
    <2>3. UNCHANGED <<wizard, made>>
        BY <1>12 DEF ServeSpawn
    <2>4. SpawnTypeOK'
        BY <1>0, <2>1, <2>2, <2>3 DEF SpawnTypeOK
    <2>5. SpawnsAreValid'
        BY <1>0, <2>1, <2>2 DEF SpawnsAreValid
    <2>6. WaitsForItsOwn'
        <3>1. (\E e \in spawns : e.mine) <=> \E e \in spawns' : e.mine
            BY <2>1, <2>2
        <3>2. \A e1, e2 \in spawns' : e1.mine /\ e2.mine => e1 = e2
            BY <1>0, <2>1, <2>2 DEF WaitsForItsOwn
        <3> QED
            BY <1>0, <2>3, <3>1, <3>2 DEF WaitsForItsOwn
    <2> QED
        BY <1>0, <2>3, <2>4, <2>5, <2>6 DEF SpawnIInv, StepsAreValid
<1>13. ASSUME NEW c \in spawns, Spawned(c) PROVE SpawnIInv'
    <2>1. spawns' = spawns \ {c} /\ SpawnsAreValid'
        BY <1>0, <1>13 DEF Spawned, SpawnsAreValid
    <2>2. CASE c.mine
        <3> DEFINE g == [f EXCEPT !.spawning = FALSE,
                             !.result = IF c.answer = "done" THEN "ok" ELSE "failed"]
        <3>1. g \in Forms /\ g.step = f.step /\ g.name = f.name /\ g.caps = f.caps
              /\ g.spawning = FALSE
              /\ g.result = IF c.answer = "done" THEN "ok" ELSE "failed"
            BY <1>0 DEF Forms
        <3>2. wizard' \in Wizards /\ wizard'.form = g
            BY <1>0, <1>13, <2>2, <3>1 DEF Spawned, Fill, Wizards
        <3>3. /\ made' \in [n : 0..MaxSpawns, config : Configs, done : BOOLEAN]
              /\ c.answer = "done" => made'.done
            BY <1>0, <1>13, <2>2 DEF Spawned, SpawnTypeOK, Calls
        <3>4. \A e \in spawns' : ~e.mine
            BY <1>0, <2>1, <2>2 DEF WaitsForItsOwn
        <3>5. SpawnTypeOK'
            BY <1>0, <2>1, <3>2, <3>3 DEF SpawnTypeOK
        <3>6. StepsAreValid'
            BY <1>0, <3>1, <3>2 DEF StepsAreValid
        <3>7. WaitsForItsOwn'
            BY <3>1, <3>2, <3>3, <3>4 DEF WaitsForItsOwn
        <3> QED
            BY <2>1, <3>5, <3>6, <3>7 DEF SpawnIInv
    <2>3. CASE ~c.mine
        <3>1. UNCHANGED <<wizard, made>>
            BY <1>13, <2>3 DEF Spawned
        <3> QED
            BY <1>0, <2>1, <2>3, <3>1
            DEF SpawnIInv, SpawnTypeOK, StepsAreValid, WaitsForItsOwn
    <2> QED
        BY <2>2, <2>3
<1>14. CASE SpawnAnother
    <2>1. \A c \in spawns : ~c.mine
        BY <1>0, <1>14 DEF SpawnAnother, Done, WaitsForItsOwn
    <2>2. wizard' \in Wizards /\ wizard'.form = Start
        BY <1>0, <1>14, FreshType DEF SpawnAnother, Fill, Wizards
    <2>3. made' \in [n : 0..MaxSpawns, config : Configs, done : BOOLEAN] /\ spawns' = spawns
        BY <1>0, <1>14, NothingMadeType DEF SpawnAnother, SpawnTypeOK
    <2> QED
        BY <1>0, <2>1, <2>2, <2>3, StartFields
        DEF SpawnIInv, SpawnTypeOK, StepsAreValid, SpawnsAreValid, WaitsForItsOwn
<1>15. CASE Reenter
    <2>1. wizard' = Fresh /\ spawns' = {[c EXCEPT !.mine = FALSE] : c \in spawns}
        BY <1>15 DEF Reenter
    <2>2. made' \in [n : 0..MaxSpawns, config : Configs, done : BOOLEAN]
        BY <1>0, <1>15, NothingMadeType DEF Reenter, SpawnTypeOK
    <2>3. \A d \in spawns' : /\ d \in Calls /\ d.mine = FALSE
                             /\ \E c \in spawns : d.config = c.config
        BY <1>0, <2>1 DEF SpawnTypeOK, Calls
    <2>4. SpawnTypeOK'
        BY <2>1, <2>2, <2>3, FreshType DEF SpawnTypeOK
    <2>5. StepsAreValid'
        BY <2>1, StartFields DEF StepsAreValid
    <2>6. SpawnsAreValid'
        BY <1>0, <2>3 DEF SpawnsAreValid
    <2>7. WaitsForItsOwn'
        BY <2>1, <2>3, StartFields DEF WaitsForItsOwn
    <2> QED
        BY <2>4, <2>5, <2>6, <2>7 DEF SpawnIInv
<1>16. CASE UNCHANGED spawnVars
    BY <1>0, <1>16
    DEF spawnVars, SpawnIInv, SpawnTypeOK, StepsAreValid, SpawnsAreValid, WaitsForItsOwn
<1> QED
    BY <1>1, <1>2, <1>3, <1>4, <1>6, <1>7, <1>8, <1>9, <1>10, <1>11, <1>12, <1>13, <1>14, <1>15,
       <1>16 DEF SpawnNext

\* The invariant holds in every reachable state, for any names, capabilities
\* and number of calls.
THEOREM SpawnInvariance == SpawnSpec => []SpawnIInv
BY SpawnStarts, SpawnStep, PTL DEF SpawnSpec

\* However the steps are walked, what is sent to the manager has a valid name
\* and a capability.
THEOREM ValidSpawns == SpawnSpec => []SpawnsAreValid
<1>1. SpawnIInv => SpawnsAreValid
    BY DEF SpawnIInv
<1> QED
    BY <1>1, SpawnInvariance, PTL

\* The wizard waits for one call at most, for as long as there is one, and
\* reports as spawned only what the manager has made.
THEOREM TrueSpawning == SpawnSpec => []SpawningIsTrue
<1>1. SpawnIInv => SpawningIsTrue
    <2> SUFFICES ASSUME SpawnIInv PROVE SpawningIsTrue
        OBVIOUS
    <2> DEFINE own == {c \in spawns : c.mine}
    <2>1. WaitsForItsOwn
        BY DEF SpawnIInv
    <2>2. Cardinality(own) <= 1
        <3>1. CASE own = {}
            BY <3>1, FS_EmptySet
        <3>2. CASE own # {}
            <4>1. PICK c \in own : TRUE
                BY <3>2
            <4>2. own = {c}
                BY <2>1, <4>1 DEF WaitsForItsOwn
            <4> QED
                BY <4>2, FS_Singleton
        <3> QED
            BY <3>1, <3>2
    <2> QED
        BY <2>1, <2>2 DEF SpawningIsTrue, WaitsForItsOwn
<1> QED
    BY <1>1, SpawnInvariance, PTL

-----------------------------------------------------------------------------

Pages == [url : Agents, agent : Agents \cup {NoAgent}, status : AgentStatus,
          loading : BOOLEAN, error : BOOLEAN, tab : OfTabs]
Lives == [conn : {"none", "connecting", "open"}, aborted : BOOLEAN,
          status : {"idle", "connecting", "connected", "error", "closed"},
          events : 0..MaxEvents]
Waiters == [id : Agents, silent : BOOLEAN]
Gets == [at : {"none", "sent", "served"}, snap : [Agents -> AgentStatus], waiting : Seq(Waiters)]
Changes == [id : Agents, to : AgentStatus, url : Agents, page : BOOLEAN,
            mine : BOOLEAN, answer : {"pending", "done", "refused"}]
Buttons == [busy : BOOLEAN, note : {"none", "ok", "failed"}]

\* Somebody waits who will end the loading.
SomebodyWaits(g) == \E i \in DOMAIN g.waiting : ~g.waiting[i].silent

LoadingIsTrue == page.loading <=> SomebodyWaits(get)

\* The buttons wait for one call at most.
BusyIsTrue ==
    /\ controls.busy <=> \E c \in patches : c.mine
    /\ \A c, d \in patches : c.mine /\ d.mine => c = d

\* What is aborted has not opened.
Truthful(l) ==
    /\ l.status = "connected" <=> l.conn = "open"
    /\ l.aborted => l.conn # "open"

DetailIInv == DetailTypeOK /\ LoadingIsTrue /\ BusyIsTrue /\ Truthful(live)

LEMMA DetailTypes ==
    DetailTypeOK <=> /\ registry \in [Agents -> AgentStatus]
                     /\ get \in Gets /\ page \in Pages /\ controls \in Buttons
                     /\ patches \subseteq Changes /\ live \in Lives
BY DEF DetailTypeOK, Gets, Waiters, Pages, Buttons, Changes, Lives

LEMMA NoLiveType == NoLive \in Lives /\ Truthful(NoLive)
BY MaxEventsAssumption DEF NoLive, Lives, Truthful

LEMMA ConnectedType ==
    ASSUME NEW l \in Lives
    PROVE  Connected(l) \in Lives /\ Truthful(Connected(l))
BY DEF Connected, Lives, Truthful

LEMMA NoControlsType == NoControls \in Buttons /\ ~NoControls.busy
BY DEF NoControls, Buttons

LEMMA EmptyPageType ==
    ASSUME NEW id \in Agents
    PROVE  /\ Loading(EmptyPage(id)) \in Pages
           /\ Loading(EmptyPage(id)).loading
           /\ ~Shown(Loading(EmptyPage(id)))
BY DEF Loading, EmptyPage, Pages, AgentStatus, OfTabs, Shown

LEMMA LoadingType ==
    ASSUME NEW p \in Pages
    PROVE  /\ Loading(p) \in Pages /\ Loading(p).loading /\ ~Shown(Loading(p))
BY DEF Loading, Pages, Shown

LEMMA AskedType ==
    ASSUME NEW g \in Gets, NEW id \in Agents, NEW silent \in BOOLEAN
    PROVE  /\ Asked(g, id, silent) \in Gets
           /\ SomebodyWaits(Asked(g, id, silent)) <=> SomebodyWaits(g) \/ ~silent
<1> DEFINE w == [id |-> id, silent |-> silent]
           h == Asked(g, id, silent)
<1>1. w \in Waiters /\ g.waiting \in Seq(Waiters)
    BY DEF Waiters, Gets
<1>2. /\ h.waiting = Append(g.waiting, w)
      /\ h \in Gets
    BY <1>1, AppendProperties DEF Asked, Gets
<1>3. /\ DOMAIN h.waiting = DOMAIN g.waiting \cup {Len(g.waiting) + 1}
      /\ h.waiting[Len(g.waiting) + 1] = w
      /\ \A i \in DOMAIN g.waiting : h.waiting[i] = g.waiting[i]
    BY <1>1, <1>2, AppendProperties, LenProperties
<1>4. w.silent = silent
    OBVIOUS
<1> HIDE DEF h, w
<1>5. SomebodyWaits(h) <=> SomebodyWaits(g) \/ ~silent
    BY <1>3, <1>4 DEF SomebodyWaits
<1> QED
    BY <1>2, <1>5 DEF h

LEMMA NoGetType == NoGet \in Gets /\ ~SomebodyWaits(NoGet)
BY EmptySeq DEF NoGet, Gets, AgentStatus, SomebodyWaits

\* What is shown decides who connects; nothing that was aborted opens by it.
LEMMA ShowType ==
    ASSUME DetailIInv, NEW p \in Pages, Show(p)
    PROVE  page' = p /\ live' \in Lives /\ Truthful(live')
BY DetailTypes, NoLiveType, ConnectedType DEF DetailIInv, Show

LEMMA LeftType ==
    ASSUME DetailIInv, NEW p
    PROVE  /\ Left(p) \subseteq Changes
           /\ \A c \in Left(p) : c.mine => On(p, "overview") /\ c \in patches
           /\ On(p, "overview") => Left(p) = patches
BY DetailTypes DEF DetailIInv, Left, Changes

\* The buttons and their calls when the page becomes another.
LEMMA LeftBusy ==
    ASSUME DetailIInv, NEW p, controls' = StatusOf(p), patches' = Left(p)
    PROVE  controls' \in Buttons /\ patches' \subseteq Changes /\ BusyIsTrue'
BY DetailTypes, LeftType, NoControlsType DEF DetailIInv, BusyIsTrue, StatusOf

-----------------------------------------------------------------------------

\* The page that is entered satisfies the invariant.
THEOREM DetailStarts == DetailInit => DetailIInv
<1> SUFFICES ASSUME DetailInit PROVE DetailIInv
    OBVIOUS
<1>1. PICK id \in Agents : page = Loading(EmptyPage(id)) /\ get = Asked(NoGet, id, FALSE)
    BY DEF DetailInit
<1>2. page \in Pages /\ get \in Gets /\ LoadingIsTrue
    BY <1>1, EmptyPageType, AskedType, NoGetType DEF LoadingIsTrue
<1>3. BusyIsTrue /\ controls \in Buttons /\ patches \subseteq Changes
    BY NoControlsType DEF DetailInit, BusyIsTrue
<1>4. registry \in [Agents -> AgentStatus]
    BY DEF DetailInit, AgentStatus
<1> QED
    BY <1>2, <1>3, <1>4, NoLiveType, DetailTypes DEF DetailInit, DetailIInv

\* The steps that change the lifecycle's tab alone.
LEMMA LiveStep ==
    ASSUME DetailIInv, NEW l \in Lives, Truthful(l), Live(l)
    PROVE  DetailIInv'
BY DetailTypes DEF DetailIInv, Live, LoadingIsTrue, BusyIsTrue, DetailTypeOK, Lives

\* No click, answer or event leaves it.
THEOREM DetailKeeps == DetailIInv /\ [DetailNext]_detailVars => DetailIInv'
<1> SUFFICES ASSUME DetailIInv, [DetailNext]_detailVars PROVE DetailIInv'
    OBVIOUS
<1>0. /\ registry \in [Agents -> AgentStatus] /\ get \in Gets /\ page \in Pages
      /\ controls \in Buttons /\ patches \subseteq Changes /\ live \in Lives
      /\ LoadingIsTrue /\ BusyIsTrue /\ Truthful(live)
    BY DetailTypes DEF DetailIInv
<1>a. ASSUME registry' \in [Agents -> AgentStatus], get' \in Gets, page' \in Pages,
             controls' \in Buttons, patches' \subseteq Changes, live' \in Lives,
             LoadingIsTrue', BusyIsTrue', Truthful(live')
      PROVE  DetailIInv'
    BY <1>a DEF DetailIInv, DetailTypeOK, Gets, Waiters, Pages, Buttons, Changes, Lives
<1>1. ASSUME NEW id \in Agents, Visit(id) PROVE DetailIInv'
    <2> DEFINE p == Loading([page EXCEPT !.url = id])
    <2>1. p \in Pages /\ p.loading /\ ~On(p, "overview")
        BY <1>0, LoadingType DEF Pages, On
    <2>2. Show(p) /\ controls' = StatusOf(p) /\ patches' = Left(p)
        BY <1>1, <2>1 DEF Visit, StatusOf
    <2>3. get' \in Gets /\ SomebodyWaits(get')
        BY <1>0, <1>1, AskedType DEF Visit
    <2> HIDE DEF p
    <2> QED
        BY <1>0, <1>1, <1>a, <2>1, <2>2, <2>3, ShowType, LeftBusy DEF Visit, LoadingIsTrue
<1>2. ASSUME NEW id \in Agents, Enter(id) PROVE DetailIInv'
    <2> DEFINE p == Loading(EmptyPage(id))
               g == [get EXCEPT !.waiting = <<>>]
    <2>1. p \in Pages /\ p.loading /\ Show(p)
        BY <1>2, EmptyPageType DEF Enter
    <2>2. g \in Gets
        BY <1>0, EmptySeq DEF Gets
    <2>3. get' \in Gets /\ SomebodyWaits(get')
        BY <1>2, <2>2, AskedType DEF Enter
    <2>4. patches' \subseteq Changes /\ \A c \in patches' : ~c.mine
        BY <1>0, <1>2 DEF Enter, Changes
    <2>5. controls' \in Buttons /\ ~controls'.busy
        BY <1>2, NoControlsType DEF Enter
    <2> HIDE DEF p, g
    <2> QED
        BY <1>0, <1>2, <1>a, <2>1, <2>3, <2>4, <2>5, ShowType
        DEF Enter, LoadingIsTrue, BusyIsTrue
<1>3. CASE ServeDetail
    <2>1. get' \in Gets /\ get'.waiting = get.waiting
        BY <1>0, <1>3 DEF ServeDetail, Gets
    <2> QED
        BY <1>0, <1>3, <1>a, <2>1 DEF ServeDetail, LoadingIsTrue, BusyIsTrue, SomebodyWaits
<1>b. ASSUME NEW p \in Pages, ~p.loading, Answer(p) PROVE DetailIInv'
    BY <1>0, <1>a, <1>b, ShowType, LeftBusy, NoGetType DEF Answer, LoadingIsTrue
<1>c. Ends(page) \in Pages /\ ~Ends(page).loading
    BY <1>0 DEF Ends, Pages, LoadingIsTrue, SomebodyWaits
<1>4. CASE DetailAnswered
    <2> DEFINE found == {i \in DOMAIN get.waiting : get.snap[get.waiting[i].id] # "gone"}
               last  == CHOOSE i \in found : \A j \in found : j <= i
               id    == get.waiting[last].id
               q     == [Ends(page) EXCEPT !.error = @ \/ found # DOMAIN get.waiting]
    <2>1. q \in Pages /\ ~q.loading
        BY <1>c DEF Pages
    <2>2. CASE found = {}
        <3>1. Answer(q)
            BY <1>4, <2>2 DEF DetailAnswered
        <3> HIDE DEF q
        <3> QED
            BY <1>b, <2>1, <3>1
    <2>3. CASE found # {}
        <3>1. get.waiting \in Seq(Waiters) /\ get.snap \in [Agents -> AgentStatus]
            BY <1>0 DEF Gets
        <3>2. Len(get.waiting) \in Nat /\ found \in SUBSET (1..Len(get.waiting))
            BY <3>1, LenProperties
        <3>3. \E i \in found : \A j \in found : j <= i
            BY <2>3, <3>2, GreatestNat
        <3>4. last \in found
            BY <3>3
        <3>5. id \in Agents
            <4>1. get.waiting[last] \in Waiters
                <5> HIDE DEF last
                <5> QED
                    BY <3>1, <3>2, <3>4, ElementOfSeq
            <4> HIDE DEF last
            <4> QED
                BY <4>1 DEF Waiters
        <3>6. Answer([q EXCEPT !.agent = id, !.status = get.snap[id]])
            BY <1>4, <2>3 DEF DetailAnswered
        <3>7. get.snap[id] \in AgentStatus
            BY <3>1, <3>5
        <3> HIDE DEF q, id
        <3>8. /\ [q EXCEPT !.agent = id, !.status = get.snap[id]] \in Pages
              /\ ~[q EXCEPT !.agent = id, !.status = get.snap[id]].loading
            BY <2>1, <3>5, <3>7 DEF Pages
        <3> QED
            BY <1>b, <3>6, <3>8
    <2> QED
        BY <2>2, <2>3
<1>5. CASE DetailFailed
    <2> DEFINE q == [Ends(page) EXCEPT !.error = @ \/ get.waiting # <<>>]
    <2>1. q \in Pages /\ ~q.loading
        BY <1>c DEF Pages
    <2>2. Answer(q)
        BY <1>5 DEF DetailFailed
    <2> HIDE DEF q
    <2> QED
        BY <1>b, <2>1, <2>2
<1>6. ASSUME NEW agent \in Agents, NEW status \in AgentStatus, RegistryChanges(agent, status)
      PROVE  DetailIInv'
    BY <1>0, <1>6, <1>a DEF RegistryChanges, LoadingIsTrue, BusyIsTrue
<1>7. ASSUME NEW to \in AgentStatus, SetStatus(to) PROVE DetailIInv'
    <2> DEFINE call == [id |-> page.agent, to |-> to, url |-> page.url, page |-> TRUE,
                        mine |-> TRUE, answer |-> "pending"]
    <2>1. call \in Changes
        BY <1>0, <1>7 DEF SetStatus, On, Shown, Pages, Changes
    <2>2. patches' = patches \cup {call} /\ call.mine /\ \A c \in patches : ~c.mine
        BY <1>0, <1>7 DEF SetStatus, BusyIsTrue
    <2>3. controls' \in Buttons /\ controls'.busy
        BY <1>7 DEF SetStatus, Buttons
    <2>4. BusyIsTrue'
        BY <2>2, <2>3 DEF BusyIsTrue
    <2> QED
        BY <1>0, <1>7, <1>a, <2>1, <2>2, <2>3, <2>4 DEF SetStatus, LoadingIsTrue
<1>8. ASSUME NEW c \in patches, ServePatch(c) PROVE DetailIInv'
    <2>1. PICK answer \in {"done", "refused"} :
              patches' = (patches \ {c}) \cup {[c EXCEPT !.answer = answer]}
        BY <1>8 DEF ServePatch
    <2> DEFINE d == [c EXCEPT !.answer = answer]
    <2>2. d \in Changes /\ d.mine = c.mine
        BY <1>0 DEF Changes
    <2>3. registry' \in [Agents -> AgentStatus]
        BY <1>0, <1>8 DEF ServePatch, Changes
    <2>4. BusyIsTrue'
        <3>1. (\E e \in patches : e.mine) <=> \E e \in patches' : e.mine
            BY <2>1, <2>2
        <3>2. \A e1, e2 \in patches' : e1.mine /\ e2.mine => e1 = e2
            BY <1>0, <2>1, <2>2 DEF BusyIsTrue
        <3> QED
            BY <1>0, <1>8, <3>1, <3>2 DEF BusyIsTrue, ServePatch
    <2> QED
        BY <1>0, <1>8, <1>a, <2>1, <2>2, <2>3, <2>4 DEF ServePatch, LoadingIsTrue
<1>9. ASSUME NEW c \in patches, Patched(c) PROVE DetailIInv'
    <2>1. patches' = patches \ {c} /\ registry' = registry
        BY <1>9 DEF Patched
    <2>a. /\ c.mine => \E note \in {"ok", "failed"} : controls' = [busy |-> FALSE, note |-> note]
          /\ ~c.mine => controls' = controls
        BY <1>9 DEF Patched
    <2>2. controls' \in Buttons /\ (controls'.busy <=> controls.busy /\ ~c.mine)
        <3>1. ASSUME c.mine, NEW note \in {"ok", "failed"},
                     controls' = [busy |-> FALSE, note |-> note]
              PROVE  controls' \in Buttons /\ ~controls'.busy
            BY <3>1 DEF Buttons
        <3>2. CASE c.mine
            BY <1>9, <2>a, <3>1, <3>2
        <3>3. CASE ~c.mine
            BY <1>0, <1>9, <2>a, <3>3 DEF Buttons
        <3> QED
            BY <3>2, <3>3
    <2>3. BusyIsTrue'
        BY <1>0, <2>1, <2>2 DEF BusyIsTrue
    <2>4. CASE c.answer # "done" \/ ~c.page
        <3>1. get' \in Gets /\ get'.waiting = get.waiting /\ UNCHANGED <<page, live>>
            BY <1>0, <1>9, <2>4 DEF Patched, Gets
        <3> QED
            BY <1>0, <1>a, <2>1, <2>2, <2>3, <3>1 DEF LoadingIsTrue, SomebodyWaits
    <2>5. CASE ~(c.answer # "done" \/ ~c.page)
        <3> DEFINE p == [page EXCEPT !.error = FALSE]
        <3>1. p \in Pages /\ p.loading = page.loading
            BY <1>0 DEF Pages
        <3>2. Show(p) /\ get' = Asked(get, c.url, TRUE) /\ c.url \in Agents
            BY <1>0, <1>9, <2>5 DEF Patched, Changes
        <3>3. get' \in Gets /\ (SomebodyWaits(get') <=> SomebodyWaits(get))
            BY <1>0, <3>2, AskedType
        <3> HIDE DEF p
        <3> QED
            BY <1>0, <1>a, <2>1, <2>2, <2>3, <3>1, <3>2, <3>3, ShowType DEF LoadingIsTrue
    <2> QED
        BY <2>4, <2>5
<1>10. CASE HideNote
    <2>1. controls' \in Buttons /\ controls'.busy = controls.busy
        BY <1>0, <1>10 DEF HideNote, Buttons
    <2> QED
        BY <1>0, <1>10, <1>a, <2>1 DEF HideNote, LoadingIsTrue, BusyIsTrue
<1>11. ASSUME NEW tab \in OfTabs, ChooseTab(tab) PROVE DetailIInv'
    <2> DEFINE p == [page EXCEPT !.tab = tab]
    <2>1. p \in Pages /\ p.loading = page.loading
        BY <1>0 DEF Pages
    <2>2. Show(p) /\ controls' = StatusOf(p) /\ patches' = Left(p) /\ UNCHANGED <<registry, get>>
        BY <1>11 DEF ChooseTab
    <2> HIDE DEF p
    <2> QED
        BY <1>0, <1>a, <2>1, <2>2, ShowType, LeftBusy DEF LoadingIsTrue
<1>12. CASE LiveAborted
    BY <1>0, <1>12, LiveStep DEF LiveAborted, Lives, Truthful
<1>13. CASE ClickConnect
    BY <1>0, <1>13, LiveStep, ConnectedType DEF ClickConnect
<1>14. CASE ClickDisconnect
    BY <1>0, <1>14, LiveStep DEF ClickDisconnect, Lives, Truthful
<1>15. CASE LiveOpens
    BY <1>0, <1>15, LiveStep DEF LiveOpens, Quiet, Lives, Truthful
<1>16. CASE LiveBreaks
    BY <1>0, <1>16, LiveStep DEF LiveBreaks, Lives, Truthful
<1>17. CASE LiveEnds
    BY <1>0, <1>17, LiveStep DEF LiveEnds, Lives, Truthful
<1>18. CASE LiveEvent
    BY <1>0, <1>18, MaxEventsAssumption, LiveStep DEF LiveEvent, Lives, Truthful
<1>19. CASE ClearEvents
    BY <1>0, <1>19, MaxEventsAssumption, LiveStep DEF ClearEvents, Lives, Truthful
<1>20. CASE UNCHANGED detailVars
    BY <1>0, <1>20, <1>a DEF detailVars, LoadingIsTrue, BusyIsTrue
<1> QED
    BY <1>1, <1>2, <1>3, <1>4, <1>5, <1>6, <1>7, <1>8, <1>9, <1>10, <1>11, <1>12, <1>13, <1>14,
       <1>15, <1>16, <1>17, <1>18, <1>19, <1>20 DEF DetailNext

\* The invariant holds in every reachable state, for any agents and however many wait.
THEOREM DetailInvariance == DetailSpec => []DetailIInv
BY DetailStarts, DetailKeeps, PTL DEF DetailSpec

\* The page loads as long as somebody waits who ends that, and the buttons are
\* locked for as long as their own call is in flight.
THEOREM TrueWaits == DetailSpec => []WaitsAreTrue
<1>1. DetailIInv => WaitsAreTrue
    BY DEF DetailIInv, LoadingIsTrue, BusyIsTrue, WaitsAreTrue, SomebodyWaits
<1> QED
    BY <1>1, DetailInvariance, PTL

\* The tab says "Live" exactly while its connection is open.
THEOREM TrueLive == DetailSpec => []LiveIsConnected
<1>1. DetailIInv => LiveIsConnected
    BY DEF DetailIInv, Truthful, LiveIsConnected
<1> QED
    BY <1>1, DetailInvariance, PTL

-----------------------------------------------------------------------------

FormNames == {"tab", "dialog"}
FormStates == [open : BOOLEAN, text : [FormFields -> Texts], errors : SUBSET FormFields,
               sending : BOOLEAN, result : {"none", "ok", "error"}, own : BOOLEAN]
Hints == [known : BOOLEAN, shown : BOOLEAN, at : 0..2]
Requests == [n : 1..MaxDispatches, form : FormNames, text : [FormFields -> Texts],
             mine : BOOLEAN, answer : {"pending", "accepted", "refused"}]
Entries == [n : 1..MaxDispatches, allowed : BOOLEAN]
Logs == [entries : Seq(Entries), sent : 0..MaxDispatches, ended : 0..MaxDispatches]

\* Requests are numbered as they are sent.
Numbers(A) == {c.n : c \in A}
Distinct(A) == \A c, d \in A : c.n = d.n => c = d
Numbered ==
    /\ Distinct(actions)
    /\ \A n \in Numbers(actions) : n <= log.sent
    /\ \A c \in actions : c.answer = "accepted" => c.n \in accepted

\* The log has what has ended, each once.
LogIsTrue ==
    /\ log.ended = log.sent - Cardinality(Numbers(actions))
    /\ Len(log.entries) = Least(MaxLog, log.ended)
    /\ \A i \in DOMAIN log.entries :
           /\ log.entries[i].n \notin Numbers(actions) /\ log.entries[i].n <= log.sent
           /\ log.entries[i].allowed => log.entries[i].n \in accepted
    /\ \A i, j \in DOMAIN log.entries : log.entries[i].n = log.entries[j].n => i = j

\* What a form waits for, one request at most.
Waited(c, form) == c.form = form /\ (form = "tab" => c.mine)
WaitsForOne(form, sending, A) ==
    /\ sending <=> \E c \in A : Waited(c, form)
    /\ \A c, d \in A : Waited(c, form) /\ Waited(d, form) => c = d
FormsAreTrue ==
    /\ \A form \in FormNames : WaitsForOne(form, forms[form].sending, actions)
    /\ forms["tab"].sending => forms["tab"].open

DispatchIInv == DispatchTypeOK /\ Numbered /\ LogIsTrue /\ FormsAreTrue

LEMMA DispatchTypes ==
    DispatchTypeOK <=> /\ forms \in [FormNames -> FormStates] /\ hints \in Hints
                       /\ actions \subseteq Requests /\ accepted \subseteq 1..MaxDispatches
                       /\ log \in Logs
BY DEF DispatchTypeOK, FormNames, FormStates, Hints, Requests, Logs, Entries

LEMMA EmptyFormType == EmptyForm \in FormStates /\ ~EmptyForm.sending
BY DEF EmptyForm, FormStates, FormFields, Texts

\* As many requests are in flight as numbers are.
LEMMA NumbersCount ==
    ASSUME NEW A \in SUBSET Requests, Distinct(A)
    PROVE  /\ IsFiniteSet(A) /\ IsFiniteSet(Numbers(A))
           /\ Cardinality(Numbers(A)) = Cardinality(A)
           /\ Cardinality(Numbers(A)) \in Nat
<1> DEFINE f == [c \in A |-> c.n]
<1>1. Numbers(A) \in SUBSET (1..MaxDispatches)
    BY DEF Numbers, Requests
<1>2. IsFiniteSet(Numbers(A))
    <2>1. 1 \in Int /\ MaxDispatches \in Int
        BY MaxDispatchesAssumption
    <2>2. IsFiniteSet(1..MaxDispatches)
        BY <2>1, FS_Interval
    <2> QED
        BY <1>1, <2>2, FS_Subset
<1>3. f \in Bijection(A, Numbers(A))
    BY DEF Numbers, Distinct, Bijection, Injection, Surjection, IsInjective
<1>4. f \in Injection(A, Numbers(A)) /\ f \in Surjection(A, Numbers(A))
    BY <1>3 DEF Bijection
<1> HIDE DEF f
<1>5. IsFiniteSet(A) /\ Cardinality(A) = Cardinality(Numbers(A))
    BY <1>2, <1>4, FS_Injection
<1> QED
    BY <1>2, <1>5, FS_CardinalityType

\* Steps that send nothing and end nothing keep the log.
LEMMA KeepsLog ==
    ASSUME DispatchIInv, Distinct(actions'), Numbers(actions') = Numbers(actions),
           accepted \subseteq accepted',
           \A c \in actions' : c.answer = "accepted" => c.n \in accepted', log' = log
    PROVE  Numbered' /\ LogIsTrue'
BY DEF DispatchIInv, Numbered, LogIsTrue

\* Those that change a form but not what it waits for keep all of it.
LEMMA KeepsForms ==
    ASSUME DispatchIInv, NEW form \in FormNames, NEW g \in FormStates,
           forms' = [forms EXCEPT ![form] = g], g.sending = forms[form].sending,
           forms[form].open => g.open \/ form = "dialog",
           hints' \in Hints, UNCHANGED <<actions, accepted, log>>
    PROVE  DispatchIInv'
<1>1. forms' \in [FormNames -> FormStates]
    BY DispatchTypes DEF DispatchIInv
<1>2. forms \in [FormNames -> FormStates]
    BY DispatchTypes DEF DispatchIInv
<1>3. FormsAreTrue'
    BY <1>2 DEF DispatchIInv, FormsAreTrue, FormNames
<1>4. DispatchTypeOK'
    BY <1>1, DispatchTypes DEF DispatchIInv, DispatchTypeOK, FormNames, FormStates, Hints
<1> QED
    BY <1>3, <1>4, KeepsLog DEF DispatchIInv, Numbered

\* What is forgotten is still in flight.
LEMMA ForgottenType ==
    ASSUME DispatchIInv, NEW form \in FormNames
    PROVE  /\ Forgotten(form) \subseteq Requests /\ Distinct(Forgotten(form))
           /\ Numbers(Forgotten(form)) = Numbers(actions)
           /\ \A c \in Forgotten(form) :
                  \E d \in actions : /\ c.n = d.n /\ c.form = d.form /\ c.answer = d.answer
                                     /\ c.mine <=> d.mine /\ d.form # form
                                     /\ c.form # form => c = d
<1> DEFINE f(c) == IF c.form = form THEN [c EXCEPT !.mine = FALSE] ELSE c
<1>0. actions \subseteq Requests
    BY DispatchTypes DEF DispatchIInv
<1>1. \A c \in actions : /\ f(c) \in Requests
                         /\ f(c).n = c.n /\ f(c).form = c.form /\ f(c).answer = c.answer
                         /\ f(c).mine <=> c.mine /\ c.form # form
                         /\ c.form # form => f(c) = c
    BY <1>0 DEF Requests
<1>2. Forgotten(form) = {f(c) : c \in actions}
    BY DEF Forgotten
<1> HIDE DEF f
<1> QED
    BY <1>1, <1>2 DEF DispatchIInv, Numbered, Distinct, Numbers

\* A form forgets what it waited for; the other does not notice.
LEMMA ForgottenForms ==
    ASSUME DispatchIInv, NEW form \in FormNames
    PROVE  \A other \in FormNames :
               IF other = form /\ form = "tab" THEN WaitsForOne(other, FALSE, Forgotten(form))
               ELSE WaitsForOne(other, forms[other].sending, Forgotten(form))
<1>1. ASSUME NEW c \in actions, c.form = form
      PROVE  \E d \in Forgotten(form) : d = [c EXCEPT !.mine = FALSE]
    BY <1>1 DEF Forgotten
<1>2. ASSUME NEW c \in actions, c.form # form
      PROVE  c \in Forgotten(form)
    BY <1>2 DEF Forgotten
<1>3. actions \subseteq Requests
    BY DispatchTypes DEF DispatchIInv
<1>4. ASSUME NEW other \in FormNames, other # form
      PROVE  WaitsForOne(other, forms[other].sending, Forgotten(form))
    BY <1>2, <1>4, ForgottenType DEF DispatchIInv, FormsAreTrue, WaitsForOne, Waited
<1>5. CASE form = "tab"
    <2>1. \A c \in Forgotten(form) : ~Waited(c, form)
        BY <1>5, ForgottenType DEF Waited
    <2>2. WaitsForOne(form, FALSE, Forgotten(form))
        BY <2>1 DEF WaitsForOne
    <2> QED
        BY <1>4, <1>5, <2>2
<1>6. CASE form = "dialog"
    <2>1. \A c \in actions : c.form = form =>
              \E d \in Forgotten(form) : d.form = form
        BY <1>1, <1>3 DEF Requests
    <2>2. (\E c \in Forgotten(form) : Waited(c, form)) <=> \E c \in actions : Waited(c, form)
        BY <1>6, <2>1, ForgottenType DEF Waited
    <2>3. \A c, d \in Forgotten(form) : c.form = form /\ d.form = form => c.n = d.n
        BY <1>6, ForgottenType DEF DispatchIInv, FormsAreTrue, WaitsForOne, Waited
    <2>4. \A c, d \in Forgotten(form) : Waited(c, form) /\ Waited(d, form) => c = d
        BY <2>3, ForgottenType DEF Waited, Distinct
    <2> QED
        BY <1>4, <1>6, <2>2, <2>4 DEF DispatchIInv, FormsAreTrue, WaitsForOne
<1> QED
    BY <1>4, <1>5, <1>6 DEF FormNames

\* addTrafficEntry: the newest first, the oldest lost.
LEMMA LoggedEntries ==
    ASSUME DispatchIInv, NEW n \in 1..MaxDispatches, NEW allowed \in BOOLEAN,
           log.ended + 1 \in 0..MaxDispatches
    PROVE  LET l == Logged(n, allowed) IN
           /\ l \in Logs /\ l.sent = log.sent /\ l.ended = log.ended + 1
           /\ Len(l.entries) = Least(MaxLog, l.ended)
           /\ \A i \in DOMAIN l.entries :
                  \/ i = 1 /\ l.entries[i] = [n |-> n, allowed |-> allowed]
                  \/ i - 1 \in DOMAIN log.entries /\ l.entries[i] = log.entries[i - 1]
<1> DEFINE e == [n |-> n, allowed |-> allowed]
           es == log.entries
           k == Least(MaxLog, Len(es) + 1)
           all == <<e>> \o es
           new == SubSeq(all, 1, k)
<1>1. log \in Logs /\ es \in Seq(Entries) /\ Len(es) \in Nat /\ e \in Entries
      /\ DOMAIN es = 1..Len(es)
    BY DispatchTypes, LenProperties DEF DispatchIInv, Logs, Entries
<1>2. Len(es) = Least(MaxLog, log.ended) /\ log.ended \in Nat /\ MaxLog \in Nat \ {0}
    BY <1>1, MaxLogAssumption DEF DispatchIInv, LogIsTrue, Logs
<1>3. /\ all \in Seq(Entries) /\ Len(all) = Len(es) + 1
      /\ \A i \in 1..Len(all) : all[i] = IF i = 1 THEN e ELSE es[i - 1]
    <2>1. <<e>> \in Seq(Entries) /\ Len(<<e>>) = 1 /\ <<e>>[1] = e
        BY <1>1
    <2> HIDE DEF e
    <2> QED
        BY <1>1, <2>1, ConcatProperties
<1>4. k \in 1..Len(all) /\ k = Least(MaxLog, log.ended + 1)
    BY <1>1, <1>2, <1>3 DEF Least
<1>5. /\ new \in Seq(Entries) /\ Len(new) = k /\ DOMAIN new = 1..k
      /\ \A i \in 1..k : new[i] = all[i]
    <2> HIDE DEF all, k
    <2>1. /\ new \in Seq(Entries) /\ Len(new) = k
          /\ \A i \in 1..k : new[i] = all[1 + i - 1]
        BY <1>3, <1>4, SubSeqProperties
    <2>2. \A i \in 1..k : new[i] = all[i]
        <3> SUFFICES ASSUME NEW i \in 1..k PROVE new[i] = all[i]
            OBVIOUS
        <3>1. 1 + i - 1 = i
            BY <1>4
        <3> QED
            BY <2>1, <3>1
    <2> HIDE DEF new
    <2> QED
        BY <1>4, <2>1, <2>2, LenProperties
<1>6. Logged(n, allowed) = [log EXCEPT !.ended = log.ended + 1, !.entries = new]
    BY DEF Logged
<1> HIDE DEF new
<1>7. /\ Logged(n, allowed) \in Logs /\ Logged(n, allowed).sent = log.sent
      /\ Logged(n, allowed).ended = log.ended + 1 /\ Logged(n, allowed).entries = new
    BY <1>1, <1>5, <1>6 DEF Logs
<1>8. ASSUME NEW i \in 1..k
      PROVE  \/ i = 1 /\ new[i] = e
             \/ i - 1 \in 1..Len(es) /\ new[i] = es[i - 1]
    <2> HIDE DEF e, es, all, k
    <2>1. i \in 1..Len(all)
        BY <1>1, <1>3, <1>4
    <2> QED
        BY <1>1, <1>3, <1>5, <2>1
<1> HIDE DEF k, all
<1> QED
    BY <1>1, <1>4, <1>5, <1>7, <1>8

-----------------------------------------------------------------------------

\* The forms that are not open yet satisfy the invariant.
THEOREM DispatchStarts == DispatchInit => DispatchIInv
<1> SUFFICES ASSUME DispatchInit PROVE DispatchIInv
    OBVIOUS
<1>1. 0 \in 0..MaxDispatches /\ MaxLog \in Nat \ {0} /\ 0 \in 0..2
    BY MaxDispatchesAssumption, MaxLogAssumption
<1>2. DispatchTypeOK
    BY <1>1, EmptyFormType, EmptySeq, DispatchTypes
    DEF DispatchInit, FormNames, Hints, Logs
<1>3. Numbers(actions) = {} /\ Cardinality(Numbers(actions)) = 0
    BY FS_EmptySet DEF DispatchInit, Numbers
<1>4. Numbered /\ LogIsTrue
    BY <1>1, <1>3 DEF DispatchInit, Numbered, Distinct, LogIsTrue, Least
<1>5. FormsAreTrue
    BY EmptyFormType DEF DispatchInit, FormsAreTrue, WaitsForOne, FormNames
<1> QED
    BY <1>2, <1>4, <1>5 DEF DispatchIInv

\* No click, key or answer leaves it.
THEOREM DispatchKeeps == DispatchIInv /\ [DispatchNext]_dispatchVars => DispatchIInv'
<1> SUFFICES ASSUME DispatchIInv, [DispatchNext]_dispatchVars PROVE DispatchIInv'
    OBVIOUS
<1>0. /\ forms \in [FormNames -> FormStates] /\ hints \in Hints
      /\ actions \subseteq Requests /\ accepted \subseteq 1..MaxDispatches /\ log \in Logs
      /\ "tab" \in FormNames /\ "dialog" \in FormNames
      /\ Numbered /\ LogIsTrue /\ FormsAreTrue
    BY DispatchTypes DEF DispatchIInv, FormNames
<1>a. ASSUME forms' \in [FormNames -> FormStates], hints' \in Hints,
             actions' \subseteq Requests, accepted' \subseteq 1..MaxDispatches, log' \in Logs,
             Numbered', LogIsTrue', FormsAreTrue'
      PROVE  DispatchIInv'
    BY <1>a DEF DispatchIInv, DispatchTypeOK, FormNames, FormStates, Hints, Requests, Logs, Entries
<1>b. forms["tab"] \in FormStates /\ forms["dialog"] \in FormStates
    BY <1>0
<1>1. CASE OpenTab
    <2> DEFINE g == [EmptyForm EXCEPT !.open = TRUE, !.text["cap"] = "good"]
    <2>1. g \in FormStates /\ ~g.sending /\ g.open
        BY EmptyFormType DEF FormStates, Texts, FormFields
    <2>2. ~forms["tab"].sending /\ forms["tab"].sending \in BOOLEAN /\ g.sending \in BOOLEAN
        BY <1>0, <1>1, <1>b, <2>1 DEF OpenTab, FormsAreTrue, FormStates
    <2>3. forms' = [forms EXCEPT !["tab"] = g] /\ UNCHANGED <<hints, actions, accepted, log>>
        BY <1>1 DEF OpenTab
    <2> HIDE DEF g
    <2> QED
        BY <1>0, <2>1, <2>2, <2>3, KeepsForms
<1>2. CASE LeaveTab
    <2>1. /\ forms' = [forms EXCEPT !["tab"] = EmptyForm] /\ actions' = Forgotten("tab")
          /\ UNCHANGED <<hints, accepted, log>>
        BY <1>2 DEF LeaveTab
    <2>2. Numbered' /\ LogIsTrue'
        BY <1>0, <2>1, ForgottenType, KeepsLog DEF Numbered
    <2>3. forms' \in [FormNames -> FormStates] /\ ~forms'["tab"].sending
          /\ forms'["dialog"] = forms["dialog"]
        BY <1>0, <2>1, EmptyFormType
    <2>4. FormsAreTrue'
        BY <1>0, <2>1, <2>3, ForgottenForms DEF FormsAreTrue, FormNames, WaitsForOne
    <2> QED
        BY <1>0, <1>a, <2>1, <2>2, <2>3, <2>4, ForgottenType
<1>3. CASE OpenDialog
    <2> DEFINE g == [EmptyForm EXCEPT !.open = TRUE, !.sending = forms["dialog"].sending]
    <2>1. g \in FormStates /\ g.sending = forms["dialog"].sending
        BY <1>b, EmptyFormType DEF FormStates
    <2>2. /\ forms' = [forms EXCEPT !["dialog"] = g] /\ actions' = Forgotten("dialog")
          /\ UNCHANGED <<accepted, log>>
        BY <1>3 DEF OpenDialog
    <2>3. hints' \in Hints
        <3>1. 0 \in 0..2
            OBVIOUS
        <3> QED
            BY <1>0, <1>3, <3>1 DEF OpenDialog, Hints
    <2> HIDE DEF g
    <2>4. Numbered' /\ LogIsTrue'
        BY <1>0, <2>2, ForgottenType, KeepsLog DEF Numbered
    <2>5. /\ forms' \in [FormNames -> FormStates]
          /\ forms'["dialog"].sending = forms["dialog"].sending
          /\ forms'["tab"] = forms["tab"]
        BY <1>0, <2>1, <2>2
    <2>6. FormsAreTrue'
        BY <1>0, <2>2, <2>5, ForgottenForms DEF FormsAreTrue, FormNames
    <2> QED
        BY <1>0, <1>a, <2>2, <2>3, <2>4, <2>5, <2>6, ForgottenType
<1>4. ASSUME NEW reset \in BOOLEAN, CloseDialog(reset) PROVE DispatchIInv'
    <2> DEFINE g == [forms["dialog"] EXCEPT !.open = FALSE,
                                            !.result = IF reset THEN "none" ELSE @]
    <2>1. g \in FormStates /\ g.sending = forms["dialog"].sending
        BY <1>b DEF FormStates
    <2>2. forms' = [forms EXCEPT !["dialog"] = g] /\ UNCHANGED <<hints, actions, accepted, log>>
        BY <1>0, <1>4, <1>b DEF CloseDialog, FormStates
    <2> HIDE DEF g
    <2> QED
        BY <1>0, <2>1, <2>2, KeepsForms
<1>c. ASSUME hints' \in Hints, UNCHANGED <<forms, actions, accepted, log>> PROVE DispatchIInv'
    BY <1>0, <1>a, <1>c DEF Numbered, LogIsTrue, FormsAreTrue
<1>5. CASE HintsChange
    <2>1. hints' \in Hints
        BY <1>5 DEF HintsChange, Hints
    <2> QED
        BY <1>5, <1>c, <2>1 DEF HintsChange
<1>6. ASSUME NEW f \in FormFields, NEW text \in Texts, TypeTab(f, text) PROVE DispatchIInv'
    <2> DEFINE g == [forms["tab"] EXCEPT !.text[f] = text,
                        !.errors = IF text = "" \/ Valid(text) THEN @ \ {f} ELSE @ \cup {f}]
    <2>1. g \in FormStates /\ g.sending = forms["tab"].sending /\ g.open = forms["tab"].open
        BY <1>b DEF FormStates
    <2>2. forms' = [forms EXCEPT !["tab"] = g] /\ UNCHANGED <<hints, actions, accepted, log>>
        BY <1>0, <1>6, <1>b DEF TypeTab, FormStates
    <2> HIDE DEF g
    <2> QED
        BY <1>0, <2>1, <2>2, KeepsForms
<1>7. CASE PickChip
    <2> DEFINE g == [forms["tab"] EXCEPT !.text["cap"] = "good", !.errors = @ \ {"cap"}]
    <2>1. g \in FormStates /\ g.sending = forms["tab"].sending /\ g.open = forms["tab"].open
        BY <1>b DEF FormStates, FormFields, Texts
    <2>2. forms' = [forms EXCEPT !["tab"] = g] /\ UNCHANGED <<hints, actions, accepted, log>>
        BY <1>0, <1>7, <1>b DEF PickChip, FormStates
    <2> HIDE DEF g
    <2> QED
        BY <1>0, <2>1, <2>2, KeepsForms
<1>d. ASSUME NEW text PROVE Proposed(text) \in Hints
    <2>1. 0 \in 0..2 /\ (Matches(text) > 0) \in BOOLEAN
        OBVIOUS
    <2> QED
        BY <1>0, <2>1 DEF Proposed, Hints
<1>8. ASSUME NEW f \in FormFields, NEW text \in Texts, TypeDialog(f, text) PROVE DispatchIInv'
    <2> DEFINE g == [forms["dialog"] EXCEPT !.text[f] = text, !.errors = @ \ {f}]
    <2>1. g \in FormStates /\ g.sending = forms["dialog"].sending
        BY <1>b DEF FormStates
    <2>2. forms' = [forms EXCEPT !["dialog"] = g] /\ UNCHANGED <<actions, accepted, log>>
        BY <1>0, <1>8, <1>b DEF TypeDialog, FormStates
    <2>3. hints' \in Hints
        BY <1>0, <1>8, <1>d DEF TypeDialog
    <2> HIDE DEF g
    <2> QED
        BY <1>0, <2>1, <2>2, <2>3, KeepsForms
<1>9. ASSUME NEW f \in FormFields, LeaveDialogField(f) PROVE DispatchIInv'
    <2> DEFINE g == [forms["dialog"] EXCEPT !.errors =
                        IF Valid(forms["dialog"].text[f]) THEN @ \ {f} ELSE @ \cup {f}]
    <2>1. g \in FormStates /\ g.sending = forms["dialog"].sending
        BY <1>b DEF FormStates
    <2>2. forms' = [forms EXCEPT !["dialog"] = g] /\ UNCHANGED <<hints, actions, accepted, log>>
        BY <1>0, <1>9, <1>b DEF LeaveDialogField, FormStates
    <2> HIDE DEF g
    <2> QED
        BY <1>0, <2>1, <2>2, KeepsForms
<1>10. ASSUME NEW down \in BOOLEAN, MoveHint(down) PROVE DispatchIInv'
    <2>1. Matches(forms["dialog"].text["cap"]) \in 0..2 /\ hints.at \in 0..2
        BY <1>0 DEF Matches, Hints
    <2> DEFINE m == Matches(forms["dialog"].text["cap"])
               at == IF down THEN IF hints.at < m THEN hints.at + 1 ELSE hints.at
                     ELSE IF hints.at > 0 THEN hints.at - 1 ELSE 0
    <2>2. hints' = [hints EXCEPT !.at = at] /\ UNCHANGED <<forms, actions, accepted, log>>
        BY <1>10 DEF MoveHint
    <2>3. at \in 0..2
        <3> HIDE DEF m
        <3> QED
            BY <2>1 DEF m
    <2> HIDE DEF at
    <2>4. hints' \in Hints
        BY <1>0, <2>2, <2>3 DEF Hints
    <2> QED
        BY <1>c, <2>2, <2>4
<1>11. ASSUME NEW i \in 1..2, PickHint(i) PROVE DispatchIInv'
    <2> DEFINE g == [forms["dialog"] EXCEPT !.text["cap"] = "good", !.errors = @ \ {"cap"}]
    <2>1. g \in FormStates /\ g.sending = forms["dialog"].sending
        BY <1>b DEF FormStates, FormFields, Texts
    <2>2. forms' = [forms EXCEPT !["dialog"] = g] /\ UNCHANGED <<actions, accepted, log>>
        BY <1>0, <1>11, <1>b DEF PickHint, FormStates
    <2>3. hints' \in Hints
        <3>1. [hints EXCEPT !.shown = FALSE, !.at = 0] \in Hints
            <4>1. 0 \in 0..2
                OBVIOUS
            <4> QED
                BY <1>0, <4>1 DEF Hints
        <3> QED
            BY <1>11, <1>d, <3>1 DEF PickHint
    <2> HIDE DEF g
    <2> QED
        BY <1>0, <2>1, <2>2, <2>3, KeepsForms
<1>12. ASSUME NEW form \in FormNames, Submit(form) PROVE DispatchIInv'
    <2>0. forms[form] \in FormStates /\ Invalid(form) \in SUBSET FormFields
          /\ ~forms[form].sending /\ forms[form].open
        BY <1>0, <1>12 DEF Invalid, Submit, MaySubmit
    <2>1. CASE Invalid(form) # {}
        <3> DEFINE g == [forms[form] EXCEPT !.errors = Invalid(form)]
        <3>1. g \in FormStates /\ g.sending = forms[form].sending /\ g.open = forms[form].open
            BY <2>0 DEF FormStates
        <3>2. forms' = [forms EXCEPT ![form] = g] /\ UNCHANGED <<hints, actions, accepted, log>>
            BY <1>12, <2>1 DEF Submit
        <3> HIDE DEF g
        <3> QED
            BY <1>0, <3>1, <3>2, KeepsForms
    <2>2. CASE Invalid(form) = {}
        <3> DEFINE g == [forms[form] EXCEPT !.errors = {}, !.sending = TRUE, !.result = "none"]
                   call == [n |-> log.sent + 1, form |-> form, text |-> forms[form].text,
                            mine |-> TRUE, answer |-> "pending"]
        <3>1. g \in FormStates /\ g.sending /\ g.open = forms[form].open
            BY <2>0 DEF FormStates
        <3>2. /\ forms' = [forms EXCEPT ![form] = g] /\ UNCHANGED <<hints, accepted>>
              /\ log' = [log EXCEPT !.sent = log.sent + 1]
              /\ actions' = actions \cup {call} /\ log.sent < MaxDispatches
            BY <1>12, <2>2 DEF Submit
        <3>3. log.sent + 1 \in 1..MaxDispatches /\ log.sent \in Nat
            BY <1>0, <3>2, MaxDispatchesAssumption DEF Logs
        <3>4. call \in Requests /\ call.n = log.sent + 1 /\ call.form = form /\ call.mine
              /\ call.answer = "pending"
            BY <2>0, <3>3 DEF Requests, FormStates
        <3> HIDE DEF g, call
        <3>5. log' \in Logs /\ log'.sent = log.sent + 1 /\ log'.ended = log.ended
              /\ log'.entries = log.entries
            BY <1>0, <3>2, <3>3 DEF Logs
        <3>6. /\ Numbers(actions') = Numbers(actions) \cup {log.sent + 1}
              /\ log.sent + 1 \notin Numbers(actions)
              /\ \A n \in Numbers(actions) : n \in Nat
            BY <1>0, <3>2, <3>3, <3>4 DEF Numbers, Numbered, Requests
        <3>7. Numbered'
            <4>1. Distinct(actions')
                BY <1>0, <3>2, <3>3, <3>4, <3>6 DEF Numbered, Distinct, Numbers
            <4>2. \A n \in Numbers(actions') : n <= log'.sent
                BY <1>0, <3>3, <3>5, <3>6 DEF Numbered
            <4> QED
                BY <1>0, <3>2, <3>4, <4>1, <4>2 DEF Numbered
        <3>8. LogIsTrue'
            <4>1. IsFiniteSet(Numbers(actions)) /\ Cardinality(Numbers(actions)) \in Nat
                BY <1>0, NumbersCount DEF Numbered
            <4>2. Cardinality(Numbers(actions')) = Cardinality(Numbers(actions)) + 1
                BY <3>6, <4>1, FS_AddElement
            <4>3. log'.ended = log'.sent - Cardinality(Numbers(actions'))
                BY <1>0, <3>3, <3>5, <4>1, <4>2 DEF LogIsTrue
            <4>4. \A i \in DOMAIN log.entries : log.entries[i].n \in Nat
                <5>1. log.entries \in Seq(Entries)
                    BY <1>0 DEF Logs
                <5>2. \A i \in DOMAIN log.entries : log.entries[i] \in Entries
                    BY <5>1, LenProperties, ElementOfSeq
                <5> QED
                    BY <5>2 DEF Entries
            <4>5. \A i \in DOMAIN log.entries :
                      log.entries[i].n \notin Numbers(actions') /\ log.entries[i].n <= log'.sent
                BY <1>0, <3>3, <3>5, <3>6, <4>4 DEF LogIsTrue
            <4> QED
                <5>1. Len(log'.entries) = Least(MaxLog, log'.ended)
                    BY <1>0, <3>5 DEF LogIsTrue
                <5>2. \A i \in DOMAIN log'.entries :
                          log'.entries[i].allowed => log'.entries[i].n \in accepted'
                    BY <1>0, <3>2, <3>5 DEF LogIsTrue
                <5>3. \A i, j \in DOMAIN log'.entries :
                          log'.entries[i].n = log'.entries[j].n => i = j
                    BY <1>0, <3>5 DEF LogIsTrue
                <5> QED
                    BY <3>5, <4>3, <4>5, <5>1, <5>2, <5>3 DEF LogIsTrue
        <3>9. forms' \in [FormNames -> FormStates]
            BY <1>0, <3>1, <3>2
        <3>10. FormsAreTrue'
            <4>1. forms'[form].sending /\ forms'[form].open
                BY <1>0, <2>0, <3>1, <3>2
            <4>2. ASSUME NEW other \in FormNames, other # form
                  PROVE  WaitsForOne(other, forms'[other].sending, actions')
                BY <1>0, <3>2, <3>4, <4>2 DEF FormsAreTrue, WaitsForOne, Waited
            <4>3. WaitsForOne(form, forms'[form].sending, actions')
                BY <1>0, <2>0, <3>2, <3>4, <4>1 DEF FormsAreTrue, WaitsForOne, Waited
            <4>4. forms'["tab"].sending => forms'["tab"].open
                BY <1>0, <3>2, <4>1 DEF FormsAreTrue
            <4> QED
                BY <4>2, <4>3, <4>4 DEF FormsAreTrue
        <3>11. actions' \subseteq Requests
            BY <1>0, <3>2, <3>4
        <3> QED
            BY <1>0, <1>a, <3>2, <3>5, <3>7, <3>8, <3>9, <3>10, <3>11
    <2> QED
        BY <2>1, <2>2
<1>13. ASSUME NEW c \in actions, ServeAction(c) PROVE DispatchIInv'
    <2>1. PICK answer \in {"accepted", "refused"} :
              /\ actions' = (actions \ {c}) \cup {[c EXCEPT !.answer = answer]}
              /\ accepted' = IF answer = "accepted" THEN accepted \cup {c.n} ELSE accepted
        BY <1>13 DEF ServeAction
    <2> DEFINE d == [c EXCEPT !.answer = answer]
    <2>2. c \in Requests /\ d \in Requests /\ d.n = c.n /\ d.form = c.form /\ d.mine = c.mine
          /\ d.answer = answer
        BY <1>0 DEF Requests
    <2>3. actions' = (actions \ {c}) \cup {d} /\ UNCHANGED <<forms, hints, log>>
        BY <1>13, <2>1 DEF ServeAction
    <2> HIDE DEF d
    <2>4. Distinct(actions') /\ Numbers(actions') = Numbers(actions)
        BY <1>0, <2>2, <2>3 DEF Numbered, Distinct, Numbers
    <2>5. accepted' \subseteq 1..MaxDispatches /\ accepted \subseteq accepted'
        BY <1>0, <2>1, <2>2 DEF Requests
    <2>6. \A e \in actions' : e.answer = "accepted" => e.n \in accepted'
        BY <1>0, <2>1, <2>2, <2>3 DEF Numbered
    <2>7. Numbered' /\ LogIsTrue'
        BY <2>3, <2>4, <2>5, <2>6, KeepsLog
    <2>8. ASSUME NEW form \in FormNames
          PROVE  WaitsForOne(form, forms'[form].sending, actions')
        <3>1. WaitsForOne(form, forms[form].sending, actions)
            BY <1>0 DEF FormsAreTrue
        <3>2. Waited(d, form) <=> Waited(c, form)
            BY <2>2 DEF Waited
        <3>3. forms[form].sending <=> \E e \in actions' : Waited(e, form)
            BY <2>3, <3>1, <3>2 DEF WaitsForOne
        <3>4. \A e1, e2 \in actions' : Waited(e1, form) /\ Waited(e2, form) => e1 = e2
            BY <2>3, <3>1, <3>2 DEF WaitsForOne
        <3> QED
            BY <2>3, <3>3, <3>4 DEF WaitsForOne
    <2>9. FormsAreTrue'
        BY <1>0, <2>3, <2>8 DEF FormsAreTrue
    <2>10. actions' \subseteq Requests
        BY <1>0, <2>2, <2>3
    <2> QED
        BY <1>0, <1>a, <2>3, <2>5, <2>7, <2>9, <2>10
<1>14. ASSUME NEW c \in actions, NEW arrives \in BOOLEAN, Answered(c, arrives)
       PROVE  DispatchIInv'
    <2> DEFINE ok == arrives /\ c.answer = "accepted"
               f == c.form
               g == [forms[f] EXCEPT !.sending = FALSE, !.own = c.mine,
                        !.result = IF ok THEN "ok" ELSE "error",
                        !.text["msg"] = IF ok /\ f = "tab" THEN "" ELSE @]
               gone == f = "tab" /\ ~c.mine
    <2>0. c \in Requests /\ f \in FormNames /\ ok \in BOOLEAN /\ forms[f] \in FormStates
          /\ c.n \in 1..MaxDispatches /\ (ok => c.n \in accepted) /\ c.mine \in BOOLEAN
        BY <1>0 DEF Requests, Numbered
    <2>1. /\ actions' = actions \ {c} /\ log' = Logged(c.n, ok)
          /\ UNCHANGED <<hints, accepted>>
        BY <1>14 DEF Answered
    <2>2. forms' = IF gone THEN forms ELSE [forms EXCEPT ![f] = g]
        BY <1>0, <1>14, <2>0 DEF Answered, FormStates
    <2>3. g \in FormStates /\ ~g.sending /\ g.open = forms[f].open
        <3>1. (IF ok THEN "ok" ELSE "error") \in {"none", "ok", "error"}
            OBVIOUS
        <3>2. (IF ok /\ f = "tab" THEN "" ELSE forms[f].text["msg"]) \in Texts
            BY <2>0 DEF FormStates, FormFields, Texts
        <3> HIDE DEF ok, f
        <3> QED
            BY <2>0, <3>1, <3>2 DEF FormStates
    <2> HIDE DEF g, ok
    <2>4. forms' \in [FormNames -> FormStates]
        BY <1>0, <2>0, <2>2, <2>3
    <2>5. /\ Numbers(actions') = Numbers(actions) \ {c.n} /\ c.n \in Numbers(actions)
          /\ Distinct(actions')
        BY <1>0, <2>1 DEF Numbered, Distinct, Numbers
    <2>6. /\ Cardinality(Numbers(actions')) = Cardinality(Numbers(actions)) - 1
          /\ Cardinality(Numbers(actions)) \in Nat /\ Cardinality(Numbers(actions')) \in Nat
        <3>1. IsFiniteSet(Numbers(actions)) /\ Cardinality(Numbers(actions)) \in Nat
            BY <1>0, NumbersCount DEF Numbered
        <3>2. actions' \in SUBSET Requests
            BY <1>0, <2>1
        <3>3. Cardinality(Numbers(actions')) \in Nat
            BY <2>5, <3>2, NumbersCount
        <3>4. Cardinality(Numbers(actions) \ {c.n}) = Cardinality(Numbers(actions)) - 1
            BY <2>5, <3>1, FS_RemoveElement
        <3> QED
            BY <2>5, <3>1, <3>3, <3>4
    <2>7. log.ended + 1 \in 0..MaxDispatches /\ log.ended \in Nat /\ log.sent \in Nat
          /\ log.ended + 1 = log.sent - Cardinality(Numbers(actions'))
        BY <1>0, <2>6, MaxDispatchesAssumption DEF LogIsTrue, Logs
    <2> DEFINE l == Logged(c.n, ok)
    <2>8. /\ l \in Logs /\ l.sent = log.sent /\ l.ended = log.ended + 1
          /\ Len(l.entries) = Least(MaxLog, l.ended)
          /\ \A i \in DOMAIN l.entries :
                 \/ i = 1 /\ l.entries[i] = [n |-> c.n, allowed |-> ok]
                 \/ i - 1 \in DOMAIN log.entries /\ l.entries[i] = log.entries[i - 1]
        BY <2>0, <2>7, LoggedEntries
    <2>9. log' = l
        BY <2>1
    <2>10. DOMAIN l.entries \subseteq Nat /\ [n |-> c.n, allowed |-> ok].n = c.n
           /\ [n |-> c.n, allowed |-> ok].allowed = ok
        BY <2>8, LenProperties DEF Logs
    <2> HIDE DEF l
    <2>11. Numbered'
        BY <1>0, <2>1, <2>5, <2>8, <2>9 DEF Numbered
    <2>12. \A i \in DOMAIN l.entries :
               /\ l.entries[i].n \notin Numbers(actions') /\ l.entries[i].n <= log.sent
               /\ l.entries[i].allowed => l.entries[i].n \in accepted
        <3> SUFFICES ASSUME NEW i \in DOMAIN l.entries
                     PROVE  /\ l.entries[i].n \notin Numbers(actions')
                            /\ l.entries[i].n <= log.sent
                            /\ l.entries[i].allowed => l.entries[i].n \in accepted
            OBVIOUS
        <3>1. CASE i = 1 /\ l.entries[i] = [n |-> c.n, allowed |-> ok]
            BY <1>0, <2>0, <2>5, <2>10, <3>1 DEF Numbered
        <3>2. CASE i - 1 \in DOMAIN log.entries /\ l.entries[i] = log.entries[i - 1]
            BY <1>0, <2>5, <3>2 DEF LogIsTrue
        <3> QED
            BY <2>8, <3>1, <3>2
    <2>13. \A i, j \in DOMAIN l.entries : l.entries[i].n = l.entries[j].n => i = j
        <3> SUFFICES ASSUME NEW i \in DOMAIN l.entries, NEW j \in DOMAIN l.entries,
                            l.entries[i].n = l.entries[j].n
                     PROVE  i = j
            OBVIOUS
        <3>1. i \in Nat /\ j \in Nat
            BY <2>10
        <3>2. \A k \in DOMAIN log.entries : log.entries[k].n # c.n
            BY <1>0, <2>5 DEF LogIsTrue
        <3>3. \A k \in DOMAIN l.entries :
                  \/ k = 1 /\ l.entries[k].n = c.n
                  \/ k - 1 \in DOMAIN log.entries /\ l.entries[k] = log.entries[k - 1]
            <4> TAKE k \in DOMAIN l.entries
            <4>1. CASE k = 1 /\ l.entries[k] = [n |-> c.n, allowed |-> ok]
                BY <2>10, <4>1
            <4> QED
                BY <2>8, <4>1
        <3>4. CASE i = 1 \/ j = 1
            <4>1. 0 \notin DOMAIN log.entries
                BY <1>0, LenProperties DEF Logs
            <4> QED
                BY <3>1, <3>2, <3>3, <3>4, <4>1
        <3>5. CASE i # 1 /\ j # 1
            <4>1. i - 1 = j - 1
                BY <1>0, <3>3, <3>5 DEF LogIsTrue
            <4> QED
                BY <3>1, <4>1
        <3> QED
            BY <3>4, <3>5
    <2>14. LogIsTrue'
        BY <2>1, <2>7, <2>8, <2>9, <2>12, <2>13 DEF LogIsTrue
    <2>15. ASSUME NEW form \in FormNames
           PROVE  WaitsForOne(form, forms'[form].sending, actions')
        <3>1. WaitsForOne(form, forms[form].sending, actions)
            BY <1>0 DEF FormsAreTrue
        <3>2. CASE form = f /\ ~gone
            <4>1. Waited(c, form) /\ ~forms'[form].sending
                BY <1>0, <2>2, <2>3, <3>2 DEF Waited
            <4> QED
                BY <2>1, <3>1, <4>1 DEF WaitsForOne
        <3>3. CASE ~(form = f /\ ~gone)
            <4>1. ~Waited(c, form) /\ forms'[form] = forms[form]
                BY <1>0, <2>2, <3>3 DEF Waited
            <4> QED
                BY <2>1, <3>1, <4>1 DEF WaitsForOne
        <3> QED
            BY <3>2, <3>3
    <2>16. forms'["tab"].sending => forms'["tab"].open
        BY <1>0, <2>2, <2>3 DEF FormsAreTrue
    <2>17. FormsAreTrue'
        BY <2>15, <2>16 DEF FormsAreTrue
    <2>18. actions' \subseteq Requests
        BY <1>0, <2>1
    <2> QED
        BY <1>0, <1>a, <2>1, <2>4, <2>8, <2>9, <2>11, <2>14, <2>17, <2>18
<1>15. CASE HideResult
    <2> DEFINE g == [forms["tab"] EXCEPT !.result = "none"]
    <2>1. g \in FormStates /\ g.sending = forms["tab"].sending /\ g.open = forms["tab"].open
        BY <1>b DEF FormStates
    <2>2. forms' = [forms EXCEPT !["tab"] = g] /\ UNCHANGED <<hints, actions, accepted, log>>
        BY <1>15 DEF HideResult
    <2> HIDE DEF g
    <2> QED
        BY <1>0, <2>1, <2>2, KeepsForms
<1>16. CASE UNCHANGED dispatchVars
    BY <1>0, <1>16, <1>c DEF dispatchVars
<1> QED
    BY <1>1, <1>2, <1>3, <1>4, <1>5, <1>6, <1>7, <1>8, <1>9, <1>10, <1>11, <1>12, <1>13, <1>14,
       <1>15, <1>16 DEF DispatchNext, FormNames

\* The invariant holds in every reachable state, for any number of dispatches and
\* any length of the log.
THEOREM DispatchInvariance == DispatchSpec => []DispatchIInv
BY DispatchStarts, DispatchKeeps, PTL DEF DispatchSpec

\* Every dispatch that has ended, and no other, was logged once; the log has the
\* last of them.
THEOREM LogsOnce == DispatchSpec => []LoggedOnce
<1>1. DispatchIInv => LoggedOnce
    <2> SUFFICES ASSUME DispatchIInv PROVE LoggedOnce
        OBVIOUS
    <2> DEFINE logged == {log.entries[i].n : i \in DOMAIN log.entries}
               f == [i \in DOMAIN log.entries |-> log.entries[i].n]
    <2>1. actions \in SUBSET Requests /\ Distinct(actions) /\ LogIsTrue
          /\ log.entries \in Seq(Entries)
        BY DispatchTypes DEF DispatchIInv, Numbered, Logs
    <2>2. Cardinality(Numbers(actions)) = Cardinality(actions)
        BY <2>1, NumbersCount
    <2>3. Len(log.entries) \in Nat /\ DOMAIN log.entries = 1..Len(log.entries)
        BY <2>1, LenProperties
    <2>4. f \in Surjection(DOMAIN log.entries, logged) /\ f \in Injection(DOMAIN log.entries, logged)
        BY <2>1 DEF LogIsTrue, Surjection, Injection, IsInjective
    <2>5. IsFiniteSet(1..Len(log.entries)) /\ Cardinality(1..Len(log.entries)) = Len(log.entries)
        <3>1. 1 \in Int /\ Len(log.entries) \in Int
            BY <2>3
        <3> QED
            BY <2>3, <3>1, FS_Interval
    <2>6. Cardinality(logged) = Len(log.entries)
        <3> HIDE DEF f, logged
        <3> QED
            BY <2>3, <2>4, <2>5, FS_Surjection
    <2> QED
        BY <2>1, <2>2, <2>6 DEF LoggedOnce, LogIsTrue, Numbers
<1> QED
    BY <1>1, DispatchInvariance, PTL

\* Neither form sends a second task while it waits for the first.
THEOREM SendsOneAtATime == DispatchSpec => []OneAtATime
<1>1. DispatchIInv => OneAtATime
    <2> SUFFICES ASSUME DispatchIInv PROVE OneAtATime
        OBVIOUS
    <2> DEFINE own == {c \in actions : c.form = "dialog"}
    <2>1. /\ WaitsForOne("tab", forms["tab"].sending, actions)
          /\ WaitsForOne("dialog", forms["dialog"].sending, actions)
        BY DEF DispatchIInv, FormsAreTrue, FormNames
    <2>2. Cardinality(own) <= 1
        <3>1. CASE own = {}
            BY <3>1, FS_EmptySet
        <3>2. CASE own # {}
            <4>1. PICK c \in own : TRUE
                BY <3>2
            <4>2. own = {c}
                BY <2>1, <4>1 DEF WaitsForOne, Waited
            <4> QED
                BY <4>2, FS_Singleton
        <3> QED
            BY <3>1, <3>2
    <2> QED
        BY <2>1, <2>2 DEF OneAtATime, WaitsForOne, Waited
<1> QED
    BY <1>1, DispatchInvariance, PTL

-----------------------------------------------------------------------------

\* What happens where the work is done is, for each part, a behavior of that part.
THEOREM WorkIsItsParts == Spec => TableSpec /\ SpawnSpec /\ DetailSpec /\ DispatchSpec
<1>1. Init => TableInit /\ SpawnInit /\ DetailInit /\ DispatchInit
    BY DEF Init
<1>2. [Next]_vars => /\ [TableNext]_tableVars /\ [SpawnNext]_spawnVars
                     /\ [DetailNext]_detailVars /\ [DispatchNext]_dispatchVars
    BY DEF Next, vars, DetailStep, DispatchStep
<1> QED
    BY <1>1, <1>2, PTL DEF Spec, TableSpec, SpawnSpec, DetailSpec, DispatchSpec

\* So what each part keeps stays of the kinds it declares.
THEOREM WorkTypes == Spec => []WorkTypeOK
<1>1. TableIInv /\ SpawnIInv /\ DetailIInv /\ DispatchIInv => WorkTypeOK
    BY DEF TableIInv, SpawnIInv, DetailIInv, DispatchIInv, WorkTypeOK
<1> QED
    BY <1>1, WorkIsItsParts, TableInvariance, SpawnInvariance, DetailInvariance,
       DispatchInvariance, PTL

\* And what each part promises holds where they are put together: for the tables,
\* the wizard, the page of an agent and the two forms that dispatch.
THEOREM WorkKeepsPromises ==
    Spec => []( /\ ViewIsSound /\ SpawnsAreValid /\ SpawningIsTrue
                /\ WaitsAreTrue /\ LiveIsConnected /\ LoggedOnce /\ OneAtATime)
BY WorkIsItsParts, SoundView, ValidSpawns, TrueSpawning, TrueWaits, TrueLive, LogsOnce,
   SendsOneAtATime, PTL

=============================================================================
