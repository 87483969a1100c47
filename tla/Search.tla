------------------------------- MODULE Search -------------------------------
(***************************************************************************)
(* The product listing: a client turns its pages while products change.    *)
(* A page is two statements, a count and a window of the ordered matches.  *)
(* The in-memory store that the tests run on gives the reference answer.   *)
(***************************************************************************)
EXTENDS Integers, Sequences, FiniteSets, Functions

CONSTANTS
    Product,        \* ids, numbers so that they are ordered
    MaxViews,       \* largest counter
    DefaultLimit, MaxLimit, \* of a page (50, 100)
    Requested       \* limits that a client may ask for, 0 when none or no number

SearchAssumption ==
    /\ IsFiniteSet(Product) /\ Product \subseteq Int
    /\ MaxViews \in Nat /\ MaxLimit \in Nat /\ Requested \subseteq Nat
    /\ DefaultLimit \in 1..MaxLimit

VARIABLES
    shelf,      \* the products
    query,      \* what the client asks for
    offset,     \* where its next page starts
    total,      \* the count of the page it waits for, or -1
    pages,      \* history: the products on the pages it has got
    calm        \* history: no product has changed since its first page

vars == <<shelf, query, offset, total, pages, calm>>

\* A product's variants have the color asked for or not, and may be drafts.
Row == [status : {"active", "draft"}, views : 0..MaxViews, color : {"no", "draft", "active"}]
Query == [asManager : BOOLEAN, color : BOOLEAN, sort : {"views", "newest"}, ascending : BOOLEAN,
          limit : Requested]

Init ==
    /\ query \in Query
    /\ shelf \in [Product -> {row \in Row : query.color \/ row.color = "no"}]
    /\ offset = 0 /\ total = -1 /\ pages = <<>> /\ calm = TRUE

-----------------------------------------------------------------------------
\* buildProductSearchWhere: public callers see active products, and a color
\* counts when an active variant has it.
Matches(p) ==
    /\ query.asManager \/ shelf[p].status = "active"
    /\ query.color => shelf[p].color = "active"

Where == {p \in Product : Matches(p)}

\* parseSearchPagination.
Limit ==
    IF query.limit = 0 THEN DefaultLimit
    ELSE IF query.limit > MaxLimit THEN MaxLimit ELSE query.limit

\* The newest product has the highest id here.
SortKey(p) == IF query.sort = "views" THEN shelf[p].views ELSE p

\* ORDER BY gone wrong: equal keys come in any order.
BeforeByKey(p, r) ==
    IF query.ascending THEN SortKey(p) <= SortKey(r) ELSE SortKey(p) >= SortKey(r)

\* ORDER BY the key, then by id.
Before(p, r) ==
    IF SortKey(p) = SortKey(r) THEN p < r
    ELSE IF query.ascending THEN SortKey(p) < SortKey(r) ELSE SortKey(p) > SortKey(r)

\* What the database may answer: any sequence that is ordered so.
Orders(S) ==
    {s \in Bijection(1..Cardinality(S), S) : \A i, j \in DOMAIN s : i < j => Before(s[i], s[j])}

Window(s, from, n) == SubSeq(s, from + 1, IF from + n < Len(s) THEN from + n ELSE Len(s))

Count ==
    /\ total = -1
    /\ offset = 0 \/ offset < Cardinality(Where)
    /\ total' = Cardinality(Where)
    /\ calm' = IF offset = 0 THEN TRUE ELSE calm
    /\ UNCHANGED <<shelf, query, offset, pages>>

\* A page gone wrong: the next one starts after a full default page.
FetchDefault ==
    /\ total # -1
    /\ \E s \in Orders(Where) : pages' = pages \o Window(s, offset, Limit)
    /\ offset' = offset + DefaultLimit
    /\ total' = -1
    /\ UNCHANGED <<shelf, query, calm>>

\* The window; the client asks for the next one until it has the total.
Fetch ==
    /\ total # -1
    /\ \E s \in Orders(Where) : pages' = pages \o Window(s, offset, Limit)
    /\ offset' = offset + Limit
    /\ total' = -1
    /\ UNCHANGED <<shelf, query, calm>>

\* Between two pages a view is counted, or staff change a status.
Change ==
    /\ calm /\ offset > 0
    /\ \E p \in Product :
          \/ /\ shelf[p].views < MaxViews
             /\ shelf' = [shelf EXCEPT ![p].views = @ + 1]
          \/ \E status \in {"active", "draft"} \ {shelf[p].status} :
                shelf' = [shelf EXCEPT ![p].status = status]
    /\ calm' = FALSE
    /\ UNCHANGED <<query, offset, total, pages>>

Next == Count \/ Fetch \/ Change

Spec == Init /\ [][Next]_vars

-----------------------------------------------------------------------------
\* The in-memory store: filter, a stable sort with sortProducts' comparison, slice.
Less(p, r) ==
    LET less == IF query.sort = "views" THEN shelf[p].views < shelf[r].views ELSE p < r
        equal == query.sort = "views" /\ shelf[p].views = shelf[r].views
    IN  IF equal THEN p < r ELSE IF query.ascending THEN less ELSE ~less

Sorted(S) ==
    CHOOSE s \in Bijection(1..Cardinality(S), S) :
        \A i, j \in DOMAIN s : i < j => Less(s[i], s[j])

MemoryPage(from) == Window(Sorted({p \in Product : Matches(p)}), from, Limit)

\* Both stores give one and the same page.
StoresAgree == \A from \in 0..Cardinality(Product) :
                  {Window(s, from, Limit) : s \in Orders(Where)} = {MemoryPage(from)}

\* Whoever turns all pages while nothing changes has seen every match, once.
PagesCoverMatches ==
    calm /\ total = -1 /\ offset >= Cardinality(Where) /\ offset > 0 =>
        /\ IsInjective(pages) /\ Range(pages) = Where

-----------------------------------------------------------------------------
(* The inductive invariant of the proofs: while nothing changes, what the client has *)
(* got is the beginning of what the database orders.                                 *)
SearchInv ==
    /\ shelf \in [Product -> Row] /\ query \in Query /\ offset \in Nat
    /\ offset = 0 => pages = <<>>
    /\ calm /\ offset > 0 => \E s \in Orders(Where) : pages = Window(s, 0, offset)

=============================================================================
