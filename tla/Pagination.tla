---------------------------- MODULE Pagination ----------------------------
(***************************************************************************)
(* The list endpoints: the numbers of a query string become a Pagination   *)
(* (internal/handlers/helpers.go), the repository normalises it, counts    *)
(* the rows and fetches one page in two separate statements                *)
(* (internal/repositories), and the reply carries metadata computed from   *)
(* the request again.  A client walks through the pages by that metadata   *)
(* while other requests add rows to the listing and take rows out of it.   *)
(*                                                                         *)
(* The repositories order by created_at and nothing else, and created_at   *)
(* is not unique: rows with the same one come in an order that may differ  *)
(* from statement to statement.  Such a row may be on two pages or on none *)
(* with nobody writing; what a walk promises is about the others.  The     *)
(* statements are those of AccessKeyRepository.List.                       *)
(***************************************************************************)
EXTENDS Integers, FiniteSets, Functions

CONSTANTS
    Rows,         \* rows that may be in the table
    Created,      \* their created_at
    Inputs,       \* values of page and page_size in query strings
    Text,         \* an absent value or one that is no number
    DefaultSize,  \* the page size of a request without one (20)
    Cap,          \* the largest page fetched (200)
    MaxInt        \* the largest int, 2^63 - 1

ASSUME TableAssumption == IsFiniteSet(Rows) /\ Created \in [Rows -> Nat]

ASSUME InputAssumption == Inputs \ {Text} \subseteq Int

ASSUME SizeAssumption ==
    /\ DefaultSize \in Nat \ {0} /\ Cap \in Nat /\ MaxInt \in Nat
    /\ DefaultSize <= Cap

\* No table comes close to the largest int.
ASSUME RowsAssumption == Cardinality(Rows) + Cap <= MaxInt

VARIABLES
    rows,      \* the rows the query's filter selects
    query,     \* page and page size of the client's current request
    pc,        \* the statement or reply that comes next
    total,     \* the result of the COUNT
    reply,     \* the rows of the page returned
    seen,      \* rows of the pages before
    old,       \* history: rows there since the walk began, if on page one
    inserted,  \* history: a row was added during the walk
    removed,   \* history: a row went away during the walk
    raced      \* history: either happened between COUNT and SELECT

vars == <<rows, query, pc, total, reply, seen, old, inserted, removed, raced>>

Ints == (-MaxInt - 1)..MaxInt

\* What a request and its reply hold is in range of the machine's integers.
TypeOK ==
    /\ rows \subseteq Rows
    /\ query \in [page : Ints, size : Ints]
    /\ pc \in {"done", "count", "find", "read"}
    /\ total \in Nat
    /\ reply \subseteq Rows /\ seen \subseteq Rows /\ old \subseteq Rows
    /\ inserted \in BOOLEAN /\ removed \in BOOLEAN /\ raced \in BOOLEAN

Init ==
    /\ rows \in SUBSET Rows
    /\ query = [page |-> 1, size |-> DefaultSize]
    /\ pc = "done"
    /\ total = 0
    /\ reply = {} /\ seen = {} /\ old = {}
    /\ inserted = FALSE /\ removed = FALSE /\ raced = FALSE

-----------------------------------------------------------------------------
(* Arithmetic of int, which wraps around and divides towards zero.         *)

Wrap(n) == ((n + MaxInt + 1) % (2 * (MaxInt + 1))) - MaxInt - 1

Quotient(a, b) == IF a >= 0 THEN a \div b ELSE -((-a) \div b)

\* strconv.Atoi with its error ignored: 0 for what is no number, the nearest
\* int for one out of range.
Atoi(x) ==
    CASE x = Text        -> 0
      [] x > MaxInt      -> MaxInt
      [] x < -MaxInt - 1 -> -MaxInt - 1
      [] OTHER           -> x

\* paginationFromQuery
FromQuery(p, s) == [page |-> Atoi(p), size |-> Atoi(s)]

FirstPage(page) == IF page < 1 THEN 1 ELSE page

\* Mutant of Normalize: pages are counted from zero.
NormalizeZeroBased(q) ==
    LET size == IF q.size < 1 THEN DefaultSize ELSE IF q.size > Cap THEN Cap ELSE q.size
    IN  [limit |-> size, offset |-> Wrap(FirstPage(q.page) * size)]

\* Mutant of Normalize: the offset is computed before the size is capped.
NormalizeCapsLate(q) ==
    LET size == IF q.size < 1 THEN DefaultSize ELSE q.size
    IN  [limit  |-> IF size > Cap THEN Cap ELSE size,
         offset |-> Wrap((FirstPage(q.page) - 1) * size)]

\* Mutant of Normalize: one row is carried over from page to page.
NormalizeOverlaps(q) ==
    LET size == IF q.size < 1 THEN DefaultSize ELSE IF q.size > Cap THEN Cap ELSE q.size
    IN  [limit |-> size + 1, offset |-> Wrap((FirstPage(q.page) - 1) * size)]

\* Pagination.normalize
Normalize(q) ==
    LET size == IF q.size < 1 THEN DefaultSize ELSE IF q.size > Cap THEN Cap ELSE q.size
    IN  [limit |-> size, offset |-> Wrap((FirstPage(q.page) - 1) * size)]

\* Mutant of Meta: the division rounds down.
MetaRoundsDown(q, n) ==
    LET size == IF q.size < 1 THEN DefaultSize ELSE q.size
    IN  [page |-> FirstPage(q.page), size |-> size, pages |-> Quotient(n, size)]

\* metaFromPagination, which knows no cap.
Meta(q, n) ==
    LET size == IF q.size < 1 THEN DefaultSize ELSE q.size
    IN  [page |-> FirstPage(q.page), size |-> size,
         pages |-> Quotient(Wrap(n + size - 1), size)]

\* ORDER BY created_at DESC: the ways to number the rows from 0 so that newer
\* ones come first.  Rows with the same created_at come in either order.
Orderings ==
    {pos \in Bijection(rows, 0..(Cardinality(rows) - 1)) :
        \A q, r \in rows : Created[q] > Created[r] => pos[q] < pos[r]}

\* LIMIT limit OFFSET offset; a negative offset is left out of the statement.
Page(pos, limit, offset) ==
    LET skip == IF offset > 0 THEN offset ELSE 0
    IN  {r \in rows : skip <= pos[r] /\ pos[r] < skip + limit}

-----------------------------------------------------------------------------

\* A client starts to list.
Start(p, s) ==
    /\ pc = "done"
    /\ query' = FromQuery(p, s)
    /\ pc' = "count"
    /\ seen' = {} /\ reply' = {}
    /\ old' = IF Atoi(p) <= 1 THEN rows ELSE {}
    /\ inserted' = FALSE /\ removed' = FALSE /\ raced' = FALSE
    /\ UNCHANGED <<rows, total>>

Count ==
    /\ pc = "count"
    /\ total' = Cardinality(rows)
    /\ raced' = FALSE
    /\ pc' = "find"
    /\ UNCHANGED <<rows, query, reply, seen, old, inserted, removed>>

Find ==
    /\ pc = "find"
    /\ \E pos \in Orderings :
           reply' = Page(pos, Normalize(query).limit, Normalize(query).offset)
    /\ pc' = "read"
    /\ UNCHANGED <<rows, query, total, seen, old, inserted, removed, raced>>

\* Either statement fails, the handler answers with the error and the client
\* asks again.
QueryFails ==
    /\ pc \in {"count", "find"}
    /\ pc' = "count"
    /\ UNCHANGED <<rows, query, total, reply, seen, old, inserted, removed, raced>>

\* The client takes the page and asks for the next one, if the metadata says
\* that there is one.
Read ==
    /\ pc = "read"
    /\ seen'  = seen \cup reply
    /\ reply' = {}
    /\ LET meta == Meta(query, total)
       IN  IF meta.page < meta.pages
             THEN pc' = "count" /\ query' = [query EXCEPT !.page = meta.page + 1]
             ELSE pc' = "done" /\ UNCHANGED query
    /\ UNCHANGED <<rows, total, old, inserted, removed, raced>>

\* Another request creates a row, or changes one so that the filter selects it.
Insert(r) ==
    /\ r \notin rows
    /\ rows' = rows \cup {r}
    /\ inserted' = TRUE /\ raced' = (raced \/ pc = "find")
    /\ UNCHANGED <<query, pc, total, reply, seen, old, removed>>

\* Another request deletes a row or changes one so that it is not selected.
Remove(r) ==
    /\ r \in rows
    /\ rows' = rows \ {r}
    /\ removed' = TRUE /\ raced' = (raced \/ pc = "find")
    /\ UNCHANGED <<query, pc, total, reply, seen, old, inserted>>

Next ==
    \/ \E p, s \in Inputs : Start(p, s)
    \/ Count
    \/ Find
    \/ QueryFails
    \/ Read
    \/ \E r \in Rows : Insert(r) \/ Remove(r)

Spec == Init /\ [][Next]_vars

-----------------------------------------------------------------------------

\* The rows that share their created_at with no other.
Untied == {r \in Rows : \A q \in Rows \ {r} : Created[q] # Created[r]}

\* The number of rows that come before r in every ordering.
Newer(r) == Cardinality({q \in rows : Created[q] > Created[r]})

\* The rows on the pages before the current one, and with it, counted without
\* overflow.
Skipped == (FirstPage(query.page) - 1) * Normalize(query).limit
Passed  == FirstPage(query.page) * Normalize(query).limit

\* A walk that starts on the first page, with a page size within the cap, ends
\* with all the rows that were there when it began and share their created_at
\* with no other, although rows were added all the while and moved the others
\* to later pages: each reply's page count makes up for it.  Three things break
\* it: a row that goes away, a row added between the two statements of the last
\* request, and, for the rows concerned, a tie in created_at, for which the
\* statement has no second column to order by.
WalkSeesAll ==
    pc = "done" /\ query.size <= Cap /\ ~removed /\ ~raced => old \cap Untied \subseteq seen

\* A walk with a page size above the cap ends too early: the metadata counts
\* pages of the size asked for.  But it has no gap: unless rows go away, an
\* untied row that it has not returned comes after all the pages fetched, for
\* the offsets use the capped size.  This holds for every size, and whatever is
\* added between the two statements.
WalkHasNoGap ==
    pc = "done" /\ ~removed => \A r \in (old \cap Untied) \ seen : Newer(r) >= Passed

\* Unless rows are added, no row is on two pages of a walk that shares its
\* created_at with no other, rows that go away and page sizes above the cap
\* included: offsets use the capped size.  A page number so large that the
\* offset overflows is not reached by walking.
NoRowTwice == ~inserted => reply \cap seen \cap Untied = {}

\* The page and the metadata come from two statements and two computations.
\* With nothing written in between they agree: a page holds rows exactly if
\* its number is within the page count.  This takes a page size within the cap
\* and a page number whose offset is an int.
ReplyConsistent ==
    LET meta == Meta(query, total)
    IN  pc = "read" /\ ~raced /\ query.size <= Cap /\ meta.page <= MaxInt \div meta.size =>
            (reply # {} <=> meta.page <= meta.pages)

\* A page has as many rows as the capped size allows and the count leaves: none
\* is missing in the middle of a listing, and a caller that asks for more than
\* the cap (revokeAllAccess asks for 1000 devices) gets the cap.
PageFull ==
    LET rest  == total - Skipped
        limit == Normalize(query).limit
    IN  pc = "read" /\ ~raced /\ Skipped <= MaxInt =>
            Cardinality(reply) = IF rest < 0 THEN 0 ELSE IF rest < limit THEN rest ELSE limit

-----------------------------------------------------------------------------
(* Why they hold: where the rows are, seen or not, at each step of a walk. *)

Asking == pc \in {"count", "find"}

\* The last COUNT, which is exact while nobody writes.
TotalCounted ==
    /\ total <= Cardinality(Rows)
    /\ pc = "find" /\ ~raced => total = Cardinality(rows)

\* Walking leads to no offset that overflows.
OffsetExact == Asking /\ (seen # {} \/ old # {}) => Skipped <= Cardinality(Rows)

\* Unless rows are added, all that was seen begins before the next page.
SeenBefore ==
    ~inserted =>
        /\ Asking => \A r \in seen \cap rows : Newer(r) < Skipped
        /\ pc = "read" => \A r \in (seen \cup reply) \cap rows : Newer(r) < Passed

\* Unless rows go away, all that was not seen comes after it, but for ties.
UnseenAfter ==
    ~removed =>
        /\ Asking => \A r \in (old \cap Untied) \ seen : r \in rows /\ Newer(r) >= Skipped
        /\ pc = "read" =>
               \A r \in (old \cap Untied) \ (seen \cup reply) : r \in rows /\ Newer(r) >= Passed

\* A walk with rows to come knows of them.
LastPage ==
    pc = "read" /\ query.size <= Cap /\ ~removed /\ ~raced =>
        old \cap Untied \subseteq seen \cup reply \/ Passed < total

\* The inductive invariant of the walk through the pages: at every statement
\* of it the offset separates the rows returned from those still to come, ties
\* excepted, in a table that changes meanwhile.
Walk ==
    /\ TypeOK
    /\ pc # "read" => reply = {}
    /\ TotalCounted /\ OffsetExact /\ SeenBefore /\ UnseenAfter /\ LastPage
    /\ WalkSeesAll /\ WalkHasNoGap /\ NoRowTwice /\ ReplyConsistent /\ PageFull
=============================================================================
