----------------------------- MODULE PageProofs -----------------------------
(***************************************************************************)
(* The properties of the list endpoints hold for every table that fits the *)
(* integers, ties in created_at included, every page number and page size, *)
(* every default and cap.                                                  *)
(*                                                                         *)
(* Walk is inductive.  The lemmas before say what the two computations do: *)
(* ORDER BY numbers the rows from 0 without gaps, and in every ordering a  *)
(* row without ties has the number of the rows newer than itself, so an    *)
(* offset divides those rows in two; and the page count of the metadata,   *)
(* rounded up in wrapping arithmetic, is larger than k exactly if k pages  *)
(* do not hold all rows.                                                   *)
(***************************************************************************)
EXTENDS Pagination, FiniteSetTheorems, TLAPS

-----------------------------------------------------------------------------
(* Arithmetic.                                                             *)

LEMMA ModSmall ==
    ASSUME NEW m \in Nat \ {0}, NEW x \in 0..(m - 1)
    PROVE  x % m = x
OBVIOUS

LEMMA ModOnce ==
    ASSUME NEW m \in Nat \ {0}, NEW x \in m..(2 * m - 1)
    PROVE  x % m = x - m
OBVIOUS

LEMMA Division ==
    ASSUME NEW b \in Nat \ {0}, NEW a \in Nat
    PROVE  a \div b \in Nat /\ b * (a \div b) <= a /\ a < b * (a \div b) + b
OBVIOUS

LEMMA TimesMonotone ==
    ASSUME NEW a \in Nat, NEW b \in Nat, NEW c \in Nat, a <= b
    PROVE  a * c \in Nat /\ b * c \in Nat /\ a * c <= b * c
OBVIOUS

LEMMA TimesNext == \A a, b \in Int : (a + 1) * b = a * b + b /\ (a - 1) * b = a * b - b
OBVIOUS

\* An int is what it is, ...
LEMMA WrapExact ==
    ASSUME NEW n \in Ints
    PROVE  Wrap(n) = n
<1> DEFINE m == 2 * (MaxInt + 1)
           x == n + MaxInt + 1
<1>1. m \in Nat \ {0} /\ x \in 0..(m - 1)
    BY SizeAssumption DEF Ints
<1>2. x % m = x
    BY <1>1, ModSmall
<1>3. QED
    BY <1>2, SizeAssumption DEF Wrap, Ints

\* ... and a sum beyond the largest one is negative.
LEMMA WrapNegative ==
    ASSUME NEW n \in (MaxInt + 1)..(2 * MaxInt)
    PROVE  Wrap(n) \in Int /\ Wrap(n) < 0
<1> DEFINE m == 2 * (MaxInt + 1)
           x == n + MaxInt + 1
<1>1. m \in Nat \ {0} /\ x \in m..(2 * m - 1)
    BY SizeAssumption
<1>2. x % m = x - m
    BY <1>1, ModOnce
<1>3. QED
    BY <1>2, SizeAssumption DEF Wrap

\* Rounding up by adding s - 1: more than k pages exactly if k are too few.
LEMMA RoundsUp ==
    ASSUME NEW n \in Nat, NEW s \in Nat \ {0}, NEW k \in Nat
    PROVE  k < (n + s - 1) \div s <=> k * s < n
<1> DEFINE d == (n + s - 1) \div s
<1>1. d \in Nat /\ s * d <= n + s - 1 /\ n + s - 1 < s * d + s
    BY Division
<1>2. CASE k < d
  <2>1. (k + 1) * s <= d * s
      BY <1>1, <1>2, TimesMonotone
  <2>2. (k + 1) * s = k * s + s /\ d * s = s * d
      BY <1>1, TimesNext
  <2>3. k * s \in Nat /\ s * d \in Nat
      BY <1>1, TimesMonotone
  <2>4. k * s < n
      BY <2>1, <2>2, <2>3, <1>1
  <2>5. QED
      BY <1>2, <2>4
<1>3. CASE ~(k < d)
  <2>1. d * s <= k * s
      BY <1>1, <1>3, TimesMonotone
  <2>2. d * s = s * d /\ k * s \in Nat /\ s * d \in Nat
      BY <1>1, TimesMonotone
  <2>3. ~(k * s < n)
      BY <2>1, <2>2, <1>1
  <2>4. QED
      BY <1>3, <2>3
<1>4. QED
    BY <1>2, <1>3

LEMMA PagesExact ==
    ASSUME NEW n \in Nat, NEW s \in Nat \ {0}, n + s - 1 <= MaxInt
    PROVE  /\ Quotient(Wrap(n + s - 1), s) \in Nat
           /\ \A k \in Nat : k < Quotient(Wrap(n + s - 1), s) <=> k * s < n
<1>1. Wrap(n + s - 1) = n + s - 1
  <2>1. n + s - 1 \in Ints
      BY SizeAssumption DEF Ints
  <2>2. QED
      BY <2>1, WrapExact
<1>2. Quotient(Wrap(n + s - 1), s) = (n + s - 1) \div s
    BY <1>1 DEF Quotient
<1>3. (n + s - 1) \div s \in Nat
    BY Division
<1>4. QED
    BY <1>2, <1>3, RoundsUp

\* A page count that has overflowed is not positive: it announces no page.
LEMMA PagesWithin ==
    ASSUME NEW n \in 0..MaxInt, NEW s \in 1..MaxInt, NEW k \in Nat \ {0},
           k < Quotient(Wrap(n + s - 1), s)
    PROVE  k * s < n
<1>1. CASE n + s - 1 <= MaxInt
    BY <1>1, PagesExact, SizeAssumption
<1>2. CASE n + s - 1 > MaxInt
  <2> DEFINE w == Wrap(n + s - 1)
  <2>1. n + s - 1 \in (MaxInt + 1)..(2 * MaxInt)
      BY <1>2, SizeAssumption
  <2>2. w \in Int /\ w < 0
      BY <2>1, WrapNegative
  <2>3. Quotient(w, s) = -((-w) \div s)
      BY <2>2 DEF Quotient
  <2>4. (-w) \div s \in Nat
      BY <2>2, Division
  <2>5. QED
      BY <2>3, <2>4
<1>3. QED
    BY <1>1, <1>2, SizeAssumption

-----------------------------------------------------------------------------
(* The order of the rows.                                                  *)

NewerIn(S, r) == Cardinality({q \in S : Created[q] > Created[r]})

LEMMA TableFinite ==
    ASSUME NEW S \in SUBSET Rows
    PROVE  /\ IsFiniteSet(S) /\ Cardinality(S) \in Nat
           /\ Cardinality(S) <= Cardinality(Rows) /\ Cardinality(Rows) \in Nat
BY TableAssumption, FS_Subset, FS_CardinalityType

LEMMA NewerInType ==
    ASSUME NEW S \in SUBSET Rows, NEW r
    PROVE  NewerIn(S, r) \in Nat
<1>1. {q \in S : Created[q] > Created[r]} \in SUBSET Rows
    OBVIOUS
<1>2. QED
    BY <1>1, TableFinite DEF NewerIn

\* A row has fewer rows before it than there are.
LEMMA NewerInBound ==
    ASSUME NEW S \in SUBSET Rows, NEW r \in S
    PROVE  NewerIn(S, r) < Cardinality(S)
<1> DEFINE A == {q \in S : Created[q] > Created[r]}
<1>1. A \in SUBSET S /\ r \notin A
  <2>1. Created[r] \in Nat
      BY TableAssumption
  <2>2. QED
      BY <2>1
<1>2. IsFiniteSet(S) /\ Cardinality(S) \in Nat
    BY TableFinite
<1>3. Cardinality(A) <= Cardinality(S) /\ (Cardinality(S) = Cardinality(A) => S = A)
    BY <1>1, <1>2, FS_Subset
<1>4. Cardinality(A) \in Nat
    BY NewerInType DEF NewerIn
<1>5. QED
    BY <1>1, <1>2, <1>3, <1>4 DEF NewerIn

\* Rows added to the table push a row back.
LEMMA NewerInGrows ==
    ASSUME NEW T \in SUBSET Rows, NEW S \in SUBSET T, NEW r
    PROVE  NewerIn(S, r) <= NewerIn(T, r)
<1>1. {q \in S : Created[q] > Created[r]} \in SUBSET {q \in T : Created[q] > Created[r]}
    OBVIOUS
<1>2. IsFiniteSet({q \in T : Created[q] > Created[r]})
    BY TableFinite
<1>3. QED
    BY <1>1, <1>2, FS_Subset DEF NewerIn

LEMMA OrderingFacts ==
    ASSUME NEW pos \in Orderings
    PROVE  /\ pos \in [rows -> 0..(Cardinality(rows) - 1)]
           /\ \A q, r \in rows : pos[q] = pos[r] => q = r
           /\ \A i \in 0..(Cardinality(rows) - 1) : \E r \in rows : pos[r] = i
           /\ \A q, r \in rows : Created[q] > Created[r] => pos[q] < pos[r]
BY DEF Orderings, Bijection, Injection, Surjection, IsInjective

\* The rows newer than a row come before it in every ordering, and if its
\* created_at is no other row's, nothing else does.
LEMMA OrderingPlaces ==
    ASSUME TypeOK, NEW pos \in Orderings, NEW r \in rows
    PROVE  /\ pos[r] \in Nat /\ pos[r] < Cardinality(rows)
           /\ Newer(r) <= pos[r]
           /\ r \in Untied => Newer(r) = pos[r]
<1> DEFINE A == {q \in rows : Created[q] > Created[r]}
           T == 0..(pos[r] - 1)
           f == [q \in A |-> pos[q]]
           n == Cardinality(rows)
<1>1. rows \in SUBSET Rows /\ n \in Nat
    BY TableFinite DEF TypeOK
<1>2. \A q \in rows : pos[q] \in Nat /\ pos[q] < n
    BY <1>1, OrderingFacts
<1>3. f \in [A -> T]
  <2>1. \A q \in A : pos[q] \in T
      BY <1>2, OrderingFacts
  <2>2. QED
      BY <2>1
<1>4. f \in Injection(A, T)
  <2>1. \A q, t \in A : f[q] = f[t] => q = t
      BY OrderingFacts
  <2> HIDE DEF f, A, T
  <2>2. QED
      BY <1>3, <2>1 DEF Injection, IsInjective
<1>5. IsFiniteSet(T) /\ Cardinality(T) = pos[r]
  <2> DEFINE m == pos[r] - 1
  <2>1. 0 \in Int /\ m \in Int /\ (IF 0 > m THEN 0 ELSE m - 0 + 1) = pos[r]
      BY <1>2
  <2> HIDE DEF m
  <2>2. IsFiniteSet(0..m) /\ Cardinality(0..m) = IF 0 > m THEN 0 ELSE m - 0 + 1
      BY <2>1, FS_Interval
  <2>3. QED
      BY <2>1, <2>2 DEF m
<1>6. Cardinality(A) <= Cardinality(T) /\ (Cardinality(A) = Cardinality(T) <=> f \in Surjection(A, T))
  <2> HIDE DEF f, A, T
  <2>1. QED
      BY <1>4, <1>5, FS_Injection
<1>7. ASSUME r \in Untied
      PROVE  f \in Surjection(A, T)
  <2>1. ASSUME NEW i \in T
        PROVE  \E q \in A : f[q] = i
    <3>1. i \in 0..(n - 1) /\ i < pos[r]
        BY <1>1, <1>2
    <3>2. PICK q \in rows : pos[q] = i
        BY <3>1, OrderingFacts
    <3>3. q # r /\ ~(pos[r] < pos[q])
        BY <1>2, <3>1, <3>2
    <3>4. Created[q] # Created[r] /\ ~(Created[r] > Created[q])
        BY <1>1, <1>7, <3>3, OrderingFacts DEF Untied
    <3>5. Created[q] \in Nat /\ Created[r] \in Nat
        BY <1>1, TableAssumption
    <3>6. q \in A
        BY <3>4, <3>5
    <3>7. QED
        BY <3>2, <3>6
  <2> HIDE DEF f, A, T
  <2>2. QED
      BY <1>3, <2>1 DEF Surjection
<1>8. Newer(r) = Cardinality(A)
    BY DEF Newer
<1> HIDE DEF A, T, f, n
<1>9. QED
    BY <1>2, <1>5, <1>6, <1>7, <1>8 DEF n

-----------------------------------------------------------------------------
(* A request and its two computations.                                     *)

LEMMA Bounds ==
    /\ Cardinality(Rows) \in Nat /\ MaxInt \in Nat /\ Cap \in Nat \ {0}
    /\ Cardinality(Rows) + Cap <= MaxInt
    /\ DefaultSize \in 1..Cap
<1>1. Cardinality(Rows) \in Nat
    BY TableFinite
<1>2. QED
    BY <1>1, SizeAssumption, RowsAssumption

\* normalize caps the size that metaFromPagination uses as it is.
LEMMA RequestFacts ==
    ASSUME NEW q \in [page : Ints, size : Ints], NEW n \in Nat
    PROVE  /\ FirstPage(q.page) \in 1..MaxInt
           /\ Normalize(q).limit \in 1..Cap
           /\ Normalize(q).offset = Wrap((FirstPage(q.page) - 1) * Normalize(q).limit)
           /\ Meta(q, n).page = FirstPage(q.page)
           /\ Meta(q, n).size \in 1..MaxInt
           /\ Normalize(q).limit <= Meta(q, n).size
           /\ q.size <= Cap => Meta(q, n).size = Normalize(q).limit
           /\ Meta(q, n).pages = Quotient(Wrap(n + Meta(q, n).size - 1), Meta(q, n).size)
<1>1. q.page \in Ints /\ q.size \in Ints
    OBVIOUS
<1>2. FirstPage(q.page) \in 1..MaxInt
    BY <1>1, Bounds DEF FirstPage, Ints
<1>3. /\ Normalize(q).limit = IF q.size < 1 THEN DefaultSize ELSE IF q.size > Cap THEN Cap ELSE q.size
      /\ Normalize(q).offset = Wrap((FirstPage(q.page) - 1) * Normalize(q).limit)
    BY DEF Normalize
<1>4. /\ Meta(q, n).size = IF q.size < 1 THEN DefaultSize ELSE q.size
      /\ Meta(q, n).page = FirstPage(q.page)
      /\ Meta(q, n).pages = Quotient(Wrap(n + Meta(q, n).size - 1), Meta(q, n).size)
    BY DEF Meta
<1>5. Normalize(q).limit \in 1..Cap
    BY <1>1, <1>3, Bounds DEF Ints
<1>6. Meta(q, n).size \in 1..MaxInt
    BY <1>1, <1>4, Bounds DEF Ints
<1>7. /\ Normalize(q).limit <= Meta(q, n).size
      /\ q.size <= Cap => Meta(q, n).size = Normalize(q).limit
    BY <1>1, <1>3, <1>4, Bounds DEF Ints
<1>8. QED
    BY <1>2, <1>3, <1>4, <1>5, <1>6, <1>7

LEMMA PositionType ==
    ASSUME TypeOK
    PROVE  /\ Skipped \in Nat /\ Passed \in Nat /\ Normalize(query).limit \in 1..Cap
           /\ Passed = Skipped + Normalize(query).limit
           /\ Skipped < Passed
<1> DEFINE k == FirstPage(query.page)
           l == Normalize(query).limit
<1>1. k \in 1..MaxInt /\ l \in 1..Cap
  <2>1. query \in [page : Ints, size : Ints]
      BY DEF TypeOK
  <2>2. QED
      BY <2>1, RequestFacts
<1>2. k - 1 \in Nat /\ k \in Nat /\ l \in Nat /\ l > 0
    BY <1>1, Bounds
<1>3. (k - 1) * l \in Nat /\ k * l \in Nat
    BY <1>2, TimesMonotone
<1>4. (k - 1) * l = k * l - l
    BY <1>2, TimesNext
<1>5. Skipped = (k - 1) * l /\ Passed = k * l
    BY DEF Skipped, Passed
<1> HIDE DEF k, l
<1>6. Skipped \in Nat /\ Passed \in Nat /\ Passed = Skipped + l /\ Skipped < Passed
    BY <1>2, <1>3, <1>4, <1>5
<1>7. QED
    BY <1>1, <1>6 DEF l

\* The metadata announces a next page only if there are rows for it.
LEMMA NextPage ==
    ASSUME TypeOK, total <= Cardinality(Rows), Meta(query, total).page < Meta(query, total).pages
    PROVE  /\ Passed < Cardinality(Rows)
           /\ FirstPage(query.page) < MaxInt
<1> DEFINE k == FirstPage(query.page)
           l == Normalize(query).limit
           s == Meta(query, total).size
<1>1. total \in Nat /\ query \in [page : Ints, size : Ints]
    BY DEF TypeOK
<1>2. /\ k \in 1..MaxInt /\ l \in 1..Cap /\ s \in 1..MaxInt /\ l <= s
      /\ k < Quotient(Wrap(total + s - 1), s)
    BY <1>1, RequestFacts
<1>3. Passed = k * l
    BY DEF Passed
<1> HIDE DEF k, l, s
<1>4. total \in 0..MaxInt
    BY <1>1, Bounds
<1>5. k * s < total
    BY <1>2, <1>4, PagesWithin, Bounds
<1>6. l * k <= s * k /\ 1 * k <= s * k /\ l * k = k * l /\ s * k = k * s /\ 1 * k = k
      /\ k * l \in Nat /\ k * s \in Nat
  <2>1. k \in Nat /\ l \in Nat /\ s \in Nat /\ 1 <= s
      BY <1>2, Bounds
  <2>2. QED
      BY <2>1, <1>2, TimesMonotone
<1>7. k * l < total /\ k < total
    BY <1>1, <1>2, <1>5, <1>6
<1>8. QED
    BY <1>1, <1>2, <1>3, <1>6, <1>7, Bounds DEF k

\* With a size within the cap the page count is exact.
LEMMA PageCount ==
    ASSUME TypeOK, total <= Cardinality(Rows), query.size <= Cap
    PROVE  /\ Meta(query, total).page < Meta(query, total).pages <=> Passed < total
           /\ Meta(query, total).page <= Meta(query, total).pages <=> Skipped < total
<1> DEFINE k == FirstPage(query.page)
           l == Normalize(query).limit
           p == Meta(query, total).pages
<1>1. total \in Nat /\ query \in [page : Ints, size : Ints]
    BY DEF TypeOK
<1>2. k \in 1..MaxInt /\ l \in 1..Cap /\ Meta(query, total).page = k
    BY <1>1, RequestFacts
<1>3. p = Quotient(Wrap(total + l - 1), l)
    BY <1>1, RequestFacts
<1>4. Passed = k * l /\ Skipped = (k - 1) * l
    BY DEF Passed, Skipped
<1> HIDE DEF k, l, p
<1>5. l \in Nat \ {0} /\ total + l - 1 <= MaxInt /\ k \in Nat /\ k - 1 \in Nat
    BY <1>1, <1>2, Bounds
<1>6. p \in Nat /\ (k < p <=> k * l < total) /\ (k - 1 < p <=> (k - 1) * l < total)
    BY <1>1, <1>3, <1>5, PagesExact
<1>7. k - 1 < p <=> k <= p
    BY <1>5, <1>6
<1>8. QED
    BY <1>2, <1>4, <1>6, <1>7 DEF p

LEMMA NewerType ==
    ASSUME TypeOK
    PROVE  /\ \A r : Newer(r) \in Nat
           /\ \A r \in rows : Newer(r) < Cardinality(rows)
           /\ Cardinality(rows) \in Nat /\ Cardinality(rows) <= Cardinality(Rows)
<1>1. rows \in SUBSET Rows
    BY DEF TypeOK
<1>2. QED
    BY <1>1, NewerInType, NewerInBound, TableFinite DEF Newer, NewerIn

\* Where the offset does not overflow, the page holds its rows, ...
LEMMA PageExact ==
    ASSUME TypeOK, Skipped <= MaxInt, NEW pos
    PROVE  Page(pos, Normalize(query).limit, Normalize(query).offset)
             = {r \in rows : Skipped <= pos[r] /\ pos[r] < Passed}
<1>1. query \in [page : Ints, size : Ints] /\ 0 \in Nat
    BY DEF TypeOK
<1>2. Normalize(query).offset = Wrap(Skipped)
    BY <1>1, RequestFacts DEF Skipped
<1>3. Skipped \in Nat /\ Passed = Skipped + Normalize(query).limit
    BY PositionType
<1>4. Skipped \in Ints
    BY <1>3, Bounds DEF Ints
<1>5. Normalize(query).offset = Skipped
    BY <1>2, <1>4, WrapExact
<1>6. (IF Skipped > 0 THEN Skipped ELSE 0) = Skipped
    BY <1>3
<1>7. QED
    BY <1>3, <1>5, <1>6 DEF Page

\* ... and where it does, at least none that comes after it.
LEMMA PageBelow ==
    ASSUME TypeOK, NEW pos \in Orderings,
           NEW r \in Page(pos, Normalize(query).limit, Normalize(query).offset)
    PROVE  r \in rows /\ Newer(r) < Passed
<1>1. r \in rows
    BY DEF Page
<1>2. /\ pos[r] \in Nat /\ Newer(r) <= pos[r]
      /\ Newer(r) \in Nat /\ Newer(r) < Cardinality(Rows)
      /\ Skipped \in Nat /\ Passed \in Nat /\ Skipped < Passed
    BY <1>1, OrderingPlaces, NewerType, PositionType, Bounds
<1>3. CASE Skipped <= MaxInt
  <2>1. pos[r] < Passed
      BY <1>3, PageExact
  <2>2. QED
      BY <1>1, <1>2, <2>1
<1>4. CASE ~(Skipped <= MaxInt)
    BY <1>1, <1>2, <1>4, Bounds
<1>5. QED
    BY <1>3, <1>4

-----------------------------------------------------------------------------
(* Each step keeps Walk.                                                   *)

LEMMA AtoiType ==
    ASSUME NEW x \in Inputs
    PROVE  Atoi(x) \in Ints
<1>1. CASE x = Text
    BY <1>1, Bounds DEF Atoi, Ints
<1>2. CASE x # Text
  <2>1. x \in Int
      BY <1>2, InputAssumption
  <2>2. QED
      BY <1>2, <2>1, Bounds DEF Atoi, Ints
<1>3. QED
    BY <1>1, <1>2

LEMMA SamePlace ==
    ASSUME query' = query
    PROVE  Skipped' = Skipped /\ Passed' = Passed
BY DEF Skipped, Passed

LEMMA SameRows ==
    ASSUME rows' = rows
    PROVE  \A r : Newer(r)' = Newer(r)
BY DEF Newer

LEMMA WalkInit ==
    ASSUME Init
    PROVE  Walk
<1>1. DefaultSize \in Ints /\ 1 \in Ints
    BY Bounds DEF Ints
<1>2. query = [page |-> 1, size |-> DefaultSize] /\ pc = "done" /\ total = 0
      /\ rows \subseteq Rows /\ reply = {} /\ seen = {} /\ old = {}
      /\ inserted = FALSE /\ removed = FALSE /\ raced = FALSE
    BY DEF Init
<1>3. TypeOK
    BY <1>1, <1>2 DEF TypeOK
<1>4. TotalCounted
    BY <1>2, Bounds DEF TotalCounted
<1>5. OffsetExact /\ SeenBefore /\ UnseenAfter /\ LastPage /\ WalkSeesAll /\ WalkHasNoGap
      /\ ReplyConsistent /\ NoRowTwice /\ PageFull
    BY <1>2 DEF OffsetExact, SeenBefore, UnseenAfter, LastPage, WalkSeesAll, WalkHasNoGap,
                ReplyConsistent, NoRowTwice, PageFull, Asking
<1>6. QED
    BY <1>2, <1>3, <1>4, <1>5 DEF Walk

LEMMA WalkStart ==
    ASSUME Walk, NEW p \in Inputs, NEW s \in Inputs, Start(p, s)
    PROVE  Walk'
<1>1. /\ rows' = rows /\ total' = total /\ pc' = "count" /\ seen' = {} /\ reply' = {}
      /\ query' = [page |-> Atoi(p), size |-> Atoi(s)]
      /\ old' = IF Atoi(p) <= 1 THEN rows ELSE {}
      /\ inserted' = FALSE /\ removed' = FALSE /\ raced' = FALSE
    BY DEF Start, FromQuery
<1>2. Atoi(p) \in Ints /\ Atoi(s) \in Ints
    BY AtoiType
<1>3. TypeOK'
    BY <1>1, <1>2 DEF Walk, TypeOK
<1>4. old' # {} => Skipped' = 0
  <2>1. HAVE old' # {}
  <2>2. Atoi(p) <= 1
      BY <1>1, <2>1
  <2>3. FirstPage(query'.page) - 1 = 0
      BY <1>1, <1>2, <2>2 DEF FirstPage, Ints
  <2>4. Normalize(query').limit \in Int
      BY <1>3, RequestFacts DEF TypeOK
  <2>5. QED
      BY <2>3, <2>4 DEF Skipped
<1>5. TotalCounted'
    BY <1>1 DEF Walk, TotalCounted
<1>6. OffsetExact'
    BY <1>1, <1>4, Bounds DEF OffsetExact
<1>7. SeenBefore' /\ LastPage' /\ WalkSeesAll' /\ WalkHasNoGap'
      /\ NoRowTwice' /\ ReplyConsistent' /\ PageFull'
    BY <1>1 DEF SeenBefore, LastPage, WalkSeesAll, WalkHasNoGap, NoRowTwice, ReplyConsistent, PageFull
<1>8. UnseenAfter'
  <2>1. ASSUME NEW r \in old'
        PROVE  r \in rows' /\ Newer(r)' >= Skipped'
    <3>1. r \in rows /\ Skipped' = 0
        BY <1>1, <1>4
    <3>2. Newer(r)' \in Nat
        BY <1>1, SameRows, NewerType DEF Walk
    <3>3. QED
        BY <1>1, <3>1, <3>2
  <2>2. QED
      BY <1>1, <2>1 DEF UnseenAfter
<1>9. QED
    BY <1>1, <1>3, <1>5, <1>6, <1>7, <1>8 DEF Walk

LEMMA WalkCount ==
    ASSUME Walk, Count
    PROVE  Walk'
<1>1. /\ pc = "count" /\ pc' = "find" /\ total' = Cardinality(rows) /\ raced' = FALSE
      /\ rows' = rows /\ query' = query /\ reply' = reply /\ seen' = seen /\ old' = old
      /\ inserted' = inserted /\ removed' = removed
    BY DEF Count
<1>2. Skipped' = Skipped /\ \A r : Newer(r)' = Newer(r)
    BY <1>1, SamePlace, SameRows
<1>3. Cardinality(rows) \in Nat /\ Cardinality(rows) <= Cardinality(Rows)
    BY NewerType DEF Walk
<1>4. TypeOK' /\ TotalCounted'
    BY <1>1, <1>3 DEF Walk, TypeOK, TotalCounted
<1>5. OffsetExact'
    BY <1>1, <1>2 DEF Walk, OffsetExact, Asking
<1>6. SeenBefore'
    BY <1>1, <1>2 DEF Walk, SeenBefore, Asking
<1>7. UnseenAfter'
    BY <1>1, <1>2 DEF Walk, UnseenAfter, Asking
<1>8. LastPage' /\ WalkSeesAll' /\ WalkHasNoGap'
      /\ NoRowTwice' /\ ReplyConsistent' /\ PageFull'
    BY <1>1 DEF Walk, LastPage, WalkSeesAll, WalkHasNoGap, NoRowTwice, ReplyConsistent, PageFull
<1>9. QED
    BY <1>1, <1>4, <1>5, <1>6, <1>7, <1>8 DEF Walk

LEMMA WalkQueryFails ==
    ASSUME Walk, QueryFails
    PROVE  Walk'
<1>1. /\ pc \in {"count", "find"} /\ pc' = "count" /\ total' = total /\ raced' = raced
      /\ rows' = rows /\ query' = query /\ reply' = reply /\ seen' = seen /\ old' = old
      /\ inserted' = inserted /\ removed' = removed
    BY DEF QueryFails
<1>2. Skipped' = Skipped /\ \A r : Newer(r)' = Newer(r)
    BY <1>1, SamePlace, SameRows
<1>3. TypeOK' /\ TotalCounted'
    BY <1>1 DEF Walk, TypeOK, TotalCounted
<1>4. OffsetExact'
    BY <1>1, <1>2 DEF Walk, OffsetExact, Asking
<1>5. SeenBefore'
    BY <1>1, <1>2 DEF Walk, SeenBefore, Asking
<1>6. UnseenAfter'
    BY <1>1, <1>2 DEF Walk, UnseenAfter, Asking
<1>7. LastPage' /\ WalkSeesAll' /\ WalkHasNoGap'
      /\ NoRowTwice' /\ ReplyConsistent' /\ PageFull'
    BY <1>1 DEF Walk, LastPage, WalkSeesAll, WalkHasNoGap, NoRowTwice, ReplyConsistent, PageFull
<1>8. QED
    BY <1>1, <1>3, <1>4, <1>5, <1>6, <1>7 DEF Walk

\* The page is empty exactly if its number is beyond the page count.
LEMMA FindConsistent ==
    ASSUME Walk, Find
    PROVE  ReplyConsistent'
<1> DEFINE k == FirstPage(query.page)
           l == Normalize(query).limit
<1>1. pc = "find" /\ total' = total /\ raced' = raced /\ query' = query
    BY DEF Find
<1> PICK pos \in Orderings : reply' = Page(pos, Normalize(query).limit, Normalize(query).offset)
    BY DEF Find
<1>2. SUFFICES ASSUME ~raced, query.size <= Cap,
                      Meta(query, total).page <= MaxInt \div Meta(query, total).size
               PROVE  reply' # {} <=> Meta(query, total).page <= Meta(query, total).pages
    BY <1>1 DEF ReplyConsistent
<1>3. TypeOK /\ total = Cardinality(rows) /\ total <= Cardinality(Rows)
    BY <1>1, <1>2 DEF Walk, TotalCounted
<1>4. k \in 1..MaxInt /\ l \in 1..Cap /\ k <= MaxInt \div l
  <2>1. total \in Nat /\ query \in [page : Ints, size : Ints]
      BY <1>3 DEF TypeOK
  <2>2. QED
      BY <1>2, <2>1, RequestFacts
<1>5. Skipped <= MaxInt
  <2>1. Passed = k * l /\ Skipped \in Nat /\ Passed \in Nat /\ Skipped < Passed
      BY <1>3, PositionType DEF Passed
  <2> HIDE DEF k, l
  <2>2. k \in Nat /\ l \in Nat \ {0} /\ MaxInt \in Nat
      BY <1>4, Bounds
  <2>3. MaxInt \div l \in Nat /\ l * (MaxInt \div l) <= MaxInt
      BY <2>2, Division
  <2>4. k * l <= (MaxInt \div l) * l
      BY <2>2, <2>3, <1>4, TimesMonotone
  <2>5. (MaxInt \div l) * l = l * (MaxInt \div l)
      BY <2>2, <2>3
  <2>6. k * l \in Nat /\ l * (MaxInt \div l) \in Nat
      BY <2>2, <2>3, TimesMonotone
  <2>7. k * l <= MaxInt
      BY <2>2, <2>3, <2>4, <2>5, <2>6
  <2>8. QED
      BY <2>1, <2>2, <2>7
<1>6. reply' = {r \in rows : Skipped <= pos[r] /\ pos[r] < Passed}
    BY <1>3, <1>5, PageExact
<1>7. Meta(query, total).page <= Meta(query, total).pages <=> Skipped < Cardinality(rows)
    BY <1>2, <1>3, PageCount
<1>8. /\ Skipped \in Nat /\ Passed \in Nat /\ Skipped < Passed /\ Cardinality(rows) \in Nat
      /\ \A r \in rows : pos[r] \in Nat /\ pos[r] < Cardinality(rows)
    BY <1>3, PositionType, NewerType, OrderingPlaces
<1>9. reply' # {} => Skipped < Cardinality(rows)
    BY <1>6, <1>8
<1>10. Skipped < Cardinality(rows) => reply' # {}
  <2>1. HAVE Skipped < Cardinality(rows)
  <2>2. Skipped \in 0..(Cardinality(rows) - 1)
      BY <1>8, <2>1
  <2>3. PICK r \in rows : pos[r] = Skipped
      BY <2>2, OrderingFacts
  <2>4. QED
      BY <1>6, <1>8, <2>3
<1>11. QED
    BY <1>7, <1>9, <1>10

\* The numbers of the page's rows are those from the offset on, without gaps.
LEMMA FindFull ==
    ASSUME Walk, Find
    PROVE  PageFull'
<1> DEFINE l == Normalize(query).limit
           n == Cardinality(rows)
           hi == IF Passed < n THEN Passed ELSE n
           T == Skipped..(hi - 1)
<1>1. pc = "find" /\ total' = total /\ raced' = raced /\ query' = query
    BY DEF Find
<1> PICK pos \in Orderings : reply' = Page(pos, Normalize(query).limit, Normalize(query).offset)
    BY DEF Find
<1> DEFINE P == {r \in rows : Skipped <= pos[r] /\ pos[r] < Passed}
           f == [r \in P |-> pos[r]]
<1>2. Skipped' = Skipped
    BY <1>1, SamePlace
<1>3. SUFFICES ASSUME ~raced, Skipped <= MaxInt
               PROVE  Cardinality(reply') = IF total - Skipped < 0 THEN 0
                                            ELSE IF total - Skipped < l THEN total - Skipped ELSE l
    BY <1>1, <1>2 DEF PageFull
<1>4. TypeOK /\ total = n /\ reply' = P
    BY <1>1, <1>3, PageExact DEF Walk, TotalCounted
<1>5. /\ Skipped \in Nat /\ Passed \in Nat /\ l \in 1..Cap /\ Passed = Skipped + l
      /\ n \in Nat /\ hi \in Nat /\ hi <= n /\ hi <= Passed
      /\ \A r \in rows : pos[r] \in Nat /\ pos[r] < n
    BY <1>4, PositionType, NewerType, OrderingPlaces
<1>7. f \in [P -> T]
  <2>1. ASSUME NEW r \in P
        PROVE  pos[r] \in T
    <3>1. pos[r] \in Nat /\ Skipped <= pos[r] /\ pos[r] < Passed /\ pos[r] < n
        BY <1>5
    <3>2. QED
        BY <1>5, <3>1
  <2>2. QED
      BY <2>1
<1>8. ASSUME NEW r \in P, NEW t \in P, f[r] = f[t]
      PROVE  r = t
    BY <1>8, OrderingFacts
<1>9. ASSUME NEW i \in T
      PROVE  \E r \in P : f[r] = i
  <2>1. i \in 0..(n - 1) /\ Skipped <= i /\ i < Passed
      BY <1>5
  <2>2. PICK r \in rows : pos[r] = i
      BY <2>1, OrderingFacts
  <2>3. r \in P
      BY <2>1, <2>2
  <2>4. QED
      BY <2>2, <2>3
<1>10. IsFiniteSet(T) /\ Cardinality(T) = IF Skipped > hi - 1 THEN 0 ELSE hi - 1 - Skipped + 1
  <2>1. Skipped \in Int /\ hi - 1 \in Int
      BY <1>5
  <2> HIDE DEF hi
  <2>2. QED
      BY <2>1, FS_Interval
<1>11. Cardinality(P) = Cardinality(T)
  <2> HIDE DEF f, P, T
  <2>1. f \in Injection(P, T)
      BY <1>7, <1>8 DEF Injection, IsInjective, f
  <2>2. f \in Surjection(P, T)
      BY <1>7, <1>9 DEF Surjection
  <2>3. QED
      BY <1>10, <2>1, <2>2, FS_Injection
<1> HIDE DEF P, T, f, n, l
<1>12. Cardinality(reply') = IF Skipped > hi - 1 THEN 0 ELSE hi - Skipped
    BY <1>4, <1>5, <1>10, <1>11
<1>13. QED
    BY <1>4, <1>5, <1>12, Bounds

LEMMA WalkFind ==
    ASSUME Walk, Find
    PROVE  Walk'
<1>1. /\ pc = "find" /\ pc' = "read" /\ total' = total /\ raced' = raced
      /\ rows' = rows /\ query' = query /\ seen' = seen /\ old' = old
      /\ inserted' = inserted /\ removed' = removed
    BY DEF Find
<1> PICK pos \in Orderings : reply' = Page(pos, Normalize(query).limit, Normalize(query).offset)
    BY DEF Find
<1>2. Skipped' = Skipped /\ Passed' = Passed /\ \A r : Newer(r)' = Newer(r)
    BY <1>1, SamePlace, SameRows
<1>3. /\ Skipped \in Nat /\ Passed \in Nat /\ Skipped < Passed
      /\ \A r : Newer(r) \in Nat
      /\ \A r \in rows : Newer(r) < Cardinality(rows)
      /\ Cardinality(rows) \in Nat
    BY PositionType, NewerType DEF Walk
<1>4. \A r \in reply' : r \in rows /\ Newer(r) < Passed
    BY PageBelow DEF Walk
<1>5. ASSUME seen # {} \/ old # {}, NEW r \in rows \cap Untied
      PROVE  r \in reply' <=> Skipped <= Newer(r) /\ Newer(r) < Passed
  <2>1. Skipped <= MaxInt
      BY <1>1, <1>3, <1>5, Bounds DEF Walk, OffsetExact, Asking
  <2>2. reply' = {t \in rows : Skipped <= pos[t] /\ pos[t] < Passed}
      BY <2>1, PageExact DEF Walk
  <2>3. pos[r] = Newer(r)
      BY OrderingPlaces DEF Walk
  <2>4. QED
      BY <2>2, <2>3
<1>6. TypeOK' /\ TotalCounted' /\ OffsetExact' /\ WalkSeesAll' /\ WalkHasNoGap'
    BY <1>1, <1>4 DEF Walk, TypeOK, TotalCounted, OffsetExact, Asking, WalkSeesAll, WalkHasNoGap
<1>7. SeenBefore'
  <2>1. ASSUME ~inserted, NEW r \in (seen \cup reply') \cap rows
        PROVE  Newer(r) < Passed
    <3>1. CASE r \in reply'
        BY <1>4, <3>1
    <3>2. CASE r \in seen
      <4>1. Newer(r) < Skipped
          BY <1>1, <2>1, <3>2 DEF Walk, SeenBefore, Asking
      <4>2. QED
          BY <1>3, <4>1
    <3>3. QED
        BY <2>1, <3>1, <3>2
  <2>2. QED
      BY <1>1, <1>2, <2>1 DEF SeenBefore, Asking
<1>8. ASSUME ~removed, NEW r \in old \cap Untied, r \notin seen \cup reply'
      PROVE  r \in rows /\ Newer(r) >= Passed
  <2>1. r \in rows /\ Newer(r) >= Skipped
      BY <1>1, <1>8 DEF Walk, UnseenAfter, Asking
  <2>2. ~(Skipped <= Newer(r) /\ Newer(r) < Passed)
      BY <1>5, <1>8, <2>1
  <2>3. QED
      BY <1>3, <2>1, <2>2
<1>9. UnseenAfter'
    BY <1>1, <1>2, <1>8 DEF UnseenAfter, Asking
<1>10. LastPage'
  <2>1. ASSUME query.size <= Cap, ~removed, ~raced, ~(old \cap Untied \subseteq seen \cup reply')
        PROVE  Passed < total
    <3>1. PICK r \in old \cap Untied : r \notin seen \cup reply'
        BY <2>1
    <3>2. r \in rows /\ Newer(r) >= Passed
        BY <1>8, <2>1, <3>1
    <3>3. total = Cardinality(rows)
        BY <1>1, <2>1 DEF Walk, TotalCounted
    <3>4. QED
        BY <1>3, <3>2, <3>3
  <2>2. QED
      BY <1>1, <1>2, <2>1 DEF LastPage
<1>11. NoRowTwice'
  <2>1. ASSUME ~inserted, NEW r \in seen \cap Untied, r \in reply'
        PROVE  FALSE
    <3>1. r \in rows /\ Skipped <= Newer(r)
        BY <1>4, <1>5, <2>1
    <3>2. Newer(r) < Skipped
        BY <1>1, <2>1, <3>1 DEF Walk, SeenBefore, Asking
    <3>3. QED
        BY <1>3, <3>1, <3>2
  <2>2. QED
      BY <1>1, <2>1 DEF NoRowTwice
<1>12. QED
    BY <1>1, <1>6, <1>7, <1>9, <1>10, <1>11, FindConsistent, FindFull DEF Walk

\* The client goes on to the page that follows the rows passed.
LEMMA WalkReadOn ==
    ASSUME Walk, Read, Meta(query, total).page < Meta(query, total).pages
    PROVE  Walk'
<1> DEFINE k == FirstPage(query.page)
<1>1. /\ pc = "read" /\ pc' = "count" /\ total' = total /\ raced' = raced
      /\ seen' = seen \cup reply /\ reply' = {}
      /\ query' = [query EXCEPT !.page = Meta(query, total).page + 1]
      /\ rows' = rows /\ old' = old /\ inserted' = inserted /\ removed' = removed
    BY DEF Read
<1>2. TypeOK /\ total \in Nat /\ total <= Cardinality(Rows) /\ query \in [page : Ints, size : Ints]
    BY DEF Walk, TypeOK, TotalCounted
<1>3. Passed < Cardinality(Rows) /\ k < MaxInt
    BY <1>2, NextPage
<1>4. k \in 1..MaxInt /\ Meta(query, total).page = k
    BY <1>2, RequestFacts
<1>5. query' = [query EXCEPT !.page = k + 1] /\ query'.page = k + 1 /\ query'.size = query.size
      /\ k + 1 \in Ints
    BY <1>1, <1>2, <1>3, <1>4, Bounds DEF Ints
<1>6. Skipped' = Passed
  <2>1. FirstPage(query'.page) - 1 = k
      BY <1>4, <1>5 DEF FirstPage
  <2>2. Normalize(query').limit = Normalize(query).limit
      BY <1>5 DEF Normalize
  <2>3. QED
      BY <2>1, <2>2 DEF Skipped, Passed
<1> HIDE DEF k
<1>7. \A r : Newer(r)' = Newer(r)
    BY <1>1, SameRows
<1>8. Passed \in Nat
    BY <1>2, PositionType
<1>9. TypeOK'
    BY <1>1, <1>2, <1>5 DEF TypeOK
<1>10. TotalCounted' /\ LastPage' /\ WalkSeesAll' /\ WalkHasNoGap'
      /\ NoRowTwice' /\ ReplyConsistent' /\ PageFull'
    BY <1>1 DEF Walk, TotalCounted, LastPage, WalkSeesAll, WalkHasNoGap, NoRowTwice,
                ReplyConsistent, PageFull
<1>11. OffsetExact'
    BY <1>3, <1>6, <1>8, Bounds DEF OffsetExact
<1>12. SeenBefore'
    BY <1>1, <1>6, <1>7 DEF Walk, SeenBefore
<1>13. UnseenAfter'
    BY <1>1, <1>5, <1>6, <1>7 DEF Walk, UnseenAfter
<1>14. QED
    BY <1>1, <1>9, <1>10, <1>11, <1>12, <1>13 DEF Walk

\* It stops, and unless somebody wrote between the two statements there is
\* nothing left.
LEMMA WalkReadLast ==
    ASSUME Walk, Read, ~(Meta(query, total).page < Meta(query, total).pages)
    PROVE  Walk'
<1>1. /\ pc = "read" /\ pc' = "done" /\ total' = total /\ raced' = raced
      /\ seen' = seen \cup reply /\ reply' = {} /\ query' = query
      /\ rows' = rows /\ old' = old /\ inserted' = inserted /\ removed' = removed
    BY DEF Read
<1>2. WalkSeesAll'
  <2>1. ASSUME query.size <= Cap, ~removed, ~raced
        PROVE  old \cap Untied \subseteq seen \cup reply
    <3>1. old \cap Untied \subseteq seen \cup reply \/ Passed < total
        BY <1>1, <2>1 DEF Walk, LastPage
    <3>2. ~(Passed < total)
        BY <2>1, PageCount DEF Walk, TotalCounted
    <3>3. QED
        BY <3>1, <3>2
  <2>2. QED
      BY <1>1, <2>1 DEF WalkSeesAll
<1>3. TypeOK' /\ TotalCounted' /\ NoRowTwice'
    BY <1>1 DEF Walk, TypeOK, TotalCounted, NoRowTwice
<1>4. WalkHasNoGap'
  <2>1. Passed' = Passed /\ \A r : Newer(r)' = Newer(r)
      BY <1>1, SamePlace, SameRows
  <2>2. ASSUME ~removed, NEW r \in (old \cap Untied) \ (seen \cup reply)
        PROVE  Newer(r) >= Passed
      BY <1>1, <2>2 DEF Walk, UnseenAfter
  <2>3. QED
      BY <1>1, <2>1, <2>2 DEF WalkHasNoGap
<1>5. OffsetExact' /\ SeenBefore' /\ UnseenAfter' /\ LastPage' /\ ReplyConsistent' /\ PageFull'
    BY <1>1 DEF OffsetExact, SeenBefore, UnseenAfter, LastPage, ReplyConsistent, PageFull, Asking
<1>6. QED
    BY <1>1, <1>2, <1>3, <1>4, <1>5 DEF Walk

\* A new row pushes others to later pages: what is unseen stays ahead.
LEMMA WalkInsert ==
    ASSUME Walk, NEW t \in Rows, Insert(t)
    PROVE  Walk'
<1>1. /\ rows' = rows \cup {t} /\ inserted' = TRUE /\ raced' = (raced \/ pc = "find")
      /\ query' = query /\ pc' = pc /\ total' = total /\ reply' = reply /\ seen' = seen
      /\ old' = old /\ removed' = removed
    BY DEF Insert
<1>2. Skipped' = Skipped /\ Passed' = Passed
    BY <1>1, SamePlace
<1>3. \A r : Newer(r) \in Nat /\ Newer(r)' \in Nat /\ Newer(r) <= Newer(r)'
  <2>1. rows' \in SUBSET Rows /\ rows \in SUBSET rows' /\ rows \in SUBSET Rows
      BY <1>1 DEF Walk, TypeOK
  <2>2. QED
      BY <2>1, NewerInGrows, NewerInType DEF Newer, NewerIn
<1>4. Skipped \in Nat /\ Passed \in Nat
    BY PositionType DEF Walk
<1>5. TypeOK' /\ TotalCounted'
    BY <1>1 DEF Walk, TypeOK, TotalCounted
<1>6. OffsetExact'
    BY <1>1, <1>2 DEF Walk, OffsetExact, Asking
<1>7. SeenBefore' /\ NoRowTwice'
    BY <1>1 DEF SeenBefore, NoRowTwice
<1>8. UnseenAfter'
  <2>1. ASSUME ~removed, Asking, NEW r \in (old \cap Untied) \ seen
        PROVE  r \in rows' /\ Newer(r)' >= Skipped
    <3>1. r \in rows /\ Newer(r) >= Skipped
        BY <2>1 DEF Walk, UnseenAfter
    <3>2. QED
        BY <1>1, <1>3, <1>4, <3>1
  <2>2. ASSUME ~removed, pc = "read", NEW r \in (old \cap Untied) \ (seen \cup reply)
        PROVE  r \in rows' /\ Newer(r)' >= Passed
    <3>1. r \in rows /\ Newer(r) >= Passed
        BY <2>2 DEF Walk, UnseenAfter
    <3>2. QED
        BY <1>1, <1>3, <1>4, <3>1
  <2>3. Asking' <=> Asking
      BY <1>1 DEF Asking
  <2>4. QED
      BY <1>1, <1>2, <2>1, <2>2, <2>3 DEF UnseenAfter
<1>9. LastPage'
    BY <1>1, <1>2 DEF Walk, LastPage
<1>10. WalkHasNoGap'
  <2>1. ASSUME ~removed, pc = "done", NEW r \in (old \cap Untied) \ seen
        PROVE  Newer(r)' >= Passed
    <3>1. Newer(r) >= Passed
        BY <2>1 DEF Walk, WalkHasNoGap
    <3>2. QED
        BY <1>3, <1>4, <3>1
  <2>2. QED
      BY <1>1, <1>2, <2>1 DEF WalkHasNoGap
<1>11. WalkSeesAll' /\ ReplyConsistent' /\ PageFull'
    BY <1>1, <1>2 DEF Walk, WalkSeesAll, ReplyConsistent, PageFull
<1>12. QED
    BY <1>1, <1>5, <1>6, <1>7, <1>8, <1>9, <1>10, <1>11 DEF Walk

\* A row that goes away pulls others forward: what was seen stays behind.
LEMMA WalkRemove ==
    ASSUME Walk, NEW t \in Rows, Remove(t)
    PROVE  Walk'
<1>1. /\ rows' = rows \ {t} /\ removed' = TRUE /\ raced' = (raced \/ pc = "find")
      /\ query' = query /\ pc' = pc /\ total' = total /\ reply' = reply /\ seen' = seen
      /\ old' = old /\ inserted' = inserted
    BY DEF Remove
<1>2. Skipped' = Skipped /\ Passed' = Passed
    BY <1>1, SamePlace
<1>3. \A r : Newer(r) \in Nat /\ Newer(r)' \in Nat /\ Newer(r)' <= Newer(r)
  <2>1. rows' \in SUBSET Rows /\ rows' \in SUBSET rows /\ rows \in SUBSET Rows
      BY <1>1 DEF Walk, TypeOK
  <2>2. QED
      BY <2>1, NewerInGrows, NewerInType DEF Newer, NewerIn
<1>4. Skipped \in Nat /\ Passed \in Nat
    BY PositionType DEF Walk
<1>5. TypeOK' /\ TotalCounted' /\ NoRowTwice'
    BY <1>1 DEF Walk, TypeOK, TotalCounted, NoRowTwice
<1>6. OffsetExact'
    BY <1>1, <1>2 DEF Walk, OffsetExact, Asking
<1>7. UnseenAfter' /\ LastPage' /\ WalkSeesAll' /\ WalkHasNoGap'
    BY <1>1 DEF UnseenAfter, LastPage, WalkSeesAll, WalkHasNoGap
<1>8. SeenBefore'
  <2>1. ASSUME ~inserted, Asking, NEW r \in seen \cap rows'
        PROVE  Newer(r)' < Skipped
    <3>1. Newer(r) < Skipped
        BY <1>1, <2>1 DEF Walk, SeenBefore
    <3>2. QED
        BY <1>3, <1>4, <3>1
  <2>2. ASSUME ~inserted, pc = "read", NEW r \in (seen \cup reply) \cap rows'
        PROVE  Newer(r)' < Passed
    <3>1. Newer(r) < Passed
        BY <1>1, <2>2 DEF Walk, SeenBefore
    <3>2. QED
        BY <1>3, <1>4, <3>1
  <2>3. Asking' <=> Asking
      BY <1>1 DEF Asking
  <2>4. QED
      BY <1>1, <1>2, <2>1, <2>2, <2>3 DEF SeenBefore
<1>9. ReplyConsistent' /\ PageFull'
    BY <1>1, <1>2 DEF Walk, ReplyConsistent, PageFull
<1>10. QED
    BY <1>1, <1>5, <1>6, <1>7, <1>8, <1>9 DEF Walk

LEMMA WalkStutter ==
    ASSUME Walk, UNCHANGED vars
    PROVE  Walk'
<1>1. Skipped' = Skipped /\ Passed' = Passed /\ \A r : Newer(r)' = Newer(r)
    BY SamePlace, SameRows DEF vars
<1>2. TypeOK' /\ TotalCounted' /\ NoRowTwice' /\ WalkSeesAll' /\ ReplyConsistent'
    BY DEF vars, Walk, TypeOK, TotalCounted, NoRowTwice, WalkSeesAll, ReplyConsistent
<1>3. OffsetExact' /\ SeenBefore' /\ UnseenAfter' /\ LastPage' /\ PageFull' /\ WalkHasNoGap'
    BY <1>1 DEF vars, Walk, OffsetExact, SeenBefore, UnseenAfter, LastPage, PageFull,
                WalkHasNoGap, Asking
<1>4. QED
    BY <1>2, <1>3 DEF Walk, vars

\* The invariant of a client's walk through the pages of a list
\* (paginationFromQuery, normalize, the COUNT and the SELECT of a repository's
\* list method, metaFromPagination) holds throughout, whatever is added to the
\* table or taken out of it in between, and in whatever order each SELECT puts
\* rows with equal created_at.
THEOREM WalkAlways == Spec => []Walk
<1>1. Init => Walk
    BY WalkInit
<1>2. Walk /\ [Next]_vars => Walk'
  <2> SUFFICES ASSUME Walk, [Next]_vars
               PROVE  Walk'
      OBVIOUS
  <2>1. CASE \E p, s \in Inputs : Start(p, s)
      BY <2>1, WalkStart
  <2>2. CASE Count
      BY <2>2, WalkCount
  <2>3. CASE Find
      BY <2>3, WalkFind
  <2>4. CASE QueryFails
      BY <2>4, WalkQueryFails
  <2>5. CASE Read
      BY <2>5, WalkReadOn, WalkReadLast
  <2>6. CASE \E r \in Rows : Insert(r) \/ Remove(r)
      BY <2>6, WalkInsert, WalkRemove
  <2>7. CASE UNCHANGED vars
      BY <2>7, WalkStutter
  <2>8. QED
      BY <2>1, <2>2, <2>3, <2>4, <2>5, <2>6, <2>7 DEF Next
<1>3. QED
    BY <1>1, <1>2, PTL DEF Spec

\* A walk from the first page that follows the metadata's page count ends with
\* every row that was there when it began and has a created_at of its own,
\* although rows are added meanwhile, if none goes away and none comes between
\* the last COUNT and its SELECT.  ORDER BY created_at promises nothing more:
\* a row with the created_at of another may be missed.
THEOREM WalkAlwaysSeesAll == Spec => []WalkSeesAll
<1>1. Walk => WalkSeesAll
    BY DEF Walk
<1>2. QED
    BY <1>1, WalkAlways, PTL

\* With any page size, above normalize's cap too, the pages of a walk follow
\* each other without a gap: unless rows go away, the rows without ties that a
\* walk has not returned come after all of its pages.
THEOREM WalkNeverHasGap == Spec => []WalkHasNoGap
<1>1. Walk => WalkHasNoGap
    BY DEF Walk
<1>2. QED
    BY <1>1, WalkAlways, PTL

\* Offsets from normalize return no row with a created_at of its own on two
\* pages of a walk, unless rows are added, whatever the size asked for and the
\* cap.
THEOREM NeverRowTwice == Spec => []NoRowTwice
<1>1. Walk => NoRowTwice
    BY DEF Walk
<1>2. QED
    BY <1>1, WalkAlways, PTL

\* normalize and metaFromPagination agree on which pages have rows.
THEOREM ReplyAlwaysConsistent == Spec => []ReplyConsistent
<1>1. Walk => ReplyConsistent
    BY DEF Walk
<1>2. QED
    BY <1>1, WalkAlways, PTL

\* The SELECT of a page returns as many rows as normalize's limit allows and
\* the COUNT leaves, neither fewer nor more.
THEOREM PageAlwaysFull == Spec => []PageFull
<1>1. Walk => PageFull
    BY DEF Walk
<1>2. QED
    BY <1>1, WalkAlways, PTL
=============================================================================
