---------------------------- MODULE CatalogProofs ----------------------------
(***************************************************************************)
(* Proofs about the listing, for every limit, collection and clock: pages  *)
(* partition it, the buttons of the pagination bar stay within it, a       *)
(* reader is stranded on an empty page only by haste or because the        *)
(* collection has shrunk, and pages that were read together show every     *)
(* event once.                                                             *)
(***************************************************************************)
EXTENDS Catalog, FiniteSetTheorems, TLAPS

-----------------------------------------------------------------------------
(* Page arithmetic. *)

\* Division with remainder.
LEMMA Division ==
    ASSUME NEW m \in Nat, NEW l \in Nat \ {0}
    PROVE  /\ m \div l \in Nat
           /\ (m \div l) * l <= m
           /\ m < (m \div l) * l + l
OBVIOUS

\* utils/pagination.js: whatever number a query carries, MongoDB is asked for at
\* least one event, which matters because a limit of 0 means no limit to it, for
\* at most a hundred, and never to skip a negative number.
THEOREM ParsedBounds ==
    ASSUME NEW n \in Int, NEW m \in Int
    PROVE  LimitOf(m) \in 1..MaxLimit /\ Skip(PageOf(n), LimitOf(m)) \in Nat
<1>1. LimitOf(m) \in 1..MaxLimit
  BY DEF LimitOf, MaxLimit, DefaultLimit
<1>2. PageOf(n) - 1 \in Nat
  BY DEF PageOf
<1>3. \A i \in Nat, j \in Nat : i * j \in Nat
  OBVIOUS
<1>4. LimitOf(m) \in Nat
  BY <1>1 DEF MaxLimit
<1> QED
  BY <1>1, <1>2, <1>3, <1>4 DEF Skip

\* Multiplication by a limit is monotonic.
LEMMA Monotonic ==
    ASSUME NEW m \in Int, NEW n \in Int, NEW l \in Nat \ {0}, m <= n
    PROVE  m * l <= n * l
OBVIOUS

\* The number of pages is the quotient rounded up.
LEMMA Ceiling ==
    ASSUME NEW total \in Nat, NEW limit \in Nat \ {0}
    PROVE  /\ TotalPages(total, limit) \in Nat
           /\ TotalPages(total, limit) * limit < total + limit
           /\ total <= TotalPages(total, limit) * limit
<1> DEFINE m == total + limit - 1
           q == m \div limit
<1>1. m \in Nat
  OBVIOUS
<1>2. q \in Nat /\ q * limit <= m /\ m < q * limit + limit
  BY <1>1, Division
<1>3. TotalPages(total, limit) = q
  BY DEF TotalPages
<1> HIDE DEF q
<1>4. q * limit \in Nat
  BY <1>2
<1> QED
  BY <1>2, <1>3, <1>4

\* A page of the listing starts before its end.
LEMMA PageStarts ==
    ASSUME NEW total \in Nat, NEW limit \in Nat \ {0},
           NEW p \in 1..TotalPages(total, limit)
    PROVE  Skip(p, limit) < total
<1> DEFINE q == TotalPages(total, limit)
<1>1. q \in Nat /\ q * limit < total + limit
  BY Ceiling
<1> HIDE DEF q
<1>2. p * limit <= q * limit
  BY <1>1, Monotonic DEF q
<1>3. (p - 1) * limit = p * limit - limit /\ p * limit \in Int /\ q * limit \in Int
  BY <1>1
<1> QED
  BY <1>1, <1>2, <1>3 DEF Skip

\* utils/pagination.js: every position of a listing is on exactly one of its
\* pages, whatever the total and the limit.
THEOREM PagesPartition ==
    ASSUME NEW total \in Nat, NEW limit \in Nat \ {0}, NEW i \in 1..total
    PROVE  \E p \in 1..TotalPages(total, limit) :
              /\ i \in (Skip(p, limit) + 1)..(Skip(p, limit) + limit)
              /\ \A q \in 1..TotalPages(total, limit) :
                    i \in (Skip(q, limit) + 1)..(Skip(q, limit) + limit) => q = p
<1> DEFINE d == (i - 1) \div limit
           n == TotalPages(total, limit)
<1>1. d \in Nat /\ d * limit <= i - 1 /\ i - 1 < d * limit + limit
  BY Division
<1>2. n \in Nat /\ total <= n * limit
  BY Ceiling
<1> HIDE DEF d, n
<1>3. d * limit \in Nat /\ n * limit \in Nat
  BY <1>1, <1>2
<1>4. d < n
  <2> SUFFICES ASSUME n <= d PROVE FALSE
    BY <1>1, <1>2
  <2>1. n * limit <= d * limit
    BY <1>1, <1>2, Monotonic
  <2> QED
    BY <1>1, <1>2, <1>3, <2>1
<1>5. Skip(d + 1, limit) = d * limit
  BY <1>1 DEF Skip
<1>6. i \in (Skip(d + 1, limit) + 1)..(Skip(d + 1, limit) + limit)
  BY <1>1, <1>3, <1>5
<1>7. ASSUME NEW q \in 1..n, i \in (Skip(q, limit) + 1)..(Skip(q, limit) + limit)
      PROVE  q = d + 1
  <2>1. (q - 1) * limit \in Int
    BY <1>2
  <2>2. (q - 1) * limit < i /\ i <= (q - 1) * limit + limit
    BY <1>7, <2>1 DEF Skip
  <2>3. ~(q - 1 > d)
    <3> SUFFICES ASSUME q - 1 > d PROVE FALSE
      OBVIOUS
    <3>1. (d + 1) * limit <= (q - 1) * limit
      BY <1>1, <1>2, Monotonic
    <3>2. (d + 1) * limit = d * limit + limit
      BY <1>1
    <3> QED
      BY <1>1, <1>3, <2>1, <2>2, <3>1, <3>2
  <2>4. ~(q - 1 < d)
    <3> SUFFICES ASSUME q - 1 < d PROVE FALSE
      OBVIOUS
    <3>1. q * limit <= d * limit
      BY <1>1, <1>2, Monotonic
    <3>2. (q - 1) * limit = q * limit - limit
      BY <1>2
    <3> QED
      BY <1>1, <1>3, <2>1, <2>2, <3>1, <3>2
  <2> QED
    BY <1>1, <1>2, <2>3, <2>4
<1>8. d + 1 \in 1..n
  BY <1>1, <1>2, <1>4
<1> QED
  BY <1>6, <1>7, <1>8 DEF n

-----------------------------------------------------------------------------
(* The inductive invariant. *)

\* An answer for page p, as far as it has been read: its rows are those after
\* the ones of the pages before, so none means that there are no more; and the bar
\* that led to it told of the page, and was counted before.
Belongs(a, p) ==
    /\ a.page = p
    /\ a.read # 0 /\ a.rows = {} => Cardinality(past[a.read]) <= Skip(p, Limit)
    /\ a.led # 0 => /\ p \in 1..TotalPages(Cardinality(past[a.led]), Limit)
                    /\ a.read = 0 \/ a.led <= a.read

Complete(a) == a.read # 0 /\ a.counted # 0

AnswersHeld ==
    /\ Len(past) # 0
    /\ last = None \/ Complete(last)
    /\ \A p \in Pages :
          /\ cache[p] = None \/ (Complete(cache[p]) /\ Belongs(cache[p], p))
          /\ fetches[p] = NoFetch \/ Belongs(fetches[p].answer, p)

CatalogInv == TypeOK /\ AnswersHeld /\ PageInRange

\* The number of the events of a collection.
LEMMA CollectionSize ==
    ASSUME NEW S \in SUBSET Events
    PROVE  Cardinality(S) \in Nat
BY CatalogAssumption, FS_Subset, FS_CardinalityType

\* The pagination bar counts the events of a collection.
LEMMA ShownCounted ==
    ASSUME CatalogInv, BarShown
    PROVE  /\ Shown \in Answer /\ Complete(Shown)
           /\ Total(Shown) \in Nat
           /\ TotalPages(Total(Shown), Limit) \in Nat
           /\ ~Placeholder => Shown.page = page
<1>1. Shown \in Answer /\ (Shown = None \/ Complete(Shown))
  BY DEF CatalogInv, TypeOK, AnswersHeld, Shown
<1>2. Complete(Shown)
  BY <1>1 DEF BarShown, None
<1>3. past[Shown.counted] \in SUBSET Events
  BY <1>1, <1>2 DEF Complete, Answer, CatalogInv, TypeOK
<1>4. Total(Shown) \in Nat
  BY <1>3, CollectionSize DEF Total
<1>5. TotalPages(Total(Shown), Limit) \in Nat
  BY <1>4, CatalogAssumption, Ceiling
<1>6. ~Placeholder => Shown.page = page
  BY DEF Placeholder, Shown, CatalogInv, TypeOK, AnswersHeld, Belongs
<1> QED
  BY <1>1, <1>2, <1>4, <1>5, <1>6

\* Nothing is shown at first, and page 1 is being fetched.
LEMMA InitCatalog == Init => CatalogInv
<1> SUFFICES ASSUME Init PROVE CatalogInv
  OBVIOUS
<1>1. PICK S \in SUBSET Events : past = <<S>>
  BY CatalogAssumption DEF Init
<1>2. past \in Seq(SUBSET Events) /\ Len(past) = 1
  BY <1>1
<1>3. None \in Answer
  BY <1>2, CatalogAssumption DEF Answer, None, Pages
<1>4. 1 \in Pages
  BY CatalogAssumption DEF Pages
<1>5. /\ [page |-> 1, rows |-> {}, read |-> 0, counted |-> 0, led |-> 0] \in Answer
      /\ [page |-> 0, rows |-> {}, read |-> 0, counted |-> 0, led |-> 0] \in Answer
  BY <1>2, <1>4, CatalogAssumption DEF Answer, Pages
<1>6. NewFetch(1, 0) \in [pc : {"idle", "sent"}, answer : Answer] /\ NoFetch \in [pc : {"idle", "sent"}, answer : Answer]
  BY <1>5 DEF NewFetch, NoFetch, None
<1>7. TypeOK
  BY <1>2, <1>3, <1>4, <1>6 DEF Init, TypeOK
<1>8. AnswersHeld
  BY <1>2 DEF Init, AnswersHeld, Belongs, NewFetch, None
<1>9. PageInRange
  BY DEF Init, PageInRange
<1> QED
  BY <1>7, <1>8, <1>9 DEF CatalogInv

\* A fetch that begins has read nothing; what asks for it is a bar that tells of
\* the page, or none.
LEMMA NewFetchBelongs ==
    ASSUME CatalogInv, NEW p \in Pages, NEW b \in 0..Len(past),
           b # 0 => p \in 1..TotalPages(Cardinality(past[b]), Limit)
    PROVE  /\ NewFetch(p, b) \in [pc : {"idle", "sent"}, answer : Answer]
           /\ Belongs(NewFetch(p, b).answer, p)
<1> DEFINE a == [page |-> p, rows |-> {}, read |-> 0, counted |-> 0, led |-> b]
<1>1. NewFetch(p, b) = [pc |-> "sent", answer |-> a]
  BY DEF NewFetch, None
<1>2. a \in Answer
  BY DEF Answer, CatalogInv, TypeOK
<1>3. Belongs(a, p)
  BY DEF Belongs
<1> QED
  BY <1>1, <1>2, <1>3

\* Turning to a page by a bar that tells of it, or by none, keeps the invariant.
LEMMA TurnKeeps ==
    ASSUME CatalogInv, NEW p \in Pages, NEW b \in 0..Len(past), Turn(p, b), timer' \in BOOLEAN,
           b # 0 => p \in 1..TotalPages(Cardinality(past[b]), Limit)
    PROVE  CatalogInv'
<1> USE DEF CatalogInv
<1>1. Shown \in Answer /\ (Shown = None \/ Complete(Shown))
  BY DEF TypeOK, AnswersHeld, Shown
<1>2. 0 \in 0..Len(past) /\ None \in Answer
  BY CatalogAssumption DEF None, Answer, Pages, TypeOK
<1>3. bar' \in 0..Len(past) /\ (bar' # 0 => p \in 1..TotalPages(Cardinality(past[bar']), Limit))
  BY <1>2 DEF Turn
<1> DEFINE f == NewFetch(p, bar')
<1>4. f \in [pc : {"idle", "sent"}, answer : Answer] /\ Belongs(f.answer, p)
  BY <1>3, NewFetchBelongs
<1>5. last' \in Answer /\ (last' = None \/ Complete(last'))
  BY <1>1, <1>2 DEF Turn
<1>6. fetches' = [fetches EXCEPT ![p] = fetches'[p]] /\ fetches'[p] \in {fetches[p], f}
  BY DEF Turn, Fetch, TypeOK
<1>7. UNCHANGED <<past, cache>> /\ page' = p /\ error' \in SUBSET Pages
  BY DEF Turn, Fetch, TypeOK
<1>8. Answer' = Answer
  BY <1>7 DEF Answer
<1> HIDE DEF f
<1>9. TypeOK'
  <2>1. fetches' \in [Pages -> [pc : {"idle", "sent"}, answer : Answer']]
    BY <1>4, <1>6, <1>8 DEF TypeOK
  <2>2. last' \in Answer' /\ bar' \in 0..Len(past')
    BY <1>3, <1>5, <1>7, <1>8
  <2> QED
    BY <1>7, <1>8, <2>1, <2>2 DEF TypeOK
<1>10. AnswersHeld'
  <2>1. ASSUME NEW q \in Pages
        PROVE  (fetches[q] = NoFetch \/ Belongs(fetches[q].answer, q))'
    <3>1. fetches'[q] = fetches[q] \/ (q = p /\ fetches'[q] = f)
      BY <1>6 DEF TypeOK
    <3> QED
      BY <1>4, <1>7, <3>1 DEF AnswersHeld, Belongs
  <2> QED
    BY <1>5, <1>7, <2>1 DEF AnswersHeld, Belongs, Complete
<1>11. PageInRange'
  BY <1>3, <1>7 DEF PageInRange
<1> QED
  BY <1>9, <1>10, <1>11

\* The buttons: of the bar that is shown, the next page exists, the previous one
\* lies between two that do, and so does any that is chosen by its number.
LEMMA ButtonsKeep ==
    ASSUME CatalogInv, GoNext \/ GoPrev \/ (\E p \in Pages : GoTo(p)) \/ Debounce
    PROVE  CatalogInv'
<1> USE DEF CatalogInv
<1>0. page \in Pages /\ bar \in 0..Len(past) /\ timer \in BOOLEAN /\ 0 \in 0..Len(past)
  BY DEF TypeOK
<1>1. CASE GoNext
  <2> DEFINE b == IF Placeholder THEN 0 ELSE Shown.counted
  <2>1. /\ Shown.counted \in 0..Len(past) /\ TotalPages(Total(Shown), Limit) \in Nat
        /\ ~Placeholder => Shown.page = page
    BY <1>1, ShownCounted DEF GoNext, Answer
  <2>2. page + 1 \in Pages /\ Turn(page + 1, b) /\ timer' = timer
    BY <1>0, <1>1, CatalogAssumption DEF GoNext, Pages
  <2>3. Shown.page < TotalPages(Total(Shown), Limit)
    BY <1>1 DEF GoNext, HasNextPage
  <2>4. b \in 0..Len(past) /\ (b # 0 => page + 1 \in 1..TotalPages(Cardinality(past[b]), Limit))
    BY <1>0, <2>1, <2>3 DEF Total, Pages
  <2> HIDE DEF b
  <2> QED
    BY <1>0, <2>2, <2>4, TurnKeeps
<1>2. CASE GoPrev
  <2> DEFINE b == IF Placeholder THEN 0 ELSE bar
  <2>1. ~Placeholder => Shown.page = page
    BY <1>2, ShownCounted DEF GoPrev
  <2>2. page - 1 \in Pages /\ Turn(page - 1, b) /\ timer' = timer /\ Shown.page > 1
    BY <1>0, <1>2, CatalogAssumption DEF GoPrev, HasPrevPage, Pages
  <2>3. b \in 0..Len(past) /\ (b # 0 => page - 1 \in 1..TotalPages(Cardinality(past[b]), Limit))
    <3>1. bar # 0 => TotalPages(Cardinality(past[bar]), Limit) \in Nat
      <4>1. bar # 0 => past[bar] \in SUBSET Events
        BY <1>0 DEF TypeOK
      <4> QED
        BY <4>1, CollectionSize, CatalogAssumption, Ceiling
    <3> QED
      BY <1>0, <2>1, <2>2, <3>1 DEF PageInRange, Pages
  <2> HIDE DEF b
  <2> QED
    BY <1>0, <2>2, <2>3, TurnKeeps
<1>3. ASSUME NEW p \in Pages, GoTo(p)
      PROVE  CatalogInv'
  <2>1. Shown.counted \in 0..Len(past)
    BY <1>3, ShownCounted DEF GoTo, Answer
  <2> QED
    BY <1>0, <1>3, <2>1, TurnKeeps DEF GoTo, Total
<1>4. CASE Debounce
  <2>1. 1 \in Pages
    BY CatalogAssumption DEF Pages
  <2> QED
    BY <1>0, <1>4, <2>1, TurnKeeps DEF Debounce
<1> QED
  BY <1>1, <1>2, <1>3, <1>4

\* A step that changes the answer being fetched for one page, and nothing else
\* the invariant is about.
LEMMA FetchKeeps ==
    ASSUME CatalogInv, NEW p \in Pages,
           NEW f, f = NoFetch \/ (f \in [pc : {"idle", "sent"}, answer : Answer] /\ Belongs(f.answer, p)),
           fetches' = [fetches EXCEPT ![p] = f],
           UNCHANGED <<past, page, timer, cache, last, bar>>,
           error' \in SUBSET Pages
    PROVE  CatalogInv'
<1> USE DEF CatalogInv
<1>1. Answer' = Answer
  BY DEF Answer
<1>2. NoFetch \in [pc : {"idle", "sent"}, answer : Answer]
  BY CatalogAssumption DEF NoFetch, None, Answer, Pages, TypeOK
<1>3. TypeOK'
  BY <1>1, <1>2 DEF TypeOK
<1>4. AnswersHeld'
  BY DEF AnswersHeld, Belongs, Complete, TypeOK
<1>5. PageInRange'
  BY DEF PageInRange
<1> QED
  BY <1>3, <1>4, <1>5

\* A page is empty only if the pages before hold the whole collection.
LEMMA EmptySlice ==
    ASSUME NEW S \in SUBSET Events, NEW rows \in SUBSET S, NEW p \in Pages, p >= 1,
           Slice(S, rows, p), rows = {}
    PROVE  Cardinality(S) <= Skip(p, Limit)
<1>1. PICK skipped \in SUBSET (S \ rows) :
         /\ Cardinality(skipped) = Least(Skip(p, Limit), Cardinality(S))
         /\ Cardinality(rows) = Least(Limit, Cardinality(S) - Cardinality(skipped))
  BY DEF Slice
<1>2. Cardinality(S) \in Nat /\ Cardinality(skipped) \in Nat /\ Cardinality(rows) = 0
  BY CollectionSize, FS_EmptySet
<1>3. (p - 1) * Limit \in Int
  BY CatalogAssumption DEF Pages
<1> QED
  BY <1>1, <1>2, <1>3, CatalogAssumption DEF Least, Skip

\* The two queries of a listing.
LEMMA QueriesKeep ==
    ASSUME CatalogInv, NEW p \in Pages, Find(p) \/ Count(p) \/ Fail(p)
    PROVE  CatalogInv'
<1> DEFINE a == fetches[p].answer
<1> USE DEF CatalogInv
<1>0. /\ fetches[p] \in [pc : {"idle", "sent"}, answer : Answer]
      /\ fetches[p] = NoFetch \/ Belongs(a, p)
      /\ past \in Seq(SUBSET Events) /\ Len(past) \in 1..Len(past)
      /\ error \in SUBSET Pages
  BY DEF TypeOK, AnswersHeld
<1>1. CASE Find(p)
  <2>1. PICK rows \in SUBSET Now :
           /\ Slice(Now, rows, p)
           /\ fetches' = [fetches EXCEPT ![p].answer = [@ EXCEPT !.rows = rows, !.read = Len(past)]]
    BY <1>1 DEF Find
  <2> DEFINE b == [a EXCEPT !.rows = rows, !.read = Len(past)]
             f == [fetches[p] EXCEPT !.answer = b]
  <2>2. Now \in SUBSET Events
    BY <1>0 DEF Now
  <2>3. b \in Answer /\ f \in [pc : {"idle", "sent"}, answer : Answer]
    <3>1. a \in Answer /\ rows \in SUBSET Events /\ Len(past) \in 0..Len(past)
      BY <1>0, <2>2
    <3>2. b \in Answer
      BY <3>1 DEF Answer
    <3> QED
      BY <1>0, <3>2
  <2>4. Belongs(f.answer, p)
    <3>0. fetches[p].pc = "sent" /\ p >= 1
      BY <1>1 DEF Find
    <3>1. fetches[p] # NoFetch /\ p >= 1
      BY <3>0 DEF NoFetch
    <3>2. rows = {} => Cardinality(Now) <= Skip(p, Limit)
      BY <2>1, <2>2, <3>1, EmptySlice
    <3>3. b.page = a.page /\ b.rows = rows /\ b.read = Len(past) /\ b.led = a.led /\ f.answer = b
      BY <1>0 DEF Answer
    <3>4. a.led \in 0..Len(past) /\ Belongs(a, p) /\ Len(past) \in Nat
      BY <1>0, <3>1 DEF Answer
    <3> HIDE DEF a, b, f
    <3> QED
      BY <3>2, <3>3, <3>4 DEF Belongs, Now
  <2>5. fetches' = [fetches EXCEPT ![p] = f]
    BY <2>1 DEF TypeOK
  <2> HIDE DEF f
  <2> QED
    BY <1>0, <1>1, <2>3, <2>4, <2>5, FetchKeeps DEF Find
<1>2. CASE Count(p)
  <2> DEFINE f == [fetches[p] EXCEPT !.answer.counted = Len(past)]
  <2>1. fetches[p] # NoFetch
    BY <1>2 DEF Count, NoFetch
  <2>2. f \in [pc : {"idle", "sent"}, answer : Answer] /\ Belongs(f.answer, p)
    <3> DEFINE b == [a EXCEPT !.counted = Len(past)]
    <3>1. a \in Answer /\ Belongs(a, p) /\ Len(past) \in 0..Len(past)
      BY <1>0, <2>1
    <3>2. b \in Answer
      BY <3>1 DEF Answer
    <3>3. b.page = a.page /\ b.rows = a.rows /\ b.read = a.read /\ b.led = a.led
      BY <3>1 DEF Answer
    <3>4. f = [fetches[p] EXCEPT !.answer = b]
      BY <1>0
    <3>5. f \in [pc : {"idle", "sent"}, answer : Answer] /\ f.answer = b
      BY <1>0, <3>2, <3>4
    <3> QED
      BY <3>1, <3>3, <3>5 DEF Belongs
  <2>3. fetches' = [fetches EXCEPT ![p] = f]
    BY <1>2 DEF Count, TypeOK
  <2> HIDE DEF f
  <2> QED
    BY <1>0, <1>2, <2>2, <2>3, FetchKeeps DEF Count
<1>3. CASE Fail(p)
  BY <1>0, <1>3, FetchKeeps DEF Fail
<1> QED
  BY <1>1, <1>2, <1>3

\* An answer that arrives belongs to its page and is complete.
LEMMA ArrivalKeeps ==
    ASSUME CatalogInv, NEW p \in Pages, Arrive(p)
    PROVE  CatalogInv'
<1> DEFINE a == fetches[p].answer
<1> USE DEF CatalogInv
<1>1. a \in Answer /\ Complete(a) /\ Belongs(a, p)
  <2>1. fetches[p] # NoFetch
    BY DEF Arrive, NoFetch, None
  <2> QED
    BY <2>1 DEF Arrive, Complete, TypeOK, AnswersHeld
<1> DEFINE c == Recorded(a)
<1>2. c \in Answer /\ Complete(c) /\ Belongs(c, p)
  <2>1. 0 \in 0..Len(past)
    BY DEF TypeOK
  <2>2. c \in Answer /\ c.page = a.page /\ c.rows = a.rows /\ c.read = a.read
        /\ c.counted = a.counted /\ c.led \in {a.led, 0}
    BY <1>1, <2>1 DEF Answer, Recorded
  <2> HIDE DEF c
  <2> QED
    BY <1>1, <2>2 DEF Complete, Belongs
<1>3. NoFetch \in [pc : {"idle", "sent"}, answer : Answer] /\ None \in Answer
  BY CatalogAssumption DEF NoFetch, None, Answer, Pages, TypeOK
<1>4. /\ UNCHANGED <<past, page, timer, bar>>
      /\ cache' = [cache EXCEPT ![p] = c]
      /\ error' = error \ {p}
      /\ fetches' = [fetches EXCEPT ![p] = NoFetch]
      /\ last' \in {last, None}
  BY DEF Arrive
<1> HIDE DEF c
<1>5. Answer' = Answer
  BY <1>4 DEF Answer
<1>6. TypeOK'
  <2>1. /\ cache' \in [Pages -> Answer]
        /\ fetches' \in [Pages -> [pc : {"idle", "sent"}, answer : Answer]]
        /\ last' \in Answer
    BY <1>2, <1>3, <1>4 DEF TypeOK
  <2>2. \A q \in Pages : cache'[q] = None
             \/ (cache'[q].page = q /\ 0 \notin {cache'[q].read, cache'[q].counted})
    BY <1>2, <1>4 DEF TypeOK, Belongs, Complete
  <2> QED
    BY <1>4, <1>5, <2>1, <2>2 DEF TypeOK
<1>7. AnswersHeld'
  BY <1>2, <1>4 DEF AnswersHeld, Belongs, Complete, TypeOK
<1>8. PageInRange'
  BY <1>4 DEF PageInRange
<1> QED
  BY <1>6, <1>7, <1>8

\* What has been read stays what the collection was then.
LEMMA ChangeKeeps ==
    ASSUME CatalogInv, Change
    PROVE  CatalogInv'
<1> USE DEF CatalogInv
<1>1. PICK S : S \in SUBSET Events /\ past' = Append(past, S)
  <2>1. Now \in SUBSET Events
    BY DEF Now, TypeOK, AnswersHeld
  <2> QED
    BY <2>1 DEF Change
<1>2. /\ past' \in Seq(SUBSET Events) /\ Len(past') = Len(past) + 1 /\ Len(past) \in Nat
      /\ \A i \in 1..Len(past) : past'[i] = past[i]
  BY <1>1 DEF TypeOK
<1>3. UNCHANGED <<page, timer, cache, error, fetches, last, bar>>
  BY DEF Change, answers
<1>4. Answer \subseteq Answer'
  BY <1>2 DEF Answer
<1>5. TypeOK'
  <2>1. cache \in [Pages -> Answer'] /\ last \in Answer'
    BY <1>4 DEF TypeOK
  <2>2. fetches \in [Pages -> [pc : {"idle", "sent"}, answer : Answer']]
    BY <1>4 DEF TypeOK
  <2> QED
    BY <1>2, <1>3, <2>1, <2>2 DEF TypeOK
<1>6. ASSUME NEW a \in Answer, NEW p \in Pages, Belongs(a, p)
      PROVE  /\ a.page = p
             /\ a.read # 0 /\ a.rows = {} => Cardinality(past'[a.read]) <= Skip(p, Limit)
             /\ a.led # 0 => /\ p \in 1..TotalPages(Cardinality(past'[a.led]), Limit)
                             /\ a.read = 0 \/ a.led <= a.read
  BY <1>2, <1>6 DEF Belongs, Answer
<1>7. AnswersHeld'
  <2>1. ASSUME NEW p \in Pages
        PROVE  /\ cache'[p] = None \/ (Complete(cache'[p]) /\ Belongs(cache[p], p)')
               /\ fetches'[p] = NoFetch \/ Belongs(fetches[p].answer, p)'
    <3>1. cache[p] \in Answer /\ fetches[p].answer \in Answer
      BY DEF TypeOK
    <3>2. cache[p] = None \/ (Complete(cache[p]) /\ Belongs(cache[p], p))
      BY DEF AnswersHeld
    <3>3. fetches[p] = NoFetch \/ Belongs(fetches[p].answer, p)
      BY DEF AnswersHeld
    <3> QED
      BY <1>3, <1>6, <3>1, <3>2, <3>3 DEF Belongs
  <2> QED
    BY <1>2, <1>3, <2>1 DEF AnswersHeld, Complete
<1>8. PageInRange'
  BY <1>2, <1>3 DEF PageInRange, TypeOK
<1> QED
  BY <1>5, <1>7, <1>8

\* A retry, and data that is dropped.
LEMMA RestKeeps ==
    ASSUME CatalogInv, Refetch \/ (\E p \in Pages : Collect(p)) \/ UNCHANGED vars
    PROVE  CatalogInv'
<1> USE DEF CatalogInv
<1>1. CASE Refetch
  <2> DEFINE f == NewFetch(page, bar)
  <2>1. page \in Pages /\ bar \in 0..Len(past)
    BY DEF TypeOK
  <2>2. f \in [pc : {"idle", "sent"}, answer : Answer] /\ Belongs(f.answer, page)
    BY <2>1, NewFetchBelongs DEF PageInRange
  <2>3. fetches' = [fetches EXCEPT ![page] = f]
    BY <1>1 DEF Refetch, Fetch
  <2>4. UNCHANGED <<past, page, timer, cache, last, bar>>
    BY <1>1 DEF Refetch
  <2>5. error' \in SUBSET Pages
    BY <1>1 DEF Refetch, Fetch, TypeOK
  <2> HIDE DEF f
  <2> QED
    BY <2>1, <2>2, <2>3, <2>4, <2>5, FetchKeeps
<1>2. ASSUME NEW p \in Pages, Collect(p)
      PROVE  CatalogInv'
  <2>1. /\ error' = error \ {p} /\ cache' = [cache EXCEPT ![p] = None]
        /\ UNCHANGED <<past, page, timer, fetches, last, bar>>
    BY <1>2 DEF Collect
  <2>2. Answer' = Answer /\ None \in Answer
    BY <2>1, CatalogAssumption DEF Answer, None, Pages, TypeOK
  <2>3. /\ cache' \in [Pages -> Answer]
        /\ \A q \in Pages : cache'[q] \in {None, cache[q]}
    BY <2>1, <2>2 DEF TypeOK
  <2>4. TypeOK'
    BY <2>1, <2>2, <2>3 DEF TypeOK
  <2>5. AnswersHeld'
    BY <2>1, <2>3 DEF AnswersHeld, Belongs, Complete
  <2>6. PageInRange'
    BY <2>1 DEF PageInRange
  <2> QED
    BY <2>4, <2>5, <2>6
<1>3. CASE UNCHANGED vars
  BY <1>3 DEF vars, answers, TypeOK, AnswersHeld, PageInRange, Answer, Belongs, Complete
<1> QED
  BY <1>1, <1>2, <1>3

\* Every step keeps the invariant.
LEMMA NextKeepsCatalog == CatalogInv /\ [Next]_vars => CatalogInv'
BY ButtonsKeep, QueriesKeep, ArrivalKeeps, ChangeKeeps, RestKeeps DEF Next

\* EventsPage.jsx: the inductive invariant holds in every state.
THEOREM CatalogInvariance == Spec => []CatalogInv
BY InitCatalog, NextKeepsCatalog, PTL DEF Spec

\* EventsPage.jsx: all variables keep their types, and an answer that is held is
\* complete and belongs to its page.
THEOREM CatalogTypes == Spec => []TypeOK
BY CatalogInvariance, PTL DEF CatalogInv

\* EventsPage.jsx: without a hasty click the page asked for is one that the
\* pagination bar which led to it has told of.
THEOREM ButtonsInRange == Spec => []PageInRange
BY CatalogInvariance, PTL DEF CatalogInv

\* EventsPage.jsx, event.repository.js: an empty later page was asked for in haste,
\* or else the collection was smaller when the page was read than before, when the
\* pagination bar that led to it was counted.
THEOREM StrandedByChange == Spec => []StrandedOnlyBy
<1>1. CatalogInv => StrandedOnlyBy
  <2> DEFINE a == cache[page]
  <2> SUFFICES ASSUME CatalogInv, a # None, a.rows = {}, a.led # 0
               PROVE  a.led <= a.read /\ Cardinality(past[a.read]) < Cardinality(past[a.led])
    BY DEF StrandedOnlyBy
  <2>1. page \in Pages /\ a \in Answer
    BY DEF CatalogInv, TypeOK
  <2>2. Complete(a) /\ Belongs(a, page)
    BY <2>1 DEF CatalogInv, AnswersHeld
  <2>3. /\ Cardinality(past[a.read]) <= Skip(page, Limit)
        /\ page \in 1..TotalPages(Cardinality(past[a.led]), Limit)
        /\ a.led <= a.read
    BY <2>2 DEF Complete, Belongs
  <2>4. past[a.read] \in SUBSET Events /\ past[a.led] \in SUBSET Events
    BY <2>1, <2>2 DEF CatalogInv, TypeOK, Answer, Complete
  <2>5. Cardinality(past[a.read]) \in Nat /\ Cardinality(past[a.led]) \in Nat
    BY <2>4, CollectionSize
  <2>6. Skip(page, Limit) < Cardinality(past[a.led])
    BY <2>3, <2>5, PageStarts, CatalogAssumption
  <2>7. Skip(page, Limit) \in Int
    BY <2>1, CatalogAssumption DEF Skip, Pages
  <2> QED
    BY <2>3, <2>5, <2>6, <2>7
<1> QED
  BY <1>1, CatalogInvariance, PTL

-----------------------------------------------------------------------------
(* Every event on one page. *)

\* The events that come before e.
Before(S, e) == {d \in S : Rank[d] < Rank[e]}

\* No two events tie in the sort field.
Untied(S) == \A d, e \in S : Rank[d] = Rank[e] => d = e

\* In an order without ties, the first events are those with fewer before them
\* than there are of the first.
LEMMA FirstOnes ==
    ASSUME NEW S \in SUBSET Events, Untied(S), NEW T \in SUBSET S,
           \A d \in T, e \in S \ T : Rank[d] <= Rank[e], NEW e \in S
    PROVE  /\ Cardinality(Before(S, e)) \in Nat /\ Cardinality(T) \in Nat
           /\ e \in T <=> Cardinality(Before(S, e)) < Cardinality(T)
<1>1. IsFiniteSet(S) /\ IsFiniteSet(T)
  BY CatalogAssumption, FS_Subset
<1>2. /\ IsFiniteSet(Before(S, e)) /\ Before(S, e) \in SUBSET S
      /\ Cardinality(Before(S, e)) \in Nat /\ Cardinality(T) \in Nat
  <2>1. Before(S, e) \in SUBSET S
    BY DEF Before
  <2> QED
    BY <1>1, <2>1, FS_Subset, FS_CardinalityType
<1>3. \A d \in S : Rank[d] \in Nat
  BY CatalogAssumption
<1>4. CASE e \in T
  <2>1. Before(S, e) \in SUBSET (T \ {e})
    BY <1>3, <1>4 DEF Before
  <2>2. IsFiniteSet(T \ {e}) /\ Cardinality(T \ {e}) = Cardinality(T) - 1
    BY <1>1, <1>4, FS_RemoveElement
  <2>3. Cardinality(Before(S, e)) <= Cardinality(T \ {e})
    BY <2>1, <2>2, FS_Subset
  <2> QED
    BY <1>2, <1>4, <2>2, <2>3
<1>5. CASE e \notin T
  <2>1. T \in SUBSET Before(S, e)
    BY <1>3, <1>5 DEF Before, Untied
  <2>2. Cardinality(T) <= Cardinality(Before(S, e))
    BY <1>2, <2>1, FS_Subset
  <2> QED
    BY <1>2, <1>5, <2>2
<1> QED
  BY <1>2, <1>4, <1>5

\* The rows of a page are the events whose place in the order is on it.
LEMMA SlicePlaces ==
    ASSUME NEW S \in SUBSET Events, Untied(S), NEW rows \in SUBSET S, NEW p \in Nat \ {0},
           Slice(S, rows, p), NEW e \in S
    PROVE  /\ Cardinality(Before(S, e)) \in Nat
           /\ Cardinality(Before(S, e)) < Cardinality(S)
           /\ e \in rows <=>
                 Cardinality(Before(S, e)) + 1 \in (Skip(p, Limit) + 1)..(Skip(p, Limit) + Limit)
<1> DEFINE i == Cardinality(Before(S, e))
<1>1. PICK skipped \in SUBSET (S \ rows) :
        /\ Cardinality(skipped) = Least(Skip(p, Limit), Cardinality(S))
        /\ Cardinality(rows) = Least(Limit, Cardinality(S) - Cardinality(skipped))
        /\ \A d \in skipped, f \in S \ skipped : Rank[d] <= Rank[f]
        /\ \A d \in rows, f \in S \ (skipped \cup rows) : Rank[d] <= Rank[f]
  BY DEF Slice
<1>2. i \in Nat /\ Cardinality(skipped) \in Nat /\ (e \in skipped <=> i < Cardinality(skipped))
  BY <1>1, FirstOnes
<1> DEFINE T == skipped \cup rows
<1>3. i \in Nat /\ Cardinality(T) \in Nat /\ (e \in T <=> i < Cardinality(T))
  <2>1. T \in SUBSET S /\ \A d \in T, f \in S \ T : Rank[d] <= Rank[f]
    BY <1>1
  <2> QED
    BY <2>1, FirstOnes
<1>4. Cardinality(T) = Cardinality(skipped) + Cardinality(rows) /\ Cardinality(rows) \in Nat
  <2>1. IsFiniteSet(skipped) /\ IsFiniteSet(rows) /\ skipped \cap rows = {}
    BY <1>1, CatalogAssumption, FS_Subset
  <2>2. Cardinality(skipped) \in Nat /\ Cardinality(rows) \in Nat
    BY <2>1, FS_CardinalityType
  <2> QED
    BY <2>1, <2>2, FS_Union, FS_EmptySet
<1>5. Cardinality(S) \in Nat /\ i < Cardinality(S)
  <2>1. S \in SUBSET S /\ \A d \in S, f \in S \ S : Rank[d] <= Rank[f]
    OBVIOUS
  <2> QED
    BY <2>1, FirstOnes
<1>6. Skip(p, Limit) \in Nat /\ Limit \in Nat \ {0}
  <2>1. \A m \in Nat, n \in Nat : m * n \in Nat
    OBVIOUS
  <2> QED
    BY <2>1, CatalogAssumption DEF Skip
<1>7. e \in rows <=> e \in T /\ e \notin skipped
  BY <1>1
<1> HIDE DEF i, T
<1>8. e \in rows <=> i + 1 \in (Skip(p, Limit) + 1)..(Skip(p, Limit) + Limit)
  BY <1>1, <1>2, <1>3, <1>4, <1>5, <1>6, <1>7 DEF Least
<1> QED
  BY <1>2, <1>5, <1>8 DEF i

\* An answer for page p in history h is a slice of the collection it was read from.
InPlace(h, a, p) ==
    a.read # 0 => a.rows \in SUBSET h[a.read] /\ p >= 1 /\ Slice(h[a.read], a.rows, p)

SlicesHeld ==
    \A p \in Pages : InPlace(past, cache[p], p) /\ InPlace(past, fetches[p].answer, p)

\* Nothing was read yet.
LEMMA InitSlices == Init => SlicesHeld
<1> SUFFICES ASSUME Init, NEW p \in Pages
             PROVE  cache[p].read = 0 /\ fetches[p].answer.read = 0
  BY DEF SlicesHeld, InPlace
<1> QED
  BY DEF Init, None, NoFetch, NewFetch

\* It is enough to look at what becomes of the answers.
LEMMA StepSlices ==
    ASSUME CatalogInv, SlicesHeld, past' = past \/ Change,
           \A p \in Pages :
              /\ cache'[p] \in {cache[p], None, Recorded(fetches[p].answer)}
              /\ \/ fetches'[p].answer.read = 0
                 \/ /\ fetches'[p].answer.read = fetches[p].answer.read
                    /\ fetches'[p].answer.rows = fetches[p].answer.rows
                 \/ InPlace(past', fetches'[p].answer, p)
    PROVE  SlicesHeld'
<1>1. \A i \in 1..Len(past) : past'[i] = past[i]
  <2>1. past' = past \/ \E S : past' = Append(past, S)
    BY DEF Change
  <2> QED
    BY <2>1 DEF CatalogInv, TypeOK
<1>2. ASSUME NEW a \in Answer, NEW p \in Pages, InPlace(past, a, p)
      PROVE  InPlace(past', a, p)
  BY <1>1, <1>2 DEF InPlace, Answer, CatalogInv, TypeOK
<1>3. \A p \in Pages : cache[p] \in Answer /\ fetches[p].answer \in Answer
  BY DEF CatalogInv, TypeOK
<1>4. ASSUME NEW p \in Pages
      PROVE  InPlace(past', cache'[p], p) /\ InPlace(past', fetches'[p].answer, p)
  <2>1. InPlace(past', cache[p], p) /\ InPlace(past', fetches[p].answer, p)
    BY <1>2, <1>3 DEF SlicesHeld
  <2>2. InPlace(past', cache'[p], p)
    <3>1. CASE cache'[p] = None
      BY <3>1 DEF InPlace, None
    <3>2. CASE cache'[p] = Recorded(fetches[p].answer)
      <4>1. /\ cache'[p].read = fetches[p].answer.read
            /\ cache'[p].rows = fetches[p].answer.rows
        BY <1>3, <3>2 DEF Recorded, Answer
      <4> QED
        BY <2>1, <4>1 DEF InPlace
    <3> QED
      BY <2>1, <3>1, <3>2
  <2>3. InPlace(past', fetches'[p].answer, p)
    <3>1. CASE fetches'[p].answer.read = 0
      BY <3>1 DEF InPlace
    <3>2. CASE /\ fetches'[p].answer.read = fetches[p].answer.read
               /\ fetches'[p].answer.rows = fetches[p].answer.rows
      BY <2>1, <3>2 DEF InPlace
    <3> QED
      BY <3>1, <3>2
  <2> QED
    BY <2>2, <2>3
<1> QED
  BY <1>4 DEF SlicesHeld, InPlace, Slice, Pages, Skip, Least

\* Every answer is read from the collection as it is then, and comes to its page.
LEMMA NextSlices == CatalogInv /\ SlicesHeld /\ [Next]_vars => SlicesHeld'
<1> SUFFICES ASSUME CatalogInv, SlicesHeld, [Next]_vars
             PROVE  SlicesHeld'
  OBVIOUS
<1>0. /\ cache \in [Pages -> Answer]
      /\ fetches \in [Pages -> [pc : {"idle", "sent"}, answer : Answer]]
      /\ past \in Seq(SUBSET Events) /\ Len(past) # 0
  BY DEF CatalogInv, TypeOK, AnswersHeld
<1>1. ASSUME NEW p \in Pages, Find(p)
      PROVE  SlicesHeld'
  <2>1. PICK rows \in SUBSET Now :
           /\ Slice(Now, rows, p)
           /\ fetches' = [fetches EXCEPT ![p].answer = [@ EXCEPT !.rows = rows, !.read = Len(past)]]
    BY <1>1 DEF Find
  <2>2. fetches'[p].answer.rows = rows /\ fetches'[p].answer.read = Len(past)
    BY <1>0, <2>1 DEF Answer
  <2>3. UNCHANGED <<past, cache>> /\ p >= 1
    BY <1>1 DEF Find
  <2>4. InPlace(past', fetches'[p].answer, p)
    BY <2>1, <2>2, <2>3 DEF InPlace, Now
  <2>5. \A q \in Pages \ {p} : fetches'[q] = fetches[q]
    BY <2>1
  <2> QED
    BY <2>3, <2>4, <2>5, StepSlices
<1>2. ASSUME NEW p \in Pages, Count(p)
      PROVE  SlicesHeld'
  <2>1. UNCHANGED <<past, cache>> /\ fetches' = [fetches EXCEPT ![p].answer.counted = Len(past)]
    BY <1>2 DEF Count
  <2>2. \A q \in Pages : /\ fetches'[q].answer.read = fetches[q].answer.read
                         /\ fetches'[q].answer.rows = fetches[q].answer.rows
    BY <1>0, <2>1 DEF Answer
  <2> QED
    BY <2>1, <2>2, StepSlices
<1>3. ASSUME NEW p \in Pages, Fail(p) \/ Arrive(p) \/ Collect(p)
      PROVE  SlicesHeld'
  <2>1. /\ past' = past
        /\ \A q \in Pages : /\ cache'[q] \in {cache[q], None, Recorded(fetches[q].answer)}
                            /\ fetches'[q] \in {fetches[q], NoFetch}
    BY <1>0, <1>3 DEF Fail, Arrive, Collect
  <2>2. NoFetch.answer.read = 0
    BY DEF NoFetch, None
  <2> QED
    BY <2>1, <2>2, StepSlices
<1>4. ASSUME past' = past, cache' = cache,
             \A q \in Pages : fetches'[q] = fetches[q] \/ \E b : fetches'[q] = NewFetch(q, b)
      PROVE  SlicesHeld'
  <2>1. \A q \in Pages : \A b : NewFetch(q, b).answer.read = 0
    BY DEF NewFetch, None
  <2> QED
    BY <1>4, <2>1, StepSlices
<1>5. ASSUME NEW p, NEW b, Turn(p, b)
      PROVE  SlicesHeld'
  BY <1>0, <1>4, <1>5 DEF Turn, Fetch
<1>6. CASE Refetch
  BY <1>0, <1>4, <1>6 DEF Refetch, Fetch
<1>7. CASE Change
  <2>1. cache' = cache /\ fetches' = fetches
    BY <1>7 DEF Change, answers
  <2> QED
    BY <1>7, <2>1, StepSlices
<1>8. CASE UNCHANGED vars
  BY <1>4, <1>8 DEF vars, answers
<1> QED
  BY <1>1, <1>2, <1>3, <1>5, <1>6, <1>7, <1>8 DEF Next, GoNext, GoPrev, GoTo, Debounce

\* event.repository.js, utils/pagination.js: the pages that were read in one and
\* the same state of the collection show every event once, unless events tie.
THEOREM EveryEventOnce == Spec => []PagesComplete
<1>1. CatalogInv /\ SlicesHeld => PagesComplete
  <2> SUFFICES ASSUME CatalogInv, SlicesHeld, NEW v \in 1..Len(past),
                      Untied(past[v]),
                      1..TotalPages(Cardinality(past[v]), Limit) \subseteq Pages,
                      \A p \in 1..TotalPages(Cardinality(past[v]), Limit) : cache[p].read = v,
                      NEW e \in past[v]
               PROVE  Cardinality({p \in 1..TotalPages(Cardinality(past[v]), Limit) : e \in cache[p].rows}) = 1
    BY DEF PagesComplete, Untied
  <2> DEFINE S == past[v]
             n == TotalPages(Cardinality(S), Limit)
             i == Cardinality(Before(S, e)) + 1
             On(p) == i \in (Skip(p, Limit) + 1)..(Skip(p, Limit) + Limit)
  <2>1. S \in SUBSET Events
    BY DEF CatalogInv, TypeOK
  <2>2. Cardinality(S) \in Nat
    BY <2>1, CollectionSize
  <2>3. n \in Nat
    BY <2>2, CatalogAssumption, Ceiling
  <2>4. i \in 1..Cardinality(S)
    <3>1. \A d \in S, f \in S \ S : Rank[d] <= Rank[f]
      OBVIOUS
    <3>2. Cardinality(Before(S, e)) \in Nat /\ Cardinality(Before(S, e)) < Cardinality(S)
      BY <2>1, <3>1, FirstOnes
    <3> QED
      BY <2>2, <3>2
  <2>5. ASSUME NEW p \in 1..n
        PROVE  e \in cache[p].rows <=> On(p)
    <3>1. p \in Pages /\ cache[p].read = v /\ v # 0 /\ p \in Nat \ {0}
      BY <2>3
    <3>2. cache[p].rows \in SUBSET S /\ Slice(S, cache[p].rows, p)
      BY <3>1 DEF SlicesHeld, InPlace
    <3> QED
      BY <2>1, <3>1, <3>2, SlicePlaces
  <2>6. PICK p \in 1..n : On(p) /\ \A q \in 1..n : On(q) => q = p
    BY <2>2, <2>4, CatalogAssumption, PagesPartition
  <2>7. {q \in 1..n : e \in cache[q].rows} = {p}
    <3> HIDE DEF On, n, i, S
    <3> QED
      BY <2>5, <2>6
  <2> QED
    BY <2>7, FS_Singleton
<1>2. Init => CatalogInv /\ SlicesHeld
  BY InitCatalog, InitSlices
<1>3. (CatalogInv /\ SlicesHeld) /\ [Next]_vars => (CatalogInv /\ SlicesHeld)'
  BY NextKeepsCatalog, NextSlices
<1> QED
  BY <1>1, <1>2, <1>3, PTL DEF Spec
=============================================================================
