------------------------------- MODULE Catalog -------------------------------
(***************************************************************************)
(* Paging through the events: EventsPage over its query cache, and the     *)
(* listing of the API, which reads a page and counts the events in two     *)
(* queries while an admin adds and deletes events.                         *)
(*                                                                         *)
(* The filters are held fixed: choosing another starts over at page 1 of   *)
(* another listing.  past[v] is the collection after v - 1 changes.        *)
(***************************************************************************)
EXTENDS Integers, Sequences, FiniteSets, Pagination

CONSTANTS
    Events,      \* the events that match the filters when they exist
    Starts,      \* what the collection may be at first
    Rank,        \* event -> its value of the sort field
    Limit,       \* events per page, 9 in the code
    LastPage,    \* bound on the page number
    MaxChanges,  \* bound on the changes of the collection
    MaxFetches,  \* bound on the fetches under way at a time
    Faults       \* may requests fail?

ASSUME CatalogAssumption ==
    /\ IsFiniteSet(Events)
    /\ Starts \subseteq SUBSET Events
    /\ Rank \in [Events -> Nat]
    /\ Limit \in Nat \ {0}
    /\ LastPage \in Nat \ {0}
    /\ MaxChanges \in Nat /\ MaxFetches \in Nat
    /\ Faults \in BOOLEAN

VARIABLES
    past,      \* the collections so far, oldest first
    page,      \* filters.page
    timer,     \* is the timer of the search field running?
    cache,     \* page -> answer held, or None
    error,     \* pages whose last fetch failed
    fetches,   \* page -> its fetch
    last,      \* the answer shown last, while there is none for the page
    bar        \* history: the collection counted by the pagination bar that led to
               \*   the page, an index of past; 0 on page 1, which needs none,
               \*   and after a button that belonged to another page

answers == <<cache, error, fetches>>
vars == <<past, page, timer, answers, last, bar>>

-----------------------------------------------------------------------------
\* An answer names the collections it was read from and counted in, by their
\* indices in past, and, as history, the bar by which it was asked for, which is
\* dropped when the answer is not empty.
None == [page |-> 0, rows |-> {}, read |-> 0, counted |-> 0, led |-> 0]
NoFetch == [pc |-> "idle", answer |-> None]
NewFetch(p, b) ==
    [pc |-> "sent", answer |-> [page |-> p, rows |-> {}, read |-> 0, counted |-> 0, led |-> b]]

Now == past[Len(past)]

\* -1 and below behave as 0 does.
Pages == 0..LastPage

Total(a) == Cardinality(past[a.counted])

\* find().sort().skip().limit(): as many as fit, after those that were skipped;
\* events of equal rank come in any order.
Slice(S, rows, p) ==
    \E skipped \in SUBSET (S \ rows) :
        /\ Cardinality(skipped) = Least(Skip(p, Limit), Cardinality(S))
        /\ Cardinality(rows) = Least(Limit, Cardinality(S) - Cardinality(skipped))
        /\ \A d \in skipped, e \in S \ skipped : Rank[d] <= Rank[e]
        /\ \A d \in rows, e \in S \ (skipped \cup rows) : Rank[d] <= Rank[e]

Init ==
    /\ \E S \in Starts : past = <<S>>
    /\ page = 1
    /\ timer = TRUE
    /\ cache = [p \in Pages |-> None]
    /\ error = {}
    /\ fetches = [p \in Pages |-> IF p = 1 THEN NewFetch(1, 0) ELSE NoFetch]
    /\ last = None /\ bar = 0

-----------------------------------------------------------------------------
(* listEvents *)

\* The validator refuses a page below 1, the network or the rate limiter any.
Fail(p) ==
    /\ fetches[p] # NoFetch
    /\ Faults \/ p < 1
    /\ fetches' = [fetches EXCEPT ![p] = NoFetch]
    /\ error' = error \cup {p}
    /\ UNCHANGED <<past, page, timer, cache, last, bar>>

Find(p) ==
    /\ fetches[p].pc = "sent" /\ fetches[p].answer.read = 0 /\ p >= 1
    /\ \E rows \in SUBSET Now :
          /\ Slice(Now, rows, p)
          /\ fetches' = [fetches EXCEPT ![p].answer = [@ EXCEPT !.rows = rows, !.read = Len(past)]]
    /\ UNCHANGED <<past, page, timer, cache, error, last, bar>>

Count(p) ==
    /\ fetches[p].pc = "sent" /\ fetches[p].answer.counted = 0 /\ p >= 1
    /\ fetches' = [fetches EXCEPT ![p].answer.counted = Len(past)]
    /\ UNCHANGED <<past, page, timer, cache, error, last, bar>>

Recorded(a) == IF a.rows = {} THEN a ELSE [a EXCEPT !.led = 0]

\* Mutant of Arrive: the answer does not wait for the count.
Arrive_Uncounted(p) ==
    LET a == fetches[p].answer
    IN  /\ a.read # 0
        /\ cache' = [cache EXCEPT ![p] = Recorded(a)]
        /\ error' = error \ {p}
        /\ fetches' = [fetches EXCEPT ![p] = NoFetch]
        /\ last' = IF p = page THEN None ELSE last
        /\ UNCHANGED <<past, page, timer, bar>>

\* Both queries have answered, and then the API.
Arrive(p) ==
    LET a == fetches[p].answer
    IN  /\ a.read # 0 /\ a.counted # 0
        /\ cache' = [cache EXCEPT ![p] = Recorded(a)]
        /\ error' = error \ {p}
        /\ fetches' = [fetches EXCEPT ![p] = NoFetch]
        /\ last' = IF p = page THEN None ELSE last
        /\ UNCHANGED <<past, page, timer, bar>>

\* createEvent and deleteEvent of an admin.
Change ==
    /\ Len(past) <= MaxChanges
    /\ \E e \in Events : past' = Append(past, IF e \in Now THEN Now \ {e} ELSE Now \cup {e})
    /\ UNCHANGED <<page, timer, answers, last, bar>>

-----------------------------------------------------------------------------
(* EventsPage *)

\* What is on the screen: the answer for the page, or the last one shown.
Shown == IF cache[page] # None THEN cache[page] ELSE last

Placeholder == cache[page] = None

\* An answer that may be shown without a fetch.
Held(p) == cache[p] # None /\ p \notin error

\* The pagination bar is below a list that is not empty.
BarShown ==
    /\ page \notin error
    /\ Shown.rows # {}
    /\ TotalPages(Total(Shown), Limit) > 1

MayFetch(p) ==
    /\ p # page /\ fetches[p] = NoFetch
    /\ Cardinality({q \in Pages : fetches[q] # NoFetch}) < MaxFetches

\* A page in error without data waits again: what was shown last is a placeholder
\* for it, with its bar.
Fetch(p, b) ==
    /\ fetches' = [fetches EXCEPT ![p] = NewFetch(p, b)]
    /\ error' = IF cache[p] = None THEN error \ {p} ELSE error

\* Mutant of Turn: nothing is fetched while a placeholder is shown.
Turn_NotTwice(p, b) ==
    /\ page' = p /\ bar' = IF p = 1 THEN 0 ELSE b
    /\ \/ (p = page \/ fetches[p] # NoFetch \/ Held(p) \/ Placeholder) /\ UNCHANGED <<fetches, error>>
       \/ MayFetch(p) /\ ~Placeholder /\ Fetch(p, bar')
    /\ last' = IF cache[p] # None THEN None ELSE Shown
    /\ UNCHANGED <<past, cache>>

\* The page number changes, by the bar b: the page is fetched unless it is
\* already, or is held and not past its staleTime.
Turn(p, b) ==
    /\ page' = p /\ bar' = IF p = 1 THEN 0 ELSE b
    /\ \/ (p = page \/ fetches[p] # NoFetch \/ Held(p)) /\ UNCHANGED <<fetches, error>>
       \/ MayFetch(p) /\ Fetch(p, bar')
    /\ last' = IF cache[p] # None THEN None ELSE Shown
    /\ UNCHANGED <<past, cache>>

\* The buttons go by the answer on the screen, the step by the page number.
GoNext ==
    /\ BarShown
    /\ HasNextPage(Shown.page, Limit, Total(Shown))
    /\ page < LastPage
    /\ Turn(page + 1, IF Placeholder THEN 0 ELSE Shown.counted)
    /\ UNCHANGED timer

GoPrev ==
    /\ BarShown
    /\ HasPrevPage(Shown.page)
    /\ page > 0
    /\ Turn(page - 1, IF Placeholder THEN 0 ELSE bar)
    /\ UNCHANGED timer

GoTo(p) ==
    /\ BarShown
    /\ p \in 1..TotalPages(Total(Shown), Limit)
    /\ Turn(p, Shown.counted)
    /\ UNCHANGED timer

\* The search field has not changed for 380 ms since the page was entered.
Debounce ==
    /\ timer
    /\ timer' = FALSE
    /\ Turn(1, 0)

\* The retry button of ErrorMessage; a fetch under way for data that is held is
\* cancelled.
Refetch ==
    /\ page \in error
    /\ Fetch(page, bar)
    /\ UNCHANGED <<past, page, timer, cache, last, bar>>

\* gcTime has passed since the page was left.
Collect(p) ==
    /\ page # p /\ fetches[p] = NoFetch /\ cache[p] # None
    /\ cache' = [cache EXCEPT ![p] = None]
    /\ error' = error \ {p}
    /\ UNCHANGED <<past, page, timer, fetches, last, bar>>

Next ==
    \/ Change \/ GoNext \/ GoPrev \/ Debounce \/ Refetch
    \/ \E p \in Pages : Fail(p) \/ Find(p) \/ Count(p) \/ Arrive(p) \/ GoTo(p) \/ Collect(p)

Spec == Init /\ [][Next]_vars

\* The API answers, and the browser runs what it is answered.
Fairness == WF_vars(\E p \in Pages : Find(p) \/ Count(p) \/ Arrive(p) \/ (p < 1 /\ Fail(p)))

FairSpec == Spec /\ Fairness

-----------------------------------------------------------------------------
Answer ==
    [page : Pages, rows : SUBSET Events, read : 0..Len(past), counted : 0..Len(past),
     led : 0..Len(past)]

\* The types of the variables; an answer that is held is complete.
TypeOK ==
    /\ past \in Seq(SUBSET Events)
    /\ page \in Pages
    /\ timer \in BOOLEAN
    /\ cache \in [Pages -> Answer]
    /\ \A p \in Pages : cache[p] = None \/ (cache[p].page = p /\ 0 \notin {cache[p].read, cache[p].counted})
    /\ last \in Answer /\ bar \in 0..Len(past)
    /\ error \in SUBSET Pages
    /\ fetches \in [Pages -> [pc : {"idle", "sent"}, answer : Answer]]

\* The page asked for is one of those the pagination bar has told of, although
\* the buttons count from the page number and are enabled by the answer on the
\* screen.  It is not when a button is used twice before the answer comes, which
\* runs past either end of the listing.
PageInRange ==
    bar # 0 => page \in 1..TotalPages(Cardinality(past[bar]), Limit)

\* "No events found" on a later page, which hides the bar that would lead back, is
\* the answer to a fetch that a button used in haste has asked for, or else the
\* collection was smaller when the page was read than when the bar that led to it
\* was counted, which was before.  The answer may be shown again much later, when
\* the collection has grown and other bars have led to it.
StrandedOnlyBy ==
    LET a == cache[page]
    IN  a # None /\ a.rows = {} /\ page # 1 =>
            \/ a.led = 0
            \/ a.led <= a.read /\ Cardinality(past[a.read]) < Cardinality(past[a.led])

\* Pages that were read and counted in one and the same state of the collection
\* show every event exactly once, unless events tie in the sort field.
PagesComplete ==
    \A v \in 1..Len(past) :
        LET S == past[v]
            pages == 1..TotalPages(Cardinality(S), Limit)
        IN  /\ \A d, e \in S : Rank[d] = Rank[e] => d = e
            /\ pages \subseteq Pages
            /\ \A p \in pages : cache[p].read = v
            => \A e \in S : Cardinality({p \in pages : e \in cache[p].rows}) = 1

\* A page that stays asked for comes to show its own answer, or an error: unless the
\* reader turns pages for ever, there is one on the screen again and again.
ShowsPage == []<><<TRUE>>_page \/ []<>(cache[page] # None \/ page \in error)
=============================================================================
