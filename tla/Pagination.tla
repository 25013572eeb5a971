----------------------------- MODULE Pagination -----------------------------
(***************************************************************************)
(* parsePagination: which part of a listing a page is, and what the answer *)
(* says of the pages around it.  A missing parameter, or one that is no    *)
(* number, counts as 0, as it does in the code.                            *)
(***************************************************************************)
EXTENDS Integers

MaxLimit == 100
DefaultLimit == 10

PageOf(n) == IF n < 1 THEN 1 ELSE n

LimitOf(n) ==
    IF n = 0 THEN DefaultLimit
    ELSE IF n < 1 THEN 1
    ELSE IF n > MaxLimit THEN MaxLimit ELSE n

Least(m, n) == IF m < n THEN m ELSE n

\* Mutant of Skip: pages counted from 0.
Skip_FromZero(page, limit) == page * limit

Skip(page, limit) == (page - 1) * limit

\* Mutant of TotalPages: one more than needed at the multiples of the limit.
TotalPages_Next(total, limit) == total \div limit + 1

\* Math.ceil(total / limit)
TotalPages(total, limit) == (total + limit - 1) \div limit

\* Mutant of HasNextPage: it is offered on the last page, too.
HasNextPage_Last(page, limit, total) == page <= TotalPages(total, limit)

HasNextPage(page, limit, total) == page < TotalPages(total, limit)
HasPrevPage(page) == page > 1
=============================================================================
