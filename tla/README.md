# Verification of the event booking system

This directory holds a TLA+ model of the event booking application in `src/`
(an Express/Mongoose backend over MongoDB and a React frontend), the TLC
configurations that check it on small instances, and proofs of its main
properties for instances of every size. Paths below are relative to
`src/backend/src` unless they start with `src/`; frontend paths are relative to
`src/frontend/src`.

## 1. The system

| Component | State it keeps | Operations | Hard behaviour | What makes it correct |
|---|---|---|---|---|
| Booking service (`services/booking.service.js`, `repositories/booking.repository.js`, `models/Booking.js`) | the `bookings` collection; the counter `availableSeats` of each event | create, cancel, list and get a booking | each handler is a sequence of awaited database commands; other requests run at every await; create and cancel each open a MongoDB transaction that may conflict, fail, be aborted, lose its acknowledgement, or be left open by a dead process | seats left and seats booked add up to the total; one confirmed booking per user and event; a cancellation restores seats once; no effect survives without its counterpart; every request ends |
| Event administration (`services/event.service.js`, `repositories/event.repository.js`, `models/Event.js`) | the `events` collection | create, update (also `totalSeats` and `status`), delete an event | read, compute, write by identifier with no transaction and no condition, while bookings change the same document | the total never falls below the seats booked; a closed or deleted event is not booked |
| Event browsing (`services/event.service.js`, `utils/pagination.js`; frontend `pages/EventsPage.jsx`, `hooks/useEvents.js`) | the page number, the query cache, a debounce timer | list with filters and pages, next, previous, go to a page, search | two queries without a common snapshot; a placeholder on the screen while the next page is fetched; page arithmetic | pages partition the listing; the buttons stay within it; a page that is asked for is shown |
| Authentication (`services/auth.service.js`, `utils/tokens.js`, `models/User.js`) | the list of refresh tokens in each user document | register, login, logout, refresh, me | read the document, change the copy, save it: Mongoose appends without a check and replaces under a version check; tokens carry their second of issue only | a refresh token is exchanged once; at most five are kept; reuse revokes all |
| Access control (`middleware/authenticate.js`, `middleware/authorize.js`) | none | check token, look up account, check role | the account may go between the look-up and the handler; the role is as old as the token | a handler behind it runs only for an account that exists |
| Request pipeline (`app.js`, `routes/`, `middleware/`, `validators/`) | two rate limiters | limit, validate, map errors to status codes | fixed windows; the order of the middleware | a limit really bounds what is let through |
| Process (`server.js`, `config/db.js`) | connections, the requests on them | start, drain on a signal or a rejected promise, exit, start again | signals, rejections and exceptions in any order; connections that stay open | clients get their answers; the process stops; its exit code is right |
| Seed script (`config/seed.js`) | users, events | empty and refill | runs beside the API, fails halfway | success means there is an administrator |
| Frontend session (`api/axios.js`, `context/AuthContext.jsx`, `hooks/useAuth.js`) | `isRefreshing` and `failedQueue` of each tab; the cookie and `localStorage` of the browser | send, refresh once, replay or reject, sign in, sign out, hydrate | 401 answers before, during and after a refresh; two tabs with one cookie; lost answers; reloads | every request is settled and run at most once; one refresh at a time in a tab; a logout lasts |
| Frontend booking pages (`pages/EventDetailPage.jsx`, `pages/BookingsPage.jsx`, `hooks/useBookings.js`, `hooks/useEvents.js`) | the query cache, dialogs, the seat picker | query, book, cancel, invalidate | seat counts older than the user's own booking; answers to pages that have been left | what counts as fresh includes one's own changes |

The requests of the booking service and of the event administration never call
each other: they interleave on the documents of `events` and `bookings`. Node
runs one continuation at a time, so the code between two awaits is atomic; a
database command is atomic; what is open during a transaction is visible to
others only as a lock. The frontend meets the API in messages only: requests,
answers and the cookie jar. A browser runs one task at a time in a tab, but the
tabs share the jar and `localStorage`.

`PROJECT.json` lists every component with its status and every hazard with its
line in the code and the properties that cover it.

## 2. Modules

| Module | Models | Correspondence with the code |
|---|---|---|
| `Store` | the two collections and the repository queries | `events`, `bookings`: identifier to committed document; `HasSeats` is the filter of `decrementSeats`, `ActiveBookings` the query of `existsActiveBooking` |
| `BookingService` | `createBooking`, `cancelBooking` | `creates[r]`, `cancels[r]`: a request and the database command it awaits (`pc`). One action per command: `FindEvent`, `CheckDuplicate`, `DecrementSeats`, `InsertBooking`, `CommitCreate`; `FindBooking`, `IncrementSeats`, `SaveBooking`, `CommitCancel`. `FailCreate` and `FailCancel` are a failing command with the catch block, or with the abort lost as well; `ReapCreate` and `ReapCancel` are the server aborting what nobody commits |
| `EventService` | `createEvent`, `updateEvent`, `deleteEvent` | `edits[r]`: an update or delete between its read and its write, with the counts it computed; `FindForUpdate`/`WriteUpdate`, `FindForDelete`/`WriteDelete` |
| `EventHub` | the API as a whole | interleaves the two services over one store, makes writes outside a transaction wait for open ones, adds `Crash`; history variables `raced` and `overlapped` |
| `SeatBook` | what the API promises | a box office that keeps the set of seats sold; no counter, no requests, no transactions |
| `HubClaims` | what the README, tests and comments say | three claims that the code keeps only in some interleavings; instances in `HubClaims_*.cfg` |
| `AuthService` | `register`, `login`, `refreshTokens`, `logout` of one account | `requests[r]`: a request with its copy of the user document's token list; `CheckEmail`, `CreateAccount`, `LoadAccount`; `FindByEmail`, `ComparePassword`; `FindForRefresh`; `FindForLogout`; all end in `Save`, which is `user.save()` |
| `Lists` | taking a token out of a list | `Without`, the filter of `removeRefreshToken` |
| `TokenList` | what the service promises | a list on which each operation is one step |
| `AuthClaims` | what the README and `User.js` say of revoking and of the limit of five, which overlapping requests break | instances in `AuthClaims_*.cfg` |
| `Session` | the axios interceptor, `AuthContext`, sign-in and sign-out in several tabs of one browser, and the API's side of both | `calls[c]`: a request, from `Send` over `Serve` (`Unauthorized`, `Handle`, `Login`, `RotateTokens`, `RaiseAlarm`, `Refuse`) to `Receive` (`ReceiveOk`, `ReceiveError`, `Enqueue`, `StartRefresh`, `ReplayAll`, `RejectAll`, `Ignore`). The requests at `queued` are `failedQueue`; `refreshing` is `isRefreshing` of each tab; `Reload` is a page loaded again with what `hydrate` asks for |
| `RequestBook` | what the frontend promises its pages | a request is run at most once and its page learns how that went; no tokens, no queue |
| `BookingPages` | `EventDetailPage` and `BookingsPage` over their query cache | `data`, `fresh`, `fetches`: the cache; `Invalidate` is `invalidateQueries` of `useBookings.js`, `Fetch` what TanStack Query makes of it; `More` and `Fewer` are the buttons of the seat picker; `Accepted` is `onSuccess`, of the hook and of the page |
| `Pagination` | `utils/pagination.js` | operators |
| `Catalog` | `listEvents` and `EventsPage` over its query cache | `Find` and `Count` are the two queries of `event.repository.js`; `GoNext`, `GoPrev`, `GoTo` the buttons, `Debounce` the timer of the search field; `Shown` is the answer on the screen, the last one while there is none for the page (`keepPreviousData`) |
| `Server` | the process between the network and the handlers, and the seed script | `Arrive` is the middleware in its order, `Check` what follows `authenticate`'s look-up, `Finish` a handler; `Signal`, `Reject`, `Throw`, `LeaveServer`, `LeaveDatabase`, `Start` are `server.js`; `seeds[s]` is a run of `seed.js` and its next step (`StartSeed`, `SeedStep`, `FailSeed`); runs may overlap |
| `MCHub`, `MCAuth`, `MCCatalog` | | symmetry and values for TLC |
| `EventHubProofs`, `LedgerProofs` | | proofs about `EventHub`: types and locks, then the accounts of the seats and the refinement of `SeatBook` |
| `SessionProofs`, `AlarmProofs` | | proofs about `Session`; the second is the reuse alarm |
| `AuthProofs`, `PagesProofs`, `CatalogProofs`, `ServerProofs` | | proofs about `AuthService`, `BookingPages`, `Catalog` and `Server` |

**How the modules compose.** `EventHub` is `BookingService` and `EventService`
over one `Store`. `AuthService` is shown to act on the token list as one step
per operation; `Session` uses that and makes a refresh one step, so that the
tabs of a browser and the API's side of the tokens fit into one model.
`BookingPages` and `Catalog` summarise the API by the sequence of states it has
passed through (`past`): a page holds a number in that sequence. `Server` takes
handlers as something that takes time: what they do is in the other modules.

**MongoDB** is modelled by what the code relies on. A transaction's writes are
invisible until its commit and visible together after it. A write to a
document that another open transaction has written, or that was committed
after the snapshot was taken, is refused at once (the handlers do not retry: 500).
A single write outside a transaction waits instead. An open transaction
whose client is gone is aborted by the server after its lifetime limit. A
deployment without a replica set (`ReplicaSet = FALSE`) refuses the first
command of every transaction; the README asks for a replica set (`src/README.md`,
assumption 1), and the configurations have one. An `_id` is never issued twice.

Three details that are easy to get wrong are taken from the code and not from
its documents. The pre-flight read, the duplicate check and cancelBooking's
read of the booking are outside the transaction, so their results may be old.
`booking.save()` in `cancelBooking` writes the status of a document read
earlier whatever it has become. `findById` populates `userId`, so the owner
test compares the rendering of a document with an identifier and only admins
pass it; configurations that cancel therefore have an admin do it.

**Mongoose.** In `AuthService`, `user.save()` is modelled by what Mongoose 8 does
with the three methods of `models/User.js`. `addRefreshToken` on a list below the
limit only pushes: the save is a `$push` without a condition. Every other change
assigns the array: the save is a `$set` of the whole copy on condition that `__v`
is the one read, and a `VersionError`, hence a 500, otherwise. Both increment
`__v`; in place of the number a request keeps whether it is still the one it read
(`current`). A change that leaves the array equal saves nothing. A refresh token
is a signature over the account, the role and times in whole seconds, so it is
identified with the second of its issue and two tokens of one second are the
same token. Accounts share no state, so one is modelled. Status codes are
comments there: no property is about them.

Two filters of lists are defined without `SelectSeq`, whose operator argument none
of the provers instantiates. `Without` of `Lists` keeps the elements of a list that
differ from a token, by counting the places that are kept; `MCAuth` has TLC compare
it with `Remove` of the community modules on all short lists. `After` of `Server`
drops the times of a history up to a given one: they are in order, so that what is
left is a suffix.

**The interceptor.** `return api(original)` inside the `try` does not wait for the
replay, so `isRefreshing` is reset in the same task in which the queue is
replayed: `ReplayAll` is one step. A request that was queued is not marked
`_retry`, so that its replay may start a refresh of its own; the request that
started one may not. A pair of tokens in `Session` is numbered by its issue,
its access token and its refresh token go by one number. A login and a refresh keep the
newest tokens of the account, as `addRefreshToken` does, except that a login that
overlaps another may not see that the list is full (`AuthService` shows how). Tokens of
one second that are equal are the business of `AuthService` alone. A sign-in on
another device acts on the list as one here whose answer is lost.

**TanStack Query, express-rate-limit and Node's http server** are not in `src/`.
They are modelled by what the code calls on them: a fetch under way is joined
unless `invalidateQueries` recalls it, which it does only for a query that has
data and a page on the screen; data is fetched again on entering a page when it
is invalidated, older than its `staleTime`, or its last fetch failed; `gcTime`
after its page was left it is dropped; a query without data that is fetched again
after an error is waiting, not in error; a limiter's window starts with the first
request after the last one and counts refusals; `server.close()` closes
idle connections at once and waits for the others, which `keepAliveTimeout`
ends when their request has been answered.

Left out of the documents: names, descriptions, dates, categories, images and
the booking reference, except that inserting a booking may fail because the
random reference is taken.

## 3. Properties and runs

The accounting of the code is right except for two races it leaves open: an
update of `totalSeats` that writes counts computed before a booking or a
cancellation committed, and a second cancellation that had read the booking
before the first committed. The history variable `raced` collects the events
these have hit, `overlapped` the pairs of user and event for which two
requests were past the duplicate check together. No action reads them. The
invariants then say something stronger than "it works in the good case":
these races are the *only* way to lose the property, under any interleaving,
failure or crash.

The other modules use history variables in the same way; no action's guard reads
one. In `Session`, `shared` collects the tokens that two requests held at a time
or whose replacement was lost, `evicted` those that newer ones have pushed out of the
list, `alarms` those taken for reused, `muddled` the
tabs left over from an earlier session, and `signedOut` says that a logout met no
refresh. In `BookingPages`, `acked` is the last change of one's own the pages were
told of, `passed` the queries with a fetch older than that which nobody recalled,
`emptied` says that the event was shown as sold out. In `Catalog`, `bar` is the
collection counted by the pagination bar that led to the page, 0 when a button was used
on the bar of another page (in haste), and an empty answer keeps the bar by which it was
asked for (`led`). In `Server`, `admitted` keeps the times of what
was let through, `cut` the connections that lost their answer, `emptied` the runs of
the seed script whose admin another run has removed.

| Run | Instance | Shows |
|---|---|---|
| `booking` | 2 bookers, 1 canceller, 2 booking identifiers, 3 seats, up to 2 a booking, faults, crashes and fairness | `TypeOK` (no negative seat count), `OneBookingUnlessOverlap`, `SeatLedger`, that the API implements `SeatBook`, and that requests end and events are released: `CreateEnds`, `CancelEnds`, `EventReleased` |
| `editing` | 1 booker, 2 cancellers, 1 admin slot, up to 2 seats a booking, totals 1 and 2 | `SeatLedger` and the refinement while totals, status and existence of the event change |
| `tokens` | 2 logins, 2 refreshes or logouts, limit 1, 3 seconds, tokens valid for 2, faults | `TypeOK`, `RetiredStaysOut`, `ListBounded`, and that the service implements `TokenList` |
| `session` | 2 tabs, 2 requests besides the refreshes they start, 2 accounts, limit 1, faults, fairness | `QueueIsServed`, `AlarmsExplained`, `StaysSignedOut`, `RunsAsShown`, that the frontend implements `RequestBook`, and `EveryCallSettles` |
| `pages` | 2 seats, at most 1 a booking, 1 order at a time, 2 changes, faults, fairness | `FreshIncludesOwn`, `OrdersAcceptable`, `CatchesUp` |
| `catalog` | 2 events, a third one that may be added, 1 a page, pages up to 3, 1 change, 2 fetches at a time, fairness | `TypeOK`, `PageInRange`, `StrandedOnlyBy`, `PagesComplete`, `ShowsPage` |
| `server` | 1 connection, 1 address, windows of 2 and 1, limits 2 and 1, 3 ticks, 2 runs of the seed script, 2 accounts, faults, fairness | `TypeOK`, `AdmissionsBounded`, `NobodyCutOff`, `CleanExit`, `StrangersOut`, `SeedGivesAdmin`, `ShutdownEnds` |
| `double` | 2 requests of one user | violates `OneActiveBooking`: both pass the check before either commits |
| `resize` | a booking and a resize | violates `NeverBelowBooked` |
| `restore` | two cancellations of one booking | violates `RestoredOnce` |
| `token_revoke` | a login and a revocation | violates `ReuseRevokes`: the save fails and nothing is revoked |
| `token_limit` | two logins and a list of four | violates `AtMostFive`: both push, and six tokens are listed |

**What the other modules' properties say.** `AlarmsExplained`: the reuse alarm, which signs an
account out of every device, goes off for an honest browser only if two
requests (of two tabs, or a refresh and a logout) held one token at a time, an
answer was lost before, or newer tokens had pushed its own out of the list.
`RunsAsShown`: a request runs as the user its page showed, except in tabs left from an earlier session when somebody signed in.
`FreshIncludesOwn`: the cache never takes data for fresh that is older than a
change the user was told of, except for a fetch that `invalidateQueries` does
not recall, namely that of a page that was left or has no data yet.
`OrdersAcceptable`: the picker posts an acceptable number unless the event was
shown as sold out while the dialog was open, when `+` gives 0. `PageInRange`: the
buttons lead to pages the bar has told of, except by a click before the answer to
the one before has come. `StrandedOnlyBy`: an empty later page, which has no bar that would
lead back, was asked for by such a click, or the collection was smaller when the page
was read than when the bar that led to it was counted, earlier. What was asked
for in haste stays in the cache, so it may be met again by a patient reader of a
collection that has only grown; the order of the two sizes is therefore that of the fetch, not
of the moment at which the page is shown. `AdmissionsBounded`: fixed windows
let through less than twice the limit in any time as long as a window.
`NobodyCutOff`, `CleanExit`: only an uncaught exception costs a client its answer,
and exit code 0 means that no promise was rejected. `StrangersOut`: what the seed
script has removed, and created again under the same email, opens nothing.
`SeedGivesAdmin`: a run of the script that reports success has left an administrator
unless another run has emptied the collection since this one created its own.
`ShutdownEnds`: when the clients fall silent, a process that was told to stop does stop;
while one goes on sending it need not.

**What the code does and its documents do not say.** The five runs that find a violation
show races. The model contains more disagreements, which a single request or a short
sequence of steps shows and on which no run is spent; some of the properties above except
them.
- `booking.service.js:84` never lets a user who is no admin cancel a booking of their own:
  `FindBooking` answers 403, or 500 when the owner's account is gone.
  `booking.test.js:153` expects 200.
- A refresh in the second in which its token was issued returns that very token
  (`tokens.js:17`, the `twins` of `AuthService`, `Exchange` of `TokenList`); the README
  speaks of "a completely new pair" (`src/README.md:659`).
- `invalidateQueries` "automatically refreshes both the booking list and the event's seat
  count" (`src/README.md:670`), but does not recall a fetch under way for a page that was
  left or has no data yet: its older answer counts as fresh (`passed`).
- The seat picker is "capped at 10 and at available count" (`src/README.md:634`) only when
  `+` is pressed: a number picked before stays when fewer seats are left, and `+` gives 0
  when none are (`emptied`).
- A second click before the answer runs past both ends of a listing (`bar = 0`).
- `npm run seed` "Reset DB and seed 8 events + 2 demo users" (`src/README.md:346`): a run
  whose admin an overlapping run has removed reports success all the same (`emptied`).
- "Graceful shutdown" (`src/README.md:132`) has no limit: a client that goes on sending on a
  connection that was busy when the signal came keeps `server.close()` waiting, as
  there is neither a timer nor `closeAllConnections`.

**Bounds.** One event is enough for the booking runs: no action relates two
events, and the only state shared by requests is the document of one event and
of one booking. Two seats a booking and a total of three (`booking`) make partial
availability, exact fits and refusals happen; two bookers and a canceller (or
the reverse) give every pairing of open transactions; with two admissible
totals an update both grows and shrinks an event. `IdLeftFor` is the bound on
the history: a booking starts only if an identifier is left for it, which
limits a behaviour to as many bookings as there are identifiers: two give
book, cancel and book again, next to another booker's attempts.
`Faults` lets commands fail and the process crash; it is off in `editing`, where
only an admin's commands fail. Symmetry is used on slots and identifiers in
`editing` and `tokens`, which check no liveness.

The tokens run uses a limit of one where the code has five, so that lists reach
and pass the limit with two logins; the constant occurs only in comparisons
of lengths; `token_revoke` and `token_limit` have the code's five. `MaxTime` bounds the clock. Two
seconds give equal and different tokens; three with a lifetime of two give
expired ones. `retired` and `twins` are history: the tokens that have left the
list, and those added when they had been in it before; no action reads them.

In `session` each of the two requests may be made in either tab, be replayed
after a refresh of its own or of the other, and be a profile request of a tab
that is loaded again. Two are enough for a queue behind a refresh, two refreshes
with one cookie, a refresh next to a logout and a login next to anything. What
more tabs and requests could do is covered by the proofs, for all the properties
but `EveryCallSettles`. With a limit of 1 every token pushes out the one before, so that
evictions happen within two logins. `owner` grows by a pair with each login and
refresh, of which every request causes at most one, so no further bound is needed.

In `pages` the API changes twice, so that the user's own change is before or after
somebody else's and what the cache holds is current, one or two behind. In
`catalog` one change suffices to shrink a listing between its two queries or
between two pages, and one event a page gives a listing of two pages, with page 0
and an empty page 3 beyond its ends. `MaxFetches` bounds the fetches under way at
a time: with two, a reader has left one page and waits for another. `Faults` is
off there; refusals of page 0 still occur. Two events with one a page give two pages, so
that a third event makes a page of what was empty when it was read, and a deletion
empties the second one. In `server` the windows are two ticks and one long and the clock
ends at three, so that each window ends and another starts. Connections meet only in the
counters and in the wait for all to close; one carries one request after the other, and what
several do is in the proofs, for all the properties but `ShutdownEnds`. With two accounts
a run of the script succeeds, finds an email taken, or goes on after the other one has
removed its admin. The proofs hold for all values of these constants.

**Deadlock** is checked in every run but two: a reader (`catalog`) may have all
pages and a browser (`session`) may have made all its requests, and nothing is left to do.

**Fairness.** Weak fairness, and only of what the machinery does by itself: Node
runs a continuation whose command has been answered, MongoDB answers and aborts a
transaction past its lifetime (`CreateRuns`, `CancelRuns`); the API answers a
request or the connection fails, and the browser runs what it has been answered
(`Serve`, `Receive`; `Read`, `Arrive`; in `Catalog` only that some query or answer comes
as long as one is due); `keepAliveTimeout`
ends a connection between two requests (`Disconnect` in `Server`). No request has to
arrive, nothing has to fail, no user has to click, and nothing is assumed of an
admin's write that waits for a lock. Nothing is assumed of the clients of `Server`
either: a refused request is a step of its own (`Refused`, answered by `Refuse`), a
client may keep its connection busy for ever, and the process then never ends.
`ShutdownEnds` has their silence as its premise. Liveness is not vacuous: making a transactional write wait for its
competitor instead of conflicting, dropping the reaper, or not processing the
queue after a refresh breaks it.

Every property of a passing run is paired in `PROJECT.json` with a mutant, a
plausible slip in the code (a dropped `$gte`, an ignored query result, a
decrement outside the transaction, a queue that is not processed, a button that goes one
page too far) that the run detects.

## 4. Proofs

All theorems are about a specification without fairness, for every value of the
constants that its module's assumption admits: `StoreAssumption` (finitely many
booking identifiers, totals and the largest booking positive), `AuthAssumption`,
`SessionAssumption`, `PagesAssumption`, `CatalogAssumption` (finitely many events,
positive limit) and `ServerAssumption` (positive limits). Nothing else is assumed.

**Booking.** `EventHubProofs` proves `IndInv` inductive, with one lemma per kind
of step. `TypeOK` alone is not inductive: that no seat count becomes negative at a
commit needs to know that the seats granted at the decrement are still there,
which needs that nobody else has written the event meanwhile. So `IndInv` is
the conjunction of
- `TypeOK`, and `OneWriterPerEvent`: two open transactions never have written one
  event, which is MongoDB's rule and no result about the code;
- `HeldEventsExist`: an event written by an open transaction exists, and the
  seats granted to a booking are still available until it commits;
- `EventsKnown`: a booking's event has existed, and the event a cancellation
  did not find is deleted for good;
- `EditsAddUp`: the counts an update carries add up to its total.

Theorems: `Invariance`, `TypeCorrect` (`[]TypeOK`). `LedgerProofs` builds on it. `SaleCounts` and
`ReleaseCounts` show how the seats of the confirmed bookings change when a booking
commits or is cancelled, by cardinality of finite sets; `NextLedger` shows that
`SeatLedger` is preserved given `IndInv`, and `LedgerBalances` is
`Spec => []SeatLedger`. `DuplicatesNeedOverlap` is
`Spec => []OneBookingUnlessOverlap`: its invariant `OneInWindow` says that at most
one thing stands for a user at an event, a confirmed booking or a request past
the duplicate check.

`SeatsSoldOnce` is `Spec => ImplementsBoxOffice`: every command of the API is a step
of `SeatBook` or leaves the box office as it is. `IsSold` is the refinement mapping
read seat by seat (a seat is its event, the booking's identifier and a number), so
that the proof compares sets by their elements: a commit of `createBooking` sells a
whole booking, which the box office has room for because the committed count covers
it (`IndInv`) and the ledger balances (`SeatLedger`), and no seat of a fresh
identifier is sold; a commit of `cancelBooking` returns one; the admin's
writes change the seats offered only.

**Tokens.** `AuthProofs` proves `ListImplemented`, `Spec => ImplementsTokenList`.
Its invariant `CopiesCurrent` says that as long as `__v` has not changed since a
request read the list the list has not changed either, and what a request carries
when it is about to be saved; `SaveMaps` turns each save into a step of `TokenList`.
From the same invariant:
- `AuthTypes`, `[]TypeOK`;
- `RetiredTokensStayOut`, `[]RetiredStaysOut`: a `$push` adds one token that is new or a
  twin, and an assignment that passes the version check takes tokens out of the
  list as it is, and not of an old one;
- `ListNeverLonger`, `[]ListBounded`. A push is not checked against the limit when it
  takes effect, so that the length alone is not inductive. `RoomLeft` counts the
  logins whose copy has room (`Pushing`) as if they had pushed:
  `Len(tokens) + |Pushing| < Limit + |Logins|`. A login joins `Pushing` when it reads
  a list below the limit, and leaves it when it pushes.

**Session.** `SessionProofs` needs little of the types: `Shape`, that every request
has its fields. Lemmas say what each kind of step does to the requests
(`ServeParts`, `ReplayParts`, ...), and `StepCases` that there are no others. On them
rest
- `NobodyForgotten`, `[]QueueIsServed`: `Served`, its reading request by request, is
  inductive;
- `RequestsImplemented`, `Spec => ImplementsRequestBook`: `Truthful` says that a
  request that waits for a refresh has not been run, and that an answer says
  whether it was; `NextMaps` maps every step to a step of `RequestBook` or a stutter;
- `LogoutLasts`, `[]StaysSignedOut`: `Quiet` says that after such a logout no refresh
  has, or is going to have, a token, and needs `Issued`, that 0 is no token;
- `SessionTypes`, `[]TypeOK`: `Typed` adds that a login that succeeded brings a pair, and
  `Placed` that every request made has a kind and a tab, and that a refused password
  starts no refresh;
- `RequestsRunAsShown`, `[]RunsAsShown`. Its invariant `OneSession` says that, unless all
  tabs are muddled, there is one account to which every token in the browser and in
  every open request belongs, also the pair a refresh is about to bring, and which
  every tab shows that was not left from an earlier session. A login is the only step
  that replaces this account, and it muddles the tabs unless it is alone (`SignInOne`);
  `StaysOne` reduces every other step to what it does to each request.

`AlarmProofs` proves `AlarmsHaveCause`, `[]AlarmsExplained`. Its invariant `Honest`
says where a good token, one that is listed, shared, evicted or of an account that an
earlier explained alarm has signed out, can be: the cookie jar holds one or its replacement is on the
way (`JarGood`), what is sent to be refreshed was one (`RefreshGood`), the history
records every clash (`SharingSeen`), and what is on its way to the browser is good
and held by nobody (`PairsFresh`). `OneHonest`, `ManyHonest`, `DeliverHonest` and
`IssueHonest` are the four ways in which steps preserve it.

**Pages.** `PagesProofs`: `PagesTypes` (`[]TypeOK`), with `Fits`, that the seats left
and one's own fit into the event; `FreshCache` (`[]FreshIncludesOwn`), whose invariant
`CacheInv` adds that an answer about to arrive is new enough unless its fetch was
passed over, and that data is never both fresh and behind an error; `PickedSeats`
(`[]OrdersAcceptable`), whose `PickerInv` ties the picker to what the page has shown.

**Listing.** `CatalogProofs`: `ParsedBounds`, what `parsePagination` makes of any
query string; `PagesPartition`, each place of a listing lies on exactly one page;
`CatalogTypes` (`[]TypeOK`), `ButtonsInRange` (`[]PageInRange`) and `StrandedByChange`
(`[]StrandedOnlyBy`) from `CatalogInv`, which adds that an answer without rows was read from a collection that ends before its
page, and that the bar that led to it told of the page and was counted before it was
read (`Belongs`, `AnswersHeld`): such an answer has seen fewer events than its bar.
`EveryEventOnce` is `[]PagesComplete`: `SlicesHeld` says that every answer is a slice of
the collection it was read from. In an order without ties the first `n` events are
those with fewer than `n` before them (`FirstOnes`), so a page holds the events whose
place lies in its range (`SlicePlaces`), and `PagesPartition` gives each place one page.

**Process.** `ServerProofs`: `NoStrangers` (`[]StrangersOut`) from `CheckInv`, an
account that is found was there when its request came, as numbers are not used
again; `SeededAdmin` (`[]SeedGivesAdmin`), whose `SeedInv` says it of every run that has
created its admin, for any number of runs that overlap; `EverybodyAnswered` (`[]NobodyCutOff`) and
`CleanMeansClean` (`[]CleanExit`) from `EndInv`, a process that only waits for the
database has no connections and no rejection behind it; `AdmissionsAreBounded`
(`[]AdmissionsBounded`) from `LimitInv`; `ServerTypes` (`[]TypeOK`). `Kept`, the part of
`LimitInv` about one counter, splits the admissions of the last window's length in
two: those that the running window has counted, of which there are at most the limit,
and those before them, which an earlier window admitted, fewer than the limit.

**Only model-checked.** Liveness: `CreateEnds`, `CancelEnds`, `EventReleased`,
`EveryCallSettles`, `CatchesUp`, `ShowsPage` and `ShutdownEnds` rest on fairness and
`ENABLED`, which are beyond the prover. That `Without` is `Remove` is checked on short
lists. The claims that fail have counterexamples, not proofs. Every other property of
the passing runs is proved.

## 5. Not modelled, and the plan

- Layout, forms, validation messages, the filter tabs of `BookingsPage` and
  the filters of `EventsPage`: choosing another filter starts another listing at
  page 1, so that a listing is followed with its filters held fixed.
- API documentation and logging: static data and output.
- Which field fails validation: a refusal is an outcome of `Arrive` and of the
  handlers.
- Of the seed script, the events it replaces and the bookings it keeps.
  `src/README.md` says "Reset DB" of it; bookings whose events are gone are in
  `BookingService` (a deleted event).
- Of the deployment, `docker-compose.yml` and nginx. With a single MongoDB node
  every transaction is refused, which the model can express (`ReplicaSet = FALSE`).
  Behind the proxy all clients have one address unless `trust proxy` is set; `Keys`
  is the set of addresses the limiters see, and the run has one.
- Registering in `Session` behaves as signing in does. `BookingPages` follows one
  event and one booking: two orders that are both accepted are in `BookingService`.

The plan, in order of importance:

1. What `SeatBook` itself keeps, stated about it alone: an event's sold seats and those
   left for sale, in every state of the box office.
2. Action properties of `EventHub` and `Session` that no invariant implies, with their
   proofs from `IndInv` and `OneSession`.
3. The events of the seed script, beside `EventHub`.
