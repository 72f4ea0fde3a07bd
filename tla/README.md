# TLA+ model of the ticket-booking system

The repository is a flash-sale ticket shop: a Go API over Redis and Postgres
and a Next.js page. This directory holds TLA+ modules of its core, the TLC
configurations that check them on small instances, and theorems that TLAPS
proves for every value of the constants. `src/` below is the repository.

Run a configuration with `tlc -config MCBooking_race.cfg MCBooking`, a proof
with `tlapm BookingProofs.tla`. `PROJECT.json` maps every definition to the
lines it stands for, and lists the runs, the mutants that show each property
can fail, the findings, the hazards and the theorems.

## 1. Inventory

### The system's parts

| Part | Source | State | Operations | Model |
|---|---|---|---|---|
| Booking | `src/api/handlers.go:117-347` | `orders`, `order_items` | `createBooking`: gate, hold, cap, transaction, release | `Booking` |
| Redis holds | `src/api/handlers.go:117-185` | `hold:<event>:<seat>` with TTL | `holdScript`, DEL | `Booking` |
| Payment | `src/api/handlers.go:389-503` | `payments`, `seats.status` | `payOrder`, `clearHoldsForOrder` | `Booking` |
| Cancellation | `src/api/handlers.go:505-574` | `orders`, `order_items` | `cancelOrder` | `Booking` |
| Expiry worker | `src/api/main.go:152-190` | `orders`, `order_items` | `expireOverdueOrders` every round | `Booking` |
| Schema guards | `src/db/001_init.sql` | two unique indexes, row locks | insert, FOR UPDATE | `Booking` |
| Admin events | `src/api/admin.go:38-301` | `events`, `seats` | `adminAuth`, create, patch, list | `Catalog`, `Listings`, `Booking` (patch of a sale under way) |
| Seat map, event list | `src/api/handlers.go:57-180` | none (reads) | `listSeats`, `listEvents` | `Checkout`, `Listings` |
| Orders list | `src/api/handlers.go:349-387` | none (read) | `listOrders` | not modelled |
| Auth tokens | `src/api/auth.go` | `users`; `refresh:<token>` in Redis | register, login, refresh, logout | `Accounts`, `RefreshTokens` |
| Proof of work | `src/api/pow.go`, `src/web/features/auth/AuthForm.jsx` | `pow:<challenge>` in Redis | issue, check, solve | `Accounts` |
| Web auth client | `src/web/lib/api.js`, `src/web/app/page.jsx` | localStorage, a React ref | `authFetch`, login, `logout`, reload | `WebSession`, `CalmSession` |
| Web booking page | `src/web/app/page.jsx` | event, map, selection, order, dialog, message | select, book, pay, cancel, countdown, poll | `Checkout` |
| Catalog grouping | `src/web/features/catalog/grouping.js` | none | `groupEvents`, `groupAdminEvents` | `Productions` |
| Rate limiter | `src/api/ratelimit.go` | two token buckets per address | `middleware`, `tokenBucketScript` | `RateLimiter` |
| Demand log | `src/api/analytics.go`, `src/api/main.go:141-150` | channel, buffer, `booking_attempts` | enqueue, flush, stop, shut down | `DemandLog` |
| Bootstrap, shutdown | `src/api/main.go` | | `ensureAdmin` and its retries, restart; the shutdown | `Accounts`; `DemandLog` |
| Configuration, views, seed, load tests | `src/api/internal`, `src/web`, `src/db`, `src/k6` | | | not modelled: wiring, rendering and data |

### How they interact

* A booking goes through three stores in turn: the event's row (the gate), the
  Redis holds (`SET ... NX EX` of all seats or none), and one Postgres
  transaction. Nothing joins the three, so anything may come between them.
* Payment, cancellation and the worker share the `orders` row. The first two
  lock it with `SELECT ... FOR UPDATE`; the worker's `UPDATE` locks it
  implicitly and re-evaluates its `WHERE` when it had to wait.
* The unique index on `order_items(seat_id)` is the last guard between two
  bookings. An insert that meets an uncommitted entry waits for it.
* Holds are keys without an owner. Whoever deletes them (a failed booking, a
  payment, a cancellation) deletes them blindly.
* The worker runs in every API process, on the same table.
* The page keeps a token pair in a ref and in localStorage, which its tabs share;
  every API call of the page goes through `authFetch`, which exchanges the pair
  when it is answered 401.
* The rate limiter runs before every handler; several API processes share its
  buckets in Redis and bring their own clocks.
* The page sends what it shows: the selection over the event of this moment, the
  order it was told of. Requests, answers, the map's polls and the countdown run
  on their own, and nothing of an answer is compared with what is shown by then.
* Registration and login cost a solved challenge, which Redis keeps until it is
  used; the row of `users` decides at every call whether somebody administers.
* The bootstrap writes the administrator's row while the API already serves, and
  a goroutine repeats it when it fails.
* The lists the pages get are snapshots of the catalog; the pages fold shows of one
  `series_id` into one production.
* A booking ends by putting its outcome into a channel; one goroutine per process
  writes what it finds there, until `main` cancels it.

### What is hard

* Two clocks end a booking: the TTL of its holds and `orders.expires_at`,
  computed later; the worker comes later still.
* A reply of Redis or Postgres can be lost after the call took effect, and the
  handler then takes the failure path over a success.
* The booking's transaction can outlive its holds, and its release of the holds
  can hit another booking's.
* Requests are repeated by people, browsers and proxies: a second payment with
  the same key, with another key, or with the key of another order.
* A process can die between any two calls.
* A refresh token is exchanged by two calls to Redis; calls of the page that run
  at the same time, a logout, a second tab or a lost reply fall between them.
* Answers reach the page late, in another order, or never; the map it shows is two
  reads old, and perhaps of another event.
* A challenge is sent twice, or its one GETDEL loses its reply.
* Calls that start and join productions overlap, and a joined series may be one that
  nobody has started.
* The bucket script is deterministic because the caller gives it the time; callers'
  clocks disagree and their scripts run in another order than they read the time.
* The shutdown stops the attempt writer before the requests that feed it.

### What makes each part correct

* Booking: no seat in two orders; all the seats asked for or none; no partial
  order left by a failure; no order before the sale opens.
* Payment: SOLD exactly when PAID; charged once, for the seats of the order;
  what the customer was told is true and stays true.
* Cancellation and expiry: only an unpaid order ends, only once, and expires
  only after its deadline; its seats come back.
* Holds: a hold lapses even when its booking died, and an expired order leaves
  none behind.
* Tokens: a token is exchanged once; a login is worth one token at a time; a tab
  acts under the user it shows, who is not logged out without need.
* Page: what it says is paid was charged; it does not offer to pay what it was told
  is paid; whatever it sends, an order has seats of its own event.
* Accounts: an accepted challenge was solved, and is accepted once; an email has one
  account; the administrator is the configured one, and nobody else is.
* Catalog: the rounds of a production agree on its name and venue; a show has its
  seats from its first moment; the pages count every show once.
* Buckets: a bucket grants its burst and what time gives back, and no more than
  the disorder of its callers allows.
* Demand log: no request waits for it; what it writes it writes once and in order;
  what it loses it reports.

`PROJECT.json` lists the hazards at their lines with the properties that catch
them.

## 2. Modules

| Module | What it is |
|---|---|
| `Booking` | the sale: requests, worker, Redis, Postgres, clock, administrator, faults; its properties |
| `SeatSales` | the abstract sale: reserve, pay and end as atomic steps on seats, and what that promises (`Promise`) |
| `SalesRefinement` | the refinement mapping from `Booking` to `SeatSales` |
| `BookingInvariants` | the strengthening `IInv` that makes the invariants inductive |
| `BookingProofs` | theorems of `Booking` |
| `SalesProofs` | the theorems that `Booking` implements `SeatSales` and keeps its promise |
| `RefreshTokens`, `TokensProofs` | the refresh tokens of the API, and their theorems |
| `WebSession`, `WebProofs` | the browser's session over `RefreshTokens`, and its theorems |
| `CalmSession` | `WebSession` with a history variable: has a fault happened yet |
| `Checkout`, `CheckoutProofs` | the booking page and the seat map over `Booking`, and their theorems |
| `Accounts` | registration, login, proof of work and bootstrap |
| `Catalog`, `CatalogProofs` | the shows and who changes them, over `Accounts`, and the theorems of both |
| `Productions` | the grouping of shows, as folds |
| `Listings` | the API's lists of shows in a state of `Catalog`, and what `Productions` makes of them |
| `RateLimiter`, `RateProofs` | the middleware and the bucket script, and their theorems |
| `IdealBucket` | what a token bucket promises; `RateLimiter` implements it |
| `DemandLog`, `DemandProofs` | the demand log and the shutdown, and their theorems |
| `MC...` and `MC..._<run>.cfg` | the small instances for TLC |

### `Booking` and the code

Every HTTP request is a process that runs one handler once. `pc[r]` is the step
it is at, and every step is one call to Redis or Postgres with the decisions up
to the next one. An order is named by the booking request that inserts it.

| State | Code |
|---|---|
| `event` | the row of `events`: `status`, the time to `sale_opens_at`, `max_seats_per_order` |
| `seat`, `status`, `items`, `payments` | the committed tables |
| `left` | the time to `expires_at`; -1 once it has passed |
| `claim` | the `order_items` of a transaction that has not committed |
| `lock` | the row locks on `orders` |
| `hold` | the Redis keys, with the booking that set them (a value the code does not store) and their time left |
| `call`, `rows`, `resp` | a request's arguments, what it read, and the answer it has decided on |
| `todo` | the rows a worker's `UPDATE` has still to visit |

| Actions | Code |
|---|---|
| `BookGate`, `GateError` | the read of the event and its checks; every error is `event_not_found` |
| `HoldSeats`, `HoldRefused`, `HoldFailed` | `holdScript`: all keys, none, or an error before or after it ran |
| `CheckCap` | the count of the user's unpaid seats |
| `BeginBooking` | BEGIN, the order row, and the snapshot of the `INSERT ... SELECT` |
| `InsertItem`, `UniqueViolation`, `DeadlockVictim` | the rows of the `INSERT ... SELECT`, one by one |
| `RowsMismatch`, `CommitBooking`, `BookingDBError` | `RowsAffected`, the commit, any failed query |
| `ReleaseHolds`, `RollbackBooking` | `releaseHolds`, then the deferred `Rollback` |
| `PayLookup`, `PayLockOrder`, `PayConfirm`, `PayRefused`, `PayClearHolds` | `payOrder` |
| `CancelLockOrder`, `CancelCommit`, `CancelClearHolds` | `cancelOrder` |
| `OrderNotFound`, `OrderDBError` | the error paths the two share |
| `ExpireScan`, `ExpireLock`, `ExpireCommit`, `ExpireFail` | `expireOverdueOrders` |
| `Crash`, `LoseHold`, `Tick`, `PatchEvent` | process death, Redis, time, `patchAdminEvent` |

Abstractions, and why they lose nothing the properties speak of:

* Time is a set of countdowns; one `Tick` lowers them all. The clocks of the API, of
  Postgres and of Redis are taken to agree; `ExpiredLeavesNoHold` rests on that. `BeginBooking` starts the order's
  countdown after `HoldSeats` started the holds', as the code does, and ticks
  fall between the two.
* Prices are left out: a payment records the seats it charged, and the code's
  sum is over the same rows.
* Pay, cancel and expiry write at their commit: all they write lies under a row
  lock that they hold since they read, and other transactions either wait for
  that lock or see the old rows until the commit. Booking inserts its rows one
  by one, because others do run into uncommitted index entries.
* An insert that would wait for an uncommitted entry is an `InsertItem` that is
  not enabled. An entry that a cancellation is deleting has the same effect
  as the entry itself until the commit.
* A crash of a process is a sequence of `Crash` steps of its requests.
* The order in which an `INSERT ... SELECT` without `ORDER BY` inserts is open,
  so the model picks any.
* A user's identity is checked by `auth` before the handlers run and is given
  with the call. Malformed ids, answered before any state is read, are left out.

### `RefreshTokens` and `WebSession` and the code

| State | Code |
|---|---|
| `live`, `owner` | the keys `refresh:<token>` and the users stored under them |
| `minted`, `root` | how many tokens were issued and the login each descends from (the code stores neither) |
| `req` | the `refresh` requests: before GETDEL, between GETDEL and SET, answered |
| `auth`, `stored` | `authRef` of each tab; localStorage |
| `call` | one `authFetch`: the auth it read at its start and how far it is |
| `revoking` | logout requests on their way (`logoutRequest` is not awaited) |
| `stale` | access tokens that have expired |

`Mint` is `issueTokens`. `GetDel`, `InvalidRefresh`, `GetDelFails`, `IssueNext` and
`IssueFails` are the two calls of `refresh` with every outcome, a failure before or
after the call took effect included; `IssueFails` stands as well for a process that
dies between the two. `WebSession` EXTENDS `RefreshTokens`: a call that is answered
401 makes the refresh request of its own name, through the same actions.
`TurnedAway` is a refresh that the limiter's middleware answers 429, `RateLimited`
any other call of `authFetch`; a logout that is turned away is among `RevokeFails`,
and a login that is turned away is not made. `Granted` and `Denied` are the two
branches of `authFetch` after the refresh; `refreshTokens` takes all that is not ok
alike (`Denials`). How a call ends is its caller's matter (`ended`). `LogIn` is one
step: what else happens in its tab until its reply is set, as the answer to a
refresh of the login before, is left out. `SetAuth` is the page's `setAuth` with
`persistAuth`. `Reload` loads the page again: it reads localStorage and cuts off its
calls, whose requests the server may serve all the same. A customer has one page per
tab and logs in only where none is logged in, as the page shows the form only then.
An access token carries the number of the refresh token it was issued with, and
expires at any time after; the server's clock is left out.

### `RateLimiter` and the code

Requests of one client address; `bucket["ip"]` is the hash `rl:<ip>` and
`bucket["auth"]` the hash `rlauth:<ip>`. `Asking` reads the process' clock (up to
`Skew` ahead of Redis') and sends the script; `RunScript` runs it, up to `Late`
ticks afterwards, and `FailOpen` is an error before or after it ran, which lets
the request pass. `Refilled` and `Saved` are the script's arithmetic and its
HSET and EXPIRE. A unit is what comes back in a tick, so that any rational rate
is `Cost` units to a token. Left out are the rounding of Lua's floats, a script that
the Redis client sends a second time after an error of the network, a burst of less
than one token (which admits nobody) and a limiter that is switched off. The TTL of the code is the time to refill and a
minute; only `Slack \in Nat` is assumed of the minute.

`IdealBucket` fills by a unit a tick and grants when the cost is there. Its
`level` is `Refilled(b, clock)`: neither `ts` nor the lapse of the key is seen.

### `DemandLog` and the code

`step` is a booking request from the gate (where `defer logAttempt` is set up) to
the end of its handler, `queue` the channel, `buf` the writer's batch, `main` how
far the shutdown is. `Receive`, `TickerFlush` and `ContextDone` are the cases of
the writer's `select`, which takes any that is ready. A flush is two steps:
`Acquire`s a connection, and the batch, one implicit transaction, is written or
fails (`BatchWritten`, `BatchFails`); `insertAttempts` is given
`context.Background()` and is not cut by the cancellation. A batch whose rows all ran and whose end fails, an error
of `br.Close()` that `insertAttempts` ignores (`src/api/analytics.go:84`), is left out:
it would be lost and not logged. `Exit` is the deferred
`db.Close()`, which waits for connections in use. Other processes have logs of
their own; what an attempt says is left out.

### `Checkout` and the code

`Checkout` EXTENDS `Booking`: one customer uses the page in one tab, and every click
sends a request of `PageReqs`, whose handler is `Booking`'s. Requests outside
`PageReqs` are other customers'.

| State | Code (`src/web/app/page.jsx`) |
|---|---|
| `shown`, `map`, `selected`, `order` | `eventId`, `seats`, `selected`, `order` |
| `dialog` | `confirmState`: pay or cancel, with the order of the rendering that asked |
| `told` | `msg`, as far as it says something of an order |
| `fate` | a request of the page: unsent, on its way, answered, or its answer never comes |
| `polls` | polls of the map that have read Postgres and not yet Redis |

| Actions | Code |
|---|---|
| `Show`, `ToggleSeat`, `Book`, `Ask`, `ConfirmPay`, `ConfirmCancel`, `Dismiss` | the clicks; `Book` stays possible while a booking is under way |
| `BookAnswered`, `PayAnswered`, `CancelAnswered`, `Lose` | what follows `await authFetch`, with the state of that moment |
| `Countdown` | the interval that drops an overdue order |
| `PollRead`, `PollShow` | `listSeats`, whose two reads are two steps, and the page's `setSeats` |

`Answered` includes requests that the middleware turned away before their handler
began. `ConfirmPay` sends `idemKey`, one of each order. The tokens of the calls are
`WebSession`'s matter. The map is the set of seats it offers.

### `Accounts`, `Catalog`, `Listings` and the code

| State | Code |
|---|---|
| `users` | the table, by its unique email |
| `fresh`, `minted`, `solved` | `pow:<challenge>`; how many were issued; those somebody has found a solution of |
| `form`, `proof`, `step`, `got`, `resp` | a submission: what is filled in, its challenge, how far it is, the row `login` has read, its answer |
| `tries` | the failed attempts of the bootstrap, or that it has landed |
| `shows`, `seats` | the committed rows of `events` and `seats` |
| `ask`, `at`, `tx`, `told` | a call of the administration: its body, how far it is, the uncommitted row, its answer |

| Actions | Code |
|---|---|
| `Submit`, `Solve`, `Repeat` | `AuthForm.jsx`, `solvePow`; a request that arrives twice |
| `PowRequired`, `PowPassed`, `PowInvalid`, `Lapse` | `checkPoW`, `issuePoW`, the TTL |
| `Register`, `ReadUser`, `Compare`, `IssueTokens` | `register`, `login` |
| `EnsureAdmin`, `Restart` | `ensureAdmin`, its retries in `main.go`, another start of the process |
| `AdminAuth` | `adminAuth`, which reads the session's user anew |
| `InsertShow`, `CommitShow` | `createAdminEvent` up to the row of the event, and its seats and the commit |
| `PatchShow` | `patchAdminEvent`; the sale's time and cap are in `Booking.PatchEvent` |
| `Sell` | a payment, in one step: `Booking` says how |

`Solve` may send an unsolved challenge, as any client may. `Repeat` makes a
submission of its own of a call that arrives again. A process that dies between two
steps of a handler leaves what `db_error` or `token_error` leaves. `Draw` picks an id
that nobody has named, as `gen_random_uuid` does; an administrator may send any id
that is known.

`ListEvents` and `ListAdminEvents` are the two queries, `GroupEvents` and
`GroupAdminEvents` the functions of `grouping.js` as folds over their rows;
`ProductionsAreWhole` compares the result with the tables, not with the rows.

### Faults

In `Booking`, `Faults` chooses among `redis_error` (a call fails and has no effect),
`reply_lost` (it has its effect and fails), `redis_loss` (a key disappears),
`db_error` (a query fails and Postgres rolls back) and `crash`; in `DemandLog`
among `db_error`, `reply_lost` (of a batch) and `crash`; in `Accounts` and `Catalog`
among `redis_error`, `reply_lost` and `db_error`. `Checkout` has `Booking`'s, and any
answer to the page may be late or lost. Calls of `RefreshTokens`
may always fail. `WebSession` and `RateLimiter` have switches instead:
`RedisFails`, `NetFails` (replies are lost on their way to the browser),
`Reloads`, and `Limits` (the limiter may turn any request of the session away,
whatever its buckets hold).

## 3. Runs

### Booking

Each run has its own calls; every request picks one of its calls, so that one
run covers many scripts. Two users, two seats and four requests are enough for
every conflict the code has: a conflict needs two bookings of a seat, one
payment and one rival of that payment. `HoldTTL` is 1 tick: holds lapse before,
while and after every step of a booking, and the deadline before, with or after
them. The cap of unpaid seats, 4, binds only in `live`, where it is 2.

| Run | Question | Instance |
|---|---|---|
| `race` | no seat in two orders, all or none of the seats, SOLD iff PAID, charged once, true answers, PAID for ever, one end; `Booking` implements `SeatSales` | 2 bookings of 2 seats, overlapping or not, perhaps of a seat named twice or of too many; a settlement, and a second one of the same order with another key or of the other order with the same key; 2 workers (symmetric), lost replies and lost holds |
| `live` | orders end, requests end, holds lapse, no early order; the inductive invariant of the proofs | 2 seats, one of them SOLD, on a sale that opens and may be closed; 2 bookings by one user at the cap, a settlement, failing queries and crashes, under `FairSpec` |

One run ends with the violation of what the repository says, a finding:

| Run | The claim | What happens |
|---|---|---|
| `deadlock` | sorted ids prevent deadlock (`src/api/handlers.go:213-214`) | the sort does not order the rows of an `INSERT ... SELECT ... WHERE id = ANY` |

It costs no seat and no money: `OneOrderPerSeat`, `SoldIffPaid` and `ChargedOnce`
are proved with such deadlocks possible.

`NoEarlyOrder` is checked for administrators who close a sale or change its
cap, not for one who moves the opening of a sale under way: then a booking past
the gate commits its order all the same.

### The page

| Run | Question | Instance |
|---|---|---|
| `checkout` | what the page says is paid was charged; what it was told is paid it offers no more; an order has seats of its event | a customer of 2 events, one with a seat; a booking, a payment, and a second payment, a cancellation or the booking pressed again; one poll of the map under way at a time; late and lost answers, failing Redis |

Three requests are the shortest scripts in which an answer overtakes another one or a
click. One seat and two events suffice for a stale map: the seat is sent as one
of the other event. One more run ends with a finding:

| Run | The claim | What happens |
|---|---|---|
| `released` | after a cancellation the seats are released (`src/web/app/page.jsx:206` and `409`) | the page says so whatever the API answered: the order may be unpaid still (turned away by the limiter, or a query failed), or PAID |

### Accounts and catalog

| Run | Question | Instance |
|---|---|---|
| `admin` | a challenge passes one submission, an email has one account, the administrator is the configured one; rounds agree; the pages count what the database has | 2 submissions (symmetric) of 3 forms, 2 challenges, a bootstrap of 2 attempts and restarts; then 2 calls of 4 and 8 bodies over 3 seeded shows, a seat sold; every fault |

`OneAfterTheOther`, a constraint, lets calls begin when every submission has ended
with `ok` and no challenge is left. It removes interleavings only: the two parts share
nothing but the rows of `users`, which a call reads in one step, and the bootstrap,
which writes one of them, goes on meanwhile. The bodies start a production, join one that stands, one that nobody has started, one that the
other call has just started, and one with the id of a show. `CHECK_DEADLOCK` is off
in this run, since an instance ends when its calls are used up.

### Tokens, session, limiter and log

| Run | Question | Instance |
|---|---|---|
| `tabs` | a token is exchanged once, a login has one token, an exchanged token is dead, a tab has the token of the user it shows; as long as nothing fails, who is shown as logged in is so | 2 tabs, 2 calls, 2 logins, reloads, lost replies, lapsing tokens, requests turned away by the limiter, Redis failing before or after a call took effect; at most 4 tokens are issued, 2 by logins and 1 by each call |
| `ideal` | both buckets are ideal ones | 4 requests in 5 ticks, buckets of 3 and 2 units, a token of 1 and of 2, TTL a tick more than a refill, failing Redis; `Late` and `Skew` 0 |
| `budget` | what a bucket grants under disorder | 3 requests in 6 ticks, buckets of one token of 5 units, clocks a tick apart, failing Redis |
| `log` | written once and in order, nothing lost in silence, no request waits, what is queued is sent on | 4 attempts, channel and batch of 2, every fault, under `FairSpec` |

The bounds are tight on purpose. The conflicts of a session need two calls that
hold the same pair, and a second login for what one call can carry over to it.
`NotStranded` speaks of the time before the first fault (`calm`) because a lost
reply of a refresh does strand its customer, and the code has no answer to that. A
request that the limiter turns away ends no calm.
Five ticks see a bucket of three units lapse and come back. In `budget` a token is worth five ticks, more than three
requests can gain by disorder, so that an overdraft would show. A channel and a
batch of two are overfilled by four attempts.

Findings:

| Run | The claim | What happens |
|---|---|---|
| `concurrent` | an expired token is renewed and the customer need not log in again (`src/docs/techniques-used.md:68`) | of two calls that get 401 at once the second presents a token that is already exchanged and logs the customer out; one tab and one login, no faults, and the limiter off, so that it is the overlap that does it |
| `captured` | every attempt is captured unless the buffer is full (`src/api/analytics.go:11-19`) | the shutdown stops the writer first; what is in the channel, or comes to it afterwards, is lost |

### Differences that were read and not run

The models contain these behaviours too, except where it says so, and no property
forbids them:

* the cap on unpaid seats is counted before the transaction, so that two bookings
  of one user exceed it together (`src/api/handlers.go:271`; accepted by the comment
  above it, while `src/api/booking_edge_test.go:362` says otherwise);
* an order outlives its holds until the worker comes, so that a rival passes Redis
  and is refused by the unique index (`src/README.md:62-65` says at Redis);
* `createBooking` reads no idempotency key: a booking that is sent again is told
  `seat_taken` by its own holds (`src/README.md:73-74` says every write endpoint is
  idempotent);
* a booking past the gate commits after the sale is closed
  (`src/web/features/admin/AdminPanel.jsx:124` says nobody can book from then on);
* a logout whose token a refresh under way has consumed revokes nothing, and the
  token issued next stays live (`src/README.md:99-100` says revoked on logout);
* a 429 of the limiter to a refresh logs the customer out, though the token is live and
  no other call is under way (`src/web/lib/api.js:36` and `69`;
  `src/docs/techniques-used.md:68` says the customer need not log in again);
* a refresh that is denied after its customer logged out and the next one logged in
  logs out the next one (`src/web/lib/api.js:69`);
* a bucket script that runs late sets `ts` back, and the same tick is refilled twice
  (`src/api/ratelimit.go:43`); `BudgetUnderDisorder` bounds what that can give;
* a round whose `series_id` is the id of a standalone show is one production with it
  for the customer and two for the administrator
  (`src/web/features/catalog/grouping.js:9` and `28`);
* a create whose commit reply is lost is answered `db_error`, and sent again makes a
  second show (`src/api/admin.go:225`);
* the page's payment dialog adds up the seats that are selected, which a booking
  pressed twice or an answer that came late can part from those of the order
  (`src/web/app/page.jsx:396`; prices are not in the model);
* `listSeats` stops at 1000 seats and `createAdminEvent` makes up to 26 x 60
  (`src/api/handlers.go:78`; not in the model).

### Fairness

`log` assumes that handlers run on, that the writer's goroutine runs, and that its
ticker is chosen again and again whatever else is ready (Go's `select` picks at
random: strong fairness). Nothing is assumed of the pool and of Postgres, which may
hang without a timeout, nor of signals: `RequestsNeverWait` holds with a writer
that hangs for ever, and `AttemptsAreFlushed` says that what is queued is written,
reported, or in a batch whose flush has begun.

`live` assumes, and only what the code and its stores provide:

* a handler that has started goes on (goroutines are scheduled), with strong
  fairness because a step may be disabled while another transaction has the
  row or the index entry: Postgres grants locks in turn. Nothing is assumed of
  requests that have not started, and no progress is owed to a failure;
* the worker's rounds come (a ticker), its row locks are granted in turn and
  its statement does not fail for ever: `src/api/main.go` logs an error and
  comes back in the next round;
* a cycle of waits between workers is broken (Postgres' deadlock detector);
* time passes.

`CHECK_DEADLOCK` is on in every run but `admin`: the system rests only in `Quiet`, when all
requests are finished, nothing is pending and no worker is at work. The other
modules rest likewise: `TokensRest`, `Rest` and `Exited` name the states in which
nobody has anything left to do.

## 4. Theorems

### Booking

All are for every set of users, events, seats, requests, workers and calls, all
faults and all administrators' patches, from the one assumption
`ConstantAssumption`: finitely many seats, a positive TTL, well-formed calls,
and a `None` that is nobody.

`BookingProofs` proves `Spec => []IInv` (`Inductive`). The invariants of the
runs are not inductive as they stand; `IInv` adds what they rest on, in layers,
each proved from those above it:

1. `TypeOK` and `StepsMatch`: a request takes only the steps of its handler, so
   that `call[r].order` exists where it is read.
2. `Stages`: how far a request is tells what it has. An order is born with the
   commit; uncommitted rows exist only inside the transaction and are seats
   that were asked for and read as AVAILABLE; only PENDING and PAID orders have
   items.
3. `Locks`: only PENDING orders are locked, by a worker only after the
   deadline, and who is about to commit a payment or a cancellation has the
   lock. Hence the order it commits is still PENDING (`OrderToCommit`).
4. The tables: `OneOrderPerSeat` from the index alone; `Whole` from the check of
   `RowsAffected`, by counting (`CompleteIsAll`); `SoldIffPaid` and
   `ChargedOnce` from `Locks`.
5. `HoldsEnd`: the deadline is set after the holds with the same time, so it
   does not fall before they lapse. `Answers`: an order that was refused is
   `Unpayable` and stays so (`SettledStays`).

From `IInv` follow the safety properties and the action properties
`PaidIsForever` and `OrderLifecycle`; `PendingSeatsAvailable` needs
three layers together (no second order of the seat, none seeded, so none SOLD).
`NeverEarly` proves `NoEarlyOrder` under the hypothesis `NoPostponing` (no patch
puts an opening ahead of the present), by the invariant `OnTime` that a booking
past the gate is of a sale that has opened, which stays so (`StaysOpen`).
`SalesProofs` proves `Spec => SalesSpec`: the commit of a booking is the
abstract reservation, the commit of a payment the abstract payment, a
cancellation and the worker's commit the abstract end, and every other step
is a stutter. The mapping is a function only because of `OneOrderPerSeat`
(`HolderHas`). `SalePromise` proves of the abstract sale alone what it amounts to
(`SaleInv`: the charges are those of the PAID orders, for their seats), and
`PromiseKept` carries it to `Booking` by the refinement.

These theorems say more than the runs check:

* `ChargeStands`: a charge and the seats it was for never change again, and
  `NoSeatChargedTwice`: no seat is in two charges, by `ChargedOnce`
  and `OneOrderPerSeat`. What `PaidIsForever` says of the seats in
  one step these say of all time and of the money.
* `CapHolds`: the cap on unpaid seats is exact for a user whose bookings do not
  overlap, whatever the other users, the worker and the faults do. The hypothesis
  `OneAtATime` excludes the race that `src/api/handlers.go:266-269` accepts and nothing
  else, so that the race is the only way past the cap. The invariant `CapKept`
  counts what a user holds together with what its booking is about to add; only the
  user's own commit (`CapAtCommit`) makes it grow (`UnpaidGrows`, `CapElsewhere`).
* `DeadlockNeedsLostHold`: bookings do not deadlock in a state where the holds of every
  booking outlast its transaction (`HoldsOutlast`). In a cycle of waits two bookings
  want a seat of each other's, and they are of one event (`RowsInEvent`), so that they
  would hold one Redis key together. The claim that the run `deadlock` refutes thus
  needs a hold that lapsed, was lost or was deleted by somebody else; the sort of the
  ids has no part in it.
* `BookingAnswers` and `CancelAnswers`: an answer agrees with the tables, whatever came
  between the steps of its handler. An order stands behind a booking that was told
  `created`, and behind no refusal but a `db_error` whose commit went through without a
  reply; `cancelled` and `not_cancellable` are true from then on (`SettledStays`).
* `NoOrphanHolds`: where Redis may lose keys and nothing else fails, every hold has a
  `Reason`: a booking that is still under way, a PENDING order, or a payment or
  cancellation that is about to delete it. Every other fault does leave holds behind,
  which lapse (`HoldsLapse`).

### Tokens, session and limiter

`TokensProofs` rests on `TokensAssumption` (finitely many requests, room for the
tokens they issue). Its invariant adds to `TokensTypeOK` that a token being
exchanged is not live and that two requests never hold one token; then a login's
tokens are totally ordered by their numbers and only the newest is live or held.
`SingleUse`, `OneTokenPerLogin` and `ExchangedIsDead` follow. `DeadForEver` says
without a history what a client sees: a token that is neither live nor held by an
exchange is so for ever.

`WebProofs` proves that every step of `WebSession` is one of `RefreshTokens` or
leaves its state alone (`BrowserIsAClient`), so that the three properties above
hold under the page too, and `UserOfToken` from the invariant that every auth that
is kept anywhere (a tab, localStorage, a call) names the owner of its token, and
that a granted token has the owner of the one it was given for. `SessionTyped` adds that
what a tab, localStorage or a call has was issued (`IssuedOnly`).

`NeverStranded` proves `NotStranded`. While nothing has failed, `CalmSafe` holds: no
call was cut off from its page (`NothingCut`); the token of a tab is live or being
exchanged, and no logout is about to revoke it (`TabsSafe`); no two tabs have one
token, and no call but the tab's own began with it (`TabsApart`); and a new token on
its way to its tab is live and known to nobody else (`WaitingSafe`). A step of the
model either is one without faults or ends the calm (`FaultlessSteps`), so that each
action needs only its faultless case.

`RefreshIsTransparent` proves the claim that the run `concurrent` refutes, under what the
run shows it to lack: while a call exchanges a token, no other call is under way that
began with it (`RefreshAlone`). Then, as long as nothing fails, a refresh is denied only
when the limiter turned that very request away or to a login that has no token left, as
after a logout (`TransparentUnlessLimited`). The invariant `RefreshSafe` says that the
token of a call is live until the call presents it or is turned away, or its login is
over, which stays so (`OverStays`). The theorem is about why a refresh is denied, not
about whom the denial logs out: that is whoever the tab shows when it arrives.

`RateProofs` rests on `BucketAssumption` (a request costs at most the burst; the
time to live is at least a refill). Its invariant is a balance: what was granted and
what is left in a bucket came from the burst, from the time up to `ts`, and from one
`Disorder` (`Late + Skew`) for each run of the script, because a run can set `ts`
back by no more; for an absent key the time since `ts` was a full refill (`Lives`).
`BudgetHolds` is the budget that follows, and `BudgetFromAnyMoment` the same from any
moment on (by the invariant `Since`): a client that was silent or refused for long has
saved up no more than a burst. With `Late` and `Skew` 0 a waiting request
has read the current time, and `BucketsAreIdeal` proves the refinement: a run is a
grant or a denial, a tick fills by one unit or finds the bucket full, and a key that
lapses lacked at most the unit of that tick.

### Page, accounts and catalog

`CheckoutProofs` (from `ConstantAssumption` and `CheckoutAssumption`) proves that
every step of `Checkout` is one of `Booking` or leaves its state alone
(`CheckoutIsBooking`), so that `IInv` and all that follows from it hold under the
page. `PageInv` adds what the page relies on: it asks in the customer's name and
only for orders whose creation it was told (`Asks`), such orders are in the table
(`CreatedExists`), the rows of a booking are of its event (`RowsInEvent`), and
PAID, once told, stays (`ToldIsPaid`, by `PaidIsForever`). `PaidIsTrue`, `OfferIsOpen`,
`EventsStayApart` and `PageTyped` follow, and with `ChargeStands` also `ToldIsForEver`:
what the page once said is paid stays charged. `ReleasedIsOver` bounds the finding of the
run `released`: when the page says so, the API has answered the cancellation of that
order with `cancelled` or `not_cancellable`, and the order has ended, or with an error
(`ReleasedAsAnswered`). An answer that is an error and is shown alike, and an order that
ended as PAID, are all there is to that finding.

The first part of `CatalogProofs` is about `Accounts` (from `AccountsAssumption`). It
needs no strengthening but the types, which tell how far a submission is:
`WorkPerSubmission` is inductive because a challenge leaves Redis in the step that
accepts it, `AccountsStand` because of the unique index and because only the bootstrap
writes an administrator's row.

The second part (with `CatalogAssumption`) proves that
`Catalog` implements `Accounts` and that `CatInv` is inductive: open transactions have
valid bodies (`OpenValid`) and ids of their own (`IdsApart`), the series of a new
production is in no other row or request (`NewSeries`), and a round that joins agrees
with the rounds its production has by now, or has no name when there are none
(`Joins`). `ProductionsAgree` and `CatalogTyped` follow, and the action property
`ShowsStay`: no call loses a show, moves it to another day or production, or changes a
seat, its price or that it is sold; a commit writes to an id that no show has
(`IdsFree`), a patch changes the status alone. `NobodyElse` joins both parts: whoever
has a session has an account (`LetIn`), no account but `AdminEmail`'s is ever an
administrator's (`AccountsStand`), hence before a session of that account begins the
catalog is the seed's.

Two theorems are about the keys by which `Productions` groups the shows.
`PanelShowsSeries`: to the administrator a production is a show of its own or rounds of
one series, which agree on name and venue, and all rounds of a series are in one,
whatever ids administrators send. `PagesGroupAlike`: the customer's page groups alike, if
the seed (`SeedApart`) and the calls (`JoinsProductions`) give no series the id of a
show. Ids that are drawn need no hypothesis (`SeriesApart`): they are never those of a
series somebody has named. The difference listed above is thus the only one.

### Demand log

`DemandProofs` rests on `DemandAssumption`. `LogInv` adds to `TypeOK` and
`NoSilentLoss` that a writer at its select has room in its batch (`BufHasRoom`), that
no attempt is sent twice (`SentOnce`), and that the table, the batch and the channel,
one behind the other (`Line`), are in the order in which the attempts were sent
(`InLine`): the writer moves the head of the channel to the end of the batch and the
whole batch to the end of the table, and a failed batch leaves the line without a
change to the rest. `TableInOrder`, `NeverTwiceInTable` and `NothingLostInSilence` follow.
`LossIsBounded` puts a number on what the design gives up: however the process ends, at
most `ChanCap + MaxBatch` attempts are neither in the table nor reported (`InMemory`).
`IdleStopLosesNothing` says what the run `captured` needs: if no insert fails and channel
and batch are empty from the moment on at which the shutdown begins (`IdleAtStop`), no
attempt is lost but those reported as dropped, so that what the run loses was in memory
at the signal or came after it. A batch whose reply is lost is logged as failed and is in
the table all the same (`FailedIsWritten`).

### Only model-checked

* The liveness properties `PendingEnds`, `RequestsEnd`, `HoldsLapse`,
  `AttemptsAreFlushed` and `RequestsNeverWait`: fairness and ENABLED are beyond the
  prover.
* `ProductionsAreWhole`: what a fold and a sort compute is shown by induction over the
  list, which the prover cannot do. `PanelShowsSeries` and `PagesGroupAlike` prove
  what the property needs of the keys and of the tables; that the folds put together
  what has one key, and miss no row, is checked.
* The four violations. For each of them a theorem names what it takes:
  `DeadlockNeedsLostHold`, `ReleasedIsOver`, `RefreshIsTransparent` and
  `IdleStopLosesNothing`.

## 5. What is not modelled

Every other property of a passing run is a theorem. What is left out, and why:

* configuration, routing, CORS, probes, logging and rendering have no state of their
  own; `listOrders` is one read of one snapshot, and nothing depends on it;
* prices, their rounding to cents and the totals the page shows: the properties of
  a payment are about the seats it charges;
* the hash of the proof of work and of passwords, and JWT signatures: a challenge is
  solved or not, a password is the right one or not;
* the demo data, the tests and the load scripts, which were read for what they
  promise.
