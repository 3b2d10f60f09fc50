# cgv-onprem: a TLA+ model of the admission queue and its hand-over to booking

cgv-onprem sells seats for a broadcast whose opening attracts far more people
than the booking service can take. `queue-go` lets at most MAX_SESSIONS people
in at a time and keeps the others in a line; `booking` serves those who are in;
Kafka carries what one has to know of the other. This project models what can
go wrong in and between these parts, checks it with TLC and proves every safety
property of it with TLAPS.

## 1. The system

| Part | State it keeps | Operations |
|---|---|---|
| queue-go, Redis scripts (`redis/*.go`) | per movie: `sessions:{m}:active` (sorted set, admission time), `sessions:{m}:waiting` (enqueue time), `waiting_lastseen:{m}` (last poll), `pending_events:{m}` (journal of notices not yet published), `promoted_count:{m}`; globally `active_movies`, `waiting_movies`, `queue:promote_pause` | enter, position, leave, complete, promote, expire seats, expire waiters, untrack, clear the journal |
| queue-go, handlers and loops (`handler/`, `processor/`, `kafka/`) | nothing that outlives a step: the pods are stateless and several run all loops at once, without a leader | publish admissions (enter, promotion), publish what the journal still holds (sweep, 5 s, grace 6 s), consume `bookings-completed` |
| Kafka | topics `admissions` and `admissions-revoked` (queue to booking), `bookings-completed` (booking to queue) | at least once, in order within a partition, in no order across topics |
| booking, certificates (`redis/AdmittedService`, `kafka/*Consumer`) | `admitted:{movie}:{request}` with a TTL (180 s), the gate of every booking operation | set on an admission, delete on a revocation or a booking, expire |
| booking, confirm (`service/BookingService`) | MySQL rows with UNIQUE keys on seat and idempotency key | gate, validate, renew the lock, pay, commit, release, report, delete the certificate; refund on failure |
| booking, seat locks (`redis/SeatLockService`, `service/SeatService`) | `seat:{screening}:{seat}` with a TTL (45 s), index set `seatlocks:{screening}` | lock all or none, renew, release, list and heal the index |
| booking, admin reset (`service/AdminResetService`) | none of its own | in one transaction: empty the tables, read the index of the seat locks, delete index and locks, delete the certificates |
| queue-go, reset (`redis/reset.go`) | none of its own | DEL of the movie's keys and two SREMs, in one pipeline that is no transaction |
| queue-go, live feed (`redis/events.go`) | `events:{m}` (sorted set by id, at most 100 members), `events_id:{m}` | append (INCRBY, ZADD, ZREMRANGEBYRANK, three calls), read behind a cursor (two calls) |
| queue-go, consumer of `bookings-completed` (`kafka/kafka.go`) | the offset of its group | fetch, free the seat, tell the feed, commit |
| rate and ETA, metrics | counters | for display |
| frontend (`js/live.js` and others) | request id in the browser, cursor of the feed, timers | enter, poll, select, confirm, leave; poll the feed |

How they interact. A script changes Redis atomically and, in the same step,
records in the journal what booking must be told. The publisher (a handler, the
promotion loop or the sweep) then writes to Kafka and, if that succeeded, strikes
the notices off the journal *by name*. Everything that fails or dies in between
is left to the sweep. booking's consumers set and delete certificates; a booking
is reported back and frees the seat. A seat that nobody gives back is taken back
by the session timeout, a waiter that no longer polls by the waiting timeout.

What is hard in it:

* all pods run all scripts in any order, with clock readings made before the
  script reaches Redis;
* the script, the publication and the clean-up of the journal are three steps, a
  pod can die between any two, and an error of the publication does not mean that
  the broker has nothing;
* the notices of one stay can meet those of the next stay of the same request id,
  and admissions and revocations travel on topics that nothing orders;
* a pause flag set by one pod stops the promotions of all;
* in booking, locks and certificates expire while a payment runs, and the payment
  id is shared by concurrent confirms with the same key;
* both resets are several calls, and everything else goes on between them;
* ids of feed events are drawn in one call and stored in another, and the page asks
  again while an answer is under way.

What makes each part correct:

* store: never more seats than MAX_SESSIONS; a user in one place; two keys of the
  line that agree; every busy movie visited by the loops; a journal that announces
  only seats that are held; a seat that no request prolongs; and above all a seat
  and the duty to report it that change together;
* hand-over: who holds a seat passes booking's gate, who has lost it does not,
  whatever is lost, repeated or dies; both happen in the end; the line moves;
* time: the scores are clock readings of many pods, made before the script runs;
  what they promise must hold in real time, up to the skew: no seat and no place
  in the line is taken early, the line is promoted in order, a number only falls;
* reset: whatever is left of a movie is found by the loops;
* confirm: money is kept only for a booking and every booking is paid; a seat is
  sold once; a key buys once, in one piece, and what it was charged for; who is
  told that he has booked has booked what he asked for;
* seat locks: the index covers every live lock; nobody frees or renews another's
  lock; nobody pays in vain unless somebody was without his locks;
* feed: one line for the end of a visit, however the ways out race; the newest
  events are kept; the page shows each once and passes none by, and comes back from
  a reset;
* consumer: no completion is passed over in a crash.

## 2. Modules

| Module | What it is | Code |
|---|---|---|
| `SortedSet` | the Redis sorted-set commands as operators on functions | external: Redis |
| `AdmissionContract` | abstract specification of one movie: `seated`, `queued`, `owed` and the steps allowed on them, without clock, score or key | the common promise of the scripts |
| `QueueStore` | the Redis state of one movie with its scores and every script as one action | `redis/*.go`, `processor/timeout.go`, `processor/waiting_timeout.go` |
| `MCQueueStore` | the instance TLC checks | |
| `QueueStoreProofs` | theorems on `QueueStore` | |
| `QueueTiming` | extends `QueueStore` with the reset and with the real times of what happened | `redis/reset.go`, the handlers' clock readings |
| `MCQueueTiming`, `QueueTimingProofs` | its instance and its theorems | |
| `AdmissionFlow` | publication, Kafka and booking's certificates around the contract | `handler/admission.go`, `processor/queue.go`, `processor/sweep.go`, `kafka/kafka.go`, booking's consumers, `AdmittedService`, `BookingService.confirm` |
| `MCAdmissionFlow`, `AdmissionFlowProofs` | its instances and its theorems | |
| `SaleContract` | abstract specification of one screening: charges and sold seats, without locks, requests or failures | the common promise of booking |
| `SeatSale` | one screening: seat locks, select, confirm and admin reset, call by call | `SeatLockService`, `SeatService`, `BookingService`, `BookingPersistence`, `AdminResetService` |
| `MCSeatSale`, `SeatSaleProofs` | its instance and its theorems | |
| `EventFeed` | the feed in Redis, its writers and one page | `redis/events.go`, `frontend/js/live.js` |
| `VisitFeed` | extends `EventFeed` with who writes: the users' ways in and out and the consumer of `bookings-completed` | `handler/admission.go`, `processor/*.go`, `kafka/kafka.go` |
| `MCVisitFeed` | the instance TLC checks | |
| `EventFeedProofs` | lemmas on the feed and the page, whatever the lines say and whoever writes them | |
| `VisitFeedProofs` | theorems on `VisitFeed` | |

**QueueStore.** Variables are the Redis keys, named after them; a sorted set is a
function from members to scores. A script is one action: Redis runs it alone.
Its `now` is any reading of `Now`, at most `Skew` ticks old. A journal member
`A|ENTER|id` is a record `[kind, reason, user]`. The user ids are numbers, because
Redis orders equal scores by the bytes of the member (`Precedes`). The limits of
the expiry scans (1000) are the constant `ScanLimit`. Errors of Redis that leave
the script unexecuted are stuttering steps.

**AdmissionContract.** `QueueStore` implements it under the mapping
`seated <- DOMAIN active`, `queued <- DOMAIN waiting`, `owed <- DOMAIN pending`
(property `ImplementsContract`, checked and proved). `AdmissionFlow` uses its
actions in place of the scripts, so that what is checked there is about the
scripts too, without their scores.

**AdmissionFlow.** A `Worker` is a goroutine that publishes, of whichever pod:
`job[w]` holds its task, the batches it will publish (the sweep has two: first
admissions, then revocations) and whether the first is out. `Publish`,
`PublishFails` (any part of the batch may have reached the broker), `Clear`,
`ClearFails` and `Crash` are separate steps. The handler may also die, or lose
the answer of Redis, before it becomes a job at all. The grace of the sweep is
abstracted to "any moment": a publication may take longer than the grace. A topic
is the set of users with a message in it: messages of one topic about one user
are idempotent, and consuming may leave the message for another delivery.
`DeadLetter` is booking's error handler giving up. `confirm` keeps of a booking
the gate, the outcome, and the order in which it reports and deletes its
certificate. `CertExpires` never hits a certificate set during the current stay,
because ADMITTED_TTL (180 s) is longer than SESSION_TIMEOUT (60 s).

Four variables are history and guide no step: `stay` records what the latest stay
of a user met (`clean`; `mixed` when notices of an earlier stay, or of a booking,
overlapped with it; `untold` when booking dropped one of its messages; `booked`),
`fresh` whose certificate belongs to the current stay, `atRisk` which notices were
recorded again between a publication and its clean-up, `grants` counts seats.

**QueueTiming.** It composes the scripts of `QueueStore` with `ResetDeletes`,
`ResetUntracks`, `ResetUntracksLine` and `ResetBreaks`, the parts of one pipeline;
any script may run between them. `Record` keeps the history: `joinedAt`,
`polledAt`, `seatedAt` are readings of the model's own clock at the moment of the
step, while the scores are readings of a pod's clock made up to `Skew` ticks
before. `overlap` says that somebody entered in the middle of a reset and that
the movie has not been tracked again since. The fifth key the reset removes, the
feed's, is in `VisitFeed`.

**SeatSale.** A lock is an owner and the ticks left; `Tick` is time for all locks.
`pc[c]` is where confirm `c` is, `req[c]` its key and seats:
`asked -> checked -> renewed -> paid -> stored -> booked`, with `duplicate`,
`conflict` and `failed` after a commit that did not succeed, `replayed` for an
answer from the tables, `over` for every other end. `held` is the gateway's state: a
payment id is made of the key alone, so two approvals of one key are one payment
and one refund cancels it. `Persists` is the commit; `PersistsUnheard` is the
commit whose answer is lost; `PersistFails` any other error; `Die` the end of the
process (a confirm that dies with money is `deserted`). A certificate may be
missing at any time (`Refuse`); the report to the queue after the commit is
`AdmissionFlow`'s part. An insert waits for a reset's open transaction or times
out. The histories (`unsteady`, `reused`, `disputed`, `deserted`, `strays`,
`wiped`) name the excuses the properties allow, and guide no step.

**SaleContract.** `SeatSale` implements it under `charges <- Charges` (approvals in
the hands of a confirm) and `sold <- SoldUnder`: a key is charged, charges are
settled, a charged key buys what it was charged for if it has not bought and no
seat of it is sold, and the operator may empty the tables. That the key and the
seats cannot be sold twice is thus not an invariant beside the model but what every
behaviour of it is.

**EventFeed, VisitFeed.** A call of `AppendEvents` is a record in `writing` that is
`due`, has `drawn` its ids, has `stored` its events, and is gone after the trim;
it may end after any of these. An event is its id, the reset it was drawn after,
and a line (what, who, which visit). A request of the page is `asked`, has
`measured` the largest id, has `read` the range, and is then shown or lost.
`VisitFeed` says when lines are due: `place` is the place of each user (the sorted
sets without scores; the scripts themselves are `QueueStore`'s), and
the consumer reads a partition (`log`, external) from `position`, applies, tells the
feed, and commits; `Restarts` is a death or a rebalance, `ApplyFails` an error
report, which in the code neither commits nor retries.

## 3. Runs

| Run | Instance | Shows |
|---|---|---|
| `store` | 4 users, 2 seats, batch 2, session timeout 2, waiting timeout 1, scan limit 1, skew 1, clock up to 2, 2 promotions, journals of at most one notice are expanded | type correctness, `CapacityHeld`, `OnePlace`, `SeenIffWaiting`, `TrackedWhileBusy`, `AdmitNoticeMatchesSeat`, `SeatAgeFixed`, `ImplementsContract` |
| `FlowOverlap` | 1 user who may book, 2 workers, 1 seat, 2 stays | `FlowTypeOK`, `CleanSeatCertified`, `CleanExitDecertified` |
| `FlowLine` | 2 users, 1 worker, 1 seat, 2 stays | the same two with a line and mixed batches |
| `FlowPause` | 2 users, 1 worker, 1 seat, 3 stays, booking down | `LineMoves` |
| `FlowDelivery` | 1 user who may book, 1 worker, 1 seat, 2 stays | `CleanSeatReached`, `LostSeatClosed` |
| `FlowReenter`, `FlowReorder`, `FlowClear` | 1 user, 2 workers, no booking | three claims of comments that the code does not keep (section 6) |
| `timing` | 3 users, 1 seat, both timeouts 2, scan limit 1, skew 1, clock up to 3, 1 reset; expanded are states with at most one notice and, after a reset, one user | `TimedTypeOK`, `FoundUnlessOverlap`, `NumberFalls`, `PromotedInOrder`, `SeatLastsLong`, `WaiterKept` |
| `sale` | 2 users with a key each, 2 seats, 2 confirms, TTL 2, 1 select at a time, 1 reset (about one seat); users, seats and confirms are interchangeable | `SaleTypeOK`, `IndexCoversLocks`, `MoneyAccounted`, `BookingIsPaid`, `AnswerIsTrue`, `ConflictMeansLapse`, `OwnLocksOnly`, `ImplementsSale` |
| `saleRefund` | 1 user, 1 seat, 2 confirms, no reset | a claim of a comment that the code does not keep (section 6) |
| `feed` | 3 users, 2 visits, 2 messages, a feed of 2 events, 2 requests of the page, ids up to 3, 1 reset | `FeedTypeOK`, `OneExitLine`, `NothingSkipped`, `NewestKept`, `ShownOnce`, `MissedOnlyLate`, `CursorRealigns` |

*Why the bounds are enough.* In `store`, two seats and four users give a full
house, a line of two that one promotion can empty and a newcomer beside it; with
a scan limit of 1 two expired seats need two ticks; a skew of 1 lets a script run
after one with a later clock reading, and gives equal scores. The clock reaches
the first possible expiry of a seat and stops one tick later than that of a
waiter. The journal is bounded by a state constraint because `ClearPending` may
run at any moment: states with more notices are generated and their invariants
checked, only their successors are cut. The theorems of section 5 need none of
these bounds. In the flow, two stays of one user are what it takes for notices of
a former stay to meet those of the next, and two workers for a clean-up or a
publication to overlap with another; the second user of `FlowLine` adds the line
and batches in which only part of the notices reaches the broker. `FlowPause` has a
third stay, because the pause that could hold up the line is set by the second,
the first promotion; booking is down in it, which leaves the queue nothing less to
do (a step of booking changes no variable of the queue unless somebody books).

In `timing`, a waiter can be overtaken only with a third user in the seat; timeouts
of two ticks, missed by one, differ from none and from all. A reset matters to
who is there when it begins and to one who enters between its parts, so the states
after it are expanded with one user; both bounds are lifted by the theorems. In
`sale`, two confirms meet with one key or with two, one seat or two, equal or
different requests; a TTL of 2 is renewed and runs out. Every property of `sale` is
a theorem for any number of them. (A run with two confirms cannot tell the
conflict that a *third* one's booking causes and a reset takes back; the proof of
`BookingIsPaid` asks for it, and the history `disputed` has it.) In `feed`, three events,
two kept, are one trim with a choice; two requests of the page overlap; a completed
message is delivered twice or late for the next visit. The constraint `Apart` expands
two regions of the states: one user with two visits, all lines and the consumer while
no page is open, and promotions of up to three users under an open page, where the
kind of the line makes no difference.

*Deadlock* is not checked: every bounded counter (clock, promotions, grants, ids,
confirms, messages) ends the behaviours, and the system itself may rest when nobody
comes.

*Mutants.* Each property has a mutated definition next to the one it would
replace (`...OneMore`, `...Only`, `...Never`), the way a plausible bug would look.

### Fairness

Liveness is claimed of `AdmissionFlow` alone: it is where something must happen
that a loop or a consumer does. booking's confirm is a thread without retries; what
it owes when it does not come back is said by `MoneyAccounted` as safety.

Users owe nothing: no fairness on entering, leaving, polling, confirming, and none
on pods dying or publications failing. `LineSpec` assumes that a goroutine that
lives goes on (`WorkersRun`), that the promotion loop, a ticker in every pod
restarted by `runGuarded`, comes round again and again and now and then reaches
its script (strong fairness, since a pod may die at the wrong moment each time),
and that the TTL of the pause flag ends. It assumes no successful publication.
`DeliverySpec` assumes that the sweep reaches every notice again and again (it
reads the oldest first, so nobody is passed over for ever), that a publication
that is retried for ever succeeds some day, that booking's consumers go on
polling, and that a confirm that has begun to end ends. It does not assume that
the clean-up of the journal ever succeeds: duplicates may go on for ever.

## 4. What the properties say

Of the flow:

* `CleanSeatCertified` (safety): a seat holder whose stay is clean and about whom
  no admission is recorded, being published or underway, has the certificate.
* `CleanExitDecertified` (safety): when a stay that was clean to its end is over
  and its revocation is neither recorded nor underway, there is no certificate.
* `CleanSeatReached`, `LostSeatClosed` (liveness): the certificate of a clean stay
  appears, and disappears after the stay, without the help of the TTL.
* `LineMoves` (liveness): a free seat and a waiter do not stay side by side.

The restriction to clean stays is the honest part: section 6 shows that without
it they are false, and how. The other conditional properties are of the same kind,
and each exception is reached in the model:

* `IndexCoversLocks`: locks taken between the two calls of a reset are not indexed.
* `BookingIsPaid`: a refund after an error that says nothing, a key used for
  different requests, and a reset between a conflict and the other confirm's commit.
* `MoneyAccounted`: a confirm that dies, or whose refund fails, keeps the money.
* `ConflictMeansLapse`: locks run out, are released or reset while a payment runs.
* `FoundUnlessOverlap`: an enter in the middle of a reset.
* `MissedOnlyLate`, `ShownOnce`: events stored late, requests of the page that overlap.
* `PromotedInOrder`, `NumberFalls`, `SeatLastsLong`, `WaiterKept`: up to `Skew`.

## 5. Theorems

All are proved for every value of the constants under the named assumptions, which
TLC evaluates. `QueueStoreAssumption` says that the set of users is finite and that
MAX_SESSIONS and PROCESSING_BATCH_SIZE are positive (`config.Load` enforces it);
`SeatSaleAssumption` that the lock TTL is positive; `EventFeedAssumption` that the
feed keeps, and a first load answers, at least one event (`eventCap` is 100, the first
load 30). Seats, users and confirms of a screening, users, goroutines and bookers of the
flow, users of the feed and requests of the page may be any sets. `FlowAssumption`,
`VisitFeedAssumption` and the rest of `EventFeedAssumption` only say that the bounds
of the model (grants, visits, messages, ids, resets) are natural numbers; they may be
as large as one likes.

| Module | Theorems (property) |
|---|---|
| `QueueStoreProofs` | `TypeCorrect` (`TypeOK`), `CapacityHolds` (`CapacityHeld`), `OnePlaceHolds`, `SeenIffWaitingHolds`, `TrackedWhileBusyHolds`, `AdmitNoticeMatchesSeatHolds`, `SeatAgeFixedHolds`, `ContractImplemented` (`ImplementsContract`) |
| `QueueTimingProofs` | `TimedTypeCorrect` (`TimedTypeOK`), `SeatLastsLongHolds`, `WaiterKeptHolds`, `PromotedInOrderHolds`, `NumberFallsHolds`, `FoundUnlessOverlapHolds` |
| `SeatSaleProofs` | `SaleTypeCorrect` (`SaleTypeOK`), `IndexCoversLocksHolds`, `OwnLocksOnlyHolds`, `AnswerIsTrueHolds`, `MoneyAccountedHolds`, `ConflictMeansLapseHolds`, `BookingIsPaidHolds`, `SaleImplemented` (`ImplementsSale`) |
| `AdmissionFlowProofs` | `FlowTypeCorrect` (`FlowTypeOK`), `CleanSeatCertifiedHolds`, `CleanExitDecertifiedHolds`, `FlowKeepsContract` |
| `VisitFeedProofs` | `FeedTypeCorrect` (`FeedTypeOK`), `OneExitLineHolds`, `NothingSkippedHolds`, `NewestKeptHolds`, `ShownOnceHolds`, `MissedOnlyLateHolds`, `CursorRealignsHolds` |

**The store.** `TypeOK` is inductive. `OnePlace` and `SeenIffWaiting` are not
inductive without the other where one script reads a key and writes two: a
promotion takes its users from `waiting` and an expiry from `lastseen`, and only
because both have the same members nobody is left behind in one of them.
`CapacityHeld` needs cardinalities: the vacancy is counted in the script, and the
head of the line has at most that many members. `SeatAgeFixed` follows from
`OnePlace`: a promotion stamps the seats of waiters, none of whom has a seat.
`AdmitNoticeMatchesSeat` is the inductive fact behind the refinement: a step that
cancels "the admission notices of u" although u has no seat cancels nothing
(`NothingToCancel`), so a leave or a completion of somebody unknown is a stutter
of the contract and not an unexplained discharge. `ContractImplemented` goes
through the actions one by one on top of the conjunction of these invariants;
`SameCount` identifies the cardinality of the instance with that of the store.

**Real time.** `Shape` says of every step which scores it may touch, and that it
touches those the history records. So each score is at most its history and at
most `Skew` below it: `TimedInv`, the inductive invariant. An expired score is then
an old stay; a score that is not greater than another is a place taken at most
`Skew` later. `NumberFalls` needs more: after `Skew` ticks no new score can
precede an old one, so the set of those in front can only shrink. `ResetInv` adds to
`FoundUnlessOverlap` that, during a reset nobody has entered into, nothing is there.
All of it rests on `StoreOrReset` and on the lemmas of `QueueStoreProofs` for the
scripts, so it holds with the resets in between.

**The sale.** `WorkInv` (types, and a real request in every confirm at work) is the
base. `WhoMoves` says once which actions change which variables; the other proofs
only look at those.
`AnswerIsTrue` and `MoneyAccounted` are inductive on top of it. `IndexCoversLocks`
needs what the reset has read to cover the locks that were not taken since
(`IndexInv`). `ConflictMeansLapse` needs `LapseInv`: a confirm between check and
commit holds its locks or is in `unsteady`; two confirms that both hold a seat's
lock are one user's; so a row for its seat, written since its check, has an excuse.
`BookingIsPaid` needs `PaidInv`: as long as a confirm in `conflict` has not refunded,
the seats it wanted stay sold, so no confirm with the same request can commit, and the
refund takes nobody's payment; the same for a confirm in `paid` whose payment has been
refunded. `SaleImplemented` shows each step of a confirm to be a charge, a settlement,
a sale or a stutter (another confirm may hold the same charge: `ChargesFall`).

**The flow.** `FlowInv` is the inductive invariant. `SeatInv` follows the admission of
a clean stay: until booking has it, it is in the journal or in the topic, however many
copies the goroutines hold; a goroutine about to strike it off has put it into the
topic first; and no revocation is in the journal, in any batch or in the topic, so
nothing takes the certificate away. `ExitInv` follows the revocation in the same way,
and says that once the stay is over no admission is anywhere to bring the certificate
back; a booking replaces the revocation, since it deletes the certificate itself. The
proof never looks at one goroutine: the step-fact lemmas (`JobFacts`, `OwedFacts`,
`TopicFacts`, `BookingFacts`, `StayFacts`) say of each group of actions what it may do
to the notices of one user, and `StepFactsSuffice` that this keeps the invariant. Why
only clean stays: a notice of a former stay in some batch breaks both, and
`FlowReenter` shows it does. `FlowKeepsContract` is the step from the flow back to the
queue: with `ContractImplemented`, the scripts and the flow are two implementations of
one contract.

**The feed.** `EventFeedProofs` is about any set of lines `L`: `FeedMove(L)` is all that
can happen to the feed and to the page, and `FeedInv(L)` is kept by it (`FeedGoesOn`).
It has four parts.

* `FeedTypes` (finite sets of events; what is in the feed has been stored).
* `FreshInv`: an event is in the hands of one writer or has been seen, and ids that are
  drawn between two resets only grow. So what a store adds to the feed is new to
  the page.
* `HoldsNewest`, the body of `NewestKept`. Not obvious is the trim: an event that was
  pushed out by `EventCap` newer ones may lose some of those to the next trim, but
  the newest among the lost has `EventCap` newer ones that stay (`NewestCount`).
* `PageInv`. `AnswerInv` says what a request under way has read: all events after its
  cursor up to its last, but for late ones and those a first load left out.
  `OneRequest` says that requests that do not overlap start from the present cursor;
  `ShownInv` that the cursor is then not before what was shown and, as long as some of it
  is in the feed, not beyond its top, so that a request starts again from 0 only
  when nothing it may answer has been shown; `TrackInv` that nothing up to the cursor
  is passed by while the page follows the present feed. `CursorRealigns` follows from
  `AnswerInv`; `RedisFacts` is what the page has to know of the writers: the top
  does not go back without a reset, and what appears at or below it is late.

`VisitFeedProofs` shows every step of `VisitFeed` to be such a move and adds three
invariants. `ExitsApart` with `AllPast` says of every line, due, drawn or stored, that its
visit has begun and, if it tells the end of the visit, that the user is out or
in a later one: a script that takes him out of a place thus finds no line of that
kind, wherever the writers are. `ConsumerInv` gives `NothingSkipped`: not only what is
committed but all behind `position` has been handled, and a message about to be
committed is itself in `applied`.

*Least numbers.* The induction theorems of the library cannot be used with these provers,
but `Least` (a nonempty set of natural numbers has a least element) follows from the
well-foundedness of `<`; `MaxIsLargest` and `NewestCount` argue with a minimal
counterexample instead of an induction.

*Only model-checked:* the liveness (`CleanSeatReached`, `LostSeatClosed`, `LineMoves`),
out of reach of the prover because of fairness and ENABLED. Every invariant, every
action property and both refinements that a passing run checks are theorems. The four
claims of section 6 are refuted by TLC, not by a proof.

## 6. Where comments and code disagree

* `FlowReenter`: "the loop closes both holes" (`sweep.go:15-20`). A user leaves
  (or times out) and enters again before the sweep has published the revocation,
  which takes it at least 6 s. The new admission is published by the handler at
  once, the old revocation after it; booking sets the certificate and deletes it.
  The user has a seat, is refused by the gate, and entering again answers
  ALREADY_ACTIVE, which publishes nothing: only the session timeout ends it.
* `FlowReorder`: "same user, same partition, processed in order" (`kafka.go:154`,
  `README.md:192-197`, `AdmissionExpiryConsumer.java:22-23`). The key orders a
  topic, and the two kinds of messages are in two topics. The comment at
  `kafka.go:91-96` knows; it holds the window for harmless. The stale certificate
  lives until its TTL.
* `FlowClear`: "erased only when the publication is done" (`sweep.go:18-19`). The
  clean-up removes by name. If the seat was lost and granted again between a
  publication and its clean-up, it erases the new notice.
* `saleRefund`: "a refund would cancel the payment of R1 that has succeeded"
  (`BookingService.java:128-130`), which is why the key is looked up again after a
  violation of a UNIQUE key. Every other error (141-152: a lock timeout, a lost
  connection) is refunded without that look: a double click whose insert times out
  on the row of the first one takes back the payment of a stored booking.

Seen in the models, without a run of their own (each is an exception that a
property of section 4 names, or follows from an action):

* `SeatLockService.java:24-26`, the index as a superset of the locks: not after a
  lock taken between `AdminResetService.java:90` and `:97`.
* `events.go:27-28`, a cursor that neither loses nor repeats: an event whose id was
  drawn before another was stored, and that is stored after it, is behind the
  cursor; a feed that was reset and has grown beyond the cursor between two polls
  looks as if it had not been reset; an event drawn before a reset and stored after
  it keeps its large id and hides what follows.
* `live.js:142-144` polls on while an answer is under way: two answers with the same
  events put them on the page twice.
* `kafka.go:229`, a completion processed twice is harmless: not if the user has come
  back meanwhile; it takes the seat of the new stay (`Applies` on a later visit).
* `kafka.go:266`, what is not committed is delivered again: not once a later message
  of the partition is committed (`NothingSkipped` has to allow `failed`).
* `main.go:181-184` closes the server after its grace; the goroutines of the handlers
  are not stopped by that and go on until the process ends (`Crash`).
* `ScreeningService.java:112`, sold and locked seats do not overlap: they do after a
  failed release or a select that checked before a commit.
* `enter.go:53`: a newcomer takes a free seat although others wait; nothing bounds how
  often between two ticks of the promotion loop.

## 7. Not modelled

* The payload and format of messages, tracing, metrics, logging, configuration,
  health and the Redis client's set-up: no state of the protocol depends on them.
* Failover of Redis (a lost write of an asynchronous replica): the code has no
  answer to it.
* Several movies and several screenings: each script touches one movie's or one
  screening's keys; the tracking sets and the pause flag are the only shared keys and
  are modelled per movie and shared by all workers, respectively.
* Rate, ETA and statistics: numbers on a screen, computed from counters.
* The board cache of booking (`ScreeningService`): a single-flight cache of counts
  whose staleness its TTL bounds; no decision is taken on it.
* In the admin reset: the deletion of the certificates (a certificate may be
  missing at any time in `SeatSale`), the new broadcast time, the check of the token.
* The TTL of a day on the feed's keys: for a page it is a reset.
* The rest of the frontend: what the user may send is unconstrained in the models.
* Liveness of the page (an event in the feed is shown in the end): with overlapping
  requests and resets the behaviour graph is too large for a temporal check; its
  safety core, a cursor that does not run ahead of the feed, is `CursorRealigns`.

## 8. Plan

1. *Done*: `AdmissionContract`, `QueueStore`, `AdmissionFlow`, `QueueTiming`,
   `SaleContract`, `SeatSale`, `EventFeed`, `VisitFeed`; the proofs of all their safety
   properties and of both refinements.
2. What is left to prove: the step conditions behind the liveness of the flow (once
   clean and recorded, an admission stays recorded or moves on; no step but a pause
   takes the free seat from the head of the line), which are safety and can be
   theorems although the fairness argument on top of them cannot; what the contracts
   promise by themselves (capacity of `AdmissionContract`, seats sold once of
   `SaleContract`), so that it holds of the detailed modules through the refinements.
3. What is left to model: rate and ETA, and the board cache of booking (section 7).
