------------------------------ MODULE SeatSale ------------------------------
(***************************************************************************)
(* One screening in booking: seats are locked in Redis for a while, paid   *)
(* for and written to MySQL.  Any number of selects, confirms (retries and *)
(* double clicks with one idempotency key among them), releases, expiries  *)
(* of locks and certificates and an operator's reset overlap; every call   *)
(* to Redis, MySQL and the gateway is a step of its own, a confirm can die *)
(* between any two, and a commit that reports an error may have happened.  *)
(*                                                                         *)
(* A TTL is a number of ticks left.  Redis runs a script alone; MySQL      *)
(* serializes a transaction at its commit.                                 *)
(***************************************************************************)
EXTENDS Naturals, FiniteSets

CONSTANTS
  User,        \* request ids
  Seat,        \* seats of the screening (that exist)
  Call,        \* confirm requests: bound on how many arrive in a behaviour
  KeysPerUser, \* bound: idempotency keys a user makes up
  LockTTL,     \* SEAT_LOCK_TTL, in ticks
  MaxSelects,  \* bound: selects in progress at one time
  MaxResets    \* bound: resets in a behaviour that get as far as deleting locks

ASSUME SeatSaleAssumption ==
  /\ KeysPerUser \in Nat
  /\ LockTTL \in Nat \ {0}
  /\ MaxSelects \in Nat /\ MaxResets \in Nat

\* A key is made up by one user and known to no other.
Key == [user : User, no : 1 .. KeysPerUser]

Request == [key : Key, seats : SUBSET Seat \ {{}}]

VARIABLES
  lock,        \* seat:{screening}:{seat}: owner and ticks left of each locked seat
  index,       \* seatlocks:{screening}
  selecting,   \* selects in progress: a user and the seats found unsold
  bookings,    \* rows of bookings and booking_seats: id and seats, by idempotency key
  held,        \* keys whose payment the gateway has approved and not refunded
  req,         \* the request of each confirm
  pc,          \* where each confirm is
  reset,       \* where the operator's reset is, and the seats it has read
  resets,      \* bound: resets so far that have deleted locks
  unsteady,    \* history: confirms without their locks at some time between
               \* the check that the seats are unsold and the commit
  reused,      \* history: keys sent with different seats
  disputed,    \* history: keys refunded after an error that tells nothing, or after
               \* a conflict with a booking that a reset has deleted meanwhile
  deserted,    \* history: keys whose confirm died (or failed to refund) with the money
  strays,      \* history: seats locked while a reset was between reading and deleting
  wiped        \* history: keys whose rows a reset has deleted

redisVars   == <<lock, index>>
callVars    == <<req, pc>>
resetVars   == <<reset, resets>>
historyVars == <<disputed, deserted, wiped>>
watchVars   == <<unsteady, reused, strays>>
vars == <<redisVars, selecting, bookings, held, callVars, resetVars,
          historyVars, watchVars>>

\* No request, or one that has been forgotten.
NoRequest == [key |-> [user |-> "none", no |-> 0], seats |-> {}]

\* A confirm in these places has money it must account for.
HasMoney == {"paid", "duplicate", "conflict", "failed"}

\* Before that, and after it, it has none; "over" is every end without a booking.
Place == HasMoney \cup {"idle", "asked", "checked", "renewed",
                       "stored", "booked", "replayed", "over"}

Init ==
  /\ lock = [s \in {} |-> {}]
  /\ index = {}
  /\ selecting = {}
  /\ bookings = [k \in {} |-> {}]
  /\ held = {}
  /\ req = [c \in Call |-> NoRequest]
  /\ pc = [c \in Call |-> "idle"]
  /\ reset = [at |-> "none", found |-> {}]
  /\ resets = 0
  /\ unsteady = {} /\ reused = {}
  /\ disputed = {} /\ deserted = {} /\ strays = {} /\ wiped = {}

\* The seats sold, by key, and all of them.
SoldUnder == [k \in DOMAIN bookings |-> bookings[k].seats]

Sold == UNION {bookings[k].seats : k \in DOMAIN bookings}

\* The seats of the locks of u.
LockedBy(u) == {s \in DOMAIN lock : lock[s].owner = u}

\* c still has the locks of all its seats.
Holds(c) == req[c].seats \subseteq LockedBy(req[c].key.user)

\* Mutant: whatever the key has bought is good enough.
SameRequestAny(r) == r.key \in DOMAIN bookings

\* Request r asks for what its key has bought (ensureSameRequest).
SameRequest(r) == bookings[r.key].seats = r.seats

\* The answer to a request whose key has bought.
Answer(r) == IF SameRequest(r) THEN "replayed" ELSE "over"

\* c goes from one place to the next; what is over is forgotten.
Goes(c, from, to) ==
  /\ pc[c] = from
  /\ pc' = [pc EXCEPT ![c] = to]
  /\ req' = IF to = "over" THEN [req EXCEPT ![c] = NoRequest] ELSE req
------------------------------------------------------------------------------
\* The scripts of SeatLockService.

\* LOCK: all of S are free.
LockAll(u, S) ==
  /\ S \cap DOMAIN lock = {}
  /\ lock' = [s \in DOMAIN lock \cup S |->
               IF s \in S THEN [owner |-> u, left |-> LockTTL] ELSE lock[s]]
  /\ index' = index \cup S

\* Mutant: every seat asked for is freed, whoever locked it.
ReleaseAll(u, S) ==
  /\ lock' = [s \in DOMAIN lock \ S |-> lock[s]]
  /\ index' = index \ S

\* Mutant: the index forgets the seats asked for, not the seats freed.
ReleaseIndexAll(u, S) ==
  /\ lock' = [s \in DOMAIN lock \ (S \cap LockedBy(u)) |-> lock[s]]
  /\ index' = index \ S

\* RELEASE: of S, what u has locked.
ReleaseMine(u, S) ==
  /\ lock' = [s \in DOMAIN lock \ (S \cap LockedBy(u)) |-> lock[s]]
  /\ index' = index \ (S \cap LockedBy(u))

\* RENEW: all of S are u's, and their TTL starts again.
RenewMine(u, S) ==
  /\ S \subseteq LockedBy(u)
  /\ lock' = [s \in DOMAIN lock |-> IF s \in S THEN [lock[s] EXCEPT !.left = LockTTL]
                                                ELSE lock[s]]

\* LIVE_LOCKS, LIVE_LOCK_COUNTS: a look at the seats drops stale index members.
Look ==
  /\ index' = index \cap DOMAIN lock
  /\ UNCHANGED <<lock, selecting, bookings, held, callVars, resetVars,
                 historyVars>>

\* Mutant: a lock whose time is up stays.
TickKeeps ==
  /\ DOMAIN lock # {}
  /\ lock' = [s \in DOMAIN lock |-> [lock[s] EXCEPT !.left = @ - 1]]
  /\ UNCHANGED <<index, selecting, bookings, held, callVars, resetVars, historyVars>>

\* Time passes: TTLs run down, locks expire (their index members stay).
Tick ==
  /\ DOMAIN lock # {}
  /\ lock' = [s \in {x \in DOMAIN lock : lock[x].left > 1} |->
               [lock[s] EXCEPT !.left = @ - 1]]
  /\ UNCHANGED <<index, selecting, bookings, held, callVars, resetVars,
                 historyVars>>
------------------------------------------------------------------------------
\* select: behind the gate, the check that no seat is sold ...
SelectChecks(u, S) ==
  /\ S \cap Sold = {}
  /\ Cardinality(selecting) < MaxSelects
  /\ selecting' = selecting \cup {[user |-> u, seats |-> S]}
  /\ UNCHANGED <<redisVars, bookings, held, callVars, resetVars, historyVars>>

\* ... and then, in another call, the locks ...
SelectLocks(x) ==
  /\ LockAll(x.user, x.seats)
  /\ selecting' = selecting \ {x}
  /\ UNCHANGED <<bookings, held, callVars, resetVars, historyVars>>

\* ... or a 409.
SelectTaken(x) ==
  /\ x.seats \cap DOMAIN lock # {}
  /\ selecting' = selecting \ {x}
  /\ UNCHANGED <<redisVars, bookings, held, callVars, resetVars, historyVars>>

\* release: the user steps back.
Release(u, S) ==
  /\ ReleaseMine(u, S)
  /\ UNCHANGED <<selecting, bookings, held, callVars, resetVars,
                 historyVars>>
------------------------------------------------------------------------------
\* confirm, up to the approval: nothing is spent yet.

\* A request arrives whose key has bought nothing ...
Arrive(c, r) ==
  /\ pc[c] = "idle"
  /\ r.key \notin DOMAIN bookings
  /\ req' = [req EXCEPT ![c] = r]
  /\ pc' = [pc EXCEPT ![c] = "asked"]
  /\ UNCHANGED <<redisVars, selecting, bookings, held, resetVars, historyVars>>

\* ... or has: it is answered before the gate.
ArriveAgain(c, r) ==
  /\ pc[c] = "idle"
  /\ r.key \in DOMAIN bookings
  /\ req' = [req EXCEPT ![c] = r]
  /\ pc' = [pc EXCEPT ![c] = Answer(r)]
  /\ UNCHANGED <<redisVars, selecting, bookings, held, resetVars, historyVars>>

\* Mutant: confirm relies on the check that select has made.
CheckSoldNever(c) ==
  /\ Goes(c, "asked", "checked")
  /\ UNCHANGED <<redisVars, selecting, bookings, held, resetVars, historyVars>>

\* The gate lets c pass and ensureNotSold finds no seat sold.
CheckSold(c) ==
  /\ Goes(c, "asked", "checked")
  /\ req[c].seats \cap Sold = {}
  /\ UNCHANGED <<redisVars, selecting, bookings, held, resetVars, historyVars>>

\* renewMine.
Renew(c) ==
  /\ Goes(c, "checked", "renewed")
  /\ RenewMine(req[c].key.user, req[c].seats)
  /\ UNCHANGED <<index, selecting, bookings, held, resetVars, historyVars>>

\* No certificate (it may come and go at any time), a seat that is sold, or a
\* lock that is not c's: an error, and nothing to undo.
Refuse(c) ==
  /\ \/ Goes(c, "asked", "over")
     \/ ~ Holds(c) /\ Goes(c, "checked", "over")
  /\ UNCHANGED <<redisVars, selecting, bookings, held, resetVars, historyVars>>

\* The gateway approves; the payment id is made of the key alone.
Approve(c) ==
  /\ Goes(c, "renewed", "paid")
  /\ held' = held \cup {req[c].key}
  /\ UNCHANGED <<redisVars, selecting, bookings, resetVars, historyVars>>
------------------------------------------------------------------------------
\* confirm, the transaction.

\* While a reset has the tables emptied and not committed, an insert waits (or
\* times out: PersistFails).
NoOpenReset == reset.at = "none"

\* The rows that say that c has bought.
Row(c) == [k \in DOMAIN bookings \cup {req[c].key} |->
            IF k = req[c].key THEN [id |-> c, seats |-> req[c].seats] ELSE bookings[k]]

\* Both UNIQUE keys admit the rows of c.
Fits(c) == req[c].key \notin DOMAIN bookings /\ req[c].seats \cap Sold = {}

\* Mutant: without the transaction, the row of the booking stays with the
\* seats that could still be had.
PersistsHalf(c) ==
  /\ req[c].key \notin DOMAIN bookings /\ NoOpenReset
  /\ Goes(c, "paid", "stored")
  /\ bookings' = [k \in DOMAIN bookings \cup {req[c].key} |->
                   IF k = req[c].key THEN [id |-> c, seats |-> req[c].seats \ Sold]
                                     ELSE bookings[k]]
  /\ UNCHANGED <<redisVars, selecting, held, resetVars, historyVars>>

\* The commit.
Persists(c) ==
  /\ Fits(c) /\ NoOpenReset
  /\ Goes(c, "paid", "stored")
  /\ bookings' = Row(c)
  /\ UNCHANGED <<redisVars, selecting, held, resetVars, historyVars>>

\* The commit, and booking sees an error (the connection breaks).
PersistsUnheard(c) ==
  /\ Fits(c) /\ NoOpenReset
  /\ Goes(c, "paid", "failed")
  /\ bookings' = Row(c)
  /\ UNCHANGED <<redisVars, selecting, held, resetVars, historyVars>>

\* No commit: a timeout, a lock that is not granted, a database that is gone.
PersistFails(c) ==
  /\ Goes(c, "paid", "failed")
  /\ UNCHANGED <<redisVars, selecting, bookings, held, resetVars, historyVars>>

\* DataIntegrityViolationException.
PersistClashes(c) ==
  /\ ~ Fits(c) /\ NoOpenReset
  /\ Goes(c, "paid", "duplicate")
  /\ UNCHANGED <<redisVars, selecting, bookings, held, resetVars, historyVars>>

\* Mutant: any violation of a UNIQUE key is taken for a seat that was sold.
RecheckNever(c) ==
  /\ Goes(c, "duplicate", "conflict")
  /\ UNCHANGED <<redisVars, selecting, bookings, held, resetVars, historyVars>>

\* The key is looked up again: it may be a double click that won.
Recheck(c) ==
  /\ Goes(c, "duplicate", IF req[c].key \in DOMAIN bookings THEN Answer(req[c])
                                                            ELSE "conflict")
  /\ UNCHANGED <<redisVars, selecting, bookings, held, resetVars, historyVars>>

\* Mutant: only a seat conflict is compensated.
RefundConflictOnly(c) ==
  /\ pc[c] \in {"conflict", "failed"}
  /\ Goes(c, pc[c], "over")
  /\ held' = IF pc[c] = "conflict" THEN held \ {req[c].key} ELSE held
  /\ disputed' = IF pc[c] = "failed" THEN disputed \cup {req[c].key} ELSE disputed
  /\ UNCHANGED <<redisVars, selecting, bookings, resetVars, deserted, wiped>>

\* safeRefund after a seat conflict and after any other error.
Refund(c) ==
  /\ pc[c] \in {"conflict", "failed"}
  /\ Goes(c, pc[c], "over")
  /\ held' = held \ {req[c].key}
  /\ disputed' = IF pc[c] = "failed" THEN disputed \cup {req[c].key} ELSE disputed
  /\ UNCHANGED <<redisVars, selecting, bookings, resetVars, deserted, wiped>>

\* After the commit the locks are released, or that fails; the report to the
\* queue and the end of the certificate follow (AdmissionFlow).
Unlock(c) ==
  /\ Goes(c, "stored", "booked")
  /\ \/ ReleaseMine(req[c].key.user, req[c].seats)
     \/ UNCHANGED <<lock, index>>
  /\ UNCHANGED <<selecting, bookings, held, resetVars, historyVars>>

\* booking dies in the middle of c (or c's refund fails: an error in the log).
Die(c) ==
  /\ pc[c] \in HasMoney \cup {"asked", "checked", "renewed", "stored"}
  /\ Goes(c, pc[c], "over")
  /\ deserted' = IF pc[c] \in HasMoney THEN deserted \cup {req[c].key} ELSE deserted
  /\ UNCHANGED <<redisVars, selecting, bookings, held, resetVars, disputed, wiped>>
------------------------------------------------------------------------------
\* AdminResetService.resetAll: one transaction around calls to Redis.

\* The rows are deleted, for this transaction only; clearSeatLocks reads the
\* index ...
ResetReads ==
  /\ reset.at = "none"
  /\ resets < MaxResets
  /\ reset' = [at |-> "read", found |-> index]
  /\ UNCHANGED <<redisVars, selecting, bookings, held, callVars, resets, historyVars>>

\* ... and deletes the index and the locks of the seats it has read.
ResetDeletes ==
  /\ reset.at = "read"
  /\ reset' = [at |-> "cleared", found |-> {}]
  /\ resets' = resets + 1
  /\ lock' = [s \in DOMAIN lock \ reset.found |-> lock[s]]
  /\ index' = {}
  /\ UNCHANGED <<selecting, bookings, held, callVars, historyVars>>

\* The certificates are deleted (not represented here), and the commit.
ResetCommits ==
  /\ reset.at = "cleared"
  /\ reset' = [at |-> "none", found |-> {}]
  /\ bookings' = [k \in {} |-> {}]
  /\ wiped' = wiped \cup DOMAIN bookings
  /\ disputed' = disputed \cup {req[c].key : c \in {x \in Call :
                   \/ pc[x] \in {"duplicate", "conflict"}
                   \/ pc[x] = "paid" /\ req[x].key \notin held}}
  /\ UNCHANGED <<lock, index, selecting, held, callVars, resets, deserted>>

\* An error, or death: the rows are back; what Redis has lost is lost.
ResetFails ==
  /\ reset.at # "none"
  /\ reset' = [at |-> "none", found |-> {}]
  /\ UNCHANGED <<redisVars, selecting, bookings, held, callVars, resets, historyVars>>
------------------------------------------------------------------------------
\* What a user asks for.
UserStep ==
  \E u \in User, S \in SUBSET Seat \ {{}} : SelectChecks(u, S) \/ Release(u, S)

\* The second half of a select.
SelectStep == \E x \in selecting : SelectLocks(x) \/ SelectTaken(x)

\* The steps of a confirm.
CallStep ==
  \E c \in Call :
    \/ \E r \in Request : Arrive(c, r) \/ ArriveAgain(c, r)
    \/ CheckSold(c) \/ Renew(c) \/ Refuse(c) \/ Approve(c)
    \/ Persists(c) \/ PersistsUnheard(c) \/ PersistFails(c) \/ PersistClashes(c)
    \/ Recheck(c) \/ Refund(c)
    \/ Unlock(c) \/ Die(c)

\* The steps of the reset.
ResetStep == ResetReads \/ ResetDeletes \/ ResetCommits \/ ResetFails

\* The histories that follow from a step and guide none.  A confirm that is over
\* and has no row is forgotten, and so is a stray lock that is gone.
Watch ==
  /\ unsteady' =
       {c \in Call : \/ c \in unsteady
                  \/ (pc'[c] \in {"checked", "renewed", "paid"} /\ ~ Holds(c)')}
         \ {c \in Call : pc'[c] = "over" /\ \A k \in DOMAIN bookings' : bookings'[k].id # c}
  /\ reused' = reused \cup {k \in Key : \E c, d \in Call :
       req'[c].key = k /\ req'[d].key = k /\ req'[c].seats # req'[d].seats}
  /\ strays' = {s \in DOMAIN lock' : s \in strays \/ (s \notin DOMAIN lock /\ reset.at = "read")}

Next == (UserStep \/ SelectStep \/ CallStep \/ ResetStep \/ Look \/ Tick) /\ Watch

Spec == Init /\ [][Next]_vars
------------------------------------------------------------------------------
\* Approvals in the hands of a confirm.
Charges == {<<req[c].key, req[c].seats>> : c \in {x \in Call : pc[x] \in HasMoney \cup {"stored"}}}

Contract == INSTANCE SaleContract WITH charges <- Charges, sold <- SoldUnder

\* Types.
SaleTypeOK ==
  /\ DOMAIN lock \subseteq Seat
  /\ lock \in [DOMAIN lock -> [owner : User, left : 1 .. LockTTL]]
  /\ index \subseteq Seat
  /\ selecting \subseteq [user : User, seats : SUBSET Seat]
  /\ DOMAIN bookings \subseteq Key
  /\ bookings \in [DOMAIN bookings -> [id : Call, seats : SUBSET Seat]]
  /\ held \subseteq Key
  /\ req \in [Call -> Request \cup {NoRequest}]
  /\ pc \in [Call -> Place]
  /\ reset \in [at : {"none", "read", "cleared"}, found : SUBSET Seat]
  /\ resets \in Nat
  /\ unsteady \subseteq Call /\ reused \subseteq Key
  /\ disputed \subseteq Key /\ deserted \subseteq Key /\ wiped \subseteq Key
  /\ strays \subseteq Seat

\* The index names every live lock (SeatLockService.java:24-26), except locks
\* taken while a reset was between reading the index and deleting it.
IndexCoversLocks == DOMAIN lock \ strays \subseteq index

\* Money is kept only for a booking: what the gateway holds is backed by rows,
\* or some confirm is still at work on it, or it died or could not refund, or
\* the operator has deleted the rows (BookingService.java:121-123).
MoneyAccounted ==
  \A k \in held :
    \/ k \in DOMAIN bookings \cup wiped \cup deserted
    \/ \E c \in Call : req[c].key = k /\ pc[c] \in HasMoney

\* A stored booking keeps its payment, however many confirms share its payment
\* id, as long as none of them was refunded on an error that says nothing about
\* the key (lock timeout, lost answer) and the client kept the key to one request
\* (BookingService.java:128-130).
BookingIsPaid ==
  DOMAIN bookings \subseteq held \cup disputed \cup reused

\* The comment at BookingService.java:128-130: a refund must not cancel the payment
\* of a confirm with the same key that has already succeeded.  Any error but the
\* violation of a UNIQUE key is refunded without a second look at the key.
RefundSparesWinner ==
  [][\A k \in DOMAIN bookings :
       k \in held /\ k \notin held' => pc[bookings[k].id] \notin {"stored", "booked"}]_vars

\* Who is told that he has booked, at first or on a retry, has a row with exactly
\* the seats he asked for (BookingService.java:177-186).
AnswerIsTrue ==
  \A c \in Call : pc[c] \in {"stored", "booked", "replayed"} =>
    \/ req[c].key \in wiped
    \/ req[c].key \in DOMAIN bookings /\ bookings[req[c].key].seats = req[c].seats

\* Nobody pays for a seat that somebody else gets, unless one of the two was
\* without its locks between its check and its commit: an approval followed by
\* a seat conflict needs an expiry, a release or a reset on the way.
ConflictMeansLapse ==
  [][\A c \in Call :
       pc[c] = "paid" /\ pc'[c] = "duplicate" /\ req[c].key \notin DOMAIN bookings =>
         \/ c \in unsteady
         \/ \E k \in DOMAIN bookings :
              /\ bookings[k].seats \cap req[c].seats # {}
              /\ k.user = req[c].key.user \/ bookings[k].id \in unsteady]_vars

\* A lock changes only with time, by a reset, or in a call of its owner: a
\* confirm that outlived its lock does not free the next owner's.
OwnLocksOnly ==
  [][\A s \in DOMAIN lock :
       s \notin DOMAIN lock' \/ lock'[s] # lock[s] =>
         \/ Tick \/ ResetDeletes
         \/ \E S \in SUBSET Seat : Release(lock[s].owner, S)
         \/ \E c \in Call : req[c].key.user = lock[s].owner /\ (Renew(c) \/ Unlock(c))]_vars

\* A key buys once, in one piece and what it was charged for; a seat is sold once.
ImplementsSale == Contract!SaleSpec
==============================================================================
