----------------------------- MODULE QueueStore -----------------------------
(***************************************************************************)
(* The Redis state queue-go keeps for one movie and the Lua scripts that   *)
(* change it.  Every script is one atomic action; the pods are stateless,  *)
(* so any pod may run any of them at any moment.  A pod reads its clock    *)
(* before it sends a script, so a script runs with a `now` that may be up  *)
(* to Skew ticks old (network delay, GC pauses, clocks of different pods). *)
(***************************************************************************)
EXTENDS SortedSet

CONSTANTS
  User,             \* request ids, numbered in byte order
  MaxSessions,      \* MAX_SESSIONS
  Batch,            \* PROCESSING_BATCH_SIZE
  SessionTimeout,   \* SESSION_TIMEOUT, in ticks
  WaitingTimeout,   \* WAITING_TIMEOUT, in ticks
  ScanLimit,        \* LIMIT of the two expiry scans (1000 in the scripts)
  Skew,             \* age a `now` can have when its script runs
  MaxClock,         \* bound: the clock stops here
  MaxPromoted       \* bound: promotions in one behaviour

ASSUME QueueStoreAssumption ==
  /\ User \subseteq Nat /\ IsFiniteSet(User)
  /\ MaxSessions \in Nat \ {0}
  /\ Batch \in Nat \ {0}
  /\ SessionTimeout \in Nat
  /\ WaitingTimeout \in Nat
  /\ ScanLimit \in Nat \ {0}
  /\ Skew \in Nat /\ MaxClock \in Nat /\ MaxPromoted \in Nat

VARIABLES
  clock,           \* real time
  active,          \* sessions:{movie}:active, score = admission time
  waiting,         \* sessions:{movie}:waiting, score = enqueue time
  lastseen,        \* waiting_lastseen:{movie}, score = last poll
  pending,         \* pending_events:{movie}, score = time of the change
  promotedCount,   \* promoted_count:{movie}
  activeMovies,    \* is the movie in active_movies?
  waitingMovies    \* is the movie in waiting_movies?

vars == <<clock, active, waiting, lastseen, pending, promotedCount,
          activeMovies, waitingMovies>>

\* The journal's vocabulary and the promise are those of the contract.
Contract == INSTANCE AdmissionContract WITH
  seated <- DOMAIN active, queued <- DOMAIN waiting, owed <- DOMAIN pending

Init ==
  /\ clock = 0
  /\ active = EmptySortedSet
  /\ waiting = EmptySortedSet
  /\ lastseen = EmptySortedSet
  /\ pending = EmptySortedSet
  /\ promotedCount = 0
  /\ activeMovies = FALSE
  /\ waitingMovies = FALSE

\* time.Now() as a script may see it.
Now == {t \in 0 .. clock : clock - t <= Skew}

\* Mutant: the seat that is about to be taken is not counted.
VacantOneMore == MaxSessions - ZCard(active) + 1

\* Free seats, counted inside the script (promote.go:17).
Vacant == MaxSessions - ZCard(active)

\* Mutant: only the notice of an immediate admission is cancelled.
AdmitsEnterOnly(S) == [kind : {"A"}, reason : {"ENTER"}, user : S]

\* Both admission notices of S: a seat that is lost takes them with it.
Admits(S) == [kind : {"A"}, reason : {"ENTER", "PROMOTE"}, user : S]

\* Mutant: a revocation is recorded under the kind of an admission.
JournalRevokeAsAdmit(S, reason, now) ==
  ZAdd(ZRem(pending, Admits(S)), [kind : {"A"}, reason : {reason}, user : S], now)

\* The journal after S lost its seats for `reason`.
JournalRevoke(S, reason, now) ==
  ZAdd(ZRem(pending, Admits(S)), [kind : {"R"}, reason : {reason}, user : S], now)

\* The journal after S gained its seats for `reason`.
JournalAdmit(S, reason, now) ==
  ZAdd(pending, [kind : {"A"}, reason : {reason}, user : S], now)

\* Mutant: the stamp stays behind.
LeaveLineOnly(S) ==
  /\ waiting' = ZRem(waiting, S)
  /\ lastseen' = lastseen

\* waiting and waiting_lastseen lose the same members.
LeaveLine(S) ==
  /\ waiting' = ZRem(waiting, S)
  /\ lastseen' = ZRem(lastseen, S)

\* ... and gain, or move to the tail, the same member.
JoinLine(u, now) ==
  /\ waiting' = ZAdd(waiting, {u}, now)
  /\ lastseen' = ZAdd(lastseen, {u}, now)
  /\ activeMovies' = TRUE
  /\ waitingMovies' = TRUE
------------------------------------------------------------------------------
\* Mutant: a refresh renews the seat, as a poll renews lastseen.
EnterKeptRestamps(u) ==
  /\ u \in DOMAIN active
  /\ active' = ZAdd(active, {u}, clock)
  /\ activeMovies' = TRUE
  /\ UNCHANGED <<clock, waiting, lastseen, pending, promotedCount, waitingMovies>>

\* enterScript, ALREADY_ACTIVE: a refresh keeps the seat and its age.
EnterKept(u) ==
  /\ u \in DOMAIN active
  /\ activeMovies' = TRUE
  /\ UNCHANGED <<clock, active, waiting, lastseen, pending, promotedCount,
                 waitingMovies>>

\* Mutant: a refresh moves the waiter and does not stamp him.
EnterRequeuedUnstamped(u, now) ==
  /\ u \notin DOMAIN active
  /\ u \in DOMAIN waiting
  /\ waiting' = ZAdd(waiting, {u}, now)
  /\ activeMovies' = TRUE
  /\ waitingMovies' = TRUE
  /\ UNCHANGED <<clock, active, lastseen, pending, promotedCount>>

\* enterScript, a waiter refreshes: it moves to the tail of the line.
EnterRequeued(u, now) ==
  /\ u \notin DOMAIN active
  /\ u \in DOMAIN waiting
  /\ JoinLine(u, now)
  /\ UNCHANGED <<clock, active, pending, promotedCount>>

\* Mutant: the script forgets to look for the user in the line first.
EnterAdmittedBlind(u, now) ==
  /\ u \notin DOMAIN active
  /\ Vacant > 0
  /\ active' = ZAdd(active, {u}, now)
  /\ pending' = JournalAdmit({u}, "ENTER", now)
  /\ activeMovies' = TRUE
  /\ UNCHANGED <<clock, waiting, lastseen, promotedCount, waitingMovies>>

\* enterScript, ADMITTED: a seat is free, whoever may be waiting.
EnterAdmitted(u, now) ==
  /\ u \notin DOMAIN active \cup DOMAIN waiting
  /\ Vacant > 0
  /\ active' = ZAdd(active, {u}, now)
  /\ pending' = JournalAdmit({u}, "ENTER", now)
  /\ activeMovies' = TRUE
  /\ UNCHANGED <<clock, waiting, lastseen, promotedCount, waitingMovies>>

\* enterScript, WAITING.
EnterQueued(u, now) ==
  /\ u \notin DOMAIN active \cup DOMAIN waiting
  /\ Vacant <= 0
  /\ JoinLine(u, now)
  /\ UNCHANGED <<clock, active, pending, promotedCount>>

\* Mutant: the poll refreshes the place in the line with the stamp.
PositionToTail(u, now) ==
  /\ u \notin DOMAIN active
  /\ u \in DOMAIN waiting
  /\ waiting' = ZAdd(waiting, {u}, now)
  /\ lastseen' = ZAdd(lastseen, {u}, now)
  /\ UNCHANGED <<clock, active, pending, promotedCount, activeMovies, waitingMovies>>

\* positionScript, WAITING: the poll stamps the waiter (the other answers
\* change nothing).
Position(u, now) ==
  /\ u \notin DOMAIN active
  /\ u \in DOMAIN waiting
  /\ lastseen' = ZAdd(lastseen, {u}, now)
  /\ UNCHANGED <<clock, active, waiting, pending, promotedCount, activeMovies,
                 waitingMovies>>

\* leaveScript: out of the seat and out of the line.
Leave(u, now) ==
  /\ active' = ZRem(active, {u})
  /\ LeaveLine({u})
  /\ pending' = IF u \in DOMAIN active THEN JournalRevoke({u}, "LEAVE", now)
                                       ELSE ZRem(pending, Admits({u}))
  /\ UNCHANGED <<clock, promotedCount, activeMovies, waitingMovies>>

\* Mutant: the revocation is recorded whether or not there was a seat.
ReleaseActiveAlways(u, now) ==
  /\ active' = ZRem(active, {u})
  /\ pending' = JournalRevoke({u}, "COMPLETE", now)
  /\ UNCHANGED <<clock, waiting, lastseen, promotedCount, activeMovies,
                 waitingMovies>>

\* releaseScript: the user hands the seat back; the line is not touched.
ReleaseActive(u, now) ==
  /\ active' = ZRem(active, {u})
  /\ pending' = IF u \in DOMAIN active THEN JournalRevoke({u}, "COMPLETE", now)
                                       ELSE ZRem(pending, Admits({u}))
  /\ UNCHANGED <<clock, waiting, lastseen, promotedCount, activeMovies,
                 waitingMovies>>

\* CompleteActive: booking finished; it owes itself no revocation.
CompleteActive(u) ==
  /\ active' = ZRem(active, {u})
  /\ pending' = ZRem(pending, Admits({u}))
  /\ UNCHANGED <<clock, waiting, lastseen, promotedCount, activeMovies,
                 waitingMovies>>

\* Mutant: those who polled longest ago go first.
PromoteBySeen(now) ==
  \E S \in SUBSET DOMAIN waiting :
    /\ S # {}
    /\ IsHead(S, lastseen, IF Batch < Vacant THEN Batch ELSE Vacant)
    /\ promotedCount + Cardinality(S) <= MaxPromoted
    /\ active' = ZAdd(active, S, now)
    /\ LeaveLine(S)
    /\ pending' = JournalAdmit(S, "PROMOTE", now)
    /\ promotedCount' = promotedCount + Cardinality(S)
    /\ UNCHANGED <<clock, activeMovies, waitingMovies>>

\* Mutant: the member moves to the seats with the score it has in the line.
PromoteKeepsScore(now) ==
  \E S \in SUBSET DOMAIN waiting :
    /\ S # {}
    /\ IsHead(S, waiting, IF Batch < Vacant THEN Batch ELSE Vacant)
    /\ promotedCount + Cardinality(S) <= MaxPromoted
    /\ active' = [u \in DOMAIN active \cup S |-> IF u \in S THEN waiting[u] ELSE active[u]]
    /\ LeaveLine(S)
    /\ pending' = JournalAdmit(S, "PROMOTE", now)
    /\ promotedCount' = promotedCount + Cardinality(S)
    /\ UNCHANGED <<clock, activeMovies, waitingMovies>>

\* promoteScript: the head of the line fills the free seats, at most Batch.
Promote(now) ==
  \E S \in SUBSET DOMAIN waiting :
    /\ S # {}
    /\ IsHead(S, waiting, IF Batch < Vacant THEN Batch ELSE Vacant)
    /\ promotedCount + Cardinality(S) <= MaxPromoted
    /\ active' = ZAdd(active, S, now)
    /\ LeaveLine(S)
    /\ pending' = JournalAdmit(S, "PROMOTE", now)
    /\ promotedCount' = promotedCount + Cardinality(S)
    /\ UNCHANGED <<clock, activeMovies, waitingMovies>>

\* expireScript: the oldest seats past the session timeout are taken back.
ExpireActive(now) ==
  \E S \in SUBSET DOMAIN active :
    /\ S # {}
    /\ IsHead(S, UpTo(active, now - SessionTimeout), ScanLimit)
    /\ active' = ZRem(active, S)
    /\ pending' = JournalRevoke(S, "SESSION_TIMEOUT", now)
    /\ UNCHANGED <<clock, waiting, lastseen, promotedCount, activeMovies,
                   waitingMovies>>

\* waitingExpireScript: waiters that stopped polling are dropped.
ExpireWaiting(now) ==
  \E S \in SUBSET DOMAIN lastseen :
    /\ S # {}
    /\ IsHead(S, UpTo(lastseen, now - WaitingTimeout), ScanLimit)
    /\ LeaveLine(S)
    /\ UNCHANGED <<clock, active, pending, promotedCount, activeMovies,
                   waitingMovies>>

\* Mutant: the journal is forgotten.
IdleButJournal == DOMAIN active = {} /\ DOMAIN waiting = {}

\* No trace of the movie is left but the two tracking sets.
Idle == DOMAIN active = {} /\ DOMAIN waiting = {} /\ DOMAIN pending = {}

\* untrackScript: an idle movie is no longer visited by the loops.
UntrackIfIdle ==
  /\ Idle
  /\ activeMovies' = FALSE
  /\ waitingMovies' = FALSE
  /\ UNCHANGED <<clock, active, waiting, lastseen, pending, promotedCount>>

\* ClearPending: a publisher strikes off, by name, what it has published.
ClearPending(N) ==
  /\ pending' = ZRem(pending, N)
  /\ UNCHANGED <<clock, active, waiting, lastseen, promotedCount,
                 activeMovies, waitingMovies>>

Tick ==
  /\ clock < MaxClock
  /\ clock' = clock + 1
  /\ UNCHANGED <<active, waiting, lastseen, pending, promotedCount,
                 activeMovies, waitingMovies>>
------------------------------------------------------------------------------
\* What a request makes a handler run.
UserStep ==
  \E u \in User :
    \/ EnterKept(u)
    \/ \E now \in Now :
         \/ EnterRequeued(u, now)
         \/ EnterAdmitted(u, now)
         \/ EnterQueued(u, now)
         \/ Position(u, now)
         \/ Leave(u, now)
         \/ ReleaseActive(u, now)

\* What the background loops and the completion consumer run.
LoopStep ==
  \/ \E now \in Now : Promote(now) \/ ExpireActive(now) \/ ExpireWaiting(now)
  \/ \E u \in User : CompleteActive(u)
  \/ \E N \in SUBSET DOMAIN pending : ClearPending(N)
  \/ UntrackIfIdle

Next == UserStep \/ LoopStep \/ Tick

Spec == Init /\ [][Next]_vars
------------------------------------------------------------------------------
Notice == Contract!Notice

\* Types; scores are times that have already been read from a clock.
TypeOK ==
  /\ clock \in Nat
  /\ IsSortedSet(active, User)
  /\ IsSortedSet(waiting, User)
  /\ IsSortedSet(lastseen, User)
  /\ IsSortedSet(pending, Notice)
  /\ promotedCount \in Nat
  /\ activeMovies \in BOOLEAN
  /\ waitingMovies \in BOOLEAN

\* The seats handed out never exceed MAX_SESSIONS, whichever pods enter,
\* promote and expire at the same time (promote.go:17, enter.go:10).
CapacityHeld == ZCard(active) <= MaxSessions

\* Nobody holds a seat and a place in the line at once: a promotion, a refresh
\* and a departure leave no second copy of the user behind.
OnePlace == DOMAIN active \cap DOMAIN waiting = {}

\* waiting and waiting_lastseen always have the same members (untrack.go:16):
\* a ghost in lastseen would be evicted again and again, a waiter without a
\* stamp could never be evicted.
SeenIffWaiting == DOMAIN waiting = DOMAIN lastseen

\* While a movie has a seat holder, a waiter or an unpublished notice, the
\* loops that serve it find it (untrack.go:14-20, enter.go:24-26).
TrackedWhileBusy ==
  /\ (DOMAIN active # {} \/ DOMAIN waiting # {} \/ DOMAIN pending # {}) => activeMovies
  /\ DOMAIN waiting # {} => waitingMovies

\* An admission notice in the journal is about a seat that is held now, and is
\* as old as that seat: whatever takes a seat away cancels its notice, so the
\* sweep cannot announce a seat of the past (leave.go:15-16, timeout.go:13).
AdmitNoticeMatchesSeat ==
  \A n \in DOMAIN pending :
    n.kind = "A" => n.user \in DOMAIN active /\ pending[n] = active[n.user]

\* No request prolongs a seat: its age runs from the admission until the seat
\* is lost, through every refresh, poll and promotion of others (enter.go:18).
SeatAgeFixed ==
  [][\A u \in DOMAIN active \cap DOMAIN active' : active'[u] = active[u]]_vars

\* The scripts keep the promise: a seat is granted or lost together with the
\* duty to tell booking, and no other step touches seats, line or journal.
ImplementsContract == Contract!ContractSpec
==============================================================================
