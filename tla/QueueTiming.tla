----------------------------- MODULE QueueTiming -----------------------------
(***************************************************************************)
(* QueueStore under the operator's reset and measured in real time.  The   *)
(* scores in Redis are what delayed clock readings of many pods made them; *)
(* joinedAt, polledAt and seatedAt are when it really happened, and the    *)
(* properties say what a user is owed in real time.  The reset is one      *)
(* pipeline and no transaction: other scripts may run between its parts.   *)
(***************************************************************************)
EXTENDS QueueStore

CONSTANT MaxResets   \* bound: resets in a behaviour, one at a time

ASSUME QueueTimingAssumption == MaxResets \in Nat

VARIABLES
  resetting,   \* where the pipeline of a reset is
  resets,      \* bound: resets begun so far
  joinedAt,    \* history: when each waiter took his place in the line
  polledAt,    \* history: when each waiter was last stamped
  seatedAt,    \* history: when each seat holder got his seat
  overlap      \* history: somebody entered between the parts of a reset, and
               \* what that has untracked is not tracked again

resetVars == <<resetting, resets>>
timedVars == <<vars, resetVars, joinedAt, polledAt, seatedAt, overlap>>

TimedInit ==
  /\ Init
  /\ resetting = "no"
  /\ resets = 0
  /\ joinedAt = EmptySortedSet
  /\ polledAt = EmptySortedSet
  /\ seatedAt = EmptySortedSet
  /\ overlap = FALSE

\* Users that are in the line or in a seat.
Present == DOMAIN active \cup DOMAIN waiting

\* Whatever is left of the movie, the loops find it (ActiveQueueMovies).
Found == ~ Idle => activeMovies \/ waitingMovies

\* The histories, in a step that puts J (back) into the line and stamps P.
Record(J, P) ==
  /\ joinedAt' = [u \in DOMAIN waiting' |-> IF u \in J THEN clock ELSE joinedAt[u]]
  /\ polledAt' = [u \in DOMAIN lastseen' |-> IF u \in P THEN clock ELSE polledAt[u]]
  /\ seatedAt' = [u \in DOMAIN active' |-> IF u \in DOMAIN active THEN seatedAt[u]
                                                                  ELSE clock]
  /\ overlap' = /\ overlap \/ (resetting # "no" /\ ~ (Present' \subseteq Present))
                /\ resetting' # "no" \/ ~ Found'
------------------------------------------------------------------------------
\* The handlers read the clock and run a script.

\* POST /enter: into the line, or to its tail.
EntersLine(u) ==
  /\ \E now \in Now : EnterRequeued(u, now) \/ EnterQueued(u, now)
  /\ UNCHANGED resetVars
  /\ Record({u}, {u})

\* POST /enter: a seat, now or already.
EntersSeat(u) ==
  /\ EnterKept(u) \/ \E now \in Now : EnterAdmitted(u, now)
  /\ UNCHANGED resetVars
  /\ Record({}, {})

\* GET /position of a waiter.
Polls(u) ==
  /\ \E now \in Now : Position(u, now)
  /\ UNCHANGED resetVars
  /\ Record({}, {u})

\* POST /leave, POST /complete.
Departs(u) ==
  /\ \E now \in Now : Leave(u, now) \/ ReleaseActive(u, now)
  /\ UNCHANGED resetVars
  /\ Record({}, {})

\* The loops, the completion consumer, the publishers and time.
RunsBehind ==
  /\ LoopStep \/ Tick
  /\ UNCHANGED resetVars
  /\ Record({}, {})
------------------------------------------------------------------------------
\* Mutant: the journal of the movie is not among the keys.
ResetDeletesButJournal ==
  /\ resetting = "no"
  /\ resets < MaxResets
  /\ resetting' = "deleted"
  /\ resets' = resets + 1
  /\ active' = EmptySortedSet
  /\ waiting' = EmptySortedSet
  /\ lastseen' = EmptySortedSet
  /\ promotedCount' = 0
  /\ UNCHANGED <<clock, pending, activeMovies, waitingMovies>>
  /\ Record({}, {})

\* POST /reset, DEL: all the keys of the movie at once.
ResetDeletes ==
  /\ resetting = "no"
  /\ resets < MaxResets
  /\ resetting' = "deleted"
  /\ resets' = resets + 1
  /\ active' = EmptySortedSet
  /\ waiting' = EmptySortedSet
  /\ lastseen' = EmptySortedSet
  /\ pending' = EmptySortedSet
  /\ promotedCount' = 0
  /\ UNCHANGED <<clock, activeMovies, waitingMovies>>
  /\ Record({}, {})

\* SREM active_movies.
ResetUntracks ==
  /\ resetting = "deleted"
  /\ resetting' = "half"
  /\ activeMovies' = FALSE
  /\ UNCHANGED <<clock, active, waiting, lastseen, pending, promotedCount,
                 waitingMovies, resets>>
  /\ Record({}, {})

\* SREM waiting_movies.
ResetUntracksLine ==
  /\ resetting = "half"
  /\ resetting' = "no"
  /\ waitingMovies' = FALSE
  /\ UNCHANGED <<clock, active, waiting, lastseen, pending, promotedCount,
                 activeMovies, resets>>
  /\ Record({}, {})

\* The connection breaks: the rest of the pipeline is not executed.
ResetBreaks ==
  /\ resetting # "no"
  /\ resetting' = "no"
  /\ UNCHANGED <<vars, resets>>
  /\ Record({}, {})

TimedNext ==
  \/ \E u \in User : EntersLine(u) \/ EntersSeat(u) \/ Polls(u) \/ Departs(u)
  \/ RunsBehind
  \/ ResetDeletes \/ ResetUntracks \/ ResetUntracksLine \/ ResetBreaks

TimedSpec == TimedInit /\ [][TimedNext]_timedVars
------------------------------------------------------------------------------
\* Types, and who has a history.
TimedTypeOK ==
  /\ TypeOK
  /\ resetting \in {"no", "deleted", "half"}
  /\ resets \in Nat
  /\ joinedAt \in [DOMAIN waiting -> Nat]
  /\ polledAt \in [DOMAIN lastseen -> Nat]
  /\ seatedAt \in [DOMAIN active -> Nat]
  /\ overlap \in BOOLEAN

\* The number on a waiter's screen only goes down, except when he refreshes and
\* in the first Skew ticks after he took his place: nobody who comes later is put
\* in front of him by an old clock reading, and no poll moves him (position.go:38).
NumberFalls ==
  [][\A u \in DOMAIN waiting \cap DOMAIN waiting' :
       joinedAt'[u] = joinedAt[u] /\ clock > joinedAt[u] + Skew =>
         ZRank(waiting', u) <= ZRank(waiting, u)]_timedVars

\* A promotion passes over nobody who took his place more than Skew ticks before
\* the one it seats, whichever pods wrote the two scores (promote.go:35).
PromotedInOrder ==
  [][\A u \in DOMAIN waiting \cap DOMAIN active', v \in DOMAIN waiting \cap DOMAIN waiting' :
       joinedAt[u] <= joinedAt[v] + Skew]_timedVars

\* A session timeout takes a seat that has been held for SessionTimeout ticks, up
\* to Skew: refreshes, promotions and resets leave no seat that is born old
\* (timeout.go:18, promote.go:39).
SeatLastsLong ==
  [][\A now \in Now : ExpireActive(now) =>
       \A u \in DOMAIN active \ DOMAIN active' :
         clock - seatedAt[u] >= SessionTimeout - Skew]_timedVars

\* A waiter who is dropped by the polling timeout had not polled for WaitingTimeout
\* ticks, up to Skew: a late poll with an old clock reading, or a refresh, does not
\* cost him his place (timeout.go:46, position.go:45).
WaiterKept ==
  [][\A now \in Now : ExpireWaiting(now) =>
       \A u \in DOMAIN waiting \ DOMAIN waiting' :
         clock - polledAt[u] >= WaitingTimeout - Skew]_timedVars

\* Resets included, a movie of which anything is left is found by the loops, unless
\* a user entered between the parts of a reset; then until the next enter
\* (reset.go:29-31, enter.go:24-26, untrack.go:14-20).
FoundUnlessOverlap == Found \/ overlap
==============================================================================
