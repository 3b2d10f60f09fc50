------------------------- MODULE QueueTimingProofs -------------------------
(***************************************************************************)
(* Proofs that queue-go owes its users no more than Skew in real time, for *)
(* any number of users and of seats and any timeouts, and that the loops   *)
(* find a movie after a reset unless somebody entered in the middle of it. *)
(***************************************************************************)
EXTENDS QueueTiming, QueueStoreProofs

USE QueueStoreAssumption
------------------------------------------------------------------------------
(* The steps of the composition.                                             *)

\* The parts of an admin reset.
Resets == ResetDeletes \/ ResetUntracks \/ ResetUntracksLine \/ ResetBreaks

\* Every step is one of the scripts, or part of a reset.
LEMMA StoreOrReset == TimedNext => Next \/ Resets
<1> USE DEF Next, UserStep
<1>1. ASSUME NEW u \in User, EntersLine(u) PROVE Next
  BY <1>1 DEF EntersLine
<1>2. ASSUME NEW u \in User, EntersSeat(u) PROVE Next
  BY <1>2 DEF EntersSeat
<1>3. ASSUME NEW u \in User, Polls(u) PROVE Next
  BY <1>3 DEF Polls
<1>4. ASSUME NEW u \in User, Departs(u) PROVE Next
  BY <1>4 DEF Departs
<1>5. CASE RunsBehind
  BY <1>5 DEF RunsBehind
<1> QED
  BY <1>1, <1>2, <1>3, <1>4, <1>5 DEF TimedNext, Resets

\* The store keeps its types and nobody is in two places, resets included.
LEMMA StoreStep ==
  ASSUME TypeOK, OnePlace, [TimedNext]_timedVars
  PROVE  TypeOK' /\ OnePlace'
<1>1. CASE [Next]_vars
  BY <1>1, TypeStep, OnePlaceStep
<1>2. CASE ResetDeletes
  <2>1. \A M : IsSortedSet(EmptySortedSet, M)
    BY EmptyType
  <2>2. TypeOK'
    BY <1>2, <2>1 DEF ResetDeletes, TypeOK
  <2> QED
    BY <1>2, <2>2 DEF ResetDeletes, OnePlace, EmptySortedSet
<1>3. CASE ResetUntracks \/ ResetUntracksLine \/ ResetBreaks
  BY <1>3 DEF ResetUntracks, ResetUntracksLine, ResetBreaks, TypeOK, OnePlace, vars
<1>4. CASE UNCHANGED timedVars
  BY <1>1, <1>4 DEF timedVars
<1> QED
  BY <1>1, <1>2, <1>3, <1>4, StoreOrReset DEF Resets

------------------------------------------------------------------------------
(* How a step moves the scores.                                              *)

\* From z to zz, members go, those of J get a clock reading, the others stay.
Moved(z, zz, J) ==
  \A m \in DOMAIN zz : IF m \in J THEN zz[m] \in Now ELSE m \in DOMAIN z /\ zz[m] = z[m]

\* Nothing but an addition moves anything.
LEMMA MovedBy ==
  /\ \A z, J : Moved(z, z, {}) /\ Moved(z, z, DOMAIN z \ DOMAIN z)
  /\ \A z, S : /\ Moved(z, ZRem(z, S), {})
               /\ Moved(z, ZRem(z, S), DOMAIN ZRem(z, S) \ DOMAIN z)
  /\ \A z, S : \A now \in Now : Moved(z, ZAdd(z, S, now), S)
  /\ \A J : Moved(EmptySortedSet, EmptySortedSet, J)
BY DEF Moved, ZAdd, ZRem, EmptySortedSet

\* Seats are new, or as old as they were.
LEMMA SeatsMoved ==
  ASSUME OnePlace, Next
  PROVE  Moved(active, active', DOMAIN active' \ DOMAIN active)
<1> DEFINE Good == Moved(active, active', DOMAIN active' \ DOMAIN active)
<1>1. ASSUME active' = active PROVE Good
  BY <1>1 DEF Moved
<1>2. ASSUME NEW S, active' = ZRem(active, S) PROVE Good
  BY <1>2 DEF Moved, ZRem
<1>3. ASSUME NEW S, NEW now \in Now, S \cap DOMAIN active = {}, active' = ZAdd(active, S, now)
      PROVE  Good
  BY <1>3 DEF Moved, ZAdd
<1>4. ASSUME NEW u \in User, NEW now \in Now, EnterAdmitted(u, now) PROVE Good
  BY <1>3, <1>4 DEF EnterAdmitted
<1>5. ASSUME NEW now \in Now, Promote(now) PROVE Good
  BY <1>3, <1>5 DEF Promote, OnePlace
<1>6. ASSUME NEW u \in User, NEW now \in Now,
             \/ EnterKept(u) \/ EnterRequeued(u, now) \/ EnterQueued(u, now)
             \/ Position(u, now)
      PROVE  Good
  BY <1>1, <1>6 DEF EnterKept, EnterRequeued, EnterQueued, Position
<1>7. ASSUME NEW u \in User, NEW now \in Now, Leave(u, now) \/ ReleaseActive(u, now)
      PROVE  Good
  BY <1>2, <1>7 DEF Leave, ReleaseActive
<1>8. ASSUME NEW u \in User, CompleteActive(u) PROVE Good
  BY <1>2, <1>8 DEF CompleteActive
<1>9. ASSUME NEW now \in Now, ExpireActive(now) PROVE Good
  BY <1>2, <1>9 DEF ExpireActive
<1>10. ASSUME NEW now \in Now, ExpireWaiting(now) PROVE Good
  BY <1>1, <1>10 DEF ExpireWaiting
<1>11. ASSUME NEW N \in SUBSET DOMAIN pending, ClearPending(N) PROVE Good
  BY <1>1, <1>11 DEF ClearPending
<1>12. CASE UntrackIfIdle \/ Tick
  BY <1>1, <1>12 DEF UntrackIfIdle, Tick
<1>13. ASSUME NEW u \in User, EnterKept(u) PROVE Good
  BY <1>1, <1>13 DEF EnterKept
<1> QED
  BY <1>4, <1>5, <1>6, <1>7, <1>8, <1>9, <1>10, <1>11, <1>12, <1>13
     DEF Next, UserStep, LoopStep

\* What the loops, the consumer, the publishers and time do to the line.
LEMMA LineShrinks ==
  ASSUME LoopStep \/ Tick
  PROVE  Moved(waiting, waiting', {}) /\ Moved(lastseen, lastseen', {})
<1> DEFINE Good == Moved(waiting, waiting', {}) /\ Moved(lastseen, lastseen', {})
<1>1. ASSUME UNCHANGED <<waiting, lastseen>> PROVE Good
  BY <1>1 DEF Moved
<1>2. ASSUME NEW S, LeaveLine(S) PROVE Good
  BY <1>2 DEF LeaveLine, Moved, ZRem
<1>3. ASSUME NEW now \in Now, Promote(now) \/ ExpireWaiting(now) PROVE Good
  BY <1>2, <1>3 DEF Promote, ExpireWaiting
<1>4. ASSUME NEW now \in Now, ExpireActive(now) PROVE Good
  BY <1>1, <1>4 DEF ExpireActive
<1>5. ASSUME NEW u \in User, CompleteActive(u) PROVE Good
  BY <1>1, <1>5 DEF CompleteActive
<1>6. ASSUME NEW N \in SUBSET DOMAIN pending, ClearPending(N) PROVE Good
  BY <1>1, <1>6 DEF ClearPending
<1>7. CASE UntrackIfIdle \/ Tick
  BY <1>1, <1>7 DEF UntrackIfIdle, Tick
<1> QED
  BY <1>3, <1>4, <1>5, <1>6, <1>7 DEF LoopStep

\* Every step: scores change only for those whose history says so.
LEMMA Shape ==
  ASSUME TypeOK, OnePlace, TimedNext
  PROVE  \E J, P : /\ Record(J, P)
                   /\ Moved(waiting, waiting', J)
                   /\ Moved(lastseen, lastseen', P)
                   /\ Moved(active, active', DOMAIN active' \ DOMAIN active)
                   /\ clock' \in Nat /\ clock <= clock'
<1> DEFINE Good(J, P) == /\ Record(J, P)
                         /\ Moved(waiting, waiting', J)
                         /\ Moved(lastseen, lastseen', P)
                         /\ Moved(active, active', DOMAIN active' \ DOMAIN active)
                         /\ clock' \in Nat /\ clock <= clock'
<1>0. clock \in Nat
  BY DEF TypeOK
<1>1. ASSUME NEW u \in User, EntersLine(u) PROVE Good({u}, {u})
  <2>1. PICK now \in Now : EnterRequeued(u, now) \/ EnterQueued(u, now)
    BY <1>1 DEF EntersLine
  <2>2. JoinLine(u, now) /\ UNCHANGED clock
    BY <2>1 DEF EnterRequeued, EnterQueued
  <2>3. Next
    BY <2>1 DEF Next, UserStep
  <2> QED
    BY <1>0, <1>1, <2>2, <2>3, SeatsMoved, MovedBy DEF JoinLine, EntersLine
<1>2. ASSUME NEW u \in User, EntersSeat(u) PROVE Good({}, {})
  <2>1. EnterKept(u) \/ \E now \in Now : EnterAdmitted(u, now)
    BY <1>2 DEF EntersSeat
  <2>2. UNCHANGED <<clock, waiting, lastseen>> /\ Next
    BY <2>1 DEF EnterKept, EnterAdmitted, Next, UserStep
  <2> QED
    BY <1>0, <1>2, <2>2, SeatsMoved, MovedBy DEF EntersSeat
<1>3. ASSUME NEW u \in User, Polls(u) PROVE Good({}, {u})
  <2>1. PICK now \in Now : Position(u, now)
    BY <1>3 DEF Polls
  <2>2. lastseen' = ZAdd(lastseen, {u}, now) /\ UNCHANGED <<clock, waiting>> /\ Next
    BY <2>1 DEF Position, Next, UserStep
  <2> QED
    BY <1>0, <1>3, <2>2, SeatsMoved, MovedBy DEF Polls
<1>4. ASSUME NEW u \in User, Departs(u) PROVE Good({}, {})
  <2>1. PICK now \in Now : Leave(u, now) \/ ReleaseActive(u, now)
    BY <1>4 DEF Departs
  <2>2. UNCHANGED clock /\ Next
    BY <2>1 DEF Leave, ReleaseActive, Next, UserStep
  <2>3. Moved(waiting, waiting', {}) /\ Moved(lastseen, lastseen', {})
    BY <2>1, MovedBy DEF Leave, LeaveLine, ReleaseActive
  <2> QED
    BY <1>0, <1>4, <2>2, <2>3, SeatsMoved DEF Departs
<1>5. CASE RunsBehind
  <2>1. Next
    BY <1>5 DEF RunsBehind, Next
  <2>2. clock' \in Nat /\ clock <= clock'
    <3>1. ASSUME NEW now \in Now, Promote(now) \/ ExpireActive(now) \/ ExpireWaiting(now)
          PROVE  UNCHANGED clock
      BY <3>1 DEF Promote, ExpireActive, ExpireWaiting
    <3>2. ASSUME NEW u \in User, CompleteActive(u) PROVE UNCHANGED clock
      BY <3>2 DEF CompleteActive
    <3>3. ASSUME NEW N \in SUBSET DOMAIN pending, ClearPending(N) PROVE UNCHANGED clock
      BY <3>3 DEF ClearPending
    <3>4. CASE UntrackIfIdle
      BY <1>0, <3>4 DEF UntrackIfIdle
    <3>5. CASE Tick
      BY <1>0, <3>5 DEF Tick
    <3> QED
      BY <1>0, <1>5, <3>1, <3>2, <3>3, <3>4, <3>5 DEF RunsBehind, LoopStep
  <2> QED
    BY <1>5, <2>1, <2>2, SeatsMoved, LineShrinks DEF RunsBehind
<1>6. CASE Resets
  <2>1. Record({}, {}) /\ UNCHANGED clock
    BY <1>6 DEF Resets, ResetDeletes, ResetUntracks, ResetUntracksLine, ResetBreaks, vars
  <2>2. \/ UNCHANGED <<active, waiting, lastseen>>
        \/ active' = EmptySortedSet /\ waiting' = EmptySortedSet /\ lastseen' = EmptySortedSet
    BY <1>6 DEF Resets, ResetDeletes, ResetUntracks, ResetUntracksLine, ResetBreaks, vars
  <2>3. /\ Moved(waiting, waiting', {}) /\ Moved(lastseen, lastseen', {})
        /\ Moved(active, active', DOMAIN active' \ DOMAIN active)
    BY <2>2 DEF Moved, EmptySortedSet
  <2> QED
    BY <1>0, <2>1, <2>3
<1>7. \E J, P : Good(J, P)
  BY <1>1, <1>2, <1>3, <1>4, <1>5, <1>6 DEF TimedNext, Resets
<1> QED
  BY <1>7
------------------------------------------------------------------------------
\* Types of the histories: they have the members of the sets they are about.
LEMMA TimedTypeStep ==
  ASSUME TimedTypeOK, OnePlace, [TimedNext]_timedVars
  PROVE  TimedTypeOK'
<1>1. TypeOK'
  BY StoreStep DEF TimedTypeOK
<1>2. ASSUME TimedNext PROVE TimedTypeOK'
  <2>1. resetting' \in {"no", "deleted", "half"} /\ resets' \in Nat
    <3>1. UNCHANGED <<resetting, resets>> \/ Resets
      BY <1>2 DEF TimedNext, EntersLine, EntersSeat, Polls, Departs, RunsBehind, Resets,
         resetVars
    <3>2. CASE ResetDeletes
      BY <3>2 DEF ResetDeletes, TimedTypeOK
    <3>3. CASE ResetUntracks \/ ResetUntracksLine \/ ResetBreaks
      BY <3>3 DEF ResetUntracks, ResetUntracksLine, ResetBreaks, TimedTypeOK
    <3> QED
      BY <3>1, <3>2, <3>3 DEF Resets, TimedTypeOK
  <2>2. PICK J, P : Record(J, P) /\ Moved(waiting, waiting', J) /\ Moved(lastseen, lastseen', P)
    BY <1>2, Shape DEF TimedTypeOK
  <2>3. overlap' \in BOOLEAN
    BY <2>2 DEF Record
  <2>4. clock \in Nat
    BY DEF TimedTypeOK, TypeOK
  <2>5. seatedAt' \in [DOMAIN active' -> Nat]
    BY <2>2, <2>4 DEF Record, TimedTypeOK
  <2>6. joinedAt' \in [DOMAIN waiting' -> Nat]
    BY <2>2, <2>4 DEF Record, TimedTypeOK, Moved
  <2>7. polledAt' \in [DOMAIN lastseen' -> Nat]
    BY <2>2, <2>4 DEF Record, TimedTypeOK, Moved
  <2> QED
    BY <1>1, <2>1, <2>3, <2>5, <2>6, <2>7 DEF TimedTypeOK
<1>3. CASE UNCHANGED timedVars
  BY <1>1, <1>3 DEF timedVars, TimedTypeOK, vars, resetVars
<1> QED
  BY <1>2, <1>3

\* A score is a clock reading of the moment its history tells.
InTime(z, h) == \A m \in DOMAIN z : z[m] <= h[m] /\ h[m] <= z[m] + Skew /\ h[m] <= clock

\* The inductive invariant: what the scores in Redis say of real time.
TimedInv ==
  /\ TimedTypeOK
  /\ OnePlace
  /\ InTime(waiting, joinedAt)
  /\ InTime(lastseen, polledAt)
  /\ InTime(active, seatedAt)

\* It holds in the empty store ...
LEMMA TimedInitInv == TimedInit => TimedInv
<1> SUFFICES ASSUME TimedInit PROVE TimedInv
  OBVIOUS
<1>1. \A M : IsSortedSet(EmptySortedSet, M)
  BY EmptyType
<1>2. TypeOK
  BY <1>1 DEF TimedInit, Init, TypeOK
<1>3. EmptySortedSet \in [DOMAIN EmptySortedSet -> Nat] /\ DOMAIN EmptySortedSet = {}
  BY DEF EmptySortedSet
<1> QED
  BY <1>2, <1>3 DEF TimedInit, Init, TimedInv, TimedTypeOK, OnePlace, InTime

\* What is read now is in time, and what was in time stays so.
LEMMA StaysInTime ==
  ASSUME NEW z, NEW h, NEW zz, NEW hh, NEW J, NEW c \in Nat,
         z \in [DOMAIN z -> Nat], h \in [DOMAIN z -> Nat], clock \in Nat, clock <= c,
         \A m \in DOMAIN z : z[m] <= h[m] /\ h[m] <= z[m] + Skew /\ h[m] <= clock,
         Moved(z, zz, J),
         \A m \in DOMAIN zz : hh[m] = IF m \in J THEN clock ELSE h[m],
         NEW m \in DOMAIN zz
  PROVE  zz[m] <= hh[m] /\ hh[m] <= zz[m] + Skew /\ hh[m] <= c
<1>1. CASE m \in J
  BY <1>1 DEF Moved, Now, QueueStoreAssumption
<1>2. CASE m \notin J
  <2>1. m \in DOMAIN z /\ zz[m] = z[m] /\ hh[m] = h[m]
    BY <1>2 DEF Moved
  <2> QED
    BY <2>1
<1> QED
  BY <1>1, <1>2

\* ... is kept by every step ...
LEMMA TimedInvStep ==
  ASSUME TimedInv, [TimedNext]_timedVars
  PROVE  TimedInv'
<1>1. TimedTypeOK' /\ OnePlace'
  BY TimedTypeStep, StoreStep DEF TimedInv, TimedTypeOK
<1>2. ASSUME TimedNext PROVE TimedInv'
  <2>1. PICK J, P : /\ Record(J, P)
                    /\ Moved(waiting, waiting', J)
                    /\ Moved(lastseen, lastseen', P)
                    /\ Moved(active, active', DOMAIN active' \ DOMAIN active)
                    /\ clock' \in Nat /\ clock <= clock'
    BY <1>2, Shape DEF TimedInv, TimedTypeOK
  <2>2. clock \in Nat
    BY DEF TimedInv, TimedTypeOK, TypeOK
  <2>3. InTime(waiting, joinedAt)'
    <3>1. /\ \A m \in DOMAIN waiting' : joinedAt'[m] = IF m \in J THEN clock ELSE joinedAt[m]
          /\ waiting \in [DOMAIN waiting -> Nat] /\ joinedAt \in [DOMAIN waiting -> Nat]
      BY <2>1 DEF Record, TimedInv, TimedTypeOK, TypeOK, IsSortedSet
    <3> QED
      BY <2>1, <2>2, <3>1, StaysInTime DEF InTime, TimedInv
  <2>4. InTime(lastseen, polledAt)'
    <3>1. /\ \A m \in DOMAIN lastseen' : polledAt'[m] = IF m \in P THEN clock ELSE polledAt[m]
          /\ lastseen \in [DOMAIN lastseen -> Nat] /\ polledAt \in [DOMAIN lastseen -> Nat]
      BY <2>1 DEF Record, TimedInv, TimedTypeOK, TypeOK, IsSortedSet
    <3> QED
      BY <2>1, <2>2, <3>1, StaysInTime DEF InTime, TimedInv
  <2>5. InTime(active, seatedAt)'
    <3>1. /\ \A m \in DOMAIN active' : seatedAt'[m] = IF m \in DOMAIN active' \ DOMAIN active
                                                       THEN clock ELSE seatedAt[m]
          /\ active \in [DOMAIN active -> Nat] /\ seatedAt \in [DOMAIN active -> Nat]
      BY <2>1 DEF Record, TimedInv, TimedTypeOK, TypeOK, IsSortedSet
    <3> QED
      BY <2>1, <2>2, <3>1, StaysInTime DEF InTime, TimedInv
  <2> QED
    BY <1>1, <2>3, <2>4, <2>5 DEF TimedInv
<1>3. CASE UNCHANGED timedVars
  BY <1>1, <1>3 DEF timedVars, vars, TimedInv, InTime
<1> QED
  BY <1>2, <1>3

\* ... and so holds for ever.
LEMMA TimedInvHolds == TimedSpec => []TimedInv
BY TimedInitInv, TimedInvStep, PTL DEF TimedSpec

\* Types of the store and of its histories, in all interleavings with resets.
THEOREM TimedTypeCorrect == TimedSpec => []TimedTypeOK
<1>1. TimedInv => TimedTypeOK
  BY DEF TimedInv
<1> QED
  BY <1>1, TimedInvHolds, PTL
------------------------------------------------------------------------------
(* What the users are owed.                                                  *)

\* A session timeout takes no seat before its time, up to the skew of the clocks.
THEOREM SeatLastsLongHolds == TimedSpec => SeatLastsLong
<1> DEFINE Lasts == \A now \in Now : ExpireActive(now) =>
                      \A u \in DOMAIN active \ DOMAIN active' :
                        clock - seatedAt[u] >= SessionTimeout - Skew
<1>1. TimedInv => Lasts
  <2> SUFFICES ASSUME TimedInv, NEW now \in Now, ExpireActive(now),
                      NEW u \in DOMAIN active \ DOMAIN active'
               PROVE  clock - seatedAt[u] >= SessionTimeout - Skew
    OBVIOUS
  <2>1. PICK S \in SUBSET DOMAIN active :
          IsHead(S, UpTo(active, now - SessionTimeout), ScanLimit) /\ active' = ZRem(active, S)
    BY DEF ExpireActive
  <2>2. u \in S
    BY <2>1 DEF ZRem
  <2>3. active[u] <= now - SessionTimeout
    BY <2>1, <2>2 DEF IsHead, UpTo
  <2>4. seatedAt[u] <= active[u] + Skew
    BY DEF TimedInv, InTime
  <2>5. now \in Nat /\ clock \in Nat /\ now <= clock
    BY DEF Now, TimedInv, TimedTypeOK, TypeOK
  <2>6. active[u] \in Nat /\ seatedAt[u] \in Nat
    BY DEF TimedInv, TimedTypeOK, TypeOK, IsSortedSet
  <2> QED
    BY <2>3, <2>4, <2>5, <2>6 DEF QueueStoreAssumption
<1>2. Lasts => [Lasts]_timedVars
  OBVIOUS
<1> QED
  BY <1>1, <1>2, TimedInvHolds, PTL DEF SeatLastsLong

\* The polling timeout drops nobody who has polled in time, up to the skew.
THEOREM WaiterKeptHolds == TimedSpec => WaiterKept
<1> DEFINE Kept == \A now \in Now : ExpireWaiting(now) =>
                     \A u \in DOMAIN waiting \ DOMAIN waiting' :
                       clock - polledAt[u] >= WaitingTimeout - Skew
<1>1. TimedInv => Kept
  <2> SUFFICES ASSUME TimedInv, NEW now \in Now, ExpireWaiting(now),
                      NEW u \in DOMAIN waiting \ DOMAIN waiting'
               PROVE  clock - polledAt[u] >= WaitingTimeout - Skew
    OBVIOUS
  <2>1. PICK S \in SUBSET DOMAIN lastseen :
          IsHead(S, UpTo(lastseen, now - WaitingTimeout), ScanLimit) /\ LeaveLine(S)
    BY DEF ExpireWaiting
  <2>2. u \in S
    BY <2>1 DEF ZRem, LeaveLine
  <2>3. u \in DOMAIN lastseen /\ lastseen[u] <= now - WaitingTimeout
    BY <2>1, <2>2 DEF IsHead, UpTo
  <2>4. polledAt[u] <= lastseen[u] + Skew
    BY <2>3 DEF TimedInv, InTime
  <2>5. now \in Nat /\ clock \in Nat /\ now <= clock
    BY DEF Now, TimedInv, TimedTypeOK, TypeOK
  <2>6. lastseen[u] \in Nat /\ polledAt[u] \in Nat
    BY <2>3 DEF TimedInv, TimedTypeOK, TypeOK, IsSortedSet
  <2> QED
    BY <2>3, <2>4, <2>5, <2>6 DEF QueueStoreAssumption
<1>2. Kept => [Kept]_timedVars
  OBVIOUS
<1> QED
  BY <1>1, <1>2, TimedInvHolds, PTL DEF WaiterKept

\* Only a promotion takes somebody from the line into a seat.
LEMMA OnlyPromotions ==
  ASSUME OnePlace, [TimedNext]_timedVars, NEW u \in DOMAIN waiting \cap DOMAIN active'
  PROVE  \E now \in Now : Promote(now)
<1>0. u \notin DOMAIN active
  BY DEF OnePlace
<1>1. ASSUME DOMAIN active' \subseteq DOMAIN active PROVE FALSE
  BY <1>0, <1>1
<1>2. ASSUME NEW w \in User, NEW now \in Now, EnterAdmitted(w, now) PROVE FALSE
  BY <1>0, <1>2 DEF EnterAdmitted, ZAdd
<1>3. ASSUME NEW w \in User, NEW now \in Now,
             \/ EnterRequeued(w, now) \/ EnterQueued(w, now) \/ Position(w, now)
             \/ Leave(w, now) \/ ReleaseActive(w, now)
      PROVE  FALSE
  BY <1>1, <1>3 DEF EnterRequeued, EnterQueued, Position, Leave, ReleaseActive, ZRem
<1>4. ASSUME NEW w \in User, EnterKept(w) \/ CompleteActive(w) PROVE FALSE
  BY <1>1, <1>4 DEF EnterKept, CompleteActive, ZRem
<1>5. ASSUME NEW now \in Now, ExpireActive(now) \/ ExpireWaiting(now) PROVE FALSE
  BY <1>1, <1>5 DEF ExpireActive, ExpireWaiting, ZRem
<1>6. ASSUME NEW N \in SUBSET DOMAIN pending, ClearPending(N) PROVE FALSE
  BY <1>1, <1>6 DEF ClearPending
<1>7. ASSUME UntrackIfIdle \/ Tick PROVE FALSE
  BY <1>1, <1>7 DEF UntrackIfIdle, Tick
<1>8. ASSUME Resets PROVE FALSE
  BY <1>0, <1>1, <1>8
  DEF Resets, ResetDeletes, ResetUntracks, ResetUntracksLine, ResetBreaks, vars, EmptySortedSet
<1>9. ASSUME UNCHANGED timedVars PROVE FALSE
  BY <1>1, <1>9 DEF timedVars, vars
<1> QED
  BY <1>2, <1>3, <1>4, <1>5, <1>6, <1>7, <1>8, <1>9, StoreOrReset
     DEF Next, UserStep, LoopStep

\* No promotion passes over a waiter who came more than Skew earlier.
THEOREM PromotedInOrderHolds == TimedSpec => PromotedInOrder
<1> DEFINE Ordered == \A u \in DOMAIN waiting \cap DOMAIN active',
                         v \in DOMAIN waiting \cap DOMAIN waiting' :
                        joinedAt[u] <= joinedAt[v] + Skew
<1>1. TimedInv /\ [TimedNext]_timedVars => Ordered
  <2> SUFFICES ASSUME TimedInv, [TimedNext]_timedVars,
                      NEW u \in DOMAIN waiting \cap DOMAIN active',
                      NEW v \in DOMAIN waiting \cap DOMAIN waiting'
               PROVE  joinedAt[u] <= joinedAt[v] + Skew
    OBVIOUS
  <2>1. PICK now \in Now : Promote(now)
    BY OnlyPromotions DEF TimedInv
  <2>2. PICK S \in SUBSET DOMAIN waiting :
          /\ IsHead(S, waiting, IF Batch < Vacant THEN Batch ELSE Vacant)
          /\ active' = ZAdd(active, S, now)
          /\ LeaveLine(S)
    BY <2>1 DEF Promote
  <2>3. u \in S /\ v \notin S
    BY <2>2 DEF ZAdd, ZRem, LeaveLine, TimedInv, OnePlace
  <2>4. waiting[u] \in Nat /\ waiting[v] \in Nat /\ joinedAt[u] \in Nat /\ joinedAt[v] \in Nat
    BY DEF TimedInv, TimedTypeOK, TypeOK, IsSortedSet
  <2>5. waiting[u] <= waiting[v]
    BY <2>2, <2>3, <2>4 DEF IsHead, Precedes
  <2>6. joinedAt[u] <= waiting[u] + Skew /\ waiting[v] <= joinedAt[v]
    BY DEF TimedInv, InTime
  <2> QED
    BY <2>4, <2>5, <2>6 DEF QueueStoreAssumption
<1>2. Ordered => [Ordered]_timedVars
  OBVIOUS
<1> QED
  BY <1>1, <1>2, TimedInvHolds, PTL DEF TimedSpec, PromotedInOrder

\* A waiter's number only goes down, once he has waited for Skew.
THEOREM NumberFallsHolds == TimedSpec => NumberFalls
<1> DEFINE Falls == \A u \in DOMAIN waiting \cap DOMAIN waiting' :
                      joinedAt'[u] = joinedAt[u] /\ clock > joinedAt[u] + Skew =>
                        ZRank(waiting', u) <= ZRank(waiting, u)
<1>1. TimedInv /\ TimedNext => Falls
  <2> SUFFICES ASSUME TimedInv, TimedNext,
                      NEW u \in DOMAIN waiting \cap DOMAIN waiting',
                      joinedAt'[u] = joinedAt[u], clock > joinedAt[u] + Skew
               PROVE  ZRank(waiting', u) <= ZRank(waiting, u)
    OBVIOUS
  <2> DEFINE Before == {x \in DOMAIN waiting : Precedes(waiting, x, u)}
             After == {x \in DOMAIN waiting' : Precedes(waiting', x, u)}
  <2>1. PICK J, P : Record(J, P) /\ Moved(waiting, waiting', J)
    BY Shape DEF TimedInv, TimedTypeOK
  <2>2. clock \in Nat /\ waiting[u] \in Nat /\ joinedAt[u] \in Nat /\ waiting[u] <= joinedAt[u]
    BY DEF TimedInv, TimedTypeOK, TypeOK, IsSortedSet, InTime
  <2>3. u \notin J
    BY <2>1, <2>2 DEF Record, QueueStoreAssumption
  <2>4. waiting'[u] = waiting[u]
    BY <2>1, <2>3 DEF Moved
  <2>5. ASSUME NEW x \in After PROVE x \in Before
    <3>1. CASE x \in J
      <4>1. waiting'[x] \in Nat /\ waiting'[x] + Skew >= clock
        BY <2>1, <2>2, <3>1 DEF Moved, Now, QueueStoreAssumption
      <4> QED
        BY <2>2, <2>4, <4>1 DEF Precedes, QueueStoreAssumption
    <3>2. CASE x \notin J
      <4>1. x \in DOMAIN waiting /\ waiting'[x] = waiting[x]
        BY <2>1, <3>2 DEF Moved
      <4> QED
        BY <2>4, <4>1 DEF Precedes
    <3> QED
      BY <3>1, <3>2
  <2>6. IsFiniteSet(DOMAIN waiting)
    BY FS_Subset DEF TimedInv, TimedTypeOK, TypeOK, IsSortedSet, QueueStoreAssumption
  <2>7. IsFiniteSet(Before)
    BY <2>6, FS_Subset
  <2>8. Cardinality(After) <= Cardinality(Before)
    <3>1. After \subseteq Before
      BY <2>5
    <3> HIDE DEF Before, After
    <3> QED
      BY <2>7, <3>1, FS_Subset
  <2> QED
    BY <2>8 DEF ZRank
<1>2. Falls => [Falls]_timedVars
  OBVIOUS
<1>3. TimedInv /\ [TimedNext]_timedVars => [Falls]_timedVars
  BY <1>1
<1> QED
  BY <1>3, TimedInvHolds, PTL DEF TimedSpec, NumberFalls
------------------------------------------------------------------------------
(* What a reset leaves behind.                                               *)

\* Where the movie is empty, only an enter fills it.
LEMMA IdleStep ==
  ASSUME Idle, [Next]_vars, Present' \subseteq Present
  PROVE  Idle'
<1> USE DEF Idle, Present
<1>0. DOMAIN active' = {} /\ DOMAIN waiting' = {}
  OBVIOUS
<1>1. ASSUME DOMAIN pending' \subseteq DOMAIN pending PROVE Idle'
  BY <1>0, <1>1
<1> USE DEF ZAdd, ZRem
<1>2. ASSUME NEW u \in User, NEW now \in Now, EnterAdmitted(u, now) PROVE FALSE
  BY <1>0, <1>2 DEF EnterAdmitted
<1>3. ASSUME NEW u \in User, NEW now \in Now,
             \/ EnterRequeued(u, now) \/ EnterQueued(u, now) \/ Position(u, now)
             \/ Leave(u, now) \/ ReleaseActive(u, now)
      PROVE  Idle'
  BY <1>1, <1>3 DEF EnterRequeued, EnterQueued, Position, Leave, ReleaseActive
<1>4. ASSUME NEW u \in User, EnterKept(u) \/ CompleteActive(u) PROVE Idle'
  BY <1>1, <1>4 DEF EnterKept, CompleteActive
<1>5. ASSUME NEW now \in Now, Promote(now) \/ ExpireActive(now) PROVE FALSE
  BY <1>5 DEF Promote, ExpireActive
<1>6. ASSUME NEW now \in Now, ExpireWaiting(now) PROVE Idle'
  BY <1>1, <1>6 DEF ExpireWaiting
<1>7. ASSUME NEW N \in SUBSET DOMAIN pending, ClearPending(N) PROVE Idle'
  BY <1>1, <1>7 DEF ClearPending
<1>8. CASE UntrackIfIdle \/ Tick \/ UNCHANGED vars
  BY <1>1, <1>8 DEF UntrackIfIdle, Tick, vars
<1> QED
  BY <1>2, <1>3, <1>4, <1>5, <1>6, <1>7, <1>8 DEF Next, UserStep, LoopStep

\* A movie that is found is found after every script.
LEMMA FoundStep ==
  ASSUME Found, [Next]_vars
  PROVE  Found'
<1> USE DEF Found
<1>1. ASSUME UNCHANGED <<activeMovies, waitingMovies>>, Idle => Idle' PROVE Found'
  BY <1>1
<1>2. ASSUME activeMovies' = TRUE PROVE Found'
  BY <1>2
<1>3. ASSUME NEW u \in User, NEW now \in Now,
             EnterAdmitted(u, now) \/ EnterRequeued(u, now) \/ EnterQueued(u, now)
      PROVE  Found'
  BY <1>2, <1>3 DEF EnterAdmitted, EnterRequeued, EnterQueued, JoinLine
<1>4. ASSUME NEW u \in User, EnterKept(u) PROVE Found'
  BY <1>2, <1>4 DEF EnterKept
<1> USE DEF Idle, ZAdd, ZRem
<1>5. ASSUME NEW u \in User, NEW now \in Now,
             Position(u, now) \/ Leave(u, now) \/ ReleaseActive(u, now)
      PROVE  Found'
  BY <1>1, <1>5 DEF Position, Leave, LeaveLine, ReleaseActive
<1>6. ASSUME NEW u \in User, CompleteActive(u) PROVE Found'
  BY <1>1, <1>6 DEF CompleteActive
<1>7. ASSUME NEW now \in Now, Promote(now) PROVE Found'
  BY <1>1, <1>7 DEF Promote
<1>8. ASSUME NEW now \in Now, ExpireActive(now) PROVE Found'
  BY <1>1, <1>8 DEF ExpireActive
<1>9. ASSUME NEW now \in Now, ExpireWaiting(now) PROVE Found'
  BY <1>1, <1>9 DEF ExpireWaiting, LeaveLine
<1>10. ASSUME NEW N \in SUBSET DOMAIN pending, ClearPending(N) PROVE Found'
  BY <1>1, <1>10 DEF ClearPending
<1>11. CASE UntrackIfIdle
  BY <1>11 DEF UntrackIfIdle
<1>12. CASE Tick \/ UNCHANGED vars
  BY <1>1, <1>12 DEF Tick, vars
<1> QED
  BY <1>3, <1>4, <1>5, <1>6, <1>7, <1>8, <1>9, <1>10, <1>11, <1>12
     DEF Next, UserStep, LoopStep

\* As long as nobody has entered since the reset began, nothing is there.
ResetInv == FoundUnlessOverlap /\ (resetting # "no" /\ ~ overlap => Idle)

\* After any reset, complete or broken off, a movie of which anything is left is
\* found by the loops, unless somebody entered between the parts of the reset.
THEOREM FoundUnlessOverlapHolds == TimedSpec => []FoundUnlessOverlap
<1>1. TimedInit => ResetInv
  BY DEF TimedInit, Init, ResetInv, FoundUnlessOverlap, Found, Idle, EmptySortedSet
<1>2. ResetInv /\ [TimedNext]_timedVars => ResetInv'
  <2> SUFFICES ASSUME ResetInv, [TimedNext]_timedVars PROVE ResetInv'
    OBVIOUS
  <2>1. ASSUME TimedNext, [Next]_vars, UNCHANGED resetVars PROVE ResetInv'
    <3>1. PICK J, P : Record(J, P)
      BY <2>1 DEF TimedNext, EntersLine, EntersSeat, Polls, Departs, RunsBehind,
         ResetDeletes, ResetUntracks, ResetUntracksLine, ResetBreaks
    <3>2. overlap' = /\ overlap \/ (resetting # "no" /\ ~ (Present' \subseteq Present))
                     /\ resetting # "no" \/ ~ Found'
      BY <2>1, <3>1 DEF Record, resetVars
    <3>3. CASE overlap
      BY <2>1, <3>2, <3>3 DEF ResetInv, FoundUnlessOverlap, resetVars
    <3>4. CASE ~ overlap /\ resetting = "no"
      BY <2>1, <3>4, FoundStep DEF ResetInv, FoundUnlessOverlap, resetVars
    <3>5. CASE ~ overlap /\ resetting # "no" /\ ~ (Present' \subseteq Present)
      BY <2>1, <3>2, <3>5 DEF ResetInv, FoundUnlessOverlap, resetVars
    <3>6. CASE ~ overlap /\ resetting # "no" /\ Present' \subseteq Present
      BY <2>1, <3>6, IdleStep DEF ResetInv, FoundUnlessOverlap, Found
    <3> QED
      BY <3>3, <3>4, <3>5, <3>6
  <2>2. CASE ResetDeletes
    BY <2>2 DEF ResetDeletes, ResetInv, FoundUnlessOverlap, Found, Idle, EmptySortedSet
  <2>3. CASE ResetUntracks \/ ResetUntracksLine \/ ResetBreaks
    <3>1. /\ Record({}, {}) /\ resetting # "no" /\ UNCHANGED <<active, waiting, pending>>
      BY <2>3 DEF ResetUntracks, ResetUntracksLine, ResetBreaks, vars
    <3>2. overlap' = (overlap /\ (resetting' # "no" \/ ~ Found'))
      BY <3>1 DEF Record, Present
    <3>3. CASE overlap
      BY <3>2, <3>3 DEF ResetInv, FoundUnlessOverlap
    <3>4. CASE ~ overlap
      BY <3>1, <3>4 DEF ResetInv, FoundUnlessOverlap, Found, Idle
    <3> QED
      BY <3>3, <3>4
  <2>4. CASE UNCHANGED timedVars
    BY <2>4 DEF timedVars, vars, resetVars, ResetInv, FoundUnlessOverlap, Found, Idle
  <2>5. CASE TimedNext /\ ~ Resets
    <3>1. UNCHANGED resetVars
      BY <2>5 DEF TimedNext, EntersLine, EntersSeat, Polls, Departs, RunsBehind, Resets
    <3> QED
      BY <2>1, <2>5, <3>1, StoreOrReset
  <2> QED
    BY <2>2, <2>3, <2>4, <2>5 DEF Resets
<1>3. ResetInv => FoundUnlessOverlap
  BY DEF ResetInv
<1> QED
  BY <1>1, <1>2, <1>3, PTL DEF TimedSpec
==============================================================================
