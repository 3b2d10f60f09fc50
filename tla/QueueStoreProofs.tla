-------------------------- MODULE QueueStoreProofs --------------------------
(***************************************************************************)
(* Proofs that the scripts of queue-go keep the invariants of QueueStore   *)
(* for any number of users, seats and ticks, and that they implement the   *)
(* AdmissionContract.                                                      *)
(***************************************************************************)
EXTENDS QueueStore, FiniteSetTheorems, TLAPS

USE QueueStoreAssumption
------------------------------------------------------------------------------
(* Sorted sets.                                                              *)

\* The empty one is over any set.
LEMMA EmptyType == ASSUME NEW M PROVE IsSortedSet(EmptySortedSet, M)
<1>1. DOMAIN EmptySortedSet = {}
  BY DEF EmptySortedSet
<1>2. EmptySortedSet \in [{} -> Nat]
  BY DEF EmptySortedSet
<1> QED
  BY <1>1, <1>2 DEF IsSortedSet

\* A ZADD of members of M with a natural score leaves a sorted set over M.
LEMMA ZAddType ==
  ASSUME NEW M, NEW z, IsSortedSet(z, M), NEW S \in SUBSET M, NEW k \in Nat
  PROVE  IsSortedSet(ZAdd(z, S, k), M)
BY DEF IsSortedSet, ZAdd

\* So does any ZREM.
LEMMA ZRemType ==
  ASSUME NEW M, NEW z, IsSortedSet(z, M), NEW S
  PROVE  IsSortedSet(ZRem(z, S), M)
BY DEF IsSortedSet, ZRem

\* The clock a script is given is a time.
LEMMA NowIsTime == ASSUME clock \in Nat, NEW now \in Now PROVE now \in Nat
BY DEF Now

\* The journal's entries are notices of the contract.
LEMMA JournalType ==
  ASSUME TypeOK, NEW S \in SUBSET User, NEW now \in Nat
  PROVE  /\ \A reason \in {"SESSION_TIMEOUT", "LEAVE", "COMPLETE"} :
              IsSortedSet(JournalRevoke(S, reason, now), Notice)
         /\ \A reason \in {"ENTER", "PROMOTE"} :
              IsSortedSet(JournalAdmit(S, reason, now), Notice)
         /\ \A T : IsSortedSet(ZRem(pending, T), Notice)
<1> USE DEF Notice, Contract!Notice, Contract!AdmitNotice, Contract!RevokeNotice,
            Contract!AdmitReason, Contract!RevokeReason
<1>1. \A T : IsSortedSet(ZRem(pending, T), Notice)
  BY ZRemType DEF TypeOK
<1>2. ASSUME NEW reason \in {"SESSION_TIMEOUT", "LEAVE", "COMPLETE"}
      PROVE  IsSortedSet(JournalRevoke(S, reason, now), Notice)
  <2>1. [kind : {"R"}, reason : {reason}, user : S] \subseteq Notice
    OBVIOUS
  <2> QED
    BY <1>1, <2>1, ZAddType DEF JournalRevoke
<1>3. ASSUME NEW reason \in {"ENTER", "PROMOTE"}
      PROVE  IsSortedSet(JournalAdmit(S, reason, now), Notice)
  <2>1. [kind : {"A"}, reason : {reason}, user : S] \subseteq Notice
    OBVIOUS
  <2> QED
    BY <2>1, ZAddType DEF JournalAdmit, TypeOK
<1> QED
  BY <1>1, <1>2, <1>3
------------------------------------------------------------------------------
\* Every script keeps the types.
LEMMA TypeStep ==
  ASSUME TypeOK, [Next]_vars
  PROVE  TypeOK'
<1>0. \A now \in Now : now \in Nat
  BY NowIsTime DEF TypeOK
<1>1. ASSUME NEW u \in User, EnterKept(u) PROVE TypeOK'
  BY <1>1 DEF TypeOK, EnterKept
<1>2. ASSUME NEW u \in User, NEW now \in Now, EnterRequeued(u, now) PROVE TypeOK'
  BY <1>0, <1>2, ZAddType DEF TypeOK, EnterRequeued, JoinLine
<1>3. ASSUME NEW u \in User, NEW now \in Now, EnterAdmitted(u, now) PROVE TypeOK'
  BY <1>0, <1>3, ZAddType, JournalType DEF TypeOK, EnterAdmitted
<1>4. ASSUME NEW u \in User, NEW now \in Now, EnterQueued(u, now) PROVE TypeOK'
  BY <1>0, <1>4, ZAddType DEF TypeOK, EnterQueued, JoinLine
<1>5. ASSUME NEW u \in User, NEW now \in Now, Position(u, now) PROVE TypeOK'
  BY <1>0, <1>5, ZAddType DEF TypeOK, Position
<1>6. ASSUME NEW u \in User, NEW now \in Now, Leave(u, now) PROVE TypeOK'
  BY <1>0, <1>6, ZRemType, JournalType DEF TypeOK, Leave, LeaveLine
<1>7. ASSUME NEW u \in User, NEW now \in Now, ReleaseActive(u, now) PROVE TypeOK'
  BY <1>0, <1>7, ZRemType, JournalType DEF TypeOK, ReleaseActive
<1>8. ASSUME NEW now \in Now, Promote(now) PROVE TypeOK'
  <2>1. PICK S \in SUBSET DOMAIN waiting :
          /\ active' = ZAdd(active, S, now)
          /\ LeaveLine(S)
          /\ pending' = JournalAdmit(S, "PROMOTE", now)
          /\ promotedCount' = promotedCount + Cardinality(S)
          /\ UNCHANGED <<clock, activeMovies, waitingMovies>>
    BY <1>8 DEF Promote
  <2>2. S \subseteq User /\ IsFiniteSet(S)
    BY FS_Subset DEF TypeOK, IsSortedSet
  <2>3. Cardinality(S) \in Nat
    BY <2>2, FS_CardinalityType
  <2> QED
    BY <1>0, <2>1, <2>2, <2>3, ZAddType, ZRemType, JournalType DEF TypeOK, LeaveLine
<1>9. ASSUME NEW now \in Now, ExpireActive(now) PROVE TypeOK'
  <2>1. PICK S \in SUBSET DOMAIN active :
          /\ active' = ZRem(active, S)
          /\ pending' = JournalRevoke(S, "SESSION_TIMEOUT", now)
          /\ UNCHANGED <<clock, waiting, lastseen, promotedCount, activeMovies,
                         waitingMovies>>
    BY <1>9 DEF ExpireActive
  <2>2. S \subseteq User
    BY DEF TypeOK, IsSortedSet
  <2> QED
    BY <1>0, <2>1, <2>2, ZRemType, JournalType DEF TypeOK
<1>10. ASSUME NEW now \in Now, ExpireWaiting(now) PROVE TypeOK'
  BY <1>10, ZRemType DEF TypeOK, ExpireWaiting, LeaveLine
<1>11. ASSUME NEW u \in User, CompleteActive(u) PROVE TypeOK'
  BY <1>11, ZRemType, JournalType DEF TypeOK, CompleteActive
<1>12. ASSUME NEW N \in SUBSET DOMAIN pending, ClearPending(N) PROVE TypeOK'
  BY <1>12, ZRemType DEF TypeOK, ClearPending
<1>13. CASE UntrackIfIdle
  BY <1>13 DEF TypeOK, UntrackIfIdle
<1>14. CASE Tick
  BY <1>14 DEF TypeOK, Tick
<1>15. CASE UNCHANGED vars
  BY <1>15 DEF TypeOK, vars
<1> QED
  BY <1>1, <1>2, <1>3, <1>4, <1>5, <1>6, <1>7, <1>8, <1>9, <1>10, <1>11, <1>12,
     <1>13, <1>14, <1>15 DEF Next, UserStep, LoopStep

\* Type correctness of every reachable state (the scripts, the two tracking
\* sets and the clock a pod reads).
THEOREM TypeCorrect == Spec => []TypeOK
<1>1. Init => TypeOK
  <2> SUFFICES ASSUME Init PROVE TypeOK
    OBVIOUS
  <2>1. \A M : IsSortedSet(EmptySortedSet, M)
    BY EmptyType
  <2> QED
    BY <2>1 DEF Init, TypeOK
<1>2. TypeOK /\ [Next]_vars => TypeOK'
  BY TypeStep
<1> QED
  BY <1>1, <1>2, PTL DEF Spec
------------------------------------------------------------------------------
\* How the domains move, for the invariants that only speak of members.
LEMMA Domains ==
  /\ DOMAIN EmptySortedSet = {}
  /\ \A z, S, k : DOMAIN ZAdd(z, S, k) = DOMAIN z \cup S
  /\ \A z, S : DOMAIN ZRem(z, S) = DOMAIN z \ S
BY DEF EmptySortedSet, ZAdd, ZRem

\* Every script leaves a user in one place.
LEMMA OnePlaceStep ==
  ASSUME OnePlace, [Next]_vars
  PROVE  OnePlace'
<1> USE DEF OnePlace, ZAdd, ZRem
<1>1. ASSUME NEW u \in User, EnterKept(u) PROVE OnePlace'
  BY <1>1 DEF EnterKept
<1>2. ASSUME NEW u \in User, NEW now \in Now, EnterRequeued(u, now) PROVE OnePlace'
  BY <1>2 DEF EnterRequeued, JoinLine
<1>3. ASSUME NEW u \in User, NEW now \in Now, EnterAdmitted(u, now) PROVE OnePlace'
  BY <1>3 DEF EnterAdmitted
<1>4. ASSUME NEW u \in User, NEW now \in Now, EnterQueued(u, now) PROVE OnePlace'
  BY <1>4 DEF EnterQueued, JoinLine
<1>5. ASSUME NEW u \in User, NEW now \in Now, Position(u, now) PROVE OnePlace'
  BY <1>5 DEF Position
<1>6. ASSUME NEW u \in User, NEW now \in Now, Leave(u, now) PROVE OnePlace'
  BY <1>6 DEF Leave, LeaveLine
<1>7. ASSUME NEW u \in User, NEW now \in Now, ReleaseActive(u, now) PROVE OnePlace'
  BY <1>7 DEF ReleaseActive
<1>8. ASSUME NEW now \in Now, Promote(now) PROVE OnePlace'
  BY <1>8 DEF Promote, LeaveLine
<1>9. ASSUME NEW now \in Now, ExpireActive(now) PROVE OnePlace'
  BY <1>9 DEF ExpireActive
<1>10. ASSUME NEW now \in Now, ExpireWaiting(now) PROVE OnePlace'
  BY <1>10 DEF ExpireWaiting, LeaveLine
<1>11. ASSUME NEW u \in User, CompleteActive(u) PROVE OnePlace'
  BY <1>11 DEF CompleteActive
<1>12. ASSUME NEW N \in SUBSET DOMAIN pending, ClearPending(N) PROVE OnePlace'
  BY <1>12 DEF ClearPending
<1>13. CASE UntrackIfIdle \/ Tick \/ UNCHANGED vars
  BY <1>13 DEF UntrackIfIdle, Tick, vars
<1> QED
  BY <1>1, <1>2, <1>3, <1>4, <1>5, <1>6, <1>7, <1>8, <1>9, <1>10, <1>11, <1>12,
     <1>13 DEF Next, UserStep, LoopStep

\* No set of scripts puts a user into the line and into a seat at once.
THEOREM OnePlaceHolds == Spec => []OnePlace
<1>1. Init => OnePlace
  BY Domains DEF Init, OnePlace
<1>2. OnePlace /\ [Next]_vars => OnePlace'
  BY OnePlaceStep
<1> QED
  BY <1>1, <1>2, PTL DEF Spec

\* waiting and waiting_lastseen keep the same members under every script.
THEOREM SeenIffWaitingHolds == Spec => []SeenIffWaiting
<1>1. Init => SeenIffWaiting
  BY DEF Init, SeenIffWaiting
<1>2. SeenIffWaiting /\ [Next]_vars => SeenIffWaiting'
  <2> SUFFICES ASSUME SeenIffWaiting, [Next]_vars PROVE SeenIffWaiting'
    OBVIOUS
  <2> USE DEF SeenIffWaiting, ZAdd, ZRem
  <2>1. ASSUME NEW u \in User, NEW now \in Now,
               \/ EnterRequeued(u, now)
               \/ EnterQueued(u, now)
        PROVE  SeenIffWaiting'
    BY <2>1 DEF EnterRequeued, EnterQueued, JoinLine
  <2>2. ASSUME NEW u \in User, NEW now \in Now, Position(u, now) PROVE SeenIffWaiting'
    BY <2>2 DEF Position
  <2>3. ASSUME NEW u \in User, NEW now \in Now, Leave(u, now) PROVE SeenIffWaiting'
    BY <2>3 DEF Leave, LeaveLine
  <2>4. ASSUME NEW now \in Now, Promote(now) PROVE SeenIffWaiting'
    BY <2>4 DEF Promote, LeaveLine
  <2>5. ASSUME NEW now \in Now, ExpireWaiting(now) PROVE SeenIffWaiting'
    BY <2>5 DEF ExpireWaiting, LeaveLine
  <2>6. ASSUME UNCHANGED <<waiting, lastseen>> PROVE SeenIffWaiting'
    BY <2>6
  <2>7. ASSUME NEW u \in User, EnterKept(u) PROVE UNCHANGED <<waiting, lastseen>>
    BY <2>7 DEF EnterKept
  <2>8. ASSUME NEW u \in User, NEW now \in Now,
               EnterAdmitted(u, now) \/ ReleaseActive(u, now)
        PROVE  UNCHANGED <<waiting, lastseen>>
    BY <2>8 DEF EnterAdmitted, ReleaseActive
  <2>9. ASSUME NEW now \in Now, ExpireActive(now) PROVE UNCHANGED <<waiting, lastseen>>
    BY <2>9 DEF ExpireActive
  <2>10. ASSUME NEW u \in User, CompleteActive(u) PROVE UNCHANGED <<waiting, lastseen>>
    BY <2>10 DEF CompleteActive
  <2>11. ASSUME NEW N \in SUBSET DOMAIN pending, ClearPending(N)
         PROVE  UNCHANGED <<waiting, lastseen>>
    BY <2>11 DEF ClearPending
  <2>12. CASE UntrackIfIdle \/ Tick \/ UNCHANGED vars
    BY <2>6, <2>12 DEF UntrackIfIdle, Tick, vars
  <2> QED
    BY <2>1, <2>2, <2>3, <2>4, <2>5, <2>6, <2>7, <2>8, <2>9, <2>10, <2>11, <2>12
       DEF Next, UserStep, LoopStep
<1> QED
  BY <1>1, <1>2, PTL DEF Spec
------------------------------------------------------------------------------
\* A movie that somebody needs is in the sets the loops go through.
THEOREM TrackedWhileBusyHolds == Spec => []TrackedWhileBusy
<1>1. Init => TrackedWhileBusy
  BY DEF Init, TrackedWhileBusy, Idle, EmptySortedSet
<1>2. TrackedWhileBusy /\ [Next]_vars => TrackedWhileBusy'
  <2> SUFFICES ASSUME TrackedWhileBusy, [Next]_vars PROVE TrackedWhileBusy'
    OBVIOUS
  <2>1. ASSUME UNCHANGED <<activeMovies, waitingMovies>>, Idle => Idle',
               DOMAIN waiting' \subseteq DOMAIN waiting
        PROVE  TrackedWhileBusy'
    BY <2>1 DEF TrackedWhileBusy, Idle
  <2>2. ASSUME activeMovies' = TRUE, UNCHANGED waitingMovies,
               DOMAIN waiting' \subseteq DOMAIN waiting
        PROVE  TrackedWhileBusy'
    BY <2>2 DEF TrackedWhileBusy
  <2>3. ASSUME activeMovies' = TRUE, waitingMovies' = TRUE PROVE TrackedWhileBusy'
    BY <2>3 DEF TrackedWhileBusy
  <2> USE DEF ZAdd, ZRem, Idle
  <2>4. ASSUME NEW u \in User, EnterKept(u) PROVE TrackedWhileBusy'
    BY <2>2, <2>4 DEF EnterKept
  <2>5. ASSUME NEW u \in User, NEW now \in Now,
               EnterRequeued(u, now) \/ EnterQueued(u, now)
        PROVE  TrackedWhileBusy'
    BY <2>3, <2>5 DEF EnterRequeued, EnterQueued, JoinLine
  <2>6. ASSUME NEW u \in User, NEW now \in Now, EnterAdmitted(u, now)
        PROVE  TrackedWhileBusy'
    BY <2>2, <2>6 DEF EnterAdmitted
  <2>7. ASSUME NEW u \in User, NEW now \in Now, Position(u, now)
        PROVE  TrackedWhileBusy'
    BY <2>1, <2>7 DEF Position
  <2>8. ASSUME NEW u \in User, NEW now \in Now, Leave(u, now)
        PROVE  TrackedWhileBusy'
    BY <2>1, <2>8 DEF Leave, LeaveLine
  <2>9. ASSUME NEW u \in User, NEW now \in Now, ReleaseActive(u, now)
        PROVE  TrackedWhileBusy'
    BY <2>1, <2>9 DEF ReleaseActive
  <2>10. ASSUME NEW now \in Now, Promote(now) PROVE TrackedWhileBusy'
    BY <2>1, <2>10 DEF Promote, LeaveLine
  <2>11. ASSUME NEW now \in Now, ExpireActive(now) PROVE TrackedWhileBusy'
    BY <2>1, <2>11 DEF ExpireActive
  <2>12. ASSUME NEW now \in Now, ExpireWaiting(now) PROVE TrackedWhileBusy'
    BY <2>1, <2>12 DEF ExpireWaiting, LeaveLine
  <2>13. ASSUME NEW u \in User, CompleteActive(u) PROVE TrackedWhileBusy'
    BY <2>1, <2>13 DEF CompleteActive
  <2>14. ASSUME NEW N \in SUBSET DOMAIN pending, ClearPending(N)
         PROVE  TrackedWhileBusy'
    BY <2>1, <2>14 DEF ClearPending
  <2>15. CASE UntrackIfIdle
    BY <2>15 DEF UntrackIfIdle, TrackedWhileBusy
  <2>16. CASE Tick \/ UNCHANGED vars
    BY <2>1, <2>16 DEF Tick, vars
  <2> QED
    BY <2>4, <2>5, <2>6, <2>7, <2>8, <2>9, <2>10, <2>11, <2>12, <2>13, <2>14, <2>15,
       <2>16 DEF Next, UserStep, LoopStep
<1> QED
  BY <1>1, <1>2, PTL DEF Spec
------------------------------------------------------------------------------
(* Capacity: the type invariant makes the sets finite.                       *)

\* With finitely many users, finitely many hold a seat.
LEMMA SeatsAreFinite ==
  ASSUME TypeOK
  PROVE  IsFiniteSet(DOMAIN active) /\ ZCard(active) \in Nat
BY FS_Subset, FS_CardinalityType DEF TypeOK, IsSortedSet, ZCard

\* Fewer seats are taken after a ZREM.
LEMMA FewerSeats ==
  ASSUME TypeOK, CapacityHeld, DOMAIN active' \subseteq DOMAIN active
  PROVE  CapacityHeld'
<1>1. IsFiniteSet(DOMAIN active) /\ Cardinality(DOMAIN active) <= MaxSessions
  BY SeatsAreFinite DEF CapacityHeld, ZCard
<1>2. /\ IsFiniteSet(DOMAIN active')
      /\ Cardinality(DOMAIN active') <= Cardinality(DOMAIN active)
  BY <1>1, FS_Subset
<1>3. Cardinality(DOMAIN active) \in Nat /\ Cardinality(DOMAIN active') \in Nat
  BY <1>1, <1>2, FS_CardinalityType
<1> QED
  BY <1>1, <1>2, <1>3 DEF CapacityHeld, ZCard, QueueStoreAssumption

\* n new members of a finite set add at most n.
LEMMA AddAtMost ==
  ASSUME NEW A, NEW B, IsFiniteSet(A), IsFiniteSet(B)
  PROVE  /\ Cardinality(A) \in Nat /\ Cardinality(B) \in Nat
         /\ Cardinality(A \cup B) \in Nat
         /\ Cardinality(A \cup B) <= Cardinality(A) + Cardinality(B)
<1>1. IsFiniteSet(A \cup B) /\ IsFiniteSet(A \cap B)
  BY FS_Union, FS_Intersection
<1>2. Cardinality(A \cup B)
        = Cardinality(A) + Cardinality(B) - Cardinality(A \cap B)
  BY FS_Union
<1>3. /\ Cardinality(A) \in Nat /\ Cardinality(B) \in Nat
      /\ Cardinality(A \cup B) \in Nat /\ Cardinality(A \cap B) \in Nat
  BY <1>1, FS_CardinalityType
<1> QED
  BY <1>2, <1>3

\* MAX_SESSIONS is never exceeded, for any interleaving of any number of pods.
THEOREM CapacityHolds == Spec => []CapacityHeld
<1>1. Init => CapacityHeld
  <2> SUFFICES ASSUME Init PROVE CapacityHeld
    OBVIOUS
  <2>1. DOMAIN active = {}
    BY DEF Init, EmptySortedSet
  <2> QED
    BY <2>1, FS_EmptySet DEF CapacityHeld, ZCard, QueueStoreAssumption
<1>2. TypeOK /\ CapacityHeld /\ [Next]_vars => CapacityHeld'
  <2> SUFFICES ASSUME TypeOK, CapacityHeld, [Next]_vars PROVE CapacityHeld'
    OBVIOUS
  <2>1. ASSUME NEW u \in User, NEW now \in Now, EnterAdmitted(u, now)
        PROVE  CapacityHeld'
    <3>1. DOMAIN active' = DOMAIN active \cup {u}
      BY <2>1 DEF EnterAdmitted, ZAdd
    <3>2. ZCard(active) + 1 <= MaxSessions
      BY <2>1, SeatsAreFinite DEF EnterAdmitted, Vacant, QueueStoreAssumption
    <3>3. IsFiniteSet({u}) /\ Cardinality({u}) = 1
      BY FS_Singleton
    <3> QED
      BY <3>1, <3>2, <3>3, SeatsAreFinite, AddAtMost
      DEF CapacityHeld, ZCard, QueueStoreAssumption
  <2>2. ASSUME NEW now \in Now, Promote(now) PROVE CapacityHeld'
    <3>1. PICK S \in SUBSET DOMAIN waiting :
            /\ IsHead(S, waiting, IF Batch < Vacant THEN Batch ELSE Vacant)
            /\ active' = ZAdd(active, S, now)
      BY <2>2 DEF Promote
    <3>2. DOMAIN active' = DOMAIN active \cup S
      BY <3>1 DEF ZAdd
    <3>3. IsFiniteSet(S) /\ Cardinality(S) \in Nat
      BY FS_Subset, FS_CardinalityType DEF TypeOK, IsSortedSet, QueueStoreAssumption
    <3>4. ZCard(active) + Cardinality(S) <= MaxSessions
      BY <3>1, <3>3, SeatsAreFinite DEF IsHead, Vacant, QueueStoreAssumption
    <3> QED
      BY <3>2, <3>3, <3>4, SeatsAreFinite, AddAtMost
      DEF CapacityHeld, ZCard, QueueStoreAssumption
  <2> USE DEF ZRem
  <2>3. ASSUME NEW u \in User, EnterKept(u) PROVE CapacityHeld'
    BY <2>3, FewerSeats DEF EnterKept
  <2>4. ASSUME NEW u \in User, NEW now \in Now,
               \/ EnterRequeued(u, now) \/ EnterQueued(u, now) \/ Position(u, now)
        PROVE  CapacityHeld'
    BY <2>4, FewerSeats DEF EnterRequeued, EnterQueued, Position
  <2>5. ASSUME NEW u \in User, NEW now \in Now,
               Leave(u, now) \/ ReleaseActive(u, now)
        PROVE  CapacityHeld'
    BY <2>5, FewerSeats DEF Leave, ReleaseActive
  <2>6. ASSUME NEW now \in Now, ExpireActive(now) \/ ExpireWaiting(now)
        PROVE  CapacityHeld'
    BY <2>6, FewerSeats DEF ExpireActive, ExpireWaiting
  <2>7. ASSUME NEW u \in User, CompleteActive(u) PROVE CapacityHeld'
    BY <2>7, FewerSeats DEF CompleteActive
  <2>8. ASSUME NEW N \in SUBSET DOMAIN pending, ClearPending(N) PROVE CapacityHeld'
    BY <2>8, FewerSeats DEF ClearPending
  <2>9. CASE UntrackIfIdle \/ Tick \/ UNCHANGED vars
    BY <2>9, FewerSeats DEF UntrackIfIdle, Tick, vars
  <2> QED
    BY <2>1, <2>2, <2>3, <2>4, <2>5, <2>6, <2>7, <2>8, <2>9
       DEF Next, UserStep, LoopStep
<1> QED
  BY <1>1, <1>2, TypeCorrect, PTL DEF Spec
------------------------------------------------------------------------------
(* The journal and the seats.                                                *)

\* An admission notice of the journal is one that Admits lists.
LEMMA AdmitNotices ==
  ASSUME TypeOK, NEW n \in DOMAIN pending, n.kind = "A", NEW S, n.user \in S
  PROVE  n \in Admits(S)
<1>1. n \in Contract!AdmitNotice
  BY DEF TypeOK, IsSortedSet, Notice, Contract!Notice, Contract!AdmitNotice,
     Contract!RevokeNotice
<1> QED
  BY <1>1 DEF Contract!AdmitNotice, Contract!AdmitReason, Admits

\* The journal of a loss announces no seat of those who lost one, and keeps the
\* announcements of everybody else.
LEMMA RevokedJournal ==
  ASSUME TypeOK, NEW S, NEW now, NEW reason,
         NEW journal \in {JournalRevoke(S, reason, now), ZRem(pending, Admits(S))},
         NEW n \in DOMAIN journal, n.kind = "A"
  PROVE  n \in DOMAIN pending /\ journal[n] = pending[n] /\ n.user \notin S
<1> DEFINE revokes == [kind : {"R"}, reason : {reason}, user : S]
<1>1. n \notin revokes
  OBVIOUS
<1>2. n \in DOMAIN pending \ Admits(S) /\ journal[n] = pending[n]
  BY <1>1 DEF JournalRevoke, ZAdd, ZRem
<1> QED
  BY <1>2, AdmitNotices

\* The journal of a grant announces the new seats, with their age, and what was
\* announced already.
LEMMA AdmittedJournal ==
  ASSUME NEW S, NEW now, NEW reason, NEW n \in DOMAIN JournalAdmit(S, reason, now)
  PROVE  \/ n.user \in S /\ JournalAdmit(S, reason, now)[n] = now
         \/ n \in DOMAIN pending /\ JournalAdmit(S, reason, now)[n] = pending[n]
BY DEF JournalAdmit, ZAdd

\* Every announcement that can still be published is about a seat that is held,
\* since the time the announcement says.
THEOREM AdmitNoticeMatchesSeatHolds == Spec => []AdmitNoticeMatchesSeat
<1>1. Init => AdmitNoticeMatchesSeat
  BY DEF Init, AdmitNoticeMatchesSeat, EmptySortedSet
<1>2. TypeOK /\ OnePlace /\ AdmitNoticeMatchesSeat /\ [Next]_vars
        => AdmitNoticeMatchesSeat'
  <2> SUFFICES ASSUME TypeOK, OnePlace, AdmitNoticeMatchesSeat, [Next]_vars,
                      NEW n \in DOMAIN pending', n.kind = "A"
               PROVE  n.user \in DOMAIN active' /\ pending'[n] = active'[n.user]
    BY DEF AdmitNoticeMatchesSeat
  <2> DEFINE Held == n.user \in DOMAIN active' /\ pending'[n] = active'[n.user]
  <2>1. ASSUME n \in DOMAIN pending, pending'[n] = pending[n],
               active' = active
        PROVE  Held
    BY <2>1 DEF AdmitNoticeMatchesSeat
  \* S takes seats nobody of S holds.
  <2>2. ASSUME NEW S, NEW reason, NEW now, S \cap DOMAIN active = {},
               active' = ZAdd(active, S, now), pending' = JournalAdmit(S, reason, now)
        PROVE  Held
    <3>1. CASE n.user \in S /\ pending'[n] = now
      BY <2>2, <3>1 DEF ZAdd
    <3>2. CASE n \in DOMAIN pending /\ pending'[n] = pending[n]
      BY <2>2, <3>2 DEF ZAdd, AdmitNoticeMatchesSeat
    <3> QED
      BY <2>2, <3>1, <3>2, AdmittedJournal
  \* S loses its seats.
  <2>3. ASSUME NEW S, NEW reason, NEW now, active' = ZRem(active, S),
               pending' \in {JournalRevoke(S, reason, now), ZRem(pending, Admits(S))}
        PROVE  Held
    <3>1. n \in DOMAIN pending /\ pending'[n] = pending[n] /\ n.user \notin S
      BY <2>3, RevokedJournal
    <3> QED
      BY <2>3, <3>1 DEF ZRem, AdmitNoticeMatchesSeat
  <2>4. ASSUME NEW u \in User, EnterKept(u) PROVE Held
    BY <2>1, <2>4 DEF EnterKept
  <2>5. ASSUME NEW u \in User, NEW now \in Now,
               \/ EnterRequeued(u, now) \/ EnterQueued(u, now) \/ Position(u, now)
        PROVE  Held
    BY <2>1, <2>5 DEF EnterRequeued, EnterQueued, Position
  <2>6. ASSUME NEW u \in User, NEW now \in Now, EnterAdmitted(u, now) PROVE Held
    BY <2>2, <2>6 DEF EnterAdmitted
  <2>7. ASSUME NEW u \in User, NEW now \in Now, Leave(u, now) PROVE Held
    BY <2>3, <2>7 DEF Leave
  <2>8. ASSUME NEW u \in User, NEW now \in Now, ReleaseActive(u, now) PROVE Held
    BY <2>3, <2>8 DEF ReleaseActive
  <2>9. ASSUME NEW now \in Now, Promote(now) PROVE Held
    <3>1. PICK S \in SUBSET DOMAIN waiting :
            active' = ZAdd(active, S, now) /\ pending' = JournalAdmit(S, "PROMOTE", now)
      BY <2>9 DEF Promote
    <3>2. S \cap DOMAIN active = {}
      BY DEF OnePlace
    <3> QED
      BY <2>2, <3>1, <3>2
  <2>10. ASSUME NEW now \in Now, ExpireActive(now) PROVE Held
    BY <2>3, <2>10 DEF ExpireActive
  <2>11. ASSUME NEW now \in Now, ExpireWaiting(now) PROVE Held
    BY <2>1, <2>11 DEF ExpireWaiting
  <2>12. ASSUME NEW u \in User, CompleteActive(u) PROVE Held
    BY <2>3, <2>12 DEF CompleteActive
  <2>13. ASSUME NEW N \in SUBSET DOMAIN pending, ClearPending(N) PROVE Held
    <3>1. n \in DOMAIN pending /\ pending'[n] = pending[n]
      BY <2>13 DEF ClearPending, ZRem
    <3> QED
      BY <2>1, <2>13, <3>1 DEF ClearPending
  <2>14. CASE UntrackIfIdle \/ Tick \/ UNCHANGED vars
    BY <2>1, <2>14 DEF UntrackIfIdle, Tick, vars
  <2> QED
    BY <2>4, <2>5, <2>6, <2>7, <2>8, <2>9, <2>10, <2>11, <2>12, <2>13, <2>14
       DEF Next, UserStep, LoopStep
<1> QED
  BY <1>1, <1>2, TypeCorrect, OnePlaceHolds, PTL DEF Spec
------------------------------------------------------------------------------
\* No request, poll or promotion of others changes the age of a seat.
THEOREM SeatAgeFixedHolds == Spec => SeatAgeFixed
<1> DEFINE AgeKept == \A u \in DOMAIN active \cap DOMAIN active' : active'[u] = active[u]
<1>1. OnePlace /\ [Next]_vars => AgeKept
  <2> SUFFICES ASSUME OnePlace, [Next]_vars PROVE AgeKept
    OBVIOUS
  <2>1. ASSUME NEW S, NEW now, S \cap DOMAIN active = {}, active' = ZAdd(active, S, now)
        PROVE  AgeKept
    BY <2>1 DEF ZAdd
  <2>2. ASSUME NEW S, active' = ZRem(active, S) PROVE AgeKept
    BY <2>2 DEF ZRem
  <2>3. ASSUME NEW u \in User, EnterKept(u) PROVE AgeKept
    BY <2>3 DEF EnterKept
  <2>4. ASSUME NEW u \in User, NEW now \in Now,
               \/ EnterRequeued(u, now) \/ EnterQueued(u, now) \/ Position(u, now)
        PROVE  AgeKept
    BY <2>4 DEF EnterRequeued, EnterQueued, Position
  <2>5. ASSUME NEW u \in User, NEW now \in Now, EnterAdmitted(u, now) PROVE AgeKept
    BY <2>1, <2>5 DEF EnterAdmitted
  <2>6. ASSUME NEW u \in User, NEW now \in Now,
               Leave(u, now) \/ ReleaseActive(u, now)
        PROVE  AgeKept
    BY <2>2, <2>6 DEF Leave, ReleaseActive
  <2>7. ASSUME NEW now \in Now, Promote(now) PROVE AgeKept
    BY <2>1, <2>7 DEF Promote, OnePlace
  <2>8. ASSUME NEW now \in Now, ExpireActive(now) PROVE AgeKept
    BY <2>2, <2>8 DEF ExpireActive
  <2>9. ASSUME NEW now \in Now, ExpireWaiting(now) PROVE AgeKept
    BY <2>9 DEF ExpireWaiting
  <2>10. ASSUME NEW u \in User, CompleteActive(u) PROVE AgeKept
    BY <2>2, <2>10 DEF CompleteActive
  <2>11. ASSUME NEW N \in SUBSET DOMAIN pending, ClearPending(N) PROVE AgeKept
    BY <2>11 DEF ClearPending
  <2>12. CASE UntrackIfIdle \/ Tick \/ UNCHANGED vars
    BY <2>12 DEF UntrackIfIdle, Tick, vars
  <2> QED
    BY <2>3, <2>4, <2>5, <2>6, <2>7, <2>8, <2>9, <2>10, <2>11, <2>12
       DEF Next, UserStep, LoopStep
<1>2. AgeKept => [AgeKept]_vars
  OBVIOUS
<1> QED
  BY <1>1, OnePlaceHolds, PTL DEF Spec, SeatAgeFixed
------------------------------------------------------------------------------
(* The refinement: every script is a step of the contract, or none.          *)

\* A journal of a grant owes what the contract says.
LEMMA OwedByGrant ==
  ASSUME NEW S, NEW now, NEW reason
  PROVE  DOMAIN JournalAdmit(S, reason, now)
           = DOMAIN pending \cup Contract!AdmitsFor(S, reason)
BY DEF JournalAdmit, ZAdd, Contract!AdmitsFor

\* A journal of a loss cancels and owes what the contract says.
LEMMA OwedByLoss ==
  ASSUME TypeOK, NEW S \in SUBSET User, NEW now, NEW reason
  PROVE  /\ DOMAIN JournalRevoke(S, reason, now)
              = (DOMAIN pending \ Contract!AdmitsOf(S)) \cup Contract!RevokesFor(S, reason)
         /\ DOMAIN ZRem(pending, Admits(S)) = DOMAIN pending \ Contract!AdmitsOf(S)
<1>1. Admits(S) = Contract!AdmitsOf(S)
  BY DEF Admits, Contract!AdmitsOf, Contract!AdmitNotice, Contract!AdmitReason
<1> QED
  BY <1>1 DEF JournalRevoke, ZAdd, ZRem, Contract!RevokesFor
\* A user without a seat has no announcement to cancel.
LEMMA NothingToCancel ==
  ASSUME TypeOK, AdmitNoticeMatchesSeat, NEW u \in User, u \notin DOMAIN active
  PROVE  DOMAIN ZRem(pending, Admits({u})) = DOMAIN pending
BY DEF AdmitNoticeMatchesSeat, Admits, ZRem

\* The contract counts as the scripts do.
LEMMA SameCount == \A S : Contract!Cardinality(S) = Cardinality(S)
BY DEF Contract!Cardinality, Cardinality

\* The scripts implement the AdmissionContract: what the queue grants, takes back
\* and owes to booking changes in one step, and in no other way.
THEOREM ContractImplemented == Spec => ImplementsContract
<1> DEFINE Inv == /\ TypeOK /\ CapacityHeld /\ OnePlace /\ SeenIffWaiting
                  /\ AdmitNoticeMatchesSeat
           CNext == [Contract!ContractNext]_(Contract!contractVars)
<1>1. Init => Contract!ContractInit
  BY DEF Init, Contract!ContractInit, EmptySortedSet
<1>2. Inv /\ Inv' /\ [Next]_vars => CNext
  <2> SUFFICES ASSUME Inv, Inv', [Next]_vars PROVE CNext
    OBVIOUS
  <2>0. /\ DOMAIN active \subseteq User /\ DOMAIN waiting \subseteq User
        /\ Cardinality(DOMAIN active) \in Nat
    BY SeatsAreFinite DEF TypeOK, IsSortedSet, ZCard
  <2>1. ASSUME DOMAIN active' = DOMAIN active, DOMAIN waiting' = DOMAIN waiting,
               DOMAIN pending' = DOMAIN pending
        PROVE  CNext
    BY <2>1 DEF Contract!contractVars
  <2>2. ASSUME NEW u \in User, EnterKept(u) PROVE CNext
    BY <2>1, <2>2 DEF EnterKept
  <2>3. ASSUME NEW u \in User, NEW now \in Now,
               EnterRequeued(u, now) \/ Position(u, now)
        PROVE  CNext
    BY <2>1, <2>3 DEF EnterRequeued, Position, JoinLine, ZAdd
  <2>4. ASSUME NEW u \in User, NEW now \in Now, EnterAdmitted(u, now) PROVE CNext
    <3>1. Cardinality(DOMAIN active) < MaxSessions
      BY <2>0, <2>4 DEF EnterAdmitted, Vacant, ZCard, QueueStoreAssumption
    <3>2. Contract!Admit(u)
      BY <2>4, <3>1, OwedByGrant, SameCount DEF EnterAdmitted, Contract!Admit, ZAdd
    <3> QED
      BY <3>2 DEF Contract!ContractNext
  <2>5. ASSUME NEW u \in User, NEW now \in Now, EnterQueued(u, now) PROVE CNext
    <3>1. Cardinality(DOMAIN active) >= MaxSessions
      BY <2>0, <2>5 DEF EnterQueued, Vacant, ZCard, QueueStoreAssumption
    <3>2. Contract!Join(u)
      BY <2>5, <3>1, SameCount DEF EnterQueued, JoinLine, Contract!Join, ZAdd
    <3> QED
      BY <3>2 DEF Contract!ContractNext
  <2>6. ASSUME NEW u \in User, u \in DOMAIN active, NEW now,
               NEW reason \in {"LEAVE", "COMPLETE"},
               active' = ZRem(active, {u}), DOMAIN waiting' = DOMAIN waiting,
               pending' = JournalRevoke({u}, reason, now)
        PROVE  CNext
    <3>1. Contract!Revoke({u}, reason)
      BY <2>6, OwedByLoss DEF Contract!Revoke, ZRem
    <3>2. {u} \in SUBSET User /\ reason \in Contract!RevokeReason
      BY DEF Contract!RevokeReason
    <3> QED
      BY <3>1, <3>2 DEF Contract!ContractNext
  <2>7. ASSUME NEW u \in User, NEW now \in Now, Leave(u, now) PROVE CNext
    <3>1. DOMAIN active' = DOMAIN active \ {u} /\ DOMAIN waiting' = DOMAIN waiting \ {u}
      BY <2>7 DEF Leave, LeaveLine, ZRem
    <3>2. CASE u \in DOMAIN active
      <4>1. DOMAIN waiting' = DOMAIN waiting
        BY <3>1, <3>2 DEF OnePlace
      <4> QED
        BY <2>6, <2>7, <3>2, <4>1 DEF Leave
    <3>3. CASE u \notin DOMAIN active /\ u \in DOMAIN waiting
      <4>1. DOMAIN pending' = DOMAIN pending
        BY <2>7, <3>3, NothingToCancel DEF Leave
      <4>2. Contract!Abandon({u})
        BY <3>1, <3>3, <4>1 DEF Contract!Abandon
      <4> QED
        BY <4>2 DEF Contract!ContractNext
    <3>4. CASE u \notin DOMAIN active /\ u \notin DOMAIN waiting
      <4>1. DOMAIN pending' = DOMAIN pending
        BY <2>7, <3>4, NothingToCancel DEF Leave
      <4> QED
        BY <2>1, <3>1, <3>4, <4>1
    <3> QED
      BY <3>2, <3>3, <3>4
  <2>8. ASSUME NEW u \in User, NEW now \in Now, ReleaseActive(u, now) PROVE CNext
    <3>1. CASE u \in DOMAIN active
      BY <2>6, <2>8, <3>1 DEF ReleaseActive
    <3>2. CASE u \notin DOMAIN active
      BY <2>1, <2>8, <3>2, NothingToCancel DEF ReleaseActive, ZRem
    <3> QED
      BY <3>1, <3>2
  <2>9. ASSUME NEW now \in Now, Promote(now) PROVE CNext
    <3>1. PICK S \in SUBSET DOMAIN waiting :
            /\ S # {}
            /\ active' = ZAdd(active, S, now)
            /\ LeaveLine(S)
            /\ pending' = JournalAdmit(S, "PROMOTE", now)
      BY <2>9 DEF Promote
    <3>2. DOMAIN active' = DOMAIN active \cup S /\ DOMAIN waiting' = DOMAIN waiting \ S
      BY <3>1 DEF ZAdd, ZRem, LeaveLine
    <3>3. Cardinality(DOMAIN active \cup S) <= MaxSessions
      BY <3>2 DEF CapacityHeld, ZCard
    <3>4. Contract!PromoteAll(S)
      BY <3>1, <3>2, <3>3, OwedByGrant, SameCount DEF Contract!PromoteAll
    <3> QED
      BY <2>0, <3>4 DEF Contract!ContractNext
  <2>10. ASSUME NEW now \in Now, ExpireActive(now) PROVE CNext
    <3>1. PICK S \in SUBSET DOMAIN active :
            /\ S # {}
            /\ active' = ZRem(active, S)
            /\ pending' = JournalRevoke(S, "SESSION_TIMEOUT", now)
            /\ UNCHANGED waiting
      BY <2>10 DEF ExpireActive
    <3>2. Contract!Revoke(S, "SESSION_TIMEOUT")
      BY <2>0, <3>1, OwedByLoss DEF Contract!Revoke, ZRem
    <3> QED
      BY <2>0, <3>2 DEF Contract!ContractNext, Contract!RevokeReason
  <2>11. ASSUME NEW now \in Now, ExpireWaiting(now) PROVE CNext
    <3>1. PICK S \in SUBSET DOMAIN lastseen :
            S # {} /\ LeaveLine(S) /\ UNCHANGED <<active, pending>>
      BY <2>11 DEF ExpireWaiting
    <3>2. Contract!Abandon(S)
      BY <3>1 DEF Contract!Abandon, LeaveLine, ZRem, SeenIffWaiting
    <3>3. S \in SUBSET User
      BY <2>0, <3>1 DEF SeenIffWaiting
    <3> QED
      BY <3>2, <3>3 DEF Contract!ContractNext
  <2>12. ASSUME NEW u \in User, CompleteActive(u) PROVE CNext
    <3>1. DOMAIN active' = DOMAIN active \ {u} /\ UNCHANGED waiting
      BY <2>12 DEF CompleteActive, ZRem
    <3>2. CASE u \in DOMAIN active
      <4>1. DOMAIN pending' = DOMAIN pending \ Contract!AdmitsOf({u})
        BY <2>12, OwedByLoss DEF CompleteActive
      <4>2. Contract!Finish(u)
        BY <3>1, <3>2, <4>1 DEF Contract!Finish
      <4> QED
        BY <4>2 DEF Contract!ContractNext
    <3>3. CASE u \notin DOMAIN active
      BY <2>1, <2>12, <3>1, <3>3, NothingToCancel DEF CompleteActive
    <3> QED
      BY <3>2, <3>3
  <2>13. ASSUME NEW N \in SUBSET DOMAIN pending, ClearPending(N) PROVE CNext
    <3>1. /\ DOMAIN pending' = DOMAIN pending \ N
          /\ UNCHANGED <<active, waiting>>
      BY <2>13 DEF ClearPending, ZRem
    <3>2. CASE N = {}
      BY <2>1, <3>1, <3>2
    <3>3. CASE N # {}
      BY <3>1, <3>3 DEF Contract!ContractNext, Contract!Discharge
    <3> QED
      BY <3>2, <3>3
  <2>14. CASE UntrackIfIdle \/ Tick \/ UNCHANGED vars
    BY <2>1, <2>14 DEF UntrackIfIdle, Tick, vars
  <2> QED
    BY <2>2, <2>3, <2>4, <2>5, <2>7, <2>8, <2>9, <2>10, <2>11, <2>12, <2>13, <2>14
       DEF Next, UserStep, LoopStep
<1> QED
  BY <1>1, <1>2, TypeCorrect, CapacityHolds, OnePlaceHolds, SeenIffWaitingHolds,
     AdmitNoticeMatchesSeatHolds, PTL
  DEF Spec, ImplementsContract, Contract!ContractSpec
==============================================================================
