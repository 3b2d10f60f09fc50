--------------------------- MODULE SeatSaleProofs ---------------------------
(***************************************************************************)
(* Proofs about SeatSale, for any number of users, seats, keys, confirms,  *)
(* selects and resets and any lock TTL.                                    *)
(***************************************************************************)
EXTENDS SeatSale, TLAPS

USE SeatSaleAssumption
------------------------------------------------------------------------------
(* Types, and a request for every confirm at work.                           *)

\* The inductive form of the type invariant.
WorkInv ==
  /\ SaleTypeOK
  /\ \A c \in Call : pc[c] \notin {"idle", "over"} => req[c] \in Request

\* The types of what the confirms have.
CallTypes ==
  /\ req \in [Call -> Request \cup {NoRequest}]
  /\ pc \in [Call -> Place]
  /\ \A c \in Call : pc[c] \notin {"idle", "over"} => req[c] \in Request

\* The types of the locks and their index.
LockTypes ==
  /\ DOMAIN lock \subseteq Seat
  /\ lock \in [DOMAIN lock -> [owner : User, left : 1 .. LockTTL]]
  /\ index \subseteq Seat

\* The types of the rows.
RowTypes ==
  /\ DOMAIN bookings \subseteq Key
  /\ bookings \in [DOMAIN bookings -> [id : Call, seats : SUBSET Seat]]

\* A confirm that goes on keeps its request; one that ends forgets it.
LEMMA GoesType ==
  ASSUME CallTypes, NEW c \in Call, NEW from \in Place \ {"idle"}, NEW to \in Place \ {"idle"},
         Goes(c, from, to), from # "over" \/ to = "over"
  PROVE  CallTypes'
<1>1. pc' = [pc EXCEPT ![c] = to] /\ pc[c] = from
  BY DEF Goes
<1>2. CASE to = "over"
  <2>1. req' = [req EXCEPT ![c] = NoRequest]
    BY <1>2 DEF Goes
  <2> QED
    BY <1>1, <1>2, <2>1 DEF CallTypes
<1>3. CASE to # "over"
  <2>1. req' = req
    BY <1>3 DEF Goes
  <2> QED
    BY <1>1, <1>3, <2>1 DEF CallTypes
<1> QED
  BY <1>2, <1>3

\* Locking, renewing and releasing seats keeps the types of locks.
LEMMA LocksType ==
  ASSUME LockTypes, NEW u \in User, NEW S \in SUBSET Seat
  PROVE  /\ LockAll(u, S) => LockTypes'
         /\ ReleaseMine(u, S) => LockTypes'
         /\ RenewMine(u, S) /\ index' = index => LockTypes'
<1>1. ASSUME LockAll(u, S) PROVE LockTypes'
  <2>1. /\ DOMAIN lock' = DOMAIN lock \cup S
        /\ \A s \in DOMAIN lock' : lock'[s] \in [owner : User, left : 1 .. LockTTL]
    BY <1>1 DEF LockAll, LockTypes
  <2>2. lock' = [s \in DOMAIN lock' |-> lock'[s]]
    BY <1>1 DEF LockAll
  <2> QED
    BY <1>1, <2>1, <2>2 DEF LockAll, LockTypes
<1>2. ASSUME ReleaseMine(u, S) PROVE LockTypes'
  BY <1>2 DEF ReleaseMine, LockTypes
<1>3. ASSUME RenewMine(u, S), index' = index PROVE LockTypes'
  <2>1. /\ DOMAIN lock' = DOMAIN lock
        /\ \A s \in DOMAIN lock' : lock'[s] \in [owner : User, left : 1 .. LockTTL]
    BY <1>3 DEF RenewMine, LockTypes
  <2>2. lock' = [s \in DOMAIN lock' |-> lock'[s]]
    BY <1>3 DEF RenewMine
  <2> QED
    BY <1>3, <2>1, <2>2 DEF LockTypes
<1> QED
  BY <1>1, <1>2, <1>3

\* So do time and the reset.
LEMMA TickType ==
  ASSUME LockTypes
  PROVE  (Tick => LockTypes') /\ (ResetDeletes => LockTypes')
<1>1. ASSUME Tick PROVE LockTypes'
  <2>1. /\ DOMAIN lock' \subseteq DOMAIN lock
        /\ \A s \in DOMAIN lock' : lock'[s] \in [owner : User, left : 1 .. LockTTL]
    <3>1. /\ DOMAIN lock' \subseteq DOMAIN lock
          /\ \A s \in DOMAIN lock' : lock[s].left > 1 /\ lock'[s] = [lock[s] EXCEPT !.left = @ - 1]
      BY <1>1 DEF Tick
    <3> QED
      BY <3>1 DEF LockTypes
  <2>2. lock' = [s \in DOMAIN lock' |-> lock'[s]]
    BY <1>1 DEF Tick
  <2> QED
    BY <1>1, <2>1, <2>2 DEF Tick, LockTypes
<1>2. ASSUME ResetDeletes PROVE LockTypes'
  BY <1>2 DEF ResetDeletes, LockTypes
<1> QED
  BY <1>1, <1>2

\* New rows are rows.
LEMMA RowType ==
  ASSUME RowTypes, NEW c \in Call, req[c] \in Request, bookings' = Row(c)
  PROVE  RowTypes'
<1>1. req[c].key \in Key /\ req[c].seats \in SUBSET Seat
  BY DEF Request
<1>2. /\ DOMAIN bookings' = DOMAIN bookings \cup {req[c].key}
      /\ \A k \in DOMAIN bookings' : bookings'[k] \in [id : Call, seats : SUBSET Seat]
  BY <1>1 DEF Row, RowTypes
<1>3. bookings' = [k \in DOMAIN bookings' |-> bookings'[k]]
  BY DEF Row
<1> QED
  BY <1>1, <1>2, <1>3 DEF RowTypes

\* What a step of a confirm, of anybody, can be.
CallSteps(c) ==
  \/ \E r \in Request : Arrive(c, r) \/ ArriveAgain(c, r)
  \/ CheckSold(c) \/ Renew(c) \/ Refuse(c) \/ Approve(c)
  \/ Persists(c) \/ PersistsUnheard(c) \/ PersistFails(c) \/ PersistClashes(c)
  \/ Recheck(c) \/ Refund(c)
  \/ Unlock(c) \/ Die(c)

\* The other steps.
OtherSteps == UserStep \/ SelectStep \/ ResetStep \/ Look \/ Tick

\* They are all there are.
LEMMA Split == Next => (OtherSteps \/ \E c \in Call : CallSteps(c)) /\ Watch
BY DEF Next, OtherSteps, CallStep, CallSteps

\* The confirms are moved by their own steps alone.
LEMMA OthersStay == OtherSteps => UNCHANGED callVars
<1>1. ASSUME NEW u \in User, NEW S \in SUBSET Seat \ {{}}, SelectChecks(u, S) \/ Release(u, S)
      PROVE  UNCHANGED callVars
  BY <1>1 DEF SelectChecks, Release
<1>2. ASSUME NEW x \in selecting, SelectLocks(x) \/ SelectTaken(x)
      PROVE  UNCHANGED callVars
  BY <1>2 DEF SelectLocks, SelectTaken
<1>3. ASSUME ResetStep PROVE UNCHANGED callVars
  BY <1>3 DEF ResetStep, ResetReads, ResetDeletes, ResetCommits, ResetFails
<1>4. ASSUME Look \/ Tick PROVE UNCHANGED callVars
  BY <1>4 DEF Look, Tick
<1> QED
  BY <1>1, <1>2, <1>3, <1>4 DEF OtherSteps, UserStep, SelectStep

\* A confirm's step moves that confirm.
LEMMA OneMoves ==
  ASSUME CallTypes, NEW c \in Call, CallSteps(c)
  PROVE  /\ CallTypes'
         /\ \A d \in Call \ {c} : pc'[d] = pc[d] /\ req'[d] = req[d]
         /\ \/ pc[c] = "idle" /\ pc'[c] \in {"asked", "replayed", "over"}
            \/ pc[c] # "idle" /\ pc'[c] = "over"
            \/ pc[c] # "idle" /\ pc'[c] # "over" /\ req'[c] = req[c]
<1> DEFINE Good == /\ CallTypes'
                   /\ \A d \in Call \ {c} : pc'[d] = pc[d] /\ req'[d] = req[d]
                   /\ \/ pc[c] = "idle" /\ pc'[c] \in {"asked", "replayed", "over"}
                      \/ pc[c] # "idle" /\ pc'[c] = "over"
                      \/ pc[c] # "idle" /\ pc'[c] # "over" /\ req'[c] = req[c]
<1>1. ASSUME NEW r \in Request, Arrive(c, r) \/ ArriveAgain(c, r) PROVE Good
  BY <1>1 DEF Arrive, ArriveAgain, Answer, CallTypes, Place
<1>2. ASSUME NEW from \in Place \ {"idle"}, NEW to \in Place \ {"idle"}, from # "over",
             Goes(c, from, to)
      PROVE  Good
  <2>1. CallTypes'
    BY <1>2, GoesType
  <2>2. /\ pc' = [pc EXCEPT ![c] = to] /\ pc[c] = from
        /\ req' = IF to = "over" THEN [req EXCEPT ![c] = NoRequest] ELSE req
    BY <1>2 DEF Goes
  <2> QED
    BY <1>2, <2>1, <2>2 DEF CallTypes
<1> USE DEF Place, HasMoney
<1>3. ASSUME CheckSold(c) \/ Renew(c) \/ Refuse(c) \/ Approve(c) PROVE Good
  BY <1>2, <1>3 DEF CheckSold, Renew, Refuse, Approve
<1>4. ASSUME Persists(c) \/ PersistsUnheard(c) \/ PersistFails(c) \/ PersistClashes(c) PROVE Good
  BY <1>2, <1>4 DEF Persists, PersistsUnheard, PersistFails, PersistClashes
<1>5. ASSUME Recheck(c) PROVE Good
  BY <1>2, <1>5 DEF Recheck, Answer
<1>6. ASSUME Refund(c) \/ Die(c) PROVE Good
  BY <1>2, <1>6 DEF Refund, Die
<1>7. ASSUME Unlock(c) PROVE Good
  BY <1>2, <1>7 DEF Unlock
<1> QED
  BY <1>1, <1>3, <1>4, <1>5, <1>6, <1>7 DEF CallSteps

\* The steps that write rows.
Stores(c) == Persists(c) \/ PersistsUnheard(c)

\* Who changes what.
LEMMA WhoMoves ==
  ASSUME Next
  PROVE  /\ UNCHANGED bookings \/ ResetCommits \/ \E c \in Call : Stores(c)
         /\ UNCHANGED held \/ \E c \in Call : Approve(c) \/ Refund(c)
         /\ UNCHANGED resetVars \/ ResetStep
         /\ UNCHANGED historyVars \/ ResetCommits \/ \E c \in Call : Refund(c) \/ Die(c)
         /\ UNCHANGED selecting \/ SelectStep
              \/ \E u \in User, S \in SUBSET Seat \ {{}} : SelectChecks(u, S)
         /\ \/ UNCHANGED <<lock, index>> \/ Look \/ Tick \/ ResetDeletes
            \/ \E x \in selecting : SelectLocks(x)
            \/ \E u \in User, S \in SUBSET Seat \ {{}} : Release(u, S)
            \/ \E c \in Call : Renew(c) \/ Unlock(c)
<1> DEFINE Good ==
      /\ UNCHANGED bookings \/ ResetCommits \/ \E c \in Call : Stores(c)
      /\ UNCHANGED held \/ \E c \in Call : Approve(c) \/ Refund(c)
      /\ UNCHANGED resetVars \/ ResetStep
      /\ UNCHANGED historyVars \/ ResetCommits \/ \E c \in Call : Refund(c) \/ Die(c)
      /\ UNCHANGED selecting \/ SelectStep
           \/ \E u \in User, S \in SUBSET Seat \ {{}} : SelectChecks(u, S)
      /\ \/ UNCHANGED <<lock, index>> \/ Look \/ Tick \/ ResetDeletes
         \/ \E x \in selecting : SelectLocks(x)
         \/ \E u \in User, S \in SUBSET Seat \ {{}} : Release(u, S)
         \/ \E c \in Call : Renew(c) \/ Unlock(c)
<1> USE DEF redisVars
<1>1. ASSUME NEW u \in User, NEW S \in SUBSET Seat \ {{}}, SelectChecks(u, S) \/ Release(u, S)
      PROVE  Good
  BY <1>1 DEF SelectChecks, Release
<1>2. ASSUME NEW x \in selecting, SelectLocks(x) \/ SelectTaken(x)
      PROVE  Good
  BY <1>2 DEF SelectLocks, SelectTaken, SelectStep
<1>3. ASSUME ResetStep PROVE Good
  BY <1>3 DEF ResetStep, ResetReads, ResetDeletes, ResetCommits, ResetFails
<1>4. ASSUME Look \/ Tick PROVE Good
  BY <1>4 DEF Look, Tick
<1>5. ASSUME NEW c \in Call, NEW r \in Request, Arrive(c, r) \/ ArriveAgain(c, r) PROVE Good
  BY <1>5 DEF Arrive, ArriveAgain
<1>6. ASSUME NEW c \in Call, CheckSold(c) \/ Refuse(c) \/ PersistFails(c) \/ PersistClashes(c)
             \/ Recheck(c)
      PROVE  Good
  BY <1>6 DEF CheckSold, Refuse, PersistFails, PersistClashes, Recheck
<1>7. ASSUME NEW c \in Call, Stores(c) PROVE Good
  BY <1>7 DEF Stores, Persists, PersistsUnheard
<1>8. ASSUME NEW c \in Call, Approve(c) \/ Renew(c) \/ Unlock(c) PROVE Good
  BY <1>8 DEF Approve, Renew, Unlock
<1>9. ASSUME NEW c \in Call, Refund(c) \/ Die(c) PROVE Good
  BY <1>9 DEF Refund, Die
<1> QED
  BY <1>1, <1>2, <1>3, <1>4, <1>5, <1>6, <1>7, <1>8, <1>9, Split
     DEF OtherSteps, CallSteps, UserStep, SelectStep, Stores

\* Every step keeps the types.
LEMMA WorkStep ==
  ASSUME WorkInv, [Next]_vars
  PROVE  WorkInv'
<1> USE DEF WorkInv, SaleTypeOK
<1>0. CallTypes /\ LockTypes /\ RowTypes
  BY DEF CallTypes, LockTypes, RowTypes
<1>1. CASE Next
  <2>1. CallTypes'
    <3>1. CASE OtherSteps
      BY <1>0, <3>1, OthersStay DEF callVars, CallTypes
    <3>2. ASSUME NEW c \in Call, CallSteps(c) PROVE CallTypes'
      BY <1>0, <3>2, OneMoves
    <3> QED
      BY <1>1, <3>1, <3>2, Split
  <2>2. LockTypes'
    <3>1. CASE UNCHANGED <<lock, index>>
      BY <1>0, <3>1 DEF LockTypes
    <3>2. CASE Look
      BY <1>0, <3>2 DEF Look, LockTypes
    <3>3. CASE Tick \/ ResetDeletes
      BY <1>0, <3>3, TickType
    <3>4. ASSUME NEW x \in selecting, SelectLocks(x) PROVE LockTypes'
      <4>1. x.user \in User /\ x.seats \in SUBSET Seat
        OBVIOUS
      <4> QED
        BY <1>0, <3>4, <4>1, LocksType DEF SelectLocks
    <3>5. ASSUME NEW u \in User, NEW S \in SUBSET Seat \ {{}}, Release(u, S) PROVE LockTypes'
      BY <1>0, <3>5, LocksType DEF Release
    <3>6. ASSUME NEW c \in Call, Renew(c) \/ Unlock(c) PROVE LockTypes'
      <4>1. req[c] \in Request
        BY <3>6 DEF Renew, Unlock, Goes
      <4>2. req[c].key.user \in User /\ req[c].seats \in SUBSET Seat
        BY <4>1 DEF Request, Key
      <4>3. CASE Renew(c)
        BY <1>0, <4>2, <4>3, LocksType DEF Renew
      <4>4. CASE Unlock(c)
        BY <1>0, <3>1, <4>2, <4>4, LocksType DEF Unlock
      <4> QED
        BY <3>6, <4>3, <4>4
    <3> QED
      BY <1>1, <3>1, <3>2, <3>3, <3>4, <3>5, <3>6, WhoMoves
  <2>3. RowTypes'
    <3>1. CASE UNCHANGED bookings
      BY <1>0, <3>1 DEF RowTypes
    <3>2. CASE ResetCommits
      BY <3>2 DEF ResetCommits, RowTypes
    <3>3. ASSUME NEW c \in Call, Stores(c) PROVE RowTypes'
      <4>1. req[c] \in Request
        BY <3>3 DEF Stores, Persists, PersistsUnheard, Goes
      <4> QED
        BY <1>0, <3>3, <4>1, RowType DEF Stores, Persists, PersistsUnheard
    <3> QED
      BY <1>1, <3>1, <3>2, <3>3, WhoMoves
  <2>4. held' \subseteq Key
    <3>1. ASSUME NEW c \in Call, Approve(c) PROVE held' \subseteq Key
      BY <3>1 DEF Approve, Goes, Request
    <3>2. ASSUME NEW c \in Call, Refund(c) PROVE held' \subseteq Key
      BY <3>2 DEF Refund
    <3> QED
      BY <1>1, <3>1, <3>2, WhoMoves
  <2>5. reset' \in [at : {"none", "read", "cleared"}, found : SUBSET Seat] /\ resets' \in Nat
    <3>1. CASE UNCHANGED resetVars
      BY <3>1 DEF resetVars
    <3>2. CASE ResetStep
      BY <3>2 DEF ResetStep, ResetReads, ResetDeletes, ResetCommits, ResetFails
    <3> QED
      BY <1>1, <3>1, <3>2, WhoMoves
  <2>6. disputed' \subseteq Key /\ deserted' \subseteq Key /\ wiped' \subseteq Key
    <3>1. CASE UNCHANGED historyVars
      BY <3>1 DEF historyVars
    <3>2. CASE ResetCommits
      <4>1. \A x \in Call : pc[x] \in {"duplicate", "conflict", "paid"} => req[x].key \in Key
        BY DEF Request
      <4> QED
        BY <3>2, <4>1 DEF ResetCommits
    <3>3. ASSUME NEW c \in Call, Refund(c) \/ Die(c)
          PROVE  disputed' \subseteq Key /\ deserted' \subseteq Key /\ wiped' \subseteq Key
      <4>1. pc[c] \in HasMoney => req[c].key \in Key
        BY DEF Request, HasMoney
      <4> QED
        BY <3>3, <4>1 DEF Refund, Die, HasMoney
    <3> QED
      BY <1>1, <3>1, <3>2, <3>3, WhoMoves
  <2>7. selecting' \subseteq [user : User, seats : SUBSET Seat]
    <3>1. CASE SelectStep
      BY <3>1 DEF SelectStep, SelectLocks, SelectTaken
    <3>2. ASSUME NEW u \in User, NEW S \in SUBSET Seat \ {{}}, SelectChecks(u, S)
          PROVE  selecting' \subseteq [user : User, seats : SUBSET Seat]
      BY <3>2 DEF SelectChecks
    <3> QED
      BY <1>1, <3>1, <3>2, WhoMoves
  <2>8. unsteady' \subseteq Call /\ reused' \subseteq Key /\ strays' \subseteq Seat
    BY <1>1, <2>2, Split DEF Watch, LockTypes
  <2> QED
    BY <2>1, <2>2, <2>3, <2>4, <2>5, <2>6, <2>7, <2>8 DEF CallTypes, LockTypes, RowTypes
<1>2. CASE UNCHANGED vars
  BY <1>2 DEF vars, redisVars, callVars, resetVars, historyVars, watchVars
<1> QED
  BY <1>1, <1>2

\* The types hold at the start ...
LEMMA WorkInit == Init => WorkInv
BY DEF Init, WorkInv, SaleTypeOK, Place

\* ... and for ever.
LEMMA WorkHolds == Spec => []WorkInv
BY WorkInit, WorkStep, PTL DEF Spec

\* Types, for any number of users, seats and overlapping calls.
THEOREM SaleTypeCorrect == Spec => []SaleTypeOK
<1>1. WorkInv => SaleTypeOK
  BY DEF WorkInv
<1> QED
  BY <1>1, WorkHolds, PTL
------------------------------------------------------------------------------
(* The locks.                                                                *)

\* While a reset waits between reading and deleting, what it has read covers
\* every lock that is not a stray.
IndexInv ==
  /\ IndexCoversLocks
  /\ reset.at = "read" => DOMAIN lock \ strays \subseteq reset.found

\* New locks are indexed; index members go with their locks, or alone when they
\* have none.
LEMMA IndexMoves ==
  ASSUME Next, ~ ResetDeletes
  PROVE  /\ index \subseteq index' \cup (index \ DOMAIN lock')
         /\ DOMAIN lock' \ DOMAIN lock \subseteq index'
<1> DEFINE Good == /\ index \subseteq index' \cup (index \ DOMAIN lock')
                   /\ DOMAIN lock' \ DOMAIN lock \subseteq index'
<1>1. CASE UNCHANGED <<lock, index>>
  BY <1>1
<1>2. CASE Look
  BY <1>2 DEF Look
<1>3. CASE Tick
  BY <1>3 DEF Tick
<1>4. ASSUME NEW x \in selecting, SelectLocks(x) PROVE Good
  BY <1>4 DEF SelectLocks, LockAll
<1>5. ASSUME NEW u, NEW S, ReleaseMine(u, S) PROVE Good
  BY <1>5 DEF ReleaseMine
<1>6. ASSUME NEW u \in User, NEW S \in SUBSET Seat \ {{}}, Release(u, S) PROVE Good
  BY <1>5, <1>6 DEF Release
<1>7. ASSUME NEW c \in Call, Renew(c) PROVE Good
  BY <1>7 DEF Renew, RenewMine
<1>8. ASSUME NEW c \in Call, Unlock(c) PROVE Good
  BY <1>1, <1>5, <1>8 DEF Unlock
<1> QED
  BY <1>1, <1>2, <1>3, <1>4, <1>6, <1>7, <1>8, WhoMoves

\* The index names every live lock, but those taken between the two calls of a
\* reset (SeatLockService.java:24-26, AdminResetService.java:90-97).
THEOREM IndexCoversLocksHolds == Spec => []IndexCoversLocks
<1>1. Init => IndexInv
  BY DEF Init, IndexInv, IndexCoversLocks
<1>2. IndexInv /\ [Next]_vars => IndexInv'
  <2> SUFFICES ASSUME IndexInv, [Next]_vars PROVE IndexInv'
    OBVIOUS
  <2>1. ASSUME Next
        PROVE  strays' = {s \in DOMAIN lock' :
                 s \in strays \/ (s \notin DOMAIN lock /\ reset.at = "read")}
    BY <2>1, Split DEF Watch
  <2>2. CASE ResetDeletes /\ Next
    BY <2>1, <2>2 DEF ResetDeletes, IndexInv, IndexCoversLocks
  <2>3. CASE Next /\ ~ ResetDeletes
    <3>1. IndexCoversLocks'
      BY <2>1, <2>3, IndexMoves DEF IndexInv, IndexCoversLocks
    <3>2. CASE UNCHANGED reset
      BY <2>1, <2>3, <3>1, <3>2 DEF IndexInv
    <3>3. CASE ResetReads
      BY <2>1, <3>1, <3>3 DEF IndexInv, IndexCoversLocks, ResetReads, redisVars
    <3>4. CASE ResetCommits \/ ResetFails
      BY <3>1, <3>4 DEF IndexInv, ResetCommits, ResetFails
    <3> QED
      BY <2>3, <3>2, <3>3, <3>4, WhoMoves DEF ResetStep, resetVars
  <2>4. CASE UNCHANGED vars
    BY <2>4 DEF vars, redisVars, resetVars, watchVars, IndexInv, IndexCoversLocks
  <2> QED
    BY <2>2, <2>3, <2>4
<1>3. IndexInv => IndexCoversLocks
  BY DEF IndexInv
<1> QED
  BY <1>1, <1>2, <1>3, PTL DEF Spec

\* A lock is renewed or freed by its owner's calls, by time and by a reset, and
\* by nothing else.
THEOREM OwnLocksOnlyHolds == Spec => OwnLocksOnly
<1> DEFINE Mine(s) ==
      \/ Tick \/ ResetDeletes
      \/ \E S \in SUBSET Seat : Release(lock[s].owner, S)
      \/ \E c \in Call : req[c].key.user = lock[s].owner /\ (Renew(c) \/ Unlock(c))
    Own == \A s \in DOMAIN lock : s \notin DOMAIN lock' \/ lock'[s] # lock[s] => Mine(s)
<1>1. Next => Own
  <2> SUFFICES ASSUME Next, NEW s \in DOMAIN lock, s \notin DOMAIN lock' \/ lock'[s] # lock[s]
               PROVE  Mine(s)
    OBVIOUS
  <2>1. CASE UNCHANGED <<lock, index>> \/ Look \/ Tick \/ ResetDeletes
    BY <2>1 DEF Look
  <2>2. ASSUME NEW x \in selecting, SelectLocks(x) PROVE FALSE
    BY <2>2 DEF SelectLocks, LockAll
  <2>3. ASSUME NEW u \in User, NEW S \in SUBSET Seat \ {{}}, Release(u, S) PROVE Mine(s)
    <3>1. lock[s].owner = u
      BY <2>3 DEF Release, ReleaseMine, LockedBy
    <3> QED
      BY <2>3, <3>1
  <2>4. ASSUME NEW c \in Call, Renew(c) PROVE Mine(s)
    <3>1. lock[s].owner = req[c].key.user
      BY <2>4 DEF Renew, RenewMine, LockedBy
    <3> QED
      BY <2>4, <3>1
  <2>5. ASSUME NEW c \in Call, Unlock(c) PROVE Mine(s)
    <3>1. lock[s].owner = req[c].key.user
      BY <2>5 DEF Unlock, ReleaseMine, LockedBy
    <3> QED
      BY <2>5, <3>1
  <2> QED
    BY <2>1, <2>2, <2>3, <2>4, <2>5, WhoMoves
<1>2. Own => [Own]_vars
  OBVIOUS
<1>3. [Next]_vars => [Own]_vars
  BY <1>1
<1> QED
  BY <1>3, PTL DEF Spec, OwnLocksOnly
------------------------------------------------------------------------------
(* The rows, and what the users are told.                                    *)

\* A row goes only when the operator deletes them all.
LEMMA RowsStay ==
  ASSUME Next
  PROVE  /\ wiped \subseteq wiped' /\ deserted \subseteq deserted' /\ disputed \subseteq disputed'
         /\ \/ \A k \in DOMAIN bookings : k \in DOMAIN bookings' /\ bookings'[k] = bookings[k]
            \/ ResetCommits /\ DOMAIN bookings' = {} /\ DOMAIN bookings \subseteq wiped'
<1>1. wiped \subseteq wiped' /\ deserted \subseteq deserted' /\ disputed \subseteq disputed'
  <2>1. CASE UNCHANGED historyVars
    BY <2>1 DEF historyVars
  <2>2. CASE ResetCommits
    BY <2>2 DEF ResetCommits
  <2>3. ASSUME NEW c \in Call, Refund(c) \/ Die(c)
        PROVE  /\ wiped \subseteq wiped' /\ deserted \subseteq deserted'
               /\ disputed \subseteq disputed'
    BY <2>3 DEF Refund, Die
  <2> QED
    BY <2>1, <2>2, <2>3, WhoMoves
<1>2. CASE ResetCommits
  BY <1>1, <1>2 DEF ResetCommits
<1>3. ASSUME NEW c \in Call, Stores(c)
      PROVE  \A k \in DOMAIN bookings : k \in DOMAIN bookings' /\ bookings'[k] = bookings[k]
  BY <1>3 DEF Stores, Persists, PersistsUnheard, Fits, Row
<1> QED
  BY <1>1, <1>2, <1>3, WhoMoves

\* Who is told that he has booked has just bought what he asked for, or is found
\* to have bought it.
LEMMA GoodAnswer ==
  ASSUME WorkInv, NEW c \in Call, CallSteps(c), pc'[c] \in {"stored", "booked", "replayed"}
  PROVE  \/ pc[c] \in {"stored", "booked", "replayed"} /\ req'[c] = req[c]
         \/ /\ req'[c].key \in DOMAIN bookings'
            /\ bookings'[req'[c].key].seats = req'[c].seats
<1> DEFINE Good ==
      \/ pc[c] \in {"stored", "booked", "replayed"} /\ req'[c] = req[c]
      \/ req'[c].key \in DOMAIN bookings' /\ bookings'[req'[c].key].seats = req'[c].seats
<1> USE DEF WorkInv, SaleTypeOK
<1>1. ASSUME NEW r \in Request, Arrive(c, r) \/ ArriveAgain(c, r) PROVE Good
  BY <1>1 DEF Arrive, ArriveAgain, Answer, SameRequest
<1>2. ASSUME NEW from, NEW to, Goes(c, from, to) PROVE pc'[c] = to /\ (to # "over" => req' = req)
  BY <1>2 DEF Goes
<1>3. ASSUME CheckSold(c) \/ Renew(c) \/ Refuse(c) \/ Approve(c) PROVE FALSE
  BY <1>2, <1>3 DEF CheckSold, Renew, Refuse, Approve
<1>4. ASSUME Persists(c) PROVE Good
  BY <1>2, <1>4 DEF Persists, Row
<1>5. ASSUME PersistsUnheard(c) \/ PersistFails(c) \/ PersistClashes(c) PROVE FALSE
  BY <1>2, <1>5 DEF PersistsUnheard, PersistFails, PersistClashes
<1>6. ASSUME Recheck(c) PROVE Good
  <2>1. req[c].key \in DOMAIN bookings /\ SameRequest(req[c]) /\ req' = req
    BY <1>2, <1>6 DEF Recheck, Answer
  <2>2. bookings' = bookings
    BY <1>6 DEF Recheck
  <2> QED
    BY <2>1, <2>2 DEF SameRequest
<1>7. ASSUME Refund(c) \/ Die(c) PROVE FALSE
  BY <1>2, <1>7 DEF Refund, Die
<1>8. ASSUME Unlock(c) PROVE Good
  BY <1>2, <1>8 DEF Unlock, Goes
<1> QED
  BY <1>1, <1>3, <1>4, <1>5, <1>6, <1>7, <1>8 DEF CallSteps

\* Whoever is told that he has booked has a row with the seats he asked for,
\* unless the operator has deleted it.
THEOREM AnswerIsTrueHolds == Spec => []AnswerIsTrue
<1>1. Init => AnswerIsTrue
  BY DEF Init, AnswerIsTrue
<1>2. WorkInv /\ AnswerIsTrue /\ [Next]_vars => AnswerIsTrue'
  <2> SUFFICES ASSUME WorkInv, AnswerIsTrue, Next, NEW c \in Call,
                      pc'[c] \in {"stored", "booked", "replayed"}
               PROVE  \/ req'[c].key \in wiped'
                      \/ /\ req'[c].key \in DOMAIN bookings'
                         /\ bookings'[req'[c].key].seats = req'[c].seats
    BY DEF AnswerIsTrue, vars, callVars, historyVars
  <2>1. CASE pc[c] \in {"stored", "booked", "replayed"} /\ req'[c] = req[c]
    BY <2>1, RowsStay DEF AnswerIsTrue
  <2>2. CASE OtherSteps
    BY <2>1, <2>2, OthersStay DEF callVars
  <2>3. ASSUME NEW d \in Call, CallSteps(d), d # c
        PROVE  pc'[c] = pc[c] /\ req'[c] = req[c]
    BY <2>3, OneMoves DEF WorkInv, SaleTypeOK, CallTypes
  <2>4. CASE CallSteps(c)
    BY <2>1, <2>4, GoodAnswer
  <2> QED
    BY <2>1, <2>2, <2>3, <2>4, Split
<1> QED
  BY <1>1, <1>2, WorkHolds, PTL DEF Spec
------------------------------------------------------------------------------
(* The money.                                                                *)

\* A confirm that puts its money out of its hands has rows for it, has given it
\* back, or has died.
LEMMA MoneyGoes ==
  ASSUME WorkInv, NEW c \in Call, CallSteps(c), pc[c] \in HasMoney
  PROVE  \/ pc'[c] \in HasMoney /\ req'[c] = req[c]
         \/ req[c].key \in DOMAIN bookings' \cup deserted'
         \/ req[c].key \notin held'
<1> DEFINE Good ==
      \/ pc'[c] \in HasMoney /\ req'[c] = req[c]
      \/ req[c].key \in DOMAIN bookings' \cup deserted'
      \/ req[c].key \notin held'
<1> USE DEF WorkInv, SaleTypeOK, HasMoney
<1>1. ASSUME NEW r \in Request, Arrive(c, r) \/ ArriveAgain(c, r) PROVE FALSE
  BY <1>1 DEF Arrive, ArriveAgain
<1>2. ASSUME NEW from, NEW to, Goes(c, from, to)
      PROVE  pc[c] = from /\ pc'[c] = to /\ (to # "over" => req' = req)
  BY <1>2 DEF Goes
<1>3. ASSUME CheckSold(c) \/ Renew(c) \/ Refuse(c) \/ Approve(c) PROVE FALSE
  BY <1>2, <1>3 DEF CheckSold, Renew, Refuse, Approve
<1>4. ASSUME Persists(c) \/ PersistsUnheard(c) PROVE Good
  BY <1>4 DEF Persists, PersistsUnheard, Row
<1>5. ASSUME PersistFails(c) \/ PersistClashes(c) PROVE Good
  BY <1>2, <1>5 DEF PersistFails, PersistClashes
<1>6. ASSUME Recheck(c) PROVE Good
  BY <1>2, <1>6 DEF Recheck
<1>7. ASSUME Refund(c) \/ Die(c) PROVE Good
  BY <1>7 DEF Refund, Die
<1>8. ASSUME Unlock(c) PROVE FALSE
  BY <1>2, <1>8 DEF Unlock
<1> QED
  BY <1>1, <1>3, <1>4, <1>5, <1>6, <1>7, <1>8 DEF CallSteps

\* No payment is kept without a booking, but for a confirm still at work, dead
\* with the money, or wiped by the operator.
THEOREM MoneyAccountedHolds == Spec => []MoneyAccounted
<1> DEFINE Backed(k) == \/ k \in DOMAIN bookings \cup wiped \cup deserted
                        \/ \E c \in Call : req[c].key = k /\ pc[c] \in HasMoney
<1>1. Init => MoneyAccounted
  BY DEF Init, MoneyAccounted
<1>2. WorkInv /\ MoneyAccounted /\ [Next]_vars => MoneyAccounted'
  <2> SUFFICES ASSUME WorkInv, MoneyAccounted, Next, NEW k \in held' PROVE Backed(k)'
    BY DEF MoneyAccounted, vars, callVars, historyVars
  <2>1. CASE k \notin held
    <3>1. PICK c \in Call : Approve(c)
      <4>1. ASSUME NEW c \in Call, Refund(c) PROVE FALSE
        BY <2>1, <4>1 DEF Refund
      <4> QED
        BY <2>1, <4>1, WhoMoves
    <3>2. req'[c].key = k /\ pc'[c] = "paid"
      BY <2>1, <3>1 DEF Approve, Goes, WorkInv, SaleTypeOK
    <3> QED
      BY <3>2 DEF HasMoney
  <2>2. CASE k \in DOMAIN bookings \cup wiped \cup deserted
    BY <2>2, RowsStay
  <2>3. ASSUME NEW c \in Call, req[c].key = k, pc[c] \in HasMoney PROVE Backed(k)'
    <3>1. CASE pc'[c] = pc[c] /\ req'[c] = req[c]
      BY <2>3, <3>1
    <3>2. CASE OtherSteps
      BY <3>1, <3>2, OthersStay DEF callVars
    <3>3. ASSUME NEW d \in Call, CallSteps(d), d # c
          PROVE  pc'[c] = pc[c] /\ req'[c] = req[c]
      BY <3>3, OneMoves DEF WorkInv, SaleTypeOK, CallTypes
    <3>4. CASE CallSteps(c)
      BY <2>3, <3>4, MoneyGoes
    <3> QED
      BY <3>1, <3>2, <3>3, <3>4, Split
  <2> QED
    BY <2>1, <2>2, <2>3 DEF MoneyAccounted
<1> QED
  BY <1>1, <1>2, WorkHolds, PTL DEF Spec

\* The only step into each of the places before the end.
LEMMA WaysIn ==
  ASSUME CallTypes, NEW c \in Call, CallSteps(c)
  PROVE  /\ pc'[c] = "checked" => CheckSold(c)
         /\ pc'[c] = "renewed" => Renew(c)
         /\ pc'[c] = "paid" => Approve(c)
         /\ pc'[c] = "duplicate" => PersistClashes(c)
         /\ pc'[c] = "conflict" => Recheck(c)
<1> DEFINE Good == /\ pc'[c] = "checked" => CheckSold(c)
                   /\ pc'[c] = "renewed" => Renew(c)
                   /\ pc'[c] = "paid" => Approve(c)
                   /\ pc'[c] = "duplicate" => PersistClashes(c)
                   /\ pc'[c] = "conflict" => Recheck(c)
<1>1. ASSUME NEW r \in Request, Arrive(c, r) \/ ArriveAgain(c, r) PROVE Good
  BY <1>1 DEF Arrive, ArriveAgain, Answer, CallTypes
<1>2. ASSUME NEW from, NEW to, Goes(c, from, to) PROVE pc'[c] = to
  BY <1>2 DEF Goes, CallTypes
<1>3. CASE CheckSold(c)
  BY <1>2, <1>3 DEF CheckSold
<1>4. CASE Renew(c)
  BY <1>2, <1>4 DEF Renew
<1>5. CASE Refuse(c)
  BY <1>2, <1>5 DEF Refuse
<1>6. CASE Approve(c)
  BY <1>2, <1>6 DEF Approve
<1>7. CASE Persists(c) \/ PersistsUnheard(c) \/ PersistFails(c)
  BY <1>2, <1>7 DEF Persists, PersistsUnheard, PersistFails
<1>8. CASE PersistClashes(c)
  BY <1>2, <1>8 DEF PersistClashes
<1>9. CASE Recheck(c)
  BY <1>2, <1>9 DEF Recheck, Answer
<1>10. CASE Refund(c) \/ Die(c) \/ Unlock(c)
  BY <1>2, <1>10 DEF Refund, Die, Unlock
<1> QED
  BY <1>1, <1>3, <1>4, <1>5, <1>6, <1>7, <1>8, <1>9, <1>10 DEF CallSteps

\* A confirm that is at one place for two states keeps its request there.
LEMMA StaysPut ==
  ASSUME WorkInv, Next, NEW c \in Call, pc'[c] \notin {"idle", "over"}
  PROVE  CallSteps(c) \/ (pc'[c] = pc[c] /\ req'[c] = req[c])
<1>1. CASE OtherSteps
  BY <1>1, OthersStay DEF callVars
<1>2. ASSUME NEW d \in Call, CallSteps(d), d # c
      PROVE  pc'[c] = pc[c] /\ req'[c] = req[c]
  BY <1>2, OneMoves DEF WorkInv, SaleTypeOK, CallTypes
<1> QED
  BY <1>1, <1>2, Split

\* What is new among the rows is the request of one paid confirm.
LEMMA NewRow ==
  ASSUME Next, NEW k \in DOMAIN bookings', k \notin DOMAIN bookings
  PROVE  \E d \in Call : /\ Stores(d) /\ Fits(d) /\ pc[d] = "paid"
                         /\ k = req[d].key
                         /\ bookings'[k] = [id |-> d, seats |-> req[d].seats]
<1>1. PICK d \in Call : Stores(d)
  BY WhoMoves DEF ResetCommits
<1> QED
  BY <1>1 DEF Stores, Persists, PersistsUnheard, Goes, Row
------------------------------------------------------------------------------
(* Why an approval can meet a seat conflict.                                 *)

\* The places between the check that the seats are unsold and the commit.
AtRisk == {"checked", "renewed", "paid"}

\* The inductive form: a confirm at risk has its locks, or has been without them;
\* a row for one of its seats was written by its own user, or while one of the
\* two confirms had been without its locks.
LapseInv ==
  \A c \in Call : pc[c] \in AtRisk =>
    /\ c \in unsteady \/ Holds(c)
    /\ \A k \in DOMAIN bookings :
         bookings[k].seats \cap req[c].seats # {} =>
           c \in unsteady \/ k.user = req[c].key.user \/ bookings[k].id \in unsteady

\* Every step keeps it.
LEMMA LapseStep ==
  ASSUME WorkInv, LapseInv, Next
  PROVE  LapseInv'
<1> SUFFICES ASSUME NEW c \in Call, pc'[c] \in AtRisk
             PROVE  /\ c \in unsteady' \/ Holds(c)'
                    /\ \A k \in DOMAIN bookings' :
                         bookings'[k].seats \cap req'[c].seats # {} =>
                           \/ c \in unsteady' \/ k.user = req'[c].key.user
                           \/ bookings'[k].id \in unsteady'
  BY DEF LapseInv
<1>1. unsteady' =
        {x \in Call : x \in unsteady \/ (pc'[x] \in AtRisk /\ ~ Holds(x)')}
          \ {x \in Call : pc'[x] = "over" /\ \A k \in DOMAIN bookings' : bookings'[k].id # x}
  BY Split DEF Watch, AtRisk
<1>2. c \in unsteady => c \in unsteady'
  BY <1>1 DEF AtRisk
<1>3. c \in unsteady' \/ Holds(c)'
  BY <1>1 DEF AtRisk
<1>4. ASSUME NEW k \in DOMAIN bookings', bookings'[k].id \in unsteady
      PROVE  bookings'[k].id \in unsteady'
  BY <1>1, <1>4 DEF WorkInv, SaleTypeOK
<1>5. ASSUME NEW k \in DOMAIN bookings', bookings'[k].seats \cap req'[c].seats # {},
             pc[c] \in AtRisk, req'[c] = req[c]
      PROVE  c \in unsteady' \/ k.user = req[c].key.user \/ bookings'[k].id \in unsteady'
  <2>1. CASE k \in DOMAIN bookings
    <3>1. bookings'[k] = bookings[k]
      BY <2>1, RowsStay
    <3> QED
      BY <1>2, <1>4, <1>5, <2>1, <3>1 DEF LapseInv
  <2>2. CASE k \notin DOMAIN bookings
    <3>1. PICK d \in Call : /\ pc[d] = "paid" /\ k = req[d].key
                            /\ bookings'[k] = [id |-> d, seats |-> req[d].seats]
      BY <2>2, NewRow
    <3>2. CASE c \in unsteady \/ d \in unsteady
      BY <1>2, <1>4, <3>1, <3>2
    <3>3. CASE c \notin unsteady /\ d \notin unsteady
      <4>1. Holds(c) /\ Holds(d)
        BY <1>5, <3>1, <3>3 DEF LapseInv, AtRisk
      <4>2. PICK s : s \in req[d].seats /\ s \in req[c].seats
        BY <1>5, <3>1
      <4> QED
        BY <3>1, <4>1, <4>2 DEF Holds, LockedBy
    <3> QED
      BY <3>2, <3>3
  <2> QED
    BY <2>1, <2>2
<1>6. CASE CallSteps(c)
  <2>1. CASE pc'[c] = "checked"
    <3>1. CheckSold(c)
      BY <1>6, <2>1, WaysIn DEF WorkInv, SaleTypeOK, CallTypes
    <3>2. bookings' = bookings /\ req' = req /\ req[c].seats \cap Sold = {}
      BY <3>1 DEF CheckSold, Goes
    <3> QED
      BY <1>3, <3>2 DEF Sold
  <2>2. CASE pc'[c] \in {"renewed", "paid"}
    <3>1. Renew(c) \/ Approve(c)
      BY <1>6, <2>2, WaysIn DEF WorkInv, SaleTypeOK, CallTypes
    <3>2. pc[c] \in AtRisk /\ req'[c] = req[c]
      BY <3>1 DEF Renew, Approve, Goes, AtRisk
    <3> QED
      BY <1>3, <1>5, <3>2
  <2> QED
    BY <2>1, <2>2 DEF AtRisk
<1>7. CASE pc'[c] = pc[c] /\ req'[c] = req[c]
  BY <1>3, <1>5, <1>7
<1> QED
  BY <1>6, <1>7, StaysPut DEF AtRisk

\* Who pays and then finds a seat sold had been without his locks, or the other
\* had, or both are one user.
THEOREM ConflictMeansLapseHolds == Spec => ConflictMeansLapse
<1> DEFINE Excuse(c) ==
      \/ c \in unsteady
      \/ \E k \in DOMAIN bookings :
           /\ bookings[k].seats \cap req[c].seats # {}
           /\ k.user = req[c].key.user \/ bookings[k].id \in unsteady
    Lapse == \A c \in Call :
      pc[c] = "paid" /\ pc'[c] = "duplicate" /\ req[c].key \notin DOMAIN bookings => Excuse(c)
<1>1. Init => LapseInv
  BY DEF Init, LapseInv, AtRisk
<1>2. WorkInv /\ LapseInv /\ [Next]_vars => LapseInv'
  <2>1. ASSUME LapseInv, UNCHANGED vars PROVE LapseInv'
    BY <2>1 DEF LapseInv, vars, redisVars, callVars, watchVars, Holds, LockedBy
  <2> QED
    BY <2>1, LapseStep
<1>3. WorkInv /\ LapseInv /\ [Next]_vars => [Lapse]_vars
  <2> SUFFICES ASSUME WorkInv, LapseInv, Next, NEW c \in Call, pc[c] = "paid",
                      pc'[c] = "duplicate", req[c].key \notin DOMAIN bookings
               PROVE  Excuse(c)
    OBVIOUS
  <2>1. PersistClashes(c)
    BY StaysPut, WaysIn DEF WorkInv, SaleTypeOK, CallTypes
  <2>2. req[c].seats \cap Sold # {}
    BY <2>1 DEF PersistClashes, Fits
  <2>3. PICK k \in DOMAIN bookings : bookings[k].seats \cap req[c].seats # {}
    BY <2>2 DEF Sold
  <2> QED
    BY <2>3 DEF LapseInv, AtRisk
<1> QED
  BY <1>1, <1>2, <1>3, WorkHolds, PTL DEF Spec, ConflictMeansLapse
------------------------------------------------------------------------------
(* No refund takes the payment of a booking.                                 *)

\* The keys that the histories excuse.
Excuses == disputed \cup reused

\* Some seat of c's request is sold.
Taken(c) == req[c].seats \cap Sold # {}

\* The inductive form: why the money of a confirm may be gone, and why a refund
\* after a conflict finds no booking of its key.
PaidInv ==
  /\ BookingIsPaid
  /\ \A c, d \in Call :
       req[c].key = req[d].key /\ req[c].key \in Key /\ req[c].seats # req[d].seats =>
         req[c].key \in reused
  /\ \A c \in Call : pc[c] = "paid" => req[c].key \in Excuses \/ req[c].key \in held \/ Taken(c)
  /\ \A c \in Call : pc[c] = "duplicate" =>
       req[c].key \in Excuses \/ req[c].key \in DOMAIN bookings \/ Taken(c)
  /\ \A c \in Call : pc[c] = "conflict" =>
       req[c].key \in Excuses \/ (req[c].key \notin DOMAIN bookings /\ Taken(c))

\* Excuses last, and seats stay sold until the operator deletes the rows.
LEMMA ExcusesLast ==
  ASSUME Next
  PROVE  /\ Excuses \subseteq Excuses'
         /\ ~ ResetCommits => Sold \subseteq Sold'
<1>1. reused \subseteq reused'
  BY Split DEF Watch
<1>2. ~ ResetCommits => Sold \subseteq Sold'
  BY RowsStay DEF Sold
<1> QED
  BY <1>1, <1>2, RowsStay DEF Excuses

\* A payment goes only with an excuse, or when its seats are sold under other
\* keys.
LEMMA WhyRefunded ==
  ASSUME WorkInv, PaidInv, Next, NEW k \in held, k \notin held'
  PROVE  \/ k \in Excuses'
         \/ /\ k \notin DOMAIN bookings
            /\ \E d \in Call : req[d].key = k /\ Taken(d) /\ ~ ResetCommits
<1>1. PICK d \in Call : Refund(d)
  <2>1. ASSUME NEW d \in Call, Approve(d) PROVE FALSE
    BY <2>1 DEF Approve
  <2> QED
    BY <2>1, WhoMoves
<1>2. req[d].key = k /\ pc[d] \in {"conflict", "failed"} /\ bookings' = bookings
  BY <1>1 DEF Refund
<1>3. CASE pc[d] = "failed"
  BY <1>1, <1>2, <1>3 DEF Refund, Excuses
<1>4. CASE pc[d] = "conflict"
  <2>1. k \in Excuses \/ (k \notin DOMAIN bookings /\ Taken(d))
    BY <1>2, <1>4 DEF PaidInv
  <2>2. ~ ResetCommits
    BY <1>1, <1>4 DEF Refund, Goes, ResetCommits, callVars, WorkInv, SaleTypeOK
  <2> QED
    BY <1>2, <2>1, <2>2, ExcusesLast
<1> QED
  BY <1>2, <1>3, <1>4

\* Two requests of one key for seats, one of them sold, the other not.
LEMMA TakenTogether ==
  ASSUME WorkInv, PaidInv, NEW c \in Call, NEW d \in Call, req[c].key = req[d].key,
         pc[c] \notin {"idle", "over"}, Taken(d)
  PROVE  Taken(c) \/ req[c].key \in Excuses
<1>1. req[c].key \in Key
  BY DEF WorkInv, Request
<1>2. CASE req[c].seats = req[d].seats
  BY <1>2 DEF Taken
<1>3. CASE req[c].seats # req[d].seats
  BY <1>1, <1>3 DEF PaidInv, Excuses
<1> QED
  BY <1>2, <1>3

\* Every step keeps the invariant: the deletion of the rows ...
LEMMA PaidReset ==
  ASSUME WorkInv, PaidInv, Next, ResetCommits
  PROVE  PaidInv'
<1>1. /\ DOMAIN bookings' = {} /\ UNCHANGED <<req, pc, held>> /\ reused \subseteq reused'
      /\ \A c \in Call : \/ pc[c] \in {"duplicate", "conflict"}
                         \/ pc[c] = "paid" /\ req[c].key \notin held
                         => req[c].key \in disputed'
  BY Split DEF ResetCommits, callVars, Watch
<1> QED
  BY <1>1 DEF PaidInv, BookingIsPaid, Excuses

\* ... and every other one.
LEMMA PaidStep ==
  ASSUME WorkInv, PaidInv, Next, ~ ResetCommits
  PROVE  PaidInv'
<1>1. reused' = reused \cup {k \in Key : \E c, d \in Call :
        req'[c].key = k /\ req'[d].key = k /\ req'[c].seats # req'[d].seats}
  BY Split DEF Watch
<1>2. \A c, d \in Call :
        req'[c].key = req'[d].key /\ req'[c].key \in Key /\ req'[c].seats # req'[d].seats =>
          req'[c].key \in reused'
  BY <1>1
<1>3. ASSUME NEW c \in Call, pc'[c] = pc[c], req'[c] = req[c], Taken(c) PROVE Taken(c)'
  BY <1>3, ExcusesLast DEF Taken
<1>4. CallTypes
  BY DEF WorkInv, SaleTypeOK, CallTypes
<1>5. BookingIsPaid'
  <2> SUFFICES ASSUME NEW k \in DOMAIN bookings' PROVE k \in held' \/ k \in Excuses'
    BY DEF BookingIsPaid, Excuses
  <2>1. CASE k \in DOMAIN bookings
    BY <2>1, WhyRefunded, ExcusesLast DEF PaidInv, BookingIsPaid, Excuses
  <2>2. CASE k \notin DOMAIN bookings
    <3>1. PICK d \in Call : Stores(d) /\ Fits(d) /\ pc[d] = "paid" /\ k = req[d].key
      BY <2>2, NewRow
    <3>2. held' = held
      BY <3>1 DEF Stores, Persists, PersistsUnheard
    <3> QED
      BY <3>1, <3>2, ExcusesLast DEF PaidInv, Fits, Taken
  <2> QED
    BY <2>1, <2>2
<1>6. ASSUME NEW c \in Call, pc'[c] = "paid"
      PROVE  req'[c].key \in Excuses' \/ req'[c].key \in held' \/ Taken(c)'
  <2>1. CASE CallSteps(c)
    <3>1. Approve(c)
      BY <1>4, <1>6, <2>1, WaysIn
    <3> QED
      BY <3>1 DEF Approve, Goes
  <2>2. CASE pc'[c] = pc[c] /\ req'[c] = req[c]
    <3>1. CASE req[c].key \in held /\ req[c].key \notin held'
      BY <1>3, <1>6, <2>2, <3>1, WhyRefunded, TakenTogether, ExcusesLast
    <3>2. CASE ~ (req[c].key \in held /\ req[c].key \notin held')
      BY <1>3, <1>6, <2>2, <3>2, ExcusesLast DEF PaidInv
    <3> QED
      BY <3>1, <3>2
  <2> QED
    BY <1>6, <2>1, <2>2, StaysPut
<1>7. ASSUME NEW c \in Call, pc'[c] = "duplicate"
      PROVE  req'[c].key \in Excuses' \/ req'[c].key \in DOMAIN bookings' \/ Taken(c)'
  <2>1. CASE CallSteps(c)
    <3>1. PersistClashes(c)
      BY <1>4, <1>7, <2>1, WaysIn
    <3>2. ~ Fits(c) /\ req' = req /\ bookings' = bookings
      BY <3>1 DEF PersistClashes, Goes
    <3> QED
      BY <3>2 DEF Fits, Taken, Sold
  <2>2. CASE pc'[c] = pc[c] /\ req'[c] = req[c]
    BY <1>3, <1>7, <2>2, ExcusesLast, RowsStay DEF PaidInv
  <2> QED
    BY <1>7, <2>1, <2>2, StaysPut
<1>8. ASSUME NEW c \in Call, pc'[c] = "conflict"
      PROVE  req'[c].key \in Excuses' \/ (req'[c].key \notin DOMAIN bookings' /\ Taken(c)')
  <2>1. CASE CallSteps(c)
    <3>1. Recheck(c)
      BY <1>4, <1>8, <2>1, WaysIn
    <3>2. /\ pc[c] = "duplicate" /\ req[c].key \notin DOMAIN bookings
          /\ req' = req /\ bookings' = bookings
      BY <1>4, <1>8, <3>1 DEF Recheck, Goes, Answer, CallTypes
    <3> QED
      BY <3>2, ExcusesLast DEF PaidInv, Taken, Sold
  <2>2. CASE pc'[c] = pc[c] /\ req'[c] = req[c]
    <3>1. CASE req[c].key \in Excuses
      BY <2>2, <3>1, ExcusesLast
    <3>2. CASE req[c].key \notin Excuses
      <4>1. Taken(c) /\ req[c].key \notin DOMAIN bookings
        BY <1>8, <2>2, <3>2 DEF PaidInv
      <4>2. ASSUME req[c].key \in DOMAIN bookings' PROVE FALSE
        <5>1. PICK d \in Call : Fits(d) /\ pc[d] = "paid" /\ req[d].key = req[c].key
          BY <4>1, <4>2, NewRow
        <5> QED
          BY <3>2, <4>1, <5>1, TakenTogether DEF Fits, Taken
      <4> QED
        BY <1>3, <2>2, <4>1, <4>2
    <3> QED
      BY <3>1, <3>2
  <2> QED
    BY <1>8, <2>1, <2>2, StaysPut
<1> QED
  BY <1>2, <1>5, <1>6, <1>7, <1>8 DEF PaidInv

\* A stored booking keeps its payment, whatever confirms share its payment id,
\* but for the excuses that BookingIsPaid names.
THEOREM BookingIsPaidHolds == Spec => []BookingIsPaid
<1>1. Init => PaidInv
  BY DEF Init, PaidInv, BookingIsPaid, NoRequest
<1>2. WorkInv /\ PaidInv /\ [Next]_vars => PaidInv'
  <2>1. ASSUME PaidInv, UNCHANGED vars PROVE PaidInv'
    BY <2>1 DEF PaidInv, BookingIsPaid, Excuses, Taken, Sold, vars, redisVars, callVars,
       historyVars, watchVars
  <2> QED
    BY <2>1, PaidReset, PaidStep
<1>3. PaidInv => BookingIsPaid
  BY DEF PaidInv
<1> QED
  BY <1>1, <1>2, <1>3, WorkHolds, PTL DEF Spec
------------------------------------------------------------------------------
(* The scripts, calls and transactions implement the sale.                   *)

\* Where an approval is in the hands of a confirm.
Charged == HasMoney \cup {"stored"}

\* An approval in hand is of a key for seats.
LEMMA ChargeType ==
  ASSUME WorkInv, NEW c \in Call, pc[c] \in Charged
  PROVE  req[c].key \in Key /\ req[c].seats \in SUBSET Seat
BY DEF WorkInv, Charged, HasMoney, Request

\* A step that neither takes nor drops an approval leaves the charges.
LEMMA ChargesStay ==
  ASSUME \A d \in Call : \/ pc[d] \in Charged /\ pc'[d] \in Charged /\ req'[d] = req[d]
                         \/ pc[d] \notin Charged /\ pc'[d] \notin Charged
  PROVE  Charges' = Charges
BY DEF Charges, Charged

\* An approval charges its key.
LEMMA ChargesGrow ==
  ASSUME NEW c \in Call, pc[c] \notin Charged, pc'[c] \in Charged, req'[c] = req[c],
         \A d \in Call \ {c} : pc'[d] = pc[d] /\ req'[d] = req[d]
  PROVE  Charges' = Charges \cup {<<req[c].key, req[c].seats>>}
BY DEF Charges, Charged

\* A confirm that drops its approval settles the charge, or another confirm with
\* the same request still has it.
LEMMA ChargesFall ==
  ASSUME NEW c \in Call, pc[c] \in Charged, pc'[c] \notin Charged,
         \A d \in Call \ {c} : pc'[d] = pc[d] /\ req'[d] = req[d]
  PROVE  \/ Charges' = Charges
         \/ Charges' = Charges \ {<<req[c].key, req[c].seats>>}
<1> DEFINE p == <<req[c].key, req[c].seats>>
           Q == {<<req[d].key, req[d].seats>> : d \in {x \in Call \ {c} : pc[x] \in Charged}}
<1>1. Charges = Q \cup {p}
  BY DEF Charges, Charged
<1>2. Charges' = Q
  BY DEF Charges, Charged
<1> QED
  BY <1>1, <1>2

\* Every step of a confirm is a step of the sale, or none.
LEMMA CallImplements ==
  ASSUME WorkInv, NEW c \in Call, CallSteps(c)
  PROVE  [Contract!SaleNext]_Contract!saleVars
<1> USE DEF Contract!SaleNext, Contract!saleVars
<1>0. \A d \in Call \ {c} : pc'[d] = pc[d] /\ req'[d] = req[d]
  BY OneMoves DEF WorkInv, SaleTypeOK, CallTypes
<1>1. ASSUME NEW from, NEW to, Goes(c, from, to)
      PROVE  pc[c] = from /\ pc'[c] = to /\ (to # "over" => req' = req)
  BY <1>1 DEF Goes, WorkInv, SaleTypeOK
<1>2. ASSUME pc[c] \notin Charged, pc'[c] \notin Charged, bookings' = bookings
      PROVE  UNCHANGED Contract!saleVars
  BY <1>0, <1>2, ChargesStay DEF SoldUnder
<1>3. ASSUME pc[c] \in Charged, pc'[c] \in Charged, req'[c] = req[c], bookings' = bookings
      PROVE  UNCHANGED Contract!saleVars
  BY <1>0, <1>3, ChargesStay DEF SoldUnder
<1>4. ASSUME pc[c] \in Charged, pc'[c] \notin Charged, bookings' = bookings
      PROVE  [Contract!SaleNext]_Contract!saleVars
  <2>1. SoldUnder' = SoldUnder
    BY <1>4 DEF SoldUnder
  <2>2. \/ Charges' = Charges
        \/ Charges' = Charges \ {<<req[c].key, req[c].seats>>}
    BY <1>0, <1>4, ChargesFall
  <2>3. CASE Charges' = Charges \ {<<req[c].key, req[c].seats>>}
    <3>1. Contract!Settle(req[c].key, req[c].seats)
      BY <2>1, <2>3 DEF Contract!Settle
    <3> QED
      BY <1>4, <3>1, ChargeType
  <2> QED
    BY <2>1, <2>2, <2>3
<1> HIDE DEF Contract!SaleNext, Contract!saleVars
<1> USE DEF Charged, HasMoney
<1>5. ASSUME NEW r \in Request, Arrive(c, r) \/ ArriveAgain(c, r) PROVE UNCHANGED Contract!saleVars
  BY <1>2, <1>5 DEF Arrive, ArriveAgain, Answer, WorkInv, SaleTypeOK
<1>6. ASSUME CheckSold(c) \/ Renew(c) \/ Refuse(c) PROVE UNCHANGED Contract!saleVars
  BY <1>1, <1>2, <1>6 DEF CheckSold, Renew, Refuse
<1>7. ASSUME Approve(c) PROVE Contract!SaleNext
  <2>1. pc[c] = "renewed" /\ pc'[c] = "paid" /\ req' = req /\ bookings' = bookings
    BY <1>1, <1>7 DEF Approve
  <2>2. Charges' = Charges \cup {<<req[c].key, req[c].seats>>}
    BY <1>0, <2>1, ChargesGrow
  <2>3. Contract!Charge(req[c].key, req[c].seats)
    BY <2>1, <2>2 DEF Contract!Charge, SoldUnder
  <2>4. req[c].key \in Key /\ req[c].seats \in SUBSET Seat
    BY <2>1 DEF WorkInv, Request
  <2> QED
    BY <2>3, <2>4 DEF Contract!SaleNext
<1>8. ASSUME Stores(c) PROVE Contract!SaleNext
  <2>1. /\ pc[c] = "paid" /\ pc'[c] \in Charged /\ req' = req
        /\ bookings' = Row(c) /\ Fits(c)
    BY <1>1, <1>8 DEF Stores, Persists, PersistsUnheard
  <2>2. Charges' = Charges
    BY <1>0, <2>1, ChargesStay
  <2>3. <<req[c].key, req[c].seats>> \in Charges
    BY <2>1 DEF Charges
  <2>4. /\ req[c].key \notin DOMAIN SoldUnder
        /\ \A k \in DOMAIN SoldUnder : req[c].seats \cap SoldUnder[k] = {}
    BY <2>1 DEF Fits, SoldUnder, Sold
  <2>5. SoldUnder' = [k \in DOMAIN SoldUnder \cup {req[c].key} |->
                        IF k = req[c].key THEN req[c].seats ELSE SoldUnder[k]]
    <3>1. DOMAIN bookings' = DOMAIN bookings \cup {req[c].key}
      BY <2>1 DEF Row
    <3>2. \A k \in DOMAIN bookings' :
            bookings'[k].seats = IF k = req[c].key THEN req[c].seats ELSE SoldUnder[k]
      BY <2>1 DEF Row, SoldUnder
    <3> QED
      BY <3>1, <3>2 DEF SoldUnder
  <2>6. Contract!Sell(req[c].key, req[c].seats)
    BY <2>2, <2>3, <2>4, <2>5 DEF Contract!Sell
  <2> QED
    BY <2>1, <2>6, ChargeType DEF Contract!SaleNext
<1>9. ASSUME PersistFails(c) \/ PersistClashes(c) PROVE UNCHANGED Contract!saleVars
  BY <1>1, <1>3, <1>9 DEF PersistFails, PersistClashes
<1>10. ASSUME Recheck(c) PROVE [Contract!SaleNext]_Contract!saleVars
  <2>1. /\ pc[c] = "duplicate" /\ bookings' = bookings
        /\ pc'[c] \in {"replayed", "over"} \/ (pc'[c] = "conflict" /\ req' = req)
    BY <1>1, <1>10 DEF Recheck, Answer
  <2> QED
    BY <1>3, <1>4, <2>1
<1>11. ASSUME Refund(c) \/ Unlock(c) PROVE [Contract!SaleNext]_Contract!saleVars
  BY <1>1, <1>4, <1>11 DEF Refund, Unlock
<1>12. ASSUME Die(c) PROVE [Contract!SaleNext]_Contract!saleVars
  <2>1. pc'[c] = "over" /\ bookings' = bookings
    BY <1>1, <1>12 DEF Die
  <2> QED
    BY <1>2, <1>4, <2>1
<1> QED
  BY <1>5, <1>6, <1>7, <1>8, <1>9, <1>10, <1>11, <1>12 DEF CallSteps, Stores

\* A key buys once, in one piece and what it was charged for, and a seat is sold
\* once: every behaviour of booking is one of the sale.
THEOREM SaleImplemented == Spec => ImplementsSale
<1>1. Init => Contract!SaleInit
  BY DEF Init, Contract!SaleInit, Charges, SoldUnder, HasMoney
<1>2. WorkInv /\ [Next]_vars => [Contract!SaleNext]_Contract!saleVars
  <2> SUFFICES ASSUME WorkInv, [Next]_vars PROVE [Contract!SaleNext]_Contract!saleVars
    OBVIOUS
  <2>1. ASSUME UNCHANGED <<req, pc, bookings>> PROVE UNCHANGED Contract!saleVars
    BY <2>1 DEF Contract!saleVars, Charges, SoldUnder
  <2>2. CASE UNCHANGED vars
    BY <2>1, <2>2 DEF vars, callVars
  <2>3. CASE OtherSteps /\ Next
    <3>1. UNCHANGED <<req, pc>>
      BY <2>3, OthersStay DEF callVars
    <3>2. CASE UNCHANGED bookings
      BY <2>1, <3>1, <3>2
    <3>3. CASE ResetCommits
      BY <3>1, <3>3 DEF ResetCommits, Contract!SaleNext, Contract!Empty, Charges, SoldUnder
    <3>4. ASSUME NEW c \in Call, Stores(c) PROVE FALSE
      BY <3>1, <3>4 DEF Stores, Persists, PersistsUnheard, Goes, WorkInv, SaleTypeOK
    <3> QED
      BY <2>3, <3>2, <3>3, <3>4, WhoMoves
  <2>4. ASSUME NEW c \in Call, CallSteps(c) PROVE [Contract!SaleNext]_Contract!saleVars
    BY <2>4, CallImplements
  <2> QED
    BY <2>2, <2>3, <2>4, Split
<1> QED
  BY <1>1, <1>2, WorkHolds, PTL DEF Spec, ImplementsSale, Contract!SaleSpec
=============================================================================
