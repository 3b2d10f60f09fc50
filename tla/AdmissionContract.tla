-------------------------- MODULE AdmissionContract --------------------------
(***************************************************************************)
(* What queue-go promises for one movie, with no clock, no scores and no   *)
(* keys: who holds a seat, who waits, and which notices it still owes to   *)
(* booking.  A seat is granted or taken back and the duty to tell booking  *)
(* is recorded in ONE step; a seat that is taken back cancels the notice   *)
(* of its admission.  QueueStore implements this, AdmissionFlow builds the *)
(* publication of the notices on it.                                       *)
(***************************************************************************)
EXTENDS Naturals, FiniteSets

CONSTANTS User,         \* request ids
          MaxSessions   \* seats (MAX_SESSIONS)

AdmitReason  == {"ENTER", "PROMOTE"}
RevokeReason == {"SESSION_TIMEOUT", "LEAVE", "COMPLETE"}

AdmitNotice  == [kind : {"A"}, reason : AdmitReason, user : User]
RevokeNotice == [kind : {"R"}, reason : RevokeReason, user : User]
Notice       == AdmitNotice \cup RevokeNotice

VARIABLES
  seated,   \* users inside the capacity
  queued,   \* users waiting
  owed      \* notices recorded and not yet known to be published

contractVars == <<seated, queued, owed>>

AdmitsOf(S)          == {n \in AdmitNotice : n.user \in S}
AdmitsFor(S, reason) == [kind : {"A"}, reason : {reason}, user : S]
RevokesFor(S, reason) == [kind : {"R"}, reason : {reason}, user : S]

ContractTypeOK ==
  /\ seated \subseteq User
  /\ queued \subseteq User
  /\ owed \subseteq Notice

ContractInit ==
  /\ seated = {}
  /\ queued = {}
  /\ owed = {}
------------------------------------------------------------------------------
\* A newcomer takes a free seat.
Admit(u) ==
  /\ u \notin seated \cup queued
  /\ Cardinality(seated) < MaxSessions
  /\ seated' = seated \cup {u}
  /\ owed' = owed \cup AdmitsFor({u}, "ENTER")
  /\ UNCHANGED queued

\* A newcomer finds every seat taken and waits.
Join(u) ==
  /\ u \notin seated \cup queued
  /\ Cardinality(seated) >= MaxSessions
  /\ queued' = queued \cup {u}
  /\ UNCHANGED <<seated, owed>>

\* Waiters move to free seats together.
PromoteAll(S) ==
  /\ S # {}
  /\ S \subseteq queued
  /\ Cardinality(seated \cup S) <= MaxSessions
  /\ seated' = seated \cup S
  /\ queued' = queued \ S
  /\ owed' = owed \cup AdmitsFor(S, "PROMOTE")

\* Seats are taken back: by the session timeout, or by the user.
Revoke(S, reason) ==
  /\ S # {}
  /\ S \subseteq seated
  /\ seated' = seated \ S
  /\ owed' = (owed \ AdmitsOf(S)) \cup RevokesFor(S, reason)
  /\ UNCHANGED queued

\* booking reports a finished booking: it has dropped the admission itself.
Finish(u) ==
  /\ u \in seated
  /\ seated' = seated \ {u}
  /\ owed' = owed \ AdmitsOf({u})
  /\ UNCHANGED queued

\* Waiters give up or stop polling.
Abandon(S) ==
  /\ S # {}
  /\ S \subseteq queued
  /\ queued' = queued \ S
  /\ UNCHANGED <<seated, owed>>

\* Notices whose publication succeeded are struck off.
Discharge(N) ==
  /\ N # {}
  /\ N \subseteq owed
  /\ owed' = owed \ N
  /\ UNCHANGED <<seated, queued>>

ContractNext ==
  \/ \E u \in User : Admit(u) \/ Join(u) \/ Finish(u)
  \/ \E S \in SUBSET User :
       \/ PromoteAll(S)
       \/ Abandon(S)
       \/ \E reason \in RevokeReason : Revoke(S, reason)
  \/ \E N \in SUBSET owed : Discharge(N)

ContractSpec == ContractInit /\ [][ContractNext]_contractVars
==============================================================================
