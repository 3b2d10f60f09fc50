---------------------------- MODULE AdmissionFlow ----------------------------
(***************************************************************************)
(* From a seat in queue-go to a certificate in booking.  The store keeps   *)
(* the AdmissionContract; here the goroutines of queue-go (enter handlers, *)
(* promotion loop, sweep) publish what the journal owes, Kafka carries it  *)
(* at least once and in no order across topics, booking keeps its          *)
(* certificates (admitted:{movie}:{request}) and reports finished bookings *)
(* back.  A goroutine can die between any two steps; a publication that    *)
(* reports an error may have reached the broker all the same.              *)
(*                                                                         *)
(* A topic is the set of users with an undelivered message: the messages   *)
(* of one topic are idempotent, and a message that is consumed may be      *)
(* delivered again.                                                        *)
(***************************************************************************)
EXTENDS AdmissionContract, Sequences

CONSTANTS Worker,      \* goroutines that publish at the same time, over all pods
          Booker,      \* bound: users that go on to confirm a booking
          MaxGrants    \* bound: seats granted in one behaviour

ASSUME FlowAssumption == MaxGrants \in Nat

VARIABLES
  job,            \* what each goroutine is doing
  paused,         \* promote_pause is set
  inAdmissions,   \* topic admissions
  inRevoked,      \* topic admissions-revoked
  inCompleted,    \* topic bookings-completed
  cert,           \* users with a certificate in booking
  confirm,        \* how far booking's confirm has come for each user
  fresh,          \* seat holders whose certificate was set since they got the seat
  stay,           \* history: what the latest stay of each user met (see Granted)
  atRisk,         \* history: notices recorded again between the publication and
                  \* the clean-up of their former record, and not told since
  grants          \* history: seats granted so far

queueVars   == <<job, paused>>
topicVars   == <<inAdmissions, inRevoked, inCompleted>>
bookingVars == <<cert, confirm>>
historyVars == <<fresh, stay, atRisk, grants>>
vars == <<contractVars, queueVars, topicVars, bookingVars, historyVars>>

Idle == [task |-> "idle", batches |-> << >>, sent |-> FALSE]

Jobs == [task : {"idle", "checked", "enter", "promote", "sweep"},
         batches : Seq(SUBSET Notice), sent : BOOLEAN]

Init ==
  /\ ContractInit
  /\ job = [w \in Worker |-> Idle]
  /\ paused = FALSE
  /\ inAdmissions = {} /\ inRevoked = {} /\ inCompleted = {}
  /\ cert = {}
  /\ confirm = [u \in User |-> "none"]
  /\ fresh = {}
  /\ stay = [u \in User |-> "clean"]
  /\ atRisk = {}
  /\ grants = 0

\* The notices job j will still publish.
ToPublish(j) == UNION {j.batches[i] : i \in (IF j.sent THEN 2 ELSE 1) .. Len(j.batches)}

Mentions(j, u) == \E i \in 1 .. Len(j.batches) : \E n \in j.batches[i] : n.user = u

UsersOf(N, kind) == {n.user : n \in {m \in N : m.kind = kind}}

\* An admission of u is on its way to booking, or may yet be.
AdmitUnderway(u) ==
  \/ u \in inAdmissions
  \/ \E w \in Worker : u \in UsersOf(ToPublish(job[w]), "A")

RevokeUnderway(u) ==
  \/ u \in inRevoked \cup UsersOf(owed, "R")
  \/ \E w \in Worker : u \in UsersOf(ToPublish(job[w]), "R")

\* Nothing about u is recorded, being published, on its way or being booked.
Settled(u) ==
  /\ u \notin inAdmissions \cup inRevoked \cup inCompleted
  /\ \A n \in owed : n.user # u
  /\ \A w \in Worker : ~ Mentions(job[w], u)
  /\ confirm[u] = "none"

Begin(w, task, batches) ==
  /\ job[w] = Idle
  /\ job' = [job EXCEPT ![w] = [task |-> task, batches |-> batches, sent |-> FALSE]]

\* The job after its first batch: the sweep goes on, the others are done.
NextBatch(j) ==
  IF Len(j.batches) > 1 THEN [j EXCEPT !.batches = Tail(@), !.sent = FALSE] ELSE Idle

\* ... or it is still recorded, and the sweep will send it (once more).
AdmitOutstanding(u) == AdmitUnderway(u) \/ u \in UsersOf(owed, "A")

\* History of the journal: N is recorded, C is cancelled.
Recorded(N, C) ==
  atRisk' = (atRisk \ C) \cup
            {n \in N : \E w \in Worker : job[w].sent /\ n \in Head(job[w].batches)}

\* ... and booking has got what the journal had to say about u.
Told(u, kind) == atRisk' = {n \in atRisk : ~ (n.kind = kind /\ n.user = u)}

\* History of a grant: a stay is clean if nothing of an earlier one is left, mixed
\* if something is; it becomes booked with its booking, and untold when booking
\* drops a message about it.
Granted(S) ==
  /\ grants + Cardinality(S) <= MaxGrants
  /\ grants' = grants + Cardinality(S)
  /\ stay' = [u \in User |-> IF u \notin S THEN stay[u]
                             ELSE IF Settled(u) THEN "clean" ELSE "mixed"]
  /\ UNCHANGED fresh

\* History of a loss: an admission still on its way will come too late.
Lost(S) ==
  /\ stay' = [u \in User |-> IF u \in S /\ AdmitUnderway(u) /\ stay[u] # "untold"
                             THEN "mixed" ELSE stay[u]]
  /\ fresh' = fresh \ S
  /\ UNCHANGED grants
------------------------------------------------------------------------------
\* POST enter, ADMITTED: the script runs, then the handler publishes (or the
\* pod dies, or the answer of Redis is lost, before it can).
EnterAdmitted(u) ==
  /\ Admit(u)
  /\ \/ \E w \in Worker : Begin(w, "enter", <<AdmitsFor({u}, "ENTER")>>)
     \/ UNCHANGED job
  /\ Granted({u})
  /\ Recorded(AdmitsFor({u}, "ENTER"), {})
  /\ UNCHANGED <<paused, topicVars, bookingVars>>

\* POST enter, WAITING.
EnterWaiting(u) ==
  /\ Join(u)
  /\ UNCHANGED <<queueVars, topicVars, bookingVars, historyVars>>

\* processAll: the promotion loop looks at the pause flag ...
PromoteCheck(w) ==
  /\ ~ paused
  /\ Begin(w, "checked", << >>)
  /\ UNCHANGED <<contractVars, paused, topicVars, bookingVars, historyVars>>

\* ... and goes on as well if it cannot be read ...
PromoteCheckFails(w) ==
  /\ paused
  /\ Begin(w, "checked", << >>)
  /\ UNCHANGED <<contractVars, paused, topicVars, bookingVars, historyVars>>

\* ... and promotes, in a later step, whatever the flag has become.
PromoteTick(w) ==
  /\ job[w].task = "checked"
  /\ \/ \E S \in SUBSET queued :
          /\ PromoteAll(S)
          /\ Granted(S)
          /\ Recorded(AdmitsFor(S, "PROMOTE"), {})
          /\ job' = [job EXCEPT ![w] = [task |-> "promote", sent |-> FALSE,
                                        batches |-> <<AdmitsFor(S, "PROMOTE")>>]]
     \/ /\ queued = {} \/ Cardinality(seated) >= MaxSessions
        /\ job' = [job EXCEPT ![w] = Idle]
        /\ UNCHANGED <<contractVars, historyVars>>
  /\ UNCHANGED <<paused, topicVars, bookingVars>>

\* Mutant: the sweep forgets one of the two topics.
SweepAdmissionsOnly(w, S) ==
  /\ S # {}
  /\ S \subseteq {n \in owed : n.kind = "A"}
  /\ Begin(w, "sweep", <<S>>)
  /\ UNCHANGED <<contractVars, paused, topicVars, bookingVars, historyVars>>

\* Mutant: ... or the other.
SweepRevocationsOnly(w, S) ==
  /\ S # {}
  /\ S \subseteq {n \in owed : n.kind = "R"}
  /\ Begin(w, "sweep", <<S>>)
  /\ UNCHANGED <<contractVars, paused, topicVars, bookingVars, historyVars>>

\* sweepMovie: the notices the journal still holds, the admissions first.
Sweep(w, S) ==
  /\ S # {}
  /\ S \subseteq owed
  /\ LET admits  == {n \in S : n.kind = "A"}
         revokes == {n \in S : n.kind = "R"}
     IN  Begin(w, "sweep", CASE admits = {}  -> <<revokes>>
                             [] revokes = {} -> <<admits>>
                             [] OTHER        -> <<admits, revokes>>)
  /\ UNCHANGED <<contractVars, paused, topicVars, bookingVars, historyVars>>

\* Mutant: the event carries the member of the journal, not the request id.
BrokerAppendsMembers(N) ==
  /\ inAdmissions' = inAdmissions \cup {n \in N : n.kind = "A"}
  /\ inRevoked' = inRevoked \cup {n \in N : n.kind = "R"}
  /\ atRisk' = atRisk \ N

\* The broker appends the notices of N.
BrokerAppends(N) ==
  /\ inAdmissions' = inAdmissions \cup UsersOf(N, "A")
  /\ inRevoked' = inRevoked \cup UsersOf(N, "R")
  /\ atRisk' = atRisk \ N

\* PublishEvents succeeds.
Publish(w) ==
  /\ job[w].batches # << >> /\ ~ job[w].sent
  /\ BrokerAppends(Head(job[w].batches))
  /\ job' = [job EXCEPT ![w].sent = TRUE]
  /\ UNCHANGED <<contractVars, paused, inCompleted, bookingVars, fresh, stay, grants>>

\* Mutant: the journal is cleared although the publication failed.
PublishFailsCleared(w) ==
  /\ job[w].batches # << >> /\ ~ job[w].sent
  /\ \E N \in SUBSET Head(job[w].batches) : BrokerAppends(N)
  /\ owed' = owed \ Head(job[w].batches)
  /\ job' = [job EXCEPT ![w] = NextBatch(@)]
  /\ paused' \in IF job[w].task = "promote" THEN {paused, TRUE} ELSE {paused}
  /\ UNCHANGED <<seated, queued, inCompleted, bookingVars, fresh, stay, grants>>

\* PublishEvents reports an error: any part of the batch may be in the broker.
\* The journal is kept; the promotion loop stops promotions for a while, if Redis
\* takes the flag.
PublishFails(w) ==
  /\ job[w].batches # << >> /\ ~ job[w].sent
  /\ \E N \in SUBSET Head(job[w].batches) : BrokerAppends(N)
  /\ job' = [job EXCEPT ![w] = NextBatch(@)]
  /\ paused' \in IF job[w].task = "promote" THEN {paused, TRUE} ELSE {paused}
  /\ UNCHANGED <<contractVars, inCompleted, bookingVars, fresh, stay, grants>>

\* ClearPending, by name, whatever became of the notice in the meantime.
Clear(w) ==
  /\ job[w].sent
  /\ owed' = owed \ Head(job[w].batches)
  /\ job' = [job EXCEPT ![w] = NextBatch(@)]
  /\ UNCHANGED <<seated, queued, paused, topicVars, bookingVars, historyVars>>

\* ClearPending reports an error: the sweep will publish once more.
ClearFails(w) ==
  /\ job[w].sent
  /\ job' = [job EXCEPT ![w] = NextBatch(@)]
  /\ UNCHANGED <<contractVars, paused, topicVars, bookingVars, historyVars>>

\* The pod dies.
Crash(w) ==
  /\ job[w] # Idle
  /\ job' = [job EXCEPT ![w] = Idle]
  /\ UNCHANGED <<contractVars, paused, topicVars, bookingVars, historyVars>>

\* Mutant: the flag is set without a TTL.
PauseEndsNever == paused /\ FALSE /\ UNCHANGED vars

\* The TTL of promote_pause.
PauseEnds ==
  /\ paused
  /\ paused' = FALSE
  /\ UNCHANGED <<contractVars, job, topicVars, bookingVars, historyVars>>

\* Seats are taken back: session timeout, leave, complete.
TakeBack(S, reason) ==
  /\ Revoke(S, reason)
  /\ reason # "SESSION_TIMEOUT" => Cardinality(S) = 1
  /\ Lost(S)
  /\ Recorded(RevokesFor(S, reason), AdmitsOf(S))
  /\ UNCHANGED <<queueVars, topicVars, bookingVars>>

\* Waiters leave, or stop polling.
GiveUp(S) ==
  /\ Abandon(S)
  /\ UNCHANGED <<queueVars, topicVars, bookingVars, historyVars>>
------------------------------------------------------------------------------
\* onAdmissions; the message may be delivered again.
ConsumeAdmission(u) ==
  /\ u \in inAdmissions
  /\ cert' = cert \cup {u}
  /\ fresh' = fresh \cup ({u} \cap seated)
  /\ inAdmissions' \in {inAdmissions, inAdmissions \ {u}}
  /\ Told(u, "A")
  /\ UNCHANGED <<contractVars, queueVars, inRevoked, inCompleted, confirm,
                 stay, grants>>

\* Mutant: the offset is committed although the deletion failed.
ConsumeRevocationInVain(u) ==
  /\ u \in inRevoked
  /\ cert' \in {cert, cert \ {u}}
  /\ inRevoked' \in {inRevoked, inRevoked \ {u}}
  /\ Told(u, "R")
  /\ UNCHANGED <<contractVars, queueVars, inAdmissions, inCompleted, confirm,
                 fresh, stay, grants>>

\* onExpiry; the message may be delivered again.
ConsumeRevocation(u) ==
  /\ u \in inRevoked
  /\ cert' = cert \ {u}
  /\ inRevoked' \in {inRevoked, inRevoked \ {u}}
  /\ Told(u, "R")
  /\ UNCHANGED <<contractVars, queueVars, inAdmissions, inCompleted, confirm,
                 fresh, stay, grants>>

\* The error handler gives a message up after its retries.
DeadLetter(u) ==
  /\ \/ /\ u \in inAdmissions
        /\ inAdmissions' = inAdmissions \ {u}
        /\ Told(u, "A")
        /\ UNCHANGED inRevoked
     \/ /\ u \in inRevoked
        /\ inRevoked' = inRevoked \ {u}
        /\ Told(u, "R")
        /\ UNCHANGED inAdmissions
  /\ stay' = [stay EXCEPT ![u] = "untold"]
  /\ UNCHANGED <<contractVars, queueVars, inCompleted, bookingVars, fresh, grants>>

\* The TTL (ADMITTED_TTL), counted from the latest SET, is longer than a seat
\* lasts (SESSION_TIMEOUT).
CertExpires(u) ==
  /\ u \in cert
  /\ u \notin fresh
  /\ cert' = cert \ {u}
  /\ UNCHANGED <<contractVars, queueVars, topicVars, confirm, historyVars>>

\* confirm passes the gate ...
ConfirmGate(u) ==
  /\ u \in Booker
  /\ confirm[u] = "none"
  /\ u \in cert
  /\ confirm' = [confirm EXCEPT ![u] = "paying"]
  /\ UNCHANGED <<contractVars, queueVars, topicVars, cert, historyVars>>

\* ... is refused, or dies, before the booking is stored ...
ConfirmRefused(u) ==
  /\ confirm[u] = "paying"
  /\ confirm' = [confirm EXCEPT ![u] = "none"]
  /\ UNCHANGED <<contractVars, queueVars, topicVars, cert, historyVars>>

\* ... or stores it and reports it (the report is sent without waiting for
\* the broker and may be lost) ...
ConfirmReport(u) ==
  /\ confirm[u] = "paying"
  /\ confirm' = [confirm EXCEPT ![u] = "reported"]
  /\ inCompleted' \in {inCompleted, inCompleted \cup {u}}
  /\ UNCHANGED <<contractVars, queueVars, inAdmissions, inRevoked, cert, historyVars>>

\* ... and last uses the certificate up.
ConfirmSpend(u) ==
  /\ confirm[u] = "reported"
  /\ confirm' = [confirm EXCEPT ![u] = "none"]
  /\ cert' = cert \ {u}
  /\ stay' = [stay EXCEPT ![u] =
                IF @ = "clean" /\ ~ AdmitOutstanding(u) THEN "booked" ELSE "mixed"]
  /\ UNCHANGED <<contractVars, queueVars, topicVars, fresh, atRisk, grants>>

\* The deletion fails or booking dies first: the TTL is left to do it.
ConfirmKeepsCert(u) ==
  /\ confirm[u] = "reported"
  /\ confirm' = [confirm EXCEPT ![u] = "none"]
  /\ stay' = [stay EXCEPT ![u] = "mixed"]
  /\ UNCHANGED <<contractVars, queueVars, topicVars, cert, fresh, atRisk, grants>>

\* ConsumeCompleted: CompleteActive, then the commit (which may be missed).
ConsumeCompleted(u) ==
  /\ u \in inCompleted
  /\ inCompleted' \in {inCompleted, inCompleted \ {u}}
  /\ IF u \in seated
     THEN Finish(u) /\ Lost({u}) /\ Recorded({}, AdmitsOf({u}))
     ELSE UNCHANGED <<contractVars, historyVars>>
  /\ UNCHANGED <<queueVars, inAdmissions, inRevoked, bookingVars>>

\* ConsumeCompleted, Redis fails: the message is not committed, but the commit
\* of a later one passes it by.
SkipCompleted(u) ==
  /\ u \in inCompleted
  /\ inCompleted' = inCompleted \ {u}
  /\ UNCHANGED <<contractVars, queueVars, inAdmissions, inRevoked, bookingVars,
                 historyVars>>
------------------------------------------------------------------------------
UserStep ==
  \/ \E u \in User :
       \/ EnterAdmitted(u)
       \/ EnterWaiting(u)
       \/ TakeBack({u}, "LEAVE")
       \/ TakeBack({u}, "COMPLETE")
  \/ \E S \in SUBSET User : GiveUp(S)

LoopStep ==
  \/ \E w \in Worker :
       \/ PromoteCheck(w)
       \/ PromoteCheckFails(w)
       \/ PromoteTick(w)
       \/ \E S \in SUBSET owed : Sweep(w, S)
       \/ Publish(w)
       \/ PublishFails(w)
       \/ Clear(w)
       \/ ClearFails(w)
       \/ Crash(w)
  \/ \E S \in SUBSET seated : TakeBack(S, "SESSION_TIMEOUT")
  \/ PauseEnds

BookingStep ==
  \E u \in User :
    \/ ConsumeAdmission(u)
    \/ ConsumeRevocation(u)
    \/ DeadLetter(u)
    \/ CertExpires(u)
    \/ ConfirmGate(u)
    \/ ConfirmRefused(u)
    \/ ConfirmReport(u)
    \/ ConfirmSpend(u)
    \/ ConfirmKeepsCert(u)
    \/ ConsumeCompleted(u)
    \/ SkipCompleted(u)

Next == UserStep \/ LoopStep \/ BookingStep

WorkerStep(w) ==
  Publish(w) \/ PublishFails(w) \/ Clear(w) \/ ClearFails(w) \/ PromoteTick(w)

\* A goroutine that lives takes its next step.
WorkersRun == \A w \in Worker : WF_vars(WorkerStep(w))

\* The promotion loop comes round again and again, and now and then gets as far
\* as the script, whatever dies.  It needs no publication to succeed.
LineFairness ==
  /\ WorkersRun
  /\ SF_vars(\E w \in Worker : PromoteCheck(w))
  /\ SF_vars(\E w \in Worker : PromoteTick(w))
  /\ WF_vars(PauseEnds)

SweepOf(u, kind) ==
  \E w \in Worker : \E S \in SUBSET owed : u \in UsersOf(S, kind) /\ Sweep(w, S)

PublishOf(u, kind) ==
  \E w \in Worker :
    /\ job[w].batches # << >>
    /\ u \in UsersOf(Head(job[w].batches), kind)
    /\ Publish(w)

\* The sweep takes the oldest notices first and so passes nobody over for ever;
\* a publication that is tried again and again succeeds some day; the consumers
\* of booking go on polling, and a confirm that has begun to end ends.  Users
\* and the clean-up of the journal owe nothing.
DeliveryFairness ==
  /\ WorkersRun
  /\ \A u \in User :
       /\ SF_vars(SweepOf(u, "A")) /\ SF_vars(PublishOf(u, "A"))
       /\ SF_vars(SweepOf(u, "R")) /\ SF_vars(PublishOf(u, "R"))
       /\ WF_vars(ConsumeAdmission(u)) /\ WF_vars(ConsumeRevocation(u))
       /\ WF_vars(ConfirmSpend(u) \/ ConfirmKeepsCert(u))

SafeSpec == Init /\ [][Next]_vars
DeliverySpec == SafeSpec /\ DeliveryFairness

\* booking is down: the topics are written and never read.
LineSpec == Init /\ [][UserStep \/ LoopStep]_vars /\ LineFairness
------------------------------------------------------------------------------
\* Types; a certificate counts as fresh only during the stay it was set in.
FlowTypeOK ==
  /\ ContractTypeOK
  /\ job \in [Worker -> Jobs]
  /\ paused \in BOOLEAN
  /\ inAdmissions \subseteq User /\ inRevoked \subseteq User /\ inCompleted \subseteq User
  /\ cert \subseteq User
  /\ confirm \in [User -> {"none", "paying", "reported"}]
  /\ fresh \subseteq seated
  /\ stay \in [User -> {"clean", "booked", "mixed", "untold"}]
  /\ atRisk \subseteq Notice
  /\ grants \in 0 .. MaxGrants

\* A user whose stay met no leftovers of an earlier one (and no dead letter) and
\* whose admission is neither recorded nor underway passes booking's gate: no death of a pod, lost
\* answer, failed publication or duplicate leaves a seat holder with a 403
\* (sweep.go:15-20, the first hole).
CleanSeatCertified ==
  \A u \in seated :
    stay[u] = "clean" /\ ~ AdmitOutstanding(u) => u \in cert

\* The latest stay of u met nothing of an earlier one, and every message arrived.
Unmixed(u) == stay[u] \in {"clean", "booked"}

\* A user whose stay was clean to its end and whose seat is gone does not pass
\* the gate, once nothing more is on its way (sweep.go:18, the second hole;
\* leave.go:13-16; the certificate of a booking is deleted by booking itself).
CleanExitDecertified ==
  \A u \in User \ seated :
    Unmixed(u) /\ ~ RevokeUnderway(u) /\ confirm[u] = "none" => u \notin cert

\* A clean stay reaches the certificate, unless it ends first: the journal and
\* the sweep make up for whatever fails (promote.go:17-19, sweep.go:20).
CleanSeatReached ==
  \A u \in User :
    (u \in seated /\ stay[u] = "clean")
      ~> (u \in cert \/ u \notin seated \/ stay[u] # "clean")

\* A seat that is lost closes the gate in the end, without help from the TTL
\* (AdmissionExpiryConsumer.java:15-17).
LostSeatClosed ==
  \A u \in User :
    (u \notin seated /\ Unmixed(u))
      ~> (u \notin cert \/ u \in seated \/ ~ Unmixed(u))

\* A free seat and a waiter do not stay side by side: the pause that a failed
\* publication sets ends by itself (pending.go:89-98), even if booking is down,
\* every publication fails and pods keep dying.
LineMoves ==
  (queued # {} /\ Cardinality(seated) < MaxSessions)
    ~> (queued = {} \/ Cardinality(seated) = MaxSessions \/ grants = MaxGrants)
------------------------------------------------------------------------------
(* What comments of the code say without the restriction to clean stays.     *)

\* "The loop closes both holes" (sweep.go:15-20): nobody is inside on the queue's
\* side and unknown to booking once every notice has been delivered.
EverySeatCertified ==
  \A u \in seated : Settled(u) /\ stay[u] # "untold" => u \in cert

\* "Admissions and revocations of one user are processed in order ... otherwise a
\* certificate already deleted comes back to life" (README.md:192-197,
\* AdmissionExpiryConsumer.java:22-23): a certificate is never set for a user
\* whose seat is gone and whose revocation has been processed.
NeverRevived ==
  [][\A u \in cert' \ cert : u \in seated \/ RevokeUnderway(u) \/ stay[u] = "untold"]_vars

\* "A notice is erased only after its publication" (sweep.go:19): a notice that
\* was recorded is in the journal or has been told to booking since.
NoNoticeLost ==
  \A n \in atRisk : n \in owed \/ n.user \in (IF n.kind = "A" THEN inAdmissions ELSE inRevoked)
==============================================================================
