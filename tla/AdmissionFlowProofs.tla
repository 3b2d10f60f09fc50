------------------------ MODULE AdmissionFlowProofs ------------------------
(***************************************************************************)
(* Proofs about the way from a seat to a certificate, for any number of    *)
(* users, seats, goroutines and grants: a clean stay ends up with its      *)
(* certificate and leaves none behind, and the flow keeps the contract of  *)
(* the queue.                                                              *)
(***************************************************************************)
EXTENDS AdmissionFlow, FiniteSetTheorems, SequenceTheorems, TLAPS

USE FlowAssumption
------------------------------------------------------------------------------
(* The invariants.                                                           *)

\* Only finitely many users have come, and nobody is in two places.
Places == IsFiniteSet(seated) /\ IsFiniteSet(queued) /\ seated \cap queued = {}

\* A publication that has succeeded is one of a batch.
SentSomething == \A w \in Worker : job[w].sent => job[w].batches # << >>

\* Some goroutine has a notice of this kind about u in one of its batches.
InJobs(u, kind) ==
  \E w \in Worker : \E i \in 1 .. Len(job[w].batches) : u \in UsersOf(job[w].batches[i], kind)

\* Some goroutine has published such a notice and is about to strike it off.
InClearing(u, kind) ==
  \E w \in Worker : job[w].sent /\ u \in UsersOf(Head(job[w].batches), kind)

\* While a clean stay lasts nothing takes its certificate away, and until booking
\* has got the admission it is in the journal or in the topic, however many copies
\* of it the goroutines publish and strike off.
SeatInv(u) ==
  u \in seated /\ stay[u] = "clean" =>
    /\ u \notin UsersOf(owed, "R") \cup inRevoked
    /\ ~ InJobs(u, "R")
    /\ InClearing(u, "A") => u \in inAdmissions \cup fresh
    /\ u \in UsersOf(owed, "A") \cup inAdmissions \cup fresh
    /\ u \in fresh => u \in cert

\* After a clean stay, no admission comes any more, and until booking has got the
\* revocation it is in the journal or in the topic, or a booking is about to use
\* the certificate up.
ExitInv(u) ==
  /\ stay[u] = "clean" /\ u \in inCompleted => confirm[u] = "reported"
  /\ Unmixed(u) /\ (u \notin seated \/ stay[u] = "booked") => ~ AdmitOutstanding(u)
  /\ stay[u] = "booked" => u \notin cert
  /\ stay[u] = "clean" /\ u \notin seated /\ u \in cert =>
       /\ u \in UsersOf(owed, "R") \cup inRevoked \/ confirm[u] = "reported"
       /\ InClearing(u, "R") => u \in inRevoked \/ confirm[u] = "reported"

\* The inductive invariant.
FlowInv ==
  /\ FlowTypeOK /\ Places /\ SentSomething
  /\ \A u \in User : SeatInv(u) /\ ExitInv(u)
------------------------------------------------------------------------------
(* The batches of a job.                                                     *)

\* A goroutine has yet to publish such a notice.
Publishing(u, kind) == \E w \in Worker : u \in UsersOf(ToPublish(job[w]), kind)

\* A batch of notices is fit for a job.
LEMMA JobTypes ==
  ASSUME NEW task \in {"idle", "checked", "enter", "promote", "sweep"},
         NEW b \in Seq(SUBSET Notice)
  PROVE  [task |-> task, batches |-> b, sent |-> FALSE] \in Jobs
BY DEF Jobs

\* The idle goroutine has nothing to publish.
LEMMA IdleJob ==
  /\ Idle \in Jobs /\ ~ Idle.sent /\ Idle.batches = << >> /\ Len(Idle.batches) = 0
  /\ ToPublish(Idle) = {}
<1>1. << >> \in Seq(SUBSET Notice) /\ Len(<< >>) = 0
  OBVIOUS
<1> QED
  BY <1>1 DEF Idle, Jobs, ToPublish

\* What is left of a job after its first batch was in it before.
LEMMA NextBatchShrinks ==
  ASSUME NEW j \in Jobs, j.batches # << >>
  PROVE  /\ NextBatch(j) \in Jobs /\ ~ NextBatch(j).sent
         /\ \A i \in 1 .. Len(NextBatch(j).batches) :
              /\ i + 1 \in 2 .. Len(j.batches)
              /\ NextBatch(j).batches[i] = j.batches[i + 1]
         /\ ToPublish(NextBatch(j)) \subseteq ToPublish(j)
<1>1. CASE Len(j.batches) > 1
  <2> DEFINE t == Tail(j.batches)
  <2>1. j.batches \in Seq(SUBSET Notice) /\ Len(j.batches) \in Nat
    BY DEF Jobs
  <2>2. t \in Seq(SUBSET Notice) /\ Len(t) = Len(j.batches) - 1
    BY <1>1, <2>1
  <2>3. \A i \in 1 .. Len(t) : t[i] = j.batches[i + 1]
    BY <1>1, <2>1, <2>2
  <2>4. NextBatch(j) = [j EXCEPT !.batches = t, !.sent = FALSE]
    BY <1>1 DEF NextBatch
  <2>5. NextBatch(j) \in Jobs /\ NextBatch(j).batches = t /\ NextBatch(j).sent = FALSE
    BY <2>2, <2>4 DEF Jobs
  <2> HIDE DEF t
  <2>6. ToPublish(NextBatch(j)) = UNION {t[i] : i \in 1 .. Len(t)}
    BY <2>5 DEF ToPublish
  <2>7. ToPublish(NextBatch(j)) \subseteq ToPublish(j)
    <3>1. SUFFICES ASSUME NEW n, NEW i \in 1 .. Len(t), n \in t[i] PROVE n \in ToPublish(j)
      BY <2>6
    <3>2. i + 1 \in 2 .. Len(j.batches) /\ n \in j.batches[i + 1]
      BY <2>1, <2>2, <2>3, <3>1
    <3>3. i + 1 \in (IF j.sent THEN 2 ELSE 1) .. Len(j.batches)
      BY <2>1, <3>2
    <3> QED
      BY <3>2, <3>3 DEF ToPublish
  <2> QED
    BY <2>1, <2>2, <2>3, <2>5, <2>7
<1>2. CASE ~ (Len(j.batches) > 1)
  BY <1>2, IdleJob DEF NextBatch
<1> QED
  BY <1>1, <1>2

\* The batch a goroutine is at.
LEMMA FirstBatch ==
  ASSUME NEW j \in Jobs, j.batches # << >>
  PROVE  /\ 1 \in 1 .. Len(j.batches) /\ Len(j.batches) \in Nat
         /\ Head(j.batches) = j.batches[1]
         /\ Head(j.batches) \subseteq Notice
<1>1. j.batches \in Seq(SUBSET Notice)
  BY DEF Jobs
<1> QED
  BY <1>1

\* The users a set of notices is about.
LEMMA UsersOfNotices ==
  ASSUME NEW N \in SUBSET Notice, NEW kind
  PROVE  /\ UsersOf(N, kind) \subseteq User
         /\ \A u : u \in UsersOf(N, kind) <=> \E n \in N : n.kind = kind /\ n.user = u
BY DEF UsersOf, Notice, AdmitNotice, RevokeNotice

\* What the scripts record.
LEMMA RecordedNotices ==
  ASSUME NEW S \in SUBSET User
  PROVE  /\ \A reason \in AdmitReason :
              /\ AdmitsFor(S, reason) \subseteq Notice
              /\ UsersOf(AdmitsFor(S, reason), "A") = S
              /\ UsersOf(AdmitsFor(S, reason), "R") = {}
         /\ \A reason \in RevokeReason :
              /\ RevokesFor(S, reason) \subseteq Notice
              /\ UsersOf(RevokesFor(S, reason), "R") = S
              /\ UsersOf(RevokesFor(S, reason), "A") = {}
<1>1. ASSUME NEW reason \in AdmitReason
      PROVE  /\ AdmitsFor(S, reason) \subseteq Notice
             /\ UsersOf(AdmitsFor(S, reason), "A") = S
             /\ UsersOf(AdmitsFor(S, reason), "R") = {}
  <2>1. AdmitsFor(S, reason) \subseteq Notice
    BY DEF AdmitsFor, Notice, AdmitNotice
  <2>2. ASSUME NEW u \in S PROVE \E n \in AdmitsFor(S, reason) : n.kind = "A" /\ n.user = u
    <3>1. [kind |-> "A", reason |-> reason, user |-> u] \in AdmitsFor(S, reason)
      BY DEF AdmitsFor
    <3> QED
      BY <3>1
  <2>3. \A n \in AdmitsFor(S, reason) : n.kind = "A" /\ n.user \in S
    BY DEF AdmitsFor
  <2>4. \A kind, u : u \in UsersOf(AdmitsFor(S, reason), kind)
                        <=> \E n \in AdmitsFor(S, reason) : n.kind = kind /\ n.user = u
    BY DEF UsersOf
  <2> QED
    BY <2>1, <2>2, <2>3, <2>4
<1>2. ASSUME NEW reason \in RevokeReason
      PROVE  /\ RevokesFor(S, reason) \subseteq Notice
             /\ UsersOf(RevokesFor(S, reason), "R") = S
             /\ UsersOf(RevokesFor(S, reason), "A") = {}
  <2>1. RevokesFor(S, reason) \subseteq Notice
    BY DEF RevokesFor, Notice, RevokeNotice
  <2>2. ASSUME NEW u \in S PROVE \E n \in RevokesFor(S, reason) : n.kind = "R" /\ n.user = u
    <3>1. [kind |-> "R", reason |-> reason, user |-> u] \in RevokesFor(S, reason)
      BY DEF RevokesFor
    <3> QED
      BY <3>1
  <2>3. \A n \in RevokesFor(S, reason) : n.kind = "R" /\ n.user \in S
    BY DEF RevokesFor
  <2>4. \A kind, u : u \in UsersOf(RevokesFor(S, reason), kind)
                        <=> \E n \in RevokesFor(S, reason) : n.kind = kind /\ n.user = u
    BY DEF UsersOf
  <2> QED
    BY <2>1, <2>2, <2>3, <2>4
<1> QED
  BY <1>1, <1>2
------------------------------------------------------------------------------
(* The steps, by what they do.                                               *)

\* Seats are granted ...
Grants == (\E u \in User : EnterAdmitted(u)) \/ (\E w \in Worker : PromoteTick(w))

\* ... and lost.
Losses ==
  \/ \E S \in SUBSET User, reason \in RevokeReason : TakeBack(S, reason)
  \/ \E u \in User : ConsumeCompleted(u)

\* The line changes, or the pause.
LineMovesOn ==
  (\E u \in User : EnterWaiting(u)) \/ (\E S \in SUBSET User : GiveUp(S)) \/ PauseEnds

\* A goroutine begins, ends, or goes on.
JobMoves(w) ==
  \/ PromoteCheck(w) \/ PromoteCheckFails(w) \/ Crash(w)
  \/ \E S \in SUBSET owed : Sweep(w, S)
  \/ Publish(w) \/ PublishFails(w) \/ Clear(w) \/ ClearFails(w)

\* booking consumes what it is told, or does not ...
Consumes(u) ==
  ConsumeAdmission(u) \/ ConsumeRevocation(u) \/ DeadLetter(u) \/ CertExpires(u)

\* ... and confirms.
Confirms(u) ==
  \/ ConfirmGate(u) \/ ConfirmRefused(u) \/ ConfirmReport(u) \/ ConfirmSpend(u)
  \/ ConfirmKeepsCert(u) \/ SkipCompleted(u)

\* These are all steps.
LEMMA Split ==
  ASSUME FlowTypeOK, Next
  PROVE  \/ Grants \/ Losses \/ LineMovesOn
         \/ \E w \in Worker : JobMoves(w)
         \/ \E u \in User : Consumes(u) \/ Confirms(u)
<1>1. {"LEAVE", "COMPLETE", "SESSION_TIMEOUT"} \subseteq RevokeReason
  BY DEF RevokeReason
<1>2. seated \subseteq User
  BY DEF FlowTypeOK, ContractTypeOK
<1>3. CASE UserStep
  BY <1>1, <1>3 DEF UserStep, Grants, Losses, LineMovesOn
<1>4. CASE LoopStep
  <2>1. ASSUME NEW S \in SUBSET seated, TakeBack(S, "SESSION_TIMEOUT") PROVE Losses
    BY <1>1, <1>2, <2>1 DEF Losses
  <2> QED
    BY <1>4, <2>1 DEF LoopStep, Grants, LineMovesOn, JobMoves
<1>5. CASE BookingStep
  BY <1>5 DEF BookingStep, Losses, Consumes, Confirms
<1> QED
  BY <1>3, <1>4, <1>5 DEF Next
------------------------------------------------------------------------------
(* Types.                                                                    *)

TypeInv == FlowTypeOK /\ Places /\ SentSomething

\* What a history of the journal records are notices.
LEMMA RecordedType ==
  ASSUME atRisk \subseteq Notice, NEW N \in SUBSET Notice, NEW C, Recorded(N, C)
  PROVE  atRisk' \subseteq Notice
BY DEF Recorded

\* A publication leaves the types of the topics.
LEMMA BrokerType ==
  ASSUME FlowTypeOK, NEW N \in SUBSET Notice, BrokerAppends(N)
  PROVE  inAdmissions' \subseteq User /\ inRevoked' \subseteq User /\ atRisk' \subseteq Notice
<1>1. UsersOf(N, "A") \subseteq User /\ UsersOf(N, "R") \subseteq User
  BY UsersOfNotices
<1> QED
  BY <1>1 DEF FlowTypeOK, BrokerAppends

\* A finite set of users gets seats.
LEMMA GrantedType ==
  ASSUME FlowTypeOK, NEW S \in SUBSET User, IsFiniteSet(S), Granted(S)
  PROVE  /\ grants' \in 0 .. MaxGrants
         /\ stay' \in [User -> {"clean", "booked", "mixed", "untold"}]
         /\ fresh' = fresh
<1>1. Cardinality(S) \in Nat
  BY FS_CardinalityType
<1>2. grants' \in 0 .. MaxGrants
  BY <1>1 DEF Granted, FlowTypeOK
<1>3. stay' = [u \in User |-> IF u \notin S THEN stay[u]
                              ELSE IF Settled(u) THEN "clean" ELSE "mixed"]
  BY DEF Granted
<1>4. stay \in [User -> {"clean", "booked", "mixed", "untold"}]
  BY DEF FlowTypeOK
<1>5. stay' \in [User -> {"clean", "booked", "mixed", "untold"}]
  BY <1>3, <1>4
<1> QED
  BY <1>2, <1>5 DEF Granted

\* A goroutine gets a job.
LEMMA JobSet ==
  ASSUME TypeInv, NEW w \in Worker, NEW j \in Jobs, j.sent => j.batches # << >>,
         job' = [job EXCEPT ![w] = j]
  PROVE  job' \in [Worker -> Jobs] /\ SentSomething'
BY DEF TypeInv, FlowTypeOK, SentSomething

\* Seats are granted.
LEMMA TypeGrants ==
  ASSUME TypeInv, Grants
  PROVE  TypeInv'
<1> USE DEF TypeInv, Places
<1>1. ASSUME NEW u \in User, EnterAdmitted(u) PROVE TypeInv'
  <2>1. IsFiniteSet({u}) /\ IsFiniteSet(seated \cup {u})
    BY FS_Singleton, FS_Union
  <2>2. AdmitsFor({u}, "ENTER") \subseteq Notice
    BY RecordedNotices DEF AdmitReason
  <2>3. seated' = seated \cup {u} /\ queued' = queued
    BY <1>1 DEF EnterAdmitted, Admit
  <2>4. Places'
    BY <1>1, <2>1, <2>3 DEF EnterAdmitted, Admit
  <2>5. ContractTypeOK'
    BY <1>1, <2>2 DEF EnterAdmitted, Admit, ContractTypeOK, FlowTypeOK
  <2>6. <<AdmitsFor({u}, "ENTER")>> \in Seq(SUBSET Notice)
    BY <2>2
  <2>7. job' \in [Worker -> Jobs] /\ SentSomething'
    <3>1. \/ job' = job
          \/ \E w \in Worker : job' = [job EXCEPT ![w] =
               [task |-> "enter", batches |-> <<AdmitsFor({u}, "ENTER")>>, sent |-> FALSE]]
      BY <1>1 DEF EnterAdmitted, Begin
    <3>2. [task |-> "enter", batches |-> <<AdmitsFor({u}, "ENTER")>>, sent |-> FALSE] \in Jobs
      BY <2>6, JobTypes
    <3>3. CASE job' = job
      BY <3>3 DEF FlowTypeOK, SentSomething
    <3> QED
      BY <3>1, <3>2, <3>3, JobSet
  <2>8. atRisk' \subseteq Notice
    BY <1>1, <2>2, RecordedType DEF EnterAdmitted, FlowTypeOK
  <2>9. /\ grants' \in 0 .. MaxGrants
        /\ stay' \in [User -> {"clean", "booked", "mixed", "untold"}]
        /\ fresh' = fresh
    BY <1>1, <2>1, GrantedType DEF EnterAdmitted
  <2> QED
    BY <1>1, <2>3, <2>4, <2>5, <2>7, <2>8, <2>9
       DEF EnterAdmitted, FlowTypeOK, topicVars, bookingVars
<1>2. ASSUME NEW w \in Worker, PromoteTick(w) PROVE TypeInv'
  <2>1. CASE UNCHANGED <<contractVars, historyVars>> /\ job' = [job EXCEPT ![w] = Idle]
    BY <1>2, <2>1, IdleJob DEF PromoteTick, contractVars, historyVars, topicVars, bookingVars,
       FlowTypeOK, ContractTypeOK, SentSomething
  <2>2. ASSUME NEW S \in SUBSET queued, PromoteAll(S), Granted(S),
               Recorded(AdmitsFor(S, "PROMOTE"), {}),
               job' = [job EXCEPT ![w] = [task |-> "promote", sent |-> FALSE,
                                          batches |-> <<AdmitsFor(S, "PROMOTE")>>]]
        PROVE  TypeInv'
    <3>1. IsFiniteSet(S) /\ IsFiniteSet(seated \cup S) /\ IsFiniteSet(queued \ S)
      BY FS_Subset, FS_Union, FS_Difference
    <3>2. S \subseteq User
      BY DEF FlowTypeOK, ContractTypeOK
    <3>3. AdmitsFor(S, "PROMOTE") \subseteq Notice
      BY <3>2, RecordedNotices DEF AdmitReason
    <3>4. Places'
      BY <2>2, <3>1 DEF PromoteAll
    <3>5. ContractTypeOK'
      BY <2>2, <3>2, <3>3 DEF PromoteAll, ContractTypeOK, FlowTypeOK
    <3>6. <<AdmitsFor(S, "PROMOTE")>> \in Seq(SUBSET Notice)
      BY <3>3
    <3>7. [task |-> "promote", batches |-> <<AdmitsFor(S, "PROMOTE")>>, sent |-> FALSE] \in Jobs
      BY <3>6, JobTypes
    <3>8. job' \in [Worker -> Jobs] /\ SentSomething'
      BY <2>2, <3>7 DEF FlowTypeOK, SentSomething
    <3>9. atRisk' \subseteq Notice
      BY <2>2, <3>3, RecordedType DEF FlowTypeOK
    <3>10. /\ grants' \in 0 .. MaxGrants
           /\ stay' \in [User -> {"clean", "booked", "mixed", "untold"}]
           /\ fresh' = fresh /\ seated \subseteq seated'
      BY <2>2, <3>1, <3>2, GrantedType DEF PromoteAll
    <3> QED
      BY <1>2, <3>4, <3>5, <3>8, <3>9, <3>10
         DEF PromoteTick, FlowTypeOK, topicVars, bookingVars
  <2> QED
    BY <1>2, <2>1, <2>2 DEF PromoteTick
<1> QED
  BY <1>1, <1>2 DEF Grants

\* Seats are lost.
LEMMA TypeLosses ==
  ASSUME TypeInv, Losses
  PROVE  TypeInv'
<1> USE DEF TypeInv, Places
<1>1. ASSUME NEW S \in SUBSET User, Lost(S)
      PROVE  /\ stay' \in [User -> {"clean", "booked", "mixed", "untold"}]
             /\ fresh' = fresh \ S /\ grants' = grants
  BY <1>1 DEF Lost, FlowTypeOK
<1>2. ASSUME NEW S \in SUBSET User, NEW reason \in RevokeReason, TakeBack(S, reason)
      PROVE  TypeInv'
  <2>1. IsFiniteSet(seated \ S)
    BY FS_Difference
  <2>2. RevokesFor(S, reason) \subseteq Notice
    BY RecordedNotices
  <2>3. atRisk' \subseteq Notice
    BY <1>2, <2>2, RecordedType DEF TakeBack, FlowTypeOK
  <2>4. ContractTypeOK'
    BY <1>2, <2>2 DEF TakeBack, Revoke, ContractTypeOK, FlowTypeOK
  <2>5. Places'
    BY <1>2, <2>1 DEF TakeBack, Revoke
  <2>6. SentSomething'
    BY <1>2 DEF TakeBack, queueVars, SentSomething
  <2> QED
    BY <1>1, <1>2, <2>3, <2>4, <2>5, <2>6
       DEF TakeBack, Revoke, FlowTypeOK, queueVars, topicVars, bookingVars
<1>3. ASSUME NEW u \in User, ConsumeCompleted(u) PROVE TypeInv'
  <2>1. SentSomething'
    BY <1>3 DEF ConsumeCompleted, queueVars, SentSomething
  <2>2. CASE u \in seated
    <3>1. IsFiniteSet(seated \ {u})
      BY FS_Difference
    <3>2. atRisk' \subseteq Notice
      BY <1>3, <2>2, RecordedType DEF ConsumeCompleted, FlowTypeOK
    <3>3. ContractTypeOK'
      BY <1>3, <2>2 DEF ConsumeCompleted, Finish, ContractTypeOK, FlowTypeOK
    <3>4. Places'
      BY <1>3, <2>2, <3>1 DEF ConsumeCompleted, Finish
    <3> QED
      BY <1>1, <1>3, <2>1, <2>2, <3>2, <3>3, <3>4
         DEF ConsumeCompleted, Finish, FlowTypeOK, queueVars, bookingVars
  <2>3. CASE u \notin seated
    BY <1>3, <2>1, <2>3
       DEF ConsumeCompleted, FlowTypeOK, ContractTypeOK, contractVars, historyVars, queueVars,
           bookingVars
  <2> QED
    BY <2>2, <2>3
<1> QED
  BY <1>2, <1>3 DEF Losses

\* The sweep's batches.
LEMMA SweepBatches ==
  ASSUME FlowTypeOK, NEW w \in Worker, NEW S \in SUBSET owed, Sweep(w, S)
  PROVE  \E b \in Seq(SUBSET owed) :
           /\ job[w] = Idle
           /\ job' = [job EXCEPT ![w] = [task |-> "sweep", batches |-> b, sent |-> FALSE]]
<1> DEFINE admits  == {n \in S : n.kind = "A"}
           revokes == {n \in S : n.kind = "R"}
           b == CASE admits = {}  -> <<revokes>>
                  [] revokes = {} -> <<admits>>
                  [] OTHER        -> <<admits, revokes>>
<1>1. b \in Seq(SUBSET owed)
  <2>1. admits \in SUBSET owed /\ revokes \in SUBSET owed
    OBVIOUS
  <2> HIDE DEF admits, revokes
  <2>2. \A x, y \in SUBSET owed : <<x>> \in Seq(SUBSET owed) /\ <<x, y>> \in Seq(SUBSET owed)
    OBVIOUS
  <2>3. b \in {<<admits>>, <<revokes>>, <<admits, revokes>>}
    OBVIOUS
  <2> QED
    BY <2>1, <2>2, <2>3
<1>2. Begin(w, "sweep", b)
  BY DEF Sweep
<1> QED
  BY <1>1, <1>2 DEF Begin

\* The goroutines go on.
LEMMA TypeJobs ==
  ASSUME TypeInv, NEW w \in Worker, JobMoves(w)
  PROVE  TypeInv'
<1> USE DEF TypeInv
<1> DEFINE Rest == <<contractVars, topicVars, bookingVars, historyVars>>
<1>1. ASSUME UNCHANGED Rest, paused' \in BOOLEAN,
             job' \in [Worker -> Jobs], SentSomething'
      PROVE  TypeInv'
  BY <1>1 DEF FlowTypeOK, ContractTypeOK, Places, contractVars, topicVars, bookingVars, historyVars
<1>2. CASE PromoteCheck(w) \/ PromoteCheckFails(w)
  <2>1. << >> \in Seq(SUBSET Notice)
    OBVIOUS
  <2>2. [task |-> "checked", batches |-> << >>, sent |-> FALSE] \in Jobs
    BY <2>1, JobTypes
  <2>3. job' \in [Worker -> Jobs] /\ SentSomething'
    BY <1>2, <2>2, JobSet DEF PromoteCheck, PromoteCheckFails, Begin
  <2> QED
    BY <1>1, <1>2, <2>3 DEF PromoteCheck, PromoteCheckFails, FlowTypeOK
<1>3. CASE Crash(w)
  BY <1>1, <1>3, JobSet, IdleJob DEF Crash, FlowTypeOK
<1>4. ASSUME NEW S \in SUBSET owed, Sweep(w, S) PROVE TypeInv'
  <2>1. PICK b \in Seq(SUBSET owed) :
          job' = [job EXCEPT ![w] = [task |-> "sweep", batches |-> b, sent |-> FALSE]]
    BY <1>4, SweepBatches
  <2>2. owed \subseteq Notice
    BY DEF FlowTypeOK, ContractTypeOK
  <2>3. b \in Seq(SUBSET Notice)
    BY <2>2
  <2>4. [task |-> "sweep", batches |-> b, sent |-> FALSE] \in Jobs
    BY <2>3, JobTypes
  <2>5. job' \in [Worker -> Jobs] /\ SentSomething'
    BY <2>1, <2>4, JobSet
  <2> QED
    BY <1>1, <1>4, <2>5 DEF Sweep, FlowTypeOK
<1>5. job[w] \in Jobs
  BY DEF FlowTypeOK
<1>6. ASSUME job[w].batches # << >>, job' = [job EXCEPT ![w] = NextBatch(@)]
      PROVE  job' \in [Worker -> Jobs] /\ SentSomething'
  <2>1. job' = [job EXCEPT ![w] = NextBatch(job[w])]
    BY <1>6
  <2> QED
    BY <1>5, <1>6, <2>1, NextBatchShrinks, JobSet
<1>7. CASE Publish(w)
  <2>1. Head(job[w].batches) \subseteq Notice
    BY <1>5, <1>7, FirstBatch DEF Publish
  <2>2. inAdmissions' \subseteq User /\ inRevoked' \subseteq User /\ atRisk' \subseteq Notice
    BY <1>7, <2>1, BrokerType DEF Publish
  <2>3. [job[w] EXCEPT !.sent = TRUE] \in Jobs
    BY <1>5 DEF Jobs
  <2>4. job' = [job EXCEPT ![w] = [job[w] EXCEPT !.sent = TRUE]]
    BY <1>7 DEF Publish
  <2>5. [job[w] EXCEPT !.sent = TRUE].batches # << >>
    BY <1>5, <1>7 DEF Publish, Jobs
  <2>6. job' \in [Worker -> Jobs] /\ SentSomething'
    BY <2>3, <2>4, <2>5, JobSet
  <2> QED
    BY <1>7, <2>2, <2>6
       DEF Publish, FlowTypeOK, ContractTypeOK, Places, contractVars, bookingVars
<1>8. CASE PublishFails(w)
  <2>1. PICK N \in SUBSET Head(job[w].batches) : BrokerAppends(N)
    BY <1>8 DEF PublishFails
  <2>2. N \subseteq Notice
    BY <1>5, <1>8, FirstBatch DEF PublishFails
  <2>3. inAdmissions' \subseteq User /\ inRevoked' \subseteq User /\ atRisk' \subseteq Notice
    BY <2>1, <2>2, BrokerType
  <2>4. job' \in [Worker -> Jobs] /\ SentSomething'
    BY <1>6, <1>8 DEF PublishFails
  <2> QED
    BY <1>8, <2>3, <2>4
       DEF PublishFails, FlowTypeOK, ContractTypeOK, Places, contractVars, bookingVars
<1>9. CASE Clear(w) \/ ClearFails(w)
  <2>1. job' \in [Worker -> Jobs] /\ SentSomething'
    BY <1>6, <1>9 DEF Clear, ClearFails, SentSomething
  <2>2. CASE Clear(w)
    BY <2>1, <2>2 DEF Clear, FlowTypeOK, ContractTypeOK, Places, topicVars, bookingVars, historyVars
  <2>3. CASE ClearFails(w)
    BY <1>1, <2>1, <2>3 DEF ClearFails, FlowTypeOK
  <2> QED
    BY <1>9, <2>2, <2>3
<1> QED
  BY <1>2, <1>3, <1>4, <1>7, <1>8, <1>9 DEF JobMoves

\* booking consumes.
LEMMA TypeConsumes ==
  ASSUME TypeInv, NEW u \in User, Consumes(u) \/ Confirms(u)
  PROVE  TypeInv'
<1> USE DEF TypeInv, Places, FlowTypeOK, ContractTypeOK, SentSomething, contractVars, queueVars,
            topicVars, bookingVars, historyVars
<1>1. CASE ConsumeAdmission(u) \/ ConsumeRevocation(u)
  BY <1>1 DEF ConsumeAdmission, ConsumeRevocation, Told
<1>2. CASE DeadLetter(u)
  BY <1>2 DEF DeadLetter, Told
<1>3. CASE CertExpires(u)
  BY <1>3 DEF CertExpires
<1>4. CASE ConfirmGate(u) \/ ConfirmRefused(u) \/ ConfirmReport(u)
  BY <1>4 DEF ConfirmGate, ConfirmRefused, ConfirmReport
<1>5. CASE ConfirmSpend(u) \/ ConfirmKeepsCert(u)
  BY <1>5 DEF ConfirmSpend, ConfirmKeepsCert
<1>6. CASE SkipCompleted(u)
  BY <1>6 DEF SkipCompleted
<1> QED
  BY <1>1, <1>2, <1>3, <1>4, <1>5, <1>6 DEF Consumes, Confirms

\* The line moves on.
LEMMA TypeLine ==
  ASSUME TypeInv, LineMovesOn
  PROVE  TypeInv'
<1> USE DEF TypeInv, Places, FlowTypeOK, ContractTypeOK, SentSomething, queueVars,
            topicVars, bookingVars, historyVars
<1>1. ASSUME NEW u \in User, EnterWaiting(u) PROVE TypeInv'
  <2>1. IsFiniteSet(queued \cup {u})
    BY FS_Singleton, FS_Union
  <2> QED
    BY <1>1, <2>1 DEF EnterWaiting, Join
<1>2. ASSUME NEW S \in SUBSET User, GiveUp(S) PROVE TypeInv'
  <2>1. IsFiniteSet(queued \ S)
    BY FS_Difference
  <2> QED
    BY <1>2, <2>1 DEF GiveUp, Abandon
<1>3. CASE PauseEnds
  BY <1>3 DEF PauseEnds, contractVars
<1> QED
  BY <1>1, <1>2, <1>3 DEF LineMovesOn

\* Types hold at first ...
LEMMA TypeInit == Init => TypeInv
<1> SUFFICES ASSUME Init PROVE TypeInv
  OBVIOUS
<1>1. IsFiniteSet({})
  BY FS_EmptySet
<1>2. job \in [Worker -> Jobs] /\ SentSomething
  BY IdleJob DEF Init, SentSomething
<1>3. Places
  BY <1>1 DEF Init, ContractInit, Places
<1>4. /\ confirm \in [User -> {"none", "paying", "reported"}]
      /\ stay \in [User -> {"clean", "booked", "mixed", "untold"}]
  BY DEF Init
<1>5. grants \in 0 .. MaxGrants
  BY DEF Init
<1> QED
  BY <1>2, <1>3, <1>4, <1>5 DEF Init, TypeInv, FlowTypeOK, ContractTypeOK, ContractInit

\* ... and after every step.
LEMMA TypeStep ==
  ASSUME TypeInv, [Next]_vars
  PROVE  TypeInv'
<1>1. CASE UNCHANGED vars
  BY <1>1 DEF TypeInv, Places, FlowTypeOK, ContractTypeOK, SentSomething, vars, contractVars,
     queueVars, topicVars, bookingVars, historyVars
<1>2. CASE Next
  BY <1>2, Split, TypeGrants, TypeLosses, TypeJobs, TypeConsumes, TypeLine DEF TypeInv
<1> QED
  BY <1>1, <1>2

\* The types of the flow are kept: batches are notices of the contract, a certificate
\* counts as fresh only during a stay, and the bound on seats granted holds.
THEOREM FlowTypeCorrect == SafeSpec => []FlowTypeOK
<1>1. TypeInv => FlowTypeOK
  BY DEF TypeInv
<1> QED
  BY <1>1, TypeInit, TypeStep, PTL DEF SafeSpec
------------------------------------------------------------------------------
(* What a step does to one user's notices on their way.                      *)

Comes(u) == u \in seated' \ seated

Goes(u) == u \in seated \ seated'

\* What goroutines publish they have found in the journal or recorded themselves,
\* and what they are about to strike off is in the topic.
JobFacts(u, kind) ==
  LET known == u \in UsersOf(owed, kind) \/ (kind = "A" /\ Comes(u))
  IN  /\ InJobs(u, kind)' => InJobs(u, kind) \/ known
      /\ Publishing(u, kind)' => Publishing(u, kind) \/ known
      /\ InClearing(u, kind)' => \/ InClearing(u, kind)
                                 \/ kind = "A" /\ u \in inAdmissions'
                                 \/ kind = "R" /\ u \in inRevoked'

\* Notices with the same users and kinds.
LEMMA UsersOfSubset ==
  ASSUME NEW N, NEW M \in SUBSET N, NEW kind
  PROVE  UsersOf(M, kind) \subseteq UsersOf(N, kind)
BY DEF UsersOf

\* What is to be published, or is being struck off, is in a batch.
LEMMA InBatches ==
  ASSUME TypeInv, NEW u, NEW kind, Publishing(u, kind) \/ InClearing(u, kind)
  PROVE  InJobs(u, kind)
<1>1. CASE Publishing(u, kind)
  <2>1. PICK w \in Worker : u \in UsersOf(ToPublish(job[w]), kind)
    BY <1>1 DEF Publishing
  <2>2. PICK n \in ToPublish(job[w]) : n.kind = kind /\ n.user = u
    BY <2>1 DEF UsersOf
  <2>3. PICK i \in (IF job[w].sent THEN 2 ELSE 1) .. Len(job[w].batches) : n \in job[w].batches[i]
    BY <2>2 DEF ToPublish
  <2>4. i \in 1 .. Len(job[w].batches)
    BY <2>3
  <2> QED
    BY <2>2, <2>3, <2>4 DEF InJobs, UsersOf
<1>2. CASE InClearing(u, kind)
  <2>1. PICK w \in Worker : job[w].sent /\ u \in UsersOf(Head(job[w].batches), kind)
    BY <1>2 DEF InClearing
  <2>2. job[w] \in Jobs /\ job[w].batches # << >>
    BY <2>1 DEF TypeInv, FlowTypeOK, SentSomething
  <2> QED
    BY <2>1, <2>2, FirstBatch DEF InJobs
<1> QED
  BY <1>1, <1>2

\* One goroutine's job changes.
LEMMA OneJob ==
  ASSUME TypeInv, NEW w \in Worker, NEW j, job' = [job EXCEPT ![w] = j], NEW u, NEW kind
  PROVE  /\ InJobs(u, kind)' => \/ InJobs(u, kind)
                                \/ \E i \in 1 .. Len(j.batches) : u \in UsersOf(j.batches[i], kind)
         /\ Publishing(u, kind)' => Publishing(u, kind) \/ u \in UsersOf(ToPublish(j), kind)
         /\ InClearing(u, kind)' => \/ InClearing(u, kind)
                                    \/ j.sent /\ u \in UsersOf(Head(j.batches), kind)
<1>1. \A x \in Worker : job'[x] = IF x = w THEN j ELSE job[x]
  BY DEF TypeInv, FlowTypeOK
<1> QED
  BY <1>1 DEF InJobs, Publishing, InClearing

\* No job changes.
LEMMA NoJob ==
  ASSUME UNCHANGED job, NEW u, NEW kind
  PROVE  JobFacts(u, kind)
BY DEF JobFacts, InJobs, Publishing, InClearing

\* A goroutine begins a job with notices of N.
LEMMA JobBegins ==
  ASSUME TypeInv, NEW w \in Worker, NEW N, NEW b \in Seq(SUBSET N), NEW task,
         job' = [job EXCEPT ![w] = [task |-> task, batches |-> b, sent |-> FALSE]],
         NEW u, NEW kind,
         u \in UsersOf(N, kind) => u \in UsersOf(owed, kind) \/ (kind = "A" /\ Comes(u))
  PROVE  JobFacts(u, kind)
<1> DEFINE j == [task |-> task, batches |-> b, sent |-> FALSE]
<1>1. j.batches = b /\ ~ j.sent
  OBVIOUS
<1>2. \A i \in 1 .. Len(b) : b[i] \subseteq N
  OBVIOUS
<1>3. ToPublish(j) \subseteq N
  BY <1>1, <1>2 DEF ToPublish
<1>4. UsersOf(ToPublish(j), kind) \subseteq UsersOf(N, kind)
  BY <1>3, UsersOfSubset
<1>5. \A i \in 1 .. Len(b) : UsersOf(b[i], kind) \subseteq UsersOf(N, kind)
  BY <1>2, UsersOfSubset
<1> HIDE DEF j
<1> QED
  BY <1>1, <1>4, <1>5, OneJob DEF JobFacts, j

\* A goroutine ends its job, or dies.
LEMMA JobEnds ==
  ASSUME TypeInv, NEW w \in Worker, job' = [job EXCEPT ![w] = Idle], NEW u, NEW kind
  PROVE  JobFacts(u, kind)
<1>1. u \notin UsersOf(ToPublish(Idle), kind)
  BY IdleJob DEF UsersOf
<1>2. ~ \E i \in 1 .. Len(Idle.batches) : u \in UsersOf(Idle.batches[i], kind)
  BY IdleJob
<1>3. ~ Idle.sent
  BY IdleJob
<1>4. /\ InJobs(u, kind)' => InJobs(u, kind)
      /\ Publishing(u, kind)' => Publishing(u, kind)
      /\ InClearing(u, kind)' => InClearing(u, kind)
  BY <1>1, <1>2, <1>3, OneJob
<1> QED
  BY <1>4 DEF JobFacts

\* A goroutine goes on to its next batch.
LEMMA JobGoesOn ==
  ASSUME TypeInv, NEW w \in Worker, job[w].batches # << >>,
         job' = [job EXCEPT ![w] = NextBatch(@)], NEW u, NEW kind
  PROVE  JobFacts(u, kind)
<1>1. job[w] \in Jobs
  BY DEF TypeInv, FlowTypeOK
<1>2. job' = [job EXCEPT ![w] = NextBatch(job[w])]
  OBVIOUS
<1>3. UsersOf(ToPublish(NextBatch(job[w])), kind) \subseteq UsersOf(ToPublish(job[w]), kind)
  BY <1>1, NextBatchShrinks, UsersOfSubset
<1>4. ASSUME NEW i \in 1 .. Len(NextBatch(job[w]).batches),
             u \in UsersOf(NextBatch(job[w]).batches[i], kind)
      PROVE  InJobs(u, kind)
  <2>1. i + 1 \in 1 .. Len(job[w].batches) /\ u \in UsersOf(job[w].batches[i + 1], kind)
    BY <1>1, <1>4, NextBatchShrinks
  <2> QED
    BY <2>1 DEF InJobs
<1>5. u \in UsersOf(ToPublish(NextBatch(job[w])), kind) => Publishing(u, kind)
  BY <1>3 DEF Publishing
<1>6. ~ NextBatch(job[w]).sent
  BY <1>1, NextBatchShrinks
<1> QED
  BY <1>2, <1>4, <1>5, <1>6, OneJob DEF JobFacts

\* The journal records admissions of those who come and revocations of those who go,
\* it drops the admission of one who goes, and otherwise only what is being struck off.
OwedFacts(u) ==
  /\ u \in UsersOf(owed', "A") => (u \in UsersOf(owed, "A") \/ Comes(u)) /\ ~ Goes(u)
  /\ u \in UsersOf(owed', "R") => u \in UsersOf(owed, "R") \/ Goes(u)
  /\ u \in UsersOf(owed, "A") => u \in UsersOf(owed', "A") \/ InClearing(u, "A") \/ Goes(u)
  /\ u \in UsersOf(owed, "R") => u \in UsersOf(owed', "R") \/ InClearing(u, "R")
  /\ Comes(u) => u \in UsersOf(owed', "A")

\* A topic gets what goroutines publish, and loses what booking has done or given up.
TopicFacts(u) ==
  /\ u \in inAdmissions' => u \in inAdmissions \/ Publishing(u, "A")
  /\ u \in inRevoked' => u \in inRevoked \/ Publishing(u, "R")
  /\ u \in inAdmissions \ inAdmissions' =>
       stay'[u] = "untold" \/ (u \in cert' /\ (u \in seated' => u \in fresh'))
  /\ u \in inRevoked \ inRevoked' => stay'[u] = "untold" \/ u \notin cert'

\* A certificate is set by an admission, and goes by a revocation, a booking that uses
\* it up, or its TTL; a report comes from a booking that is about to use it up.
BookingFacts(u) ==
  /\ u \in cert' \ cert => u \in inAdmissions
  /\ u \in cert \ cert' => u \in inRevoked \/ u \notin fresh \/ stay'[u] # "clean"
  /\ u \in fresh' \ fresh => u \in cert'
  /\ u \in fresh \ fresh' => u \notin seated'
  /\ stay'[u] = "clean" /\ confirm[u] = "reported" => confirm'[u] = "reported"
  /\ u \in inCompleted' \ inCompleted => confirm'[u] = "reported"

\* A stay is clean from its beginning, when nothing of an earlier one is left, or it
\* is not; its end is clean if no admission is underway any more.
StayFacts(u) ==
  /\ Comes(u) => stay'[u] # "booked" /\ (stay'[u] = "clean" => Settled(u))
  /\ Goes(u) => u \in UsersOf(owed', "R") \/ u \in inCompleted
  /\ Goes(u) /\ Unmixed(u)' => ~ AdmitOutstanding(u)'
  /\ ~ Comes(u) /\ Unmixed(u)' =>
       \/ stay'[u] = stay[u]
       \/ stay[u] = "clean" /\ stay'[u] = "booked" /\ ~ AdmitOutstanding(u) /\ u \notin cert'

\* All of this.
StepFacts(u) ==
  /\ JobFacts(u, "A") /\ JobFacts(u, "R")
  /\ OwedFacts(u) /\ TopicFacts(u) /\ BookingFacts(u) /\ StayFacts(u)

\* The invariants follow from the facts about a step alone.
LEMMA StepFactsSuffice ==
  ASSUME TypeInv, TypeInv', NEW u \in User, SeatInv(u), ExitInv(u), StepFacts(u)
  PROVE  SeatInv(u)' /\ ExitInv(u)'
<1> USE DEF StepFacts
<1>1. Settled(u) => /\ u \notin inAdmissions \cup inRevoked \cup inCompleted
                    /\ u \notin UsersOf(owed, "A") \cup UsersOf(owed, "R")
                    /\ ~ InJobs(u, "A") /\ ~ InJobs(u, "R")
  BY DEF Settled, Mentions, InJobs, UsersOf
<1>2. \A kind : Publishing(u, kind) \/ InClearing(u, kind) => InJobs(u, kind)
  BY InBatches
<1>3. fresh \subseteq seated /\ fresh' \subseteq seated'
  BY DEF TypeInv, FlowTypeOK
<1>4. AdmitOutstanding(u) <=> \/ u \in inAdmissions \/ Publishing(u, "A")
                              \/ u \in UsersOf(owed, "A")
  BY DEF AdmitOutstanding, AdmitUnderway, Publishing
<1>5. AdmitOutstanding(u)' <=> \/ u \in inAdmissions' \/ Publishing(u, "A")'
                               \/ u \in UsersOf(owed', "A")
  BY DEF AdmitOutstanding, AdmitUnderway, Publishing
<1>6. ~ AdmitOutstanding(u) /\ ~ Comes(u) => ~ AdmitOutstanding(u)'
  BY <1>4, <1>5 DEF JobFacts, OwedFacts, TopicFacts
<1>7. SeatInv(u)'
  <2> SUFFICES ASSUME u \in seated', stay'[u] = "clean"
               PROVE  /\ u \notin UsersOf(owed', "R") \cup inRevoked'
                      /\ ~ InJobs(u, "R")'
                      /\ InClearing(u, "A")' => u \in inAdmissions' \cup fresh'
                      /\ u \in UsersOf(owed', "A") \cup inAdmissions' \cup fresh'
                      /\ u \in fresh' => u \in cert'
    BY DEF SeatInv
  <2>1. CASE Comes(u)
    <3>1. Settled(u) /\ u \notin seated
      BY <2>1 DEF StayFacts, Comes
    <3> QED
      BY <1>1, <1>2, <1>3, <2>1, <3>1
         DEF Comes, Goes, JobFacts, OwedFacts, TopicFacts, BookingFacts
  <2>2. CASE ~ Comes(u)
    <3>1. u \in seated /\ stay[u] = "clean" /\ ~ Goes(u)
      BY <2>2 DEF Comes, Goes, StayFacts, Unmixed
    <3>2. /\ u \notin UsersOf(owed, "R") \cup inRevoked
          /\ ~ InJobs(u, "R")
          /\ InClearing(u, "A") => u \in inAdmissions \cup fresh
          /\ u \in UsersOf(owed, "A") \cup inAdmissions \cup fresh
          /\ u \in fresh => u \in cert
      BY <3>1 DEF SeatInv
    <3>3. u \in inAdmissions \cup fresh => u \in inAdmissions' \cup fresh'
      BY DEF TopicFacts, BookingFacts
    <3> QED
      BY <1>2, <2>2, <3>1, <3>2, <3>3 DEF JobFacts, OwedFacts, TopicFacts, BookingFacts
  <2> QED
    BY <2>1, <2>2
<1>8. stay'[u] = "clean" /\ u \in inCompleted' => confirm'[u] = "reported"
  <2> SUFFICES ASSUME stay'[u] = "clean", u \in inCompleted' PROVE confirm'[u] = "reported"
    OBVIOUS
  <2>1. CASE Comes(u)
    BY <1>1, <2>1 DEF StayFacts, BookingFacts
  <2>2. CASE ~ Comes(u)
    BY <2>2 DEF StayFacts, BookingFacts, Unmixed, ExitInv
  <2> QED
    BY <2>1, <2>2
<1>9. Unmixed(u)' /\ (u \notin seated' \/ stay'[u] = "booked") => ~ AdmitOutstanding(u)'
  BY <1>6 DEF StayFacts, ExitInv, Comes, Goes, Unmixed
<1>10. stay'[u] = "booked" => u \notin cert'
  BY <1>4 DEF StayFacts, BookingFacts, ExitInv, Unmixed
<1>11. ASSUME stay'[u] = "clean", u \notin seated', u \in cert'
       PROVE  /\ u \in UsersOf(owed', "R") \cup inRevoked' \/ confirm'[u] = "reported"
              /\ InClearing(u, "R")' => u \in inRevoked' \/ confirm'[u] = "reported"
  <2>1. ~ Comes(u) /\ stay[u] = "clean"
    BY <1>11 DEF Comes, StayFacts, Unmixed
  <2>2. CASE Goes(u)
    <3>1. ~ InClearing(u, "R")
      BY <1>2, <2>1, <2>2 DEF SeatInv, Goes
    <3>2. u \in UsersOf(owed', "R") \/ confirm'[u] = "reported"
      BY <1>11, <2>1, <2>2 DEF StayFacts, ExitInv, BookingFacts
    <3> QED
      BY <3>1, <3>2 DEF JobFacts
  <2>3. CASE ~ Goes(u)
    <3>1. u \notin seated /\ u \in cert
      BY <1>4, <1>11, <2>1, <2>3 DEF Comes, Goes, ExitInv, Unmixed, BookingFacts
    <3>2. /\ u \in UsersOf(owed, "R") \cup inRevoked \/ confirm[u] = "reported"
          /\ InClearing(u, "R") => u \in inRevoked \/ confirm[u] = "reported"
      BY <2>1, <3>1 DEF ExitInv
    <3>3. u \in inRevoked => u \in inRevoked'
      BY <1>11 DEF TopicFacts
    <3>4. confirm[u] = "reported" => confirm'[u] = "reported"
      BY <1>11 DEF BookingFacts
    <3> QED
      BY <3>2, <3>3, <3>4 DEF JobFacts, OwedFacts
  <2> QED
    BY <2>2, <2>3
<1> QED
  BY <1>7, <1>8, <1>9, <1>10, <1>11 DEF ExitInv

\* Seats are granted to S.
LEMMA GrantFacts ==
  ASSUME TypeInv, NEW S \in SUBSET User, S \cap seated = {}, NEW reason \in AdmitReason,
         seated' = seated \cup S, owed' = owed \cup AdmitsFor(S, reason), Granted(S),
         UNCHANGED <<topicVars, bookingVars>>, NEW u \in User
  PROVE  OwedFacts(u) /\ TopicFacts(u) /\ BookingFacts(u) /\ StayFacts(u)
<1>1. /\ UsersOf(AdmitsFor(S, reason), "A") = S
      /\ UsersOf(AdmitsFor(S, reason), "R") = {}
  BY RecordedNotices
<1>2. /\ UsersOf(owed', "A") = UsersOf(owed, "A") \cup S
      /\ UsersOf(owed', "R") = UsersOf(owed, "R")
  BY <1>1 DEF UsersOf
<1>3. Comes(u) <=> u \in S
  BY DEF Comes
<1>4. ~ Goes(u)
  BY DEF Goes
<1>5. stay' = [v \in User |-> IF v \notin S THEN stay[v]
                              ELSE IF Settled(v) THEN "clean" ELSE "mixed"]
  BY DEF Granted
<1>6. OwedFacts(u)
  BY <1>2, <1>3, <1>4 DEF OwedFacts
<1>7. TopicFacts(u) /\ BookingFacts(u)
  BY DEF TopicFacts, BookingFacts, topicVars, bookingVars, Granted
<1>8. StayFacts(u)
  BY <1>3, <1>4, <1>5 DEF StayFacts
<1> QED
  BY <1>6, <1>7, <1>8

\* Seats are lost by S, with a revocation or by a finished booking.
LEMMA LossFacts ==
  ASSUME TypeInv, NEW S \in SUBSET seated, seated' = seated \ S, NEW R, UsersOf(R, "A") = {},
         UsersOf(R, "R") = S \/ (UsersOf(R, "R") = {} /\ S \subseteq inCompleted),
         owed' = (owed \ AdmitsOf(S)) \cup R, Lost(S),
         UNCHANGED <<job, inAdmissions, inRevoked, bookingVars>>,
         inCompleted' \subseteq inCompleted, NEW u \in User
  PROVE  OwedFacts(u) /\ TopicFacts(u) /\ BookingFacts(u) /\ StayFacts(u)
<1>1. ~ Comes(u) /\ (Goes(u) <=> u \in S)
  BY DEF Comes, Goes
<1>2. \A n \in owed : n \in AdmitsOf(S) <=> n.kind = "A" /\ n.user \in S
  BY DEF AdmitsOf, TypeInv, FlowTypeOK, ContractTypeOK, Notice, AdmitNotice, RevokeNotice
<1>3. UsersOf(owed', "A") = UsersOf(owed, "A") \ S
  BY <1>2 DEF UsersOf
<1>4. UsersOf(owed', "R") = UsersOf(owed, "R") \cup UsersOf(R, "R")
  BY <1>2 DEF UsersOf
<1>5. stay' = [v \in User |-> IF v \in S /\ AdmitUnderway(v) /\ stay[v] # "untold"
                              THEN "mixed" ELSE stay[v]]
  BY DEF Lost
<1>6. OwedFacts(u)
  BY <1>1, <1>3, <1>4 DEF OwedFacts
<1>7. TopicFacts(u) /\ BookingFacts(u)
  BY DEF TopicFacts, BookingFacts, bookingVars, Lost
<1>8. AdmitUnderway(u)' <=> AdmitUnderway(u)
  BY DEF AdmitUnderway
<1>9. AdmitOutstanding(u)' <=> AdmitUnderway(u)' \/ u \in UsersOf(owed', "A")
  BY DEF AdmitOutstanding
<1>10. StayFacts(u)
  BY <1>1, <1>3, <1>4, <1>5, <1>8, <1>9 DEF StayFacts, Unmixed
<1> QED
  BY <1>6, <1>7, <1>10

\* Nothing but jobs, topics, and what is struck off changes.
LEMMA KeptFacts ==
  ASSUME TypeInv, UNCHANGED <<seated, stay, fresh, confirm, inCompleted>>, NEW u \in User
  PROVE  /\ StayFacts(u) /\ ~ Comes(u) /\ ~ Goes(u)
         /\ UNCHANGED owed => OwedFacts(u)
         /\ UNCHANGED cert => BookingFacts(u)
         /\ UNCHANGED <<inAdmissions, inRevoked>> => TopicFacts(u)
<1>1. ~ Comes(u) /\ ~ Goes(u)
  BY DEF Comes, Goes
<1> QED
  BY <1>1 DEF StayFacts, OwedFacts, BookingFacts, TopicFacts

\* The facts hold of a grant ...
LEMMA GrantStep ==
  ASSUME TypeInv, Grants, NEW u \in User
  PROVE  StepFacts(u)
<1> USE DEF StepFacts, AdmitReason
<1>1. ASSUME NEW v \in User, EnterAdmitted(v) PROVE StepFacts(u)
  <2>1. /\ v \notin seated /\ seated' = seated \cup {v}
        /\ owed' = owed \cup AdmitsFor({v}, "ENTER")
    BY <1>1 DEF EnterAdmitted, Admit
  <2>2. OwedFacts(u) /\ TopicFacts(u) /\ BookingFacts(u) /\ StayFacts(u)
    BY <1>1, <2>1, GrantFacts DEF EnterAdmitted
  <2>3. ASSUME NEW kind \in {"A", "R"} PROVE JobFacts(u, kind)
    <3>1. CASE UNCHANGED job
      BY <3>1, NoJob
    <3>2. ASSUME NEW w \in Worker, Begin(w, "enter", <<AdmitsFor({v}, "ENTER")>>)
          PROVE  JobFacts(u, kind)
      <4> DEFINE N == AdmitsFor({v}, "ENTER")
      <4>1. UsersOf(N, "A") = {v} /\ UsersOf(N, "R") = {}
        BY RecordedNotices
      <4>2. u \in UsersOf(N, kind) => kind = "A" /\ Comes(u)
        BY <2>1, <4>1 DEF Comes
      <4>3. job' = [job EXCEPT ![w] = [task |-> "enter", batches |-> <<N>>, sent |-> FALSE]]
        BY <3>2 DEF Begin
      <4> HIDE DEF N
      <4>4. <<N>> \in Seq(SUBSET N)
        OBVIOUS
      <4> QED
        BY <4>2, <4>3, <4>4, JobBegins
    <3> QED
      BY <1>1, <3>1, <3>2 DEF EnterAdmitted
  <2> QED
    BY <2>2, <2>3
<1>2. ASSUME NEW w \in Worker, PromoteTick(w) PROVE StepFacts(u)
  <2>1. ASSUME NEW S \in SUBSET queued, PromoteAll(S), Granted(S),
               job' = [job EXCEPT ![w] = [task |-> "promote", sent |-> FALSE,
                                          batches |-> <<AdmitsFor(S, "PROMOTE")>>]]
        PROVE  StepFacts(u)
    <3> DEFINE N == AdmitsFor(S, "PROMOTE")
    <3>1. S \subseteq User /\ S \cap seated = {}
      BY DEF TypeInv, Places, FlowTypeOK, ContractTypeOK
    <3>2. seated' = seated \cup S /\ owed' = owed \cup N
      BY <2>1 DEF PromoteAll
    <3>3. OwedFacts(u) /\ TopicFacts(u) /\ BookingFacts(u) /\ StayFacts(u)
      BY <1>2, <2>1, <3>1, <3>2, GrantFacts DEF PromoteTick
    <3>4. UsersOf(N, "A") = S /\ UsersOf(N, "R") = {}
      BY <3>1, RecordedNotices
    <3>5. ASSUME NEW kind \in {"A", "R"} PROVE JobFacts(u, kind)
      <4>1. u \in UsersOf(N, kind) => kind = "A" /\ Comes(u)
        BY <3>1, <3>2, <3>4 DEF Comes
      <4>2. job' = [job EXCEPT ![w] = [task |-> "promote", batches |-> <<N>>, sent |-> FALSE]]
        BY <2>1
      <4> HIDE DEF N
      <4>3. <<N>> \in Seq(SUBSET N)
        OBVIOUS
      <4> QED
        BY <4>1, <4>2, <4>3, JobBegins
    <3> QED
      BY <3>3, <3>5
  <2>2. CASE UNCHANGED <<contractVars, historyVars>> /\ job' = [job EXCEPT ![w] = Idle]
    <3>1. OwedFacts(u) /\ TopicFacts(u) /\ BookingFacts(u) /\ StayFacts(u)
      BY <1>2, <2>2, KeptFacts DEF PromoteTick, contractVars, historyVars, topicVars, bookingVars
    <3>2. JobFacts(u, "A") /\ JobFacts(u, "R")
      BY <2>2, JobEnds
    <3> QED
      BY <3>1, <3>2
  <2> QED
    BY <1>2, <2>1, <2>2 DEF PromoteTick
<1> QED
  BY <1>1, <1>2 DEF Grants

\* ... of a loss ...
LEMMA LossStep ==
  ASSUME TypeInv, Losses, NEW u \in User
  PROVE  StepFacts(u)
<1> USE DEF StepFacts
<1>1. ASSUME NEW S \in SUBSET User, NEW reason \in RevokeReason, TakeBack(S, reason)
      PROVE  StepFacts(u)
  <2>1. /\ S \subseteq seated /\ seated' = seated \ S
        /\ owed' = (owed \ AdmitsOf(S)) \cup RevokesFor(S, reason)
    BY <1>1 DEF TakeBack, Revoke
  <2>2. /\ UsersOf(RevokesFor(S, reason), "A") = {}
        /\ UsersOf(RevokesFor(S, reason), "R") = S
    BY RecordedNotices
  <2>3. OwedFacts(u) /\ TopicFacts(u) /\ BookingFacts(u) /\ StayFacts(u)
    BY <1>1, <2>1, <2>2, LossFacts DEF TakeBack, queueVars, topicVars
  <2> QED
    BY <1>1, <2>3, NoJob DEF TakeBack, queueVars
<1>2. ASSUME NEW v \in User, ConsumeCompleted(v) PROVE StepFacts(u)
  <2>1. JobFacts(u, "A") /\ JobFacts(u, "R")
    BY <1>2, NoJob DEF ConsumeCompleted, queueVars
  <2>2. CASE v \in seated
    <3>1. /\ seated' = seated \ {v}
          /\ owed' = (owed \ AdmitsOf({v})) \cup {}
      BY <1>2, <2>2 DEF ConsumeCompleted, Finish
    <3>2. UsersOf({}, "A") = {} /\ UsersOf({}, "R") = {}
      BY DEF UsersOf
    <3>3. {v} \subseteq inCompleted /\ inCompleted' \subseteq inCompleted
      BY <1>2 DEF ConsumeCompleted
    <3> QED
      BY <1>2, <2>1, <2>2, <3>1, <3>2, <3>3, LossFacts DEF ConsumeCompleted, queueVars
  <2>3. CASE v \notin seated
    <3>1. /\ UNCHANGED <<seated, owed, stay, fresh, confirm, cert, inAdmissions, inRevoked>>
          /\ inCompleted' \subseteq inCompleted
      BY <1>2, <2>3 DEF ConsumeCompleted, contractVars, historyVars, bookingVars
    <3> QED
      BY <2>1, <3>1 DEF Comes, Goes, OwedFacts, TopicFacts, BookingFacts, StayFacts
  <2> QED
    BY <2>2, <2>3
<1> QED
  BY <1>1, <1>2 DEF Losses

\* What the goroutines send are notices they had to publish.
LEMMA SentFacts ==
  ASSUME TypeInv, NEW w \in Worker, job[w].batches # << >>, ~ job[w].sent,
         NEW N \in SUBSET Head(job[w].batches), BrokerAppends(N), NEW u
  PROVE  /\ u \in inAdmissions' => u \in inAdmissions \/ Publishing(u, "A")
         /\ u \in inRevoked' => u \in inRevoked \/ Publishing(u, "R")
         /\ inAdmissions \subseteq inAdmissions' /\ inRevoked \subseteq inRevoked'
<1>1. job[w] \in Jobs
  BY DEF TypeInv, FlowTypeOK
<1>2. N \subseteq ToPublish(job[w])
  BY <1>1, FirstBatch DEF ToPublish
<1>3. /\ UsersOf(N, "A") \subseteq UsersOf(ToPublish(job[w]), "A")
      /\ UsersOf(N, "R") \subseteq UsersOf(ToPublish(job[w]), "R")
  BY <1>2, UsersOfSubset
<1> QED
  BY <1>3 DEF BrokerAppends, Publishing

\* ... of what a goroutine does ...
LEMMA JobStep ==
  ASSUME TypeInv, NEW w \in Worker, JobMoves(w), NEW u \in User
  PROVE  StepFacts(u)
<1> USE DEF StepFacts
<1>1. ASSUME UNCHANGED <<contractVars, topicVars, bookingVars, historyVars>>,
             JobFacts(u, "A") /\ JobFacts(u, "R")
      PROVE  StepFacts(u)
  BY <1>1, KeptFacts DEF contractVars, topicVars, bookingVars, historyVars
<1>2. CASE PromoteCheck(w) \/ PromoteCheckFails(w)
  <2>1. << >> \in Seq(SUBSET {})
    OBVIOUS
  <2>2. \A kind : u \notin UsersOf({}, kind)
    BY DEF UsersOf
  <2>3. job' = [job EXCEPT ![w] = [task |-> "checked", batches |-> << >>, sent |-> FALSE]]
    BY <1>2 DEF PromoteCheck, PromoteCheckFails, Begin
  <2>4. JobFacts(u, "A") /\ JobFacts(u, "R")
    BY <2>1, <2>2, <2>3, JobBegins
  <2> QED
    BY <1>1, <1>2, <2>4 DEF PromoteCheck, PromoteCheckFails
<1>3. CASE Crash(w)
  BY <1>1, <1>3, JobEnds DEF Crash
<1>4. ASSUME NEW S \in SUBSET owed, Sweep(w, S) PROVE StepFacts(u)
  <2>1. PICK b \in Seq(SUBSET owed) :
          job' = [job EXCEPT ![w] = [task |-> "sweep", batches |-> b, sent |-> FALSE]]
    BY <1>4, SweepBatches DEF TypeInv
  <2>2. JobFacts(u, "A") /\ JobFacts(u, "R")
    BY <2>1, JobBegins
  <2> QED
    BY <1>1, <1>4, <2>2 DEF Sweep
<1>5. CASE Publish(w)
  <2>1. BrokerAppends(Head(job[w].batches)) /\ job[w].batches # << >> /\ ~ job[w].sent
    BY <1>5 DEF Publish
  <2>2. TopicFacts(u)
    BY <2>1, SentFacts DEF TopicFacts
  <2>3. OwedFacts(u) /\ BookingFacts(u) /\ StayFacts(u)
    BY <1>5, KeptFacts DEF Publish, contractVars, bookingVars
  <2> DEFINE j == [job[w] EXCEPT !.sent = TRUE]
  <2>4. job' = [job EXCEPT ![w] = j]
    BY <1>5 DEF Publish
  <2>5. job[w] \in Jobs
    BY DEF TypeInv, FlowTypeOK
  <2>6. j.batches = job[w].batches /\ j.sent
    BY <2>5 DEF Jobs
  <2> HIDE DEF j
  <2>7. ASSUME NEW kind \in {"A", "R"} PROVE JobFacts(u, kind)
    <3>1. ToPublish(j) \subseteq ToPublish(job[w])
      BY <2>1, <2>6 DEF ToPublish
    <3>2. u \in UsersOf(ToPublish(j), kind) => Publishing(u, kind)
      BY <3>1, UsersOfSubset DEF Publishing
    <3>3. (\E i \in 1 .. Len(j.batches) : u \in UsersOf(j.batches[i], kind)) => InJobs(u, kind)
      BY <2>6 DEF InJobs
    <3>4. u \in UsersOf(Head(j.batches), kind) =>
            \/ kind = "A" /\ u \in inAdmissions'
            \/ kind = "R" /\ u \in inRevoked'
      BY <2>1, <2>6 DEF BrokerAppends
    <3>5. /\ InJobs(u, kind)' => InJobs(u, kind)
          /\ Publishing(u, kind)' => Publishing(u, kind)
          /\ InClearing(u, kind)' => InClearing(u, kind) \/ u \in UsersOf(Head(j.batches), kind)
      BY <2>4, <3>2, <3>3, OneJob
    <3> QED
      BY <3>4, <3>5 DEF JobFacts
  <2> QED
    BY <2>2, <2>3, <2>7
<1>6. CASE PublishFails(w)
  <2>1. PICK N \in SUBSET Head(job[w].batches) : BrokerAppends(N)
    BY <1>6 DEF PublishFails
  <2>2. TopicFacts(u)
    BY <1>6, <2>1, SentFacts DEF TopicFacts, PublishFails
  <2>3. OwedFacts(u) /\ BookingFacts(u) /\ StayFacts(u)
    BY <1>6, KeptFacts DEF PublishFails, contractVars, bookingVars
  <2> QED
    BY <1>6, <2>2, <2>3, JobGoesOn DEF PublishFails
<1>7. CASE Clear(w) \/ ClearFails(w)
  <2>1. job[w].batches # << >>
    BY <1>7 DEF Clear, ClearFails, TypeInv, SentSomething
  <2>2. JobFacts(u, "A") /\ JobFacts(u, "R")
    BY <1>7, <2>1, JobGoesOn DEF Clear, ClearFails
  <2>3. CASE ClearFails(w)
    BY <1>1, <2>2, <2>3 DEF ClearFails
  <2>4. CASE Clear(w)
    <3>1. job[w].sent /\ owed' = owed \ Head(job[w].batches)
      BY <2>4 DEF Clear
    <3>2. TopicFacts(u) /\ BookingFacts(u) /\ StayFacts(u) /\ ~ Comes(u) /\ ~ Goes(u)
      BY <2>4, KeptFacts DEF Clear, topicVars, bookingVars, historyVars
    <3>3. ASSUME NEW kind
          PROVE  /\ u \in UsersOf(owed', kind) => u \in UsersOf(owed, kind)
                 /\ u \in UsersOf(owed, kind) => u \in UsersOf(owed', kind) \/ InClearing(u, kind)
      BY <3>1 DEF UsersOf, InClearing
    <3> QED
      BY <2>2, <3>2, <3>3 DEF OwedFacts
  <2> QED
    BY <1>7, <2>3, <2>4
<1> QED
  BY <1>2, <1>3, <1>4, <1>5, <1>6, <1>7 DEF JobMoves

\* ... of what booking does ...
LEMMA BookingStepFacts ==
  ASSUME TypeInv, NEW v \in User, Consumes(v) \/ Confirms(v), NEW u \in User
  PROVE  StepFacts(u)
<1> USE DEF StepFacts
<1>1. /\ stay \in [User -> {"clean", "booked", "mixed", "untold"}]
      /\ confirm \in [User -> {"none", "paying", "reported"}]
  BY DEF TypeInv, FlowTypeOK
<1>2. UNCHANGED job => JobFacts(u, "A") /\ JobFacts(u, "R")
  BY NoJob
<1>3. UNCHANGED <<seated, owed>> => OwedFacts(u) /\ ~ Comes(u) /\ ~ Goes(u)
  BY DEF OwedFacts, Comes, Goes
<1> USE DEF contractVars, queueVars, topicVars, bookingVars, historyVars
<1>4. CASE ConsumeAdmission(v)
  <2>1. TopicFacts(u) /\ BookingFacts(u)
    BY <1>4 DEF ConsumeAdmission, TopicFacts, BookingFacts
  <2> QED
    BY <1>2, <1>3, <1>4, <2>1 DEF ConsumeAdmission, StayFacts
<1>5. CASE ConsumeRevocation(v)
  <2>1. TopicFacts(u) /\ BookingFacts(u)
    BY <1>5 DEF ConsumeRevocation, TopicFacts, BookingFacts
  <2> QED
    BY <1>2, <1>3, <1>5, <2>1 DEF ConsumeRevocation, StayFacts
<1>6. CASE DeadLetter(v)
  <2>1. stay' = [stay EXCEPT ![v] = "untold"]
    BY <1>6 DEF DeadLetter
  <2>2. /\ u = v => stay'[u] = "untold"
        /\ u # v => stay'[u] = stay[u]
    BY <1>1, <2>1
  <2>3. TopicFacts(u) /\ BookingFacts(u)
    BY <1>6, <2>2 DEF DeadLetter, TopicFacts, BookingFacts
  <2>4. StayFacts(u)
    BY <1>3, <1>6, <2>2 DEF DeadLetter, StayFacts, Unmixed
  <2> QED
    BY <1>2, <1>3, <1>6, <2>3, <2>4 DEF DeadLetter
<1>7. CASE CertExpires(v)
  <2>1. TopicFacts(u) /\ BookingFacts(u)
    BY <1>7 DEF CertExpires, TopicFacts, BookingFacts
  <2> QED
    BY <1>2, <1>3, <1>7, <2>1 DEF CertExpires, StayFacts
<1>8. CASE ConfirmGate(v) \/ ConfirmRefused(v) \/ ConfirmReport(v)
  <2>1. BookingFacts(u)
    BY <1>1, <1>8 DEF ConfirmGate, ConfirmRefused, ConfirmReport, BookingFacts
  <2>2. UNCHANGED <<seated, owed, job, inAdmissions, inRevoked, stay>>
    BY <1>8 DEF ConfirmGate, ConfirmRefused, ConfirmReport
  <2> QED
    BY <1>2, <1>3, <2>1, <2>2 DEF TopicFacts, StayFacts
<1>9. CASE ConfirmSpend(v)
  <2>1. stay' = [stay EXCEPT ![v] =
                   IF @ = "clean" /\ ~ AdmitOutstanding(v) THEN "booked" ELSE "mixed"]
    BY <1>9 DEF ConfirmSpend
  <2>2. /\ u = v => stay'[u] = IF stay[u] = "clean" /\ ~ AdmitOutstanding(u)
                               THEN "booked" ELSE "mixed"
        /\ u # v => stay'[u] = stay[u]
    BY <1>1, <2>1
  <2>3. TopicFacts(u)
    BY <1>9 DEF ConfirmSpend, TopicFacts
  <2>4. BookingFacts(u)
    BY <1>1, <1>9, <2>2 DEF ConfirmSpend, BookingFacts
  <2>5. StayFacts(u)
    BY <1>3, <1>9, <2>2 DEF ConfirmSpend, StayFacts, Unmixed
  <2> QED
    BY <1>2, <1>3, <1>9, <2>3, <2>4, <2>5 DEF ConfirmSpend
<1>10. CASE ConfirmKeepsCert(v)
  <2>1. stay' = [stay EXCEPT ![v] = "mixed"]
    BY <1>10 DEF ConfirmKeepsCert
  <2>2. /\ u = v => stay'[u] = "mixed"
        /\ u # v => stay'[u] = stay[u]
    BY <1>1, <2>1
  <2>3. TopicFacts(u) /\ BookingFacts(u)
    BY <1>1, <1>10, <2>2 DEF ConfirmKeepsCert, TopicFacts, BookingFacts
  <2>4. StayFacts(u)
    BY <1>3, <1>10, <2>2 DEF ConfirmKeepsCert, StayFacts, Unmixed
  <2> QED
    BY <1>2, <1>3, <1>10, <2>3, <2>4 DEF ConfirmKeepsCert
<1>11. CASE SkipCompleted(v)
  <2>1. TopicFacts(u) /\ BookingFacts(u)
    BY <1>11 DEF SkipCompleted, TopicFacts, BookingFacts
  <2> QED
    BY <1>2, <1>3, <1>11, <2>1 DEF SkipCompleted, StayFacts
<1> QED
  BY <1>4, <1>5, <1>6, <1>7, <1>8, <1>9, <1>10, <1>11 DEF Consumes, Confirms

\* ... and of any step.
LEMMA AnyStep ==
  ASSUME TypeInv, [Next]_vars, NEW u \in User
  PROVE  StepFacts(u)
<1>1. ASSUME UNCHANGED <<seated, owed, job, topicVars, bookingVars, historyVars>>
      PROVE  StepFacts(u)
  BY <1>1, NoJob, KeptFacts DEF StepFacts, topicVars, bookingVars, historyVars
<1>2. CASE UNCHANGED vars
  BY <1>1, <1>2 DEF vars, contractVars, queueVars
<1>3. CASE LineMovesOn
  BY <1>1, <1>3 DEF LineMovesOn, EnterWaiting, Join, GiveUp, Abandon, PauseEnds, contractVars,
     queueVars
<1> QED
  BY <1>2, <1>3, Split, GrantStep, LossStep, JobStep, BookingStepFacts DEF TypeInv

\* The invariant holds at first ...
LEMMA FlowInit == Init => FlowInv
<1> SUFFICES ASSUME Init PROVE FlowInv
  OBVIOUS
<1>1. TypeInv
  BY TypeInit
<1>2. ASSUME NEW u \in User PROVE SeatInv(u) /\ ExitInv(u)
  <2>1. /\ u \notin seated /\ u \notin inCompleted /\ u \notin cert /\ stay[u] = "clean"
        /\ inAdmissions = {} /\ owed = {}
    BY DEF Init, ContractInit
  <2>2. \A w \in Worker : ToPublish(job[w]) = {}
    BY IdleJob DEF Init
  <2>3. ~ AdmitOutstanding(u)
    BY <2>1, <2>2 DEF AdmitOutstanding, AdmitUnderway, UsersOf
  <2> QED
    BY <2>1, <2>3 DEF SeatInv, ExitInv
<1> QED
  BY <1>1, <1>2 DEF FlowInv, TypeInv

\* ... and every step keeps it.
LEMMA FlowStep ==
  ASSUME FlowInv, [Next]_vars
  PROVE  FlowInv'
<1>1. TypeInv /\ TypeInv'
  BY TypeStep DEF FlowInv, TypeInv
<1>2. ASSUME NEW u \in User PROVE SeatInv(u)' /\ ExitInv(u)'
  <2>1. SeatInv(u) /\ ExitInv(u)
    BY DEF FlowInv
  <2> QED
    BY <1>1, <2>1, AnyStep, StepFactsSuffice
<1> QED
  BY <1>1, <1>2 DEF FlowInv, TypeInv

\* A seat holder whose stay met no leftovers, no dead letter, and whose admission is
\* neither recorded nor underway has his certificate, whatever dies, fails or is
\* delivered twice (sweep.go:15-20, the first hole).
THEOREM CleanSeatCertifiedHolds == SafeSpec => []CleanSeatCertified
<1>1. ASSUME FlowInv PROVE CleanSeatCertified
  <2> SUFFICES ASSUME NEW u \in seated, stay[u] = "clean", ~ AdmitOutstanding(u)
               PROVE  u \in cert
    BY DEF CleanSeatCertified
  <2>1. u \in User
    BY <1>1 DEF FlowInv, FlowTypeOK, ContractTypeOK
  <2> QED
    BY <1>1, <2>1 DEF FlowInv, SeatInv, AdmitOutstanding, AdmitUnderway
<1> QED
  BY <1>1, FlowInit, FlowStep, PTL DEF SafeSpec

\* A user whose clean stay is over keeps no certificate, once no revocation and no
\* booking of his is underway any more (sweep.go:18, the second hole; leave.go:13-16).
THEOREM CleanExitDecertifiedHolds == SafeSpec => []CleanExitDecertified
<1>1. ASSUME FlowInv PROVE CleanExitDecertified
  <2> SUFFICES ASSUME NEW u \in User \ seated, Unmixed(u), ~ RevokeUnderway(u),
                      confirm[u] = "none"
               PROVE  u \notin cert
    BY DEF CleanExitDecertified
  <2> QED
    BY <1>1 DEF FlowInv, ExitInv, Unmixed, RevokeUnderway
<1> QED
  BY <1>1, FlowInit, FlowStep, PTL DEF SafeSpec
------------------------------------------------------------------------------
(* The contract.                                                             *)

\* A step of the flow is a step of the contract, or does not concern it.
LEMMA ContractStep ==
  ASSUME TypeInv, [Next]_vars
  PROVE  [ContractNext]_contractVars
<1>1. seated \subseteq User /\ queued \subseteq User
  BY DEF TypeInv, FlowTypeOK, ContractTypeOK
<1>2. CASE UNCHANGED contractVars
  BY <1>2
<1>3. CASE Grants
  <2>1. ASSUME NEW u \in User, EnterAdmitted(u) PROVE ContractNext
    BY <2>1 DEF EnterAdmitted, ContractNext
  <2>2. ASSUME NEW S \in SUBSET queued, PromoteAll(S) PROVE ContractNext
    BY <1>1, <2>2 DEF ContractNext
  <2>3. ASSUME NEW w \in Worker, PromoteTick(w) PROVE [ContractNext]_contractVars
    BY <2>2, <2>3 DEF PromoteTick
  <2> QED
    BY <1>3, <2>1, <2>3 DEF Grants
<1>4. CASE Losses
  <2>1. ASSUME NEW S \in SUBSET User, NEW reason \in RevokeReason, TakeBack(S, reason)
        PROVE  ContractNext
    BY <2>1 DEF TakeBack, ContractNext
  <2>2. ASSUME NEW u \in User, ConsumeCompleted(u) PROVE [ContractNext]_contractVars
    BY <2>2 DEF ConsumeCompleted, ContractNext
  <2> QED
    BY <1>4, <2>1, <2>2 DEF Losses
<1>5. CASE LineMovesOn
  BY <1>5 DEF LineMovesOn, EnterWaiting, GiveUp, PauseEnds, ContractNext
<1>6. ASSUME NEW w \in Worker, Clear(w) PROVE [ContractNext]_contractVars
  <2> DEFINE N == owed \cap Head(job[w].batches)
  <2>1. owed' = owed \ N /\ UNCHANGED <<seated, queued>>
    BY <1>6 DEF Clear
  <2>2. CASE N = {}
    BY <2>1, <2>2 DEF contractVars
  <2>3. CASE N # {}
    BY <2>1, <2>3 DEF ContractNext, Discharge
  <2> QED
    BY <2>2, <2>3
<1>7. ASSUME NEW w \in Worker, JobMoves(w), ~ Clear(w) PROVE UNCHANGED contractVars
  BY <1>7 DEF JobMoves, PromoteCheck, PromoteCheckFails, Crash, Sweep, Publish, PublishFails,
     ClearFails
<1>8. ASSUME NEW u \in User, Consumes(u) \/ Confirms(u) PROVE UNCHANGED contractVars
  BY <1>8 DEF Consumes, Confirms, ConsumeAdmission, ConsumeRevocation, DeadLetter, CertExpires,
     ConfirmGate, ConfirmRefused, ConfirmReport, ConfirmSpend, ConfirmKeepsCert, SkipCompleted
<1>9. CASE UNCHANGED vars
  BY <1>2, <1>9 DEF vars
<1> QED
  BY <1>2, <1>3, <1>4, <1>5, <1>6, <1>7, <1>8, <1>9, Split DEF TypeInv

\* Publication, its failures and booking keep the contract of the queue: what the
\* goroutines strike off the journal is there, or the step leaves the journal alone.
THEOREM FlowKeepsContract == SafeSpec => ContractSpec
<1>1. Init => ContractInit
  BY DEF Init
<1> QED
  BY <1>1, TypeInit, TypeStep, ContractStep, PTL DEF SafeSpec, ContractSpec
============================================================================
