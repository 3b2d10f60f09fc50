-------------------------- MODULE VisitFeedProofs --------------------------
(***************************************************************************)
(* Proofs about the feed with those whose lines it shows, for any number   *)
(* of users, visits and messages: one visit ends with one line at most, no *)
(* message of the partition is passed over, and what EventFeedProofs says  *)
(* of the feed and the page holds here.                                    *)
(***************************************************************************)
EXTENDS VisitFeed, EventFeedProofs

USE VisitFeedAssumption
------------------------------------------------------------------------------
(* The invariants.                                                           *)

VisitTypes ==
  /\ place \in [User -> {"out", "line", "seat"}]
  /\ visit \in [User -> 0 .. MaxVisits]
  /\ \A u \in User : place[u] # "out" => visit[u] >= 1
  /\ log \in Seq(User \cup {Poison})
  /\ position \in 1 .. Len(log) + 1 /\ committed \in 1 .. Len(log) + 1
  /\ handling \in {"nothing", "message", "done"}
  /\ handling # "nothing" => position <= Len(log)

\* What is behind the consumer, and what it is about to commit, has been handled.
ConsumerInv ==
  /\ \A o \in 1 .. position - 1 : o \in applied \cup failed
  /\ \A o \in 1 .. committed - 1 : o \in applied \cup failed
  /\ handling = "done" => position \in applied

Exits == {"SESSION_EXPIRE", "WAIT_EXPIRE", "LEAVE", "RETURN"}

\* Two lines tell the end of the same visit.
SameExit(k, l) ==
  k.kind \in Exits /\ l.kind \in Exits /\ k.rid = l.rid /\ k.visit = l.visit

\* Events that are in the feed's memory or on their way to it.
Told == stored \cup InHand

\* No two lines, due or told, tell the end of the same visit.
ExitsApart ==
  /\ \A w \in writing : w.at # "due" => w.lines = <<>>
  /\ \A v, w \in writing : \A i \in DOMAIN v.lines, j \in DOMAIN w.lines :
       SameExit(v.lines[i], w.lines[j]) => v = w /\ i = j
  /\ \A e, f \in Told : SameExit(e.line, f.line) => e = f
  /\ \A e \in Told, w \in writing : \A i \in DOMAIN w.lines : ~ SameExit(e.line, w.lines[i])

\* A line is of a visit that has begun, and tells the end of one that has ended.
Past(l) ==
  /\ l.visit <= visit[l.rid]
  /\ l.kind \in Exits /\ l.visit = visit[l.rid] => place[l.rid] = "out"

AllPast ==
  /\ \A w \in writing : \A i \in DOMAIN w.lines : Past(w.lines[i])
  /\ \A e \in Told : Past(e.line)

VisitInv == FeedInv(LineOf) /\ VisitTypes /\ ConsumerInv /\ ExitsApart /\ AllPast
------------------------------------------------------------------------------
(* Lines.                                                                    *)

Kinds == {"ADMIT", "PROMOTE"} \cup Exits

\* A step leaves a user's visit and does not bring him in, or begins his next one.
Goes ==
  \A u \in User :
    \/ visit'[u] = visit[u] /\ (place[u] = "out" => place'[u] = "out")
    \/ visit'[u] = visit[u] + 1

\* Whatever lines there are, due or told, are lines.
LEMMA LinesType ==
  ASSUME FeedTypes(LineOf)
  PROVE  /\ \A w \in writing : w.lines \in Seq(LineOf)
         /\ \A w \in writing : \A i \in DOMAIN w.lines : w.lines[i] \in LineOf
         /\ \A e \in Told : e.line \in LineOf
<1>1. \A w \in writing : w.lines \in Seq(LineOf)
  BY DEF FeedTypes, WriterOf
<1>2. \A w \in writing : \A i \in DOMAIN w.lines : w.lines[i] \in LineOf
  BY <1>1
<1>3. Told \subseteq EventOf(LineOf)
  BY EventsType DEF Told, FeedTypes
<1> QED
  BY <1>1, <1>2, <1>3 DEF EventOf

\* What was past stays so.
LEMMA PastStays ==
  ASSUME VisitTypes, Goes, NEW l \in LineOf, Past(l)
  PROVE  Past(l)'
<1>1. l.rid \in User /\ l.visit \in Nat
  BY DEF LineOf
<1>2. visit[l.rid] \in Nat
  BY <1>1 DEF VisitTypes
<1>3. CASE visit'[l.rid] = visit[l.rid] /\ (place[l.rid] = "out" => place'[l.rid] = "out")
  BY <1>3 DEF Past
<1>4. CASE visit'[l.rid] = visit[l.rid] + 1
  BY <1>1, <1>2, <1>4 DEF Past
<1> QED
  BY <1>1, <1>3, <1>4 DEF Goes

\* With no new line, the lines stay apart and past.
LEMMA FewerLines ==
  ASSUME VisitInv, Goes, writing' \subseteq writing, Told' \subseteq Told
  PROVE  ExitsApart' /\ AllPast'
<1>1. ExitsApart'
  BY DEF VisitInv, ExitsApart
<1>2. AllPast'
  BY LinesType, PastStays DEF VisitInv, FeedInv, AllPast
<1> QED
  BY <1>1, <1>2

\* The step of a script that tells something, and when nothing is told.
LEMMA TellingStep ==
  ASSUME VisitInv, Goes, NEW by \in {"pod", "consumer"}, NEW kind \in Kinds, NEW s \in Seq(User),
         Due(by, Lines(kind, s)), UNCHANGED <<feed, lastId, gen, stored, late, pageVars>>,
         \A i \in DOMAIN s : visit'[s[i]] \in 1 .. MaxVisits,
         kind \in Exits => /\ \A i, j \in DOMAIN s : s[i] = s[j] => i = j
                           /\ \A i \in DOMAIN s : /\ place[s[i]] # "out" /\ place'[s[i]] = "out"
                                                  /\ visit'[s[i]] = visit[s[i]]
  PROVE  FeedMove(LineOf) /\ ExitsApart' /\ AllPast'
<1>0. FeedTypes(LineOf) /\ VisitTypes
  BY DEF VisitInv, FeedInv
<1>1. PICK lines \in Seq(LineOf) :
        /\ lines = Lines(kind, s) /\ DOMAIN lines = DOMAIN s
        /\ \A i \in DOMAIN s : lines[i] = [kind |-> kind, rid |-> s[i], visit |-> visit'[s[i]]]
  <2> DEFINE told == Lines(kind, s)
  <2>1. /\ DOMAIN told = DOMAIN s
        /\ \A i \in DOMAIN s : told[i] = [kind |-> kind, rid |-> s[i], visit |-> visit'[s[i]]]
    BY DEF Lines
  <2>2. \A i \in DOMAIN s : s[i] \in User
    OBVIOUS
  <2> HIDE DEF told
  <2>3. \A i \in DOMAIN s : told[i] \in LineOf
    BY <2>1, <2>2 DEF LineOf, Kinds, Exits
  <2>4. DOMAIN s = 1 .. Len(s) /\ Len(s) \in Nat
    OBVIOUS
  <2>5. told \in [1 .. Len(s) -> LineOf]
    BY <2>3, <2>4 DEF told, Lines
  <2>6. told \in Seq(LineOf)
    BY <2>4, <2>5
  <2> QED
    BY <2>1, <2>6 DEF told
<1> DEFINE new == [by |-> by, at |-> "due", lines |-> lines, events |-> {}]
<1>4. writing' = writing \cup {new} /\ stored' = stored
  BY <1>1 DEF Due
<1>5. new.lines = lines /\ new.events = {} /\ new.at = "due"
  OBVIOUS
<1>6. Told' = Told
  BY <1>4, <1>5 DEF Told, InHand
<1> HIDE DEF new
<1>7. \A i \in DOMAIN s : /\ lines[i].kind = kind /\ lines[i].rid = s[i]
                          /\ lines[i].visit = visit'[s[i]]
  BY <1>1
<1>8. FeedMove(LineOf)
  BY <1>1 DEF FeedMove, FeedDue
<1>9. ASSUME NEW i \in DOMAIN s, NEW l \in LineOf, Past(l)
      PROVE  ~ SameExit(l, lines[i]) /\ ~ SameExit(lines[i], l)
  <2>1. SUFFICES ASSUME kind \in Exits, l.kind \in Exits, l.rid = s[i], l.visit = visit'[s[i]]
                 PROVE  FALSE
    BY <1>7 DEF SameExit
  <2>2. place[s[i]] # "out" /\ visit'[s[i]] = visit[s[i]]
    BY <2>1
  <2> QED
    BY <1>9, <2>1, <2>2 DEF Past
<1>10. ASSUME NEW i \in DOMAIN s, NEW j \in DOMAIN s, SameExit(lines[i], lines[j])
       PROVE  i = j
  BY <1>7, <1>10 DEF SameExit
<1>11. /\ \A w \in writing : \A i \in DOMAIN w.lines : w.lines[i] \in LineOf /\ Past(w.lines[i])
       /\ \A e \in Told : e.line \in LineOf /\ Past(e.line)
  BY <1>0, LinesType DEF VisitInv, AllPast
<1>12. ExitsApart'
  <2>1. ASSUME NEW v \in writing', NEW w \in writing', NEW i \in DOMAIN v.lines,
               NEW j \in DOMAIN w.lines, SameExit(v.lines[i], w.lines[j])
        PROVE  v = w /\ i = j
    <3>1. CASE v \in writing /\ w \in writing
      BY <2>1, <3>1 DEF VisitInv, ExitsApart
    <3>2. CASE v = new /\ w = new
      BY <1>1, <1>5, <1>10, <2>1, <3>2
    <3>3. CASE v \in writing /\ w = new
      BY <1>1, <1>5, <1>9, <1>11, <2>1, <3>3
    <3>4. CASE v = new /\ w \in writing
      BY <1>1, <1>5, <1>9, <1>11, <2>1, <3>4
    <3> QED
      BY <1>4, <3>1, <3>2, <3>3, <3>4
  <2>2. ASSUME NEW e \in Told, NEW w \in writing', NEW i \in DOMAIN w.lines
        PROVE  ~ SameExit(e.line, w.lines[i])
    <3>1. CASE w \in writing
      BY <3>1 DEF VisitInv, ExitsApart
    <3>2. CASE w = new
      BY <1>1, <1>5, <1>9, <1>11, <3>2
    <3> QED
      BY <1>4, <3>1, <3>2
  <2>3. \A w \in writing' : w.at # "due" => w.lines = <<>>
    BY <1>4, <1>5 DEF VisitInv, ExitsApart
  <2>4. \A e, f \in Told : SameExit(e.line, f.line) => e = f
    BY DEF VisitInv, ExitsApart
  <2> QED
    BY <1>6, <2>1, <2>2, <2>3, <2>4 DEF ExitsApart
<1>13. AllPast'
  <2>1. ASSUME NEW i \in DOMAIN s PROVE Past(lines[i])'
    <3>1. visit'[s[i]] <= visit'[s[i]]
      OBVIOUS
    <3> QED
      BY <1>7, <3>1 DEF Past
  <2>2. \A w \in writing : \A i \in DOMAIN w.lines : Past(w.lines[i])'
    BY <1>0, <1>11, PastStays
  <2>3. \A e \in Told : Past(e.line)'
    BY <1>0, <1>11, PastStays
  <2>4. \A i \in DOMAIN new.lines : Past(new.lines[i])'
    BY <1>1, <1>5, <2>1
  <2> QED
    BY <1>4, <1>6, <2>2, <2>3, <2>4 DEF AllPast
<1> QED
  BY <1>8, <1>12, <1>13

LEMMA SilentStep ==
  ASSUME VisitInv, Goes, writing' \subseteq writing,
         UNCHANGED <<feed, lastId, gen, stored, late, pageVars>>
  PROVE  FeedMove(LineOf) /\ ExitsApart' /\ AllPast'
<1>1. Told' \subseteq Told
  BY DEF Told, InHand
<1> QED
  BY <1>1, FewerLines DEF FeedMove, FeedRests

\* The steps of writers hand a line on, once.
LEMMA WriterLines ==
  ASSUME VisitInv, WriterStep, UNCHANGED placeVars
  PROVE  ExitsApart' /\ AllPast'
<1>0. FeedTypes(LineOf) /\ VisitTypes /\ ExitsApart /\ AllPast
  BY DEF VisitInv, FeedInv
<1>1. Goes
  BY DEF Goes, placeVars
<1>2. ASSUME NEW w \in writing, DrawsIds(w) PROVE ExitsApart' /\ AllPast'
  <2> DEFINE E == {[id |-> lastId + i, gen |-> gen, line |-> w.lines[i]] : i \in DOMAIN w.lines}
             v == [w EXCEPT !.at = "drawn", !.lines = <<>>, !.events = E]
  <2>1. writing' = (writing \ {w}) \cup {v} /\ stored' = stored
    BY <1>2 DEF DrawsIds
  <2>2. v.events = E /\ v.lines = <<>> /\ v.at = "drawn"
    BY <1>0 DEF FeedTypes, WriterOf
  <2>3. DOMAIN v.lines = {}
    BY <2>2
  <2>4. \A e \in E : \E i \in DOMAIN w.lines :
          e = [id |-> lastId + i, gen |-> gen, line |-> w.lines[i]]
    OBVIOUS
  <2> HIDE DEF E, v
  <2>5. Told' \subseteq Told \cup E
    <3>1. \A x \in writing' : x.events \subseteq InHand \cup E
      BY <2>1, <2>2 DEF InHand
    <3> QED
      BY <2>1, <3>1 DEF Told, InHand
  <2>6. \A x \in writing' : x.lines = <<>> \/ (x \in writing /\ x # w)
    BY <2>1, <2>2
  <2>7. ASSUME NEW e \in E, NEW f \in Told
        PROVE  ~ SameExit(e.line, f.line) /\ ~ SameExit(f.line, e.line)
    BY <1>0, <2>4 DEF ExitsApart, SameExit
  <2>8. ASSUME NEW e \in E, NEW f \in E, SameExit(e.line, f.line) PROVE e = f
    <3>1. PICK i \in DOMAIN w.lines : e = [id |-> lastId + i, gen |-> gen, line |-> w.lines[i]]
      BY <2>4
    <3>2. PICK j \in DOMAIN w.lines : f = [id |-> lastId + j, gen |-> gen, line |-> w.lines[j]]
      BY <2>4
    <3>3. i = j
      BY <1>0, <2>8, <3>1, <3>2 DEF ExitsApart
    <3> QED
      BY <3>1, <3>2, <3>3
  <2>9. ASSUME NEW e \in E, NEW x \in writing, x # w, NEW i \in DOMAIN x.lines
        PROVE  ~ SameExit(e.line, x.lines[i])
    BY <1>0, <2>4, <2>9 DEF ExitsApart
  <2>10. ExitsApart'
    <3>1. \A x \in writing' : x.at # "due" => x.lines = <<>>
      BY <1>0, <2>6 DEF ExitsApart
    <3>2. \A x, y \in writing' : \A i \in DOMAIN x.lines, j \in DOMAIN y.lines :
            SameExit(x.lines[i], y.lines[j]) => x = y /\ i = j
      BY <1>0, <2>1, <2>3 DEF ExitsApart
    <3>3. \A e, f \in Told' : SameExit(e.line, f.line) => e = f
      BY <1>0, <2>5, <2>7, <2>8 DEF ExitsApart
    <3>4. \A e \in Told', x \in writing' : \A i \in DOMAIN x.lines : ~ SameExit(e.line, x.lines[i])
      BY <1>0, <2>1, <2>3, <2>5, <2>9 DEF ExitsApart
    <3> QED
      BY <3>1, <3>2, <3>3, <3>4 DEF ExitsApart
  <2>11. AllPast'
    <3>1. \A x \in writing : \A i \in DOMAIN x.lines : Past(x.lines[i])'
      BY <1>0, <1>1, LinesType, PastStays DEF AllPast
    <3>2. \A e \in Told : Past(e.line)'
      BY <1>0, <1>1, LinesType, PastStays DEF AllPast
    <3>3. \A e \in E : Past(e.line)'
      BY <2>4, <3>1
    <3> QED
      BY <2>1, <2>3, <2>5, <3>1, <3>2, <3>3 DEF AllPast
  <2> QED
    BY <2>10, <2>11
<1>3. ASSUME NEW w \in writing, StoresEvents(w) PROVE ExitsApart' /\ AllPast'
  <2> DEFINE v == [w EXCEPT !.at = "stored", !.events = {}]
  <2>1. writing' = (writing \ {w}) \cup {v} /\ stored' = stored \cup w.events /\ w.at = "drawn"
    BY <1>3 DEF StoresEvents
  <2>2. v.events = {} /\ v.lines = <<>>
    BY <1>0, <2>1 DEF FeedTypes, WriterOf, ExitsApart
  <2>3. DOMAIN v.lines = {}
    BY <2>2
  <2> HIDE DEF v
  <2>4. Told' \subseteq Told
    <3>1. \A x \in writing' : x.events \subseteq InHand
      BY <2>1, <2>2 DEF InHand
    <3> QED
      BY <2>1, <3>1 DEF Told, InHand
  <2>5. ExitsApart'
    <3>1. \A x \in writing' : x.at # "due" => x.lines = <<>>
      BY <1>0, <2>1, <2>2 DEF ExitsApart
    <3> QED
      BY <1>0, <2>1, <2>3, <2>4, <3>1 DEF ExitsApart
  <2>6. AllPast'
    BY <1>0, <1>1, <2>1, <2>3, <2>4, LinesType, PastStays DEF AllPast
  <2> QED
    BY <2>5, <2>6
<1>4. ASSUME NEW w \in writing, Trims(w) \/ AppendEnds(w) PROVE ExitsApart' /\ AllPast'
  <2>1. writing' \subseteq writing /\ Told' \subseteq Told
    BY <1>4 DEF Trims, AppendEnds, Told, InHand
  <2> QED
    BY <1>1, <2>1, FewerLines
<1> QED
  BY <1>2, <1>3, <1>4 DEF WriterStep

LEMMA PageLines ==
  ASSUME VisitInv, PageStep, UNCHANGED placeVars
  PROVE  ExitsApart' /\ AllPast'
<1>1. Goes
  BY DEF Goes, placeVars
<1>2. UNCHANGED redisVars
  BY PageSees DEF VisitInv, FeedInv
<1>3. writing' = writing /\ Told' = Told
  BY <1>2 DEF redisVars, Told, InHand
<1> QED
  BY <1>1, <1>3, FewerLines
------------------------------------------------------------------------------
(* Steps.                                                                    *)

\* The users' places, once some have moved.
LEMMA MovesTypes ==
  ASSUME VisitTypes, NEW S \in SUBSET User, NEW to \in {"out", "line", "seat"}, Moves(S, to)
  PROVE  /\ place' \in [User -> {"out", "line", "seat"}]
         /\ \A u \in S : place'[u] = to
         /\ \A u \in User \ S : place'[u] = place[u]
BY DEF VisitTypes, Moves

\* Somebody comes.
LEMMA ComesStep ==
  ASSUME VisitTypes, NEW u \in User, NEW to \in {"line", "seat"}, Comes(u, to),
         UNCHANGED consumerVars
  PROVE  /\ VisitTypes' /\ Goes /\ visit' \in [User -> 0 .. MaxVisits]
         /\ visit'[u] \in 1 .. MaxVisits
<1>1. /\ visit' = [visit EXCEPT ![u] = @ + 1] /\ visit[u] < MaxVisits /\ Moves({u}, to)
  BY DEF Comes
<1>2. visit \in [User -> 0 .. MaxVisits] /\ visit[u] \in Nat
  BY DEF VisitTypes
<1>3. /\ visit'[u] = visit[u] + 1 /\ visit'[u] \in 1 .. MaxVisits
      /\ \A x \in User : x # u => visit'[x] = visit[x]
      /\ visit' \in [User -> 0 .. MaxVisits]
  <2>1. visit[u] + 1 \in 1 .. MaxVisits /\ visit[u] + 1 \in 0 .. MaxVisits
    BY <1>1, <1>2
  <2> QED
    BY <1>1, <1>2, <2>1
<1>4. /\ place' \in [User -> {"out", "line", "seat"}]
      /\ \A x \in User : x # u => place'[x] = place[x]
  BY <1>1, MovesTypes
<1>5. \A x \in User : place'[x] # "out" => visit'[x] >= 1
  BY <1>2, <1>3, <1>4 DEF VisitTypes
<1>6. Goes
  BY <1>3, <1>4 DEF Goes
<1> QED
  BY <1>3, <1>4, <1>5, <1>6 DEF VisitTypes, consumerVars

\* Somebody moves who is not out.
LEMMA MovingStep ==
  ASSUME VisitTypes, NEW S \in SUBSET User, NEW to \in {"out", "seat"}, Moves(S, to),
         \A u \in S : place[u] # "out" \/ to = "out", UNCHANGED visit
  PROVE  /\ Goes /\ place' \in [User -> {"out", "line", "seat"}]
         /\ \A u \in User : place'[u] # "out" => visit'[u] >= 1
         /\ \A u \in User : place[u] # "out" => visit'[u] \in 1 .. MaxVisits
<1>1. /\ place' \in [User -> {"out", "line", "seat"}]
      /\ \A u \in S : place'[u] = to
      /\ \A u \in User \ S : place'[u] = place[u]
  BY MovesTypes
<1>2. \A u \in User : place'[u] # "out" => place[u] # "out"
  BY <1>1
<1>3. ASSUME NEW u \in User, place[u] # "out" PROVE visit[u] \in 1 .. MaxVisits /\ visit[u] >= 1
  BY <1>3 DEF VisitTypes
<1> QED
  BY <1>1, <1>2, <1>3 DEF Goes

\* What a script returns that moves several users.
LEMMA BatchType ==
  ASSUME NEW s \in Batch
  PROVE  /\ s \in Seq(User) /\ ToSet(s) \subseteq User
         /\ \A i \in DOMAIN s : s[i] \in ToSet(s)
         /\ \A i, j \in DOMAIN s : s[i] = s[j] => i = j
<1>1. PICK m \in 0 .. Cardinality(User) : s \in [1 .. m -> User]
  BY DEF Batch, BoundedSeq, SeqOf
<1>2. m \in Nat
  BY <1>1
<1>3. s \in Seq(User)
  BY <1>1, <1>2
<1>4. \A i, j \in DOMAIN s : s[i] = s[j] => i = j
  BY DEF Batch, IsInjective
<1> QED
  BY <1>1, <1>3, <1>4 DEF ToSet

\* What a step has to show.
LEMMA Enough ==
  ASSUME VisitInv, FeedMove(LineOf), ExitsApart', AllPast', VisitTypes', ConsumerInv'
  PROVE  VisitInv'
BY FeedGoesOn DEF VisitInv

\* The consumer goes on.
LEMMA ConsumerRests ==
  ASSUME VisitInv, UNCHANGED consumerVars
  PROVE  ConsumerInv'
BY DEF VisitInv, ConsumerInv, consumerVars

\* A script moves some users and tells it.
LEMMA ScriptStep ==
  ASSUME VisitInv, NEW kind \in Kinds, NEW s \in Seq(User), NEW to \in {"out", "seat"},
         \A i, j \in DOMAIN s : s[i] = s[j] => i = j,
         Moves(ToSet(s), to), \A i \in DOMAIN s : place[s[i]] # "out", UNCHANGED visit,
         kind \in Exits => to = "out", Tells(kind, s)
  PROVE  VisitInv'
<1>0. VisitTypes
  BY DEF VisitInv
<1>1. /\ Due("pod", Lines(kind, s))
      /\ UNCHANGED <<feed, lastId, gen, stored, late, pageVars>>
      /\ UNCHANGED consumerVars
  BY DEF Tells
<1>2. /\ ToSet(s) \subseteq User /\ \A i \in DOMAIN s : s[i] \in ToSet(s) /\ s[i] \in User
      /\ \A u \in ToSet(s) : place[u] # "out"
  BY DEF ToSet
<1>3. /\ Goes /\ place' \in [User -> {"out", "line", "seat"}]
      /\ \A u \in User : place'[u] # "out" => visit'[u] >= 1
      /\ \A u \in User : place[u] # "out" => visit'[u] \in 1 .. MaxVisits
      /\ \A u \in ToSet(s) : place'[u] = to
  BY <1>0, <1>2, MovingStep, MovesTypes
<1>4. VisitTypes'
  BY <1>0, <1>1, <1>3 DEF VisitTypes, consumerVars
<1>5. /\ \A i \in DOMAIN s : visit'[s[i]] \in 1 .. MaxVisits /\ visit'[s[i]] = visit[s[i]]
      /\ \A i \in DOMAIN s : place'[s[i]] = to
  BY <1>2, <1>3
<1>6. FeedMove(LineOf) /\ ExitsApart' /\ AllPast'
  BY <1>1, <1>3, <1>5, TellingStep
<1> QED
  BY <1>1, <1>4, <1>6, Enough, ConsumerRests

\* Users.
LEMMA UserSteps ==
  ASSUME VisitInv, UserStep
  PROVE  VisitInv'
<1>0. VisitTypes
  BY DEF VisitInv
<1>1. ASSUME NEW u \in User PROVE /\ <<u>> \in Seq(User) /\ ToSet(<<u>>) = {u}
                                  /\ DOMAIN <<u>> = {1} /\ <<u>>[1] = u
  BY DEF ToSet
<1>2. ASSUME NEW u \in User, EnterSeat(u) PROVE VisitInv'
  <2>1. Comes(u, "seat") /\ Tells("ADMIT", <<u>>)
    BY <1>2 DEF EnterSeat
  <2>2. /\ Due("pod", Lines("ADMIT", <<u>>))
        /\ UNCHANGED <<feed, lastId, gen, stored, late, pageVars>>
        /\ UNCHANGED consumerVars
    BY <2>1 DEF Tells
  <2>3. VisitTypes' /\ Goes /\ visit'[u] \in 1 .. MaxVisits
    BY <1>0, <2>1, <2>2, ComesStep
  <2>4. "ADMIT" \in Kinds /\ "ADMIT" \notin Exits
    BY DEF Kinds, Exits
  <2>5. \A i \in DOMAIN <<u>> : visit'[<<u>>[i]] \in 1 .. MaxVisits
    BY <1>1, <2>3
  <2>6. FeedMove(LineOf) /\ ExitsApart' /\ AllPast'
    BY <1>1, <2>2, <2>3, <2>4, <2>5, TellingStep
  <2> QED
    BY <2>2, <2>3, <2>6, Enough, ConsumerRests
<1>3. ASSUME NEW u \in User, EnterLine(u) PROVE VisitInv'
  <2>1. Comes(u, "line") /\ UNCHANGED <<redisVars, pageVars, consumerVars>>
    BY <1>3 DEF EnterLine
  <2>2. VisitTypes' /\ Goes
    BY <1>0, <2>1, ComesStep
  <2>3. FeedMove(LineOf) /\ ExitsApart' /\ AllPast'
    BY <2>1, <2>2, SilentStep DEF redisVars
  <2> QED
    BY <2>1, <2>2, <2>3, Enough, ConsumerRests
<1>4. ASSUME NEW u \in User, LeaveAny(u) \/ HandBack(u) PROVE VisitInv'
  <2>1. PICK kind \in {"LEAVE", "RETURN"} :
          place[u] # "out" /\ Moves({u}, "out") /\ UNCHANGED visit /\ Tells(kind, <<u>>)
    BY <1>4 DEF LeaveAny, HandBack
  <2>2. kind \in Kinds
    BY DEF Kinds, Exits
  <2>3. /\ \A i, j \in DOMAIN <<u>> : <<u>>[i] = <<u>>[j] => i = j
        /\ \A i \in DOMAIN <<u>> : place[<<u>>[i]] # "out"
    BY <1>1, <2>1
  <2> QED
    BY <1>1, <2>1, <2>2, <2>3, ScriptStep
<1> QED
  BY <1>2, <1>3, <1>4 DEF UserStep

\* The loops.
LEMMA LoopSteps ==
  ASSUME VisitInv, LoopStep
  PROVE  VisitInv'
<1>1. PICK s \in Batch : PromoteLine(s) \/ ExpireSeats(s) \/ ExpireLine(s)
  BY DEF LoopStep
<1>2. PICK kind \in {"PROMOTE", "SESSION_EXPIRE", "WAIT_EXPIRE"}, to \in {"out", "seat"} :
        /\ kind \in Exits => to = "out"
        /\ \A u \in ToSet(s) : place[u] # "out"
        /\ Moves(ToSet(s), to) /\ UNCHANGED visit /\ Tells(kind, s)
  BY <1>1 DEF PromoteLine, ExpireSeats, ExpireLine, Exits
<1>3. kind \in Kinds
  BY DEF Kinds, Exits
<1>4. /\ s \in Seq(User) /\ \A i, j \in DOMAIN s : s[i] = s[j] => i = j
      /\ \A i \in DOMAIN s : place[s[i]] # "out"
  BY <1>2, BatchType
<1> QED
  BY <1>2, <1>3, <1>4, ScriptStep

\* The reset.
LEMMA ResetStep ==
  ASSUME VisitInv, ResetAll
  PROVE  VisitInv'
<1>0. VisitTypes
  BY DEF VisitInv
<1>1. /\ FeedDeleted /\ Moves(User, "out") /\ UNCHANGED visit
      /\ UNCHANGED pageVars /\ UNCHANGED consumerVars
  BY DEF ResetAll
<1>2. /\ Goes /\ place' \in [User -> {"out", "line", "seat"}]
      /\ \A u \in User : place'[u] # "out" => visit'[u] >= 1
  BY <1>0, <1>1, MovingStep
<1>3. VisitTypes'
  BY <1>0, <1>1, <1>2 DEF VisitTypes, consumerVars
<1>4. writing' = writing /\ Told' \subseteq Told
  BY <1>1 DEF FeedDeleted, Told, InHand
<1>5. ExitsApart' /\ AllPast' /\ FeedMove(LineOf)
  BY <1>1, <1>2, <1>4, FewerLines DEF FeedMove
<1> QED
  BY <1>1, <1>3, <1>5, Enough, ConsumerRests

\* Neither places nor lines are touched.
LEMMA QuietStep ==
  ASSUME VisitInv, UNCHANGED <<feed, lastId, gen, stored, late>>, UNCHANGED pageVars,
         UNCHANGED placeVars, writing' \subseteq writing, VisitTypes', ConsumerInv'
  PROVE  VisitInv'
<1>1. Goes
  BY DEF Goes, placeVars
<1>2. FeedMove(LineOf) /\ ExitsApart' /\ AllPast'
  BY <1>1, SilentStep
<1> QED
  BY <1>2, Enough

\* A message is written.
LEMMA ProducesStep ==
  ASSUME VisitInv, NEW m \in User \cup {Poison}, Produces(m)
  PROVE  VisitInv'
<1>0. VisitTypes /\ ConsumerInv
  BY DEF VisitInv
<1>1. /\ log' = Append(log, m)
      /\ UNCHANGED <<redisVars, pageVars, placeVars>>
      /\ UNCHANGED <<position, committed, handling, applied, failed>>
  BY DEF Produces
<1>2. log' \in Seq(User \cup {Poison}) /\ Len(log') = Len(log) + 1 /\ Len(log) \in Nat
  BY <1>0, <1>1 DEF VisitTypes
<1>3. /\ position' \in 1 .. Len(log') + 1 /\ committed' \in 1 .. Len(log') + 1
      /\ handling' # "nothing" => position' <= Len(log')
  BY <1>0, <1>1, <1>2 DEF VisitTypes
<1>4. VisitTypes'
  BY <1>0, <1>1, <1>2, <1>3 DEF VisitTypes, placeVars
<1>5. ConsumerInv'
  BY <1>0, <1>1 DEF ConsumerInv
<1>6. UNCHANGED <<feed, lastId, gen, stored, late>> /\ writing' = writing
  BY <1>1 DEF redisVars
<1> QED
  BY <1>1, <1>4, <1>5, <1>6, QuietStep

\* The consumer goes to the next message.
LEMMA NextOffset ==
  ASSUME ConsumerInv, VisitTypes, handling # "nothing", position' = position + 1,
         handling' = "nothing", committed' \in {committed, position + 1}, log' = log,
         applied \subseteq applied', failed \subseteq failed',
         position \in applied' \cup failed'
  PROVE  /\ ConsumerInv' /\ position' \in 1 .. Len(log') + 1
         /\ committed' \in 1 .. Len(log') + 1
<1>1. /\ Len(log) \in Nat /\ position \in Nat /\ position >= 1 /\ position <= Len(log)
      /\ committed \in 1 .. Len(log) + 1
  BY DEF VisitTypes
<1>2. position' \in 1 .. Len(log') + 1 /\ committed' \in 1 .. Len(log') + 1
  BY <1>1
<1>3. ASSUME NEW o \in 1 .. position' - 1 PROVE o \in applied' \cup failed'
  <2>1. o \in 1 .. position - 1 \/ o = position
    BY <1>1
  <2> QED
    BY <2>1 DEF ConsumerInv
<1>4. ASSUME NEW o \in 1 .. committed' - 1 PROVE o \in applied' \cup failed'
  <2>1. CASE committed' = committed
    BY <2>1 DEF ConsumerInv
  <2>2. CASE committed' = position + 1
    BY <1>3, <2>2
  <2> QED
    BY <2>1, <2>2
<1> QED
  BY <1>2, <1>3, <1>4 DEF ConsumerInv

\* The consumer.
LEMMA ConsumerSteps ==
  ASSUME VisitInv, ConsumerStep
  PROVE  VisitInv'
<1> USE DEF redisVars
<1>0. VisitTypes /\ ConsumerInv
  BY DEF VisitInv
<1>1. CASE Fetches
  <2>1. VisitTypes' /\ ConsumerInv'
    BY <1>0, <1>1 DEF Fetches, VisitTypes, ConsumerInv, placeVars
  <2> QED
    BY <1>1, <2>1, QuietStep DEF Fetches
<1>2. CASE Unreadable
  <2>1. VisitTypes'
    BY <1>0, <1>2 DEF Unreadable, VisitTypes, placeVars
  <2>2. ConsumerInv'
    BY <1>0, <1>2 DEF Unreadable, ConsumerInv
  <2> QED
    BY <1>2, <2>1, <2>2, QuietStep DEF Unreadable
<1>3. CASE Applies
  <2> DEFINE u == log[position]
  <2>1. /\ handling = "message" /\ u # Poison /\ handling' = "done"
        /\ applied' = applied \cup {position}
        /\ UNCHANGED <<visit, log, position, committed, failed>>
        /\ UNCHANGED <<feed, lastId, gen, stored, late, pageVars>>
        /\ \/ place[u] = "seat" /\ Moves({u}, "out") /\ Due("consumer", Lines("RETURN", <<u>>))
           \/ place[u] # "seat" /\ UNCHANGED <<place, writing>>
    BY <1>3 DEF Applies
  <2>2. u \in User
    <3>1. position \in 1 .. Len(log) /\ log \in Seq(User \cup {Poison})
      BY <1>0, <2>1 DEF VisitTypes
    <3> QED
      BY <2>1, <3>1
  <2> HIDE DEF u
  <2>3. ConsumerInv'
    BY <1>0, <2>1 DEF ConsumerInv
  <2>4. CASE place[u] = "seat" /\ Moves({u}, "out") /\ Due("consumer", Lines("RETURN", <<u>>))
    <3>1. /\ Goes /\ place' \in [User -> {"out", "line", "seat"}]
          /\ \A x \in User : place'[x] # "out" => visit'[x] >= 1
          /\ visit'[u] \in 1 .. MaxVisits /\ place'[u] = "out"
      BY <1>0, <2>1, <2>2, <2>4, MovingStep, MovesTypes
    <3>2. VisitTypes'
      BY <1>0, <2>1, <3>1 DEF VisitTypes
    <3>3. <<u>> \in Seq(User) /\ DOMAIN <<u>> = {1} /\ <<u>>[1] = u
      BY <2>2
    <3>4. /\ \A i \in DOMAIN <<u>> : visit'[<<u>>[i]] \in 1 .. MaxVisits
          /\ \A i, j \in DOMAIN <<u>> : <<u>>[i] = <<u>>[j] => i = j
          /\ \A i \in DOMAIN <<u>> : /\ place[<<u>>[i]] # "out" /\ place'[<<u>>[i]] = "out"
                                     /\ visit'[<<u>>[i]] = visit[<<u>>[i]]
      BY <2>1, <2>4, <3>1, <3>3
    <3>5. "RETURN" \in Kinds
      BY DEF Kinds, Exits
    <3>6. FeedMove(LineOf) /\ ExitsApart' /\ AllPast'
      BY <2>1, <2>4, <3>1, <3>3, <3>4, <3>5, TellingStep
    <3> QED
      BY <2>3, <3>2, <3>6, Enough
  <2>5. CASE place[u] # "seat" /\ UNCHANGED <<place, writing>>
    <3>1. VisitTypes'
      BY <1>0, <2>1, <2>5 DEF VisitTypes
    <3> QED
      BY <2>1, <2>3, <2>5, <3>1, QuietStep DEF placeVars
  <2> QED
    BY <2>1, <2>4, <2>5
<1>4. CASE ApplyFails
  <2> DEFINE u == log[position]
  <2>1. /\ handling = "message" /\ u # Poison /\ handling' = "nothing"
        /\ position' = position + 1 /\ failed' = failed \cup {position}
        /\ UNCHANGED place \/ (place[u] = "seat" /\ Moves({u}, "out"))
        /\ UNCHANGED <<visit, log, committed, applied>>
        /\ UNCHANGED redisVars /\ UNCHANGED pageVars
    BY <1>4 DEF ApplyFails
  <2>2. u \in User
    <3>1. position \in 1 .. Len(log) /\ log \in Seq(User \cup {Poison})
      BY <1>0, <2>1 DEF VisitTypes
    <3> QED
      BY <2>1, <3>1
  <2> HIDE DEF u
  <2>3. /\ Goes /\ place' \in [User -> {"out", "line", "seat"}]
        /\ \A x \in User : place'[x] # "out" => visit'[x] >= 1
    <3>1. CASE UNCHANGED place
      BY <1>0, <2>1, <3>1 DEF VisitTypes, Goes
    <3>2. CASE place[u] = "seat" /\ Moves({u}, "out")
      BY <1>0, <2>1, <2>2, <3>2, MovingStep
    <3> QED
      BY <2>1, <3>1, <3>2
  <2>4. committed' = committed
    BY <2>1
  <2>5. /\ ConsumerInv' /\ position' \in 1 .. Len(log') + 1 /\ committed' \in 1 .. Len(log') + 1
    BY <1>0, <2>1, <2>4, NextOffset
  <2>6. VisitTypes'
    BY <1>0, <2>1, <2>3, <2>5 DEF VisitTypes
  <2>7. FeedMove(LineOf) /\ ExitsApart' /\ AllPast'
    BY <2>1, <2>3, SilentStep
  <2> QED
    BY <2>5, <2>6, <2>7, Enough
<1>5. CASE Commits
  <2>1. /\ handling = "done" /\ handling' = "nothing" /\ position' = position + 1
        /\ committed' \in {committed, position + 1}
        /\ UNCHANGED <<log, applied, failed>>
        /\ UNCHANGED redisVars /\ UNCHANGED pageVars /\ UNCHANGED placeVars
    BY <1>5 DEF Commits
  <2>2. position \in applied
    BY <1>0, <2>1 DEF ConsumerInv
  <2>3. /\ ConsumerInv' /\ position' \in 1 .. Len(log') + 1 /\ committed' \in 1 .. Len(log') + 1
    BY <1>0, <2>1, <2>2, NextOffset
  <2>4. VisitTypes'
    BY <1>0, <2>1, <2>3 DEF VisitTypes, placeVars
  <2> QED
    BY <2>1, <2>3, <2>4, QuietStep
<1>6. CASE Restarts
  <2>1. /\ handling' = "nothing" /\ position' = committed /\ writing' \subseteq writing
        /\ UNCHANGED <<feed, lastId, gen, stored, late>>
        /\ UNCHANGED pageVars /\ UNCHANGED placeVars
        /\ UNCHANGED <<log, committed, applied, failed>>
    BY <1>6 DEF Restarts
  <2>2. ConsumerInv'
    BY <1>0, <2>1 DEF ConsumerInv
  <2>3. VisitTypes'
    BY <1>0, <2>1 DEF VisitTypes, placeVars
  <2> QED
    BY <2>1, <2>2, <2>3, QuietStep
<1> QED
  BY <1>1, <1>2, <1>3, <1>4, <1>5, <1>6 DEF ConsumerStep
------------------------------------------------------------------------------
(* The theorems.                                                             *)

LEMMA VisitBegins ==
  VisitInit => VisitInv
<1> SUFFICES ASSUME VisitInit PROVE VisitInv
  OBVIOUS
<1>1. FeedInit
  BY DEF VisitInit
<1>2. FeedInv(LineOf)
  BY <1>1, FeedBegins
<1>3. writing = {} /\ Told = {}
  BY <1>1 DEF FeedInit, Told, InHand
<1>4. ExitsApart /\ AllPast
  BY <1>3 DEF ExitsApart, AllPast
<1>5. log = <<>> /\ position = 1 /\ committed = 1 /\ handling = "nothing"
  BY DEF VisitInit
<1>6. ConsumerInv
  <2>1. \A o \in 1 .. 0 : FALSE
    OBVIOUS
  <2> QED
    BY <1>5, <2>1 DEF ConsumerInv
<1>7. VisitTypes
  <2>1. log \in Seq(User \cup {Poison}) /\ Len(log) = 0
    BY <1>5
  <2> QED
    BY <1>5, <2>1 DEF VisitTypes, VisitInit
<1> QED
  BY <1>2, <1>4, <1>6, <1>7 DEF VisitInv

LEMMA VisitGoesOn ==
  VisitInv /\ [VisitNext]_visitVars => VisitInv'
<1> SUFFICES ASSUME VisitInv, [VisitNext]_visitVars PROVE VisitInv'
  OBVIOUS
<1>0. VisitTypes /\ ConsumerInv
  BY DEF VisitInv
<1>1. ASSUME UNCHANGED placeVars, UNCHANGED consumerVars, FeedMove(LineOf), ExitsApart', AllPast'
      PROVE  VisitInv'
  <2>1. VisitTypes'
    BY <1>0, <1>1 DEF VisitTypes, placeVars, consumerVars
  <2> QED
    BY <1>1, <2>1, Enough, ConsumerRests
<1>2. CASE WriterStep /\ UNCHANGED <<placeVars, consumerVars>>
  BY <1>1, <1>2, WriterLines DEF FeedMove
<1>3. CASE PageStep /\ UNCHANGED <<placeVars, consumerVars>>
  BY <1>1, <1>3, PageLines DEF FeedMove
<1>4. CASE UNCHANGED visitVars
  <2>1. /\ UNCHANGED placeVars /\ UNCHANGED consumerVars /\ UNCHANGED pageVars
        /\ UNCHANGED <<feed, lastId, gen, stored, late>> /\ writing' = writing
    BY <1>4 DEF visitVars, redisVars
  <2>2. VisitTypes'
    BY <1>0, <2>1 DEF VisitTypes, placeVars, consumerVars
  <2> QED
    BY <2>1, <2>2, QuietStep, ConsumerRests
<1> QED
  BY <1>2, <1>3, <1>4, UserSteps, LoopSteps, ResetStep, ProducesStep, ConsumerSteps
     DEF VisitNext

\* The inductive invariant.
LEMMA VisitInvariant ==
  VisitSpec => []VisitInv
BY VisitBegins, VisitGoesOn, PTL DEF VisitSpec

\* What the invariant says in the words of VisitFeed.
LEMMA VisitMeans ==
  ASSUME VisitInv
  PROVE  FeedTypeOK /\ OneExitLine /\ NothingSkipped /\ NewestKept /\ ShownOnce /\ MissedOnlyLate
<1>1. FeedTypes(LineOf) /\ PageInv /\ HoldsNewest /\ VisitTypes /\ ConsumerInv /\ ExitsApart
  BY DEF VisitInv, FeedInv
<1>2. FeedTypeOK
  <2>1. /\ feed \subseteq [id : Nat \ {0}, gen : Nat, line : LineOf]
        /\ lastId \in Nat /\ cursor \in Nat
    BY <1>1 DEF FeedTypes, FinEvents, EventOf
  <2>2. \A w \in writing : /\ w.by \in {"pod", "consumer"} /\ w.at \in {"due", "drawn", "stored"}
                           /\ w.lines \in Seq(LineOf)
                           /\ w.events \subseteq [id : Nat \ {0}, gen : Nat, line : LineOf]
    BY <1>1 DEF FeedTypes, WriterOf, FinEvents, EventOf
  <2>3. DOMAIN poll = Poll /\ \A p \in Poll : poll[p].at \in {"idle", "asked", "measured", "read"}
    BY <1>1 DEF FeedTypes, PollOf
  <2> QED
    BY <1>1, <2>1, <2>2, <2>3 DEF FeedTypeOK, VisitTypes
<1>3. OneExitLine
  <2>1. SUFFICES ASSUME NEW e \in stored, NEW f \in stored,
                        {e.line.kind, f.line.kind} \subseteq Exits,
                        e.line.rid = f.line.rid, e.line.visit = f.line.visit
                 PROVE  e = f
    BY DEF OneExitLine, Exits
  <2>2. SameExit(e.line, f.line) /\ e \in Told /\ f \in Told
    BY <2>1 DEF SameExit, Told
  <2> QED
    BY <1>1, <2>2 DEF ExitsApart
<1>4. NothingSkipped
  BY <1>1 DEF ConsumerInv, NothingSkipped
<1>5. NewestKept
  BY <1>1 DEF HoldsNewest, NewestKept
<1>6. ShownOnce
  BY <1>1 DEF PageInv, ShownInv, ShownOnce
<1>7. MissedOnlyLate
  BY <1>1 DEF PageInv, TrackInv, Tracked, CompleteTo, MissedOnlyLate
<1> QED
  BY <1>2, <1>3, <1>4, <1>5, <1>6, <1>7

\* Types.
THEOREM FeedTypeCorrect ==
  VisitSpec => []FeedTypeOK
BY VisitInvariant, VisitMeans, PTL

\* A visit ends with one line at most: what a script took out of a place, under
\* the lock of Redis, no other way out finds there (kafka.go:275, admission.go:308).
THEOREM OneExitLineHolds ==
  VisitSpec => []OneExitLine
BY VisitInvariant, VisitMeans, PTL

\* What the committed offset covers has been handled, or its handling has failed,
\* wherever the consumer dies and resumes (kafka.go:227-228).
THEOREM NothingSkippedHolds ==
  VisitSpec => []NothingSkipped
BY VisitInvariant, VisitMeans, PTL

\* The trims of any number of writers keep the newest events (events.go:61-64).
THEOREM NewestKeptHolds ==
  VisitSpec => []NewestKept
BY VisitInvariant, VisitMeans, PTL

\* No event is shown twice on a page whose requests do not overlap (events.go:27-28).
THEOREM ShownOnceHolds ==
  VisitSpec => []ShownOnce
BY VisitInvariant, VisitMeans, PTL

\* The cursor passes nothing by but what came late or the first load left out
\* (events.go:27-28, :42, :62, live.js:130-131).
THEOREM MissedOnlyLateHolds ==
  VisitSpec => []MissedOnlyLate
BY VisitInvariant, VisitMeans, PTL

\* An answer read since the last reset leaves the cursor inside the feed
\* (live.js:130-131, events.go:76-77).
THEOREM CursorRealignsHolds ==
  VisitSpec => CursorRealigns
<1>1. VisitInv => [\A p \in Poll : PageShows(p) /\ poll[p].gen = gen => cursor' <= Top]_visitVars
  BY Realigns DEF VisitInv, FeedInv
<1> QED
  BY <1>1, VisitInvariant, PTL DEF CursorRealigns
============================================================================
