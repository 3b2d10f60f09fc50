------------------------------ MODULE VisitFeed ------------------------------
(***************************************************************************)
(* Whose lines the feed shows: users come, wait, get seats and go, each    *)
(* way out racing the others, and one of them is the consumer of           *)
(* bookings-completed, which reads a Kafka partition at least once: it     *)
(* commits what it has processed, may fail, crash, be rebalanced and read  *)
(* again.  A place is changed by a script, its line appended afterwards.   *)
(***************************************************************************)
EXTENDS EventFeed

CONSTANTS
  User,         \* request ids
  MaxVisits,    \* bound: visits of one user
  MaxMessages   \* bound: messages in the partition

ASSUME VisitFeedAssumption == MaxVisits \in Nat /\ MaxMessages \in Nat

VARIABLES
  place,       \* where each user is (the sorted sets active and waiting)
  visit,       \* history: the number of each user's visits
  log,         \* the partition of bookings-completed (external)
  position,    \* the offset the consumer is at
  committed,   \* the committed offset of group "queue"
  handling,    \* what the consumer is doing
  applied,     \* history: offsets whose message was processed or is unreadable
  failed       \* history: offsets whose processing has failed

placeVars    == <<place, visit>>
consumerVars == <<log, position, committed, handling, applied, failed>>
visitVars    == <<redisVars, pageVars, placeVars, consumerVars>>

Poison == "not an event"

VisitInit ==
  /\ FeedInit
  /\ place = [u \in User |-> "out"]
  /\ visit = [u \in User |-> 0]
  /\ log = <<>>
  /\ position = 1 /\ committed = 1   \* the first offset is 1 here
  /\ handling = "nothing"
  /\ applied = {} /\ failed = {}

\* What a script returns that moves several users: they are in some order.
Batch == {s \in BoundedSeq(User, Cardinality(User)) : s # <<>> /\ IsInjective(s)}

\* One line for each user of s.
Lines(kind, s) == [i \in DOMAIN s |-> [kind |-> kind, rid |-> s[i], visit |-> visit'[s[i]]]]

Moves(S, to) == place' = [u \in User |-> IF u \in S THEN to ELSE place[u]]

\* After a script, by a pod: the line of what has happened is due.
Tells(kind, s) ==
  /\ Due("pod", Lines(kind, s))
  /\ UNCHANGED <<feed, lastId, gen, stored, late, pageVars, consumerVars>>
------------------------------------------------------------------------------
\* enter: a seat, or the line (no line in the feed for that).
Comes(u, to) ==
  /\ place[u] = "out"
  /\ visit[u] < MaxVisits
  /\ visit' = [visit EXCEPT ![u] = @ + 1]
  /\ Moves({u}, to)

EnterSeat(u) == Comes(u, "seat") /\ Tells("ADMIT", <<u>>)

EnterLine(u) == Comes(u, "line") /\ UNCHANGED <<redisVars, pageVars, consumerVars>>

\* processMovie.
PromoteLine(s) ==
  /\ \A u \in ToSet(s) : place[u] = "line"
  /\ Moves(ToSet(s), "seat")
  /\ UNCHANGED visit
  /\ Tells("PROMOTE", s)

\* The two timeout loops.
ExpireSeats(s) ==
  /\ \A u \in ToSet(s) : place[u] = "seat"
  /\ Moves(ToSet(s), "out")
  /\ UNCHANGED visit
  /\ Tells("SESSION_EXPIRE", s)

ExpireLine(s) ==
  /\ \A u \in ToSet(s) : place[u] = "line"
  /\ Moves(ToSet(s), "out")
  /\ UNCHANGED visit
  /\ Tells("WAIT_EXPIRE", s)

\* leave: who was nowhere gets no line.
LeaveAny(u) ==
  /\ place[u] # "out"
  /\ Moves({u}, "out")
  /\ UNCHANGED visit
  /\ Tells("LEAVE", <<u>>)

\* complete: the user hands his seat back.
HandBack(u) ==
  /\ place[u] = "seat"
  /\ Moves({u}, "out")
  /\ UNCHANGED visit
  /\ Tells("RETURN", <<u>>)

\* The reset's DEL takes the places and the feed.
ResetAll ==
  /\ FeedDeleted
  /\ Moves(User, "out")
  /\ UNCHANGED <<visit, pageVars, consumerVars>>
------------------------------------------------------------------------------
\* booking (or somebody else) writes to the topic.
Produces(m) ==
  /\ Len(log) < MaxMessages
  /\ log' = Append(log, m)
  /\ UNCHANGED <<redisVars, pageVars, placeVars, position, committed, handling, applied, failed>>

\* Mutant: a message is committed when it is received.
FetchesCommitted ==
  /\ handling = "nothing" /\ position <= Len(log)
  /\ handling' = "message"
  /\ committed' = position + 1
  /\ UNCHANGED <<redisVars, pageVars, placeVars, log, position, applied, failed>>

\* FetchMessage.
Fetches ==
  /\ handling = "nothing" /\ position <= Len(log)
  /\ handling' = "message"
  /\ UNCHANGED <<redisVars, pageVars, placeVars, log, position, committed, applied, failed>>

\* json.Unmarshal fails: to be committed and skipped.
Unreadable ==
  /\ handling = "message" /\ log[position] = Poison
  /\ handling' = "done"
  /\ applied' = applied \cup {position}
  /\ UNCHANGED <<redisVars, pageVars, placeVars, log, position, committed, failed>>

\* Mutant: the line is appended whether or not there was a seat.
AppliesAndTells ==
  /\ handling = "message" /\ log[position] # Poison
  /\ handling' = "done"
  /\ applied' = applied \cup {position}
  /\ UNCHANGED <<visit, log, position, committed, failed, feed, lastId, gen, stored, late, pageVars>>
  /\ Moves(IF place[log[position]] = "seat" THEN {log[position]} ELSE {}, "out")
  /\ Due("consumer", Lines("RETURN", <<log[position]>>))

\* CompleteActive: a line is due if there was a seat (of whichever visit).
Applies ==
  LET u == log[position] IN
  /\ handling = "message" /\ u # Poison
  /\ handling' = "done"
  /\ applied' = applied \cup {position}
  /\ UNCHANGED <<visit, log, position, committed, failed, feed, lastId, gen, stored, late, pageVars>>
  /\ \/ place[u] = "seat" /\ Moves({u}, "out") /\ Due("consumer", Lines("RETURN", <<u>>))
     \/ place[u] # "seat" /\ UNCHANGED <<place, writing>>

\* CompleteActive reports an error, executed or not: no line, no commit, next.
ApplyFails ==
  LET u == log[position] IN
  /\ handling = "message" /\ u # Poison
  /\ handling' = "nothing"
  /\ position' = position + 1
  /\ failed' = failed \cup {position}
  /\ UNCHANGED place \/ (place[u] = "seat" /\ Moves({u}, "out"))
  /\ UNCHANGED <<visit, log, committed, applied, redisVars, pageVars>>

\* CommitMessages, after the line; an error is only logged.
Commits ==
  /\ handling = "done"
  /\ \A w \in writing : w.by # "consumer"
  /\ handling' = "nothing"
  /\ position' = position + 1
  /\ committed' \in {committed, position + 1}
  /\ UNCHANGED <<redisVars, pageVars, placeVars, log, applied, failed>>

\* The pod dies or the group is rebalanced: reading resumes after the last commit.
Restarts ==
  /\ position # committed \/ handling # "nothing"
  /\ handling' = "nothing"
  /\ position' = committed
  /\ writing' = {w \in writing : w.by # "consumer"}
  /\ UNCHANGED <<feed, lastId, gen, stored, late, pageVars, placeVars, log, committed,
                 applied, failed>>
------------------------------------------------------------------------------
UserStep == \E u \in User : EnterSeat(u) \/ EnterLine(u) \/ LeaveAny(u) \/ HandBack(u)

LoopStep ==
  \E s \in Batch : PromoteLine(s) \/ ExpireSeats(s) \/ ExpireLine(s)

ConsumerStep == Fetches \/ Unreadable \/ Applies \/ ApplyFails \/ Commits \/ Restarts

VisitNext ==
  \/ UserStep \/ LoopStep \/ ResetAll
  \/ \E m \in User \cup {Poison} : Produces(m)
  \/ ConsumerStep
  \/ WriterStep /\ UNCHANGED <<placeVars, consumerVars>>
  \/ PageStep /\ UNCHANGED <<placeVars, consumerVars>>

VisitSpec == VisitInit /\ [][VisitNext]_visitVars
------------------------------------------------------------------------------
LineOf == [kind : {"ADMIT", "PROMOTE", "SESSION_EXPIRE", "WAIT_EXPIRE", "LEAVE", "RETURN"},
           rid : User, visit : 1 .. MaxVisits]

\* Types.
FeedTypeOK ==
  /\ feed \subseteq [id : Nat \ {0}, gen : Nat, line : LineOf]
  /\ lastId \in Nat /\ cursor \in Nat
  /\ \A w \in writing : /\ w.by \in {"pod", "consumer"} /\ w.at \in {"due", "drawn", "stored"}
                        /\ w.lines \in Seq(LineOf)
                        /\ w.events \subseteq [id : Nat \ {0}, gen : Nat, line : LineOf]
  /\ DOMAIN poll = Poll
  /\ \A p \in Poll : poll[p].at \in {"idle", "asked", "measured", "read"}
  /\ place \in [User -> {"out", "line", "seat"}]
  /\ log \in Seq(User \cup {Poison})
  /\ {position, committed} \subseteq 1 .. Len(log) + 1
  /\ handling \in {"nothing", "message", "done"}

\* However the ways out race (timeouts, leave, complete, a completion delivered
\* again after a crash), one visit ends with at most one line: only the call that
\* really took the user out of his place tells it (kafka.go:275, admission.go:308).
OneExitLine ==
  \A e, f \in stored :
    /\ {e.line.kind, f.line.kind} \subseteq {"SESSION_EXPIRE", "WAIT_EXPIRE", "LEAVE", "RETURN"}
    /\ e.line.rid = f.line.rid /\ e.line.visit = f.line.visit
    => e = f

\* No message is passed over in a crash: whatever the committed offset covers has
\* been processed, or its processing has reported an error (kafka.go:227-228).
NothingSkipped == \A o \in 1 .. committed - 1 : o \in applied \cup failed

\* The feed holds the newest events: one that is gone from it was pushed out by
\* EventCap newer ones, however the stores and trims of several pods interleave
\* and whichever of them die half-way (events.go:61-64).
NewestKept ==
  \A e \in stored \ feed : Cardinality({f \in feed : Newer(f, e)}) >= EventCap

\* A page whose requests do not overlap shows no event twice, not even around a
\* reset (events.go:27-28).
ShownOnce == twice # {} => overlapped

\* The cursor passes no event of the feed by, except those the first load leaves
\* out and those stored after an event with as large an id.  After a reset that
\* needs a page that has started again and whose requests do not overlap: a feed
\* that was reset and has grown beyond the old cursor between two polls looks like
\* one that was not (events.go:27-28, :42, :62, live.js:130-131).
MissedOnlyLate ==
  gen = 0 \/ (gen = baseGen /\ ~ overlapped) =>
    \A e \in stored \cap feed : e.id <= cursor => e \in shown \cup late \cup skipped

\* A reset takes the ids back to 1: an answer that was read since the last reset
\* leaves the cursor inside the feed, however far it was ahead, so that the page
\* sees what comes next (live.js:130-131, events.go:76-77).
CursorRealigns ==
  [][\A p \in Poll : PageShows(p) /\ poll[p].gen = gen => cursor' <= Top]_visitVars
==============================================================================
