------------------------------ MODULE EventFeed ------------------------------
(***************************************************************************)
(* The live feed of one movie: a capped sorted set of events in Redis, the *)
(* pods that append to it (the ids are drawn in one call and the events    *)
(* stored in another) and a visitor's page that reads it behind a cursor.  *)
(* Appending is best-effort: a writer may die between any two calls.  The  *)
(* page asks every few seconds whether or not the last answer has come.    *)
(* What the lines say, and when they are due, is up to the module that     *)
(* extends this one.                                                       *)
(***************************************************************************)
EXTENDS Naturals, FiniteSets, SequencesExt

CONSTANTS
  EventCap,    \* eventCap
  FirstLoad,   \* events in the answer to a page that has no cursor (30)
  Poll,        \* requests of the page: bound on how many are under way at once
  MaxId,       \* bound: ids drawn between two resets
  MaxResets    \* bound: resets in a behaviour

ASSUME EventFeedAssumption ==
  /\ EventCap \in Nat \ {0}
  /\ FirstLoad \in Nat \ {0}
  /\ MaxId \in Nat /\ MaxResets \in Nat

VARIABLES
  feed,        \* events:{movie}, score = id
  lastId,      \* events_id:{movie}
  writing,     \* AppendEvents calls that are due or under way
  poll,        \* requests of the page under way
  cursor,      \* S.lastEventId of the page
  gen,         \* history: resets so far
  stored,      \* history: events stored since the last reset
  late,        \* history: events stored when one with as large an id was in the feed
  skipped,     \* history: events the first load has left out
  shown,       \* history: events on the page
  twice,       \* history: events that have been put on the page again
  overlapped,  \* history: two requests of the page were under way at one time
  baseGen      \* history: the resets before the first load the cursor started from

redisVars == <<feed, lastId, writing, gen, stored, late>>
pageVars  == <<poll, cursor, skipped, shown, twice, overlapped, baseGen>>

NoPoll == [at |-> "idle", after |-> 0, last |-> 0, got |-> {}, gen |-> 0]

FeedInit ==
  /\ feed = {} /\ lastId = 0 /\ writing = {}
  /\ poll = [p \in Poll |-> NoPoll] /\ cursor = 0
  /\ gen = 0 /\ baseGen = 0
  /\ stored = {} /\ late = {} /\ skipped = {} /\ shown = {} /\ twice = {}
  /\ overlapped = FALSE

Ids(E) == {e.id : e \in E}

\* The score of the last member, 0 of an empty feed.
Top == Max(Ids(feed) \cup {0})

\* The order of the sorted set: by id, and the events that share an id (one was
\* drawn before a reset and stored after it) by their text, which starts with it.
Newer(e, f) == e.id > f.id \/ (e.id = f.id /\ e.gen > f.gen)

\* The n newest of E.
Newest(E, n) == {e \in E : Cardinality({f \in E : Newer(f, e)}) < n}
------------------------------------------------------------------------------
\* AppendEvents, called after a script: lines is a sequence.
Due(by, lines) ==
  writing' = writing \cup {[by |-> by, at |-> "due", lines |-> lines, events |-> {}]}

\* Mutant: the ids begin with the value before the first.
DrawsFromLast(w) ==
  /\ w.at = "due"
  /\ lastId + Len(w.lines) <= MaxId
  /\ lastId' = lastId + Len(w.lines)
  /\ writing' = (writing \ {w}) \cup
       {[w EXCEPT !.at = "drawn", !.lines = <<>>,
           !.events = {[id |-> lastId + i - 1, gen |-> gen, line |-> w.lines[i]]
                         : i \in DOMAIN w.lines}]}
  /\ UNCHANGED <<feed, gen, stored, late, pageVars>>

\* INCRBY n.
DrawsIds(w) ==
  /\ w.at = "due"
  /\ lastId + Len(w.lines) <= MaxId
  /\ lastId' = lastId + Len(w.lines)
  /\ writing' = (writing \ {w}) \cup
       {[w EXCEPT !.at = "drawn", !.lines = <<>>,
           !.events = {[id |-> lastId + i, gen |-> gen, line |-> w.lines[i]]
                         : i \in DOMAIN w.lines}]}
  /\ UNCHANGED <<feed, gen, stored, late, pageVars>>

\* ZADD.
StoresEvents(w) ==
  /\ w.at = "drawn"
  /\ feed' = feed \cup w.events
  /\ writing' = (writing \ {w}) \cup {[w EXCEPT !.at = "stored", !.events = {}]}
  /\ stored' = stored \cup w.events
  /\ late' = late \cup {e \in w.events : e.id <= Top}
  /\ UNCHANGED <<lastId, gen, pageVars>>

\* Mutant: the rank of the last event to go is one too high.
TrimsOneMore(w) ==
  /\ w.at = "stored"
  /\ feed' = Newest(feed, EventCap - 1)
  /\ writing' = writing \ {w}
  /\ UNCHANGED <<lastId, gen, stored, late, pageVars>>

\* ZREMRANGEBYRANK 0 -(eventCap+1).
Trims(w) ==
  /\ w.at = "stored"
  /\ feed' = Newest(feed, EventCap)
  /\ writing' = writing \ {w}
  /\ UNCHANGED <<lastId, gen, stored, late, pageVars>>

\* An error or the end of the pod: the rest of the call is not made.
AppendEnds(w) ==
  /\ writing' = writing \ {w}
  /\ UNCHANGED <<feed, lastId, gen, stored, late, pageVars>>

\* The operator's reset deletes both keys with one DEL.
FeedDeleted ==
  /\ gen < MaxResets
  /\ gen' = gen + 1
  /\ feed' = {}
  /\ lastId' = 0
  /\ stored' = {}
  /\ UNCHANGED <<writing, late>>
------------------------------------------------------------------------------
\* pollEvents: the page asks for what comes after its cursor.
PageAsks(p) ==
  /\ poll[p].at = "idle"
  /\ poll' = [poll EXCEPT ![p] = [NoPoll EXCEPT !.at = "asked", !.after = cursor]]
  /\ overlapped' = (overlapped \/ \E q \in Poll : poll[q].at # "idle")
  /\ UNCHANGED <<redisVars, cursor, skipped, shown, twice, baseGen>>

\* ReadEvents looks for the largest id ...
ReadsLast(p) ==
  /\ poll[p].at = "asked"
  /\ poll' = [poll EXCEPT ![p].at = "measured", ![p].last = Top, ![p].gen = gen]
  /\ UNCHANGED <<redisVars, cursor, skipped, shown, twice, overlapped, baseGen>>

\* Mutant: the lower bound of the range is closed.
AfterClosed(after) == {e \in feed : e.id >= after}

\* Mutant: the lower bound is open, and one too high.
AfterNext(after) == {e \in feed : e.id > after + 1}

\* The range "(after +inf".
After(after) == {e \in feed : e.id > after}

\* ... and then for the events after the cursor, or for the newest.
ReadsRange(p) ==
  LET answer == IF poll[p].after = 0 THEN Newest(feed, FirstLoad) ELSE After(poll[p].after)
  IN  /\ poll[p].at = "measured"
      /\ poll' = [poll EXCEPT ![p].at = "read", ![p].got = answer]
      /\ skipped' = IF poll[p].after = 0 THEN skipped \cup (feed \ answer) ELSE skipped
      /\ UNCHANGED <<redisVars, cursor, shown, twice, overlapped, baseGen>>

\* Mutant: a feed that has gone back is not noticed.
StartKept(last) == cursor

\* Where the cursor starts from: a feed that has gone back sends it to 0.
Start(last) == IF last < cursor THEN 0 ELSE cursor

\* The answer arrives: every event in it is shown, the cursor follows.
PageShows(p) ==
  /\ poll[p].at = "read"
  /\ cursor' = Max(Ids(poll[p].got) \cup {Start(poll[p].last)})
  /\ shown' = shown \cup poll[p].got
  /\ twice' = twice \cup (shown \cap poll[p].got)
  /\ baseGen' = IF poll[p].after = 0 THEN poll[p].gen ELSE baseGen
  /\ poll' = [poll EXCEPT ![p] = NoPoll]
  /\ UNCHANGED <<redisVars, skipped, overlapped>>

\* No answer, or an error: the page waits for its next turn.
PollFails(p) ==
  /\ poll[p].at # "idle"
  /\ poll' = [poll EXCEPT ![p] = NoPoll]
  /\ UNCHANGED <<redisVars, cursor, skipped, shown, twice, overlapped, baseGen>>
------------------------------------------------------------------------------
WriterStep ==
  \E w \in writing : DrawsIds(w) \/ StoresEvents(w) \/ Trims(w) \/ AppendEnds(w)

PageStep ==
  \E p \in Poll : PageAsks(p) \/ ReadsLast(p) \/ ReadsRange(p) \/ PageShows(p) \/ PollFails(p)
==============================================================================
