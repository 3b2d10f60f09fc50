-------------------------- MODULE EventFeedProofs --------------------------
(***************************************************************************)
(* Proofs about the live feed, for a feed, a first load and a page of any  *)
(* size and whatever is written to it: the trims keep the newest events,   *)
(* and the page neither shows an event twice nor passes one by, but for    *)
(* what the comments at the invariants say.                                *)
(***************************************************************************)
EXTENDS EventFeed, FiniteSetTheorems, TLAPS

USE EventFeedAssumption
------------------------------------------------------------------------------
(* Finite sets.                                                              *)

\* A set of natural numbers has a least element.
LEMMA Least ==
  ASSUME NEW T \in SUBSET Nat, T # {}
  PROVE  \E x \in T : \A y \in T : x <= y
<1>1. PICK x \in T : \A y \in T : ~ (<<y, x>> \in OpToRel(<, Nat))
  BY NatLessThanWellFounded, WFMin DEF OpToRel
<1>2. ASSUME NEW y \in T PROVE x <= y
  <2>1. x \in Nat /\ y \in Nat
    OBVIOUS
  <2>2. y < x => <<y, x>> \in OpToRel(<, Nat)
    BY <2>1 DEF OpToRel
  <2>3. ~ (y < x)
    BY <1>1, <2>2
  <2> QED
    BY <2>1, <2>3
<1> QED
  BY <1>2

\* A part of a finite set that misses an element is smaller.
LEMMA ProperPart ==
  ASSUME NEW S, IsFiniteSet(S), NEW T \in SUBSET S, NEW x \in S \ T
  PROVE  /\ Cardinality(T) \in Nat /\ Cardinality(S) \in Nat
         /\ Cardinality(T) < Cardinality(S)
<1>1. /\ IsFiniteSet(T) /\ Cardinality(T) <= Cardinality(S)
      /\ Cardinality(S) = Cardinality(T) => S = T
  BY FS_Subset
<1>2. Cardinality(T) \in Nat /\ Cardinality(S) \in Nat
  BY <1>1, FS_CardinalityType
<1> QED
  BY <1>1, <1>2

\* A finite set of natural numbers has a largest element, and Max returns it.
LEMMA MaxIsLargest ==
  ASSUME NEW T \in SUBSET Nat, IsFiniteSet(T), T # {}
  PROVE  Max(T) \in T /\ \A y \in T : y <= Max(T)
<1> DEFINE Above(x) == {y \in T : y > x}
           sizes == {Cardinality(Above(x)) : x \in T}
<1>1. \A x \in T : IsFiniteSet(Above(x)) /\ Cardinality(Above(x)) \in Nat
  BY FS_Subset, FS_CardinalityType
<1>2. PICK n \in sizes : \A m \in sizes : n <= m
  <2>1. sizes \subseteq Nat /\ sizes # {}
    BY <1>1
  <2> HIDE DEF sizes
  <2> QED
    BY <2>1, Least
<1>3. PICK x \in T : n = Cardinality(Above(x))
  OBVIOUS
<1>4. ASSUME NEW y \in T, y > x PROVE FALSE
  <2>1. x \in Nat /\ y \in Nat /\ \A z \in T : z \in Nat
    OBVIOUS
  <2>2. y \in Above(x) \ Above(y)
    BY <1>4, <2>1
  <2>3. ASSUME NEW z \in Above(y) PROVE z \in Above(x)
    <3>1. z \in T /\ z > y /\ z \in Nat
      OBVIOUS
    <3>2. z > x
      BY <1>4, <2>1, <3>1
    <3> QED
      BY <3>1, <3>2
  <2>4. Cardinality(Above(y)) < n
    BY <1>1, <1>3, <2>2, <2>3, ProperPart
  <2>5. Cardinality(Above(y)) \in sizes
    OBVIOUS
  <2>6. n <= Cardinality(Above(y))
    BY <1>2, <2>5
  <2>7. n \in Nat /\ Cardinality(Above(y)) \in Nat
    BY <1>1, <1>3
  <2> HIDE DEF Above, sizes
  <2> QED
    BY <2>4, <2>6, <2>7
<1>5. x \in T /\ \A y \in T : x >= y
  BY <1>4
<1> QED
  BY <1>5 DEF Max

\* The ids of finitely many events are finitely many.
LEMMA IdsFinite ==
  ASSUME NEW E, IsFiniteSet(E)
  PROVE  IsFiniteSet(Ids(E))
<1> DEFINE f == [e \in E |-> e.id]
<1>1. f \in Surjection(E, Ids(E))
  BY DEF Surjection, Ids
<1> QED
  BY <1>1, FS_Surjection
------------------------------------------------------------------------------
(* What a trim keeps.                                                        *)

\* Events of the feed, with a text L.
EventOf(L) == [id : Nat \ {0}, gen : Nat, line : L]

\* The newest of each kind of event that is to go is newer than nothing but what stays.
LEMMA NewestCount ==
  ASSUME NEW L, NEW E \in SUBSET EventOf(L), IsFiniteSet(E), NEW n \in Nat, NEW e \in EventOf(L),
         Cardinality({f \in E : Newer(f, e)}) >= n
  PROVE  Cardinality({f \in Newest(E, n) : Newer(f, e)}) >= n
<1> DEFINE Ahead(x) == {f \in E : Newer(f, x)}
           Kept == {f \in Newest(E, n) : Newer(f, e)}
           Gone == Ahead(e) \ Newest(E, n)
           sizes == {Cardinality(Ahead(x)) : x \in Gone}
<1>1. \A x : IsFiniteSet(Ahead(x)) /\ Cardinality(Ahead(x)) \in Nat
  BY FS_Subset, FS_CardinalityType
<1>2. CASE Gone = {}
  <2>1. Kept = Ahead(e)
    BY <1>2 DEF Newest
  <2> QED
    BY <2>1
<1>3. CASE Gone # {}
  <2>1. PICK k \in sizes : \A m \in sizes : k <= m
    <3>1. sizes \subseteq Nat /\ sizes # {}
      BY <1>1, <1>3
    <3> HIDE DEF sizes
    <3> QED
      BY <3>1, Least
  <2>2. PICK x \in Gone : k = Cardinality(Ahead(x))
    OBVIOUS
  <2>3. k >= n
    BY <1>1, <2>2 DEF Newest
  <2>4. ASSUME NEW f \in Ahead(x) PROVE f \in Kept
    <3>1. f \in E /\ x \in E /\ Newer(f, x) /\ Newer(x, e)
      BY <2>2, <2>4
    <3>2. Newer(f, e)
      BY <3>1 DEF Newer, EventOf
    <3>3. SUFFICES ASSUME f \notin Newest(E, n) PROVE FALSE
      BY <3>1, <3>2
    <3>4. f \in Gone
      BY <3>1, <3>2, <3>3
    <3>5. Ahead(f) \subseteq Ahead(x) /\ f \in Ahead(x) \ Ahead(f)
      BY <3>1 DEF Newer, EventOf
    <3>6. Cardinality(Ahead(f)) < k
      BY <1>1, <2>2, <3>5, ProperPart
    <3>7. k <= Cardinality(Ahead(f))
      BY <2>1, <3>4
    <3>8. k \in Nat /\ Cardinality(Ahead(f)) \in Nat
      BY <1>1, <2>2
    <3> HIDE DEF Ahead, sizes
    <3> QED
      BY <3>6, <3>7, <3>8
  <2>5. IsFiniteSet(Kept)
    BY FS_Subset DEF Newest
  <2>6. Cardinality(Ahead(x)) <= Cardinality(Kept)
    BY <2>4, <2>5, FS_Subset
  <2>7. Cardinality(Kept) \in Nat
    BY <2>5, FS_CardinalityType
  <2> QED
    BY <1>1, <2>2, <2>3, <2>6, <2>7
<1> QED
  BY <1>2, <1>3

\* An event is among the newest, or a newer one is.
LEMMA NewestCovers ==
  ASSUME NEW L, NEW E \in SUBSET EventOf(L), IsFiniteSet(E), NEW n \in Nat \ {0}, NEW e \in E
  PROVE  \E f \in Newest(E, n) : f = e \/ Newer(f, e)
<1>1. CASE e \in Newest(E, n)
  BY <1>1
<1>2. CASE e \notin Newest(E, n)
  <2>1. IsFiniteSet({f \in E : Newer(f, e)})
    BY FS_Subset
  <2>2. Cardinality({f \in E : Newer(f, e)}) >= n
    BY <1>2, <2>1, FS_CardinalityType DEF Newest
  <2>3. Cardinality({f \in Newest(E, n) : Newer(f, e)}) >= n
    BY <2>2, NewestCount
  <2>4. {f \in Newest(E, n) : Newer(f, e)} # {}
    BY <2>3, FS_EmptySet
  <2> QED
    BY <2>4
<1> QED
  BY <1>1, <1>2
------------------------------------------------------------------------------
(* The invariants; L is what the lines can be.                               *)

FinEvents(L) == {E \in SUBSET EventOf(L) : IsFiniteSet(E)}

WriterOf(L) == [by : {"pod", "consumer"}, at : {"due", "drawn", "stored"},
                lines : Seq(L), events : FinEvents(L)]

PollOf(L) == [at : {"idle", "asked", "measured", "read"}, after : Nat, last : Nat,
              got : FinEvents(L), gen : Nat]

FeedTypes(L) ==
  /\ feed \in FinEvents(L) /\ stored \subseteq EventOf(L) /\ feed \subseteq stored
  /\ shown \subseteq EventOf(L)
  /\ lastId \in Nat /\ cursor \in Nat /\ gen \in Nat /\ baseGen \in 0 .. gen
  /\ overlapped \in BOOLEAN
  /\ writing \subseteq WriterOf(L)
  /\ poll \in [Poll -> PollOf(L)]
  /\ \A p \in Poll : poll[p].gen <= gen

\* Events in the hands of writers ...
InHand == UNION {w.events : w \in writing}

\* ... and those that have been in the feed, as far as anybody remembers them.
Seen == stored \cup shown \cup UNION {poll[p].got : p \in Poll}

\* An event is drawn once and stored once.
FreshInv ==
  /\ \A e \in Seen \cup InHand : e.gen <= gen /\ (e.gen = gen => e.id <= lastId)
  /\ InHand \cap Seen = {}
  /\ \A v, w \in writing : v.events \cap w.events # {} => v = w
  /\ \A w \in writing : w.at # "drawn" => w.events = {}

Busy(p) == poll[p].at # "idle"

Measured(p) == poll[p].at \in {"measured", "read"}

\* Requests that do not overlap start from the present cursor.
OneRequest ==
  ~ overlapped =>
    /\ \A p, q \in Poll : Busy(p) /\ Busy(q) => p = q
    /\ \A p \in Poll : Busy(p) => poll[p].after = cursor

\* What a request has read of the present feed: up to its last event it has got all
\* that came after the cursor, but for what a first load left out or came late.
AnswerInv ==
  \A p \in Poll :
    /\ Measured(p) /\ poll[p].gen = gen => poll[p].last <= Top
    /\ poll[p].at = "read" => \A m \in poll[p].got : m.id > poll[p].after
    /\ poll[p].at = "read" /\ poll[p].gen = gen =>
         \A m \in poll[p].got :
           /\ m.id <= Top
           /\ \A e \in feed :
                poll[p].after < e.id /\ e.id <= m.id => e \in poll[p].got \cup late \cup skipped

\* While requests do not overlap, the cursor is not before what has been shown, and
\* does not go back as long as something shown is still in the feed.
ShownInv ==
  ~ overlapped =>
    /\ twice = {}
    /\ \A e \in shown \cap feed : e.id <= cursor
    /\ shown \cap feed # {} => cursor <= Top
    /\ \A p \in Poll : Measured(p) /\ shown \cap feed # {} => cursor <= poll[p].last
    /\ \A p \in Poll : poll[p].at = "read" =>
         /\ poll[p].got \cap shown = {}
         /\ \/ \A m \in poll[p].got : m.id <= Top
            \/ (shown \cup poll[p].got) \cap feed = {}

\* The page follows the present feed.
Tracked == gen = 0 \/ (gen = baseGen /\ ~ overlapped)

\* Nothing up to id n is passed by.
CompleteTo(n) == \A e \in feed : e.id <= n => e \in shown \cup late \cup skipped

TrackInv ==
  /\ Tracked => /\ cursor <= Top /\ CompleteTo(cursor)
                /\ \A p \in Poll : Measured(p) => poll[p].gen = gen
  /\ gen = 0 => \A p \in Poll : Busy(p) => poll[p].after <= Top /\ CompleteTo(poll[p].after)

PageInv == OneRequest /\ AnswerInv /\ ShownInv /\ TrackInv
------------------------------------------------------------------------------
(* Types.                                                                    *)

\* A call of AppendEvents is due.
FeedDue(L) ==
  \E by \in {"pod", "consumer"}, lines \in Seq(L) :
    Due(by, lines) /\ UNCHANGED <<feed, lastId, gen, stored, late, pageVars>>

\* Writers end, or nothing happens.
FeedRests ==
  writing' \subseteq writing /\ UNCHANGED <<feed, lastId, gen, stored, late, pageVars>>

\* Whatever the module that extends the feed does to it.
FeedMove(L) ==
  FeedDue(L) \/ FeedRests \/ (FeedDeleted /\ UNCHANGED pageVars) \/ WriterStep \/ PageStep

\* The largest id of some events.
LEMMA LastIs ==
  ASSUME NEW L, NEW E \in FinEvents(L)
  PROVE  LET last == Max(Ids(E) \cup {0})
         IN  last \in Nat /\ (\A e \in E : e.id <= last) /\ (last # 0 => \E e \in E : e.id = last)
<1> DEFINE T == Ids(E) \cup {0}
<1>1. IsFiniteSet(Ids(E)) /\ Ids(E) \subseteq Nat
  BY IdsFinite DEF FinEvents, EventOf, Ids
<1>2. IsFiniteSet(T) /\ T \subseteq Nat /\ T # {}
  BY <1>1, FS_AddElement
<1>3. \A e \in E : e.id \in T
  BY DEF Ids
<1>4. \A i \in T : i = 0 \/ \E e \in E : e.id = i
  BY DEF Ids
<1> HIDE DEF T
<1>5. Max(T) \in T /\ \A i \in T : i <= Max(T)
  BY <1>2, MaxIsLargest
<1>6. Max(T) \in Nat
  BY <1>2, <1>5
<1> QED
  BY <1>3, <1>4, <1>5, <1>6 DEF T

\* The largest id of the feed, before and after a step.
LEMMA TopIs ==
  ASSUME NEW L, feed \in FinEvents(L)
  PROVE  /\ Top \in Nat /\ \A e \in feed : e.id <= Top
         /\ Top # 0 => \E e \in feed : e.id = Top
BY LastIs DEF Top

LEMMA TopBecomes ==
  ASSUME NEW L, feed' \in FinEvents(L)
  PROVE  /\ Top' \in Nat /\ \A e \in feed' : e.id <= Top'
         /\ Top' # 0 => \E e \in feed' : e.id = Top'
BY LastIs DEF Top

\* The newest of finitely many events.
LEMMA NewestType ==
  ASSUME NEW L, NEW E \in FinEvents(L), NEW n
  PROVE  Newest(E, n) \in FinEvents(L) /\ Newest(E, n) \subseteq E
BY FS_Subset DEF Newest, FinEvents

\* The cursor after an answer is an id in it, or where it started from.
LEMMA CursorAfter ==
  ASSUME NEW L, FeedTypes(L), NEW p \in Poll, PageShows(p)
  PROVE  /\ cursor' \in Ids(poll[p].got) \cup {Start(poll[p].last)} /\ cursor' \in Nat
         /\ Start(poll[p].last) <= cursor' /\ Start(poll[p].last) \in {0, cursor}
         /\ \A e \in poll[p].got : e.id <= cursor'
<1>1. poll[p].got \in FinEvents(L) /\ poll[p].last \in Nat /\ cursor \in Nat
  BY DEF FeedTypes, PollOf
<1>2. IsFiniteSet(Ids(poll[p].got)) /\ Ids(poll[p].got) \subseteq Nat
  BY <1>1, IdsFinite DEF FinEvents, EventOf, Ids
<1>3. Start(poll[p].last) \in {0, cursor} /\ Start(poll[p].last) \in Nat
  BY <1>1 DEF Start
<1> DEFINE T == Ids(poll[p].got) \cup {Start(poll[p].last)}
<1>4. IsFiniteSet(T) /\ T \subseteq Nat /\ T # {}
  BY <1>2, <1>3, FS_AddElement
<1>5. cursor' = Max(T)
  BY DEF PageShows
<1>6. \A e \in poll[p].got : e.id \in T
  BY DEF Ids
<1>7. Start(poll[p].last) \in T
  OBVIOUS
<1> HIDE DEF T
<1>8. cursor' \in T /\ \A i \in T : i <= cursor'
  BY <1>4, <1>5, MaxIsLargest
<1> QED
  BY <1>3, <1>4, <1>6, <1>7, <1>8 DEF T

\* The events that a writer draws.
LEMMA DrawnType ==
  ASSUME NEW L, FeedTypes(L), NEW w \in writing
  PROVE  {[id |-> lastId + i, gen |-> gen, line |-> w.lines[i]] : i \in DOMAIN w.lines}
           \in FinEvents(L)
<1> DEFINE E == {[id |-> lastId + i, gen |-> gen, line |-> w.lines[i]] : i \in DOMAIN w.lines}
           f == [i \in DOMAIN w.lines |-> [id |-> lastId + i, gen |-> gen, line |-> w.lines[i]]]
<1>1. w.lines \in Seq(L) /\ lastId \in Nat /\ gen \in Nat
  BY DEF FeedTypes, WriterOf
<1>2. /\ DOMAIN w.lines = 1 .. Len(w.lines) /\ Len(w.lines) \in Nat
      /\ \A i \in DOMAIN w.lines : w.lines[i] \in L
  BY <1>1
<1>3. E \subseteq EventOf(L)
  BY <1>1, <1>2 DEF EventOf
<1>4. f \in Surjection(DOMAIN w.lines, E)
  BY DEF Surjection
<1>5. IsFiniteSet(DOMAIN w.lines)
  <2>1. \A n \in Nat : IsFiniteSet(1 .. n)
    BY FS_Interval
  <2> QED
    BY <1>2, <2>1
<1> HIDE DEF E, f
<1>6. IsFiniteSet(E)
  BY <1>4, <1>5, FS_Surjection
<1> QED
  BY <1>3, <1>6 DEF FinEvents, E

\* A page's request changes.
LEMMA PollSet ==
  ASSUME NEW L, FeedTypes(L), NEW p \in Poll, NEW r \in PollOf(L), r.gen <= gen,
         poll' = [poll EXCEPT ![p] = r]
  PROVE  /\ poll' \in [Poll -> PollOf(L)]
         /\ \A q \in Poll : poll'[q].gen <= gen
         /\ \A q \in Poll : poll'[q] = IF q = p THEN r ELSE poll[q]
BY DEF FeedTypes

\* Every step keeps the types.
LEMMA TypesMove ==
  ASSUME NEW L, FeedTypes(L), FeedMove(L)
  PROVE  FeedTypes(L)'
<1> USE DEF pageVars, redisVars
<1>0. {} \in FinEvents(L)
  BY FS_EmptySet DEF FinEvents
<1>1. CASE FeedDue(L)
  <2>1. PICK by \in {"pod", "consumer"}, lines \in Seq(L) :
          Due(by, lines) /\ UNCHANGED <<feed, lastId, gen, stored, late, pageVars>>
    BY <1>1 DEF FeedDue
  <2>2. [by |-> by, at |-> "due", lines |-> lines, events |-> {}] \in WriterOf(L)
    BY <1>0 DEF WriterOf
  <2>3. writing' \subseteq WriterOf(L)
    BY <2>1, <2>2 DEF Due, FeedTypes
  <2> QED
    BY <2>1, <2>3 DEF FeedTypes
<1>2. CASE FeedRests
  BY <1>2 DEF FeedRests, FeedTypes
<1>3. CASE FeedDeleted /\ UNCHANGED pageVars
  <2>1. /\ gen' = gen + 1 /\ feed' = {} /\ stored' = {} /\ lastId' = 0
        /\ UNCHANGED <<writing, pageVars>>
    BY <1>3 DEF FeedDeleted
  <2>2. gen \in Nat /\ baseGen \in 0 .. gen
    BY DEF FeedTypes
  <2>3. gen' \in Nat /\ baseGen' \in 0 .. gen'
    BY <2>1, <2>2
  <2>4. ASSUME NEW p \in Poll PROVE poll'[p].gen <= gen'
    <3>1. poll[p].gen \in Nat /\ poll[p].gen <= gen /\ poll' = poll
      BY <2>1 DEF FeedTypes, PollOf
    <3> QED
      BY <2>1, <2>2, <3>1
  <2> QED
    BY <1>0, <2>1, <2>3, <2>4 DEF FeedTypes
<1>4. ASSUME NEW w \in writing, DrawsIds(w) PROVE FeedTypes(L)'
  <2> DEFINE E == {[id |-> lastId + i, gen |-> gen, line |-> w.lines[i]] : i \in DOMAIN w.lines}
             v == [w EXCEPT !.at = "drawn", !.lines = <<>>, !.events = E]
  <2>1. E \in FinEvents(L)
    BY DrawnType
  <2>2. writing' = (writing \ {w}) \cup {v}
    BY <1>4 DEF DrawsIds
  <2>3. << >> \in Seq(L) /\ Len(w.lines) \in Nat
    BY DEF FeedTypes, WriterOf
  <2>4. w \in WriterOf(L)
    BY DEF FeedTypes
  <2> HIDE DEF E
  <2>5. v \in WriterOf(L)
    BY <2>1, <2>3, <2>4 DEF WriterOf
  <2>6. writing' \subseteq WriterOf(L)
    BY <2>2, <2>5 DEF FeedTypes
  <2>7. lastId' \in Nat
    <3>1. lastId' = lastId + Len(w.lines)
      BY <1>4 DEF DrawsIds
    <3>2. lastId \in Nat
      BY DEF FeedTypes
    <3> QED
      BY <2>3, <3>1, <3>2
  <2>8. UNCHANGED <<feed, gen, stored, late, pageVars>>
    BY <1>4 DEF DrawsIds
  <2> QED
    BY <2>6, <2>7, <2>8 DEF FeedTypes
<1>5. ASSUME NEW w \in writing, StoresEvents(w) PROVE FeedTypes(L)'
  <2>1. w \in WriterOf(L) /\ w.events \in FinEvents(L)
    BY DEF FeedTypes, WriterOf
  <2>2. [w EXCEPT !.at = "stored", !.events = {}] \in WriterOf(L)
    BY <1>0, <2>1 DEF WriterOf
  <2>3. writing' \subseteq WriterOf(L)
    BY <1>5, <2>2 DEF StoresEvents, FeedTypes
  <2>4. feed \cup w.events \in FinEvents(L)
    BY <2>1, FS_Union DEF FeedTypes, FinEvents
  <2> QED
    BY <1>5, <2>1, <2>3, <2>4 DEF StoresEvents, FeedTypes, FinEvents
<1>6. ASSUME NEW w \in writing, Trims(w) \/ AppendEnds(w) PROVE FeedTypes(L)'
  BY <1>6, NewestType DEF Trims, AppendEnds, FeedTypes
<1>7. ASSUME NEW p \in Poll, PageStep, UNCHANGED redisVars,
             NEW r \in PollOf(L), r.gen <= gen, poll' = [poll EXCEPT ![p] = r],
             shown' \subseteq EventOf(L), cursor' \in Nat, baseGen' \in 0 .. gen,
             overlapped' \in BOOLEAN
      PROVE  FeedTypes(L)'
  BY <1>7, PollSet DEF FeedTypes
<1>8. NoPoll \in PollOf(L) /\ NoPoll.gen = 0 /\ 0 <= gen
  BY <1>0 DEF NoPoll, PollOf, FeedTypes
<1>9. ASSUME NEW p \in Poll, PageAsks(p) PROVE FeedTypes(L)'
  <2> DEFINE r == [NoPoll EXCEPT !.at = "asked", !.after = cursor]
  <2>0. gen \in Nat /\ cursor \in Nat
    BY DEF FeedTypes
  <2>1. r \in PollOf(L) /\ r.gen <= gen
    <3>1. r \in PollOf(L)
      BY <1>8, <2>0 DEF PollOf
    <3>2. r.gen = NoPoll.gen
      BY <1>8 DEF PollOf
    <3> QED
      BY <1>8, <3>1, <3>2
  <2>2. poll' = [poll EXCEPT ![p] = r]
    BY <1>9 DEF PageAsks
  <2> HIDE DEF r
  <2> QED
    BY <1>7, <1>9, <2>1, <2>2 DEF PageAsks, PageStep, FeedTypes
<1>10. ASSUME NEW p \in Poll, ReadsLast(p) PROVE FeedTypes(L)'
  <2> DEFINE r == [poll[p] EXCEPT !.at = "measured", !.last = Top, !.gen = gen]
  <2>1. poll[p] \in PollOf(L) /\ gen \in Nat /\ Top \in Nat
    BY TopIs DEF FeedTypes
  <2>2. r \in PollOf(L) /\ r.gen <= gen
    <3>1. r \in PollOf(L)
      BY <2>1 DEF PollOf
    <3>2. r.gen = gen
      BY <2>1 DEF PollOf
    <3> QED
      BY <2>1, <3>1, <3>2
  <2>3. poll' = [poll EXCEPT ![p] = r]
    BY <1>10 DEF ReadsLast
  <2> HIDE DEF r
  <2> QED
    BY <1>7, <1>10, <2>2, <2>3 DEF ReadsLast, PageStep, FeedTypes
<1>11. ASSUME NEW p \in Poll, ReadsRange(p) PROVE FeedTypes(L)'
  <2> DEFINE answer == IF poll[p].after = 0 THEN Newest(feed, FirstLoad) ELSE After(poll[p].after)
             r == [poll[p] EXCEPT !.at = "read", !.got = answer]
  <2>1. poll[p] \in PollOf(L) /\ poll[p].gen <= gen
    BY DEF FeedTypes
  <2>2. answer \in FinEvents(L)
    BY NewestType, FS_Subset DEF FeedTypes, FinEvents, After
  <2>3. poll' = [poll EXCEPT ![p] = r]
    BY <1>11 DEF ReadsRange
  <2> HIDE DEF answer
  <2>4. r \in PollOf(L) /\ r.gen <= gen
    BY <2>1, <2>2 DEF PollOf
  <2> HIDE DEF r
  <2> QED
    BY <1>7, <1>11, <2>3, <2>4 DEF ReadsRange, PageStep, FeedTypes
<1>12. ASSUME NEW p \in Poll, PageShows(p) PROVE FeedTypes(L)'
  <2>1. poll[p] \in PollOf(L) /\ poll[p].gen <= gen
    BY DEF FeedTypes
  <2>2. cursor' \in Nat
    BY <1>12, CursorAfter
  <2>3. baseGen' \in 0 .. gen
    <3>1. poll[p].gen \in Nat /\ gen \in Nat /\ baseGen \in 0 .. gen
      BY <2>1 DEF PollOf, FeedTypes
    <3>2. baseGen' = IF poll[p].after = 0 THEN poll[p].gen ELSE baseGen
      BY <1>12 DEF PageShows
    <3> QED
      BY <2>1, <3>1, <3>2
  <2>4. shown' \subseteq EventOf(L)
    BY <1>12, <2>1 DEF PageShows, PollOf, FeedTypes, FinEvents
  <2> QED
    BY <1>7, <1>8, <1>12, <2>2, <2>3, <2>4 DEF PageShows, PageStep, FeedTypes
<1>13. ASSUME NEW p \in Poll, PollFails(p) PROVE FeedTypes(L)'
  BY <1>7, <1>8, <1>13 DEF PollFails, PageStep, FeedTypes
<1> QED
  BY <1>1, <1>2, <1>3, <1>4, <1>5, <1>6, <1>9, <1>10, <1>11, <1>12, <1>13
     DEF FeedMove, WriterStep, PageStep
------------------------------------------------------------------------------
(* An event is drawn once and stored once.                                   *)

\* What is remembered or in hand is an event.
LEMMA EventsType ==
  ASSUME NEW L, FeedTypes(L)
  PROVE  Seen \subseteq EventOf(L) /\ InHand \subseteq EventOf(L)
<1>1. \A p \in Poll : poll[p].got \subseteq EventOf(L)
  BY DEF FeedTypes, PollOf, FinEvents
<1>2. \A w \in writing : w.events \subseteq EventOf(L)
  BY DEF FeedTypes, WriterOf, FinEvents
<1> QED
  BY <1>1, <1>2 DEF Seen, InHand, FeedTypes

\* Nothing new is seen and no call is new.
LEMMA FreshSame ==
  ASSUME FreshInv, Seen' \subseteq Seen, writing' \subseteq writing, UNCHANGED <<gen, lastId>>
  PROVE  FreshInv'
<1>1. InHand' \subseteq InHand
  BY DEF InHand
<1> QED
  BY <1>1 DEF FreshInv

\* A step of the page shows it what is stored.
LEMMA PageSees ==
  ASSUME NEW L, FeedTypes(L), PageStep
  PROVE  Seen' \subseteq Seen /\ UNCHANGED redisVars
<1>1. PICK p \in Poll :
        PageAsks(p) \/ ReadsLast(p) \/ ReadsRange(p) \/ PageShows(p) \/ PollFails(p)
  BY DEF PageStep
<1>2. poll \in [Poll -> PollOf(L)] /\ poll[p] \in PollOf(L) /\ feed \subseteq stored
  BY DEF FeedTypes
<1>3. NoPoll.got = {}
  BY DEF NoPoll
<1>4. /\ UNCHANGED redisVars
      /\ \A q \in Poll \ {p} : poll'[q] = poll[q]
      /\ \/ poll'[p].got \subseteq poll[p].got
         \/ poll'[p].got \subseteq feed
      /\ shown' \subseteq shown \cup poll[p].got
  <2>1. CASE PageAsks(p)
    BY <1>2, <1>3, <2>1 DEF PageAsks, NoPoll
  <2>2. CASE ReadsLast(p)
    BY <1>2, <2>2 DEF ReadsLast, PollOf
  <2>3. CASE ReadsRange(p)
    <3>1. poll'[p].got =
            IF poll[p].after = 0 THEN Newest(feed, FirstLoad) ELSE After(poll[p].after)
      BY <1>2, <2>3 DEF ReadsRange, PollOf
    <3>2. poll'[p].got \subseteq feed
      BY <3>1 DEF Newest, After
    <3> QED
      BY <1>2, <2>3, <3>2 DEF ReadsRange
  <2>4. CASE PageShows(p)
    BY <1>2, <1>3, <2>4 DEF PageShows
  <2>5. CASE PollFails(p)
    BY <1>2, <1>3, <2>5 DEF PollFails
  <2> QED
    BY <1>1, <2>1, <2>2, <2>3, <2>4, <2>5
<1>5. stored' = stored
  BY <1>4 DEF redisVars
<1>6. \A q \in Poll : poll'[q].got \subseteq Seen
  BY <1>2, <1>4 DEF Seen
<1> QED
  BY <1>2, <1>4, <1>5, <1>6 DEF Seen

\* Every step keeps the events apart.
LEMMA FreshMove ==
  ASSUME NEW L, FeedTypes(L), FreshInv, FeedMove(L)
  PROVE  FreshInv'
<1> USE DEF pageVars, redisVars
<1>1. CASE FeedDue(L)
  <2>1. PICK w :
          /\ w.events = {} /\ writing' = writing \cup {w}
          /\ UNCHANGED <<feed, lastId, gen, stored, late, pageVars>>
    BY <1>1 DEF FeedDue, Due
  <2>2. InHand' = InHand /\ Seen' = Seen
    BY <2>1 DEF InHand, Seen
  <2> QED
    BY <2>1, <2>2 DEF FreshInv
<1>2. CASE FeedRests
  BY <1>2, FreshSame DEF FeedRests, Seen
<1>3. CASE FeedDeleted /\ UNCHANGED pageVars
  <2>1. /\ gen' = gen + 1 /\ stored' = {} /\ UNCHANGED <<writing, pageVars>>
    BY <1>3 DEF FeedDeleted
  <2>2. Seen' \subseteq Seen /\ InHand' = InHand
    BY <2>1 DEF Seen, InHand
  <2>3. ASSUME NEW e \in Seen \cup InHand PROVE e.gen < gen'
    <3>1. e.gen \in Nat /\ gen \in Nat /\ e.gen <= gen
      BY EventsType DEF EventOf, FeedTypes, FreshInv
    <3> QED
      BY <2>1, <3>1
  <2>4. \A e \in Seen' \cup InHand' : e.gen \in Nat /\ gen' \in Nat /\ e.gen < gen'
    BY <2>1, <2>2, <2>3, EventsType DEF EventOf, FeedTypes
  <2> QED
    BY <2>1, <2>2, <2>4 DEF FreshInv
<1>4. ASSUME NEW w \in writing, DrawsIds(w) PROVE FreshInv'
  <2> DEFINE E == {[id |-> lastId + i, gen |-> gen, line |-> w.lines[i]] : i \in DOMAIN w.lines}
             v == [w EXCEPT !.at = "drawn", !.lines = <<>>, !.events = E]
  <2>1. writing' = (writing \ {w}) \cup {v} /\ w.at = "due" /\ lastId' = lastId + Len(w.lines)
        /\ UNCHANGED <<feed, gen, stored, late, pageVars>>
    BY <1>4 DEF DrawsIds
  <2>2. w \in WriterOf(L)
    BY DEF FeedTypes
  <2>3. v.events = E /\ v.at = "drawn"
    BY <2>2 DEF WriterOf
  <2>4. lastId \in Nat /\ gen \in Nat /\ Len(w.lines) \in Nat
        /\ DOMAIN w.lines = 1 .. Len(w.lines)
    BY <2>2 DEF WriterOf, FeedTypes
  <2>5. ASSUME NEW e \in E
        PROVE  e.gen = gen /\ e.id \in Nat /\ e.id > lastId /\ e.id <= lastId'
    <3>1. PICK i \in 1 .. Len(w.lines) :
            e = [id |-> lastId + i, gen |-> gen, line |-> w.lines[i]]
      BY <2>4
    <3>2. e.gen = gen /\ e.id = lastId + i
      BY <3>1
    <3>3. i \in Nat /\ i >= 1 /\ i <= Len(w.lines)
      BY <2>4
    <3>4. lastId' = lastId + Len(w.lines)
      BY <2>1
    <3> HIDE DEF E, v
    <3> QED
      BY <2>4, <3>2, <3>3, <3>4
  <2> HIDE DEF E, v
  <2>6. InHand' \subseteq InHand \cup E /\ Seen' = Seen
    <3>1. \A x \in writing' : x.events \subseteq InHand \cup E
      BY <2>1, <2>3 DEF InHand
    <3> QED
      BY <2>1, <3>1 DEF InHand, Seen
  <2>7. ASSUME NEW e \in Seen \cup InHand
        PROVE  e.gen <= gen' /\ (e.gen = gen' => e.id <= lastId') /\ e \notin E
    <3>1. e.id \in Nat /\ e.gen <= gen /\ (e.gen = gen => e.id <= lastId)
      BY EventsType DEF EventOf, FreshInv
    <3>2. e.gen = gen => e.id <= lastId'
      BY <2>1, <2>4, <3>1
    <3>3. e \notin E
      BY <2>4, <2>5, <3>1
    <3> QED
      BY <2>1, <3>1, <3>2, <3>3
  <2>8. gen' = gen /\ gen <= gen
    BY <2>1, <2>4
  <2>9. \A e \in Seen' \cup InHand' : e.gen <= gen' /\ (e.gen = gen' => e.id <= lastId')
    BY <2>5, <2>6, <2>7, <2>8
  <2>10. InHand' \cap Seen' = {}
    BY <2>6, <2>7 DEF FreshInv
  <2>11. \A x \in writing' : x.events = {} \/ x = v \/ (x \in writing /\ x # w)
    BY <2>1
  <2>12. \A x \in writing : x.events \cap v.events = {}
    BY <2>3, <2>7 DEF InHand
  <2>13. \A x, y \in writing' : x.events \cap y.events # {} => x = y
    BY <2>1, <2>12 DEF FreshInv
  <2>14. \A x \in writing' : x.at # "drawn" => x.events = {}
    BY <2>1, <2>3 DEF FreshInv
  <2> QED
    BY <2>9, <2>10, <2>13, <2>14 DEF FreshInv
<1>5. ASSUME NEW w \in writing, StoresEvents(w) PROVE FreshInv'
  <2> DEFINE v == [w EXCEPT !.at = "stored", !.events = {}]
  <2>1. writing' = (writing \ {w}) \cup {v} /\ stored' = stored \cup w.events
        /\ UNCHANGED <<lastId, gen, pageVars>>
    BY <1>5 DEF StoresEvents
  <2>2. v.events = {}
    BY DEF FeedTypes, WriterOf
  <2> HIDE DEF v
  <2>3. Seen' = Seen \cup w.events
    BY <2>1 DEF Seen
  <2>4. \A x \in writing' : x.events = {} \/ (x \in writing /\ x # w)
    BY <2>1, <2>2
  <2>5. InHand' \subseteq InHand \ w.events
    BY <2>4 DEF InHand, FreshInv
  <2>6. w.events \subseteq InHand
    BY DEF InHand
  <2>7. Seen' \cup InHand' \subseteq Seen \cup InHand /\ InHand' \cap Seen' = {}
    BY <2>3, <2>5, <2>6 DEF FreshInv
  <2>8. \A x, y \in writing' : x.events \cap y.events # {} => x = y
    BY <2>4 DEF FreshInv
  <2>9. \A x \in writing' : x.at # "drawn" => x.events = {}
    BY <2>4 DEF FreshInv
  <2> QED
    BY <2>1, <2>7, <2>8, <2>9 DEF FreshInv
<1>6. ASSUME NEW w \in writing, Trims(w) \/ AppendEnds(w) PROVE FreshInv'
  BY <1>6, FreshSame DEF Trims, AppendEnds, Seen
<1>7. CASE PageStep
  BY <1>7, PageSees, FreshSame
<1> QED
  BY <1>1, <1>2, <1>3, <1>4, <1>5, <1>6, <1>7 DEF FeedMove, WriterStep
------------------------------------------------------------------------------
(* The page.                                                                 *)

\* A writer's step does not touch the page; the last id does not go back, and what
\* is new in the feed has not been seen, and is late unless it comes after the last.
LEMMA RedisFacts ==
  ASSUME NEW L, FeedTypes(L), FreshInv, FeedDue(L) \/ FeedRests \/ WriterStep
  PROVE  /\ UNCHANGED <<pageVars, gen>>
         /\ Top <= Top' /\ late \subseteq late'
         /\ \A e \in feed' \ feed : e \notin Seen /\ (e.id <= Top => e \in late')
<1>0. feed \in FinEvents(L) /\ feed \subseteq stored /\ feed \subseteq EventOf(L)
  BY DEF FeedTypes, FinEvents
<1>1. feed' \in FinEvents(L)
  BY TypesMove DEF FeedMove, FeedTypes
<1>2. Top \in Nat /\ Top' \in Nat
  BY <1>0, <1>1, TopIs, TopBecomes
<1>3. CASE UNCHANGED <<pageVars, gen, feed, late>>
  BY <1>2, <1>3 DEF Top
<1>4. ASSUME NEW w \in writing, StoresEvents(w)
      PROVE  /\ UNCHANGED <<pageVars, gen>>
             /\ Top <= Top' /\ late \subseteq late'
             /\ \A e \in feed' \ feed : e \notin Seen /\ (e.id <= Top => e \in late')
  <2>1. feed' = feed \cup w.events /\ late' = late \cup {e \in w.events : e.id <= Top}
        /\ UNCHANGED <<pageVars, gen>>
    BY <1>4 DEF StoresEvents
  <2>2. \A e \in w.events : e \notin Seen
    BY DEF FreshInv, InHand
  <2>3. \A e \in feed : e.id <= Top'
    BY <1>1, <2>1, TopBecomes
  <2>4. Top <= Top'
    <3>1. CASE Top = 0
      BY <1>2, <3>1
    <3>2. CASE Top # 0
      BY <1>0, <2>3, <3>2, TopIs
    <3> QED
      BY <3>1, <3>2
  <2> QED
    BY <2>1, <2>2, <2>4
<1>5. ASSUME NEW w \in writing, Trims(w)
      PROVE  /\ UNCHANGED <<pageVars, gen>>
             /\ Top <= Top' /\ late \subseteq late'
             /\ \A e \in feed' \ feed : e \notin Seen /\ (e.id <= Top => e \in late')
  <2>1. feed' = Newest(feed, EventCap) /\ UNCHANGED <<pageVars, gen, late>>
    BY <1>5 DEF Trims
  <2>2. Top <= Top'
    <3>1. CASE Top = 0
      BY <1>2, <3>1
    <3>2. CASE Top # 0
      <4>1. PICK e \in feed : e.id = Top
        BY <1>0, <3>2, TopIs
      <4>2. IsFiniteSet(feed)
        BY <1>0 DEF FinEvents
      <4>3. PICK f \in feed' : f = e \/ Newer(f, e)
        BY <1>0, <2>1, <4>2, NewestCovers
      <4>4. f.id <= Top' /\ f.id \in Nat
        BY <1>1, TopBecomes DEF FinEvents, EventOf
      <4>5. f.id >= Top
        BY <1>2, <4>1, <4>3, <4>4 DEF Newer
      <4> QED
        BY <1>2, <4>4, <4>5
    <3> QED
      BY <3>1, <3>2
  <2> QED
    BY <2>1, <2>2 DEF Newest
<1>6. ASSUME NEW w \in writing, DrawsIds(w) \/ AppendEnds(w)
      PROVE  UNCHANGED <<pageVars, gen, feed, late>>
  BY <1>6 DEF DrawsIds, AppendEnds
<1> QED
  BY <1>3, <1>4, <1>5, <1>6 DEF FeedDue, FeedRests, WriterStep

\* The writers leave the page's invariant alone ...
LEMMA PageRedis ==
  ASSUME NEW L, FeedTypes(L), FreshInv, PageInv, FeedDue(L) \/ FeedRests \/ WriterStep
  PROVE  PageInv'
<1>1. /\ UNCHANGED <<pageVars, gen>>
      /\ Top <= Top' /\ late \subseteq late'
      /\ \A e \in feed' \ feed : e \notin Seen /\ (e.id <= Top => e \in late')
  BY RedisFacts
<1>2. UNCHANGED <<poll, cursor, skipped, shown, twice, overlapped, baseGen, gen>>
  BY <1>1 DEF pageVars
<1>3. feed \in FinEvents(L) /\ feed' \in FinEvents(L)
  BY TypesMove DEF FeedMove, FeedTypes
<1>4. /\ Top \in Nat /\ Top' \in Nat
      /\ \A e \in feed \cup feed' : e.id \in Nat
  BY <1>3, TopIs, TopBecomes DEF FinEvents, EventOf
<1>5. cursor \in Nat
  BY DEF FeedTypes
<1>6. \A p \in Poll : /\ poll[p] \in PollOf(L)
                      /\ poll[p].last \in Nat /\ poll[p].after \in Nat
                      /\ \A m \in poll[p].got : m.id \in Nat
  BY DEF FeedTypes, PollOf, FinEvents, EventOf
<1>7. \A i \in Nat : i <= Top => i <= Top'
  BY <1>1, <1>4
<1>8. OneRequest'
  BY <1>2 DEF PageInv, OneRequest, Busy
<1>9. AnswerInv'
  <2> SUFFICES ASSUME NEW p \in Poll
      PROVE  /\ Measured(p)' /\ poll[p].gen = gen => poll[p].last <= Top'
             /\ poll[p].at = "read" => \A m \in poll[p].got : m.id > poll[p].after
             /\ poll[p].at = "read" /\ poll[p].gen = gen =>
                  \A m \in poll[p].got :
                    /\ m.id <= Top'
                    /\ \A e \in feed' : poll[p].after < e.id /\ e.id <= m.id =>
                                          e \in poll[p].got \cup late' \cup skipped
    BY <1>2 DEF AnswerInv
  <2>1. Measured(p)' = Measured(p)
    BY <1>2 DEF Measured
  <2>2. ASSUME poll[p].at = "read", poll[p].gen = gen, NEW m \in poll[p].got
        PROVE  /\ m.id <= Top'
               /\ \A e \in feed' : poll[p].after < e.id /\ e.id <= m.id =>
                                     e \in poll[p].got \cup late' \cup skipped
    <3>1. /\ m.id <= Top /\ m.id \in Nat
          /\ \A e \in feed : poll[p].after < e.id /\ e.id <= m.id =>
                               e \in poll[p].got \cup late \cup skipped
      BY <1>6, <2>2 DEF PageInv, AnswerInv
    <3>2. ASSUME NEW e \in feed' \ feed, e.id <= m.id PROVE e \in late'
      <4>1. e.id \in Nat
        BY <1>4
      <4>2. e.id <= Top
        BY <1>4, <3>1, <3>2, <4>1
      <4> QED
        BY <1>1, <4>2
    <3> QED
      BY <1>1, <1>7, <3>1, <3>2
  <2>3. Measured(p) /\ poll[p].gen = gen => poll[p].last <= Top'
    BY <1>6, <1>7 DEF PageInv, AnswerInv
  <2>4. poll[p].at = "read" => \A m \in poll[p].got : m.id > poll[p].after
    BY DEF PageInv, AnswerInv
  <2> QED
    BY <2>1, <2>2, <2>3, <2>4
<1>10. ShownInv'
  <2>1. shown \cap feed' \subseteq shown \cap feed
        /\ \A p \in Poll : poll[p].got \cap feed' \subseteq poll[p].got \cap feed
    BY <1>1 DEF Seen
  <2>2. \A p \in Poll : Measured(p)' = Measured(p)
    BY <1>2 DEF Measured
  <2>3. SUFFICES ASSUME ~ overlapped
        PROVE  /\ twice = {}
               /\ \A e \in shown \cap feed' : e.id <= cursor
               /\ shown \cap feed' # {} => cursor <= Top'
               /\ \A p \in Poll : Measured(p) /\ shown \cap feed' # {} => cursor <= poll[p].last
               /\ \A p \in Poll : poll[p].at = "read" =>
                    /\ poll[p].got \cap shown = {}
                    /\ \/ \A m \in poll[p].got : m.id <= Top'
                       \/ (shown \cup poll[p].got) \cap feed' = {}
    BY <1>2, <2>2 DEF ShownInv
  <2>4. ShownInv
    BY DEF PageInv
  <2>5. ASSUME NEW p \in Poll, poll[p].at = "read"
        PROVE  /\ poll[p].got \cap shown = {}
               /\ \/ \A m \in poll[p].got : m.id <= Top'
                  \/ (shown \cup poll[p].got) \cap feed' = {}
    BY <1>6, <1>7, <2>1, <2>3, <2>4, <2>5 DEF ShownInv
  <2> QED
    BY <1>5, <1>7, <2>1, <2>3, <2>4, <2>5 DEF ShownInv
<1>11. TrackInv'
  <2>1. Tracked' = Tracked /\ \A p \in Poll : Measured(p)' = Measured(p) /\ Busy(p)' = Busy(p)
    BY <1>2 DEF Tracked, Measured, Busy
  <2>2. ASSUME NEW n \in Nat, n <= Top, CompleteTo(n)
        PROVE  \A e \in feed' : e.id <= n => e \in shown \cup late' \cup skipped
    <3>1. ASSUME NEW e \in feed' \ feed, e.id <= n PROVE e \in late'
      <4>1. e.id \in Nat
        BY <1>4
      <4>2. e.id <= Top
        BY <1>4, <2>2, <3>1, <4>1
      <4> QED
        BY <1>1, <4>2
    <3> QED
      BY <1>1, <2>2, <3>1 DEF CompleteTo
  <2>3. SUFFICES
          /\ Tracked =>
               /\ cursor <= Top'
               /\ \A e \in feed' : e.id <= cursor => e \in shown \cup late' \cup skipped
               /\ \A p \in Poll : Measured(p) => poll[p].gen = gen
          /\ gen = 0 => \A p \in Poll : Busy(p) =>
               /\ poll[p].after <= Top'
               /\ \A e \in feed' : e.id <= poll[p].after => e \in shown \cup late' \cup skipped
    BY <1>2, <2>1 DEF TrackInv, CompleteTo
  <2>4. TrackInv
    BY DEF PageInv
  <2>5. ASSUME Tracked
        PROVE  /\ cursor <= Top'
               /\ \A e \in feed' : e.id <= cursor => e \in shown \cup late' \cup skipped
               /\ \A p \in Poll : Measured(p) => poll[p].gen = gen
    BY <1>5, <1>7, <2>2, <2>4, <2>5 DEF TrackInv
  <2>6. ASSUME gen = 0, NEW p \in Poll, Busy(p)
        PROVE  /\ poll[p].after <= Top'
               /\ \A e \in feed' : e.id <= poll[p].after => e \in shown \cup late' \cup skipped
    BY <1>6, <1>7, <2>2, <2>4, <2>6 DEF TrackInv
  <2> QED
    BY <2>5, <2>6
<1> QED
  BY <1>8, <1>9, <1>10, <1>11 DEF PageInv

\* ... and so does a reset, after which no answer is of the present feed.
LEMMA PageReset ==
  ASSUME NEW L, FeedTypes(L), PageInv, FeedDeleted, UNCHANGED pageVars
  PROVE  PageInv'
<1>1. /\ UNCHANGED <<poll, cursor, skipped, shown, twice, overlapped, baseGen, late>>
      /\ gen' = gen + 1 /\ feed' = {}
  BY DEF FeedDeleted, pageVars
<1>2. /\ gen' # 0 /\ baseGen # gen' /\ \A p \in Poll : poll[p].gen # gen'
  <2>1. gen \in Nat /\ baseGen \in 0 .. gen
    BY DEF FeedTypes
  <2>2. \A p \in Poll : poll[p].gen \in Nat /\ poll[p].gen <= gen
    BY DEF FeedTypes, PollOf
  <2> QED
    BY <1>1, <2>1, <2>2
<1>3. OneRequest'
  BY <1>1 DEF PageInv, OneRequest, Busy
<1>4. AnswerInv'
  BY <1>1, <1>2 DEF PageInv, AnswerInv
<1>5. ShownInv'
  BY <1>1 DEF PageInv, ShownInv, Measured
<1>6. TrackInv'
  BY <1>1, <1>2 DEF TrackInv, Tracked
<1> QED
  BY <1>3, <1>4, <1>5, <1>6 DEF PageInv
\* The page's requests but one stay as they are.
LEMMA Others ==
  ASSUME NEW L, FeedTypes(L), NEW p \in Poll, NEW r, poll' = [poll EXCEPT ![p] = r]
  PROVE  poll'[p] = r /\ \A q \in Poll : q # p => poll'[q] = poll[q]
BY DEF FeedTypes

\* A request is sent.
LEMMA AsksPage ==
  ASSUME NEW L, FeedTypes(L), PageInv, NEW p \in Poll, PageAsks(p)
  PROVE  PageInv'
<1>1. /\ UNCHANGED <<feed, gen, late, cursor, skipped, shown, twice, baseGen>>
      /\ overlapped' = (overlapped \/ \E q \in Poll : poll[q].at # "idle")
      /\ poll[p].at = "idle"
  BY DEF PageAsks, redisVars
<1>2. /\ poll'[p].at = "asked" /\ poll'[p].after = cursor
      /\ \A q \in Poll : q # p => poll'[q] = poll[q]
  <2> DEFINE r == [NoPoll EXCEPT !.at = "asked", !.after = cursor]
  <2>1. poll' = [poll EXCEPT ![p] = r]
    BY DEF PageAsks
  <2>2. r.at = "asked" /\ r.after = cursor
    BY DEF NoPoll
  <2> HIDE DEF r
  <2> QED
    BY <2>1, <2>2, Others
<1>3. Top' = Top
  BY <1>1 DEF Top
<1>4. \A q \in Poll : Measured(q)' = (q # p /\ Measured(q))
  BY <1>2 DEF Measured
<1>5. OneRequest'
  BY <1>1, <1>2 DEF OneRequest, Busy
<1>6. AnswerInv'
  BY <1>1, <1>2, <1>3, <1>4 DEF PageInv, AnswerInv
<1>7. ShownInv'
  BY <1>1, <1>2, <1>3, <1>4 DEF PageInv, ShownInv
<1>8. TrackInv'
  <2>1. Tracked' => Tracked
    BY <1>1 DEF Tracked
  <2>2. gen = 0 => Tracked
    BY DEF Tracked
  <2>3. Tracked' => /\ (cursor <= Top)' /\ CompleteTo(cursor)'
                    /\ \A q \in Poll : Measured(q)' => poll'[q].gen = gen'
    BY <1>1, <1>2, <1>3, <1>4, <2>1 DEF PageInv, TrackInv, CompleteTo
  <2>4. ASSUME gen' = 0, NEW q \in Poll, Busy(q)'
        PROVE  (poll[q].after <= Top)' /\ CompleteTo(poll[q].after)'
    <3>1. CASE q = p
      BY <1>1, <1>2, <1>3, <2>2, <2>4, <3>1 DEF PageInv, TrackInv, CompleteTo
    <3>2. CASE q # p
      BY <1>1, <1>2, <1>3, <2>4, <3>2 DEF PageInv, TrackInv, CompleteTo, Busy
    <3> QED
      BY <3>1, <3>2
  <2> QED
    BY <2>3, <2>4 DEF TrackInv
<1> QED
  BY <1>5, <1>6, <1>7, <1>8 DEF PageInv

\* The last id is read.
LEMMA LastPage ==
  ASSUME NEW L, FeedTypes(L), PageInv, NEW p \in Poll, ReadsLast(p)
  PROVE  PageInv'
<1>1. /\ UNCHANGED <<feed, gen, late, cursor, skipped, shown, twice, baseGen, overlapped>>
      /\ poll[p].at = "asked"
  BY DEF ReadsLast, redisVars
<1>2. poll[p] \in PollOf(L)
  BY DEF FeedTypes
<1>3. /\ poll'[p].at = "measured" /\ poll'[p].last = Top /\ poll'[p].gen = gen
      /\ poll'[p].after = poll[p].after
      /\ \A q \in Poll : q # p => poll'[q] = poll[q]
  <2> DEFINE r == [poll[p] EXCEPT !.at = "measured", !.last = Top, !.gen = gen]
  <2>1. poll' = [poll EXCEPT ![p] = r]
    BY DEF ReadsLast
  <2>2. r.at = "measured" /\ r.last = Top /\ r.gen = gen /\ r.after = poll[p].after
    BY <1>2 DEF PollOf
  <2> HIDE DEF r
  <2> QED
    BY <2>1, <2>2, Others
<1>4. Top' = Top /\ Top \in Nat /\ Top <= Top
  <2>1. Top \in Nat
    BY TopIs DEF FeedTypes
  <2> QED
    BY <1>1, <2>1 DEF Top
<1>5. /\ \A q \in Poll : Busy(q)' = Busy(q)
      /\ \A q \in Poll : q # p => Measured(q)' = Measured(q)
  BY <1>1, <1>3 DEF Busy, Measured
<1>6. OneRequest'
  BY <1>1, <1>3, <1>5 DEF PageInv, OneRequest
<1>7. AnswerInv'
  BY <1>1, <1>3, <1>4, <1>5 DEF PageInv, AnswerInv
<1>8. ShownInv'
  BY <1>1, <1>3, <1>4, <1>5 DEF PageInv, ShownInv
<1>9. TrackInv'
  BY <1>1, <1>3, <1>4, <1>5 DEF PageInv, TrackInv, Tracked, CompleteTo
<1> QED
  BY <1>6, <1>7, <1>8, <1>9 DEF PageInv

\* The events are read.
LEMMA RangePage ==
  ASSUME NEW L, FeedTypes(L), PageInv, NEW p \in Poll, ReadsRange(p)
  PROVE  PageInv'
<1> DEFINE answer == IF poll[p].after = 0 THEN Newest(feed, FirstLoad) ELSE After(poll[p].after)
<1>1. /\ UNCHANGED <<feed, gen, late, cursor, shown, twice, baseGen, overlapped>>
      /\ poll[p].at = "measured"
      /\ skipped' = IF poll[p].after = 0 THEN skipped \cup (feed \ answer) ELSE skipped
  BY DEF ReadsRange, redisVars
<1>2. poll[p] \in PollOf(L) /\ poll[p].after \in Nat
  BY DEF FeedTypes, PollOf
<1>3. /\ poll'[p].at = "read" /\ poll'[p].got = answer /\ poll'[p].last = poll[p].last
      /\ poll'[p].gen = poll[p].gen /\ poll'[p].after = poll[p].after
      /\ \A q \in Poll : q # p => poll'[q] = poll[q]
  <2> DEFINE r == [poll[p] EXCEPT !.at = "read", !.got = answer]
  <2>1. poll' = [poll EXCEPT ![p] = r]
    BY DEF ReadsRange
  <2> HIDE DEF answer
  <2>2. /\ r.at = "read" /\ r.got = answer /\ r.last = poll[p].last
        /\ r.gen = poll[p].gen /\ r.after = poll[p].after
    BY <1>2 DEF PollOf
  <2> HIDE DEF r
  <2> QED
    BY <2>1, <2>2, Others
<1>4. Top' = Top
  BY <1>1 DEF Top
<1>5. /\ feed \subseteq EventOf(L) /\ \A e \in feed : e.id \in Nat \ {0} /\ e.id <= Top
  BY TopIs DEF FeedTypes, FinEvents, EventOf
<1>6. answer \subseteq feed /\ (\A m \in answer : m.id > poll[p].after)
      /\ \A e \in feed : e.id > poll[p].after => e \in answer \cup skipped'
  <2>1. CASE poll[p].after = 0
    BY <1>1, <1>5, <2>1 DEF Newest
  <2>2. CASE poll[p].after # 0
    BY <2>2 DEF After
  <2> QED
    BY <2>1, <2>2
<1>7. skipped \subseteq skipped'
  BY <1>1
<1> HIDE DEF answer
<1>8. \A q \in Poll : Busy(q)' = Busy(q) /\ Measured(q)' = Measured(q)
  BY <1>1, <1>3 DEF Busy, Measured
<1>9. OneRequest'
  BY <1>1, <1>3, <1>8 DEF PageInv, OneRequest
<1>10. AnswerInv'
  <2>1. ASSUME NEW m \in answer
        PROVE  /\ m.id <= Top' /\ m.id > poll[p].after
               /\ \A e \in feed : poll[p].after < e.id /\ e.id <= m.id =>
                                    e \in answer \cup late \cup skipped'
    BY <1>2, <1>4, <1>5, <1>6
  <2> QED
    BY <1>1, <1>3, <1>4, <1>7, <1>8, <2>1 DEF PageInv, AnswerInv
<1>11. ShownInv'
  <2>1. ASSUME ~ overlapped
        PROVE  answer \cap shown = {} /\ \A m \in answer : m.id <= Top'
    <3>1. poll[p].after = cursor
      BY <1>1, <2>1 DEF PageInv, OneRequest, Busy
    <3>2. \A e \in shown \cap feed : e.id <= cursor
      BY <2>1 DEF PageInv, ShownInv
    <3>3. ASSUME NEW e \in answer, e \in shown PROVE FALSE
      <4>1. e.id <= poll[p].after /\ e.id > poll[p].after /\ e.id \in Nat
        BY <1>5, <1>6, <3>1, <3>2, <3>3
      <4> QED
        BY <1>2, <4>1
    <3> QED
      BY <1>4, <1>5, <1>6, <3>3
  <2> QED
    BY <1>1, <1>3, <1>4, <1>8, <2>1 DEF PageInv, ShownInv
<1>12. TrackInv'
  BY <1>1, <1>3, <1>4, <1>7, <1>8 DEF PageInv, TrackInv, Tracked, CompleteTo
<1> QED
  BY <1>9, <1>10, <1>11, <1>12 DEF PageInv

\* An answer of the present feed takes the cursor forward over nothing but what is
\* shown, came late or was left out.
LEMMA AnswerTakes ==
  ASSUME NEW L, FeedTypes(L), AnswerInv, NEW p \in Poll, PageShows(p), poll[p].gen = gen,
         cursor <= Top, CompleteTo(cursor), CompleteTo(poll[p].after)
  PROVE  (cursor <= Top)' /\ CompleteTo(cursor)'
<1>1. /\ UNCHANGED <<feed, gen, late, skipped>>
      /\ poll[p].at = "read" /\ shown' = shown \cup poll[p].got
  BY DEF PageShows, redisVars
<1>2. Top' = Top /\ Top \in Nat
  BY <1>1, TopIs DEF Top, FeedTypes
<1>3. /\ cursor' \in Ids(poll[p].got) \cup {Start(poll[p].last)} /\ cursor' \in Nat
      /\ Start(poll[p].last) \in {0, cursor}
  BY CursorAfter
<1>4. /\ poll[p].after \in Nat /\ cursor \in Nat
      /\ \A e \in feed : e.id \in Nat \ {0}
  BY DEF FeedTypes, FinEvents, EventOf, PollOf
<1>5. CASE cursor' \in Ids(poll[p].got)
  <2>1. PICK m \in poll[p].got : m.id = cursor'
    BY <1>5 DEF Ids
  <2>2. /\ m.id <= Top
        /\ \A e \in feed : poll[p].after < e.id /\ e.id <= m.id =>
                             e \in poll[p].got \cup late \cup skipped
    BY <1>1 DEF AnswerInv
  <2>3. ASSUME NEW e \in feed, e.id <= cursor' PROVE e \in shown' \cup late \cup skipped
    <3>1. CASE e.id <= poll[p].after
      BY <1>1, <3>1 DEF CompleteTo
    <3>2. CASE ~ (e.id <= poll[p].after)
      <4>1. poll[p].after < e.id
        BY <1>4, <3>2
      <4> QED
        BY <1>1, <2>1, <2>2, <2>3, <4>1
    <3> QED
      BY <3>1, <3>2
  <2> QED
    BY <1>1, <1>2, <2>1, <2>2, <2>3 DEF CompleteTo
<1>6. CASE cursor' = 0
  <2>1. \A e \in feed : ~ (e.id <= 0)
    BY <1>4
  <2> QED
    BY <1>1, <1>2, <1>6, <2>1 DEF CompleteTo
<1>7. CASE cursor' = cursor
  BY <1>1, <1>2, <1>7 DEF CompleteTo
<1> QED
  BY <1>3, <1>5, <1>6, <1>7

\* The answer is shown.
LEMMA ShowsPage ==
  ASSUME NEW L, FeedTypes(L), PageInv, NEW p \in Poll, PageShows(p)
  PROVE  PageInv'
<1>1. /\ UNCHANGED <<feed, gen, late, skipped, overlapped>>
      /\ poll[p].at = "read" /\ shown' = shown \cup poll[p].got
      /\ twice' = twice \cup (shown \cap poll[p].got)
      /\ baseGen' = IF poll[p].after = 0 THEN poll[p].gen ELSE baseGen
  BY DEF PageShows, redisVars
<1>2. poll'[p].at = "idle" /\ \A q \in Poll : q # p => poll'[q] = poll[q]
  <2>1. poll' = [poll EXCEPT ![p] = NoPoll] /\ NoPoll.at = "idle"
    BY DEF PageShows, NoPoll
  <2> QED
    BY <2>1, Others
<1>3. Top' = Top /\ Top \in Nat
  BY <1>1, TopIs DEF Top, FeedTypes
<1>4. /\ cursor' \in Ids(poll[p].got) \cup {Start(poll[p].last)} /\ cursor' \in Nat
      /\ Start(poll[p].last) <= cursor' /\ Start(poll[p].last) \in {0, cursor}
      /\ \A e \in poll[p].got : e.id <= cursor'
  BY CursorAfter
<1>5. /\ poll[p].after \in Nat /\ poll[p].last \in Nat /\ poll[p].gen \in Nat
      /\ cursor \in Nat /\ gen \in Nat
      /\ \A e \in feed \cup shown \cup poll[p].got : e.id \in Nat \ {0}
  BY DEF FeedTypes, FinEvents, EventOf, PollOf
<1>6. \A q \in Poll : /\ Busy(q)' = (q # p /\ Busy(q))
                      /\ Measured(q)' = (q # p /\ Measured(q))
  BY <1>2 DEF Busy, Measured
<1>7. Busy(p) /\ Measured(p)
  BY <1>1 DEF Busy, Measured
<1>8. ASSUME ~ overlapped PROVE poll[p].after = cursor /\ \A q \in Poll : ~ Busy(q)'
  BY <1>6, <1>7, <1>8 DEF PageInv, OneRequest
<1>9. OneRequest'
  BY <1>1, <1>8 DEF OneRequest
<1>10. AnswerInv'
  BY <1>1, <1>2, <1>3, <1>6 DEF PageInv, AnswerInv
<1>11. ShownInv'
  <2>1. SUFFICES ASSUME ~ overlapped
        PROVE  /\ twice' = {}
               /\ \A e \in shown' \cap feed : e.id <= cursor'
               /\ shown' \cap feed # {} => cursor' <= Top
    <3>1. \A q \in Poll : Measured(q)' => Busy(q)'
      BY DEF Measured, Busy
    <3>2. \A q \in Poll : poll'[q].at = "read" => Busy(q)'
      BY DEF Busy
    <3> QED
      BY <1>1, <1>3, <1>8, <2>1, <3>1, <3>2 DEF ShownInv
  <2>2. /\ twice = {} /\ poll[p].got \cap shown = {}
        /\ \A e \in shown \cap feed : e.id <= cursor
        /\ shown \cap feed # {} => cursor <= Top /\ cursor <= poll[p].last
        /\ \/ \A m \in poll[p].got : m.id <= Top
           \/ (shown \cup poll[p].got) \cap feed = {}
    BY <1>1, <1>7, <2>1 DEF PageInv, ShownInv
  <2>3. poll[p].after = cursor /\ \A m \in poll[p].got : m.id > cursor
    BY <1>1, <1>8, <2>1 DEF PageInv, AnswerInv
  <2>4. shown \cap feed # {} => cursor <= cursor'
    <3>1. SUFFICES ASSUME shown \cap feed # {} PROVE Start(poll[p].last) = cursor
      BY <1>4
    <3>2. ~ (poll[p].last < cursor)
      BY <1>5, <2>2, <3>1
    <3> QED
      BY <3>2 DEF Start
  <2>5. ASSUME NEW e \in shown' \cap feed PROVE e.id <= cursor'
    <3>1. CASE e \in poll[p].got
      BY <1>4, <3>1
    <3>2. CASE e \in shown
      <4>1. e.id <= cursor /\ cursor <= cursor'
        BY <2>2, <2>4, <3>2
      <4> QED
        BY <1>4, <1>5, <4>1
    <3> QED
      BY <1>1, <3>1, <3>2
  <2>6. ASSUME shown' \cap feed # {} PROVE cursor' <= Top
    <3>1. \A m \in poll[p].got : m.id <= Top
      BY <1>1, <2>2, <2>6
    <3>2. cursor <= Top
      <4>1. CASE shown \cap feed # {}
        BY <2>2, <4>1
      <4>2. CASE shown \cap feed = {}
        <5>1. PICK e \in poll[p].got : e \in feed
          BY <1>1, <2>6, <4>2
        <5>2. e.id > cursor /\ e.id <= Top /\ e.id \in Nat
          BY <1>5, <2>3, <3>1, <5>1
        <5> QED
          BY <1>3, <1>5, <5>2
      <4> QED
        BY <4>1, <4>2
    <3>3. 0 <= Top
      BY <1>3
    <3> QED
      BY <1>4, <3>1, <3>2, <3>3 DEF Ids
  <2> QED
    BY <1>1, <2>2, <2>5, <2>6
<1>12. TrackInv'
  <2>0. AnswerInv /\ TrackInv /\ OneRequest
    BY DEF PageInv
  <2>1. ASSUME gen = 0
        PROVE  /\ (cursor <= Top)' /\ CompleteTo(cursor)'
               /\ \A q \in Poll : Measured(q) => poll[q].gen = gen
    <3>1. cursor <= Top /\ CompleteTo(cursor) /\ \A q \in Poll : Measured(q) => poll[q].gen = gen
      BY <2>0, <2>1 DEF TrackInv, Tracked
    <3>2. CompleteTo(poll[p].after) /\ poll[p].gen = gen
      BY <1>7, <2>0, <2>1, <3>1 DEF TrackInv
    <3> QED
      BY <2>0, <3>1, <3>2, AnswerTakes
  <2>2. ASSUME gen = baseGen', ~ overlapped PROVE (cursor <= Top)' /\ CompleteTo(cursor)'
    <3>1. poll[p].gen = gen /\ cursor <= Top /\ CompleteTo(cursor)
      <4>1. CASE poll[p].after = 0
        <5>1. cursor = 0 /\ 0 <= Top /\ poll[p].gen = gen
          BY <1>1, <1>3, <1>8, <2>2, <4>1
        <5>2. \A e \in feed : ~ (e.id <= 0)
          BY <1>5
        <5> QED
          BY <5>1, <5>2 DEF CompleteTo
      <4>2. CASE poll[p].after # 0
        BY <1>1, <1>7, <2>0, <2>2, <4>2 DEF TrackInv, Tracked
      <4> QED
        BY <4>1, <4>2
    <3>2. CompleteTo(poll[p].after)
      BY <1>8, <2>2, <3>1
    <3> QED
      BY <2>0, <3>1, <3>2, AnswerTakes
  <2>3. Tracked' => (gen = 0 \/ (gen = baseGen' /\ ~ overlapped))
    BY <1>1 DEF Tracked
  <2>4. Tracked' => (cursor <= Top)' /\ CompleteTo(cursor)'
    BY <2>1, <2>2, <2>3
  <2>5. ASSUME Tracked', NEW q \in Poll, Measured(q)' PROVE poll'[q].gen = gen'
    <3>1. Busy(q)' /\ q # p /\ Measured(q)
      BY <1>6, <2>5 DEF Measured, Busy
    <3>2. gen = 0
      BY <1>8, <2>3, <2>5, <3>1
    <3> QED
      BY <1>1, <1>2, <2>1, <3>1, <3>2
  <2>6. ASSUME gen' = 0, NEW q \in Poll, Busy(q)'
        PROVE  (poll[q].after <= Top)' /\ CompleteTo(poll[q].after)'
    <3>1. q # p /\ Busy(q)
      BY <1>6, <2>6
    <3>2. poll[q].after <= Top /\ CompleteTo(poll[q].after) /\ poll'[q] = poll[q]
      BY <1>1, <1>2, <2>0, <2>6, <3>1 DEF TrackInv
    <3> QED
      BY <1>1, <1>3, <3>2 DEF CompleteTo
  <2> QED
    BY <2>4, <2>5, <2>6 DEF TrackInv
<1> QED
  BY <1>9, <1>10, <1>11, <1>12 DEF PageInv

\* A request fails.
LEMMA FailsPage ==
  ASSUME NEW L, FeedTypes(L), PageInv, NEW p \in Poll, PollFails(p)
  PROVE  PageInv'
<1>1. UNCHANGED <<feed, gen, late, cursor, skipped, shown, twice, overlapped, baseGen>>
  BY DEF PollFails, redisVars
<1>2. poll'[p].at = "idle" /\ \A q \in Poll : q # p => poll'[q] = poll[q]
  <2>1. poll' = [poll EXCEPT ![p] = NoPoll] /\ NoPoll.at = "idle"
    BY DEF PollFails, NoPoll
  <2> QED
    BY <2>1, Others
<1>3. Top' = Top
  BY <1>1 DEF Top
<1>4. \A q \in Poll : /\ Busy(q)' = (q # p /\ Busy(q))
                      /\ Measured(q)' = (q # p /\ Measured(q))
  BY <1>2 DEF Busy, Measured
<1>5. OneRequest'
  BY <1>1, <1>2, <1>4 DEF PageInv, OneRequest
<1>6. AnswerInv'
  BY <1>1, <1>2, <1>3, <1>4 DEF PageInv, AnswerInv
<1>7. ShownInv'
  BY <1>1, <1>2, <1>3, <1>4 DEF PageInv, ShownInv
<1>8. TrackInv'
  BY <1>1, <1>2, <1>3, <1>4 DEF PageInv, TrackInv, Tracked, CompleteTo
<1> QED
  BY <1>5, <1>6, <1>7, <1>8 DEF PageInv

\* Every step of the feed and of the page keeps what the page goes by.
LEMMA PageMove ==
  ASSUME NEW L, FeedTypes(L), FreshInv, PageInv, FeedMove(L)
  PROVE  PageInv'
BY PageRedis, PageReset, AsksPage, LastPage, RangePage, ShowsPage, FailsPage
   DEF FeedMove, PageStep
------------------------------------------------------------------------------
(* What the trims leave, and all of it together.                             *)

\* The feed holds the newest events.
HoldsNewest == \A e \in stored \ feed : Cardinality({f \in feed : Newer(f, e)}) >= EventCap

\* No step of any writer loses one of the newest.
LEMMA HoldsMove ==
  ASSUME NEW L, FeedTypes(L), HoldsNewest, FeedMove(L)
  PROVE  HoldsNewest'
<1>1. /\ feed \subseteq EventOf(L) /\ stored \subseteq EventOf(L) /\ feed \subseteq stored
      /\ IsFiniteSet(feed)
  BY DEF FeedTypes, FinEvents
<1>2. CASE UNCHANGED <<feed, stored>>
  BY <1>2 DEF HoldsNewest
<1>3. CASE FeedDeleted
  BY <1>3 DEF FeedDeleted, HoldsNewest
<1>4. ASSUME NEW w \in writing, StoresEvents(w) PROVE HoldsNewest'
  <2>1. feed' = feed \cup w.events /\ stored' = stored \cup w.events
    BY <1>4 DEF StoresEvents
  <2>2. feed' \in FinEvents(L)
    BY <1>4, TypesMove DEF FeedMove, WriterStep, FeedTypes
  <2>3. ASSUME NEW e \in stored' \ feed'
        PROVE  Cardinality({f \in feed' : Newer(f, e)}) >= EventCap
    <3> DEFINE before == {f \in feed : Newer(f, e)}
               after == {f \in feed' : Newer(f, e)}
    <3>1. Cardinality(before) >= EventCap
      BY <2>1, <2>3 DEF HoldsNewest
    <3>2. IsFiniteSet(after) /\ before \subseteq after
      BY <2>1, <2>2, FS_Subset DEF FinEvents
    <3> HIDE DEF before, after
    <3>3. IsFiniteSet(before) /\ Cardinality(before) <= Cardinality(after)
      BY <3>2, FS_Subset
    <3>4. Cardinality(before) \in Nat /\ Cardinality(after) \in Nat
      BY <3>2, <3>3, FS_CardinalityType
    <3>5. Cardinality(after) >= EventCap
      BY <3>1, <3>3, <3>4
    <3> QED
      BY <3>5 DEF after
  <2> QED
    BY <2>3 DEF HoldsNewest
<1>5. ASSUME NEW w \in writing, Trims(w) PROVE HoldsNewest'
  <2>1. feed' = Newest(feed, EventCap) /\ stored' = stored
    BY <1>5 DEF Trims
  <2>2. ASSUME NEW e \in stored \ feed'
        PROVE  Cardinality({f \in feed' : Newer(f, e)}) >= EventCap
    <3>1. e \in EventOf(L) /\ IsFiniteSet({f \in feed : Newer(f, e)})
      BY <1>1, FS_Subset
    <3>2. Cardinality({f \in feed : Newer(f, e)}) \in Nat
      BY <3>1, FS_CardinalityType
    <3>3. Cardinality({f \in feed : Newer(f, e)}) >= EventCap
      BY <2>1, <2>2, <3>2 DEF HoldsNewest, Newest
    <3> QED
      BY <1>1, <2>1, <3>1, <3>3, NewestCount
  <2> QED
    BY <2>1, <2>2 DEF HoldsNewest
<1>6. ASSUME NEW w \in writing, DrawsIds(w) \/ AppendEnds(w) PROVE UNCHANGED <<feed, stored>>
  BY <1>6 DEF DrawsIds, AppendEnds
<1>7. PageStep => UNCHANGED <<feed, stored>>
  BY PageSees DEF redisVars
<1> QED
  BY <1>2, <1>3, <1>4, <1>5, <1>6, <1>7 DEF FeedMove, FeedDue, FeedRests, WriterStep

\* An answer that was read since the last reset leaves the cursor inside the feed.
LEMMA Realigns ==
  ASSUME NEW L, FeedTypes(L), PageInv, NEW p \in Poll, PageShows(p), poll[p].gen = gen
  PROVE  cursor' <= Top
<1>1. poll[p].at = "read"
  BY DEF PageShows
<1>2. poll[p].last <= Top /\ \A m \in poll[p].got : m.id <= Top
  BY <1>1 DEF PageInv, AnswerInv, Measured
<1>3. Top \in Nat /\ cursor \in Nat /\ poll[p].last \in Nat
  BY TopIs DEF FeedTypes, PollOf
<1>4. Start(poll[p].last) <= Top
  BY <1>2, <1>3 DEF Start
<1>5. cursor' \in Ids(poll[p].got) \cup {Start(poll[p].last)}
  BY CursorAfter
<1> QED
  BY <1>2, <1>4, <1>5 DEF Ids

FeedInv(L) == FeedTypes(L) /\ FreshInv /\ PageInv /\ HoldsNewest

LEMMA FeedBegins ==
  ASSUME NEW L, FeedInit
  PROVE  FeedInv(L)
<1> USE DEF FeedInit
<1>1. {} \in FinEvents(L)
  BY FS_EmptySet DEF FinEvents
<1>2. NoPoll \in PollOf(L) /\ NoPoll.gen = 0 /\ NoPoll.at = "idle" /\ NoPoll.got = {}
  BY <1>1 DEF NoPoll, PollOf
<1>3. FeedTypes(L)
  <2>1. poll \in [Poll -> PollOf(L)] /\ \A p \in Poll : poll[p].gen <= gen
    <3>1. gen = 0 /\ poll = [p \in Poll |-> NoPoll] /\ 0 <= 0
      OBVIOUS
    <3> HIDE DEF FeedInit
    <3> QED
      BY <1>2, <3>1
  <2>2. lastId \in Nat /\ cursor \in Nat /\ gen \in Nat /\ baseGen \in 0 .. gen
    OBVIOUS
  <2>3. stored = {} /\ feed = {} /\ shown = {} /\ writing = {} /\ overlapped = FALSE
    OBVIOUS
  <2> HIDE DEF FeedInit
  <2> QED
    BY <1>1, <2>1, <2>2, <2>3 DEF FeedTypes
<1>4. Seen = {} /\ InHand = {}
  BY <1>2 DEF Seen, InHand
<1>5. FreshInv
  BY <1>4 DEF FreshInv
<1>6. \A p \in Poll : ~ Busy(p) /\ ~ Measured(p) /\ poll[p].at # "read"
  BY <1>2 DEF Busy, Measured
<1>7. Top \in Nat
  BY <1>3, TopIs DEF FeedTypes
<1>8. PageInv
  BY <1>6, <1>7 DEF PageInv, OneRequest, AnswerInv, ShownInv, TrackInv, CompleteTo
<1>9. HoldsNewest
  BY DEF HoldsNewest
<1> QED
  BY <1>3, <1>5, <1>8, <1>9 DEF FeedInv

LEMMA FeedGoesOn ==
  ASSUME NEW L, FeedInv(L), FeedMove(L)
  PROVE  FeedInv(L)'
BY TypesMove, FreshMove, PageMove, HoldsMove DEF FeedInv
============================================================================
