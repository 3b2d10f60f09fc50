----------------------------- MODULE MCVisitFeed -----------------------------
(***************************************************************************)
(* Three users, a feed of two events, a page with two requests.            *)
(***************************************************************************)
EXTENDS VisitFeed

\* Users and the requests of the page are interchangeable.
Interchangeable == Permutations(User) \cup Permutations(Poll)

\* bound: AppendEvents calls under way in a state that is expanded.
FewWriters ==
  Cardinality(writing) <= IF \E u \in User : visit[u] = 2 THEN 1 ELSE 2

\* bound: while no page is open and no reset has been made, one user and two ids ...
OneUser ==
  /\ cursor = 0 /\ \A p \in Poll : poll[p].at = "idle"
  /\ gen = 0 /\ lastId <= 2
  /\ Cardinality({u \in User : visit[u] > 0}) <= 1
  /\ \A i \in DOMAIN log : log[i] \in {Poison} \cup {u \in User : visit[u] > 0}

\* bound: ... and otherwise no completion, one visit, a feed of promotions, and
\* two users once there was a reset.
Promotions ==
  /\ log = <<>>
  /\ \A u \in User : visit[u] <= 1
  /\ gen > 0 => Cardinality({u \in User : visit[u] > 0}) <= 2
  /\ \A e \in stored \cup UNION {w.events : w \in writing} : e.line.kind = "PROMOTE"
  /\ \A w \in writing : \A i \in DOMAIN w.lines : w.lines[i].kind = "PROMOTE"

Apart == FewWriters /\ (OneUser \/ Promotions)
==============================================================================
