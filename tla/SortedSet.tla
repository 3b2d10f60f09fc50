------------------------------ MODULE SortedSet ------------------------------
(***************************************************************************)
(* The Redis sorted-set commands the scripts of queue-go use, as operators *)
(* on functions from members to integer scores.  Members that share a      *)
(* score are ordered by their bytes: the members are natural numbers       *)
(* numbered in that order.                                                 *)
(***************************************************************************)
EXTENDS Integers, FiniteSets

EmptySortedSet == [m \in {} |-> 0]

IsSortedSet(z, M) == DOMAIN z \subseteq M /\ z \in [DOMAIN z -> Nat]

\* ZADD z score m, for every m of S: a member already there gets the new score.
ZAdd(z, S, score) ==
  [m \in DOMAIN z \cup S |-> IF m \in S THEN score ELSE z[m]]

\* ZREM z m, for every m of S: nothing happens to a member that is not there.
ZRem(z, S) == [m \in DOMAIN z \ S |-> z[m]]

ZCard(z) == Cardinality(DOMAIN z)

\* The part of z with a score of at most cutoff (what ZRANGEBYSCORE looks at).
UpTo(z, cutoff) == [m \in {x \in DOMAIN z : z[x] <= cutoff} |-> z[m]]

Precedes(z, a, b) == z[a] < z[b] \/ (z[a] = z[b] /\ a < b)

\* S is what ZRANGE z 0 n-1 returns: the n lowest members, or all of a shorter z.
IsHead(S, z, n) ==
  /\ S \subseteq DOMAIN z
  /\ \A a \in S, b \in DOMAIN z \ S : Precedes(z, a, b)
  /\ \/ Cardinality(S) = n
     \/ S = DOMAIN z /\ Cardinality(S) < n

\* ZRANK z m
ZRank(z, m) == Cardinality({x \in DOMAIN z : Precedes(z, x, m)})
==============================================================================
