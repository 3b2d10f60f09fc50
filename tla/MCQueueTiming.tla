---------------------------- MODULE MCQueueTiming ----------------------------
(***************************************************************************)
(* One seat, three users (a waiter can be overtaken by another), timeouts  *)
(* of two ticks that a clock reading may miss by one, one reset.           *)
(***************************************************************************)
EXTENDS QueueTiming

CONSTANT MaxOwed   \* bound: notices in the journal of a state that is expanded

\* ... and a state in which a reset has begun is expanded while it has one user.
SmallAfterReset == ZCard(pending) <= MaxOwed /\ (resets > 0 => Cardinality(Present) <= 1)
==============================================================================
