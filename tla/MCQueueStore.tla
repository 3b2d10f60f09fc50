---------------------------- MODULE MCQueueStore ----------------------------
(***************************************************************************)
(* A small movie: four users, two seats, a line of two that one promotion  *)
(* tick can empty, an expiry scan that needs two ticks for two seats.      *)
(***************************************************************************)
EXTENDS QueueStore

CONSTANT MaxOwed   \* bound: notices in the journal of a state that is expanded

ShortJournal == ZCard(pending) <= MaxOwed
==============================================================================
