----------------------------- MODULE MCSeatSale -----------------------------
(***************************************************************************)
(* Two users after two seats.                                              *)
(***************************************************************************)
EXTENDS SeatSale, TLC

\* Users, seats and confirms are interchangeable.
Interchangeable == Permutations(User) \cup Permutations(Seat) \cup Permutations(Call)

\* bound: of the states in which a reset has begun, only those are expanded
\* in which everything is about one seat.
OneSeatInReset ==
  resets > 0 \/ reset.at # "none" =>
    Cardinality(index \cup DOMAIN lock \cup UNION {x.seats : x \in selecting}
                  \cup UNION {req[c].seats : c \in Call}) <= 1
=============================================================================
