----------------------------- MODULE MCWaitlist -----------------------------
(* Instances of Waitlist for TLC: two people, one of whom types her address *)
(* in two ways. *)
EXTENDS Waitlist, TLC

TwoPeople == {"ann", "Ann ", "bob"}
Lowered == [s \in TwoPeople |-> IF s = "Ann " THEN "ann" ELSE s]
Interchangeable ==
  Permutations(Requests) \cup Permutations(Columns) \cup Permutations(Values)
=============================================================================
