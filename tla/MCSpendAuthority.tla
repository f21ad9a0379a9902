-------------------------- MODULE MCSpendAuthority --------------------------
(* An instance of SpendAuthority: a contained run with two requests and    *)
(* a chat turn with one.                                                   *)
EXTENDS SpendAuthority, TLC

CONSTANTS harness, chat1, h1, h2, t1

OwnerOf == [q \in Requests |-> IF q = t1 THEN chat1 ELSE harness]

Small == [run |-> 2, day |-> 2]
Large == [run |-> 3, day |-> 4]
TwoLimits == {Small, Large}
=============================================================================
