------------------------------ MODULE MCPeople ------------------------------
(***************************************************************************)
(* A small instance of People: a plan with room for one partner and no     *)
(* second consultant, one account, two requests of a client to be shown    *)
(* and one to be moved.  Call slots and addresses are interchangeable.     *)
(***************************************************************************)
EXTENDS People, TLC

PlanSeats == [consultant |-> 0, partner |-> 1]

MCSessionsAt == [passwords |-> {"s1", "s2"}, codes |-> {"s1"}, console |-> {"s1"}]

MCRequestsAt == [shown |-> {"r1", "r2"}, moved |-> {"r1"}]
MCCasesAt == [shown |-> {"x1", "x2"}, moved |-> {"x1"}]
MCConsultantsAt == [shown |-> {"s1"}, moved |-> {"s1", "s2"}]

Symmetry == Permutations(Calls) \cup Permutations(Emails)
=============================================================================
