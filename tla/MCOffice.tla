------------------------------ MODULE MCOffice ------------------------------
(***************************************************************************)
(* A small instance of Office: two people's threads, one person's talk     *)
(* with the assistant, a device that changes hands, an announcement to two *)
(* workspaces, two versions of a policy.  Call slots are interchangeable.  *)
(***************************************************************************)
EXTENDS Office, TLC

MCContacts == {<<"u1", "u2">>, <<"u2", "u1">>, <<"u2", "u3">>, <<"u3", "u2">>, <<"u1", "u3">>}
MCAccountOf == [k \in ApiKeys |-> IF k = "q3" THEN "a2" ELSE "a1"]
MCFirmOf == [p \in Audience |-> IF p = "p3" THEN "f2" ELSE "f1"]
MCRoleOf == [p \in Audience |->
  CASE p = "p1" -> "consultant_owner" [] p = "p2" -> "client" [] OTHER -> "partner"]

Symmetry == Permutations(Calls)
=============================================================================
