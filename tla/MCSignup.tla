------------------------------ MODULE MCSignup ------------------------------
(***************************************************************************)
(* Small instances of Signup.  Customers, sign-ups, tenants and call slots *)
(* are interchangeable.                                                    *)
(***************************************************************************)
EXTENDS Signup, TLC

Symmetry == Permutations(Emails) \cup Permutations(Signups) \cup Permutations(Tenants)
              \cup Permutations(Calls)
=============================================================================
