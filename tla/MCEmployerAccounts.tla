------------------------- MODULE MCEmployerAccounts -------------------------
(***************************************************************************)
(* EmployerAccounts for TLC: one employer, an account row and the one that *)
(* may follow it when a restore forgets it, two mails.                     *)
(***************************************************************************)
EXTENDS EmployerAccounts, TLC

CONSTANTS a1, a2, e1, m1, m2, c1, c2, f1, f2, v1, v2

OneEmployer == a1 :> e1 @@ a2 :> e1
Alike == Permutations({a1, a2}) \cup Permutations({m1, m2}) \cup Permutations({c1, c2})
           \cup Permutations({f1, f2}) \cup Permutations({v1, v2})
=============================================================================
