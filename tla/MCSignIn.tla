------------------------------ MODULE MCSignIn ------------------------------
(* The instance of SignIn that TLC checks. *)
EXTENDS SignIn, TLC

(* Browsers, records and values are only compared. *)
Symmetry ==
  Permutations(Sessions) \cup Permutations(Contacts) \cup Permutations(Licences)
    \cup Permutations(Values)
=============================================================================
