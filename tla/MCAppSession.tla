---------------------------- MODULE MCAppSession ----------------------------
(***************************************************************************)
(* AppSession with a small set of accounts, which are alike.               *)
(***************************************************************************)
EXTENDS AppSession, TLC

Symmetry == Permutations(Accounts)
=============================================================================
