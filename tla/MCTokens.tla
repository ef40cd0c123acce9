--------------------------------- MODULE MCTokens ---------------------------------
(***************************************************************************)
(* Instances of Tokens for TLC.                                            *)
(***************************************************************************)
EXTENDS Tokens, TLC

\* Nothing tells one request, email, user id or token from another.
Symmetry ==
  Permutations(Workers) \cup Permutations(AccountIds) \cup
  Permutations(TokenIds) \cup Permutations(Emails)
===================================================================================
