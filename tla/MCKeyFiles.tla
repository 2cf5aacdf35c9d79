------------------------------ MODULE MCKeyFiles ------------------------------
(***************************************************************************)
(* Two commands that make an account, in any of two directories, and one   *)
(* that signs.                                                             *)
(***************************************************************************)
EXTENDS KeyFiles, TLC

WriterSymmetry == Permutations(Writers)

=============================================================================
