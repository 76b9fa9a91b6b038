----------------------------- MODULE MCDirectory -----------------------------
(***************************************************************************)
(* A small instance of Directory: two codes, of which either may be the    *)
(* one that processes are started with.                                    *)
(***************************************************************************)
EXTENDS Directory, TLC

CONSTANTS h1, h2, c1, c2

Symmetry == Permutations({h1, h2}) \union Permutations({c1, c2})
=============================================================================
