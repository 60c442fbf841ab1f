----------------------------- MODULE MCMfsUtil -----------------------------
(***************************************************************************)
(* MfsUtil for TLC: an empty file, files of one and two sectors, one that  *)
(* fills the buffer, one above it, one negative as a signed size and one   *)
(* whose length wraps to a single byte.                                    *)
(***************************************************************************)
EXTENDS MfsUtil, TLC

MCContents == {<<>>, <<1>>, <<2, 3>>, <<4, 5, 6>>, <<1, 1, 1, 1>>,
               [k \in 1 .. 5 |-> 1], [k \in 1 .. 11 |-> 1]}
NameSymmetry == Permutations(Names)

\* The runs that follow one that went astray are not explored: nothing is claimed of their
\* images, and Format leads back to the state it leads to from everywhere.
Explored == ~astray
=============================================================================
