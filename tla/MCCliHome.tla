----------------------------- MODULE MCCliHome -----------------------------
(***************************************************************************)
(* A small instance of CliHome: two commands at a time, two identities, a  *)
(* delegation of the first and a request under it of the second.           *)
(***************************************************************************)
EXTENDS CliHome, TLC

CONSTANTS i1, i2, d1, r1

MCSigner == (d1 :> i1) @@ (r1 :> i2)

MCAuthority == r1 :> d1

\* The commands are interchangeable.
Commands == Permutations(Proc)
=============================================================================
