------------------------------- MODULE Blocks --------------------------------
(***************************************************************************)
(* The arithmetic of pkg/math: offsets and the cache blocks they lie in.   *)
(* All the arguments that the code passes are natural numbers.             *)
(***************************************************************************)
EXTENDS Integers

Max64(a, b) == IF a > b THEN a ELSE b
Min64(a, b) == IF a > b THEN b ELSE a

AlignDown(x, align) == (x \div align) * align
=============================================================================
