------------------------------ MODULE Minimum ------------------------------
(***************************************************************************)
(* The smaller of two numbers.                                             *)
(***************************************************************************)
EXTENDS Integers

Least(a, b) == IF a < b THEN a ELSE b
=============================================================================
