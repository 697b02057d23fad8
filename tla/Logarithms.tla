----------------------------- MODULE Logarithms -----------------------------
(***************************************************************************)
(* The logarithms that TLC takes for Ln, in units of 1/10000.  Only those  *)
(* of primes are rounded, the others are their sums: products of two       *)
(* logarithms are then equal here where the real ones are, as in           *)
(* ln 4 * ln 3 = ln 9 * ln 2, and up to 16 no other two change their order.*)
(***************************************************************************)
EXTENDS Integers

Ln2  == 6931
Ln3  == 10986
Ln5  == 16094
Ln7  == 19459
Ln11 == 23979
Ln13 == 25649

LnTable ==
  <<0, Ln2, Ln3, 2 * Ln2, Ln5, Ln2 + Ln3, Ln7, 3 * Ln2, 2 * Ln3, Ln2 + Ln5,
    Ln11, 2 * Ln2 + Ln3, Ln13, Ln2 + Ln7, Ln3 + Ln5, 4 * Ln2>>

MCLn(n) == LnTable[n]

=============================================================================
