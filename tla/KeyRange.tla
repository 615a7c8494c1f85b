------------------------------ MODULE KeyRange ------------------------------
(***************************************************************************)
(* Keys and half-open key ranges.                                          *)
(*                                                                         *)
(* A key is a non-empty std::string; only its place in the lexicographic   *)
(* order matters, so the keys are 1..MaxKey.  The empty string, which no   *)
(* client can use as a key (lekv_cli.cpp:247), is 0: as a start_key it is  *)
(* below every key, as an end_key the code reads it as "no upper bound".   *)
(***************************************************************************)
EXTENDS Integers

CONSTANT MaxKey     \* number of distinct keys the clients use

ASSUME MaxKeyAssumption == MaxKey \in Nat \ {0}

Key == 1..MaxKey
Empty == 0                       \* the empty string
Bound == Key \cup {Empty}        \* what a start_key or an end_key can be

(***************************************************************************)
(* The membership test shared by RangeQuery, DeleteRange and               *)
(* GetTabletRoute: iteration starts at Seek(start) and stops at the first  *)
(* key >= end, unless end is empty.                                        *)
(***************************************************************************)
InRange(k, start, end) == start <= k /\ (end # Empty => k < end)
=============================================================================
