------------------------------- MODULE Slots -------------------------------
(***************************************************************************)
(* Room for the state of one component at a time.  Components that share   *)
(* no state are checked in one run: `part` says which of them a behaviour  *)
(* is about, its variables are kept in the first slots, and the other      *)
(* slots are unused.  TLC explores the sum of the state spaces of the      *)
(* parts and not their product, which would add nothing.                   *)
(***************************************************************************)
EXTENDS Integers

CONSTANT Unused
VARIABLES
  part,
  x1, x2, x3, x4, x5, x6, x7, x8, x9, x10,
  x11, x12, x13, x14, x15, x16, x17, x18, x19, x20

slots == <<x1, x2, x3, x4, x5, x6, x7, x8, x9, x10, x11, x12, x13, x14, x15, x16, x17, x18, x19, x20>>
all == <<part, slots>>

\* The slots after the n-th are unused in the initial state ...
UnusedAfter(n) ==
  /\ IF n < 5 THEN x5 = Unused ELSE TRUE
  /\ IF n < 6 THEN x6 = Unused ELSE TRUE
  /\ IF n < 7 THEN x7 = Unused ELSE TRUE
  /\ IF n < 8 THEN x8 = Unused ELSE TRUE
  /\ IF n < 9 THEN x9 = Unused ELSE TRUE
  /\ IF n < 10 THEN x10 = Unused ELSE TRUE
  /\ IF n < 11 THEN x11 = Unused ELSE TRUE
  /\ IF n < 12 THEN x12 = Unused ELSE TRUE
  /\ IF n < 13 THEN x13 = Unused ELSE TRUE
  /\ IF n < 14 THEN x14 = Unused ELSE TRUE
  /\ IF n < 15 THEN x15 = Unused ELSE TRUE
  /\ IF n < 16 THEN x16 = Unused ELSE TRUE
  /\ IF n < 17 THEN x17 = Unused ELSE TRUE
  /\ IF n < 18 THEN x18 = Unused ELSE TRUE
  /\ IF n < 19 THEN x19 = Unused ELSE TRUE
  /\ IF n < 20 THEN x20 = Unused ELSE TRUE
\* ... and stay so.
KeepAfter(n) ==
  /\ IF n < 5 THEN UNCHANGED x5 ELSE TRUE
  /\ IF n < 6 THEN UNCHANGED x6 ELSE TRUE
  /\ IF n < 7 THEN UNCHANGED x7 ELSE TRUE
  /\ IF n < 8 THEN UNCHANGED x8 ELSE TRUE
  /\ IF n < 9 THEN UNCHANGED x9 ELSE TRUE
  /\ IF n < 10 THEN UNCHANGED x10 ELSE TRUE
  /\ IF n < 11 THEN UNCHANGED x11 ELSE TRUE
  /\ IF n < 12 THEN UNCHANGED x12 ELSE TRUE
  /\ IF n < 13 THEN UNCHANGED x13 ELSE TRUE
  /\ IF n < 14 THEN UNCHANGED x14 ELSE TRUE
  /\ IF n < 15 THEN UNCHANGED x15 ELSE TRUE
  /\ IF n < 16 THEN UNCHANGED x16 ELSE TRUE
  /\ IF n < 17 THEN UNCHANGED x17 ELSE TRUE
  /\ IF n < 18 THEN UNCHANGED x18 ELSE TRUE
  /\ IF n < 19 THEN UNCHANGED x19 ELSE TRUE
  /\ IF n < 20 THEN UNCHANGED x20 ELSE TRUE
=============================================================================
