------------------------------- MODULE Semver -------------------------------
(***************************************************************************)
(* semver_cmp of main/ota.c, which decides whether a release is newer.  A  *)
(* version is the sequence of the numbers sscanf finds in it, three at     *)
(* most.                                                                   *)
(***************************************************************************)
EXTENDS Integers, Sequences

(* Defective variant: any greater part makes a version newer. *)
GreaterParts(a, b) == {i \in 1 .. 3 : a[i] > b[i]}

(* parse_semver: what is missing is zero.                                  *)
Parses(v) == Len(v) >= 2
Parsed(v) == [i \in 1 .. 3 |-> IF i <= Len(v) THEN v[i] ELSE 0]

Differing(a, b) == {i \in 1 .. 3 : a[i] # b[i]}

semver_cmp(v, w) ==
  LET a == Parsed(v)
      b == Parsed(w)
      d == Differing(a, b)
      i == CHOOSE k \in d : \A j \in d : k <= j
  IN  IF ~Parses(v) \/ ~Parses(w) \/ d = {} THEN 0 ELSE a[i] - b[i]

-----------------------------------------------------------------------------
Versions(top) == UNION {[1 .. k -> 0 .. top] : k \in 0 .. 3}

(* The value of a version whose parts are at most top.                     *)
Rank(v, top) ==
  LET a == Parsed(v) IN (a[1] * (top + 1) + a[2]) * (top + 1) + a[3]

(* The comparison orders versions by their numbers, read from the left,    *)
(* and calls none newer that it cannot read.                               *)
OrdersVersions(top) ==
  \A v, w \in Versions(top) :
    semver_cmp(v, w) > 0 <=> Parses(v) /\ Parses(w) /\ Rank(v, top) > Rank(w, top)
==============================================================================
