-------------------------------- MODULE Sums --------------------------------
(***************************************************************************)
(* Sums and sorted orders without recursion, so that they can be reasoned  *)
(* about: a sum of natural numbers is the number of its units, and the     *)
(* place of an item in a sorted list is the number of items up to it.      *)
(***************************************************************************)
EXTENDS Naturals, FiniteSets

\* One token for each unit of each amount.
UnitsOf(amount) == UNION {{x} \X (1 .. amount[x]) : x \in DOMAIN amount}

\* The sum of the amounts (MapThenSumSet of the amounts over their domain).
TotalOf(amount) == Cardinality(UnitsOf(amount))

\* The number of items whose key is at most, or less than, k.
UpTo(key, k)  == Cardinality({i \in DOMAIN key : key[i] <= k})
Below(key, k) == Cardinality({i \in DOMAIN key : key[i] < k})

\* The r-th of the keys in ascending order.
Ranked(key, r) ==
  CHOOSE k \in {key[i] : i \in DOMAIN key} : Below(key, k) < r /\ r <= UpTo(key, k)
=============================================================================
