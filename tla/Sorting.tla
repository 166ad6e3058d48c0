------------------------------- MODULE Sorting -------------------------------
(***************************************************************************)
(* What std::sort() does to a sequence: an order of its elements in which  *)
(* their keys never decrease.  (Keys are natural numbers; elements with    *)
(* equal keys may come in any order.)                                      *)
(***************************************************************************)
EXTENDS Integers, Sequences, Functions

\* The element that comes k-th is the Sorting(key)[k]-th of those given.
InOrderOf(key, p) == \A i, j \in DOMAIN key : i < j => key[p[i]] <= key[p[j]]
Sorting(key) ==
    CHOOSE p \in Bijection(DOMAIN key, DOMAIN key) : InOrderOf(key, p)
SortedBy(seq, key) == [k \in DOMAIN seq |-> seq[Sorting(key)[k]]]
=============================================================================
