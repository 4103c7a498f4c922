------------------------------ MODULE Selection ------------------------------
(***************************************************************************)
(* Sequences made of elements of another one: those at some of its         *)
(* positions, in some order. It is positions that are chosen, as elements  *)
(* repeat, and they are put in order by counting those that come before,   *)
(* so that what a selection holds can be proved (SelectSeq and SortSeq are *)
(* out of the provers' reach).                                             *)
(***************************************************************************)
EXTENDS Integers, Sequences, FiniteSets

(* The positions P in the order R, a set of pairs. *)
InOrder(P, R) ==
    [k \in 1..Cardinality(P) |->
        CHOOSE i \in P : Cardinality({j \in P : <<j, i>> \in R}) = k - 1]

Arranged(s, P, R) ==
    LET order == InOrder(P, R) IN [k \in 1..Cardinality(P) |-> s[order[k]]]

Smaller(P) == {pair \in P \X P : pair[1] < pair[2]}

(* What s has at the positions P, and where a test succeeds. *)
Pick(s, P) == Arranged(s, P, Smaller(P))
Where(s, Test(_)) == Pick(s, {i \in DOMAIN s : Test(s[i])})

(* The first of each element. *)
Unique(s) == Pick(s, {i \in DOMAIN s : \A j \in 1..(i - 1) : s[j] # s[i]})

(* A stable sort. *)
Leading(s, Before(_, _)) ==
    {pair \in (DOMAIN s) \X (DOMAIN s) :
        \/ Before(s[pair[1]], s[pair[2]])
        \/ ~Before(s[pair[2]], s[pair[1]]) /\ pair[1] < pair[2]}

Sorted(s, Before(_, _)) == Arranged(s, DOMAIN s, Leading(s, Before))

Take(s, n) == SubSeq(s, 1, IF n < Len(s) THEN n ELSE Len(s))
=============================================================================
