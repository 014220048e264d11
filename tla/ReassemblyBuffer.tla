-------------------------- MODULE ReassemblyBuffer --------------------------
(* The buffer that puts the fragments of one datagram together: the region   *)
(* grown from offset 0 and the regions waiting for a gap to be filled.       *)
(* Offsets count payload units.                                              *)
EXTENDS Integers, FiniteSets

EmptyBuffer == [beg |-> 0, end |-> 0, islast |-> FALSE, fragments |-> {}]

(* A waiting region that follows, precedes or lies inside the main one.      *)
mergeable(b, r) ==
  b.end = r.beg \/ b.beg = r.end \/ (b.beg <= r.beg /\ b.end >= r.end)

mergeOne(b, r) ==
  [beg |-> IF b.end # r.beg /\ b.beg = r.end THEN r.beg ELSE b.beg,
   end |-> IF b.end = r.beg THEN r.end ELSE b.end,
   islast |-> b.islast \/ (b.end = r.beg /\ r.islast),
   fragments |-> b.fragments \ {r}]

(* "once more" until no waiting region is mergeable: at most one round for   *)
(* each of them.                                                             *)
mergeFragments(buf) ==
  LET rounds[k \in Nat] ==
        IF k = 0 THEN buf
        ELSE LET b == rounds[k - 1]
             IN  IF \E r \in b.fragments : mergeable(b, r)
                 THEN mergeOne(b, CHOOSE r \in b.fragments : mergeable(b, r))
                 ELSE b
  IN  rounds[Cardinality(buf.fragments)]

\* Mutated: the waiting regions are not merged when a gap is filled.
merge_NoMerge(b, r) ==
  CASE b.end = r.beg -> [b EXCEPT !.end = r.end, !.islast = @ \/ r.islast]
    [] b.end # r.beg /\ b.beg = r.end -> [b EXCEPT !.beg = r.beg]
    [] b.end < r.beg \/ b.beg > r.end ->
         [b EXCEPT !.fragments = @ \cup {r}]
    [] OTHER -> b

(* A fragment next to the main region extends it, a disjoint one waits, and  *)
(* any other is taken for a duplicate.                                       *)
merge(b, r) ==
  CASE b.end = r.beg ->
         mergeFragments([b EXCEPT !.end = r.end, !.islast = @ \/ r.islast])
    [] b.end # r.beg /\ b.beg = r.end ->
         mergeFragments([b EXCEPT !.beg = r.beg])
    [] b.end < r.beg \/ b.beg > r.end ->
         [b EXCEPT !.fragments = @ \cup {r}]
    [] OTHER -> b

isComplete(b) == b.beg = 0 /\ b.islast

getTotalLength(b) == b.end
=============================================================================
