------------------------------ MODULE StatePaths ------------------------------
(***************************************************************************)
(* Dotted state paths of the script language ("rover.Manual.Forward") and  *)
(* the path arithmetic a leaf transition needs.  A path is the sequence of *)
(* its segments, so "starts with <membership> followed by a dot" becomes   *)
(* the prefix relation.  Source: the path helpers at the end of            *)
(* src/src/core/simulation-runtime.ts.                                     *)
(***************************************************************************)
EXTENDS Integers, Sequences

\* The first n segments of a path.
Ancestor(path, n) == SubSeq(path, 1, n)

\* Every state a leaf lies in, itself included, outermost first.
EnumeratePrefixes(path) == [n \in 1..Len(path) |-> Ancestor(path, n)]

\* The same states as a set.
PrefixSet(path) == {Ancestor(path, n) : n \in 1..Len(path)}

\* The state `path` encloses, or is, the leaf `leaf`.
Encloses(path, leaf) ==
  /\ Len(path) <= Len(leaf)
  /\ \A i \in 1..Len(path) : path[i] = leaf[i]

\* How many leading segments two paths share.
SharedLengths(left, right) ==
  {n \in 0..Len(left) :
     n <= Len(right) /\ \A i \in 1..n : left[i] = right[i]}

CommonLength(left, right) ==
  CHOOSE n \in SharedLengths(left, right) :
    \A k \in SharedLengths(left, right) : k <= n

\* Mutants: only the leaf is left; the states are left from the outside in.
ExitLeafOnly(oldLeaf, newLeaf) == << oldLeaf >>
ExitDownwards(oldLeaf, newLeaf) ==
  [i \in 1..(Len(oldLeaf) - CommonLength(oldLeaf, newLeaf)) |->
     Ancestor(oldLeaf, CommonLength(oldLeaf, newLeaf) + i)]

\* The states left by a transition: from the old leaf upwards, the common
\* ancestors excluded.
ExitPaths(oldLeaf, newLeaf) ==
  [i \in 1..(Len(oldLeaf) - CommonLength(oldLeaf, newLeaf)) |->
     Ancestor(oldLeaf, Len(oldLeaf) - i + 1)]

\* Mutant: the common ancestors are entered again.
EnterFromTheTop(oldLeaf, newLeaf) == EnumeratePrefixes(newLeaf)

\* The states entered by a transition: from below the common ancestors down
\* to the new leaf.
EnterPaths(oldLeaf, newLeaf) ==
  [i \in 1..(Len(newLeaf) - CommonLength(oldLeaf, newLeaf)) |->
     Ancestor(newLeaf, CommonLength(oldLeaf, newLeaf) + i)]

==============================================================================
