----------------------------- MODULE SparseTree -----------------------------
(***************************************************************************)
(* The sparse Merkle trees of tools/v2-crypto-bench: a store of the nodes  *)
(* that differ from the default of their level, updated along one path at  *)
(* a time.  Poseidon is injective: the hash of two children is their pair. *)
(* A leaf is a tuple that is not a pair, so that no leaf is a node.        *)
(***************************************************************************)
EXTENDS Integers, Sequences, SequencesExt

CONSTANTS
  Depth,        \* levels above the leaves
  DefaultLeaf   \* the leaf of an index that was never set

Indices == 0..(2^Depth - 1)

registry_node(left, right) == <<left, right>>

defaults ==
  LET at[k \in 0..Depth] == IF k = 0 THEN DefaultLeaf ELSE registry_node(at[k - 1], at[k - 1])
  IN at

\* The node above leaf i at each level: index >> level.
shifted(i) ==
  LET at[k \in 0..Depth] == IF k = 0 THEN i ELSE at[k - 1] \div 2
  IN at

sibling(i) == IF i % 2 = 0 THEN i + 1 ELSE i - 1

node(nodes, level, i) ==
  IF <<level, i>> \in DOMAIN nodes THEN nodes[<<level, i>>] ELSE defaults[level]

\* Mutant: a node that went back to its default stays in the store.
set_node_Keeps(nodes, level, i, value) ==
  IF value = defaults[level] THEN nodes
  ELSE [k \in DOMAIN nodes \cup {<<level, i>>} |-> IF k = <<level, i>> THEN value ELSE nodes[k]]

\* A default value is not stored.
set_node(nodes, level, i, value) ==
  IF value = defaults[level]
    THEN [k \in DOMAIN nodes \ {<<level, i>>} |-> nodes[k]]
    ELSE [k \in DOMAIN nodes \cup {<<level, i>>} |-> IF k = <<level, i>> THEN value ELSE nodes[k]]

\* The parent of a node at position i of its level and of its sibling.
parent(current, i, other) ==
  IF i % 2 = 0 THEN registry_node(current, other) ELSE registry_node(other, current)

levels(n) == [k \in 1..n |-> k - 1]

\* One level up: the parent of the node in hand is computed with what the store holds beside it.
climb(acc, level) ==
  LET value == parent(acc.current, acc.index, node(acc.nodes, level, sibling(acc.index)))
      index == acc.index \div 2
  IN [current |-> value, index |-> index, nodes |-> set_node(acc.nodes, level + 1, index, value)]

\* set_node at the leaf, then at every node above it.
set_leaf(nodes, i, leaf) ==
  FoldLeft(climb, [current |-> leaf, index |-> i, nodes |-> set_node(nodes, 0, i, leaf)],
           levels(Depth)).nodes

siblings(nodes, i) == [k \in 1..Depth |-> node(nodes, k - 1, sibling(shifted(i)[k - 1]))]

root(nodes) == node(nodes, Depth, 0)

\* The node above leaf i at a level, from the siblings along its path.
subtree_from_path(leaf, i, path, n) ==
  FoldLeft(LAMBDA current, level : parent(current, shifted(i)[level], path[level + 1]), leaf, levels(n))

root_from_path(leaf, i, path) == subtree_from_path(leaf, i, path, Depth)

(***************************************************************************)
(* The tree a function from indices to leaves stands for, built from       *)
(* nothing: what the updates along paths are compared with.                *)
(***************************************************************************)
TreeOf(leaves) ==
  LET at[k \in 0..Depth] ==
        [i \in 0..(2^(Depth - k) - 1) |->
           IF k = 0 THEN leaves[i] ELSE registry_node(at[k - 1][2 * i], at[k - 1][2 * i + 1])]
      held == {x \in (0..Depth) \X Indices :
                 x[2] \in DOMAIN at[x[1]] /\ at[x[1]][x[2]] # defaults[x[1]]}
  IN [x \in held |-> at[x[1]][x[2]]]

=============================================================================
