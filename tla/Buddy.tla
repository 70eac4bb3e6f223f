------------------------------- MODULE Buddy -------------------------------
(***************************************************************************)
(* The buddy allocator of core/buddy.c: a complete binary tree of block    *)
(* states in an array, searched and freed by recursion from the root.      *)
(***************************************************************************)
EXTENDS Integers, FiniteSetsExt

CONSTANTS POOL_SIZE, MIN_BLOCK, NULL

NUM_LEAVES == POOL_SIZE \div MIN_BLOCK
TREE_NODES == 2 * NUM_LEAVES - 1
ASSUME PoolAssumption == /\ MIN_BLOCK \in Nat \ {0}
                         /\ \E k \in 0..20 : POOL_SIZE = MIN_BLOCK * 2^k
                         /\ NULL \notin 0..(POOL_SIZE + 1)

VARIABLES
  buddy_tree,  \* node -> "FREE", "SPLIT" or "USED"
  asked,       \* history: the argument of the last call if it was buddy_alloc
  ret          \* history: its result, an offset or NULL

vars == <<buddy_tree, asked, ret>>

Nodes == 0..(TREE_NODES - 1)

Init ==
  /\ buddy_tree = [n \in Nodes |-> "FREE"]
  /\ asked = NULL /\ ret = NULL

----------------------------------------------------------------------------
\* A slip: one doubling too few for a size just above a power of two.
buddy_next_pow2_rounds_down(x) ==
  Max({MIN_BLOCK} \cup {p \in {MIN_BLOCK * 2^k : k \in 0..x} : p <= x})

\* buddy_next_pow2: double MIN_BLOCK until it covers x.
buddy_next_pow2(x) == Min({p \in {MIN_BLOCK * 2^k : k \in 0..x} : p >= x})

Left(n) == 2 * n + 1
Right(n) == 2 * n + 2

\* buddy_alloc_node: the tree and the offset after the search under a node, in
\* which the left half goes first.  A FREE node on the way is split even if
\* nothing is found below it.
RECURSIVE buddy_alloc_node(_, _, _, _, _)

buddy_alloc_node(tree, node, size, offset, req) ==
  LET Fail == [tree |-> tree, off |-> NULL]
      half == size \div 2
      split == [tree EXCEPT ![node] = "SPLIT"]
      left == buddy_alloc_node(split, Left(node), half, offset, req)
  IN CASE node >= TREE_NODES -> Fail
       [] node < TREE_NODES /\ (tree[node] = "USED" \/ size < req) -> Fail
       [] node < TREE_NODES /\ tree[node] = "FREE" /\ size = req ->
            [tree |-> [tree EXCEPT ![node] = "USED"], off |-> offset]
       [] node < TREE_NODES /\ tree[node] = "FREE" /\ size > req /\ size <= MIN_BLOCK -> Fail
       [] OTHER -> IF left.off # NULL THEN left
                   ELSE buddy_alloc_node(left.tree, Right(node), half, offset + half, req)

\* After a visit, a SPLIT node with two FREE halves becomes FREE.
Coalesce(tree, node) ==
  IF /\ tree[node] = "SPLIT" /\ Right(node) < TREE_NODES
     /\ tree[Left(node)] = "FREE" /\ tree[Right(node)] = "FREE"
  THEN [tree EXCEPT ![node] = "FREE"] ELSE tree

\* buddy_free_node: the tree after freeing what starts at target.
RECURSIVE buddy_free_node(_, _, _, _, _)
buddy_free_node(tree, node, size, offset, target) ==
  LET half == size \div 2 IN
  CASE node >= TREE_NODES -> tree
    [] node < TREE_NODES /\ tree[node] = "FREE" -> tree
    [] node < TREE_NODES /\ tree[node] = "USED" ->
         IF offset = target THEN [tree EXCEPT ![node] = "FREE"] ELSE tree
    [] OTHER ->
         Coalesce(IF target < offset + half
                  THEN buddy_free_node(tree, Left(node), half, offset, target)
                  ELSE buddy_free_node(tree, Right(node), half, offset + half, target),
                  node)

----------------------------------------------------------------------------
TooBig(n) == n = 0 \/ n > POOL_SIZE

buddy_alloc(n) ==
  LET r == IF TooBig(n) THEN [tree |-> buddy_tree, off |-> NULL]
           ELSE buddy_alloc_node(buddy_tree, 0, POOL_SIZE, 0, buddy_next_pow2(n)) IN
  /\ buddy_tree' = r.tree
  /\ asked' = n /\ ret' = r.off

\* Any address inside the pool (one outside is ignored).
buddy_free(o) ==
  /\ buddy_tree' = buddy_free_node(buddy_tree, 0, POOL_SIZE, 0, o)
  /\ asked' = NULL /\ ret' = NULL

Next == \/ \E n \in 0..(POOL_SIZE + 1) : buddy_alloc(n)
        \/ \E o \in 0..(POOL_SIZE - 1) : buddy_free(o)

Spec == Init /\ [][Next]_vars

----------------------------------------------------------------------------
\* Properties

\* The depth of a node and the block it stands for.
Depth(n) == Max({d \in 0..NUM_LEAVES : 2^d <= n + 1})
BlockOf(n) == LET size == POOL_SIZE \div 2^Depth(n)
              IN [off |-> (n + 1 - 2^Depth(n)) * size, size |-> size]

Heap == INSTANCE Heap WITH live <- {BlockOf(n) : n \in {m \in Nodes : buddy_tree[m] = "USED"}}

\* The tree implements Heap: blocks never overlap, a request gets the lowest
\* free place of its rounded size and is refused only if there is none, a free
\* gives back exactly the block that starts there.
ImplementsHeap == Heap!HeapSpec
=============================================================================
