----------------------------- MODULE Containers -----------------------------
(***************************************************************************)
(* The binary search tree (kernel/ds/BST.c) and the ordered list           *)
(* (kernel/ds/ordered_list.c) of kernel/ds, with the default comparator.   *)
(* A tree is <<>> or <<key, left, right>>.                                 *)
(***************************************************************************)
EXTENDS Integers, Sequences, FiniteSets, SequencesExt

CONSTANTS TreeKeys,   \* keys
          MaxOps,     \* bound on the calls
          ListMax     \* ol->max_size

VARIABLES tree,    \* the tree; its root was made by the caller
          added,   \* ghost: the keys added and not removed since
          pruned,  \* ghost: a node with one child was removed
          doubled, \* ghost: a node with two children was removed
          ops,     \* the number of calls so far
          items,   \* ol->items: one slot more than max_size
          osize,   \* ol->size
          kept,    \* ghost: the items inserted and not removed, in order
          misused  \* ghost: an insert into a full list, or a remove behind its end

treeVars == <<tree, added, pruned, doubled>>
olVars == <<items, osize, kept, misused>>
dsVars == <<treeVars, ops, olVars>>

Nil == <<>>
Leaf(k) == <<k, Nil, Nil>>
Key(t) == t[1]
Left(t) == t[2]
Right(t) == t[3]

----------------------------------------------------------------------------
RECURSIVE KeysOf(_), BST_add(_, _), BST_remove(_, _), BST_find(_, _), LeastKey(_), Ordered(_), NodeOf(_, _)

KeysOf(t) == IF t = Nil THEN {} ELSE {Key(t)} \cup KeysOf(Left(t)) \cup KeysOf(Right(t))

\* A node for an empty tree is made and lost; here it is made in the parent.
BST_add(t, k) ==
    IF t = Nil THEN Leaf(k)
    ELSE IF k > Key(t) THEN <<Key(t), Left(t), BST_add(Right(t), k)>>
    ELSE IF k < Key(t) THEN <<Key(t), BST_add(Left(t), k), Right(t)>>
    ELSE t

LeastKey(t) == IF Left(t) = Nil THEN Key(t) ELSE LeastKey(Left(t))

\* mutant: the right child instead of its leftmost descendant
Successor_variant(t) == Key(Right(t))

Successor(t) == LeastKey(Right(t))

\* With two children, the successor's key is copied and the old key, not the
\* successor's, removed from the right; with one child the other, missing one
\* takes the node's place.
BST_remove(t, k) ==
    IF t = Nil THEN t
    ELSE IF k > Key(t) THEN <<Key(t), Left(t), BST_remove(Right(t), k)>>
    ELSE IF k < Key(t) THEN <<Key(t), BST_remove(Left(t), k), Right(t)>>
    ELSE IF Right(t) # Nil /\ Left(t) # Nil THEN <<Successor(t), Left(t), BST_remove(Right(t), k)>>
    ELSE IF Right(t) # Nil THEN Left(t) ELSE Right(t)

BST_find(t, k) ==
    IF t = Nil THEN FALSE
    ELSE IF k > Key(t) THEN BST_find(Right(t), k)
    ELSE IF k < Key(t) THEN BST_find(Left(t), k)
    ELSE TRUE

NodeOf(t, k) == IF t = Nil \/ Key(t) = k THEN t ELSE IF k > Key(t) THEN NodeOf(Right(t), k) ELSE NodeOf(Left(t), k)

TreeAdd(k) ==
    /\ tree # Nil
    /\ tree' = BST_add(tree, k) /\ added' = added \cup {k}
    /\ UNCHANGED <<pruned, doubled>>

TreeRemove(k) ==
    LET node == NodeOf(tree, k) IN
    /\ tree' = BST_remove(tree, k) /\ added' = added \ {k}
    /\ pruned' = (pruned \/ (node # Nil /\ (Left(node) = Nil) # (Right(node) = Nil)))
    /\ doubled' = (doubled \/ (node # Nil /\ Left(node) # Nil /\ Right(node) # Nil))

----------------------------------------------------------------------------
(* The ordered list; slot i of the C array is items[i + 1] *)

\* `while (cmp(item, items[i]) == 1 && i < size)'
ol_place(x) == Cardinality({i \in 1 .. osize : \A j \in 1 .. i : x > items[j]})

\* the slots behind move up one by one; max_size is not looked at (the bound is
\* the slot that the model has behind it)
ol_insert(x) ==
    LET i == ol_place(x) IN
    /\ osize \in 0 .. ListMax
    /\ items' = [j \in DOMAIN items |-> IF j <= i THEN items[j] ELSE IF j = i + 1 THEN x
                                        ELSE IF j <= osize + 1 THEN items[j - 1] ELSE items[j]]
    /\ osize' = osize + 1
    /\ kept' = SortSeq(Append(kept, x), LAMBDA a, b : a < b)
    /\ misused' = (misused \/ osize >= ListMax)

\* the size is decremented for every index; -1 stands for the 2^32 - 1 it wraps to
ol_remove(i) ==
    /\ osize >= 0
    /\ items' = [j \in DOMAIN items |-> IF j > i /\ j <= osize /\ j + 1 \in DOMAIN items THEN items[j + 1] ELSE items[j]]
    /\ osize' = osize - 1
    /\ kept' = IF i < Len(kept) THEN RemoveAt(kept, i + 1) ELSE kept
    /\ misused' = (misused \/ i >= osize)

ol_find(i) == IF i >= osize THEN 0 ELSE items[i + 1]

----------------------------------------------------------------------------
DsNext ==
    /\ ops < MaxOps /\ ops' = ops + 1
    /\ \/ (\E k \in TreeKeys : TreeAdd(k) \/ TreeRemove(k)) /\ UNCHANGED olVars
       \/ (tree \in {Leaf(k) : k \in TreeKeys} /\ added = KeysOf(tree))
          /\ ((\E x \in TreeKeys : ol_insert(x)) \/ (\E i \in 0 .. 1 : ol_remove(i)))
          /\ UNCHANGED treeVars

DsInit(keys) ==
    /\ \E k \in keys : tree = Leaf(k) /\ added = {k}
    /\ pruned = FALSE /\ doubled = FALSE /\ ops = 0
    /\ items = [i \in 1 .. ListMax + 1 |-> 0] /\ osize = 0 /\ kept = <<>> /\ misused = FALSE

DsStops == ops = MaxOps /\ UNCHANGED dsVars

----------------------------------------------------------------------------
\* No subtree holds a key on the wrong side: a key may appear again to the right.
Ordered(t) ==
    t # Nil => /\ \A k \in KeysOf(Left(t)) : k < Key(t)
               /\ \A k \in KeysOf(Right(t)) : k >= Key(t)
               /\ Ordered(Left(t)) /\ Ordered(Right(t))

\* BST_find finds exactly the keys that are in the tree, whatever was added and
\* removed before.
FindsAll == Ordered(tree) /\ \A k \in TreeKeys : BST_find(tree, k) <=> k \in KeysOf(tree)

\* As long as only leaves are removed, the tree holds what was added and not
\* removed.  (A node with one child takes its subtree with it; one with two leaves
\* a second copy of its successor behind, which survives the successor's removal.)
HoldsAdded ==
    /\ ~pruned /\ ~doubled => added \subseteq KeysOf(tree)
    /\ ~doubled => KeysOf(tree) \subseteq added

\* The list is sorted and holds what was inserted and not removed, unless it was
\* overfilled or an index behind its end was removed.
ListRight ==
    ~misused => osize = Len(kept) /\ \A i \in 0 .. osize : ol_find(i) = IF i < osize THEN kept[i + 1] ELSE 0

\* Tree and ordered list hold what was added and not removed, as far as the
\* operations that lose subtrees or miscount have not been used.
ContainersRight == HoldsAdded /\ FindsAll /\ ListRight
=============================================================================
