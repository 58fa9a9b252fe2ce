------------------------------- MODULE PTree -------------------------------
(***************************************************************************)
(* The three trees of lib/ptree*.c behind one interface: a plain binary    *)
(* tree, a red-black tree and an AVL tree.                                 *)
(*                                                                         *)
(* A node is named by the key it holds, so `t.node' is a function from the *)
(* keys with an allocated node to the fields of that node; a field of a    *)
(* freed node cannot be read.  Where the code copies a key and a value     *)
(* from one node into another, the two nodes exchange their names.  The    *)
(* key stands for the key and value pair.  Every iteration of a balancing, *)
(* traversing or clearing loop is a step; a search is a function.          *)
(***************************************************************************)
EXTENDS Integers, Sequences, FiniteSets, FiniteSetsExt, SequencesExt

CONSTANTS Keys,      \* the keys, ordered as integers
          NULL       \* the null pointer

ASSUME KeysAreIntegers == Keys \subseteq Int /\ NULL \notin Keys

VARIABLES
    kind,      \* PTreeType: fixed when the tree is made
    t,         \* [root, node]: the root pointer and the allocated nodes
    nnodes,    \* PTree.nnodes
    op,        \* the operation under way and its local variables
    content,   \* what the caller put in and has not taken out (no code has it)
    last       \* what the last removal took out, and what it destroyed (idem)

treeVars == <<kind, t, nnodes, op, content, last>>

Kinds == {"binary", "rb", "avl"}
Opposite(side) == IF side = "left" THEN "right" ELSE "left"
Side(key, n) == IF key < n THEN "left" ELSE "right"

Idle == [phase |-> "idle"]
Nothing == [gone |-> {}, destroyed |-> {}]

\* A node fresh from zmalloc0() under parent p.  `tag' is the colour of a
\* red-black node, the balance factor of an AVL node, unused otherwise.
NewNode(p) == [left |-> NULL, right |-> NULL, parent |-> p,
               tag |-> IF kind = "rb" THEN "red" ELSE 0]

-----------------------------------------------------------------------------
(* Searching. *)

\* Where the search for a key ends: its node, or the node it would hang from.
Place(tr, key) ==
    LET walk[n \in DOMAIN tr.node] ==
            LET next == tr.node[n][Side(key, n)]
            IN IF key = n \/ next = NULL THEN n ELSE walk[next]
    IN IF tr.root = NULL THEN NULL ELSE walk[tr.root]

Lookup(tr, key) == tr.root # NULL /\ Place(tr, key) = key

\* The last node of a chain of right links, before `stop' if that is met.
Rightmost(tr, from, stop) ==
    LET walk[n \in DOMAIN tr.node] ==
            IF tr.node[n].right \in {NULL, stop} THEN n ELSE walk[tr.node[n].right]
    IN walk[from]

-----------------------------------------------------------------------------
(* Changing links. *)

\* c becomes the child of p on one side, and learns its parent.
Link(tr, p, side, c) ==
    [tr EXCEPT !.node = [n \in DOMAIN tr.node |->
        CASE n = p -> [tr.node[n] EXCEPT ![side] = c]
          [] n = c -> [tr.node[n] EXCEPT !.parent = p]
          [] OTHER -> tr.node[n]]]

\* The side of its parent on which n hangs.
SideOf(tr, n) == IF tr.node[tr.node[n].parent].left = n THEN "left" ELSE "right"

\* c (or nothing) takes the place of n under the parent of n, or at the root.
Replace(tr, n, c) ==
    LET p == tr.node[n].parent
        up == IF p = NULL THEN [tr EXCEPT !.root = c] ELSE Link(tr, p, SideOf(tr, n), c)
    IN IF c = NULL \/ p # NULL THEN up ELSE [up EXCEPT !.node[c].parent = NULL]

\* Two nodes exchange the keys they hold, that is, their names.
Exchange(tr, a, b) ==
    LET name(n) == CASE n = a -> b [] n = b -> a [] OTHER -> n
        node == [n \in DOMAIN tr.node |->
                    LET r == tr.node[name(n)]
                    IN [r EXCEPT !.left = name(@), !.right = name(@), !.parent = name(@)]]
    IN [root |-> name(tr.root), node |-> node]

\* pztree_rb_rotate_left(), pztree_rb_rotate_right(): n goes down to `side'.
Rotate(tr, n, side) ==
    LET c     == tr.node[n][Opposite(side)]
        inner == tr.node[c][side]
    IN Link(Link(Replace(tr, n, c), n, Opposite(side), inner), c, side, n)

Paint(tr, n, colour) == [tr EXCEPT !.node[n].tag = colour]

-----------------------------------------------------------------------------
(* Red-black balance. *)

IsBlack(tr, n) == n = NULL \/ tr.node[n].tag = "black"
IsRed(tr, n) == tr.node[n].tag = "red"
Gparent(tr, n) == tr.node[tr.node[n].parent].parent
Sibling(tr, n) ==
    tr.node[tr.node[n].parent][Opposite(SideOf(tr, n))]
Uncle(tr, n) == Sibling(tr, tr.node[n].parent)

\* Cases 4 and 5 of the insertion: one or two rotations, and the end.
RbInsertRotate(tr, n) ==
    LET p    == tr.node[n].parent
        g    == Gparent(tr, n)
        side == SideOf(tr, p)
        t1   == IF SideOf(tr, n) # side THEN Rotate(tr, p, side) ELSE tr
        m    == IF SideOf(tr, n) # side THEN p ELSE n
    IN Rotate(Paint(Paint(t1, g, "red"), t1.node[m].parent, "black"), g, Opposite(side))

\* One iteration of pztree_rb_balance_insert(): the tree and the next node,
\* NULL when the loop is left.
RbBalanceInsert(tr, n) ==
    LET p == tr.node[n].parent IN
    CASE p = NULL -> <<Paint(tr, n, "black"), NULL>>
      [] p # NULL /\ IsBlack(tr, p) -> <<tr, NULL>>
      [] OTHER ->
           LET u == Uncle(tr, n)
               g == Gparent(tr, n)
           IN IF u # NULL /\ IsRed(tr, u)
              THEN <<Paint(Paint(Paint(tr, p, "black"), u, "black"), g, "red"), g>>
              ELSE <<RbInsertRotate(tr, n), NULL>>

\* Cases 4 and 5 of the removal: the sibling has a red child.
RbRemoveRotate(tr, n) ==
    LET p    == tr.node[n].parent
        side == SideOf(tr, n)
        s    == Sibling(tr, n)
        far  == tr.node[s][Opposite(side)]
        t1   == IF IsBlack(tr, far)
                THEN Rotate(Paint(Paint(tr, s, "red"), tr.node[s][side], "black"),
                            s, Opposite(side))
                ELSE tr
        s1   == Sibling(t1, n)
        t2   == Paint(Paint(t1, s1, t1.node[p].tag), p, "black")
    IN Rotate(Paint(t2, t2.node[s1][Opposite(side)], "black"), p, side)

\* One iteration of pztree_rb_balance_remove().
RbBalanceRemove(tr, n) ==
    LET p == tr.node[n].parent IN
    IF p = NULL THEN <<tr, NULL>> ELSE
    LET s  == Sibling(tr, n)
        t1 == IF IsRed(tr, s)
              THEN Rotate(Paint(Paint(tr, p, "red"), s, "black"), p, SideOf(tr, n))
              ELSE tr
        s1 == Sibling(t1, n)
    IN IF IsBlack(t1, t1.node[s1].left) /\ IsBlack(t1, t1.node[s1].right)
       THEN IF IsBlack(t1, p)
            THEN <<Paint(t1, s1, "red"), p>>
            ELSE <<Paint(Paint(t1, s1, "red"), p, "black"), NULL>>
       ELSE <<RbRemoveRotate(t1, n), NULL>>

-----------------------------------------------------------------------------
(* AVL balance: the factor is the height of the left subtree minus that of *)
(* the right one.                                                          *)

Weight(side) == IF side = "left" THEN 1 ELSE -1

\* pztree_avl_rotate_left() and _right(): n rises, its parent goes to `side'.
AvlRotate(tr, n, side) ==
    LET p  == tr.node[n].parent
        b  == tr.node[n].tag + Weight(side)
    IN [Rotate(tr, p, side) EXCEPT !.node[n].tag = b, !.node[p].tag = -b]

\* pztree_avl_rotate_left_right() and _right_left(): the inner child of n
\* rises above n and the parent of n, which hangs n on `side'.
AvlRotateTwice(tr, n, side) ==
    LET p == tr.node[n].parent
        m == tr.node[n][Opposite(side)]
        b == tr.node[m].tag
        turned == Rotate(Rotate(tr, n, side), p, Opposite(side))
        l == turned.node[m].left
        r == turned.node[m].right
    IN [turned EXCEPT !.node[l].tag = IF b = -1 THEN 1 ELSE 0,
                      !.node[r].tag = IF b = 1 THEN -1 ELSE 0,
                      !.node[m].tag = 0]

\* One iteration of pztree_avl_balance_insert().
AvlBalanceInsert(tr, n) ==
    LET p == tr.node[n].parent IN
    IF p = NULL THEN <<tr, NULL>> ELSE
    LET side == SideOf(tr, n)
        w    == Weight(side)
        b    == tr.node[p].tag
    IN CASE b = w  -> <<IF tr.node[n].tag = -w THEN AvlRotateTwice(tr, n, side)
                                              ELSE AvlRotate(tr, n, Opposite(side)), NULL>>
         [] b = -w -> <<[tr EXCEPT !.node[p].tag = 0], NULL>>
         [] OTHER  -> <<[tr EXCEPT !.node[p].tag = w], p>>

\* One iteration of pztree_avl_balance_remove().
AvlBalanceRemove(tr, n) ==
    LET p == tr.node[n].parent IN
    IF p = NULL THEN <<tr, NULL>> ELSE
    LET side == SideOf(tr, n)
        w    == Weight(side)
        b    == tr.node[p].tag
        s    == Sibling(tr, n)
    IN CASE b = -w -> LET t1 == IF tr.node[s].tag = w
                                THEN AvlRotateTwice(tr, s, Opposite(side))
                                ELSE AvlRotate(tr, s, side)
                      IN <<t1, IF tr.node[s].tag = 0 THEN NULL ELSE t1.node[p].parent>>
         [] b = 0  -> <<[tr EXCEPT !.node[p].tag = -w], NULL>>
         [] OTHER  -> <<[tr EXCEPT !.node[p].tag = 0], p>>

-----------------------------------------------------------------------------
(* The operations. *)

TreeInit ==
    /\ kind \in Kinds
    /\ t = [root |-> NULL, node |-> <<>>]
    /\ nnodes = 0
    /\ op = Idle
    /\ content = {}
    /\ last = Nothing

Allocate(tr, key) ==
    LET p  == Place(tr, key)
        t1 == [tr EXCEPT !.node = [n \in DOMAIN tr.node \cup {key} |->
                            IF n = key THEN NewNode(p) ELSE tr.node[n]]]
    IN IF p = NULL THEN [t1 EXCEPT !.root = key] ELSE Link(t1, p, Side(key, p), key)

\* ztree_insert() of a new key: the node is hung where the search ends, and
\* the balanced trees then balance from it.
TreeInsert(key) ==
    /\ op = Idle
    /\ ~Lookup(t, key)
    /\ t' = Allocate(t, key)
    /\ nnodes' = nnodes + 1
    /\ op' = IF kind = "binary" THEN Idle ELSE [phase |-> "inserted", node |-> key]
    /\ content' = content \cup {key}
    /\ last' = Nothing
    /\ UNCHANGED kind

\* ztree_insert() of a key that is there: the old pair is destroyed and
\* replaced, and the count stays.
TreeInsertExisting(key) ==
    /\ op = Idle
    /\ Lookup(t, key)
    /\ last' = [gone |-> {key}, destroyed |-> {key}]
    /\ UNCHANGED <<kind, t, nnodes, op, content>>

BalanceInsert ==
    /\ op.phase = "inserted"
    /\ LET step == IF kind = "rb" THEN RbBalanceInsert(t, op.node)
                                  ELSE AvlBalanceInsert(t, op.node)
       IN /\ t' = step[1]
          /\ op' = IF step[2] = NULL THEN Idle ELSE [op EXCEPT !.node = step[2]]
    /\ UNCHANGED <<kind, nnodes, content, last>>

Release(tr, n) ==
    [tr EXCEPT !.node = [m \in DOMAIN tr.node \ {n} |-> tr.node[m]]]

\* Mutant: the right subtree of the unlinked node is forgotten.
LeftChild(tr, n) == tr.node[n].left
OnlyChild(tr, n) == IF tr.node[n].left = NULL THEN tr.node[n].right ELSE tr.node[n].left

\* Mutant: the child that replaces a black node keeps its colour.
UnlinkUnpainted(tr, n) == Release(Replace(tr, n, OnlyChild(tr, n)), n)
\* The tail of the three remove functions: the node is replaced by its child
\* and freed.
Unlink(tr, n) ==
    LET c  == OnlyChild(tr, n)
        t1 == Release(Replace(tr, n, c), n)
    IN IF kind = "rb" /\ c # NULL /\ IsBlack(tr, n) THEN Paint(t1, c, "black") ELSE t1

\* ztree_remove().  A node with two children takes the key and value of its
\* predecessor, whose node is then the one to unlink; the destroy functions
\* are called on what that node holds.
TreeRemove(key) ==
    /\ op = Idle
    /\ Lookup(t, key)
    /\ LET two    == t.node[key].left # NULL /\ t.node[key].right # NULL
           prev   == IF two THEN Rightmost(t, t.node[key].left, NULL) ELSE key
           t1     == IF two THEN Exchange(t, key, prev) ELSE t
           c      == OnlyChild(t1, key)
           before == c = NULL /\ (kind = "avl" \/ (kind = "rb" /\ IsBlack(t1, key)))
           after  == c # NULL /\ kind = "avl"
       IN /\ t' = IF before THEN t1 ELSE Unlink(t1, key)
          /\ op' = CASE before -> [phase |-> "removing", node |-> key, doomed |-> key]
                     [] after  -> [phase |-> "removed", node |-> c]
                     [] OTHER  -> Idle
          /\ last' = [gone |-> {key}, destroyed |-> {prev}]
    /\ nnodes' = nnodes - 1
    /\ content' = content \ {key}
    /\ UNCHANGED kind

BalanceStep == IF kind = "rb" THEN RbBalanceRemove(t, op.node) ELSE AvlBalanceRemove(t, op.node)

\* Balancing before the node is unlinked; the last iteration unlinks it.
BalanceRemove ==
    /\ op.phase = "removing"
    /\ IF BalanceStep[2] = NULL
       THEN t' = Unlink(BalanceStep[1], op.doomed) /\ op' = Idle
       ELSE t' = BalanceStep[1] /\ op' = [op EXCEPT !.node = BalanceStep[2]]
    /\ UNCHANGED <<kind, nnodes, content, last>>

\* The AVL tree balances after unlinking a node that had a child.
BalanceRemoved ==
    /\ op.phase = "removed"
    /\ t' = BalanceStep[1]
    /\ op' = IF BalanceStep[2] = NULL THEN Idle ELSE [op EXCEPT !.node = BalanceStep[2]]
    /\ UNCHANGED <<kind, nnodes, content, last>>

-----------------------------------------------------------------------------
(* ztree_foreach() threads the right links of the tree to find its way     *)
(* back.  The callback may ask to stop; the loop then goes on until every  *)
(* thread is taken out again.                                              *)

TreeForeach(stopAt) ==
    /\ op = Idle
    /\ t.root # NULL
    /\ op' = [phase |-> "foreach", cur |-> t.root, threads |-> 0, stop |-> FALSE,
              visited |-> <<>>, stopAt |-> stopAt, before |-> t]
    /\ last' = Nothing
    /\ UNCHANGED <<kind, t, nnodes, content>>

\* traverse_func on the current node, unless an earlier call asked to stop.
Visit(o) ==
    IF o.stop THEN o
    ELSE [o EXCEPT !.visited = Append(@, o.cur), !.stop = (o.cur = o.stopAt)]

\* Mutant: the traversal returns as soon as the callback asks for it.
MayReturnAtOnce(o) == o.stop
MayReturn(o) == o.stop /\ o.threads = 0

ForeachStep ==
    /\ op.phase = "foreach"
    /\ op.cur # NULL
    /\ LET cur  == op.cur
           node == t.node[cur]
           prev == Rightmost(t, node.left, cur)
       IN \/ /\ node.left = NULL
             /\ op' = [Visit(op) EXCEPT !.cur = node.right]
             /\ UNCHANGED t
          \/ /\ node.left # NULL
             /\ t.node[prev].right = NULL
             /\ t' = [t EXCEPT !.node[prev].right = cur]
             /\ op' = [op EXCEPT !.cur = node.left, !.threads = @ + 1]
          \/ /\ node.left # NULL
             /\ t.node[prev].right # NULL
             /\ t' = [t EXCEPT !.node[prev].right = NULL]
             /\ LET seen == [Visit(op) EXCEPT !.threads = @ - 1]
                IN op' = [seen EXCEPT !.cur = IF MayReturn(seen) THEN NULL ELSE node.right]
    /\ UNCHANGED <<kind, nnodes, content, last>>

ForeachReturn ==
    /\ op.phase = "foreach"
    /\ op.cur = NULL
    /\ op' = Idle
    /\ UNCHANGED <<kind, t, nnodes, content, last>>

\* ztree_clear(): nodes are freed in order, each one reached through a thread
\* from its left subtree.
TreeClear ==
    /\ op = Idle
    /\ t.root # NULL
    /\ op' = [phase |-> "clear", cur |-> t.root]
    /\ content' = {}
    /\ last' = [gone |-> content, destroyed |-> {}]
    /\ UNCHANGED <<kind, t, nnodes>>

ClearStep ==
    /\ op.phase = "clear"
    /\ op.cur # NULL
    /\ LET cur  == op.cur
           node == t.node[cur]
           prev == Rightmost(t, node.left, NULL)
       IN \/ /\ node.left = NULL
             /\ t' = Release(t, cur)
             /\ nnodes' = nnodes - 1
             /\ last' = [last EXCEPT !.destroyed = @ \cup {cur}]
             /\ op' = [op EXCEPT !.cur = node.right]
          \/ /\ node.left # NULL
             /\ t' = [t EXCEPT !.node[prev].right = cur, !.node[cur].left = NULL]
             /\ op' = [op EXCEPT !.cur = node.left]
             /\ UNCHANGED <<nnodes, last>>
    /\ UNCHANGED <<kind, content>>

ClearReturn ==
    /\ op.phase = "clear"
    /\ op.cur = NULL
    /\ t' = [t EXCEPT !.root = NULL]
    /\ op' = Idle
    /\ UNCHANGED <<kind, nnodes, content, last>>

TreeNext ==
    \/ \E key \in Keys : TreeInsert(key) \/ TreeInsertExisting(key) \/ TreeRemove(key) \/ TreeForeach(key)
    \/ TreeForeach(NULL) \/ ForeachStep \/ ForeachReturn
    \/ BalanceInsert \/ BalanceRemove \/ BalanceRemoved
    \/ TreeClear \/ ClearStep \/ ClearReturn

-----------------------------------------------------------------------------
(* Properties. *)

\* The height of every subtree, in black nodes for a red-black tree.
Height(tr) ==
    LET h[n \in DOMAIN tr.node \cup {NULL}] ==
            IF n = NULL THEN 0
            ELSE LET sub == {h[tr.node[n].left], h[tr.node[n].right]}
                 IN Max(sub) + IF kind = "rb" /\ IsRed(tr, n) THEN 0 ELSE 1
    IN h

\* After any sequence of insertions, removals, traversals and clearings a
\* lookup finds exactly the keys that were put in and not taken out, although
\* the links were rotated, threaded and unthreaded on the way.
LookupAgrees ==
    op = Idle => /\ DOMAIN t.node = content
                 /\ \A key \in Keys : Lookup(t, key) <=> key \in content

\* A red-black tree has a black root, no red node with a red child and equally
\* many black nodes on every way down; an AVL tree has subtrees whose heights
\* differ by what the balance factor says, and parents are what they are.
BalancedWhenIdle ==
    (op = Idle /\ t.root # NULL /\ kind # "binary") =>
        LET h == Height(t) IN
        /\ t.node[t.root].parent = NULL
        /\ kind = "rb" => IsBlack(t, t.root)
        /\ \A n \in DOMAIN t.node :
             LET l == t.node[n].left
                 r == t.node[n].right
             IN /\ \A c \in {l, r} \ {NULL} : t.node[c].parent = n
                /\ kind = "avl" => t.node[n].tag = h[l] - h[r] /\ t.node[n].tag \in -1..1
                /\ kind = "rb"  => /\ h[l] = h[r]
                                   /\ IsBlack(t, n) \/ (IsBlack(t, l) /\ IsBlack(t, r))

\* ztree_foreach() calls the callback on the keys in order, from the least up
\* to the one where it asks to stop, and leaves the tree as it found it, also
\* when it stops early.
ForeachRestores ==
    (op.phase = "foreach" /\ op.cur = NULL) =>
        /\ t = op.before
        /\ op.visited = SetToSortSeq({k \in content : op.stopAt # NULL /\ op.stopAt \in content
                                                        => k <= op.stopAt}, <)

\* What leaves the tree is what the destroy functions are called on
\* (ptree.h: on removal "it would be called on the key").
DestroysWhatLeaves == op = Idle => last.gone = last.destroyed
=============================================================================
