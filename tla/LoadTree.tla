------------------------------ MODULE LoadTree ------------------------------
(***************************************************************************)
(* The B-tree outside the enclave, which the loader of a workload fills    *)
(* before the enclave copies it (module BTree).  One loader inserts the    *)
(* keys one after the other, so index_insert is one step; the latches it   *)
(* leaves behind stay in latched, because it collects the latches to       *)
(* release along the parent pointers and not along its way down.           *)
(*                                                                         *)
(* A node is a record, its pointers to other nodes are their node_id, 0 is *)
(* NULL; position i of the code is position i + 1 here.  The item of a key *)
(* is the number of the insertion that made it.                            *)
(***************************************************************************)
EXTENDS Integers, Sequences, FiniteSets, TLC, SequencesExt

CONSTANTS
    Order,        \* BTREE_ORDER
    Plan          \* what to load, and what the threads ask for afterwards

ASSUME LoadAssumption ==
    /\ Order \in Nat \ {0, 1, 2}
    /\ \A p \in Plan : p.load \in Seq(Nat)

VARIABLES
    plan,     \* the member of Plan that is carried out
    tree,     \* the nodes outside, by node_id
    top,      \* roots[part_id]
    loaded,   \* how many rows the loader has inserted
    latched   \* the nodes outside whose latch was not released

loadVars == <<plan, tree, top, loaded, latched>>

-----------------------------------------------------------------------------
(* Nodes.                                                                  *)

\* make_lf and make_nl; node_id is btree_node_id, which counts the nodes.
make_lf == [leaf |-> TRUE, keys |-> <<>>, kids |-> <<>>, items |-> <<>>, next |-> 0, parent |-> 0]
make_nl == [make_lf EXCEPT !.leaf = FALSE]

IsFull(x) == Len(x.keys) = Order - 1
HasKey(x, k) == \E i \in DOMAIN x.keys : x.keys[i] = k
cut(length) == IF length % 2 = 0 THEN length \div 2 ELSE length \div 2 + 1
InsertPos(keys, k) == Cardinality({i \in DOMAIN keys : keys[i] < k}) + 1
\* The child of an inner node that a key belongs to.
ChildFor(x, k) == x.kids[Cardinality({i \in DOMAIN x.keys : x.keys[i] <= k}) + 1]

\* F applied n times.
Repeat(F(_), x, n) ==
    LET step[i \in 0..n] == IF i = 0 THEN x ELSE LET y == step[i - 1] IN F(y)
    IN step[n]

LoadInit ==
    /\ plan \in Plan
    /\ tree = <<make_lf>> /\ top = 1
    /\ loaded = 0 /\ latched = {}

-----------------------------------------------------------------------------
(* The way down.                                                           *)

\* The nodes above n along the parent pointers, up to last_ex.
Ancestors(n, last_ex) ==
    LET up(path) == IF Last(path) \in {0, last_ex} THEN path ELSE Append(path, tree[Last(path)].parent)
    IN IF last_ex = 0 THEN {} ELSE ToSet(Tail(Repeat(up, <<n>>, Len(tree))))

\* One level of find_leaf: w.c is left for the child that k belongs to.
OneDown(w, k) ==
    LET child == ChildFor(tree[w.c], k) IN
    IF tree[w.c].leaf THEN w
    ELSE IF IsFull(tree[child])
    THEN [c |-> child, last_ex |-> IF w.last_ex = 0 THEN w.c ELSE w.last_ex, held |-> w.held \cup {child}]
    ELSE [c |-> child, last_ex |-> 0,
          held |-> (w.held \cup {child}) \ ({w.c} \cup Ancestors(w.c, w.last_ex))]
find_leaf(k) == Repeat(LAMBDA w : OneDown(w, k), [c |-> top, last_ex |-> 0, held |-> {top}], Len(tree))

\* The latches that index_insert releases at its end.
ExList(w) == {w.c} \cup Ancestors(w.c, w.last_ex)

-----------------------------------------------------------------------------
(* The insertion.  A split is carried up by s: the tree so far, its root,  *)
(* and the node s.right that s.left's parent is still to be told of, 0     *)
(* once there is none.                                                     *)

\* insert_into_leaf: an item for a key that is there heads its list.
insert_into_leaf(x, k, item) ==
    IF HasKey(x, k)
    THEN LET i == CHOOSE j \in DOMAIN x.keys : x.keys[j] = k
         IN [x EXCEPT !.items[i] = <<item>> \o @]
    ELSE LET i == InsertPos(x.keys, k)
         IN [x EXCEPT !.keys = InsertAt(@, i, k), !.items = InsertAt(@, i, <<item>>)]

\* split_lf_insert: the upper part of the leaf moves to a new one.
split_lf_insert(n, k, item) ==
    LET x == insert_into_leaf(tree[n], k, item)
        new == Len(tree) + 1
        split == cut(Order - 1)
        left == [x EXCEPT !.keys = SubSeq(@, 1, split), !.items = SubSeq(@, 1, split), !.next = new]
        right == [x EXCEPT !.keys = SubSeq(@, split + 1, Order), !.items = SubSeq(@, split + 1, Order)]
    IN [tree |-> Append([tree EXCEPT ![n] = left], right), top |-> top,
        left |-> n, sep |-> right.keys[1], right |-> new]

insert_into_new_root(s) ==
    LET new == Len(s.tree) + 1
        r == [make_nl EXCEPT !.keys = <<s.sep>>, !.kids = <<s.left, s.right>>]
    IN [s EXCEPT !.tree = Append([@ EXCEPT ![s.left].parent = new, ![s.left].next = s.right,
                                           ![s.right].parent = new], r),
                 !.top = new, !.right = 0]

\* Mutant of Reparented: the children that moved keep their old parent.
ReparentedNone(tr, kids, new) == tr

\* The children that moved to the new inner node are told so.
Reparented(tr, kids, new) ==
    [n \in DOMAIN tr |-> IF n \in ToSet(kids) THEN [tr[n] EXCEPT !.parent = new] ELSE tr[n]]

\* split_nl_insert: the key in the middle goes up.
split_nl_insert(s, p, keys, kids) ==
    LET x == s.tree[p]
        new == Len(s.tree) + 1
        split == cut(Order)
        left == [x EXCEPT !.keys = SubSeq(keys, 1, split - 1), !.kids = SubSeq(kids, 1, split), !.next = new]
        right == [x EXCEPT !.keys = SubSeq(keys, split + 1, Order), !.kids = SubSeq(kids, split + 1, Order + 1)]
    IN [s EXCEPT !.tree = Reparented(Append([@ EXCEPT ![p] = left], right), right.kids, new),
                 !.left = p, !.sep = keys[split], !.right = new]

insert_into_parent(s) ==
    LET p == s.tree[s.left].parent
        i == InsertPos(s.tree[p].keys, s.sep)
        keys == InsertAt(s.tree[p].keys, i, s.sep)
        kids == InsertAt(s.tree[p].kids, i + 1, s.right)
    IN IF s.right = 0 THEN s
       ELSE IF p = 0 THEN insert_into_new_root(s)
       ELSE IF IsFull(s.tree[p]) THEN split_nl_insert(s, p, keys, kids)
       ELSE [s EXCEPT !.tree[p].keys = keys, !.tree[p].kids = kids, !.right = 0]

\* index_insert for the next row of the plan; every latch on the way down must
\* be free, because the loader asserts that its insertion succeeds.
index_insert(k, item) ==
    LET w == find_leaf(k)
        s == Repeat(insert_into_parent, split_lf_insert(w.c, k, item), Len(tree))
    IN
    /\ latched \cap (w.held \cup {top}) = {}
    /\ IF ~IsFull(tree[w.c]) \/ HasKey(tree[w.c], k)
       THEN tree' = [tree EXCEPT ![w.c] = insert_into_leaf(@, k, item)] /\ UNCHANGED top
       ELSE tree' = s.tree /\ top' = s.top
    /\ latched' = latched \cup (w.held \ ExList(w))

\* init_table: the rows in the order of the plan.
LoadRow ==
    /\ loaded < Len(plan.load)
    /\ loaded' = loaded + 1
    /\ index_insert(plan.load[loaded + 1], loaded + 1)
    /\ UNCHANGED plan

-----------------------------------------------------------------------------
(* What the loaded index answers.                                          *)

\* index_read: the list of the items of a key, the newest first.
index_read(k) ==
    LET x == tree[find_leaf(k).c] IN
    IF HasKey(x, k) THEN x.items[CHOOSE i \in DOMAIN x.keys : x.keys[i] = k] ELSE <<>>

\* index_next from the first key on: the leaves in the order of their chain.
Scan ==
    LET on(path) == IF tree[Last(path)].next = 0 THEN path ELSE Append(path, tree[Last(path)].next)
        leaves == Repeat(on, <<find_leaf(0).c>>, Len(tree))
    IN FlattenSeq([i \in DOMAIN leaves |-> tree[leaves[i]].keys])

Inserted(k) == SelectSeq([i \in 1..loaded |-> i], LAMBDA i : plan.load[i] = k)

\* After every insertion, whatever the order of the keys and the splits it
\* caused: no latch is left behind, which the next insertion would trip over;
\* every key answers with all its rows, the newest first; and the scan meets
\* every key once, in order.
LoadedRight ==
    /\ latched = {}
    /\ \A k \in ToSet(plan.load) : index_read(k) = Reverse(Inserted(k))
    /\ ToSet(Scan) = {plan.load[i] : i \in 1..loaded}
    /\ \A i \in 1..Len(Scan) - 1 : Scan[i] < Scan[i + 1]

=============================================================================
