------------------------------- MODULE BTree -------------------------------
(***************************************************************************)
(* The B-tree index inside the enclave (FULL_TPCC = true, PAGE_VERI,       *)
(* PRE_LOAD = 1): index_insert with its latch coupling, the splits up to a *)
(* new root, and index_read, which descends without a latch.               *)
(*                                                                         *)
(* A node is an object; the page cache maps a node's number to its object. *)
(* At start-up the loader fills the tree outside (module LoadTree), and    *)
(* the enclave copies it: all nodes but the root are then in the cache,    *)
(* which is large enough to evict nothing (module PageCache has the        *)
(* eviction).  The steps of the two classes that do the same to a node,    *)
(* such as insert_into_leaf and cut, are defined once, in LoadTree.        *)
(***************************************************************************)
EXTENDS LoadTree

CONSTANTS
    Thread,
    Nil           \* the null pointer

\* A member of Plan says what every thread asks for: a sequence of sets of
\* requests [op, key], one member of each.
ASSUME BTreeAssumption ==
    /\ Nil \notin Nat
    /\ \A p \in Plan : DOMAIN p.job = Thread

VARIABLES
    node,     \* the objects, numbered in the order of their creation
    cache,    \* the page cache: node number -> object
    root,     \* roots[part_id]
    nextId,   \* btree_node_id
    pc, done,
    req,      \* the request a thread serves
    loc,      \* its local variables
    acked     \* inserts that returned RCOK (history variable)

vars == <<node, cache, root, nextId, pc, done, req, loc, acked, loadVars>>

Fresh == [c |-> Nil, child |-> Nil, last_ex |-> Nil, ex_list |-> <<>>,
          left |-> Nil, right |-> Nil, sep |-> 0]

-----------------------------------------------------------------------------
(* Nodes.                                                                  *)

\* make_node(bt_node): the enclave's copy of a node outside, item lists included.
Copied(n, id) ==
    [id |-> id, leaf |-> tree[n].leaf, keys |-> tree[n].keys, kids |-> tree[n].kids,
     items |-> [i \in DOMAIN tree[n].items |-> [j \in DOMAIN tree[n].items[i] |-> <<Nil, tree[n].items[i][j]>>]],
     parent |-> tree[n].parent, next |-> tree[n].next,
     latch |-> "NONE", share |-> 0, origin |-> n]

\* make_node(part_id, node, is_leaf): an empty node, cached at once.
Made(id, leaf, keys, kids, items, next, parent) ==
    [id |-> id, leaf |-> leaf, keys |-> keys, kids |-> kids, items |-> items,
     parent |-> parent, next |-> next, latch |-> "NONE", share |-> 0, origin |-> node[root].origin]

Full(n) == IsFull(node[n])

\* The first key greater than k decides the child; c is not the last level.
ChildPos(n, k) == Cardinality({i \in DOMAIN node[n].keys : node[n].keys[i] <= k}) + 1

\* leaf_has_key; 0 stands for -1.
leaf_has_key(n, k) ==
    IF \E i \in DOMAIN node[n].keys : node[n].keys[i] = k
    THEN CHOOSE i \in DOMAIN node[n].keys : node[n].keys[i] = k
    ELSE 0

\* load_child(n, -1).  A parent that is neither the root nor cached cannot be
\* found: the code follows a null origin_node.
Lost == -1
ParentOf(nd, n) ==
    IF nd[n].parent = nd[root].id THEN root
    ELSE IF nd[n].parent = 0 THEN Nil
    ELSE IF nd[n].parent \in DOMAIN cache THEN cache[nd[n].parent] ELSE Lost

-----------------------------------------------------------------------------
(* Latches.                                                                *)

CanLatch(n, type) ==
    node[n].latch = "NONE" \/ (node[n].latch = "SH" /\ type = "SH")
Latched(x, type) == [x EXCEPT !.latch = type, !.share = IF type = "SH" THEN @ + 1 ELSE @]
\* release_latch does not ask who holds the latch.
Released(x) ==
    CASE x.latch = "NONE" -> x
      [] x.latch = "EX" -> [x EXCEPT !.latch = "NONE"]
      [] x.latch = "SH" -> [x EXCEPT !.share = @ - 1, !.latch = IF x.share = 1 THEN "NONE" ELSE "SH"]
\* Mutant of CanUpgrade: the other readers are not counted.
CanUpgradeAlways(n) == TRUE
CanUpgrade(n) == node[n].share <= 1
Upgraded(x) == [x EXCEPT !.latch = "EX", !.share = 0]

\* The nodes from n (excluded) up to last_ex, along the parent pointers.
PathUp(n, last_ex) ==
    LET up[k \in 0..Cardinality(DOMAIN node)] ==
          IF k = 0 THEN <<n>>
          ELSE LET path == up[k - 1]
               IN IF Last(path) \in {last_ex, Nil, Lost} THEN path
                  ELSE Append(path, ParentOf(node, Last(path)))
    IN Tail(up[Cardinality(DOMAIN node)])
Above(n, last_ex) == IF last_ex = Nil THEN <<>> ELSE PathUp(n, last_ex)

ReleaseAll(nd, S) == [n \in DOMAIN nd |-> IF n \in S THEN Released(nd[n]) ELSE nd[n]]

\* Mutant of cleanup: the latches above are kept.
cleanupNothing(n, last_ex) == {}

\* cleanup(n, last_ex): the nodes it releases.
cleanup(n, last_ex) == ToSet(Above(n, last_ex))

-----------------------------------------------------------------------------
Init ==
    /\ LoadInit
    /\ node = <<>> /\ cache = <<>> /\ root = Nil /\ nextId = 0
    /\ pc = [t \in Thread |-> "off"] /\ done = [t \in Thread |-> 0]
    /\ req = [t \in Thread |-> [op |-> "none", key |-> 0]]
    /\ loc = [t \in Thread |-> Fresh]
    /\ acked = {}

\* init_table, and then load_all, before any transaction runs.
Load == LoadRow /\ UNCHANGED <<node, cache, root, nextId, pc, done, req, loc, acked>>
LoadAll ==
    /\ root = Nil /\ loaded = Len(plan.load)
    /\ node' = [n \in DOMAIN tree |-> Copied(n, n)]
    /\ cache' = [n \in DOMAIN tree \ {top} |-> n]
    /\ root' = top /\ nextId' = Len(tree) + 1
    /\ pc' = [t \in Thread |-> "idle"]
    /\ UNCHANGED <<done, req, loc, acked, loadVars>>

Job(t) == plan.job[t]
Goto(t, l) == pc' = [pc EXCEPT ![t] = l]
Key(t) == req[t].key
Item(t) == <<t, done[t]>>
NewObj == Cardinality(DOMAIN node) + 1

\* find_root reads the root pointer; the latch comes later.
Start(t) ==
    /\ pc[t] = "idle" /\ done[t] < Len(Job(t))
    /\ done' = [done EXCEPT ![t] = @ + 1]
    /\ \E r \in Job(t)[done[t] + 1] :
          req' = [req EXCEPT ![t] = r] /\ Goto(t, IF r.op = "insert" THEN "root" ELSE "read")
    /\ loc' = [loc EXCEPT ![t] = [Fresh EXCEPT !.c = root]]
    /\ UNCHANGED <<node, cache, root, nextId, acked, loadVars>>

\* insert_row ignores the result of index_insert, so an Abort is final.
Leave(t, nd) ==
    /\ node' = nd /\ Goto(t, "idle") /\ loc' = [loc EXCEPT ![t] = Fresh]
    /\ UNCHANGED <<cache, root, nextId, done, req, acked, loadVars>>
Crash(t) == Goto(t, "crashed") /\ UNCHANGED <<node, cache, root, nextId, done, req, loc, acked, loadVars>>

LatchRoot(t) ==
    LET c == loc[t].c IN
    /\ pc[t] = "root"
    /\ IF CanLatch(c, "SH")
       THEN /\ node' = [node EXCEPT ![c] = Latched(@, "SH")]
            /\ Goto(t, IF node[c].leaf THEN "leaf" ELSE "child")
            /\ UNCHANGED <<cache, root, nextId, done, req, loc, acked, loadVars>>
       ELSE Leave(t, node)

\* load_child(c, i) from the cache, or else a copy of child i of the node
\* outside that c came from, which gets the number asked for.
Outside(c, i) == tree[node[c].origin].kids[i]
HasOutside(c, i) == i \in DOMAIN tree[node[c].origin].kids
LoadChild(t, c, i, set, next) ==
    LET id == node[c].kids[i] IN
    \/ /\ id \in DOMAIN cache
       /\ node' = IF set THEN [node EXCEPT ![cache[id]].parent = node[c].id] ELSE node
       /\ loc' = [loc EXCEPT ![t].child = cache[id]]
       /\ Goto(t, next)
       /\ UNCHANGED <<cache, root, nextId, done, req, acked, loadVars>>
    \/ /\ id \notin DOMAIN cache /\ HasOutside(c, i)
       /\ LET new == Copied(Outside(c, i), id) IN
          node' = (NewObj :> (IF set THEN [new EXCEPT !.parent = node[c].id] ELSE new)) @@ node
       /\ cache' = (id :> NewObj) @@ cache
       /\ loc' = [loc EXCEPT ![t].child = NewObj]
       /\ Goto(t, next)
       /\ UNCHANGED <<root, nextId, done, req, acked, loadVars>>
    \/ id \notin DOMAIN cache /\ ~HasOutside(c, i) /\ Crash(t)

\* One level of find_leaf(INDEX_INSERT): the child is found and told its
\* parent, ...
Descend(t) == pc[t] = "child" /\ LoadChild(t, loc[t].c, ChildPos(loc[t].c, Key(t)), TRUE, "latch")

\* ... latched, ...
LatchChild(t) ==
    LET l == loc[t] IN
    /\ pc[t] = "latch"
    /\ IF CanLatch(l.child, "SH")
       THEN /\ node' = [node EXCEPT ![l.child] = Latched(@, "SH")]
            /\ Goto(t, "check")
            /\ UNCHANGED <<cache, root, nextId, done, req, loc, acked, loadVars>>
       ELSE Leave(t, ReleaseAll(node, {l.c} \cup cleanup(l.c, l.last_ex)))

\* ... and, unless it is full, everything above it is released.
CheckChild(t) ==
    LET l == loc[t] IN
    /\ pc[t] = "check"
    /\ IF Full(l.child) /\ ~CanUpgrade(l.c)
       THEN Leave(t, ReleaseAll(node, {l.c, l.child} \cup cleanup(l.c, l.last_ex)))
       ELSE /\ IF Full(l.child)
               THEN /\ node' = [node EXCEPT ![l.c] = Upgraded(@)]
                    /\ loc' = [loc EXCEPT ![t].c = l.child, ![t].child = Nil,
                                 ![t].last_ex = IF @ = Nil THEN l.c ELSE @]
               ELSE /\ node' = ReleaseAll(node, {l.c} \cup cleanup(l.c, l.last_ex))
                    /\ loc' = [loc EXCEPT ![t].c = l.child, ![t].child = Nil, ![t].last_ex = Nil]
            /\ Goto(t, IF node[l.child].leaf THEN "leaf" ELSE "child")
            /\ UNCHANGED <<cache, root, nextId, done, req, acked, loadVars>>

\* The leaf itself is latched exclusively; ex_list is what index_insert will
\* release.
LatchLeaf(t) ==
    LET l == loc[t] IN
    /\ pc[t] = "leaf"
    /\ IF CanUpgrade(l.c)
       THEN /\ node' = [node EXCEPT ![l.c] = Upgraded(@)]
            /\ loc' = [loc EXCEPT ![t].ex_list = <<l.c>> \o Above(l.c, l.last_ex)]
            /\ Goto(t, IF Lost \in ToSet(Above(l.c, l.last_ex)) THEN "crashed" ELSE "modify")
            /\ UNCHANGED <<cache, root, nextId, done, req, acked, loadVars>>
       ELSE Leave(t, ReleaseAll(node, {l.c} \cup cleanup(l.c, l.last_ex)))

-----------------------------------------------------------------------------
(* The insertion.                                                          *)

\* insert_into_leaf, where the leaf has room or the key.
InsertLeaf(t) ==
    LET n == loc[t].c IN
    /\ pc[t] = "modify"
    /\ ~Full(n) \/ leaf_has_key(n, Key(t)) > 0
    /\ node' = [node EXCEPT ![n] = insert_into_leaf(@, Key(t), Item(t))]
    /\ Goto(t, "release")
    /\ UNCHANGED <<cache, root, nextId, done, req, loc, acked, loadVars>>

\* Mutant of split_lf: the new leaf is not linked.
split_lf_unlinked(x, k, item, new) ==
    LET keys == InsertAt(x.keys, InsertPos(x.keys, k), k)
        items == InsertAt(x.items, InsertPos(x.keys, k), <<item>>)
        split == cut(Order - 1)
    IN [left |-> [x EXCEPT !.keys = SubSeq(keys, 1, split), !.items = SubSeq(items, 1, split)],
        right |-> Made(new, TRUE, SubSeq(keys, split + 1, Order), <<>>,
                       SubSeq(items, split + 1, Order), x.next, x.parent)]

\* split_lf_insert: the upper part moves to a new leaf on the right.
split_lf(x, k, item, new) ==
    LET keys == InsertAt(x.keys, InsertPos(x.keys, k), k)
        items == InsertAt(x.items, InsertPos(x.keys, k), <<item>>)
        split == cut(Order - 1)
    IN [left |-> [x EXCEPT !.keys = SubSeq(keys, 1, split), !.items = SubSeq(items, 1, split),
                           !.next = new],
        right |-> Made(new, TRUE, SubSeq(keys, split + 1, Order), <<>>,
                       SubSeq(items, split + 1, Order), x.next, x.parent)]

\* The new node joins the cache, and its first key goes to the parent.
Split(t, n, s, sep, moved) ==
    /\ node' = (n :> s.left) @@ (NewObj :> s.right) @@ moved
    /\ cache' = (nextId :> NewObj) @@ cache
    /\ nextId' = nextId + 1
    /\ loc' = [loc EXCEPT ![t].left = n, ![t].right = NewObj, ![t].sep = sep]
    /\ Goto(t, "parent")
    /\ UNCHANGED <<root, done, req, acked, loadVars>>

SplitLeaf(t) ==
    LET n == loc[t].c
        s == split_lf(node[n], Key(t), Item(t), nextId)
    IN
    /\ pc[t] = "modify" /\ Full(n) /\ leaf_has_key(n, Key(t)) = 0
    /\ Split(t, n, s, s.right.keys[1], node)

\* insert_into_parent: where the parent has room, ...
Parent(t) == ParentOf(node, loc[t].left)
InsertIntoParent(t) ==
    LET p == Parent(t)
        i == InsertPos(node[p].keys, loc[t].sep)
    IN
    /\ pc[t] = "parent" /\ p \notin {Nil, Lost} /\ ~Full(p)
    /\ node' = [node EXCEPT ![p].keys = InsertAt(@, i, loc[t].sep),
                            ![p].kids = InsertAt(@, i + 1, node[loc[t].right].id)]
    /\ Goto(t, "release")
    /\ UNCHANGED <<cache, root, nextId, done, req, loc, acked, loadVars>>

\* The children that move to a new inner node are told so.
Adopted(nd, kids, id) ==
    [n \in DOMAIN nd |->
        IF \E i \in DOMAIN kids : kids[i] \in DOMAIN cache /\ cache[kids[i]] = n
        THEN [nd[n] EXCEPT !.parent = id] ELSE nd[n]]

\* ... where it is full, split_nl_insert, ...
SplitParent(t) ==
    LET p == Parent(t)
        x == node[p]
        i == InsertPos(x.keys, loc[t].sep)
        keys == InsertAt(x.keys, i, loc[t].sep)
        kids == InsertAt(x.kids, i + 1, node[loc[t].right].id)
        split == cut(Order)
        moved == SubSeq(kids, split + 1, Order + 1)
        s == [left |-> [x EXCEPT !.keys = SubSeq(keys, 1, split - 1), !.kids = SubSeq(kids, 1, split),
                                 !.next = nextId],
              right |-> Made(nextId, FALSE, SubSeq(keys, split + 1, Order), moved, <<>>, x.next, x.parent)]
    IN
    /\ pc[t] = "parent" /\ p \notin {Nil, Lost} /\ Full(p)
    /\ Split(t, p, s, keys[split], Adopted(node, moved, nextId))

\* ... and where there is none, insert_into_new_root.
NewRoot(t) ==
    LET l == loc[t] IN
    /\ pc[t] = "parent" /\ Parent(t) = Nil
    /\ node' = (NewObj :> Made(nextId, FALSE, <<l.sep>>, <<node[l.left].id, node[l.right].id>>, <<>>, 0, 0))
               @@ [node EXCEPT ![l.left].parent = nextId, ![l.left].next = node[l.right].id,
                               ![l.right].parent = nextId]
    /\ cache' = (nextId :> NewObj) @@ cache
    /\ root' = NewObj /\ nextId' = nextId + 1
    /\ Goto(t, "release")
    /\ UNCHANGED <<done, req, loc, acked, loadVars>>
ParentLost(t) == pc[t] = "parent" /\ Parent(t) = Lost /\ Crash(t)

\* The latches go, leaf first; index_insert returns RCOK.
Release(t) ==
    /\ pc[t] = "release" /\ Goto(t, "idle")
    /\ node' = ReleaseAll(node, ToSet(loc[t].ex_list))
    /\ loc' = [loc EXCEPT ![t] = Fresh]
    /\ acked' = acked \cup {<<Key(t), Item(t)>>}
    /\ UNCHANGED <<cache, root, nextId, done, req, loadVars>>

-----------------------------------------------------------------------------
(* index_read: no latch on the way down; a leaf that an insertion is       *)
(* changing may be seen in any state; and at the end release_latch on a    *)
(* leaf that was never latched.                                            *)

ReadDown(t) ==
    LET c == loc[t].c IN
    \/ /\ pc[t] = "read" /\ ~node[c].leaf
       /\ LoadChild(t, c, ChildPos(c, Key(t)), FALSE, "step")
    \/ /\ pc[t] = "step" /\ Goto(t, "read")
       /\ loc' = [loc EXCEPT ![t].c = loc[t].child, ![t].child = Nil]
       /\ UNCHANGED <<node, cache, root, nextId, done, req, acked, loadVars>>
ReadLeaf(t) ==
    LET c == loc[t].c IN
    /\ pc[t] = "read" /\ node[c].leaf
    /\ \/ leaf_has_key(c, Key(t)) > 0 /\ Leave(t, [node EXCEPT ![c] = Released(@)])
       \/ (leaf_has_key(c, Key(t)) = 0 \/ node[c].latch = "EX") /\ Leave(t, node)

-----------------------------------------------------------------------------
Done == \A t \in Thread : pc[t] = "crashed" \/ (pc[t] = "idle" /\ done[t] = Len(Job(t)))
Terminating == Done /\ UNCHANGED vars

Inserting(t) ==
    \/ Start(t) \/ LatchRoot(t) \/ Descend(t) \/ LatchChild(t) \/ CheckChild(t) \/ LatchLeaf(t)
    \/ InsertLeaf(t) \/ SplitLeaf(t) \/ InsertIntoParent(t) \/ SplitParent(t) \/ Release(t)
Growing(t) == NewRoot(t) \/ ParentLost(t)
Reading(t) == ReadDown(t) \/ ReadLeaf(t)

Next == Load \/ LoadAll \/ (\E t \in Thread : Inserting(t) \/ Growing(t) \/ Reading(t)) \/ Terminating
Spec == Init /\ [][Next]_vars

-----------------------------------------------------------------------------
(* Properties.                                                             *)

\* The nodes a thread has latched, with the type of the latch.
HeldBy(t) ==
    LET l == loc[t]
        above == {<<n, "EX">> : n \in ToSet(Above(l.c, l.last_ex))}
    IN CASE pc[t] \in {"child", "latch", "leaf"} -> {<<l.c, "SH">>} \cup above
         [] pc[t] = "check" -> {<<l.c, "SH">>, <<l.child, "SH">>} \cup above
         [] pc[t] \in {"modify", "parent", "release"} -> {<<n, "EX">> : n \in ToSet(l.ex_list)}
         [] OTHER -> {}

\* Every latch belongs to the threads that will release it: an exclusive one
\* to one thread and to no other, a shared one to as many as share_cnt says,
\* and no path of find_leaf, aborts and upgrades included, leaves one behind.
LatchesOwned ==
    \A n \in DOMAIN node :
        LET sh == {t \in Thread : <<n, "SH">> \in HeldBy(t)}
            ex == {t \in Thread : <<n, "EX">> \in HeldBy(t)}
        IN CASE node[n].latch = "NONE" -> sh = {} /\ ex = {} /\ node[n].share = 0
             [] node[n].latch = "SH" -> ex = {} /\ node[n].share = Cardinality(sh) /\ sh # {}
             [] node[n].latch = "EX" -> sh = {} /\ Cardinality(ex) = 1

\* The leaf that the descent from the root reaches for a key.
LeafFor(k) ==
    LET down[d \in 0..Cardinality(DOMAIN node)] ==
          IF d = 0 THEN root
          ELSE LET n == down[d - 1]
               IN IF node[n].leaf THEN n ELSE cache[node[n].kids[ChildPos(n, k)]]
    IN down[Cardinality(DOMAIN node)]
LoadedKeys == ToSet(plan.load)

\* Unless a split is on its way up, the descent finds every loaded key and
\* every item whose insertion has returned RCOK.
InsertedFound ==
    (root # Nil /\ \A t \in Thread : pc[t] # "parent") =>
        /\ \A k \in LoadedKeys : leaf_has_key(LeafFor(k), k) > 0
        /\ \A a \in acked :
              LET n == LeafFor(a[1]) IN
              /\ leaf_has_key(n, a[1]) > 0
              /\ a[2] \in ToSet(node[n].items[leaf_has_key(n, a[1])])

\* The chain of the leaves, which load_next follows, has the keys in order.
LeafKeys ==
    LET chain[d \in 0..Cardinality(DOMAIN node)] ==
          IF d = 0 THEN <<LeafFor(0)>>
          ELSE LET seen == chain[d - 1]
               IN IF node[Last(seen)].next = 0 THEN seen ELSE Append(seen, cache[node[Last(seen)].next])
        leaves == chain[Cardinality(DOMAIN node)]
    IN FlattenSeq([i \in DOMAIN leaves |-> node[leaves[i]].keys])
LeavesLinked ==
    root # Nil =>
        LET keys == LeafKeys IN
        /\ \A i \in 1..Len(keys) - 1 : keys[i] < keys[i + 1]
        /\ LoadedKeys \cup {a[1] : a \in acked} \subseteq ToSet(keys)

=============================================================================
