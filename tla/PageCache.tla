------------------------------ MODULE PageCache ------------------------------
(***************************************************************************)
(* The verified page cache (lru_cache, LAZY_OFFLOADING = 1) under an index *)
(* of the enclave: pages are loaded, pinned once per access, released when *)
(* the transaction ends, and evicted and written back outside when another *)
(* page needs the room.  Index = "hash" is load_bucket / release_up_cache  *)
(* of IndexEnc, Index = "btree" load_child / release_up_cache of           *)
(* IndexBTEnc under PAGE_VERI, where an access pins the path to the leaf.  *)
(*                                                                         *)
(* A page's content is the number of the last write in it.  A transaction  *)
(* is the sequence of cache operations its accesses and its cleanup make.  *)
(* The page of an entry is freed after its eviction; a thread that still   *)
(* holds a pointer to it goes on with memory nobody has reused.            *)
(***************************************************************************)
EXTENDS Integers, Sequences, FiniteSets, TLC, SequencesExt

CONSTANTS
    Worker, Page,
    Index,        \* "hash" or "btree"
    Up,           \* the parent of a page; Nil: the root, which is not cached, or a hash bucket
    Limit,        \* _limit, in pages: every page has the same size
    Txns,         \* the transactions: sequences of [page, write]
    MaxTxn,       \* bound: transactions of a worker
    Nil

VARIABLES
    slot,       \* _cache: the entry of a page, or Nil
    entry,      \* the cache_nodes ever made, with the page each points to
    freePool,   \* free_pool
    bytes,      \* _cached_bytes
    clock,      \* _timestamp
    outside,    \* the content of the pages outside the enclave
    olatch,     \* the worker that has latched the page outside
    tail,       \* the newest hash the enclave has of a page; Nil: none
    pc, done, txn,
    prog,       \* the cache operations the worker still has to do
    at,         \* for each worker: the entry it works with, the count it read of it,
                \* its own copy of the page, and the entry swapped out
    pins,       \* the entries its accesses got, in order
    writes      \* how many transactions have written (it numbers the contents)

cacheVars == <<slot, entry, freePool, bytes, clock>>
vars == <<cacheVars, outside, olatch, tail, pc, done, txn, prog, at, pins, writes>>

UInt == 2^6      \* stands for 2^64
NoWork == [cur |-> Nil, cnt |-> 0, own |-> Nil, swapped |-> Nil]

\* The pages of the path from the root's child down to p.
Path[p \in Page] == IF Up[p] = Nil THEN <<p>> ELSE Append(Path[Up[p]], p)

Op(kind, p, row) == [kind |-> kind, page |-> p, row |-> row]
LoadOps(p) == [i \in DOMAIN Path[p] |-> Op("load", Path[p][i], i = Len(Path[p]))]

\* IndexEnc::release_up_cache.
HashRelease(p) == <<Op("release", p, FALSE)>>

\* IndexBTEnc::release_up_cache: first is false before it is tested, so the
\* leaf, too, is released twice; load_child(c, -1) pins the parent once more.
TreeRelease[p \in Page] ==
    <<Op("release", p, FALSE), Op("release", p, FALSE)>>
        \o (IF Up[p] = Nil THEN <<>> ELSE <<Op("up", Up[p], FALSE)>> \o TreeRelease[Up[p]])
release_up_cache(p) == IF Index = "hash" THEN HashRelease(p) ELSE TreeRelease[p]

\* A transaction's accesses, then cleanup, whose first part releases the pages
\* of the n accesses it recorded and whose second part writes the rows back.
\* The access at which get_row aborts has loaded its page and is not recorded:
\* that page stays pinned.  (HSTORE records no access at all and releases
\* nothing; it is not among the transactions here.)
Program(T, n) ==
    FlattenSeq([i \in 1 .. Min({n + 1, Len(T)}) |-> LoadOps(T[i].page)])
        \o FlattenSeq([i \in 1 .. n |-> release_up_cache(T[i].page)])

-----------------------------------------------------------------------------
Init ==
    /\ slot = [p \in Page |-> Nil] /\ entry = <<>> /\ freePool = <<>> /\ bytes = 0 /\ clock = 0
    /\ outside = [p \in Page |-> 0] /\ olatch = [p \in Page |-> Nil] /\ tail = [p \in Page |-> Nil]
    /\ pc = [w \in Worker |-> "idle"] /\ done = [w \in Worker |-> 0]
    /\ txn = [w \in Worker |-> <<>>] /\ prog = [w \in Worker |-> <<>>]
    /\ at = [w \in Worker |-> NoWork] /\ pins = [w \in Worker |-> <<>>]
    /\ writes = 0

Goto(w, l) == pc' = [pc EXCEPT ![w] = l]
Work(w, f, x) == at' = [at EXCEPT ![w][f] = x]
Wanted(w) == Head(prog[w]).page
IsNext(w, kinds) == pc[w] = "run" /\ prog[w] # <<>> /\ Head(prog[w]).kind \in kinds

\* A transaction that will record n of its accesses.  It commits only if these
\* are all; with all of them it may still abort, in validation.
Begin(w) ==
    /\ pc[w] = "idle" /\ done[w] < MaxTxn /\ Goto(w, "run")
    /\ \E T \in Txns : \E n \in 0 .. Len(T), rc \in {"RCOK", "Abort"} :
          /\ rc = "RCOK" => n = Len(T)
          /\ txn' = [txn EXCEPT ![w] = IF rc = "RCOK" THEN T ELSE <<>>]
          /\ prog' = [prog EXCEPT ![w] = Program(T, n)]
    /\ UNCHANGED <<cacheVars, outside, olatch, tail, done, at, pins, writes>>

\* The operation is over; an access keeps the entry that its row is in.
Finish(w, e) ==
    /\ Goto(w, "run") /\ at' = [at EXCEPT ![w] = NoWork]
    /\ prog' = [prog EXCEPT ![w] = Tail(@)]
    /\ pins' = [pins EXCEPT ![w] = IF Head(prog[w]).row THEN Append(@, e) ELSE @]

-----------------------------------------------------------------------------
(* Loading a page.                                                         *)

\* try_load, without the latch: the slot and the count of its entry are read, ...
TryLoad(w) ==
    LET e == slot[Wanted(w)] IN
    /\ IsNext(w, {"load", "up"})
    /\ \/ /\ e # Nil /\ Goto(w, "hit") /\ UNCHANGED <<prog, pins>>
          /\ at' = [at EXCEPT ![w].cur = e, ![w].cnt = entry[e].cnt]
       \/ e = Nil /\ Head(prog[w]).kind = "load" /\ Goto(w, "miss") /\ UNCHANGED <<at, prog, pins>>
       \* A parent that is not cached ends release_up_cache for this row.
       \/ /\ e = Nil /\ Head(prog[w]).kind = "up"
          /\ prog' = [prog EXCEPT ![w] = SubSeq(@, 2 + Len(TreeRelease[Wanted(w)]), Len(@))]
          /\ UNCHANGED <<pc, at, pins>>
    /\ UNCHANGED <<cacheVars, outside, olatch, tail, done, txn, writes>>

\* ... and then the entry is pinned and stamped.  The increment of _read_cnt
\* is not atomic: a release in between is lost.
Hit(w) ==
    /\ pc[w] = "hit"
    /\ entry' = [entry EXCEPT ![at[w].cur].cnt = (at[w].cnt + 1) % UInt, ![at[w].cur].ts = clock + 1]
    /\ clock' = clock + 1
    /\ Finish(w, at[w].cur)
    /\ UNCHANGED <<slot, freePool, bytes, outside, olatch, tail, done, txn, writes>>

\* load_bucket / make_node: a copy of the page outside, under its latch, which
\* is held until load_and_swap has succeeded.
CopyIn(w) ==
    /\ pc[w] = "miss" /\ olatch[Wanted(w)] = Nil
    /\ olatch' = [olatch EXCEPT ![Wanted(w)] = w]
    /\ entry' = Append(entry, [page |-> Wanted(w), val |-> outside[Wanted(w)], ts |-> 0, cnt |-> 1])
    /\ Work(w, "own", Len(entry) + 1) /\ Goto(w, "swap")
    /\ UNCHANGED <<slot, freePool, bytes, clock, outside, tail, done, txn, prog, pins, writes>>

\* cache_free: the first entry of free_pool whose page has not been touched
\* since; the ones before it are dropped.
Evictable(i) == LET e == slot[freePool[i].page] IN e # Nil /\ entry[e].ts = freePool[i].ts
Victims == {i \in DOMAIN freePool : Evictable(i)}
FirstVictim == CHOOSE i \in Victims : \A j \in Victims : i <= j

\* A page that is there already is pinned once more.
Touched(x) == [x EXCEPT !.cnt = (@ + 1) % UInt, !.ts = clock + 1]

\* load_and_swap, under the cache's latch.
LoadAndSwap(w) ==
    LET p == Wanted(w)
        own == at[w].own
        Stamp(e) == entry' = [entry EXCEPT ![e].ts = clock + 1]
        In(e, sw) == /\ Goto(w, IF sw = Nil THEN "verify" ELSE "flush")
                     /\ at' = [at EXCEPT ![w].cur = e, ![w].swapped = sw]
                     /\ olatch' = [olatch EXCEPT ![p] = Nil] /\ clock' = clock + 1
    IN
    /\ pc[w] = "swap"
    /\ \/ /\ slot[p] # Nil        \* loaded by others
          /\ entry' = [entry EXCEPT ![slot[p]] = Touched(@)] /\ In(slot[p], Nil)
          /\ UNCHANGED <<slot, freePool, bytes>>
       \/ /\ slot[p] = Nil /\ bytes + 1 <= Limit
          /\ bytes' = bytes + 1 /\ slot' = [slot EXCEPT ![p] = own]
          /\ Stamp(own) /\ In(own, Nil) /\ UNCHANGED freePool
       \/ /\ slot[p] = Nil /\ bytes + 1 > Limit /\ Victims # {}
          /\ LET it == freePool[FirstVictim] IN
             /\ slot' = [slot EXCEPT ![it.page] = Nil, ![p] = own]
             /\ In(own, slot[it.page])
          /\ bytes' = bytes - 1       \* the new page is not added
          /\ freePool' = SubSeq(freePool, FirstVictim + 1, Len(freePool)) /\ Stamp(own)
       \* Abort: the loop in load_bucket tries again, for ever if the pins that
       \* are left belong to nobody.
       \/ /\ slot[p] = Nil /\ bytes + 1 > Limit /\ Victims = {}
          /\ freePool' = <<>> /\ UNCHANGED <<slot, entry, bytes, clock, at, olatch, pc>>
    /\ UNCHANGED <<outside, tail, done, txn, prog, pins, writes>>

\* The page swapped out: the enclave keeps its hash (of a B-tree's leaves, and
\* only the number of keys, which does not change here), ...
Hash(v) == IF Index = "hash" THEN v ELSE 0
IsLeaf(p) == \A q \in Page : Up[q] # p
Flush(w) ==
    LET x == entry[at[w].swapped] IN
    /\ pc[w] = "flush" /\ Goto(w, IF IsLeaf(x.page) THEN "flush_out" ELSE "verify")
    /\ tail' = IF IsLeaf(x.page) THEN [tail EXCEPT ![x.page] = Hash(x.val)] ELSE tail
    /\ UNCHANGED <<cacheVars, outside, olatch, done, txn, prog, at, pins, writes>>

\* ... and flush_out copies it outside.  Inner nodes are just deleted.
flush_out(x) == [outside EXCEPT ![x.page] = x.val]
FlushOut(w) ==
    LET x == entry[at[w].swapped] IN
    /\ pc[w] = "flush_out" /\ olatch[x.page] = Nil
    /\ outside' = flush_out(x)
    /\ Goto(w, "verify")
    /\ UNCHANGED <<cacheVars, olatch, tail, done, txn, prog, at, pins, writes>>

\* The content of the page, if it is this worker's copy, must match the hash.
Verify(w) ==
    LET own == at[w].own
        p == Wanted(w)
    IN
    /\ pc[w] = "verify"
    /\ IF at[w].cur # own \/ ~IsLeaf(p) \/ tail[p] \in {Nil, Hash(entry[own].val)}
       THEN /\ Finish(w, at[w].cur)
            /\ tail' = IF at[w].cur = own /\ IsLeaf(p)
                       THEN [tail EXCEPT ![p] = Hash(entry[own].val)] ELSE tail
       ELSE Goto(w, "refused") /\ UNCHANGED <<tail, at, prog, pins>>
    /\ UNCHANGED <<cacheVars, outside, olatch, done, txn, writes>>

-----------------------------------------------------------------------------
(* cleanup.                                                                *)

\* Without users a page is one to evict, as long as its timestamp stays.
Listed(p, ts, cnt) == IF cnt = 0 THEN Append(freePool, [page |-> p, ts |-> ts]) ELSE freePool

\* release: _read_cnt - 1 wraps at 0, and the maximum with 0 changes nothing.
Release(w) ==
    LET p == Wanted(w)
        e == slot[p]
        cnt == (entry[e].cnt - 1) % UInt
    IN
    /\ IsNext(w, {"release"})
    /\ \/ e = Nil /\ UNCHANGED <<entry, freePool>>
       \/ /\ e # Nil
          /\ entry' = [entry EXCEPT ![e].cnt = cnt]
          /\ freePool' = Listed(p, entry[e].ts, cnt)
    /\ prog' = [prog EXCEPT ![w] = Tail(@)]
    /\ UNCHANGED <<slot, bytes, clock, outside, olatch, tail, pc, done, txn, at, pins, writes>>

\* return_row, after the pages have been released: each row is written where
\* the access found it.
WriteBack(w) ==
    LET T == txn[w]
        wr == {i \in DOMAIN T : T[i].write}
    IN
    /\ pc[w] = "run" /\ prog[w] = <<>> /\ Goto(w, "idle")
    /\ done' = [done EXCEPT ![w] = @ + 1]
    /\ writes' = IF wr = {} THEN writes ELSE writes + 1
    /\ entry' = [e \in DOMAIN entry |->
                    IF \E i \in wr : pins[w][i] = e THEN [entry[e] EXCEPT !.val = writes + 1] ELSE entry[e]]
    /\ pins' = [pins EXCEPT ![w] = <<>>] /\ txn' = [txn EXCEPT ![w] = <<>>]
    /\ UNCHANGED <<slot, freePool, bytes, clock, outside, olatch, tail, prog, at>>

-----------------------------------------------------------------------------
Terminating == (\A w \in Worker : pc[w] = "idle" /\ done[w] = MaxTxn) /\ UNCHANGED vars

Step(w) ==
    \/ Begin(w) \/ TryLoad(w) \/ Hit(w) \/ CopyIn(w) \/ LoadAndSwap(w) \/ Flush(w) \/ FlushOut(w)
    \/ Verify(w) \/ Release(w) \/ WriteBack(w)
Next == (\E w \in Worker : Step(w)) \/ Terminating
Spec == Init /\ [][Next]_vars

-----------------------------------------------------------------------------
(* Properties.                                                             *)

\* A page taken outside by an eviction is loaded again as it was: the assertion
\* of load_bucket, which compares a loaded bucket with the hash the enclave
\* kept of it, never fails.
LoadsVerified == \A w \in Worker : pc[w] # "refused"

\* No page is released more often than it was pinned: release asserts that its
\* count is not below 0 (a count in the upper half has wrapped).
CountNotNegative == \A p \in Page : slot[p] # Nil => entry[slot[p]].cnt < UInt \div 2

=============================================================================
