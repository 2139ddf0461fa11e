-------------------------------- MODULE Tpcc --------------------------------
(***************************************************************************)
(* The TPC-C transactions (FULL_TPCC = true, TPCC_ACCESS_ALL = false) over *)
(* the tables the loader builds, under the NO_WAIT engine: a row is        *)
(* changed in place, and an abort puts the saved copies back.  RowLock     *)
(* shows that finish is atomic for the rows of a transaction, so here it   *)
(* is one step; an index operation is one step too (module BTree).         *)
(*                                                                         *)
(* Rows are named by table and key.  Only the columns that the books are   *)
(* kept in are kept here.  Rows that a transaction inserts go into the     *)
(* B-tree (IDX_BTREE) at once and stay there whatever becomes of it;       *)
(* NEW-ORDER rows go into an index that nobody reads, and are left out.    *)
(***************************************************************************)
EXTENDS Integers, Sequences, FiniteSets, TLC, FiniteSetsExt, SequencesExt

CONSTANTS
    Thread,
    WH,            \* the warehouses, 1..g_num_wh
    DIST_PER_WARE,
    CustPerDist,   \* g_cust_per_dist
    MaxItems,      \* g_max_items
    LastName,      \* the customer's last name, a function of its number
    NameCode,      \* what custNPKey makes of the letters of a name
    Leftovers,     \* what the upper halves of 8-byte columns may hold once a
                   \* 4-byte integer was copied into them (see Wide)
    Undelivered,   \* loaded orders above this number have no carrier (2100)
    Quantity,      \* the quantities the loader may give to a stock row
    Amount,        \* h_amount of a payment
    OlQuantity,    \* ol_quantity of an order line
    MaxLines,      \* bound: order lines the generator draws
    Script         \* for each thread and attempt, the queries it may run

District == 1..DIST_PER_WARE
Customer == 1..CustPerDist
Item == 1..MaxItems

ASSUME TpccAssumption ==
    /\ DIST_PER_WARE \in Nat \ {0} /\ CustPerDist \in Nat \ {0} /\ MaxItems \in Nat \ {0}
    /\ WH \subseteq Nat \ {0}
    /\ Quantity \subseteq 10..100 /\ OlQuantity \subseteq 1..10 /\ Amount \subseteq Nat
    /\ MaxLines \in Nat
    /\ Leftovers \subseteq [next : Nat, ytd : Nat, order_cnt : Nat, ol_o_id : Nat]

VARIABLES
    tab,        \* the rows of the tables, by row name
    leftover,   \* the upper halves the loader left; never changes
    orderIdx, lineIdx,   \* the indexes that grow at run time and are read
    orderVer,   \* insertions into ORDER_IDX, which change page versions
    delivering, \* tpcc_wl::delivering
    pc, tries, query,
    accesses,   \* txn_man::accesses[0 .. row_cnt-1]
    oid,        \* o_id of the new order
    pos,        \* loop variable: the order line, or the district
    hist        \* committed transactions (history variable)

vars == <<tab, leftover, orderIdx, lineIdx, orderVer, delivering, pc, tries,
          query, accesses, oid, pos, hist>>
indexes == <<orderIdx, lineIdx, orderVer>>
locals == <<oid, pos>>

-----------------------------------------------------------------------------
(* Keys (tpcc_helper.h).                                                   *)

distKey(d, w) == w * DIST_PER_WARE + d
custKey(c, d, w) == distKey(d, w) * CustPerDist + c
orderlineKey(w, d, o) == distKey(d, w) * CustPerDist + o
orderPrimaryKey(w, d, o) == orderlineKey(w, d, o)
custNPKey(name, d, w) == NameCode[name] * 8 + distKey(d, w)

\* insert_row and index_read, by way of the B-tree: an index maps a key to the
\* chain of rows with that key, and insertion puts the row at its head.
Chain(idx, k) == IF k \in DOMAIN idx THEN idx[k] ELSE <<>>
Insert(idx, k, x) == (k :> (<<x>> \o Chain(idx, k))) @@ idx

-----------------------------------------------------------------------------
(* The queries (tpcc_query.cpp): a thread works on its home warehouse.     *)

By(customers) == [by_last_name : {TRUE}, c_last : {LastName[c] : c \in customers}]
                 \cup [by_last_name : {FALSE}, c_id : customers]
\* The customer is at home, or at another warehouse if there is one.
gen_payment(w) ==
    {q \in [type : {"PAYMENT"}, w : {w}, d : District, c_w : WH, c_d : District,
            by : By(Customer), amount : Amount] :
        \/ q.c_w = w /\ q.c_d = q.d
        \/ q.c_w # w
        \/ WH = {w}}

\* "Remove duplicate items": the first line of an item is kept.
RemoveDuplicates(items) ==
    FoldLeft(LAMBDA kept, x : IF \E n \in 1..Len(kept) : kept[n].i = x.i THEN kept ELSE Append(kept, x),
             <<>>, items)
gen_new_order(w) ==
    {[type |-> "NEW_ORDER", w |-> w, d |-> d, c |-> c, items |-> RemoveDuplicates(items)] :
        d \in District, c \in Customer,
        items \in BoundedSeq([i : Item, supply : WH, quantity : OlQuantity], MaxLines) \ {<<>>}}
gen_order_status(w) ==
    {[type |-> "ORDER_STATUS", w |-> w, d |-> d, by |-> by] : d \in District, by \in By(Customer)}
gen_delivery(w) == {[type |-> "DELIVERY", w |-> w]}
gen_stocklevel(w) == {[type |-> "STOCK_LEVEL", w |-> w, d |-> d] : d \in District}

-----------------------------------------------------------------------------
(* The loader (tpcc_wl.cpp).                                               *)

\* set_value of an int or a UInt32: memcpy takes the 8 bytes of the column from a
\* 4-byte parameter, so that its upper half is whatever lay behind it.  Here one
\* leftover serves all the rows of a table.
Word == 2 ^ 8    \* stands for 2 ^ 32
Wide(x, upper) == x + Word * upper

init_tab_wh(w) == <<"W", w>> :> [ytd |-> 10 * DIST_PER_WARE]
init_tab_dist(w, left) ==
    [r \in {<<"D", w, d>> : d \in District} |-> [ytd |-> 10, next |-> Wide(CustPerDist + 1, left.next)]]
init_tab_stock(w, quantity, left) ==
    [r \in {<<"S", w, i>> : i \in Item} |->
        [quantity |-> quantity[r[3]], ytd |-> Wide(0, left.ytd), order_cnt |-> Wide(0, left.order_cnt)]]
init_tab_cust(d, w) ==
    [r \in {<<"C", w, d, c>> : c \in Customer} |-> [balance |-> -10, ytd |-> 10]]
init_tab_item == [r \in {<<"I", i>> : i \in Item} |-> [price |-> 1]]

\* i_customer_last: the numbers of the customers under a key, the last one
\* inserted first.  Other names and districts may share the key.
CustomerLastIdx(key) ==
    LET before(a, b) == custKey(a[3], a[2], a[1]) > custKey(b[3], b[2], b[1])
        found == {x \in WH \X District \X Customer : custNPKey(LastName[x[3]], x[2], x[1]) = key}
        chain == SetToSortSeq(found, before)
    IN [n \in DOMAIN chain |-> chain[n][3]]

\* The customers of the loaded orders: a swap with a later position at every
\* position but the last makes one cycle of all of them.
init_permutation ==
    {p \in [Customer -> Customer] :
        /\ {p[c] : c \in Customer} = Customer
        /\ \A S \in SUBSET Customer : S # {} /\ {p[c] : c \in S} = S => S = Customer}

\* Loaded orders: ORDER by order number, all the order lines of a district, by
\* their OL_O_ID, under the key of the district.
LoadedOrders == {<<w, d, o>> : w \in WH, d \in District, o \in Customer}
init_tab_order(perm) ==
    [r \in {<<"O", x[1], x[2], x[3], 0>> : x \in LoadedOrders} |->
        [o_id |-> r[4], c_id |-> perm[r[4]], carrier |-> IF r[4] <= Undelivered THEN 1 ELSE 0]]
LoadedOrderIdx ==
    [k \in {orderPrimaryKey(x[1], x[2], x[3]) : x \in LoadedOrders} |->
        <<CHOOSE r \in {<<"O", x[1], x[2], x[3], 0>> : x \in LoadedOrders} :
             orderPrimaryKey(r[2], r[3], r[4]) = k>>]
LoadedLineIdx(left) ==
    [k \in {distKey(d, w) : d \in District, w \in WH} |->
        [n \in Customer |-> Wide(CustPerDist + 1 - n, left.ol_o_id)]]

Union2(S) == [r \in UNION {DOMAIN f : f \in S} |-> (CHOOSE f \in S : r \in DOMAIN f)[r]]
threadInitWarehouse(perm, quantity, left) ==
    Union2({init_tab_item, init_tab_order(perm)}
           \cup UNION {{init_tab_wh(w), init_tab_dist(w, left), init_tab_stock(w, quantity, left)}
                       \cup {init_tab_cust(d, w) : d \in District} : w \in WH})

Init ==
    /\ leftover \in Leftovers
    /\ \E perm \in init_permutation, quantity \in [Item -> Quantity] :
          tab = threadInitWarehouse(perm, quantity, leftover)
    /\ orderIdx = LoadedOrderIdx /\ lineIdx = LoadedLineIdx(leftover) /\ orderVer = 0
    /\ delivering = [w \in WH |-> FALSE]
    /\ pc = [t \in Thread |-> "idle"] /\ tries = [t \in Thread |-> 0]
    /\ query = [t \in Thread |-> [type |-> "NONE"]]
    /\ accesses = [t \in Thread |-> <<>>]
    /\ oid = [t \in Thread |-> 0] /\ pos = [t \in Thread |-> 0]
    /\ hist = {}

-----------------------------------------------------------------------------
(* Rows and the end of a transaction (txn.cpp).                            *)

Goto(t, l) == pc' = [pc EXCEPT ![t] = l]

\* Row_lock::lock_get under NO_WAIT: any owner conflicts, the transaction
\* itself included.
Conflict(r, type) ==
    \E u \in Thread : \E n \in 1..Len(accesses[u]) :
        accesses[u][n].row = r /\ "WR" \in {type, accesses[u][n].type}

\* get_row: the access, with the copy that an abort puts back.
get_row(t, r, type) ==
    /\ ~Conflict(r, type)
    /\ accesses' = [accesses EXCEPT ![t] =
          Append(@, [row |-> r, type |-> type, orig |-> tab[r], ver |-> orderVer])]

\* cleanup with Abort: the saved copies go back, the last access first.
RolledBack(t) ==
    [r \in DOMAIN tab |->
        LET W == {n \in 1..Len(accesses[t]) : accesses[t][n].row = r /\ accesses[t][n].type = "WR"}
        IN IF W = {} THEN tab[r] ELSE accesses[t][Min(W)].orig]

Dropped(t) == accesses' = [accesses EXCEPT ![t] = <<>>]

\* finish compares the version of the page of every access with the one noted
\* by get_row and, when they differ, calls itself again: the stack overflows.
\* Only ORDER pages change; an insertion may have hit another page.
PageChanged(t) ==
    \E n \in 1..Len(accesses[t]) : accesses[t][n].row[1] = "O" /\ accesses[t][n].ver # orderVer
Crash(t) ==
    /\ Goto(t, "crashed")
    /\ UNCHANGED <<leftover, tab, indexes, delivering, tries, query, accesses, locals, hist>>

FinishAbort(t) ==
    \/ /\ tab' = RolledBack(t) /\ Dropped(t) /\ Goto(t, "idle")
       /\ UNCHANGED <<leftover, indexes, delivering, tries, query, locals, hist>>
    \/ PageChanged(t) /\ Crash(t)
FinishCommit(t) ==
    \/ /\ Dropped(t) /\ Goto(t, "idle")
       /\ hist' = hist \cup {[id |-> <<t, tries[t]>>, query |-> query[t], o |-> oid[t]]}
       /\ UNCHANGED <<leftover, tab, indexes, delivering, tries, query, locals>>
    \/ PageChanged(t) /\ Crash(t)

\* A statement that takes a row and goes on, or finds it locked and aborts.
Update(t, l, r, type, f(_), next) ==
    /\ pc[t] = l
    /\ \/ /\ get_row(t, r, type)
          /\ tab' = [tab EXCEPT ![r] = f(@)]
          /\ Goto(t, next)
          /\ UNCHANGED <<leftover, indexes, delivering, tries, query, locals, hist>>
       \/ Conflict(r, type) /\ FinishAbort(t)
Same(x) == x

-----------------------------------------------------------------------------
(* thread_t::run hands over the next query, aborted ones among them.  The  *)
(* first call creates the thread's transaction manager, and its init       *)
(* replaces delivering, for all threads, by an array nobody initialises.   *)

StartLabel ==
    [PAYMENT |-> "pay_wh", NEW_ORDER |-> "no_wh", ORDER_STATUS |-> "os_order",
     DELIVERY |-> "dl_claim", STOCK_LEVEL |-> "sl_lines"]

Begin(t) ==
    /\ pc[t] = "idle" /\ tries[t] < Len(Script[t])
    /\ tries' = [tries EXCEPT ![t] = @ + 1]
    /\ \E q \in Script[t][tries[t] + 1] :
          query' = [query EXCEPT ![t] = q] /\ Goto(t, StartLabel[q.type])
    /\ IF tries[t] = 0 THEN delivering' \in [WH -> BOOLEAN] ELSE UNCHANGED delivering
    /\ oid' = [oid EXCEPT ![t] = 0] /\ pos' = [pos EXCEPT ![t] = 1]
    /\ UNCHANGED <<leftover, tab, indexes, accesses, hist>>

\* By name the middle one of the chain, as if it were sorted.
Mid(chain) == chain[Len(chain) \div 2 + 1]
CustomerOf(by, d, w) ==
    IF by.by_last_name THEN Mid(CustomerLastIdx(custNPKey(by.c_last, d, w))) ELSE by.c_id

Commit(t) == pc[t] = "commit" /\ FinishCommit(t)

-----------------------------------------------------------------------------
(* run_payment.  g_wh_update_enc is WH_UPDATE, which is true; nothing sets *)
(* it.  The indexes read here do not change, so they miss nothing.         *)

PayWarehouse(t) ==
    Update(t, "pay_wh", <<"W", query[t].w>>, "WR",
           LAMBDA x : [x EXCEPT !.ytd = @ + query[t].amount], "pay_dist")
PayDistrict(t) ==
    Update(t, "pay_dist", <<"D", query[t].w, query[t].d>>, "WR",
           LAMBDA x : [x EXCEPT !.ytd = @ + query[t].amount], "pay_cust")

\* Mutant of Paid: c_ytd_payment is not updated.
PaidBalanceOnly(x, amount) == [x EXCEPT !.balance = @ - amount]

Paid(x, amount) == [x EXCEPT !.balance = @ - amount, !.ytd = @ + amount]
PayCustomer(t) ==
    LET q == query[t] IN
    Update(t, "pay_cust", <<"C", q.c_w, q.c_d, CustomerOf(q.by, q.c_d, q.c_w)>>, "WR",
           LAMBDA x : Paid(x, q.amount), "commit")

-----------------------------------------------------------------------------
(* run_new_order.                                                          *)

OrderWarehouse(t) == Update(t, "no_wh", <<"W", query[t].w>>, "RD", Same, "no_cust")
OrderCustomer(t) ==
    Update(t, "no_cust", <<"C", query[t].w, query[t].d, query[t].c>>, "RD", Same, "no_dist")

\* Mutant of DistrictAccess: the district is only read.
DistrictRead == "RD"

DistrictAccess == "WR"
OrderDistrict(t) ==
    LET r == <<"D", query[t].w, query[t].d>> IN
    /\ pc[t] = "no_dist"
    /\ \/ /\ get_row(t, r, DistrictAccess)
          /\ oid' = [oid EXCEPT ![t] = tab[r].next + 1]
          /\ tab' = [tab EXCEPT ![r].next = @ + 1]
          /\ Goto(t, "no_order")
          /\ UNCHANGED <<leftover, indexes, delivering, tries, query, pos, hist>>
       \/ Conflict(r, DistrictAccess) /\ FinishAbort(t)

\* index_insert gives up when it meets a latch of another thread, and
\* insert_row drops its result.
MayMissLatch(t) == \E u \in Thread \ {t} : pc[u] \notin {"idle", "crashed", "stuck"}
InsertOrder(t) ==
    LET q == query[t]
        r == <<"O", q.w, q.d, oid[t], orderVer + 1>>
    IN
    /\ pc[t] = "no_order" /\ Goto(t, "no_item")
    /\ \/ /\ tab' = (r :> [o_id |-> oid[t], c_id |-> q.c, carrier |-> 0]) @@ tab
          /\ orderIdx' = Insert(orderIdx, orderPrimaryKey(q.w, q.d, oid[t]), r)
          /\ orderVer' = orderVer + 1
       \/ MayMissLatch(t) /\ UNCHANGED <<tab, orderIdx, orderVer>>
    /\ UNCHANGED <<leftover, lineIdx, delivering, tries, query, accesses, locals, hist>>

Line(t) == query[t].items[pos[t]]
OrderItem(t) == Update(t, "no_item", <<"I", Line(t).i>>, "RD", Same, "no_stock")

\* Mutant of Remaining: the stock is refilled only when it would run out.
RemainingLate(s, n) == IF s > n THEN s - n ELSE s - n + 91

Remaining(s, n) == IF s > n + 10 THEN s - n ELSE s - n + 91
OrderStock(t) ==
    Update(t, "no_stock", <<"S", Line(t).supply, Line(t).i>>, "WR",
           LAMBDA x : [quantity |-> Remaining(x.quantity, Line(t).quantity),
                       ytd |-> x.ytd + Line(t).quantity, order_cnt |-> x.order_cnt + 1],
           "no_line")
InsertLine(t) ==
    LET q == query[t] IN
    /\ pc[t] = "no_line"
    /\ \/ lineIdx' = Insert(lineIdx, orderlineKey(q.w, q.d, oid[t]), oid[t])
       \/ MayMissLatch(t) /\ UNCHANGED lineIdx
    /\ pos' = [pos EXCEPT ![t] = @ + 1]
    /\ Goto(t, IF pos[t] < Len(q.items) THEN "no_item" ELSE "commit")
    /\ UNCHANGED <<leftover, tab, orderIdx, orderVer, delivering, tries, query, accesses, oid, hist>>

-----------------------------------------------------------------------------
(* run_order_status: the order whose number is the customer's.  A row that *)
(* was inserted at run time has no page, and get_row follows that pointer. *)
(* The indexes of the customers do not change and every name is loaded, so *)
(* that the return Abort for a name without customers is never taken.      *)

Inserted(r) == r[1] = "O" /\ r[5] # 0

\* index_read takes no latch: while another thread inserts into the index it
\* may miss a key that is there.
Missed(t, inserting) == \E u \in Thread \ {t} : pc[u] = inserting

\* The item of ORDER_IDX is used unchecked.
OrderStatus(t) ==
    LET q == query[t]
        r == Head(orderIdx[custKey(CustomerOf(q.by, q.d, q.w), q.d, q.w)])
    IN
    \/ Update(t, "os_order", r, "RD", Same, "commit")
    \/ /\ pc[t] = "os_order"
       /\ Missed(t, "no_order") \/ (~Conflict(r, "RD") /\ Inserted(r))
       /\ Crash(t)

-----------------------------------------------------------------------------
(* run_delivery: the one delivery a warehouse ever sees.  It returns       *)
(* without finish, so its accesses stay with the thread.                   *)

DeliveryClaim(t) ==
    /\ pc[t] = "dl_claim"
    /\ IF delivering[query[t].w]
       THEN FinishCommit(t)
       ELSE /\ delivering' = [delivering EXCEPT ![query[t].w] = TRUE]
            /\ Goto(t, "dl_dist")
            /\ UNCHANGED <<leftover, tab, indexes, tries, query, accesses, locals, hist>>

\* Where the loop over the lines of the order goes: it never advances item, so
\* that one line is enough to stay in it, with all the locks held.
AfterLines(t, o) ==
    IF Chain(lineIdx, orderlineKey(query[t].w, pos[t], o)) # <<>> THEN "stuck"
    ELSE IF pos[t] < DIST_PER_WARE THEN "dl_dist" ELSE "dl_done"

\* The last order line under the key of the district names the order.  Its
\* number may not exist, its row may be missed, locked or without a page: the
\* item and the row are used unchecked.
DeliveryDistrict(t) ==
    LET w == query[t].w
        no_o_id == Last(lineIdx[distKey(pos[t], w)])
        chain == Chain(orderIdx, orderPrimaryKey(w, pos[t], no_o_id))
        r == Head(chain)
        usable == chain # <<>> /\ ~Missed(t, "no_order") /\ ~Conflict(r, "WR") /\ ~Inserted(r)
    IN
    /\ pc[t] = "dl_dist"
    /\ \/ /\ chain # <<>> /\ get_row(t, r, "WR")
          /\ tab' = [tab EXCEPT ![r].carrier = 1]
          /\ pos' = [pos EXCEPT ![t] = @ + 1]
          /\ Goto(t, AfterLines(t, no_o_id))
          /\ UNCHANGED <<leftover, indexes, delivering, tries, query, oid, hist>>
       \/ ~usable /\ Crash(t)
       \* return Abort, again without finish: a retry finds delivering set.
       \/ /\ Missed(t, "no_line") /\ Goto(t, "idle")
          /\ UNCHANGED <<leftover, tab, indexes, delivering, tries, query, accesses, locals, hist>>
DeliveryReturn(t) ==
    /\ pc[t] = "dl_done" /\ Goto(t, "idle")
    /\ hist' = hist \cup {[id |-> <<t, tries[t]>>, query |-> query[t], o |-> 0]}
    /\ UNCHANGED <<leftover, tab, indexes, delivering, tries, query, accesses, locals>>

-----------------------------------------------------------------------------
(* run_stock_level: reads the district and the stock without get_row, the  *)
(* order lines with it (their rows have no page either).                   *)

StockLevelLines(t) ==
    LET q == query[t]
        lines == Chain(lineIdx, orderlineKey(q.w, q.d, tab[<<"D", q.w, q.d>>].next - 1))
    IN
    /\ pc[t] = "sl_lines"
    /\ \/ (lines = <<>> \/ Missed(t, "no_line")) /\ FinishCommit(t)
       \/ /\ lines # <<>>
          /\ Goto(t, "sl_assert")
          /\ UNCHANGED <<leftover, tab, indexes, delivering, tries, query, accesses, locals, hist>>
       \/ lines # <<>> /\ Crash(t)

\* The assertion that nothing was written, which the accesses a delivery left
\* behind make fail.
WrCnt(t) == Cardinality({n \in 1..Len(accesses[t]) : accesses[t][n].type = "WR"})
StockLevelEnd(t) ==
    /\ pc[t] = "sl_assert"
    /\ IF WrCnt(t) = 0 THEN FinishCommit(t) ELSE Crash(t)

-----------------------------------------------------------------------------
Done == \A t \in Thread : pc[t] \in {"crashed", "stuck"} \/ (pc[t] = "idle" /\ tries[t] = Len(Script[t]))
Terminating == Done /\ UNCHANGED vars

Step(t) ==
    \/ Begin(t) \/ Commit(t)
    \/ PayWarehouse(t) \/ PayDistrict(t) \/ PayCustomer(t)
    \/ OrderWarehouse(t) \/ OrderCustomer(t) \/ OrderDistrict(t) \/ InsertOrder(t)
    \/ OrderItem(t) \/ OrderStock(t) \/ InsertLine(t)
    \/ OrderStatus(t)
    \/ DeliveryClaim(t) \/ DeliveryDistrict(t) \/ DeliveryReturn(t)
    \/ StockLevelLines(t) \/ StockLevelEnd(t)
Next == (\E t \in Thread : Step(t)) \/ Terminating
Spec == Init /\ [][Next]_vars

-----------------------------------------------------------------------------
(* Properties.                                                             *)

\* The value of a row once the transactions in progress are undone.
Settled(r) ==
    LET W == {u \in Thread : \E n \in 1..Len(accesses[u]) :
                 accesses[u][n].row = r /\ accesses[u][n].type = "WR"}
    IN IF W = {} THEN tab[r]
       ELSE LET u == CHOOSE u \in W : TRUE
                n == CHOOSE n \in 1..Len(accesses[u]) :
                        accesses[u][n].row = r /\ accesses[u][n].type = "WR"
            IN accesses[u][n].orig

\* Whatever commits and aborts in between, what the warehouse has taken is
\* what its districts have taken, and what all the customers have paid
\* (run_payment's three updates, undone as one by cleanup).
MoneyBalances ==
    LET taken(w) == Settled(<<"W", w>>).ytd - 10 * DIST_PER_WARE
        paid(c) == Settled(c).ytd - 10
        customers == {r \in DOMAIN tab : r[1] = "C"}
    IN /\ \A w \in WH :
             taken(w) = MapThenSumSet(LAMBDA d : Settled(<<"D", w, d>>).ytd - 10, District)
       /\ MapThenSumSet(taken, WH) = MapThenSumSet(paid, customers)
       /\ \A c \in customers : Settled(c).balance + Settled(c).ytd = 0

\* The committed orders of a district have the numbers after the loaded counter,
\* whatever the loader left in its upper half, one each and without a gap, up to
\* the district's counter; one number is skipped because run_new_order
\* increments the counter before it uses it.
OrderNumbers ==
    \A w \in WH, d \in District :
        LET H == {h \in hist : h.query.type = "NEW_ORDER" /\ h.query.w = w /\ h.query.d = d}
            first == Wide(CustPerDist + 1, leftover.next) + 1
        IN /\ {h.o : h \in H} = first..Settled(<<"D", w, d>>).next
           /\ \A g, h \in H : g.o = h.o => g = h

\* A stock row accounts for the committed lines of its item, on top of what the
\* loader left, and its quantity
\* stays where the unsigned subtraction of an order cannot wrap.
StockBooks ==
    \A w \in WH, i \in Item :
        LET s == Settled(<<"S", w, i>>)
            lines == {<<h, n>> \in hist \X (1..MaxLines) :
                        /\ h.query.type = "NEW_ORDER" /\ n \in DOMAIN h.query.items
                        /\ h.query.items[n].i = i /\ h.query.items[n].supply = w}
        IN /\ s.ytd = Wide(0, leftover.ytd) + MapThenSumSet(LAMBDA x : x[1].query.items[x[2]].quantity, lines)
           /\ s.order_cnt = Wide(0, leftover.order_cnt) + Cardinality(lines)
           /\ s.quantity \in 10..101

=============================================================================
