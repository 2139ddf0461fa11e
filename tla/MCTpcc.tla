------------------------------- MODULE MCTpcc -------------------------------
(***************************************************************************)
(* Instances of Tpcc: two districts of two customers and two items.        *)
(***************************************************************************)
EXTENDS Tpcc

\* Two names with one key.
Names == <<"BAR", "ESE">>
Codes == [n \in {"BAR", "ESE"} |-> 1]

\* The loader's upper halves are clear, or those of some column are not.
Upper(n, y, c, o) == [next |-> n, ytd |-> y, order_cnt |-> c, ol_o_id |-> o]
UpperHalves == {Upper(0, 0, 0, 0), Upper(1, 2, 1, 0), Upper(0, 0, 0, 1)}

PaymentOf(w, d, by) == {q \in gen_payment(w) : q.d = d /\ q.c_d = d /\ q.by.by_last_name = by}
OrderOf(w, d, c, lines) ==
    {q \in gen_new_order(w) : q.d = d /\ q.c = c /\ [n \in DOMAIN q.items |-> q.items[n].i] = lines}

\* Two workers at one warehouse: payments by name and by number against new
\* orders of the same district, with an order status, a delivery or a stock
\* level in between.
MixScript == [t \in Thread |->
    IF t = 1
    THEN <<{q \in PaymentOf(1, 1, TRUE) : q.by.c_last = "BAR"} \cup OrderOf(1, 1, 1, <<1>>),
           OrderOf(1, 1, 1, <<2, 1>>) \cup {q \in gen_stocklevel(1) : q.d = 1}>>
    ELSE <<OrderOf(1, 1, 2, <<1>>) \cup gen_delivery(1),
           {q \in PaymentOf(1, 1, FALSE) : q.by.c_id = 2}
             \cup {q \in gen_order_status(1) : q.d = 2 /\ ~q.by.by_last_name /\ q.by.c_id = 2}>>]

=============================================================================
