------------------------------- MODULE TsOrder -------------------------------
(***************************************************************************)
(* The TIMESTAMP engine (CC_ALG = TIMESTAMP, TS_TWR = false): basic        *)
(* timestamp ordering with prewrites.  A transaction draws one timestamp.  *)
(* A read waits for older prewrites; a write announces itself with a       *)
(* prewrite and is output at commit, or buffered behind older requests and *)
(* output by whoever releases them.  Every access of a row runs under the  *)
(* row's latch and is one step.                                            *)
(*                                                                         *)
(* A request remembers its txn_man, and a thread has one txn_man for all   *)
(* its transactions.  A WR access copies nothing: the engine expects the   *)
(* transaction to have read the row before.                                *)
(***************************************************************************)
EXTENDS TxnFrame

CONSTANT MaxTs   \* UINT64_MAX: above every timestamp drawn

\* Row_ts::init; the three lists have their newest entry in front.
InitialRow ==
    [data |-> Loaded, wts |-> 0, rts |-> 0, min_pts |-> MaxTs, min_rts |-> MaxTs,
     prereq |-> <<>>, readreq |-> <<>>, writereq |-> <<>>]
InitialLocal == [ts |-> 0, ready |-> FALSE, cur_row |-> Loaded]

Init == FrameInit([r \in Row |-> InitialRow], InitialLocal)

\* The next value of the fetch-and-add counter in Manager::get_ts.
NextTs == 1 + Cardinality({n \in Thread \X (1..MaxTs) : n[2] <= tries[n[1]]})

Begin(t) ==
    /\ Take(t)
    /\ Set(t, [InitialLocal EXCEPT !.ts = NextTs])
    /\ UNCHANGED <<row, accesses, hist, vers>>

Ts(t) == local[t].ts

\* A version is known by its timestamp.
Version(t) == <<t, Ts(t)>>
Entry(t) == [txn |-> t, ts |-> Ts(t), row |-> Version(t)]

-----------------------------------------------------------------------------
(* The request lists.                                                      *)

Smaller(a, b) == IF a < b THEN a ELSE b

\* buffer_req for a prewrite, a read, a write.
BufferPrewrite(w, e) == [w EXCEPT !.prereq = <<e>> \o @, !.min_pts = Smaller(@, e.ts)]
BufferRead(w, e) == [w EXCEPT !.readreq = <<e>> \o @, !.min_rts = Smaller(@, e.ts)]
BufferWrite(w, e) == [w EXCEPT !.writereq = <<e>> \o @]

\* debuffer_req by transaction: its first entry in the list.
DebufferTxn(q, t) ==
    LET i == CHOOSE i \in 1..Len(q) : q[i].txn = t /\ \A j \in 1..(i - 1) : q[j].txn # t
    IN  RemoveAt(q, i)

\* debuffer_req by timestamp: those not above ts leave, in reverse order.
Ready(q, ts) == Reverse(SelectSeq(q, LAMBDA e : e.ts <= ts))
NotReady(q, ts) == SelectSeq(q, LAMBDA e : e.ts > ts)

\* cal_min
CalMin(q) == FoldSeq(LAMBDA e, m : Smaller(e.ts, m), MaxTs, q)

\* The reads update_buffer serves from w, given that min_pts just grew.
ServeReads(w) ==
    LET served == Ready(w.readreq, w.min_pts) IN
    [w EXCEPT !.readreq = NotReady(@, w.min_pts),
              !.rts = FoldSeq(LAMBDA e, m : IF m < e.ts THEN e.ts ELSE m, @, served)]

\* The writes it takes out of the buffer: each takes a prewrite with it, and the
\* one with the smallest timestamp is copied into the row.
OutputWrites(w) ==
    LET out == Ready(w.writereq, w.min_rts)
        young == CHOOSE e \in ToSet(out) : \A f \in ToSet(out) : e.ts <= f.ts
    IN  [w EXCEPT !.writereq = NotReady(@, w.min_rts),
                  !.prereq = FoldLeft(LAMBDA q, e : DebufferTxn(q, e.txn), @, out),
                  !.data = young.row,
                  !.wts = IF @ < young.ts THEN young.ts ELSE @]

\* One round of update_buffer, from a row and the threads whose reads are served
\* with what they are given; another round follows one that output writes.
UpdateRound(u) ==
    LET w == u.row
        new_min_pts == CalMin(w.prereq)
        w1 == [w EXCEPT !.min_pts = new_min_pts]
        ready == Ready(w1.readreq, new_min_pts)
        w2 == ServeReads(w1)
        now == [t \in DOMAIN u.served \cup {e.txn : e \in ToSet(ready)} |->
                   IF t \in DOMAIN u.served THEN u.served[t] ELSE w.data]
        new_min_rts == CalMin(w2.readreq)
        w3 == [w2 EXCEPT !.min_rts = new_min_rts]
    IN  CASE new_min_pts <= w.min_pts -> [u EXCEPT !.more = FALSE]
          [] new_min_pts > w.min_pts /\ ready = <<>> -> [u EXCEPT !.row = w1, !.more = FALSE]
          [] new_min_pts > w.min_pts /\ ready # <<>> /\ new_min_rts <= w2.min_rts ->
                [row |-> w2, served |-> now, more |-> FALSE]
          [] new_min_pts > w.min_pts /\ ready # <<>> /\ new_min_rts > w2.min_rts
             /\ Ready(w3.writereq, new_min_rts) = <<>> ->
                [row |-> w3, served |-> now, more |-> FALSE]
          [] OTHER -> [row |-> OutputWrites(w3), served |-> now, more |-> TRUE]

\* Every round but the last takes a write out of the buffer.
UpdateBuffer(w) ==
    LET rounds == Len(w.writereq) + 1
        after[n \in 0..rounds] ==
            IF n = 0 THEN [row |-> w, served |-> <<>>, more |-> TRUE]
            ELSE IF after[n - 1].more THEN UpdateRound(after[n - 1]) ELSE after[n - 1]
    IN  after[rounds]

\* Mutant of ReleasePrewrite: the buffered requests are not looked at.
ReleaseOnly(t, r, w) ==
    /\ row' = [row EXCEPT ![r] = [w EXCEPT !.prereq = DebufferTxn(@, t)]]
    /\ UNCHANGED local

\* debuffer_req(P_REQ, txn), update_buffer, and the waiting threads it wakes.
ReleasePrewrite(t, r, w) ==
    LET u == UpdateBuffer([w EXCEPT !.prereq = DebufferTxn(@, t)]) IN
    /\ row' = [row EXCEPT ![r] = u.row]
    /\ local' = [s \in Thread |-> IF s \in DOMAIN u.served
                    THEN [local[s] EXCEPT !.ready = TRUE, !.cur_row = u.served[s]]
                    ELSE local[s]]

-----------------------------------------------------------------------------
(* Row_ts::access as get_row calls it.                                     *)

Granting(t, v) ==
    Granted(t, [row |-> Request(t).row, type |-> Request(t).type, data |-> <<v>>])

\* R_REQ is served at once when no older prewrite is pending.
ReadNow(t, w) == Ts(t) >= w.wts /\ Ts(t) <= w.min_pts

Read(t) ==
    /\ pc[t] = "run"
    /\ HasRequest(t)
    /\ LET r == Request(t).row IN
       /\ Request(t).type = "RD"
       /\ \/ /\ Ts(t) < row[r].wts
             /\ Goto(t, "abort")
             /\ UNCHANGED <<row, accesses>>
          \/ /\ ReadNow(t, row[r])
             /\ row' = [row EXCEPT ![r].rts = IF @ < Ts(t) THEN Ts(t) ELSE @]
             /\ Granting(t, row[r].data)
             /\ UNCHANGED pc
          \/ /\ Ts(t) >= row[r].wts /\ ~ReadNow(t, row[r])
             /\ row' = [row EXCEPT ![r] = BufferRead(@, Entry(t))]
             /\ Goto(t, "wait")
             /\ UNCHANGED accesses
    /\ Set(t, [local[t] EXCEPT !.ready = FALSE])
    /\ UNCHANGED <<tries, query, hist, vers>>

\* row_t::get_row spins on ts_ready.
ReadWaited(t) ==
    /\ pc[t] = "wait"
    /\ local[t].ready
    /\ Granting(t, local[t].cur_row)
    /\ Goto(t, "run")
    /\ UNCHANGED <<row, tries, query, local, hist, vers>>

Prewrite(t) ==
    /\ pc[t] = "run"
    /\ HasRequest(t)
    /\ LET r == Request(t).row IN
       /\ Request(t).type = "WR"
       /\ IF Ts(t) < row[r].rts \/ Ts(t) < row[r].wts
          THEN Goto(t, "abort") /\ UNCHANGED <<row, accesses>>
          ELSE /\ row' = [row EXCEPT ![r] = BufferPrewrite(@, Entry(t))]
               /\ Granting(t, Loaded)
               /\ UNCHANGED pc
    /\ UNCHANGED <<tries, query, local, hist, vers>>

-----------------------------------------------------------------------------
(* finish and cleanup: the accesses are given back from the last to the    *)
(* first; a read gives nothing back.                                       *)

Finish(t) ==
    /\ pc[t] = "run"
    /\ ~HasRequest(t)
    /\ Goto(t, "commit")
    /\ UNCHANGED <<row, tries, query, accesses, local, hist, vers>>

DropLast(t) == accesses' = [accesses EXCEPT ![t] = Front(@)]

ReturnRead(t) ==
    /\ pc[t] \in {"commit", "abort"}
    /\ accesses[t] # <<>>
    /\ Last(accesses[t]).type = "RD"
    /\ DropLast(t)
    /\ UNCHANGED <<row, pc, tries, query, local, hist, vers>>

\* W_REQ is always accepted: buffered behind an older prewrite or an older
\* waiting read, or output.
ReturnWrite(t) ==
    /\ pc[t] = "commit"
    /\ accesses[t] # <<>>
    /\ Last(accesses[t]).type = "WR"
    /\ LET r == Last(accesses[t]).row IN
       /\ IF Ts(t) > row[r].min_pts \/ Ts(t) > row[r].min_rts
          THEN /\ row' = [row EXCEPT ![r] = BufferWrite(@, Entry(t))]
               /\ UNCHANGED local
          ELSE ReleasePrewrite(t, r, [row[r] EXCEPT !.data = Version(t),
                                                    !.wts = IF @ < Ts(t) THEN Ts(t) ELSE @])
       /\ vers' = [vers EXCEPT ![r] = SortSeq(Append(@, Version(t)), LAMBDA a, b : a[2] < b[2])]
    /\ DropLast(t)
    /\ UNCHANGED <<pc, tries, query, hist>>

\* XP_REQ withdraws the prewrite.
ReturnAborted(t) ==
    /\ pc[t] = "abort"
    /\ accesses[t] # <<>>
    /\ Last(accesses[t]).type = "WR"
    /\ ReleasePrewrite(t, Last(accesses[t]).row, row[Last(accesses[t]).row])
    /\ DropLast(t)
    /\ UNCHANGED <<pc, tries, query, hist, vers>>

Done(t) ==
    /\ pc[t] \in {"commit", "abort"}
    /\ accesses[t] = <<>>
    /\ Aborted(t)
    /\ UNCHANGED <<row, tries, local, vers>>

Step(t) ==
    \/ Begin(t) \/ Read(t) \/ ReadWaited(t) \/ Prewrite(t) \/ Finish(t)
    \/ ReturnRead(t) \/ ReturnWrite(t) \/ ReturnAborted(t) \/ Done(t)

=============================================================================
