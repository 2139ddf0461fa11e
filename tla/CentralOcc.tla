----------------------------- MODULE CentralOcc -----------------------------
(***************************************************************************)
(* Optimistic concurrency control with central validation (CC_ALG = OCC,   *)
(* PER_ROW_VALID = false).  A transaction copies the rows it reads and     *)
(* writes; to commit it registers its write set in a list of active sets,  *)
(* compares itself with the sets that were active and with the history of  *)
(* committed ones, and copies its rows back without any latch.             *)
(*                                                                         *)
(* Sets in the list and in the history never change, so the comparisons    *)
(* are one step with the latched section before them.                      *)
(***************************************************************************)
EXTENDS TxnFrame

VARIABLE occ   \* OptCC: tnc, active and history, the newest entry first

Half == 1..2

\* Row_occ::init; wts stays 0, because only PER_ROW_VALID advances it, so
\* Row_occ::access never aborts.
InitialRow == [data |-> [h \in Half |-> Loaded]]
InitialLocal == [copy |-> [h \in Half |-> Loaded], start_ts |-> 0, valid |-> FALSE, i |-> 0]

Init ==
    /\ FrameInit([r \in Row |-> InitialRow], InitialLocal)
    /\ occ = [tnc |-> 0, active |-> <<>>, history |-> <<>>]

\* start_ts is the timestamp the attempt drew, and every attempt draws one.
Begin(t) ==
    /\ Take(t)
    /\ Set(t, [InitialLocal EXCEPT !.start_ts = 1 + SumFunction(tries)])
    /\ UNCHANGED <<row, accesses, hist, vers, occ>>

\* Row_occ::access copies the row under the latch of the row, which writers do
\* not take.
CopyHalf(t, h) ==
    /\ \/ pc[t] = "run" /\ HasRequest(t) /\ h = 1
       \/ pc[t] = "copy2" /\ h = 2
    /\ LET copy == [local[t].copy EXCEPT ![h] = row[Request(t).row].data[h]] IN
       /\ Set(t, [local[t] EXCEPT !.copy = copy])
       /\ IF h = 1 THEN UNCHANGED accesses
          ELSE Granted(t, [row |-> Request(t).row, type |-> Request(t).type, data |-> copy])
    /\ Goto(t, <<"copy2", "run">>[h])
    /\ UNCHANGED <<row, tries, query, hist, vers, occ>>

-----------------------------------------------------------------------------
(* OptCC::central_validate.                                                *)

\* get_rw_set
RowsOf(t, type) == {accesses[t][i].row : i \in Of(t, type)}
ReadOnly(t) == RowsOf(t, "WR") = {}
test_valid(set1, set2) == set1 \cap set2 = {}

\* The committed sets numbered above start_ts and not above tnc.  start_ts counts
\* attempts and tn commits: the sets committed since the transaction began with
\* tn <= start_ts are missed.
HistoryValid(t) ==
    occ.tnc > local[t].start_ts =>
        \A e \in ToSet(occ.history) :
            e.tn > local[t].start_ts => test_valid(e.rows, RowsOf(t, "RD"))

\* Mutant of ActiveValid: write sets are not compared with each other.
ActiveValidReads(t) ==
    \A e \in ToSet(occ.active) : test_valid(e.rows, RowsOf(t, "RD"))

\* The sets that were registered before this one.
ActiveValid(t) ==
    \A e \in ToSet(occ.active) :
        test_valid(e.rows, RowsOf(t, "RD")) /\ test_valid(e.rows, RowsOf(t, "WR"))

Validate(t) ==
    /\ pc[t] = "run"
    /\ ~HasRequest(t)
    /\ occ' = IF ReadOnly(t) THEN occ
              ELSE [occ EXCEPT !.active = <<[txn |-> t, rows |-> RowsOf(t, "WR")]>> \o @]
    /\ LET valid == HistoryValid(t) /\ ActiveValid(t) IN
       /\ Set(t, [local[t] EXCEPT !.valid = valid, !.i = 0])
       /\ Goto(t, IF valid THEN "install1" ELSE "leave")
    /\ UNCHANGED <<row, tries, query, accesses, hist, vers>>

\* cleanup(RCOK) returns the rows from the last access to the first, and
\* Row_occ::write copies them back.
InstallOrder(t) == Reverse(InOrder(Of(t, "WR"), [i \in Of(t, "WR") |-> i]))
Installing(t) == accesses[t][InstallOrder(t)[local[t].i + 1]].row
InstallHalf(t, h) ==
    /\ pc[t] = <<"install1", "install2">>[h]
    /\ local[t].i < Cardinality(Of(t, "WR"))
    /\ row' = [row EXCEPT ![Installing(t)].data[h] = Attempt(t)]
    /\ vers' = IF h = 1 THEN vers ELSE [vers EXCEPT ![Installing(t)] = Append(@, Attempt(t))]
    /\ Set(t, IF h = 1 THEN local[t] ELSE [local[t] EXCEPT !.i = @ + 1])
    /\ Goto(t, <<"install2", "install1">>[h])
    /\ UNCHANGED <<tries, query, accesses, hist, occ>>

\* The second latched section: the list is searched for the transaction's write
\* set, which leaves it, and a valid one gets the next number and heads the
\* history.
Left(t) ==
    LET at == CHOOSE i \in 1..Len(occ.active) : occ.active[i].txn = t
        active == RemoveAt(occ.active, at) IN
    IF ReadOnly(t) THEN occ
    ELSE IF ~local[t].valid THEN [occ EXCEPT !.active = active]
    ELSE [tnc |-> occ.tnc + 1, active |-> active,
          history |-> <<[tn |-> occ.tnc + 1, rows |-> RowsOf(t, "WR")]>> \o occ.history]
Leave(t) ==
    /\ \/ pc[t] = "leave"
       \/ pc[t] = "install1" /\ local[t].i = Cardinality(Of(t, "WR"))
    /\ occ' = Left(t)
    /\ IF local[t].valid THEN Committed(t) ELSE Aborted(t)
    /\ Set(t, InitialLocal)
    /\ UNCHANGED <<row, tries, vers>>

-----------------------------------------------------------------------------
Step(t) ==
    \/ Begin(t) \/ (\E h \in Half : CopyHalf(t, h)) \/ Validate(t)
    \/ (\E h \in Half : InstallHalf(t, h)) \/ Leave(t)

=============================================================================
