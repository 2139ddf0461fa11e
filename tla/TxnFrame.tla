------------------------------ MODULE TxnFrame ------------------------------
(***************************************************************************)
(* What the engines Silo, TicToc, TsOrder and CentralOcc share: the worker *)
(* thread that runs one query after the other through txn_man, the list of *)
(* accesses, and the record of what committed.  A row's content is the     *)
(* identity of the attempt that wrote it, so a copy tells its version.     *)
(*                                                                         *)
(* hist and vers are history variables: no action reads them.              *)
(***************************************************************************)
EXTENDS Naturals, Sequences, FiniteSets, SequencesExt

CONSTANTS
    Thread,       \* worker threads, one transaction manager each
    Row,          \* the rows, numbered by primary key
    Script        \* for each thread and attempt, the queries it may run

\* ycsb_query::gen_requests drops a key that the query already has.
ASSUME FrameAssumption ==
    /\ Row \subseteq Nat
    /\ Script \in [Thread -> Seq(SUBSET Seq([row : Row, type : {"RD", "WR"}]))]
    /\ \A t \in Thread : \A n \in 1..Len(Script[t]) : \A q \in Script[t][n] :
          q # <<>> /\ \A i, j \in 1..Len(q) : q[i].row = q[j].row => i = j

VARIABLES
    row,      \* the rows with the state their manager keeps
    pc,       \* where each thread is
    tries,    \* attempts each thread has started
    query,    \* thread_t::m_query
    accesses, \* txn_man::accesses[0 .. row_cnt-1]
    local,    \* locals of the running handler and fields of txn_man
    hist,     \* committed attempts: what they read and wrote
    vers      \* the versions of each row in the order of the engine

frameVars == <<row, pc, tries, query, accesses, local, hist, vers>>

\* An attempt; the rows as loaded have a writer of their own.
Attempt(t) == <<t, tries[t]>>
Loaded == <<0, 0>>

Goto(t, l) == pc' = [pc EXCEPT ![t] = l]
Set(t, l) == local' = [local EXCEPT ![t] = l]

\* The request run_txn is about to serve.  A write goes to the local copy, which
\* is what these engines install; that YCSB's run_txn stores into the shared row
\* instead is left out here and modelled by WriteRowInPlace of OccTxn.
HasRequest(t) == Len(accesses[t]) < Len(query[t])
Request(t) == query[t][Len(accesses[t]) + 1]

\* txn_man::get_row after the engine has granted the access.
Granted(t, a) == accesses' = [accesses EXCEPT ![t] = Append(@, a)]

\* The positions of the accesses of a type.
Of(t, type) == {i \in 1..Len(accesses[t]) : accesses[t][i].type = type}

\* The members of S in the order of their keys, no two of which are equal.
InOrder(S, key) ==
    [n \in 1..Cardinality(S) |->
        CHOOSE i \in S : Cardinality({j \in S : key[j] < key[i]}) = n - 1]

\* write_set after the bubble sort: the written rows in primary key order.
WriteSet(t) == InOrder(Of(t, "WR"), [i \in Of(t, "WR") |-> accesses[t][i].row])
ReadSet(t) == InOrder(Of(t, "RD"), [i \in Of(t, "RD") |-> i])

FrameInit(rows, initialLocal) ==
    /\ row = rows
    /\ pc = [t \in Thread |-> "idle"]
    /\ tries = [t \in Thread |-> 0]
    /\ query = [t \in Thread |-> <<>>]
    /\ accesses = [t \in Thread |-> <<>>]
    /\ local = [t \in Thread |-> initialLocal]
    /\ hist = {}
    /\ vers = [r \in Row |-> <<Loaded>>]

\* thread_t::run hands the next query to run_txn_ecall; an aborted query
\* comes back from the abort buffer like any other.
Take(t) ==
    /\ pc[t] = "idle"
    /\ tries[t] < Len(Script[t])
    /\ tries' = [tries EXCEPT ![t] = @ + 1]
    /\ \E q \in Script[t][tries[t] + 1] : query' = [query EXCEPT ![t] = q]
    /\ Goto(t, "run")

\* cleanup's last lines: the accesses are dropped and the thread is free.
Finished(t) ==
    /\ accesses' = [accesses EXCEPT ![t] = <<>>]
    /\ query' = [query EXCEPT ![t] = <<>>]
    /\ Goto(t, "idle")
Committed(t) ==
    /\ Finished(t)
    /\ hist' = hist \cup
         {[id |-> Attempt(t),
           reads |-> {<<accesses[t][i].row, accesses[t][i].data[1]>> : i \in 1..Len(accesses[t])},
           writes |-> {accesses[t][i].row : i \in Of(t, "WR")}]}
Aborted(t) == Finished(t) /\ hist' = hist

AllDone == \A t \in Thread : pc[t] = "idle" /\ tries[t] = Len(Script[t])
Terminating == AllDone /\ UNCHANGED frameVars

-----------------------------------------------------------------------------
(* What the committed attempts must look like.                             *)

\* h precedes k in every serial order: k read from h, k overwrote h, or h read
\* what k overwrote.
Precedes(h, k) ==
    \E r \in Row :
        \/ <<r, h.id>> \in k.reads
        \/ \E i \in 1..(Len(vers[r]) - 1) :
              /\ vers[r][i + 1] = k.id
              /\ vers[r][i] = h.id \/ <<r, vers[r][i]>> \in h.reads

=============================================================================
