------------------------------- MODULE Engines -------------------------------
(***************************************************************************)
(* The engines Silo, TicToc, TsOrder and CentralOcc over the same threads  *)
(* and rows.  A build has one engine; the initial states choose it.        *)
(***************************************************************************)
EXTENDS TxnFrame

CONSTANTS Alg, RTS_LEN, MaxTs

ASSUME EnginesAssumption == RTS_LEN \in Nat /\ MaxTs \in Nat

VARIABLES
    alg,   \* CC_ALG
    occ    \* what the threads share under central validation

vars == <<alg, occ, frameVars>>

SI == INSTANCE Silo
TT == INSTANCE TicToc
TS == INSTANCE TsOrder
OC == INSTANCE CentralOcc

Init ==
    /\ alg \in Alg
    /\ \/ alg = "SILO" /\ SI!Init /\ occ = <<>>
       \/ alg = "TICTOC" /\ TT!Init /\ occ = <<>>
       \/ alg = "TIMESTAMP" /\ TS!Init /\ occ = <<>>
       \/ alg = "OCC" /\ OC!Init

Step(t) ==
    /\ UNCHANGED alg
    /\ \/ alg = "SILO" /\ SI!Step(t) /\ UNCHANGED occ
       \/ alg = "TICTOC" /\ TT!Step(t) /\ UNCHANGED occ
       \/ alg = "TIMESTAMP" /\ TS!Step(t) /\ UNCHANGED occ
       \/ alg = "OCC" /\ OC!Step(t)

Next == (\E t \in Thread : Step(t)) \/ (Terminating /\ UNCHANGED <<alg, occ>>)

Spec == Init /\ [][Next]_vars
FairSpec == Spec /\ \A t \in Thread : WF_vars(Step(t))

Optimistic == alg \in {"SILO", "TICTOC"}

\* A committed attempt replaced the version it had read: nothing was installed
\* on a written row between its copy and its commit.
NoLostUpdate ==
    Optimistic => \A h \in hist : \A r \in h.writes :
        \E i \in 1..(Len(vers[r]) - 1) : vers[r][i + 1] = h.id /\ <<r, vers[r][i]>> \in h.reads

Acyclic ==
    \A S \in SUBSET hist : S # {} => \E k \in S : \A h \in S \ {k} : ~Precedes(h, k)

\* ISOLATION_LEVEL = SERIALIZABLE: the committed attempts of Silo have a serial
\* order that explains every version read and replaced.
Serializable == alg = "SILO" => Acyclic

\* A row's min_pts is its oldest pending prewrite, whatever update_buffer took
\* out, and every read that waits on the row is younger than it: what holds a
\* read back is on record, if only as the prewrite of a write that has committed.
ReadersHaveReason ==
    alg = "TIMESTAMP" => \A r \in Row :
        /\ row[r].min_pts = TS!CalMin(row[r].prereq)
        /\ \A i \in 1..Len(row[r].readreq) : row[r].readreq[i].ts > row[r].min_pts

\* Under central validation rows are copied back without a latch; yet no two
\* transactions that passed write the same row at a time, and a row that nobody
\* is writing holds one version, the last committed one.
RowsWhole ==
    alg = "OCC" => \A r \in Row :
        LET writers == {t \in Thread : pc[t] \in {"install1", "install2"} /\ r \in OC!RowsOf(t, "WR")} IN
        /\ Cardinality(writers) <= 1
        /\ writers = {} => \A h \in OC!Half : row[r].data[h] = Last(vers[r])

\* Every attempt under Silo and TicToc ends: the no-wait loop makes progress.
AttemptEnds ==
    \A t \in Thread : Optimistic /\ pc[t] = "run" ~> pc[t] = "idle"

=============================================================================
