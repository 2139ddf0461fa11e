------------------------------ MODULE MCLogger ------------------------------
(***************************************************************************)
(* Instances of LogReplay for TLC.                                         *)
(***************************************************************************)
EXTENDS LogReplay, FiniteSetsExt

CONSTANTS
    OldSizes,       \* the record sizes of an earlier run,
    MaxFile         \* and, a bound, their number

\* A file with records of the given sizes that ends within the last of them.
FilesOf(n, size) ==
    LET start(i) == MapThenSumSet(LAMBDA j : Aligned(size[j]), 1..(i - 1)) IN
    {[records |-> {[lsn |-> start(i), size |-> size[i]] : i \in 1..n}, end |-> p] :
        p \in {p \in (start(n) + 1)..start(n + 1) : p % Round = 0}}

ShortFiles == UNION {FilesOf(n, size) : n \in 1..MaxFile, size \in [1..MaxFile -> OldSizes]}

=============================================================================
