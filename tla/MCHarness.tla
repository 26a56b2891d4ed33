------------------------------ MODULE MCHarness ------------------------------
(* Two tests with start blocks of their own; the first expects components.   *)
(* The two modes of protocol-testing side by side: in each behaviour, the    *)
(* machine runs one of them again and again.                                 *)
EXTENDS Harness

CONSTANTS t1, t2, b1, b2, c1, c2

VARIABLES
    mode,               \* "range" or "full"
    step, run, reused, index, indexers, indexed, announced, known, update, todo, execution_data

fullVars == <<step, run, reused, index, indexers, indexed, announced, known, update, todo, execution_data>>

Full == INSTANCE FullMode WITH Component <- {c1, c2}, reuse <- reused

MCSuite == <<t1, t2>>
MCStartBlock == [t \in {t1, t2} |-> IF t = t1 THEN b1 ELSE b2]

MachineInit == mode \in {"range", "full"} /\ Init /\ Full!Init

MachineNext ==
    /\ UNCHANGED mode
    /\ \/ mode = "range" /\ Next /\ UNCHANGED fullVars
       \/ mode = "full" /\ Full!Next /\ UNCHANGED vars

MachineSpec ==
    /\ MachineInit /\ [][MachineNext]_<<mode, vars, fullVars>>
    /\ Fairness /\ Full!Fairness

(* tycho_rpc.rs 163, test_runner.rs 1036, see FullMode: the wait for a sync  *)
(* ends while its indexer lives, and only whole updates are executed.        *)
SyncWaitEnds == Full!SyncWaitEnds
WholeUpdatesExecuted == Full!WholeUpdatesExecuted
=============================================================================
