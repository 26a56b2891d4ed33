------------------------------ MODULE FullMode ------------------------------
(***************************************************************************)
(* The full mode of protocol-testing: the package is built and handed to   *)
(* an indexer that syncs for ever and serves what it has, run by a thread  *)
(* that nothing joins.  The main thread waits until components are served, *)
(* imports prices, and then simulates the states of each update of the     *)
(* stream and executes what was simulated.  Runs follow each other on one machine: the database and the    *)
(* indexers, which nothing kills, outlive a run.                           *)
(*                                                                         *)
(* External are the indexer, the stream, the scripts and the node; what    *)
(* build_spkg does to its files is in Harness.                             *)
(***************************************************************************)
EXTENDS Naturals, FiniteSets

CONSTANTS
    Component,      \* what the protocol has
    MaxRuns,        \* bound: runs started one after the other
    None            \* no update

VARIABLES
    step,           \* the main thread
    run, reuse,     \* runs started so far; --reuse-last-sync of this one
    index,          \* the index thread
    indexers,       \* the indexer processes alive on the machine
    indexed,        \* the components in the database
    announced,      \* history: the new pairs of the stream so far
    known,          \* protocol_components
    update,         \* the update being processed
    todo,           \* the states of it that run_simulation has not come to
    execution_data  \* the states of it with executions prepared

indexVars == <<index, indexers, indexed>>
liveVars == <<announced, known, update, todo, execution_data>>
vars == <<step, run, reuse, indexVars, liveVars>>

TypeOK ==
    /\ step \in {"idle", "build", "empty", "start", "sync", "tvl", "tokens", "stream",
                 "simulate", "execute"}
    /\ run \in 0..MaxRuns /\ reuse \in BOOLEAN
    /\ index \in {"none", "spawning", "waiting", "ended"}
    /\ indexers \subseteq [run : 1..MaxRuns, up : BOOLEAN]
    /\ indexed \subseteq Component /\ known \subseteq Component
    /\ todo \subseteq Component /\ execution_data \subseteq Component
    /\ update # None => update.states \subseteq Component

Init ==
    /\ step = "idle" /\ run = 0 /\ reuse = FALSE
    /\ index = "none" /\ indexers = {} /\ indexed = {}
    /\ announced = {} /\ known = {} /\ update = None /\ todo = {} /\ execution_data = {}

-----------------------------------------------------------------------------
(* The run, and the ways out of it                                         *)

(* A run without configuration or substreams.yaml is skipped, as if it had *)
(* not been started.                                                       *)
StartRun ==
    /\ step = "idle" /\ run < MaxRuns
    /\ step' = "build" /\ run' = run + 1 /\ reuse' \in BOOLEAN
    /\ announced' = {} /\ known' = {} /\ update' = None /\ todo' = {} /\ execution_data' = {}
    /\ UNCHANGED indexVars

(* The process ends, and its index thread with it, but not the indexer.    *)
Leave ==
    /\ step' = "idle" /\ index' = "none"
    /\ UNCHANGED <<run, reuse, indexers, indexed, liveVars>>

(* Errors before the stream is open end the run; the wait has none.        *)
Fail == step \in {"build", "empty", "start", "tvl", "tokens"} /\ Leave

StreamEnds == step = "stream" /\ Leave

(* External: the process is killed, or one of its calculations panics.     *)
Kill == step # "idle" /\ Leave

Go(from, to) == step = from /\ step' = to /\ UNCHANGED <<run, reuse>>

BuildSpkg == Go("build", "empty") /\ UNCHANGED <<indexVars, liveVars>>

EmptyDatabase ==
    /\ Go("empty", "start")
    /\ indexed' = IF reuse THEN indexed ELSE {}
    /\ index' = "spawning"
    /\ UNCHANGED <<indexers, liveVars>>

-----------------------------------------------------------------------------
(* The index thread and the indexers                                       *)

Mine == {i \in indexers : i.run = run}

(* The thread spawns an indexer, or logs that it could not, and ends.      *)
SpawnIndexer ==
    /\ index = "spawning"
    /\ \/ index' = "waiting" /\ indexers' = indexers \cup {[run |-> run, up |-> FALSE]}
       \/ index' = "ended" /\ UNCHANGED indexers
    /\ UNCHANGED <<step, run, reuse, indexed, liveVars>>

IndexerGone ==
    /\ index = "waiting" /\ Mine = {} /\ index' = "ended"
    /\ UNCHANGED <<step, run, reuse, indexers, indexed, liveVars>>

(* External: an indexer serves once port 4242 is free, syncs, or exits.    *)
Served == \E i \in indexers : i.up

Listens(i) ==
    /\ ~Served
    /\ indexers' = (indexers \ {i}) \cup {[i EXCEPT !.up = TRUE]}
    /\ UNCHANGED <<step, run, reuse, index, indexed, liveVars>>

Syncs(c) ==
    /\ indexers # {} /\ c \notin indexed
    /\ indexed' = indexed \cup {c}
    /\ UNCHANGED <<step, run, reuse, index, indexers, liveVars>>

Exits(i) ==
    /\ indexers' = indexers \ {i}
    /\ UNCHANGED <<step, run, reuse, index, indexed, liveVars>>

-----------------------------------------------------------------------------
(* wait_for_protocol_sync, and what comes before the stream                *)

CreateClient == Go("start", "sync") /\ UNCHANGED <<indexVars, liveVars>>

(* Mutant: an answer that holds components is taken for an empty one.      *)
SyncedUnlessSome ==
    /\ Go("sync", "tvl") /\ Served /\ indexed = {}
    /\ UNCHANGED <<indexVars, liveVars>>

(* Errors and empty answers are waited out, however long it takes.         *)
Synced ==
    /\ Go("sync", "tvl") /\ Served /\ indexed # {}
    /\ UNCHANGED <<indexVars, liveVars>>

TvlImport == Go("tvl", "tokens") /\ UNCHANGED <<indexVars, liveVars>>

OpenStream == Go("tokens", "stream") /\ Served /\ UNCHANGED <<indexVars, liveVars>>

-----------------------------------------------------------------------------
(* run_live_testing                                                        *)

(* New components are kept for the rest of the run.                        *)
Knows(pairs) == known \cup pairs

(* External: an update announces components of the database and has states *)
(* of some that have been announced.                                       *)
ReceiveUpdate(pairs, states) ==
    /\ Go("stream", "simulate") /\ Served
    /\ states \subseteq announced \cup pairs
    /\ announced' = announced \cup pairs
    /\ known' = Knows(pairs)
    /\ update' = [pairs |-> pairs, states |-> states]
    /\ todo' = states /\ execution_data' = {}
    /\ UNCHANGED indexVars

(* External: an error takes the place of an update and of what it would    *)
(* have announced; the loop logs it and reads on.                          *)
StreamError(pairs) ==
    /\ step = "stream" /\ Served
    /\ announced' = announced \cup pairs
    /\ UNCHANGED <<step, run, reuse, indexVars, known, update, todo, execution_data>>

NextUpdate ==
    /\ update' = None /\ todo' = {} /\ execution_data' = {}
    /\ UNCHANGED <<announced, known, indexVars>>

(* run_simulation takes the states in the order of a hash map: all prices, *)
(* limits and amounts of a component are computed, its swaps encoded.      *)
SimulateState(c) ==
    /\ Go("simulate", "simulate")
    /\ c \in todo \cap known
    /\ todo' = todo \ {c} /\ execution_data' = execution_data \cup {c}
    /\ UNCHANGED <<indexVars, announced, known, update>>

(* Mutant: a state that cannot be simulated is passed over.                *)
PassOverState ==
    /\ Go("simulate", "simulate")
    /\ \E c \in todo : todo' = todo \ {c}
    /\ UNCHANGED <<indexVars, announced, known, update, execution_data>>

(* The first state whose component is not known, or that one of the steps  *)
(* fails for, ends the simulation: the states after it are not looked at,  *)
(* what was prepared before is dropped, and the loop continues.            *)
SimulationFails == todo # {} /\ Go("simulate", "stream") /\ NextUpdate

(* With every state simulated the executions follow, if there are any.     *)
SimulationEnds ==
    /\ todo = {}
    /\ \/ Go("simulate", "execute") /\ execution_data # {} /\ UNCHANGED <<indexVars, liveVars>>
       \/ Go("simulate", "stream") /\ execution_data = {} /\ NextUpdate

(* The block may not be found, executions fail: all of it is only logged.  *)
Execute == Go("execute", "stream") /\ NextUpdate

-----------------------------------------------------------------------------
MainStep ==
    \/ Fail \/ BuildSpkg \/ EmptyDatabase \/ CreateClient \/ Synced
    \/ TvlImport \/ OpenStream
    \/ (\E c \in Component : SimulateState(c)) \/ SimulationFails \/ SimulationEnds
    \/ Execute

IndexThread == SpawnIndexer \/ IndexerGone

IndexerStep == (\E i \in indexers : Listens(i)) \/ (\E c \in Component : Syncs(c))

Next ==
    \/ StartRun \/ Kill \/ StreamEnds
    \/ MainStep
    \/ IndexThread
    \/ IndexerStep
    \/ \E i \in indexers : Exits(i)
    \/ \E pairs \in SUBSET (indexed \ announced) :
          \/ \E states \in SUBSET Component : ReceiveUpdate(pairs, states)
          \/ StreamError(pairs)

(* The scheduler runs both threads, and an indexer that lives makes its    *)
(* way; nothing is assumed of exits, kills, updates or further runs.       *)
Fairness == WF_vars(MainStep) /\ WF_vars(IndexThread) /\ WF_vars(IndexerStep)

Spec == Init /\ [][Next]_vars /\ Fairness

-----------------------------------------------------------------------------
(* Properties                                                              *)

(* "Waits for the protocol to be synced and have components available"     *)
(* (tycho_rpc.rs 163): the wait is over some time, whoever holds the port  *)
(* and whatever the database began with, or the indexer of the run has     *)
(* ended, which the loop does not notice.                                  *)
SyncWaitEnds == step = "sync" ~> step # "sync" \/ index = "ended"

(* run_simulation returns its data or an error (test_runner.rs:1036-1159): *)
(* in whichever order the states come and whichever of them fails, updates *)
(* lost to stream errors included, what is executed against a block is the *)
(* whole update of that block, never the part before a failure and never   *)
(* the rest of an update that was given up.                                *)
WholeUpdatesExecuted == step = "execute" => execution_data = update.states

(* Why: up to now, every state looked at has its executions.               *)
SimulatedSoFar ==
    step = "simulate" => execution_data = update.states \ todo /\ todo \subseteq update.states
=============================================================================
