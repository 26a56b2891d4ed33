------------------------------- MODULE Harness -------------------------------
(***************************************************************************)
(* The range mode of protocol-testing: one process builds the package,      *)
(* empties the database, runs the indexer, serves the result with an RPC    *)
(* server held by a thread of its own, tests it, and stops the server,      *)
(* once for every test of the suite.  Runs follow each other on one         *)
(* machine: files, database and forgotten servers outlive a run.            *)
(***************************************************************************)
EXTENDS Naturals, Sequences, FiniteSets

CONSTANTS
    Suite,          \* the tests the filter selected, in order
    StartBlock,     \* [test -> its start_block]
    Expects,        \* the tests with expected_components
    Original,       \* the initial blocks substreams.yaml is committed with
    None,           \* no file, no data
    MaxRuns         \* bound: runs started one after the other

SuiteTests == {Suite[i] : i \in DOMAIN Suite}
Blocks == {StartBlock[t] : t \in SuiteTests} \union {Original}

ASSUME SuiteAssumption ==
    /\ Suite \in Seq(SuiteTests) /\ Suite # <<>>
    /\ \A i, j \in DOMAIN Suite : Suite[i] = Suite[j] => i = j
    /\ DOMAIN StartBlock = SuiteTests
    /\ Expects \subseteq SuiteTests
    /\ None \notin Blocks \union SuiteTests
    /\ MaxRuns \in Nat

\* What the RPC server answers, and whose it is.
Answer == [run : 1 .. MaxRuns, test : DOMAIN Suite,
           owner : SuiteTests \union {None}, content : {"empty", "partial", "full"}]

ASSUME AnswerAssumption == None \notin Answer

VARIABLES
    pc, k,              \* the main thread, and the test it is at
    files,              \* substreams.yaml, its backup, the packed spkg
    db,                 \* the indexer's database: for which test, how much
    thread, chan,       \* the RPC thread and its termination channel
    servers,            \* the RPC server processes alive on the machine
    data,               \* what run_test fetched
    engine,             \* the tests whose state SHARED_TYCHO_DB holds
    passed, failed,     \* what the tests reported
    result, runs,       \* of the last run; runs started
    reuse,              \* --reuse-last-sync of the run
    cleanStart, broken  \* history: this run found the committed yaml; the
                        \* runs that ended in a kill or a panic

hostVars  == <<files, db>>
rpcVars   == <<thread, chan, servers>>
testVars  == <<data, engine, passed, failed>>
runVars   == <<k, runs, reuse, cleanStart>>
vars == <<pc, hostVars, rpcVars, testVars, runVars, result, broken>>

Test == Suite[k]

InTest == {"fetch", "validate", "decode", "simulate", "execute"}

TypeOK ==
    /\ pc \in {"idle", "empty", "backup", "modify", "pack", "restore",
               "remove", "index", "indexing", "serve", "stop", "join",
               "unwind"} \union InTest
    /\ k \in DOMAIN Suite
    /\ files \in [yaml : Blocks, backup : Blocks \union {None},
                  spkg : Blocks \union {None}]
    /\ db \in [owner : SuiteTests \union {None},
               content : {"missing", "empty", "partial", "full"}]
    /\ thread \in {"none", "spawning", "waiting", "ended", "panicked"}
    /\ chan \in {"closed", "open", "sent"}
    /\ servers \subseteq [run : 1 .. MaxRuns, test : DOMAIN Suite, up : BOOLEAN]
    /\ data \in {None} \union Answer
    /\ engine \subseteq SuiteTests
    /\ failed \subseteq SuiteTests
    /\ result \in {"none", "skipped", "ok", "err", "panic", "killed"}
    /\ runs \in 0 .. MaxRuns
    /\ reuse \in BOOLEAN /\ cleanStart \in BOOLEAN
    /\ broken \subseteq 1 .. MaxRuns

Init ==
    /\ pc = "idle" /\ k = 1
    /\ files = [yaml |-> Original, backup |-> None, spkg |-> None]
    /\ db = [owner |-> None, content |-> "missing"]
    /\ thread = "none" /\ chan = "closed" /\ servers = {}
    /\ data = None /\ engine = {} /\ passed = {} /\ failed = {}
    /\ result = "none" /\ runs = 0
    /\ reuse = FALSE /\ cleanStart = TRUE /\ broken = {}

-----------------------------------------------------------------------------
(* The run, and the ways out of it.                                          *)

\* `range` is invoked: with no config, one that does not parse, or no
\* substreams.yaml, nothing is tested and the exit is a success.
StartRun ==
    /\ pc = "idle" /\ runs < MaxRuns
    /\ \/ pc' = "empty" /\ result' = "none"
       \/ pc' = "idle" /\ result' = "skipped"
    /\ runs' = runs + 1 /\ k' = 1
    /\ reuse' \in BOOLEAN
    /\ cleanStart' = (files.yaml = Original)
    /\ data' = None /\ engine' = {} /\ passed' = {} /\ failed' = {}
    /\ UNCHANGED <<hostVars, rpcVars, broken>>

\* The process ends: its threads with it, its child processes not.
Leave(r) ==
    /\ pc' = "idle" /\ result' = r
    /\ thread' = "none" /\ chan' = "closed"

\* A step before the server is started returns an error (`?`).
Abort ==
    /\ pc \in {"empty", "backup", "modify", "pack", "restore", "remove", "index"}
    /\ pc = "empty" => ~reuse
    /\ \/ UNCHANGED db
       \/ /\ pc = "empty"       \* dropped, and CREATE DATABASE fails
          /\ db' = [owner |-> None, content |-> "missing"]
    /\ Leave("err")
    /\ UNCHANGED <<files, servers, testVars, runVars, broken>>

\* External: the process is killed; its server may survive it.
Kill ==
    /\ pc # "idle"
    /\ Leave("killed")
    /\ \/ UNCHANGED servers
       \/ servers' = {s \in servers : s.run # runs}
    /\ broken' = broken \union {runs}
    /\ UNCHANGED <<hostVars, testVars, runVars>>

-----------------------------------------------------------------------------
(* Database, package and index.                                              *)

\* tycho_runner: the database is dropped and created, unless it is reused.
EmptyDatabase ==
    /\ pc = "empty"
    /\ IF reuse
       THEN pc' = "serve" /\ UNCHANGED db
       ELSE pc' = "backup" /\ db' = [owner |-> Test, content |-> "empty"]
    /\ UNCHANGED <<files, rpcVars, testVars, runVars, result, broken>>

\* One step of build_spkg.
Build(from, to, after) ==
    /\ pc = from /\ pc' = to
    /\ files' = after
    /\ UNCHANGED <<db, rpcVars, testVars, runVars, result, broken>>

\* Mutant: the file is modified before it is copied.
BackupAfterModify == Build("backup", "modify",
    [files EXCEPT !.yaml = StartBlock[Test], !.backup = StartBlock[Test]])

BackupYaml == Build("backup", "modify", [files EXCEPT !.backup = files.yaml])

\* Every module's initialBlock becomes the test's start block.
ModifyYaml == Build("modify", "pack", [files EXCEPT !.yaml = StartBlock[Test]])

RestoreYaml == Build("restore", "remove", [files EXCEPT !.yaml = files.backup])

RemoveBackup == Build("remove", "index", [files EXCEPT !.backup = None])

\* A pack that fails is logged: the package of an earlier pack stays.
PackSpkg ==
    \/ Build("pack", "restore", [files EXCEPT !.spkg = files.yaml])
    \/ Build("pack", "restore", files)

SpawnIndexer ==
    /\ pc = "index" /\ pc' = "indexing"
    /\ UNCHANGED <<hostVars, rpcVars, testVars, runVars, result, broken>>

\* The indexer exits; whatever its status, the run goes on.
IndexerExits ==
    /\ pc = "indexing" /\ pc' = "serve"
    /\ \E content \in IF files.spkg = None THEN {"empty"}
                      ELSE {"empty", "partial", "full"} :
           db' = [db EXCEPT !.content = content]
    /\ UNCHANGED <<files, rpcVars, testVars, runVars, result, broken>>

-----------------------------------------------------------------------------
(* The RPC server and its thread.                                            *)

\* start_rpc_server: the thread is started, and given three seconds.
StartServer ==
    /\ pc = "serve" /\ pc' = "fetch"
    /\ thread' = "spawning" /\ chan' = "open"
    /\ UNCHANGED <<hostVars, servers, testVars, runVars, result, broken>>

Mine == [run |-> runs, test |-> k]
Of(s) == [run |-> s.run, test |-> s.test]

\* The thread spawns the server, or panics and drops the receiver.
SpawnServer ==
    /\ thread = "spawning"
    /\ \/ /\ thread' = "waiting"
          /\ servers' = servers \union {[run |-> runs, test |-> k, up |-> FALSE]}
          /\ UNCHANGED chan
       \/ thread' = "panicked" /\ chan' = "closed" /\ UNCHANGED servers
    /\ UNCHANGED <<pc, hostVars, testVars, runVars, result, broken>>

\* Mutant: the thread ends without killing its server.
StopRpcThreadNoKill ==
    /\ thread = "waiting" /\ chan # "open"
    /\ thread' = "ended"
    /\ UNCHANGED <<pc, chan, servers, hostVars, testVars, runVars, result, broken>>

\* The thread is told to stop, or its sender is gone: it kills and reaps.
StopRpcThread ==
    /\ thread = "waiting" /\ chan # "open"
    /\ thread' = "ended"
    /\ servers' = {s \in servers : Of(s) # Mine}
    /\ UNCHANGED <<pc, chan, hostVars, testVars, runVars, result, broken>>

\* External: a server listens once port 4242 is free, or exits.
ServerListens(s) ==
    /\ ~s.up /\ \A o \in servers : ~o.up
    /\ servers' = (servers \ {s}) \union {[s EXCEPT !.up = TRUE]}
    /\ UNCHANGED <<pc, thread, chan, hostVars, testVars, runVars, result, broken>>

ServerExits(s) ==
    /\ servers' = servers \ {s}
    /\ UNCHANGED <<pc, thread, chan, hostVars, testVars, runVars, result, broken>>

\* Mutant: the thread is joined without having been told to stop.
StopServerNoSend ==
    /\ pc = "stop" /\ pc' = "join"
    /\ UNCHANGED <<thread, chan, hostVars, servers, testVars, runVars, result, broken>>

\* stop_rpc_server sends; with the receiver gone the whole run is given up.
StopServer ==
    /\ pc = "stop"
    /\ \/ /\ chan = "open" /\ chan' = "sent" /\ pc' = "join"
          /\ UNCHANGED <<thread, result>>
       \/ chan = "closed" /\ Leave("err")
    /\ UNCHANGED <<hostVars, servers, testVars, runVars, broken>>

\* Mutant: the thread is not waited for.
JoinNothing ==
    /\ pc = "join"
    /\ IF k < Len(Suite)
       THEN /\ pc' = "empty" /\ k' = k + 1
            /\ thread' = "none" /\ chan' = "closed"
            /\ UNCHANGED result
       ELSE /\ Leave(IF failed = {} THEN "ok" ELSE "err")
            /\ UNCHANGED k
    /\ data' = None
    /\ UNCHANGED <<hostVars, servers, engine, passed, failed, runs, reuse, cleanStart, broken>>

\* Mutant: the last test is not recognised as the last.
JoinPastEnd ==
    /\ pc = "join" /\ thread \in {"ended", "panicked"}
    /\ pc' = "empty" /\ k' = k + 1
    /\ thread' = "none" /\ chan' = "closed"
    /\ data' = None
    /\ UNCHANGED <<result, hostVars, servers, engine, passed, failed, runs, reuse, cleanStart, broken>>

\* ... and joins: a thread that panicked is only reported.
JoinThread ==
    /\ pc = "join" /\ thread \in {"ended", "panicked"}
    /\ IF k < Len(Suite)
       THEN /\ pc' = "empty" /\ k' = k + 1
            /\ thread' = "none" /\ chan' = "closed"
            /\ UNCHANGED result
       ELSE /\ Leave(IF failed = {} THEN "ok" ELSE "err")
            /\ UNCHANGED k
    /\ data' = None
    /\ UNCHANGED <<hostVars, servers, engine, passed, failed, runs, reuse, cleanStart, broken>>

-----------------------------------------------------------------------------
(* run_test.                                                                 *)

\* fetch_from_tycho_rpc is answered by whoever listens on port 4242.
Fetch ==
    /\ pc = "fetch" /\ pc' = "validate"
    /\ db.content # "missing"
    /\ \E s \in servers :
           /\ s.up
           /\ data' = [run |-> s.run, test |-> s.test,
                       owner |-> db.owner, content |-> db.content]
    /\ UNCHANGED <<hostVars, rpcVars, engine, passed, failed, runVars, result, broken>>

\* Mutant: missing components do not fail the test.
ValidateUnchecked ==
    /\ pc = "validate" /\ pc' = "decode"
    /\ UNCHANGED <<hostVars, rpcVars, testVars, runVars, result, broken>>

\* validate_state finds every expected component; balances match or are
\* not checked.
Validate ==
    /\ pc = "validate" /\ pc' = "decode"
    /\ Test \in Expects => data.content # "empty"
    /\ UNCHANGED <<hostVars, rpcVars, testVars, runVars, result, broken>>

\* Mutant: the engine's state is not cleared.
DecodeNoClear ==
    /\ pc = "decode" /\ pc' = "simulate"
    /\ engine' = engine \union {Test}
    /\ UNCHANGED <<hostVars, rpcVars, data, passed, failed, runVars, result, broken>>

\* decode_snapshot clears the engine's state and loads the snapshot's.  What
\* clear returns is dropped: a clear that fails is only followed by a decode
\* that fails too (FailTest), an assumption on the engine, which is external.
Decode ==
    /\ pc = "decode" /\ pc' = "simulate"
    /\ engine' = {Test}
    /\ UNCHANGED <<hostVars, rpcVars, data, passed, failed, runVars, result, broken>>

Simulate ==
    /\ pc = "simulate" /\ pc' = "execute"
    /\ UNCHANGED <<hostVars, rpcVars, testVars, runVars, result, broken>>

\* run_execution counts executions that fail and returns Ok all the same.
Execute ==
    /\ pc = "execute" /\ pc' = "stop"
    /\ \E outcome \in IF data.content = "empty" THEN {"none"}
                      ELSE {"none", "good", "bad"} :
           passed' = passed \union
               {[test |-> Test, owner |-> data.owner, content |-> data.content,
                 engine |-> engine, executed |-> outcome]}
    /\ UNCHANGED <<hostVars, rpcVars, data, engine, failed, runVars, result, broken>>

\* Mutant: a failed test is logged and not recorded.
FailTestForgotten ==
    /\ pc \in InTest /\ pc' = "stop"
    /\ UNCHANGED <<hostVars, rpcVars, testVars, runVars, result, broken>>

\* A step of run_test returns an error: the test failed, the run goes on.
FailTest ==
    /\ pc \in InTest /\ pc' = "stop"
    /\ failed' = failed \union {Test}
    /\ \/ UNCHANGED engine
       \/ pc = "decode" /\ engine' = {}
    /\ UNCHANGED <<hostVars, rpcVars, data, passed, runVars, result, broken>>

\* A step of run_test panics: the sender is dropped while main unwinds, and
\* the process may end before the thread has killed its server.
PanicTest ==
    /\ pc \in InTest /\ pc' = "unwind"
    /\ chan' = "closed"
    /\ broken' = broken \union {runs}
    /\ UNCHANGED <<thread, servers, hostVars, testVars, runVars, result>>

Unwound ==
    /\ pc = "unwind" /\ Leave("panic")
    /\ UNCHANGED <<servers, hostVars, testVars, runVars, broken>>

-----------------------------------------------------------------------------
MainStep ==
    \/ EmptyDatabase \/ Abort
    \/ BackupYaml \/ ModifyYaml \/ PackSpkg \/ RestoreYaml \/ RemoveBackup
    \/ SpawnIndexer
    \/ StartServer \/ StopServer \/ JoinThread
    \/ Fetch \/ Validate \/ Decode \/ Simulate \/ Execute \/ FailTest
    \/ PanicTest \/ Unwound

RpcThread == SpawnServer \/ StopRpcThread

Next ==
    \/ StartRun \/ Kill
    \/ MainStep
    \/ IndexerExits
    \/ RpcThread
    \/ \E s \in servers : ServerListens(s) \/ ServerExits(s)

\* The scheduler runs both threads; the indexer, started with a stop block,
\* exits.  Nothing is assumed of servers, kills or further runs.
Fairness == WF_vars(MainStep) /\ WF_vars(RpcThread) /\ WF_vars(IndexerExits)

Spec == Init /\ [][Next]_vars /\ Fairness

-----------------------------------------------------------------------------
(* Safety.                                                                   *)

\* Every server alive is the one the RPC thread of the current test waits to
\* kill, or was left behind by a run that was killed or panicked: no normal
\* or failing path of run_tests_in_range leaves one (tycho_runner.rs
\* start_rpc_server, stop_rpc_server).
ServerAccounted ==
    \A s \in servers :
        \/ s.run \in broken
        \/ Of(s) = Mine /\ thread = "waiting" /\ pc # "idle"

\* While no run was killed or panicked, what a test reads was served by the
\* server started for this test (fetch_from_tycho_rpc, port 4242).
AnsweredByOwnServer ==
    broken = {} /\ data # None => Of(data) = Mine

\* A run that found the committed substreams.yaml keeps its text in the file
\* or in the backup at every point of build_spkg, whatever step fails.
YamlRecoverable ==
    cleanStart => Original \in {files.yaml, files.backup}

\* A test passes on a database emptied and indexed for itself, with its
\* expected components found, and with no other test's contract state in the
\* simulation engine (run_test, decode_snapshot).
PassRestsOnOwnState ==
    \A p \in passed :
        /\ reuse \/ p.owner = p.test
        /\ p.test \in Expects => p.content # "empty"
        /\ p.engine = {p.test}

\* A run that tested something and succeeds passed every selected test, and
\* none both passed and failed (run_tests_in_range).
OkMeansAllPassed ==
    /\ result = "ok" => {p.test : p \in passed} = SuiteTests
    /\ {p.test : p \in passed} \intersect failed = {}

\* Documented of run_execution: it returns an error when an execution fails
\* or reverts, so a test that passed has none.
PassedMeansExecuted == \A p \in passed : p.executed # "bad"

(* Why these hold.  The RPC thread exists between the start and the join of  *)
(* its server, and while it may wait its channel is open unless main is past *)
(* the tests; a run that unwinds is a broken one.                            *)
ThreadInv ==
    /\ pc # "idle" => runs \in 1 .. MaxRuns
    /\ thread # "none" => pc \in InTest \union {"stop", "join", "unwind"}
    /\ thread \in {"spawning", "waiting"} /\ pc \in InTest \union {"stop"} => chan = "open"
    /\ pc = "unwind" => runs \in broken

\* From backup to restore a copy exists; of a clean start it is the original,
\* and the file itself is the original outside of pack and restore.
FilesInv ==
    /\ pc \in {"modify", "pack", "restore"} => files.backup # None
    /\ cleanStart =>
        /\ pc \in {"modify", "pack", "restore", "remove"} => files.backup = Original
        /\ pc \notin {"idle", "pack", "restore"} => files.yaml = Original
        /\ pc = "idle" => Original \in {files.yaml, files.backup}

\* What the steps of a test have established so far.
TestInv ==
    /\ pc \in {"backup", "modify", "pack", "restore", "remove", "index",
               "indexing", "serve", "fetch"} => reuse \/ db.owner = Test
    /\ pc \in {"validate", "decode", "simulate", "execute"} =>
           data # None /\ (reuse \/ data.owner = Test)
    /\ pc \in {"decode", "simulate", "execute"} =>
           (Test \in Expects => data.content # "empty")
    /\ pc \in {"simulate", "execute"} => engine = {Test}

\* The tests judged are those before the current one, with it from the stop
\* of its server on; only a run that has ended is a success.
Judged(t) == t \in failed \/ \E p \in passed : p.test = t

VerdictInv ==
    /\ \A p \in passed : p.test \in SuiteTests \ failed
    /\ pc \notin {"idle", "stop", "join", "unwind"} =>
           \A i \in DOMAIN Suite : Judged(Suite[i]) <=> i < k
    /\ pc \in {"stop", "join"} =>
           \A i \in DOMAIN Suite : Judged(Suite[i]) <=> i <= k
    /\ pc # "idle" => result = "none"
    /\ result = "ok" => failed = {} /\ \A t \in SuiteTests : Judged(t)

LifecycleInv == ThreadInv /\ FilesInv /\ TestInv /\ VerdictInv

-----------------------------------------------------------------------------
(* Liveness.                                                                 *)

\* A range run ends, whatever its servers, its RPC thread and its tests do:
\* the join always meets a thread that was told to stop.
RunEnds == (pc # "idle") ~> (pc = "idle")
=============================================================================
