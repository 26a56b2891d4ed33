---------------------------- MODULE HarnessProofs ----------------------------
(***************************************************************************)
(* The lifecycle of range runs, for any suite and any number of runs, and   *)
(* of full runs; both modes on one machine are the runs of MCHarness.       *)
(***************************************************************************)
EXTENDS MCHarness, TLAPS

Inv == /\ TypeOK /\ LifecycleInv
       /\ ServerAccounted /\ AnsweredByOwnServer /\ PassRestsOnOwnState

(* The test at an index, and its start block, are what the types say.       *)
LEMMA TestType ==
    ASSUME NEW i \in DOMAIN Suite
    PROVE  /\ Suite[i] \in SuiteTests
           /\ StartBlock[Suite[i]] \in Blocks
           /\ DOMAIN Suite = 1 .. Len(Suite)
           /\ Len(Suite) \in Nat
BY SuiteAssumption DEF SuiteTests, Blocks

(* A suite has a first test, and the committed blocks are not an absent file. *)
LEMMA FirstTest == 1 \in DOMAIN Suite /\ Original \in Blocks /\ Original # None
BY SuiteAssumption DEF SuiteTests, Blocks

(* Every step keeps the types; the record sets need a step of their own.    *)
LEMMA TypeStep ==
    ASSUME Inv, [Next]_vars
    PROVE  TypeOK'
<1> USE DEF Inv, TypeOK, Answer, LifecycleInv, ThreadInv, FilesInv, InTest, hostVars, rpcVars, testVars, runVars
<1>1. CASE StartRun
    BY <1>1, TestType, FirstTest, SuiteAssumption DEF StartRun
<1>2. CASE Kill
    BY <1>2, TestType, FirstTest, SuiteAssumption DEF Kill, Leave
<1>3. CASE EmptyDatabase
    BY <1>3, TestType, FirstTest, SuiteAssumption DEF EmptyDatabase, Test
<1>4. CASE Abort
    BY <1>4, TestType, FirstTest, SuiteAssumption DEF Abort, Leave
<1>5. CASE BackupYaml
    BY <1>5, TestType, FirstTest, SuiteAssumption DEF BackupYaml, Build
<1>6. CASE ModifyYaml
    BY <1>6, TestType, FirstTest, SuiteAssumption DEF ModifyYaml, Build, Test
<1>7. CASE PackSpkg
    BY <1>7, TestType, FirstTest, SuiteAssumption DEF PackSpkg, Build
<1>8. CASE RestoreYaml
    BY <1>8, TestType, FirstTest, SuiteAssumption DEF RestoreYaml, Build
<1>9. CASE RemoveBackup
    BY <1>9, TestType, FirstTest, SuiteAssumption DEF RemoveBackup, Build
<1>10. CASE SpawnIndexer
    BY <1>10, TestType, FirstTest, SuiteAssumption DEF SpawnIndexer
<1>11. CASE StartServer
    BY <1>11, TestType, FirstTest, SuiteAssumption DEF StartServer
<1>12. CASE StopServer
    BY <1>12, TestType, FirstTest, SuiteAssumption DEF StopServer, Leave
<1>13. CASE JoinThread
    BY <1>13, TestType, FirstTest, SuiteAssumption DEF JoinThread, Leave
<1>14. CASE Fetch
    BY <1>14, TestType, FirstTest, SuiteAssumption DEF Fetch
<1>15. CASE Validate
    BY <1>15, TestType, FirstTest, SuiteAssumption DEF Validate
<1>16. CASE Decode
    BY <1>16, TestType, FirstTest, SuiteAssumption DEF Decode, Test
<1>17. CASE Simulate
    BY <1>17, TestType, FirstTest, SuiteAssumption DEF Simulate
<1>18. CASE Execute
    BY <1>18, TestType, FirstTest, SuiteAssumption DEF Execute
<1>19. CASE FailTest
    BY <1>19, TestType, FirstTest, SuiteAssumption DEF FailTest, Test
<1>20. CASE PanicTest
    BY <1>20, TestType, FirstTest, SuiteAssumption DEF PanicTest
<1>21. CASE Unwound
    BY <1>21, TestType, FirstTest, SuiteAssumption DEF Unwound, Leave
<1>22. CASE IndexerExits
    BY <1>22, TestType, FirstTest, SuiteAssumption DEF IndexerExits
<1>23. CASE SpawnServer
    <2>1. runs \in 1 .. MaxRuns /\ k \in DOMAIN Suite
        BY <1>23 DEF SpawnServer
    <2>2. [run |-> runs, test |-> k, up |-> FALSE] \in
              [run : 1 .. MaxRuns, test : DOMAIN Suite, up : BOOLEAN]
        BY <2>1
    <2>3. servers' \subseteq [run : 1 .. MaxRuns, test : DOMAIN Suite, up : BOOLEAN]
        BY <1>23, <2>2 DEF SpawnServer
    <2>4. thread' \in {"waiting", "panicked"} /\ chan' \in {chan, "closed"}
        BY <1>23 DEF SpawnServer
    <2>5. QED
        BY <1>23, <2>3, <2>4 DEF SpawnServer
<1>24. CASE StopRpcThread
    BY <1>24, TestType, FirstTest, SuiteAssumption DEF StopRpcThread, Of, Mine
<1>25. ASSUME NEW s \in servers, ServerListens(s) PROVE TypeOK'
    <2>1. [s EXCEPT !.up = TRUE] \in
              [run : 1 .. MaxRuns, test : DOMAIN Suite, up : BOOLEAN]
        OBVIOUS
    <2>2. servers' \subseteq [run : 1 .. MaxRuns, test : DOMAIN Suite, up : BOOLEAN]
        BY <1>25, <2>1 DEF ServerListens
    <2>3. QED
        BY <1>25, <2>2 DEF ServerListens
<1>26. ASSUME NEW s \in servers, ServerExits(s) PROVE TypeOK'
    BY <1>26, TestType, FirstTest, SuiteAssumption DEF ServerExits
<1>27. CASE UNCHANGED vars
    BY <1>27, TestType, FirstTest, SuiteAssumption DEF vars
<1>28. QED
    BY <1>1, <1>2, <1>3, <1>4, <1>5, <1>6, <1>7, <1>8, <1>9, <1>10, <1>11,
       <1>12, <1>13, <1>14, <1>15, <1>16, <1>17, <1>18, <1>19, <1>20, <1>21,
       <1>22, <1>23, <1>24, <1>25, <1>26, <1>27
    DEF Next, MainStep, RpcThread

(* The RPC thread lives from the start of its server to the join.           *)
LEMMA ThreadStep ==
    ASSUME Inv, [Next]_vars
    PROVE  ThreadInv'
<1> USE DEF Inv, TypeOK, LifecycleInv, ThreadInv, InTest, hostVars, rpcVars, testVars, runVars
<1>1. CASE StartRun
    BY <1>1, SuiteAssumption DEF StartRun
<1>2. CASE Kill
    BY <1>2, SuiteAssumption DEF Kill, Leave
<1>3. CASE EmptyDatabase
    BY <1>3, SuiteAssumption DEF EmptyDatabase
<1>4. CASE Abort
    BY <1>4, SuiteAssumption DEF Abort, Leave
<1>5. CASE BackupYaml
    BY <1>5, SuiteAssumption DEF BackupYaml, Build
<1>6. CASE ModifyYaml
    BY <1>6, SuiteAssumption DEF ModifyYaml, Build
<1>7. CASE PackSpkg
    BY <1>7, SuiteAssumption DEF PackSpkg, Build
<1>8. CASE RestoreYaml
    BY <1>8, SuiteAssumption DEF RestoreYaml, Build
<1>9. CASE RemoveBackup
    BY <1>9, SuiteAssumption DEF RemoveBackup, Build
<1>10. CASE SpawnIndexer
    BY <1>10, SuiteAssumption DEF SpawnIndexer
<1>11. CASE StartServer
    BY <1>11, SuiteAssumption DEF StartServer
<1>12. CASE StopServer
    BY <1>12, SuiteAssumption DEF StopServer, Leave
<1>13. CASE JoinThread
    BY <1>13, SuiteAssumption DEF JoinThread, Leave
<1>14. CASE Fetch
    BY <1>14, SuiteAssumption DEF Fetch
<1>15. CASE Validate
    BY <1>15, SuiteAssumption DEF Validate
<1>16. CASE Decode
    BY <1>16, SuiteAssumption DEF Decode
<1>17. CASE Simulate
    BY <1>17, SuiteAssumption DEF Simulate
<1>18. CASE Execute
    BY <1>18, SuiteAssumption DEF Execute
<1>19. CASE FailTest
    BY <1>19, SuiteAssumption DEF FailTest
<1>20. CASE PanicTest
    BY <1>20, SuiteAssumption DEF PanicTest
<1>21. CASE Unwound
    BY <1>21, SuiteAssumption DEF Unwound, Leave
<1>22. CASE IndexerExits
    BY <1>22, SuiteAssumption DEF IndexerExits
<1>23. CASE SpawnServer
    BY <1>23, SuiteAssumption DEF SpawnServer
<1>24. CASE StopRpcThread
    BY <1>24, SuiteAssumption DEF StopRpcThread
<1>25. ASSUME NEW s \in servers, ServerListens(s) PROVE ThreadInv'
    BY <1>25, SuiteAssumption DEF ServerListens
<1>26. ASSUME NEW s \in servers, ServerExits(s) PROVE ThreadInv'
    BY <1>26, SuiteAssumption DEF ServerExits
<1>27. CASE UNCHANGED vars
    BY <1>27, SuiteAssumption DEF vars
<1>28. QED
    BY <1>1, <1>2, <1>3, <1>4, <1>5, <1>6, <1>7, <1>8, <1>9, <1>10, <1>11,
       <1>12, <1>13, <1>14, <1>15, <1>16, <1>17, <1>18, <1>19, <1>20, <1>21,
       <1>22, <1>23, <1>24, <1>25, <1>26, <1>27
    DEF Next, MainStep, RpcThread

(* The steps of build_spkg, and a run left in the middle of them.           *)
LEMMA FilesStep ==
    ASSUME Inv, [Next]_vars
    PROVE  FilesInv'
<1> USE DEF Inv, TypeOK, LifecycleInv, FilesInv, InTest, hostVars, rpcVars, testVars, runVars
<1>1. CASE StartRun
    BY <1>1, FirstTest, SuiteAssumption DEF StartRun
<1>2. CASE Kill
    BY <1>2, FirstTest, SuiteAssumption DEF Kill, Leave
<1>3. CASE EmptyDatabase
    BY <1>3, FirstTest, SuiteAssumption DEF EmptyDatabase
<1>4. CASE Abort
    BY <1>4, FirstTest, SuiteAssumption DEF Abort, Leave
<1>5. CASE BackupYaml
    BY <1>5, FirstTest, SuiteAssumption DEF BackupYaml, Build
<1>6. CASE ModifyYaml
    BY <1>6, FirstTest, SuiteAssumption DEF ModifyYaml, Build
<1>7. CASE PackSpkg
    BY <1>7, FirstTest, SuiteAssumption DEF PackSpkg, Build
<1>8. CASE RestoreYaml
    BY <1>8, FirstTest, SuiteAssumption DEF RestoreYaml, Build
<1>9. CASE RemoveBackup
    BY <1>9, FirstTest, SuiteAssumption DEF RemoveBackup, Build
<1>10. CASE SpawnIndexer
    BY <1>10, FirstTest, SuiteAssumption DEF SpawnIndexer
<1>11. CASE StartServer
    BY <1>11, FirstTest, SuiteAssumption DEF StartServer
<1>12. CASE StopServer
    BY <1>12, FirstTest, SuiteAssumption DEF StopServer, Leave
<1>13. CASE JoinThread
    BY <1>13, FirstTest, SuiteAssumption DEF JoinThread, Leave
<1>14. CASE Fetch
    BY <1>14, FirstTest, SuiteAssumption DEF Fetch
<1>15. CASE Validate
    BY <1>15, FirstTest, SuiteAssumption DEF Validate
<1>16. CASE Decode
    BY <1>16, FirstTest, SuiteAssumption DEF Decode
<1>17. CASE Simulate
    BY <1>17, FirstTest, SuiteAssumption DEF Simulate
<1>18. CASE Execute
    BY <1>18, FirstTest, SuiteAssumption DEF Execute
<1>19. CASE FailTest
    BY <1>19, FirstTest, SuiteAssumption DEF FailTest
<1>20. CASE PanicTest
    BY <1>20, FirstTest, SuiteAssumption DEF PanicTest
<1>21. CASE Unwound
    BY <1>21, FirstTest, SuiteAssumption DEF Unwound, Leave
<1>22. CASE IndexerExits
    BY <1>22, FirstTest, SuiteAssumption DEF IndexerExits
<1>23. CASE SpawnServer
    BY <1>23, FirstTest, SuiteAssumption DEF SpawnServer
<1>24. CASE StopRpcThread
    BY <1>24, FirstTest, SuiteAssumption DEF StopRpcThread
<1>25. ASSUME NEW s \in servers, ServerListens(s) PROVE FilesInv'
    BY <1>25, FirstTest, SuiteAssumption DEF ServerListens
<1>26. ASSUME NEW s \in servers, ServerExits(s) PROVE FilesInv'
    BY <1>26, FirstTest, SuiteAssumption DEF ServerExits
<1>27. CASE UNCHANGED vars
    BY <1>27, FirstTest, SuiteAssumption DEF vars
<1>28. QED
    BY <1>1, <1>2, <1>3, <1>4, <1>5, <1>6, <1>7, <1>8, <1>9, <1>10, <1>11,
       <1>12, <1>13, <1>14, <1>15, <1>16, <1>17, <1>18, <1>19, <1>20, <1>21,
       <1>22, <1>23, <1>24, <1>25, <1>26, <1>27
    DEF Next, MainStep, RpcThread

(* What a step of run_test may rely on; Fetch copies from the database.     *)
LEMMA TestStep ==
    ASSUME Inv, [Next]_vars
    PROVE  TestInv'
<1> USE DEF Inv, TypeOK, LifecycleInv, TestInv, InTest, Test, hostVars, rpcVars, testVars, runVars
<1>1. CASE StartRun
    BY <1>1 DEF StartRun
<1>2. CASE Kill
    BY <1>2 DEF Kill, Leave
<1>3. CASE EmptyDatabase
    BY <1>3 DEF EmptyDatabase
<1>4. CASE Abort
    BY <1>4 DEF Abort, Leave
<1>5. CASE BackupYaml
    BY <1>5 DEF BackupYaml, Build
<1>6. CASE ModifyYaml
    BY <1>6 DEF ModifyYaml, Build
<1>7. CASE PackSpkg
    BY <1>7 DEF PackSpkg, Build
<1>8. CASE RestoreYaml
    BY <1>8 DEF RestoreYaml, Build
<1>9. CASE RemoveBackup
    BY <1>9 DEF RemoveBackup, Build
<1>10. CASE SpawnIndexer
    BY <1>10 DEF SpawnIndexer
<1>11. CASE StartServer
    BY <1>11 DEF StartServer
<1>12. CASE StopServer
    BY <1>12 DEF StopServer, Leave
<1>13. CASE JoinThread
    BY <1>13 DEF JoinThread, Leave
<1>14. CASE Fetch
    <2>1. PICK s \in servers :
              data' = [run |-> s.run, test |-> s.test,
                       owner |-> db.owner, content |-> db.content]
        BY <1>14 DEF Fetch
    <2>2. data' \in Answer /\ data'.owner = db.owner
        BY <1>14, <2>1 DEF Fetch, Answer
    <2>3. QED
        BY <1>14, <2>2, AnswerAssumption DEF Fetch
<1>15. CASE Validate
    BY <1>15 DEF Validate
<1>16. CASE Decode
    BY <1>16 DEF Decode
<1>17. CASE Simulate
    BY <1>17 DEF Simulate
<1>18. CASE Execute
    BY <1>18 DEF Execute
<1>19. CASE FailTest
    BY <1>19 DEF FailTest
<1>20. CASE PanicTest
    BY <1>20 DEF PanicTest
<1>21. CASE Unwound
    BY <1>21 DEF Unwound, Leave
<1>22. CASE IndexerExits
    BY <1>22 DEF IndexerExits
<1>23. CASE SpawnServer
    BY <1>23 DEF SpawnServer
<1>24. CASE StopRpcThread
    BY <1>24 DEF StopRpcThread
<1>25. ASSUME NEW s \in servers, ServerListens(s) PROVE TestInv'
    BY <1>25 DEF ServerListens
<1>26. ASSUME NEW s \in servers, ServerExits(s) PROVE TestInv'
    BY <1>26 DEF ServerExits
<1>27. CASE UNCHANGED vars
    BY <1>27 DEF vars
<1>28. QED
    BY <1>1, <1>2, <1>3, <1>4, <1>5, <1>6, <1>7, <1>8, <1>9, <1>10, <1>11,
       <1>12, <1>13, <1>14, <1>15, <1>16, <1>17, <1>18, <1>19, <1>20, <1>21,
       <1>22, <1>23, <1>24, <1>25, <1>26, <1>27
    DEF Next, MainStep, RpcThread

(* A server's thread is waiting until it has killed it, or the run is broken. *)
LEMMA ServersStep ==
    ASSUME Inv, [Next]_vars
    PROVE  ServerAccounted'
<1> USE DEF Inv, TypeOK, LifecycleInv, ThreadInv, ServerAccounted, Of, Mine, InTest, hostVars, rpcVars, testVars, runVars
<1>1. CASE StartRun
    BY <1>1 DEF StartRun
<1>2. CASE Kill
    BY <1>2 DEF Kill, Leave
<1>3. CASE EmptyDatabase
    BY <1>3 DEF EmptyDatabase
<1>4. CASE Abort
    BY <1>4 DEF Abort, Leave
<1>5. CASE BackupYaml
    BY <1>5 DEF BackupYaml, Build
<1>6. CASE ModifyYaml
    BY <1>6 DEF ModifyYaml, Build
<1>7. CASE PackSpkg
    BY <1>7 DEF PackSpkg, Build
<1>8. CASE RestoreYaml
    BY <1>8 DEF RestoreYaml, Build
<1>9. CASE RemoveBackup
    BY <1>9 DEF RemoveBackup, Build
<1>10. CASE SpawnIndexer
    BY <1>10 DEF SpawnIndexer
<1>11. CASE StartServer
    BY <1>11 DEF StartServer
<1>12. CASE StopServer
    BY <1>12 DEF StopServer, Leave
<1>13. CASE JoinThread
    BY <1>13 DEF JoinThread, Leave
<1>14. CASE Fetch
    BY <1>14 DEF Fetch
<1>15. CASE Validate
    BY <1>15 DEF Validate
<1>16. CASE Decode
    BY <1>16 DEF Decode
<1>17. CASE Simulate
    BY <1>17 DEF Simulate
<1>18. CASE Execute
    BY <1>18 DEF Execute
<1>19. CASE FailTest
    BY <1>19 DEF FailTest
<1>20. CASE PanicTest
    BY <1>20 DEF PanicTest
<1>21. CASE Unwound
    BY <1>21 DEF Unwound, Leave
<1>22. CASE IndexerExits
    BY <1>22 DEF IndexerExits
<1>23. CASE SpawnServer
    BY <1>23 DEF SpawnServer
<1>24. CASE StopRpcThread
    BY <1>24 DEF StopRpcThread
<1>25. ASSUME NEW s \in servers, ServerListens(s) PROVE ServerAccounted'
    BY <1>25 DEF ServerListens
<1>26. ASSUME NEW s \in servers, ServerExits(s) PROVE ServerAccounted'
    BY <1>26 DEF ServerExits
<1>27. CASE UNCHANGED vars
    BY <1>27 DEF vars
<1>28. QED
    BY <1>1, <1>2, <1>3, <1>4, <1>5, <1>6, <1>7, <1>8, <1>9, <1>10, <1>11,
       <1>12, <1>13, <1>14, <1>15, <1>16, <1>17, <1>18, <1>19, <1>20, <1>21,
       <1>22, <1>23, <1>24, <1>25, <1>26, <1>27
    DEF Next, MainStep, RpcThread

(* With no broken run the only server alive is the current test's.          *)
LEMMA AnswerStep ==
    ASSUME Inv, [Next]_vars
    PROVE  AnsweredByOwnServer'
<1> USE DEF Inv, TypeOK, LifecycleInv, ThreadInv, ServerAccounted, AnsweredByOwnServer, Of, Mine, InTest, hostVars, rpcVars, testVars, runVars
<1>1. CASE StartRun
    BY <1>1 DEF StartRun
<1>2. CASE Kill
    BY <1>2 DEF Kill, Leave
<1>3. CASE EmptyDatabase
    BY <1>3 DEF EmptyDatabase
<1>4. CASE Abort
    BY <1>4 DEF Abort, Leave
<1>5. CASE BackupYaml
    BY <1>5 DEF BackupYaml, Build
<1>6. CASE ModifyYaml
    BY <1>6 DEF ModifyYaml, Build
<1>7. CASE PackSpkg
    BY <1>7 DEF PackSpkg, Build
<1>8. CASE RestoreYaml
    BY <1>8 DEF RestoreYaml, Build
<1>9. CASE RemoveBackup
    BY <1>9 DEF RemoveBackup, Build
<1>10. CASE SpawnIndexer
    BY <1>10 DEF SpawnIndexer
<1>11. CASE StartServer
    BY <1>11 DEF StartServer
<1>12. CASE StopServer
    BY <1>12 DEF StopServer, Leave
<1>13. CASE JoinThread
    BY <1>13 DEF JoinThread, Leave
<1>14. CASE Fetch
    BY <1>14 DEF Fetch
<1>15. CASE Validate
    BY <1>15 DEF Validate
<1>16. CASE Decode
    BY <1>16 DEF Decode
<1>17. CASE Simulate
    BY <1>17 DEF Simulate
<1>18. CASE Execute
    BY <1>18 DEF Execute
<1>19. CASE FailTest
    BY <1>19 DEF FailTest
<1>20. CASE PanicTest
    BY <1>20 DEF PanicTest
<1>21. CASE Unwound
    BY <1>21 DEF Unwound, Leave
<1>22. CASE IndexerExits
    BY <1>22 DEF IndexerExits
<1>23. CASE SpawnServer
    BY <1>23 DEF SpawnServer
<1>24. CASE StopRpcThread
    BY <1>24 DEF StopRpcThread
<1>25. ASSUME NEW s \in servers, ServerListens(s) PROVE AnsweredByOwnServer'
    BY <1>25 DEF ServerListens
<1>26. ASSUME NEW s \in servers, ServerExits(s) PROVE AnsweredByOwnServer'
    BY <1>26 DEF ServerExits
<1>27. CASE UNCHANGED vars
    BY <1>27 DEF vars
<1>28. QED
    BY <1>1, <1>2, <1>3, <1>4, <1>5, <1>6, <1>7, <1>8, <1>9, <1>10, <1>11,
       <1>12, <1>13, <1>14, <1>15, <1>16, <1>17, <1>18, <1>19, <1>20, <1>21,
       <1>22, <1>23, <1>24, <1>25, <1>26, <1>27
    DEF Next, MainStep, RpcThread

(* Execute records what TestInv says; nothing else adds to passed.          *)
LEMMA PassStep ==
    ASSUME Inv, [Next]_vars
    PROVE  PassRestsOnOwnState'
<1> USE DEF Inv, TypeOK, LifecycleInv, TestInv, PassRestsOnOwnState, InTest, Test, hostVars, rpcVars, testVars, runVars
<1>1. CASE StartRun
    BY <1>1 DEF StartRun
<1>2. CASE Kill
    BY <1>2 DEF Kill, Leave
<1>3. CASE EmptyDatabase
    BY <1>3 DEF EmptyDatabase
<1>4. CASE Abort
    BY <1>4 DEF Abort, Leave
<1>5. CASE BackupYaml
    BY <1>5 DEF BackupYaml, Build
<1>6. CASE ModifyYaml
    BY <1>6 DEF ModifyYaml, Build
<1>7. CASE PackSpkg
    BY <1>7 DEF PackSpkg, Build
<1>8. CASE RestoreYaml
    BY <1>8 DEF RestoreYaml, Build
<1>9. CASE RemoveBackup
    BY <1>9 DEF RemoveBackup, Build
<1>10. CASE SpawnIndexer
    BY <1>10 DEF SpawnIndexer
<1>11. CASE StartServer
    BY <1>11 DEF StartServer
<1>12. CASE StopServer
    BY <1>12 DEF StopServer, Leave
<1>13. CASE JoinThread
    BY <1>13 DEF JoinThread, Leave
<1>14. CASE Fetch
    BY <1>14 DEF Fetch
<1>15. CASE Validate
    BY <1>15 DEF Validate
<1>16. CASE Decode
    BY <1>16 DEF Decode
<1>17. CASE Simulate
    BY <1>17 DEF Simulate
<1>18. CASE Execute
    BY <1>18 DEF Execute
<1>19. CASE FailTest
    BY <1>19 DEF FailTest
<1>20. CASE PanicTest
    BY <1>20 DEF PanicTest
<1>21. CASE Unwound
    BY <1>21 DEF Unwound, Leave
<1>22. CASE IndexerExits
    BY <1>22 DEF IndexerExits
<1>23. CASE SpawnServer
    BY <1>23 DEF SpawnServer
<1>24. CASE StopRpcThread
    BY <1>24 DEF StopRpcThread
<1>25. ASSUME NEW s \in servers, ServerListens(s) PROVE PassRestsOnOwnState'
    BY <1>25 DEF ServerListens
<1>26. ASSUME NEW s \in servers, ServerExits(s) PROVE PassRestsOnOwnState'
    BY <1>26 DEF ServerExits
<1>27. CASE UNCHANGED vars
    BY <1>27 DEF vars
<1>28. QED
    BY <1>1, <1>2, <1>3, <1>4, <1>5, <1>6, <1>7, <1>8, <1>9, <1>10, <1>11,
       <1>12, <1>13, <1>14, <1>15, <1>16, <1>17, <1>18, <1>19, <1>20, <1>21,
       <1>22, <1>23, <1>24, <1>25, <1>26, <1>27
    DEF Next, MainStep, RpcThread

(* Execute and FailTest judge the current test and no other: names differ.   *)
LEMMA VerdictStep ==
    ASSUME Inv, [Next]_vars
    PROVE  VerdictInv'
<1> USE DEF Inv, TypeOK, LifecycleInv, VerdictInv, Judged, InTest, Test, hostVars, rpcVars, testVars, runVars
<1>1. CASE StartRun
    BY <1>1, TestType, FirstTest DEF StartRun
<1>2. CASE Kill
    BY <1>2 DEF Kill, Leave
<1>3. CASE EmptyDatabase
    BY <1>3 DEF EmptyDatabase
<1>4. CASE Abort
    BY <1>4 DEF Abort, Leave
<1>5. CASE BackupYaml
    BY <1>5 DEF BackupYaml, Build
<1>6. CASE ModifyYaml
    BY <1>6 DEF ModifyYaml, Build
<1>7. CASE PackSpkg
    BY <1>7 DEF PackSpkg, Build
<1>8. CASE RestoreYaml
    BY <1>8 DEF RestoreYaml, Build
<1>9. CASE RemoveBackup
    BY <1>9 DEF RemoveBackup, Build
<1>10. CASE SpawnIndexer
    BY <1>10 DEF SpawnIndexer
<1>11. CASE StartServer
    BY <1>11 DEF StartServer
<1>12. CASE StopServer
    BY <1>12 DEF StopServer, Leave
<1>13. CASE JoinThread
    BY <1>13, SuiteAssumption, TestType DEF SuiteTests, JoinThread, Leave
<1>14. CASE Fetch
    BY <1>14 DEF Fetch
<1>15. CASE Validate
    BY <1>15 DEF Validate
<1>16. CASE Decode
    BY <1>16 DEF Decode
<1>17. CASE Simulate
    BY <1>17 DEF Simulate
<1>18. CASE Execute
    <2>1. PICK outcome :
              passed' = passed \union
                  {[test |-> Suite[k], owner |-> data.owner, content |-> data.content,
                    engine |-> engine, executed |-> outcome]}
        BY <1>18 DEF Execute
    <2>2. Suite[k] \in SuiteTests \ failed
        BY <1>18, TestType DEF Execute
    <2>3. \A p \in passed' : p.test \in SuiteTests \ failed
        BY <2>1, <2>2
    <2>4. \A t : Judged(t)' <=> Judged(t) \/ t = Suite[k]
        <3> DEFINE new == [test |-> Suite[k], owner |-> data.owner,
                           content |-> data.content, engine |-> engine,
                           executed |-> outcome]
        <3>1. passed' = passed \union {new} /\ new.test = Suite[k]
            BY <2>1
        <3>2. failed' = failed
            BY <1>18 DEF Execute
        <3> HIDE DEF new
        <3>3. ASSUME NEW t
              PROVE  (\E p \in passed' : p.test = t) <=>
                     (\E p \in passed : p.test = t) \/ t = Suite[k]
            BY <3>1
        <3>4. QED
            BY <3>2, <3>3
    <2>5. \A i \in DOMAIN Suite : Judged(Suite[i])' <=> i <= k
        <3> HIDE DEF Judged
        <3>1. \A i \in DOMAIN Suite : Judged(Suite[i]) <=> i < k
            BY <1>18 DEF Execute
        <3>2. \A i \in DOMAIN Suite : i \in Nat /\ (Suite[i] = Suite[k] <=> i = k)
            BY SuiteAssumption, TestType
        <3>3. k \in Nat
            BY TestType
        <3>4. QED
            BY <2>4, <3>1, <3>2, <3>3
    <2>6. QED
        BY <1>18, <2>3, <2>5 DEF Execute
<1>19. CASE FailTest
    BY <1>19, SuiteAssumption, TestType DEF FailTest
<1>20. CASE PanicTest
    BY <1>20 DEF PanicTest
<1>21. CASE Unwound
    BY <1>21 DEF Unwound, Leave
<1>22. CASE IndexerExits
    BY <1>22 DEF IndexerExits
<1>23. CASE SpawnServer
    BY <1>23 DEF SpawnServer
<1>24. CASE StopRpcThread
    BY <1>24 DEF StopRpcThread
<1>25. ASSUME NEW s \in servers, ServerListens(s) PROVE VerdictInv'
    BY <1>25 DEF ServerListens
<1>26. ASSUME NEW s \in servers, ServerExits(s) PROVE VerdictInv'
    BY <1>26 DEF ServerExits
<1>27. CASE UNCHANGED vars
    BY <1>27 DEF vars
<1>28. QED
    BY <1>1, <1>2, <1>3, <1>4, <1>5, <1>6, <1>7, <1>8, <1>9, <1>10, <1>11,
       <1>12, <1>13, <1>14, <1>15, <1>16, <1>17, <1>18, <1>19, <1>20, <1>21,
       <1>22, <1>23, <1>24, <1>25, <1>26, <1>27
    DEF Next, MainStep, RpcThread

(* On a fresh machine there are no servers, no answers and no verdicts.     *)
LEMMA InitInv == Init => Inv
<1> SUFFICES ASSUME Init PROVE Inv
    OBVIOUS
<1>1. TypeOK
    <2>1. files \in [yaml : Blocks, backup : Blocks \union {None},
                    spkg : Blocks \union {None}]
        BY FirstTest DEF Init
    <2>2. db \in [owner : SuiteTests \union {None},
                 content : {"missing", "empty", "partial", "full"}]
        BY DEF Init
    <2>3. runs \in 0 .. MaxRuns
        BY SuiteAssumption DEF Init
    <2>4. QED
        BY <2>1, <2>2, <2>3, FirstTest DEF Init, TypeOK
<1>2. LifecycleInv
    BY FirstTest DEF Init, LifecycleInv, ThreadInv, FilesInv, TestInv, VerdictInv, InTest
<1>3. ServerAccounted /\ AnsweredByOwnServer /\ PassRestsOnOwnState
    BY DEF Init, ServerAccounted, AnsweredByOwnServer, PassRestsOnOwnState
<1>4. QED
    BY <1>1, <1>2, <1>3 DEF Inv

LEMMA InvStep == Inv /\ [Next]_vars => Inv'
    BY TypeStep, ThreadStep, FilesStep, TestStep, VerdictStep,
       ServersStep, AnswerStep, PassStep
    DEF Inv, LifecycleInv

LEMMA Invariance == Spec => []Inv
    BY InitInv, InvStep, PTL DEF Spec

LEMMA InvYaml == Inv => YamlRecoverable
    BY DEF Inv, TypeOK, InTest, LifecycleInv, FilesInv, YamlRecoverable

LEMMA InvSuccess == Inv => OkMeansAllPassed
    BY DEF Inv, LifecycleInv, VerdictInv, Judged, OkMeansAllPassed

-----------------------------------------------------------------------------
(* The types are right in every run of every suite.                         *)
THEOREM TypeCorrect == Spec => []TypeOK
<1>1. Inv => TypeOK
    BY DEF Inv
<1>2. QED
    BY <1>1, Invariance, PTL

(* start, run_full_test, run_range_test and build_spkg: in the life of a    *)
(* run, its thread and channel, the files it has written, what its tests    *)
(* have established and the verdicts it has given go together.              *)
THEOREM RunsKeepTheirOrder == Spec => []LifecycleInv
<1>1. Inv => LifecycleInv
    BY DEF Inv
<1>2. QED
    BY <1>1, Invariance, PTL

(* stop_rpc_server and the thread it joins: no path of a run but a kill or  *)
(* a panic leaves a server behind.                                          *)
THEOREM ServersAreAccounted == Spec => []ServerAccounted
<1>1. Inv => ServerAccounted
    BY DEF Inv
<1>2. QED
    BY <1>1, Invariance, PTL

(* fetch_from_tycho_rpc: a test is answered by the server started for it.   *)
THEOREM AnswersAreOwn == Spec => []AnsweredByOwnServer
<1>1. Inv => AnsweredByOwnServer
    BY DEF Inv
<1>2. QED
    BY <1>1, Invariance, PTL

(* build_spkg: the text of a clean substreams.yaml is never lost.           *)
THEOREM YamlIsRecoverable == Spec => []YamlRecoverable
    BY InvYaml, Invariance, PTL

(* run_test: a test passes on its own database, components and engine state. *)
THEOREM PassesAreOwn == Spec => []PassRestsOnOwnState
<1>1. Inv => PassRestsOnOwnState
    BY DEF Inv
<1>2. QED
    BY <1>1, Invariance, PTL

(* run_tests_in_range: a run that tested something and succeeds passed      *)
(* every test of the suite.                                                 *)
THEOREM SuccessIsHonest == Spec => []OkMeansAllPassed
    BY InvSuccess, Invariance, PTL

-----------------------------------------------------------------------------
(* Full mode.                                                               *)

(* What has executions prepared and what is still to be simulated make up   *)
(* the update at hand, and a run that does anything has been counted.       *)
FullInv ==
    /\ Full!TypeOK
    /\ Full!SimulatedSoFar
    /\ Full!WholeUpdatesExecuted
    /\ step # "idle" \/ index # "none" => run \in 1 .. MaxRuns

LEMMA FullInit == Full!Init => FullInv
<1> SUFFICES ASSUME Full!Init PROVE FullInv
    OBVIOUS
<1>1. run = 0 /\ step = "idle" /\ index = "none" /\ indexers = {} /\ indexed = {}
    BY DEF Full!Init
<1>2. reused = FALSE /\ announced = {} /\ known = {} /\ update = None
          /\ todo = {} /\ execution_data = {}
    BY DEF Full!Init
<1>3. Full!TypeOK
    <2>1. run \in 0 .. MaxRuns
        BY <1>1, SuiteAssumption
    <2>2. reused \in BOOLEAN
        BY <1>2
    <2>3. indexers \subseteq [run : 1 .. MaxRuns, up : BOOLEAN]
        BY <1>1
    <2>4. indexed \subseteq {c1, c2} /\ known \subseteq {c1, c2}
          /\ todo \subseteq {c1, c2} /\ execution_data \subseteq {c1, c2}
        BY <1>1, <1>2
    <2> QED
        BY <1>1, <1>2, <2>1, <2>2, <2>3, <2>4 DEF Full!TypeOK
<1> QED
    BY <1>1, <1>2, <1>3 DEF FullInv, Full!SimulatedSoFar, Full!WholeUpdatesExecuted

(* run and run_full_test: steps that leave the stream as it is.             *)
LEMMA FullRunStep ==
    ASSUME FullInv,
           \/ Full!StartRun \/ Full!Kill \/ Full!StreamEnds \/ Full!Fail
           \/ Full!BuildSpkg \/ Full!EmptyDatabase \/ Full!CreateClient
           \/ Full!Synced \/ Full!TvlImport \/ Full!OpenStream
    PROVE  FullInv'
<1> USE SuiteAssumption DEF FullInv, Full!TypeOK, Full!SimulatedSoFar, Full!WholeUpdatesExecuted,
        Full!Go, Full!Leave, Full!indexVars, Full!liveVars
<1>1. CASE Full!StartRun
    BY <1>1 DEF Full!StartRun
<1>2. CASE Full!Kill
    BY <1>2 DEF Full!Kill
<1>3. CASE Full!StreamEnds
    BY <1>3 DEF Full!StreamEnds
<1>4. CASE Full!Fail
    BY <1>4 DEF Full!Fail
<1>5. CASE Full!BuildSpkg
    BY <1>5 DEF Full!BuildSpkg
<1>6. CASE Full!EmptyDatabase
    BY <1>6 DEF Full!EmptyDatabase
<1>7. CASE Full!CreateClient
    BY <1>7 DEF Full!CreateClient
<1>8. CASE Full!Synced
    BY <1>8 DEF Full!Synced
<1>9. CASE Full!TvlImport
    BY <1>9 DEF Full!TvlImport
<1>10. CASE Full!OpenStream
    BY <1>10 DEF Full!OpenStream
<1> QED
    BY <1>1, <1>2, <1>3, <1>4, <1>5, <1>6, <1>7, <1>8, <1>9, <1>10

(* The index thread and the indexers: the main thread sees the database.    *)
LEMMA FullIndexStep ==
    ASSUME FullInv,
           \/ Full!IndexThread \/ Full!IndexerStep
           \/ \E i \in indexers : Full!Exits(i)
    PROVE  FullInv'
<1> USE DEF FullInv, Full!TypeOK, Full!SimulatedSoFar, Full!WholeUpdatesExecuted, Full!liveVars
<1>1. CASE Full!SpawnIndexer
    <2>1. [run |-> run, up |-> FALSE] \in [run : 1 .. MaxRuns, up : BOOLEAN]
        BY <1>1 DEF Full!SpawnIndexer
    <2> QED
        BY <1>1, <2>1 DEF Full!SpawnIndexer
<1>2. CASE Full!IndexerGone
    BY <1>2 DEF Full!IndexerGone
<1>3. ASSUME NEW i \in indexers, Full!Listens(i)
      PROVE  FullInv'
    BY <1>3 DEF Full!Listens
<1>4. ASSUME NEW c \in {c1, c2}, Full!Syncs(c)
      PROVE  FullInv'
    BY <1>4 DEF Full!Syncs
<1>5. ASSUME NEW i \in indexers, Full!Exits(i)
      PROVE  FullInv'
    BY <1>5 DEF Full!Exits
<1> QED
    BY <1>1, <1>2, <1>3, <1>4, <1>5 DEF Full!IndexThread, Full!IndexerStep

(* run_live_testing, run_simulation: each state simulated moves from what   *)
(* is left of the update to what is prepared; an error drops both.          *)
LEMMA FullStreamStep ==
    ASSUME FullInv,
           \/ \E c \in {c1, c2} : Full!SimulateState(c)
           \/ Full!SimulationFails \/ Full!SimulationEnds \/ Full!Execute
           \/ \E pairs \in SUBSET (indexed \ announced) :
                  \/ \E states \in SUBSET {c1, c2} : Full!ReceiveUpdate(pairs, states)
                  \/ Full!StreamError(pairs)
    PROVE  FullInv'
<1> USE DEF FullInv, Full!TypeOK, Full!SimulatedSoFar, Full!WholeUpdatesExecuted,
            Full!Go, Full!indexVars, Full!liveVars
<1>1. ASSUME NEW c \in {c1, c2}, Full!SimulateState(c)
      PROVE  FullInv'
    BY <1>1 DEF Full!SimulateState
<1>2. CASE Full!SimulationFails
    BY <1>2 DEF Full!SimulationFails, Full!NextUpdate
<1>3. CASE Full!SimulationEnds
    BY <1>3 DEF Full!SimulationEnds, Full!NextUpdate
<1>4. CASE Full!Execute
    BY <1>4 DEF Full!Execute, Full!NextUpdate
<1>5. ASSUME NEW pairs \in SUBSET (indexed \ announced), NEW states \in SUBSET {c1, c2},
             Full!ReceiveUpdate(pairs, states)
      PROVE  FullInv'
    <2>1. /\ todo' = states /\ execution_data' = {} /\ known' = known \cup pairs
          /\ update' = [pairs |-> pairs, states |-> states]
        BY <1>5 DEF Full!ReceiveUpdate, Full!Knows
    <2>2. update'.states = states
        BY <2>1
    <2> QED
        BY <1>5, <2>1, <2>2 DEF Full!ReceiveUpdate
<1>6. ASSUME NEW pairs \in SUBSET (indexed \ announced), Full!StreamError(pairs)
      PROVE  FullInv'
    BY <1>6 DEF Full!StreamError
<1> QED
    BY <1>1, <1>2, <1>3, <1>4, <1>5, <1>6

LEMMA FullStep == FullInv /\ [Full!Next]_(Full!vars) => FullInv'
<1> SUFFICES ASSUME FullInv, [Full!Next]_(Full!vars) PROVE FullInv'
    OBVIOUS
<1>1. CASE Full!Next
    BY <1>1, FullRunStep, FullIndexStep, FullStreamStep DEF Full!Next, Full!MainStep
<1>2. CASE UNCHANGED Full!vars
    BY <1>2 DEF FullInv, Full!TypeOK, Full!SimulatedSoFar, Full!WholeUpdatesExecuted,
                Full!vars, Full!indexVars, Full!liveVars
<1> QED
    BY <1>1, <1>2

-----------------------------------------------------------------------------
(* Both modes on one machine: a step of the one leaves the other alone.     *)
LEMMA MachineInvariance == MachineSpec => [](Inv /\ FullInv)
<1>1. MachineInit => Inv /\ FullInv
    BY InitInv, FullInit DEF MachineInit
<1>2. Inv /\ FullInv /\ [MachineNext]_<<mode, vars, fullVars>> => (Inv /\ FullInv)'
    <2> SUFFICES ASSUME Inv, FullInv, [MachineNext]_<<mode, vars, fullVars>>
                 PROVE  Inv' /\ FullInv'
        OBVIOUS
    <2>1. [Next]_vars /\ [Full!Next]_(Full!vars)
        <3>1. UNCHANGED fullVars => UNCHANGED Full!vars
            BY DEF fullVars, Full!vars, Full!indexVars, Full!liveVars
        <3> QED
            BY <3>1 DEF MachineNext
    <2> QED
        BY <2>1, InvStep, FullStep
<1> QED
    BY <1>1, <1>2, PTL DEF MachineSpec

(* test_runner.rs 1036, run_simulation: whatever fails, in whatever order    *)
(* the states come and whatever the machine ran before, what is executed is *)
(* the whole of the update at hand.                                         *)
THEOREM ExecutionsAreWhole == MachineSpec => []WholeUpdatesExecuted
<1>1. FullInv => WholeUpdatesExecuted
    BY DEF FullInv, WholeUpdatesExecuted
<1> QED
    BY <1>1, MachineInvariance, PTL

(* Range mode keeps its promises on a machine that is also used in full     *)
(* mode.                                                                    *)
THEOREM MachineIsSafe ==
    MachineSpec => [](/\ TypeOK /\ LifecycleInv /\ ServerAccounted /\ AnsweredByOwnServer
                      /\ YamlRecoverable /\ PassRestsOnOwnState /\ OkMeansAllPassed)
<1>1. Inv => /\ TypeOK /\ LifecycleInv /\ ServerAccounted /\ AnsweredByOwnServer
             /\ YamlRecoverable /\ PassRestsOnOwnState /\ OkMeansAllPassed
    BY InvYaml, InvSuccess DEF Inv
<1> QED
    BY <1>1, MachineInvariance, PTL
=============================================================================
