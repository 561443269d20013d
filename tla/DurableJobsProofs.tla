------------------------- MODULE DurableJobsProofs -------------------------
(***************************************************************************)
(* Theorems about DurableJobs, for all values of its constants.            *)
(* The invariant JobsInv is preserved by every step of a server, a worker, *)
(* a command or a crash: one lemma per conjunct, with one step per action  *)
(* that can disturb it and one for the actions that leave its variables    *)
(* alone. The safety properties follow from JobsInv.                       *)
(***************************************************************************)
EXTENDS DurableJobs, FiniteSetTheorems, TLAPS

-----------------------------------------------------------------------------
(* Writing a row *)

\* The part of TypeOK about the variables that WriteRow changes.
RowsTyped ==
  /\ state \in [Jobs -> Active \cup Terminal \cup {"absent"}]
  /\ old \in [Jobs -> BOOLEAN]
  /\ same \in [Clients -> BOOLEAN]

\* A write of a row keeps the types of rowVars.
LEMMA WriteRowTyped ==
  ASSUME TypeOK, NEW j \in Jobs, NEW s \in Active \cup Terminal, WriteRow(j, s)
  PROVE  RowsTyped'
  <1>1. state' \in [Jobs -> Active \cup Terminal \cup {"absent"}]
    BY DEF TypeOK, WriteRow
  <1>2. old' \in [Jobs -> BOOLEAN]
    BY DEF TypeOK, WriteRow
  <1>3. same' \in [Clients -> BOOLEAN]
    BY Zenon DEF WriteRow
  <1> QED
    BY <1>1, <1>2, <1>3 DEF RowsTyped

\* So does the recording of a result.
LEMMA FinishJobTyped ==
  ASSUME TypeOK, NEW j \in Jobs, NEW s \in Terminal, FinishJob(j, s)
  PROVE  RowsTyped'
  <1>1. CASE state[j] \in Active
    BY <1>1, WriteRowTyped DEF FinishJob
  <1>2. CASE state[j] \notin Active
    BY <1>2 DEF FinishJob, TypeOK, RowsTyped, rowVars
  <1> QED
    BY <1>1, <1>2

-----------------------------------------------------------------------------
(* The conjuncts of the invariant *)

\* Every step keeps the type of every variable.
LEMMA TypeStep == JobsInv /\ [Next]_vars => TypeOK'
  <1> SUFFICES ASSUME JobsInv, [Next]_vars PROVE TypeOK'
    OBVIOUS
  <1> USE DEF JobsInv, TypeOK, Uninvolved, workerVars, clientVars
  <1>1. ASSUME NEW c \in Clients, NEW j \in Jobs, LaunchJob(c, j) PROVE TypeOK'
    BY <1>1 DEF LaunchJob
  <1>2. ASSUME NEW c \in Clients, AdmitKnown(c) PROVE TypeOK'
    BY <1>2 DEF AdmitKnown, OneSpawner
  <1>3. ASSUME NEW c \in Clients, AdmitRefused(c) PROVE TypeOK'
    BY <1>3 DEF AdmitRefused
  <1>4. ASSUME NEW c \in Clients, AdmitSweep(c) PROVE TypeOK'
    <2>1. ActiveJobs \subseteq Jobs
      BY DEF ActiveJobs
    <2> QED
      BY <1>4, <2>1 DEF AdmitSweep
  <1>5. ASSUME NEW c \in Clients, AdmitInsert(c) PROVE TypeOK'
    BY <1>5 DEF AdmitInsert, WriteRow, OneSpawner, Active, Terminal, Finished
  <1>6. ASSUME NEW c \in Clients, SpawnWorker(c) PROVE TypeOK'
    <2>1. creq[c] \in Jobs
      BY <1>6 DEF SpawnWorker, OneSpawner
    <2>2. RowsTyped'
      BY <1>6, <2>1, FinishJobTyped
        DEF SpawnWorker, RowsTyped, Terminal, Finished, rowVars
    <2>3. worker' \in [Jobs -> {"none", "boot", "loop", "try", "ready", "claimed", "monitor",
                               "stop", "stopped", "publish", "done", "dead"}]
      BY <1>6, <2>1 DEF SpawnWorker
    <2>4. todo' \in [Clients -> SUBSET Jobs]
      BY <1>6, <2>1 DEF SpawnWorker
    <2> QED
      BY <1>6, <2>2, <2>3, <2>4 DEF SpawnWorker, RowsTyped
  <1>7. ASSUME NEW c \in Clients, NEW j \in Jobs, JobStatus(c, j) PROVE TypeOK'
    BY <1>7 DEF JobStatus
  <1>8. ASSUME NEW c \in Clients, NEW j \in Jobs, CancelJob(c, j) PROVE TypeOK'
    BY <1>8 DEF CancelJob
  <1>9. ASSUME NEW c \in Clients, NEW j \in Jobs, ReadRow(c, j) PROVE TypeOK'
    <2>1. todo' \in [Clients -> SUBSET Jobs]
      BY <1>9 DEF ReadRow
    <2>2. probe' \in [Clients -> Jobs \cup {NoJob}] /\ same' \in [Clients -> BOOLEAN]
      BY <1>9 DEF ReadRow
    <2> QED
      BY <1>9, <2>1, <2>2 DEF ReadRow
  <1>10. ASSUME NEW c \in Clients, TryAlive(c) PROVE TypeOK'
    <2>1. CASE AliveFree(probe[c])
      BY <1>10, <2>1 DEF TryAlive
    <2>2. CASE ~AliveFree(probe[c])
      BY <1>10, <2>2 DEF TryAlive
    <2> QED
      BY <2>1, <2>2
  <1>11. ASSUME NEW c \in Clients, DeclareLost(c) PROVE TypeOK'
    <2>1. RowsTyped'
      BY <1>11, FinishJobTyped
      DEF DeclareLost, RowsTyped, Terminal, ObserverExcludesWorker, rowVars
    <2> QED
      BY <1>11, <2>1 DEF DeclareLost, RowsTyped
  <1>12. ASSUME NEW c \in Clients, Reported(c) PROVE TypeOK'
    BY <1>12 DEF Reported
  <1>13. ASSUME NEW c \in Clients, NEW t \in Tasks, CompleteTask(c, t) PROVE TypeOK'
    BY <1>13 DEF CompleteTask
  <1>14. ASSUME NEW j \in Jobs, WorkerStart(j) PROVE TypeOK'
    BY <1>14 DEF WorkerStart
  <1>15. ASSUME NEW j \in Jobs, LeaveQueue(j) PROVE TypeOK'
    <2>1. RowsTyped'
      BY <1>15, FinishJobTyped DEF LeaveQueue, Terminal, Finished
    <2> QED
      BY <1>15, <2>1 DEF LeaveQueue, WorkerEnds, RowsTyped
  <1>16. ASSUME NEW j \in Jobs, BeginTry(j) PROVE TypeOK'
    BY <1>16 DEF BeginTry
  <1>17. ASSUME NEW j \in Jobs, NEW g \in Gates, TakeGate(j, g) PROVE TypeOK'
    BY <1>17 DEF TakeGate, NextGate, Gates
  <1>18. ASSUME NEW j \in Jobs, NEW g \in Gates, GateBusy(j, g) PROVE TypeOK'
    <2>1. RowsTyped'
      BY <1>18, WriteRowTyped DEF GateBusy, RowsTyped, Active, rowVars
    <2> QED
      BY <1>18, <2>1 DEF GateBusy, RowsTyped
  <1>19. ASSUME NEW j \in Jobs, ClaimJob(j) PROVE TypeOK'
    <2>1. state[j] = "queued"
      BY <1>19 DEF ClaimJob, RowsMatch, RowMatchesWorker
    <2>2. RowsTyped'
      BY <1>19, <2>1, WriteRowTyped DEF ClaimJob, Active
    <2> QED
      BY <1>19, <2>1, <2>2 DEF ClaimJob, RowsTyped
  <1>20. ASSUME NEW j \in Jobs, StartCommand(j) PROVE TypeOK'
    BY <1>20 DEF StartCommand
  <1>21. ASSUME NEW j \in Jobs, CommandNotStarted(j) PROVE TypeOK'
    BY <1>21 DEF CommandNotStarted, Active, Terminal, Finished
  <1>22. ASSUME NEW j \in Jobs, Conclude(j) PROVE TypeOK'
    BY <1>22 DEF Conclude, Observed, Active, Terminal, Finished
  <1>23. ASSUME NEW j \in Jobs, SupervisionFails(j) PROVE TypeOK'
    BY <1>23 DEF SupervisionFails, Active, Terminal, Finished
  <1>24. ASSUME NEW j \in Jobs, Heartbeat(j) PROVE TypeOK'
    BY <1>24 DEF Heartbeat, WriteRow, Active, Terminal, Finished
  <1>25. ASSUME NEW j \in Jobs, StopGroup(j) PROVE TypeOK'
    BY <1>25 DEF StopGroup, Active, Terminal, Finished
  <1>26. ASSUME NEW j \in Jobs, ReleaseGates(j) PROVE TypeOK'
    BY <1>26 DEF ReleaseGates
  <1>27. ASSUME NEW j \in Jobs, PublishResult(j) PROVE TypeOK'
    <2>1. RowsTyped'
      BY <1>27, FinishJobTyped DEF PublishResult, RowsMatch, RowMatchesWorker
    <2> QED
      BY <1>27, <2>1 DEF PublishResult, WorkerEnds, RowsTyped
  <1>28. ASSUME NEW j \in Jobs, GraceOver(j) PROVE TypeOK'
    BY <1>28 DEF GraceOver
  <1>29. ASSUME NEW j \in Jobs, DeadlinePasses(j) PROVE TypeOK'
    BY <1>29 DEF DeadlinePasses
  <1>30. ASSUME NEW j \in Jobs, CommandExits(j) PROVE TypeOK'
    BY <1>30 DEF CommandExits
  <1>31. ASSUME NEW j \in Jobs, OrphanEnds(j) PROVE TypeOK'
    BY <1>31 DEF OrphanEnds
  <1>32. ASSUME NEW j \in Jobs, StrayEnds(j) PROVE TypeOK'
    BY <1>32 DEF StrayEnds
  <1>33. ASSUME NEW j \in Jobs, WorkerCrash(j) PROVE TypeOK'
    BY <1>33 DEF WorkerCrash, WorkerEnds
  <1>34. ASSUME NEW S \in SUBSET Clients, ServerCrash(S) PROVE TypeOK'
    BY <1>34 DEF ServerCrash, ClientsIdle
  <1>35. ASSUME Reboot PROVE TypeOK'
    BY <1>35 DEF Reboot, ClientsIdle
  <1>36. CASE UNCHANGED vars
    BY <1>36 DEF vars
  <1>37. QED
    BY <1>1, <1>2, <1>3, <1>4, <1>5, <1>6, <1>7, <1>8, <1>9, <1>10, <1>11,
      <1>12, <1>13, <1>14, <1>15, <1>16, <1>17, <1>18, <1>19, <1>20, <1>21,
      <1>22, <1>23, <1>24, <1>25, <1>26, <1>27, <1>28, <1>29, <1>30, <1>31,
      <1>32, <1>33, <1>34, <1>35, <1>36 DEF Next, ClientStep, ClientCall,
      WorkerStep, Environment

\* Every step keeps each row in accord with the place of its worker: the
\* compare-and-swaps of jobs.rs and worker.rs let no one else move the row.
LEMMA RowStep == JobsInv /\ [Next]_vars => RowsMatch'
  <1> SUFFICES ASSUME JobsInv, [Next]_vars PROVE RowsMatch'
    OBVIOUS
  <1> USE DEF JobsInv, TypeOK, RowsMatch, RowMatchesWorker, OneSpawner,
      ObserverExcludesWorker, Supervised, Active, Terminal, Finished, rowVars,
      workerVars, clientVars, Uninvolved
  <1>1. ASSUME NEW c \in Clients, AdmitInsert(c) PROVE RowsMatch'
    BY <1>1 DEF AdmitInsert, WriteRow
  <1>2. ASSUME NEW c \in Clients, SpawnWorker(c) PROVE RowsMatch'
    BY <1>2 DEF SpawnWorker, FinishJob, WriteRow
  <1>3. ASSUME NEW c \in Clients, DeclareLost(c) PROVE RowsMatch'
    BY <1>3 DEF DeclareLost, FinishJob, WriteRow
  <1>4. ASSUME NEW j \in Jobs, WorkerStart(j) PROVE RowsMatch'
    BY <1>4 DEF WorkerStart, AliveFree
  <1>5. ASSUME NEW j \in Jobs, LeaveQueue(j) PROVE RowsMatch'
    BY <1>5 DEF LeaveQueue, FinishJob, WriteRow, WorkerEnds
  <1>6. ASSUME NEW j \in Jobs, BeginTry(j) PROVE RowsMatch'
    BY <1>6 DEF BeginTry
  <1>7. ASSUME NEW j \in Jobs, NEW g \in Gates, TakeGate(j, g) PROVE RowsMatch'
    BY <1>7 DEF TakeGate
  <1>8. ASSUME NEW j \in Jobs, NEW g \in Gates, GateBusy(j, g) PROVE RowsMatch'
    BY <1>8 DEF GateBusy, WriteRow
  <1>9. ASSUME NEW j \in Jobs, ClaimJob(j) PROVE RowsMatch'
    BY <1>9 DEF ClaimJob, WriteRow, WorkerEnds
  <1>10. ASSUME NEW j \in Jobs, StartCommand(j) PROVE RowsMatch'
    BY <1>10 DEF StartCommand
  <1>11. ASSUME NEW j \in Jobs, CommandNotStarted(j) PROVE RowsMatch'
    BY <1>11 DEF CommandNotStarted
  <1>12. ASSUME NEW j \in Jobs, Conclude(j) PROVE RowsMatch'
    BY <1>12 DEF Conclude, Observed
  <1>13. ASSUME NEW j \in Jobs, SupervisionFails(j) PROVE RowsMatch'
    BY <1>13 DEF SupervisionFails
  <1>14. ASSUME NEW j \in Jobs, Heartbeat(j) PROVE RowsMatch'
    BY <1>14 DEF Heartbeat, WriteRow
  <1>15. ASSUME NEW j \in Jobs, StopGroup(j) PROVE RowsMatch'
    BY <1>15 DEF StopGroup
  <1>16. ASSUME NEW j \in Jobs, ReleaseGates(j) PROVE RowsMatch'
    BY <1>16 DEF ReleaseGates
  <1>17. ASSUME NEW j \in Jobs, PublishResult(j) PROVE RowsMatch'
    BY <1>17 DEF PublishResult, FinishJob, WriteRow, WorkerEnds
  <1>18. ASSUME NEW j \in Jobs, WorkerCrash(j) PROVE RowsMatch'
    BY <1>18 DEF WorkerCrash, WorkerEnds
  <1>19. ASSUME Reboot PROVE RowsMatch'
    BY <1>19 DEF Reboot, ClientsIdle
  <1>20. ASSUME NEW c \in Clients, NEW j \in Jobs,
                LaunchJob(c, j) \/ JobStatus(c, j) \/ CancelJob(c, j) \/ ReadRow(c, j)
         PROVE RowsMatch'
    BY <1>20 DEF LaunchJob, JobStatus, CancelJob, ReadRow
  <1>21. ASSUME NEW c \in Clients,
                AdmitKnown(c) \/ AdmitRefused(c) \/ AdmitSweep(c) \/ TryAlive(c) \/
                Reported(c)
         PROVE RowsMatch'
    BY <1>21 DEF AdmitKnown, AdmitRefused, AdmitSweep, TryAlive, Reported
  <1>22. ASSUME NEW c \in Clients, NEW t \in Tasks,
                CompleteTask(c, t)
         PROVE RowsMatch'
    BY <1>22 DEF CompleteTask
  <1>23. ASSUME NEW j \in Jobs,
                GraceOver(j) \/ DeadlinePasses(j) \/ CommandExits(j) \/ OrphanEnds(j)
                \/ StrayEnds(j)
         PROVE RowsMatch'
    BY <1>23 DEF GraceOver, DeadlinePasses, CommandExits, OrphanEnds,
      StrayEnds
  <1>24. ASSUME NEW S \in SUBSET Clients,
                ServerCrash(S)
         PROVE RowsMatch'
    BY <1>24 DEF ServerCrash, ClientsIdle
  <1>25. CASE UNCHANGED vars
    BY <1>25 DEF vars
  <1>26. QED
    BY <1>1, <1>2, <1>3, <1>4, <1>5, <1>6, <1>7, <1>8, <1>9, <1>10, <1>11,
      <1>12, <1>13, <1>14, <1>15, <1>16, <1>17, <1>18, <1>19, <1>20, <1>21,
      <1>22, <1>23, <1>24, <1>25 DEF Next, ClientStep, ClientCall, WorkerStep,
      Environment

\* Every step keeps each command in accord with its worker; starts counts at
\* most one because only the claim of a queued row leads to a start.
LEMMA CommandStep == JobsInv /\ [Next]_vars => CommandsMatch'
  <1> SUFFICES ASSUME JobsInv, [Next]_vars PROVE CommandsMatch'
    OBVIOUS
  <1> USE DEF JobsInv, TypeOK, RowsMatch, RowMatchesWorker, CommandsMatch,
      CommandMatchesWorker, OneSpawner, ObserverExcludesWorker, Supervised,
      Executing, Active, Terminal, Finished, rowVars, workerVars, clientVars,
      Uninvolved
  <1>1. ASSUME NEW c \in Clients, AdmitInsert(c) PROVE CommandsMatch'
    BY <1>1 DEF AdmitInsert, WriteRow
  <1>2. ASSUME NEW c \in Clients, SpawnWorker(c) PROVE CommandsMatch'
    BY <1>2 DEF SpawnWorker, FinishJob, WriteRow
  <1>3. ASSUME NEW c \in Clients, DeclareLost(c) PROVE CommandsMatch'
    BY <1>3 DEF DeclareLost, FinishJob, WriteRow
  <1>4. ASSUME NEW j \in Jobs, WorkerStart(j) PROVE CommandsMatch'
    BY <1>4 DEF WorkerStart, AliveFree
  <1>5. ASSUME NEW j \in Jobs, LeaveQueue(j) PROVE CommandsMatch'
    BY <1>5 DEF LeaveQueue, FinishJob, WriteRow, WorkerEnds
  <1>6. ASSUME NEW j \in Jobs, BeginTry(j) PROVE CommandsMatch'
    BY <1>6 DEF BeginTry
  <1>7. ASSUME NEW j \in Jobs, NEW g \in Gates, TakeGate(j, g) PROVE CommandsMatch'
    BY <1>7 DEF TakeGate
  <1>8. ASSUME NEW j \in Jobs, NEW g \in Gates, GateBusy(j, g) PROVE CommandsMatch'
    BY <1>8 DEF GateBusy, WriteRow
  <1>9. ASSUME NEW j \in Jobs, ClaimJob(j) PROVE CommandsMatch'
    BY <1>9 DEF ClaimJob, WriteRow, WorkerEnds
  <1>10. ASSUME NEW j \in Jobs, StartCommand(j) PROVE CommandsMatch'
    BY <1>10 DEF StartCommand
  <1>11. ASSUME NEW j \in Jobs, CommandNotStarted(j) PROVE CommandsMatch'
    BY <1>11 DEF CommandNotStarted
  <1>12. ASSUME NEW j \in Jobs, Conclude(j) PROVE CommandsMatch'
    BY <1>12 DEF Conclude
  <1>13. ASSUME NEW j \in Jobs, SupervisionFails(j) PROVE CommandsMatch'
    BY <1>13 DEF SupervisionFails
  <1>14. ASSUME NEW j \in Jobs, Heartbeat(j) PROVE CommandsMatch'
    BY <1>14 DEF Heartbeat, WriteRow
  <1>15. ASSUME NEW j \in Jobs, StopGroup(j) PROVE CommandsMatch'
    BY <1>15 DEF StopGroup
  <1>16. ASSUME NEW j \in Jobs, ReleaseGates(j) PROVE CommandsMatch'
    BY <1>16 DEF ReleaseGates
  <1>17. ASSUME NEW j \in Jobs, PublishResult(j) PROVE CommandsMatch'
    BY <1>17 DEF PublishResult, FinishJob, WriteRow, WorkerEnds
  <1>18. ASSUME NEW j \in Jobs, CommandExits(j) PROVE CommandsMatch'
    BY <1>18 DEF CommandExits
  <1>19. ASSUME NEW j \in Jobs, OrphanEnds(j) PROVE CommandsMatch'
    BY <1>19 DEF OrphanEnds
  <1>20. ASSUME NEW j \in Jobs, StrayEnds(j) PROVE CommandsMatch'
    BY <1>20 DEF StrayEnds
  <1>21. ASSUME NEW j \in Jobs, WorkerCrash(j) PROVE CommandsMatch'
    BY <1>21 DEF WorkerCrash, WorkerEnds
  <1>22. ASSUME Reboot PROVE CommandsMatch'
    BY <1>22 DEF Reboot, ClientsIdle
  <1>23. ASSUME NEW c \in Clients, NEW j \in Jobs,
                LaunchJob(c, j) \/ JobStatus(c, j) \/ CancelJob(c, j) \/ ReadRow(c, j)
         PROVE CommandsMatch'
    BY <1>23 DEF LaunchJob, JobStatus, CancelJob, ReadRow
  <1>24. ASSUME NEW c \in Clients,
                AdmitKnown(c) \/ AdmitRefused(c) \/ AdmitSweep(c) \/ TryAlive(c) \/
                Reported(c)
         PROVE CommandsMatch'
    BY <1>24 DEF AdmitKnown, AdmitRefused, AdmitSweep, TryAlive, Reported
  <1>25. ASSUME NEW c \in Clients, NEW t \in Tasks,
                CompleteTask(c, t)
         PROVE CommandsMatch'
    BY <1>25 DEF CompleteTask
  <1>26. ASSUME NEW j \in Jobs,
                GraceOver(j) \/ DeadlinePasses(j)
         PROVE CommandsMatch'
    BY <1>26 DEF GraceOver, DeadlinePasses
  <1>27. ASSUME NEW S \in SUBSET Clients,
                ServerCrash(S)
         PROVE CommandsMatch'
    BY <1>27 DEF ServerCrash, ClientsIdle
  <1>28. CASE UNCHANGED vars
    BY <1>28 DEF vars
  <1>29. QED
    BY <1>1, <1>2, <1>3, <1>4, <1>5, <1>6, <1>7, <1>8, <1>9, <1>10, <1>11,
      <1>12, <1>13, <1>14, <1>15, <1>16, <1>17, <1>18, <1>19, <1>20, <1>21,
      <1>22, <1>23, <1>24, <1>25, <1>26, <1>27, <1>28 DEF Next, ClientStep,
      ClientCall, WorkerStep, Environment

\* Every step keeps the gates of a job from their acquisition to the end of
\* the command's process group.
LEMMA GatesStep == JobsInv /\ [Next]_vars => GatesMatch'
  <1> SUFFICES ASSUME JobsInv, [Next]_vars PROVE GatesMatch'
    OBVIOUS
  <1> USE DEF JobsInv, TypeOK, RowsMatch, RowMatchesWorker, CommandsMatch,
      CommandMatchesWorker, GatesMatch, GatesMatchWorker, OneSpawner, Supervised,
      Executing, rowVars, workerVars, clientVars, Uninvolved
  <1>1. ASSUME NEW c \in Clients, SpawnWorker(c) PROVE GatesMatch'
    BY <1>1 DEF SpawnWorker, FinishJob, WriteRow
  <1>2. ASSUME NEW j \in Jobs, WorkerStart(j) PROVE GatesMatch'
    BY <1>2 DEF WorkerStart, AliveFree
  <1>3. ASSUME NEW j \in Jobs, LeaveQueue(j) PROVE GatesMatch'
    BY <1>3 DEF LeaveQueue, FinishJob, WriteRow, WorkerEnds
  <1>4. ASSUME NEW j \in Jobs, BeginTry(j) PROVE GatesMatch'
    BY <1>4 DEF BeginTry
  <1>5. ASSUME NEW j \in Jobs, NEW g \in Gates, TakeGate(j, g) PROVE GatesMatch'
    BY <1>5 DEF TakeGate
  <1>6. ASSUME NEW j \in Jobs, NEW g \in Gates, GateBusy(j, g) PROVE GatesMatch'
    BY <1>6 DEF GateBusy, WriteRow
  <1>7. ASSUME NEW j \in Jobs, ClaimJob(j) PROVE GatesMatch'
    BY <1>7 DEF ClaimJob, WriteRow, WorkerEnds
  <1>8. ASSUME NEW j \in Jobs, StartCommand(j) PROVE GatesMatch'
    BY <1>8 DEF StartCommand
  <1>9. ASSUME NEW j \in Jobs, CommandNotStarted(j) PROVE GatesMatch'
    BY <1>9 DEF CommandNotStarted
  <1>10. ASSUME NEW j \in Jobs, Conclude(j) PROVE GatesMatch'
    BY <1>10 DEF Conclude
  <1>11. ASSUME NEW j \in Jobs, SupervisionFails(j) PROVE GatesMatch'
    BY <1>11 DEF SupervisionFails
  <1>12. ASSUME NEW j \in Jobs, StopGroup(j) PROVE GatesMatch'
    BY <1>12 DEF StopGroup
  <1>13. ASSUME NEW j \in Jobs, ReleaseGates(j) PROVE GatesMatch'
    BY <1>13 DEF ReleaseGates
  <1>14. ASSUME NEW j \in Jobs, PublishResult(j) PROVE GatesMatch'
    BY <1>14 DEF PublishResult, FinishJob, WriteRow, WorkerEnds
  <1>15. ASSUME NEW j \in Jobs, CommandExits(j) PROVE GatesMatch'
    BY <1>15 DEF CommandExits
  <1>16. ASSUME NEW j \in Jobs, OrphanEnds(j) PROVE GatesMatch'
    BY <1>16 DEF OrphanEnds
  <1>17. ASSUME NEW j \in Jobs, StrayEnds(j) PROVE GatesMatch'
    BY <1>17 DEF StrayEnds
  <1>18. ASSUME NEW j \in Jobs, WorkerCrash(j) PROVE GatesMatch'
    BY <1>18 DEF WorkerCrash, WorkerEnds
  <1>19. ASSUME Reboot PROVE GatesMatch'
    BY <1>19 DEF Reboot, ClientsIdle
  <1>20. ASSUME NEW c \in Clients, NEW j \in Jobs,
                LaunchJob(c, j) \/ JobStatus(c, j) \/ CancelJob(c, j) \/ ReadRow(c, j)
         PROVE GatesMatch'
    BY <1>20 DEF LaunchJob, JobStatus, CancelJob, ReadRow
  <1>21. ASSUME NEW c \in Clients,
                AdmitKnown(c) \/ AdmitRefused(c) \/ AdmitSweep(c) \/ AdmitInsert(c) \/
                TryAlive(c) \/ DeclareLost(c) \/ Reported(c)
         PROVE GatesMatch'
    BY <1>21 DEF AdmitKnown, AdmitRefused, AdmitSweep, AdmitInsert, TryAlive,
      DeclareLost, Reported, WriteRow, FinishJob
  <1>22. ASSUME NEW c \in Clients, NEW t \in Tasks,
                CompleteTask(c, t)
         PROVE GatesMatch'
    BY <1>22 DEF CompleteTask
  <1>23. ASSUME NEW j \in Jobs,
                Heartbeat(j) \/ GraceOver(j) \/ DeadlinePasses(j)
         PROVE GatesMatch'
    BY <1>23 DEF Heartbeat, GraceOver, DeadlinePasses, WriteRow
  <1>24. ASSUME NEW S \in SUBSET Clients,
                ServerCrash(S)
         PROVE GatesMatch'
    BY <1>24 DEF ServerCrash, ClientsIdle
  <1>25. CASE UNCHANGED vars
    BY <1>25 DEF vars
  <1>26. QED
    BY <1>1, <1>2, <1>3, <1>4, <1>5, <1>6, <1>7, <1>8, <1>9, <1>10, <1>11,
      <1>12, <1>13, <1>14, <1>15, <1>16, <1>17, <1>18, <1>19, <1>20, <1>21,
      <1>22, <1>23, <1>24, <1>25 DEF Next, ClientStep, ClientCall, WorkerStep,
      Environment

\* A gate is only taken when acquire finds it free or shareable.
LEMMA CompatibleStep == JobsInv /\ [Next]_vars => GatesCompatible'
  <1> SUFFICES ASSUME JobsInv, [Next]_vars PROVE GatesCompatible'
    OBVIOUS
  <1> USE DEF JobsInv, TypeOK, GatesCompatible, rowVars, workerVars, clientVars,
      Uninvolved
  <1>1. ASSUME NEW j \in Jobs, NEW g \in Gates, TakeGate(j, g) PROVE GatesCompatible'
    <2> SUFFICES ASSUME NEW a \in Jobs, NEW b \in Jobs, a # b,
                        NEW h \in hold'[a] \cap hold'[b]
                 PROVE  /\ h = Source => Mode[a] = "build" /\ Mode[b] = "build"
                        /\ h \notin 1..NumResources
      BY DEF GatesCompatible
    <2>1. \A i \in Jobs : hold'[i] = IF i = j THEN hold[j] \cup {g} ELSE hold[i]
      BY <1>1 DEF TakeGate
    <2>2. CASE h \in hold[a] \cap hold[b]
      BY <2>2 DEF GatesCompatible
    <2>3. CASE h \notin hold[a] \cap hold[b]
      <3>1. h = g /\ (\E k \in {a, b} : k # j /\ k \in Holders(g)) /\ j \in {a, b}
        BY <2>1, <2>3 DEF Holders
      <3>2. CanTake(j, g)
        BY <1>1 DEF TakeGate
      <3>3. g \notin 1..NumResources
        BY <3>1, <3>2, ConstantsAssumption DEF CanTake, Source, Heavy, Commands
      <3>4. g = Source => \A k \in Holders(g) : Mode[j] = "build" /\ Mode[k] = "build"
        BY <3>2, ConstantsAssumption DEF CanTake, Source, Heavy, Commands
      <3> QED
        BY <3>1, <3>3, <3>4
    <2> QED
      BY <2>2, <2>3
  <1>2. ASSUME NEW j \in Jobs, NEW g \in Gates, GateBusy(j, g) PROVE GatesCompatible'
    BY <1>2 DEF GateBusy, WriteRow
  <1>3. ASSUME NEW j \in Jobs, ClaimJob(j) PROVE GatesCompatible'
    <2>1. state[j] = "queued"
      BY <1>3 DEF ClaimJob, RowsMatch, RowMatchesWorker
    <2> QED
      BY <1>3, <2>1 DEF ClaimJob
  <1>4. ASSUME NEW j \in Jobs, CommandNotStarted(j) PROVE GatesCompatible'
    BY <1>4 DEF CommandNotStarted
  <1>5. ASSUME NEW j \in Jobs, ReleaseGates(j) PROVE GatesCompatible'
    BY <1>5 DEF ReleaseGates
  <1>6. ASSUME NEW j \in Jobs, OrphanEnds(j) PROVE GatesCompatible'
    BY <1>6 DEF OrphanEnds
  <1>7. ASSUME NEW j \in Jobs, WorkerCrash(j) PROVE GatesCompatible'
    BY <1>7 DEF WorkerCrash, WorkerEnds
  <1>8. ASSUME Reboot PROVE GatesCompatible'
    BY <1>8 DEF Reboot, ClientsIdle
  <1>9. ASSUME NEW c \in Clients, NEW j \in Jobs,
                LaunchJob(c, j) \/ JobStatus(c, j) \/ CancelJob(c, j) \/ ReadRow(c, j)
         PROVE GatesCompatible'
    BY <1>9 DEF LaunchJob, JobStatus, CancelJob, ReadRow
  <1>10. ASSUME NEW c \in Clients,
                AdmitKnown(c) \/ AdmitRefused(c) \/ AdmitSweep(c) \/ AdmitInsert(c) \/
                SpawnWorker(c) \/ TryAlive(c) \/ DeclareLost(c) \/ Reported(c)
         PROVE GatesCompatible'
    BY <1>10 DEF AdmitKnown, AdmitRefused, AdmitSweep, AdmitInsert,
      SpawnWorker, TryAlive, DeclareLost, Reported, WriteRow, FinishJob
  <1>11. ASSUME NEW c \in Clients, NEW t \in Tasks,
                CompleteTask(c, t)
         PROVE GatesCompatible'
    BY <1>11 DEF CompleteTask
  <1>12. ASSUME NEW j \in Jobs,
                WorkerStart(j) \/ LeaveQueue(j) \/ BeginTry(j) \/ StartCommand(j) \/
                Conclude(j) \/ SupervisionFails(j) \/ Heartbeat(j) \/ StopGroup(j) \/
                PublishResult(j) \/ GraceOver(j) \/ DeadlinePasses(j) \/
                CommandExits(j) \/ StrayEnds(j)
         PROVE GatesCompatible'
    BY <1>12 DEF WorkerStart, LeaveQueue, BeginTry, StartCommand, Conclude,
      SupervisionFails, Heartbeat, StopGroup, PublishResult, GraceOver,
      DeadlinePasses, CommandExits, StrayEnds, FinishJob, WriteRow, WorkerEnds
  <1>13. ASSUME NEW S \in SUBSET Clients,
                ServerCrash(S)
         PROVE GatesCompatible'
    BY <1>13 DEF ServerCrash, ClientsIdle
  <1>14. CASE UNCHANGED vars
    BY <1>14 DEF vars
  <1>15. QED
    BY <1>1, <1>2, <1>3, <1>4, <1>5, <1>6, <1>7, <1>8, <1>9, <1>10, <1>11,
      <1>12, <1>13, <1>14 DEF Next, ClientStep, ClientCall, WorkerStep,
      Environment

\* The alive gate of a lost worker excludes a worker that starts, and a
\* living worker excludes the observer.
LEMMA ObserverStep == JobsInv /\ [Next]_vars => ObserverExcludesWorker'
  <1> SUFFICES ASSUME JobsInv, [Next]_vars PROVE ObserverExcludesWorker'
    OBVIOUS
  <1> USE DEF JobsInv, TypeOK, RowsMatch, RowMatchesWorker, OneSpawner,
      ObserverExcludesWorker, Supervised, rowVars, workerVars, clientVars,
      Uninvolved
  <1>1. ASSUME NEW c \in Clients, SpawnWorker(c) PROVE ObserverExcludesWorker'
    BY <1>1 DEF SpawnWorker, FinishJob, WriteRow
  <1>2. ASSUME NEW c \in Clients, NEW j \in Jobs, ReadRow(c, j)
        PROVE  ObserverExcludesWorker'
    <2>1. ~gated[c] /\ gated' = gated /\ worker' = worker
      BY <1>2, ConstantsAssumption DEF ReadRow
    <2>2. \A d \in Clients : d # c => probe'[d] = probe[d]
      BY <1>2 DEF ReadRow
    <2> QED
      BY <2>1, <2>2
  <1>3. ASSUME NEW c \in Clients, TryAlive(c) PROVE ObserverExcludesWorker'
    BY <1>3 DEF TryAlive, AliveFree
  <1>4. ASSUME NEW c \in Clients, DeclareLost(c) PROVE ObserverExcludesWorker'
    BY <1>4 DEF DeclareLost, FinishJob, WriteRow
  <1>5. ASSUME NEW j \in Jobs, WorkerStart(j) PROVE ObserverExcludesWorker'
    BY <1>5 DEF WorkerStart, AliveFree
  <1>6. ASSUME NEW j \in Jobs, LeaveQueue(j) PROVE ObserverExcludesWorker'
    BY <1>6 DEF LeaveQueue, FinishJob, WriteRow, WorkerEnds
  <1>7. ASSUME NEW j \in Jobs, BeginTry(j) PROVE ObserverExcludesWorker'
    BY <1>7 DEF BeginTry
  <1>8. ASSUME NEW j \in Jobs, NEW g \in Gates, TakeGate(j, g)
        PROVE  ObserverExcludesWorker'
    BY <1>8 DEF TakeGate
  <1>9. ASSUME NEW j \in Jobs, NEW g \in Gates, GateBusy(j, g)
        PROVE  ObserverExcludesWorker'
    BY <1>9 DEF GateBusy, WriteRow
  <1>10. ASSUME NEW j \in Jobs, ClaimJob(j) PROVE ObserverExcludesWorker'
    BY <1>10 DEF ClaimJob, WriteRow, WorkerEnds
  <1>11. ASSUME NEW j \in Jobs, StartCommand(j) PROVE ObserverExcludesWorker'
    BY <1>11 DEF StartCommand
  <1>12. ASSUME NEW j \in Jobs, CommandNotStarted(j) PROVE ObserverExcludesWorker'
    BY <1>12 DEF CommandNotStarted
  <1>13. ASSUME NEW j \in Jobs, Conclude(j) PROVE ObserverExcludesWorker'
    BY <1>13 DEF Conclude
  <1>14. ASSUME NEW j \in Jobs, SupervisionFails(j) PROVE ObserverExcludesWorker'
    BY <1>14 DEF SupervisionFails
  <1>15. ASSUME NEW j \in Jobs, StopGroup(j) PROVE ObserverExcludesWorker'
    BY <1>15 DEF StopGroup
  <1>16. ASSUME NEW j \in Jobs, ReleaseGates(j) PROVE ObserverExcludesWorker'
    BY <1>16 DEF ReleaseGates
  <1>17. ASSUME NEW j \in Jobs, PublishResult(j) PROVE ObserverExcludesWorker'
    BY <1>17 DEF PublishResult, FinishJob, WriteRow, WorkerEnds
  <1>18. ASSUME NEW j \in Jobs, WorkerCrash(j) PROVE ObserverExcludesWorker'
    BY <1>18 DEF WorkerCrash, WorkerEnds
  <1>19. ASSUME NEW S \in SUBSET Clients, ServerCrash(S) PROVE ObserverExcludesWorker'
    BY <1>19 DEF ServerCrash, ClientsIdle
  <1>20. ASSUME Reboot PROVE ObserverExcludesWorker'
    BY <1>20 DEF Reboot, ClientsIdle
  <1>21. ASSUME NEW c \in Clients, NEW j \in Jobs,
                LaunchJob(c, j) \/ JobStatus(c, j) \/ CancelJob(c, j)
         PROVE ObserverExcludesWorker'
    BY <1>21 DEF LaunchJob, JobStatus, CancelJob
  <1>22. ASSUME NEW c \in Clients,
                AdmitKnown(c) \/ AdmitRefused(c) \/ AdmitSweep(c) \/ AdmitInsert(c) \/
                Reported(c)
         PROVE ObserverExcludesWorker'
    BY <1>22 DEF AdmitKnown, AdmitRefused, AdmitSweep, AdmitInsert, Reported,
      WriteRow
  <1>23. ASSUME NEW c \in Clients, NEW t \in Tasks,
                CompleteTask(c, t)
         PROVE ObserverExcludesWorker'
    BY <1>23 DEF CompleteTask
  <1>24. ASSUME NEW j \in Jobs,
                Heartbeat(j) \/ GraceOver(j) \/ DeadlinePasses(j) \/ CommandExits(j)
                \/ OrphanEnds(j) \/ StrayEnds(j)
         PROVE ObserverExcludesWorker'
    BY <1>24 DEF Heartbeat, GraceOver, DeadlinePasses, CommandExits,
      OrphanEnds, StrayEnds, WriteRow
  <1>25. CASE UNCHANGED vars
    BY <1>25 DEF vars
  <1>26. QED
    BY <1>1, <1>2, <1>3, <1>4, <1>5, <1>6, <1>7, <1>8, <1>9, <1>10, <1>11,
      <1>12, <1>13, <1>14, <1>15, <1>16, <1>17, <1>18, <1>19, <1>20, <1>21,
      <1>22, <1>23, <1>24, <1>25 DEF Next, ClientStep, ClientCall, WorkerStep,
      Environment

\* The row is inserted by one client, so that one client starts its worker.
LEMMA SpawnerStep == JobsInv /\ [Next]_vars => OneSpawner'
  <1> SUFFICES ASSUME JobsInv, [Next]_vars PROVE OneSpawner'
    OBVIOUS
  <1> USE DEF JobsInv, TypeOK, RowsMatch, RowMatchesWorker, OneSpawner,
      ObserverExcludesWorker, Supervised, Active, Terminal, Finished, rowVars,
      workerVars, clientVars, Uninvolved
  <1>1. ASSUME NEW c \in Clients, NEW j \in Jobs, LaunchJob(c, j) PROVE OneSpawner'
    BY <1>1 DEF LaunchJob
  <1>2. ASSUME NEW c \in Clients, AdmitKnown(c) PROVE OneSpawner'
    BY <1>2 DEF AdmitKnown
  <1>3. ASSUME NEW c \in Clients, AdmitRefused(c) PROVE OneSpawner'
    BY <1>3 DEF AdmitRefused
  <1>4. ASSUME NEW c \in Clients, AdmitSweep(c) PROVE OneSpawner'
    BY <1>4 DEF AdmitSweep
  <1>5. ASSUME NEW c \in Clients, AdmitInsert(c) PROVE OneSpawner'
    BY <1>5 DEF AdmitInsert, WriteRow
  <1>6. ASSUME NEW c \in Clients, SpawnWorker(c) PROVE OneSpawner'
    BY <1>6 DEF SpawnWorker, FinishJob, WriteRow
  <1>7. ASSUME NEW c \in Clients, NEW j \in Jobs, JobStatus(c, j) PROVE OneSpawner'
    BY <1>7 DEF JobStatus
  <1>8. ASSUME NEW c \in Clients, NEW j \in Jobs, CancelJob(c, j) PROVE OneSpawner'
    BY <1>8 DEF CancelJob
  <1>9. ASSUME NEW c \in Clients, DeclareLost(c) PROVE OneSpawner'
    BY <1>9 DEF DeclareLost, FinishJob, WriteRow
  <1>10. ASSUME NEW c \in Clients, Reported(c) PROVE OneSpawner'
    BY <1>10 DEF Reported
  <1>11. ASSUME NEW j \in Jobs, WorkerStart(j) PROVE OneSpawner'
    BY <1>11 DEF WorkerStart, AliveFree
  <1>12. ASSUME NEW j \in Jobs, LeaveQueue(j) PROVE OneSpawner'
    BY <1>12 DEF LeaveQueue, FinishJob, WriteRow, WorkerEnds
  <1>13. ASSUME NEW j \in Jobs, BeginTry(j) PROVE OneSpawner'
    BY <1>13 DEF BeginTry
  <1>14. ASSUME NEW j \in Jobs, NEW g \in Gates, TakeGate(j, g) PROVE OneSpawner'
    BY <1>14 DEF TakeGate
  <1>15. ASSUME NEW j \in Jobs, NEW g \in Gates, GateBusy(j, g) PROVE OneSpawner'
    BY <1>15 DEF GateBusy, WriteRow
  <1>16. ASSUME NEW j \in Jobs, ClaimJob(j) PROVE OneSpawner'
    <2>1. state[j] = "queued"
      BY <1>16 DEF ClaimJob
    <2> QED
      BY <1>16, <2>1 DEF ClaimJob, WriteRow
  <1>17. ASSUME NEW j \in Jobs, StartCommand(j) PROVE OneSpawner'
    BY <1>17 DEF StartCommand
  <1>18. ASSUME NEW j \in Jobs, CommandNotStarted(j) PROVE OneSpawner'
    BY <1>18 DEF CommandNotStarted
  <1>19. ASSUME NEW j \in Jobs, Conclude(j) PROVE OneSpawner'
    BY <1>19 DEF Conclude
  <1>20. ASSUME NEW j \in Jobs, SupervisionFails(j) PROVE OneSpawner'
    BY <1>20 DEF SupervisionFails
  <1>21. ASSUME NEW j \in Jobs, Heartbeat(j) PROVE OneSpawner'
    BY <1>21 DEF Heartbeat, WriteRow
  <1>22. ASSUME NEW j \in Jobs, StopGroup(j) PROVE OneSpawner'
    BY <1>22 DEF StopGroup
  <1>23. ASSUME NEW j \in Jobs, ReleaseGates(j) PROVE OneSpawner'
    BY <1>23 DEF ReleaseGates
  <1>24. ASSUME NEW j \in Jobs, PublishResult(j) PROVE OneSpawner'
    BY <1>24 DEF PublishResult, FinishJob, WriteRow, WorkerEnds
  <1>25. ASSUME NEW j \in Jobs, WorkerCrash(j) PROVE OneSpawner'
    BY <1>25 DEF WorkerCrash, WorkerEnds
  <1>26. ASSUME NEW S \in SUBSET Clients, ServerCrash(S) PROVE OneSpawner'
    BY <1>26 DEF ServerCrash, ClientsIdle
  <1>27. ASSUME Reboot PROVE OneSpawner'
    BY <1>27 DEF Reboot, ClientsIdle
  <1>28. ASSUME NEW c \in Clients, NEW j \in Jobs,
                ReadRow(c, j)
         PROVE OneSpawner'
    BY <1>28 DEF ReadRow
  <1>29. ASSUME NEW c \in Clients,
                TryAlive(c)
         PROVE OneSpawner'
    BY <1>29 DEF TryAlive
  <1>30. ASSUME NEW c \in Clients, NEW t \in Tasks,
                CompleteTask(c, t)
         PROVE OneSpawner'
    BY <1>30 DEF CompleteTask
  <1>31. ASSUME NEW j \in Jobs,
                GraceOver(j) \/ DeadlinePasses(j) \/ CommandExits(j) \/ OrphanEnds(j)
                \/ StrayEnds(j)
         PROVE OneSpawner'
    BY <1>31 DEF GraceOver, DeadlinePasses, CommandExits, OrphanEnds,
      StrayEnds
  <1>32. CASE UNCHANGED vars
    BY <1>32 DEF vars
  <1>33. QED
    BY <1>1, <1>2, <1>3, <1>4, <1>5, <1>6, <1>7, <1>8, <1>9, <1>10, <1>11,
      <1>12, <1>13, <1>14, <1>15, <1>16, <1>17, <1>18, <1>19, <1>20, <1>21,
      <1>22, <1>23, <1>24, <1>25, <1>26, <1>27, <1>28, <1>29, <1>30, <1>31,
      <1>32 DEF Next, ClientStep, ClientCall, WorkerStep, Environment

\* Neither admission nor a lost worker makes a job of a completed task active.
LEMMA ClosedStep == JobsInv /\ [Next]_vars => ClosedTaskSettled'
  <1> SUFFICES ASSUME JobsInv, [Next]_vars PROVE ClosedTaskSettled'
    OBVIOUS
  <1> USE DEF JobsInv, TypeOK, RowsMatch, RowMatchesWorker, OneSpawner,
      ObserverExcludesWorker, ClosedTaskSettled, TaskClosed, Supervised, Active,
      Terminal, Finished, rowVars, workerVars, clientVars, Uninvolved
  <1>1. ASSUME NEW c \in Clients, AdmitInsert(c) PROVE ClosedTaskSettled'
    BY <1>1 DEF AdmitInsert, WriteRow
  <1>2. ASSUME NEW c \in Clients, SpawnWorker(c) PROVE ClosedTaskSettled'
    BY <1>2 DEF SpawnWorker, FinishJob, WriteRow
  <1>3. ASSUME NEW c \in Clients, DeclareLost(c) PROVE ClosedTaskSettled'
    BY <1>3 DEF DeclareLost, FinishJob, WriteRow
  <1>4. ASSUME NEW c \in Clients, NEW t \in Tasks, CompleteTask(c, t)
        PROVE  ClosedTaskSettled'
    BY <1>4 DEF CompleteTask
  <1>5. ASSUME NEW j \in Jobs, LeaveQueue(j) PROVE ClosedTaskSettled'
    BY <1>5 DEF LeaveQueue, FinishJob, WriteRow, WorkerEnds
  <1>6. ASSUME NEW j \in Jobs, NEW g \in Gates, GateBusy(j, g) PROVE ClosedTaskSettled'
    BY <1>6 DEF GateBusy, WriteRow
  <1>7. ASSUME NEW j \in Jobs, ClaimJob(j) PROVE ClosedTaskSettled'
    BY <1>7 DEF ClaimJob, WriteRow, WorkerEnds
  <1>8. ASSUME NEW j \in Jobs, Heartbeat(j) PROVE ClosedTaskSettled'
    BY <1>8 DEF Heartbeat, WriteRow
  <1>9. ASSUME NEW j \in Jobs, PublishResult(j) PROVE ClosedTaskSettled'
    BY <1>9 DEF PublishResult, FinishJob, WriteRow, WorkerEnds
  <1>10. ASSUME NEW c \in Clients, NEW j \in Jobs,
                LaunchJob(c, j) \/ JobStatus(c, j) \/ CancelJob(c, j) \/ ReadRow(c, j)
         PROVE ClosedTaskSettled'
    BY <1>10 DEF LaunchJob, JobStatus, CancelJob, ReadRow
  <1>11. ASSUME NEW c \in Clients,
                AdmitKnown(c) \/ AdmitRefused(c) \/ AdmitSweep(c) \/ TryAlive(c) \/
                Reported(c)
         PROVE ClosedTaskSettled'
    BY <1>11 DEF AdmitKnown, AdmitRefused, AdmitSweep, TryAlive, Reported
  <1>12. ASSUME NEW j \in Jobs,
                WorkerStart(j) \/ BeginTry(j) \/ StartCommand(j) \/
                CommandNotStarted(j) \/ Conclude(j) \/ SupervisionFails(j) \/
                StopGroup(j) \/ ReleaseGates(j) \/ GraceOver(j) \/ DeadlinePasses(j)
                \/ CommandExits(j) \/ OrphanEnds(j) \/ StrayEnds(j) \/ WorkerCrash(j)
         PROVE ClosedTaskSettled'
    BY <1>12 DEF WorkerStart, BeginTry, StartCommand, CommandNotStarted,
      Conclude, SupervisionFails, StopGroup, ReleaseGates, GraceOver,
      DeadlinePasses, CommandExits, OrphanEnds, StrayEnds, WorkerCrash,
      WorkerEnds
  <1>13. ASSUME NEW j \in Jobs, NEW g \in Gates,
                TakeGate(j, g)
         PROVE ClosedTaskSettled'
    BY <1>13 DEF TakeGate
  <1>14. ASSUME NEW S \in SUBSET Clients,
                ServerCrash(S)
         PROVE ClosedTaskSettled'
    BY <1>14 DEF ServerCrash, ClientsIdle
  <1>15. ASSUME
                Reboot
         PROVE ClosedTaskSettled'
    BY <1>15 DEF Reboot, ClientsIdle
  <1>16. CASE UNCHANGED vars
    BY <1>16 DEF vars
  <1>17. QED
    BY <1>1, <1>2, <1>3, <1>4, <1>5, <1>6, <1>7, <1>8, <1>9, <1>10, <1>11,
      <1>12, <1>13, <1>14, <1>15, <1>16 DEF Next, ClientStep, ClientCall,
      WorkerStep, Environment

-----------------------------------------------------------------------------
(* The invariant *)

\* The empty table satisfies the invariant.
LEMMA InitInv == Init => JobsInv
  BY ConstantsAssumption
  DEF Init, JobsInv, TypeOK, RowsMatch, RowMatchesWorker, CommandsMatch, CommandMatchesWorker, GatesMatch, GatesMatchWorker,
      GatesCompatible, ObserverExcludesWorker, OneSpawner, ClosedTaskSettled, Executing,
      Supervised, Active, Terminal, Finished

\* The invariant holds in every reachable state, for every number of jobs,
\* clients, tasks, resources and crashes and for all limits.
THEOREM Invariance == Spec => []JobsInv
  <1>1. JobsInv /\ [Next]_vars => JobsInv'
    <2> SUFFICES ASSUME JobsInv, [Next]_vars PROVE JobsInv'
      OBVIOUS
    <2>1. TypeOK' /\ GatesCompatible' /\ ObserverExcludesWorker' /\ OneSpawner'
            /\ ClosedTaskSettled'
      BY TypeStep, CompatibleStep, ObserverStep, SpawnerStep, ClosedStep
    <2>2. RowsMatch' /\ CommandsMatch' /\ GatesMatch'
      BY RowStep, CommandStep, GatesStep
    <2> QED
      BY <2>1, <2>2 DEF JobsInv
  <1> QED
    BY InitInv, <1>1, PTL DEF Spec

-----------------------------------------------------------------------------
(* What follows from the invariant *)

\* Every variable keeps its type.
THEOREM TypeCorrect == Spec => []TypeOK
  <1>1. JobsInv => TypeOK
    BY DEF JobsInv
  <1> QED
    BY Invariance, <1>1, PTL

\* No request's command is started twice, whatever crashes and is resubmitted.
THEOREM StartedOnce == Spec => []NeverReplayed
  <1>1. JobsInv => NeverReplayed
    BY DEF JobsInv, CommandsMatch, CommandMatchesWorker, NeverReplayed
  <1> QED
    BY Invariance, <1>1, PTL

\* A result is visible only after the processes are gone and the locks free,
\* where stopping a command stops all its processes.
THEOREM ReleasedFirst ==
  ASSUME \A j \in Jobs : Contained(j)
  PROVE  Spec => []ResultAfterRelease
  <1>1. JobsInv => ResultAfterRelease
    <2> SUFFICES ASSUME JobsInv, NEW j \in Jobs, state[j] \in Finished
                 PROVE  hold[j] = {} /\ child[j] \in {"none", "gone"}
      BY DEF ResultAfterRelease
    <2>1. child[j] \in {"none", "gone"} /\ ~Executing(j)
      BY DEF JobsInv, CommandsMatch, CommandMatchesWorker, Finished, Executing
    <2>2. worker[j] \in {"none", "done", "dead"}
      BY DEF JobsInv, TypeOK, RowsMatch, RowMatchesWorker, Finished
    <2> QED
      BY <2>1, <2>2 DEF JobsInv, GatesMatch, GatesMatchWorker
  <1> QED
    BY Invariance, <1>1, PTL

\* Where a command inherits its worker's locks (unix), conflicting commands never
\* execute together: each holds its gates as long as it may execute.
THEOREM Exclusion ==
  ASSUME Unix
  PROVE  Spec => []CommandsExclusive
  <1>1. JobsInv => CommandsExclusive
    <2> SUFFICES ASSUME JobsInv, NEW j \in Jobs, NEW k \in Jobs, j # k,
                        Executing(j), Executing(k), Conflict(j, k)
                 PROVE  FALSE
      BY DEF CommandsExclusive
    <2>1. hold[j] = Needs(j) /\ hold[k] = Needs(k)
      BY DEF JobsInv, CommandsMatch, CommandMatchesWorker, GatesMatch, GatesMatchWorker
    <2>2. CASE Uses[j] \cap Uses[k] # {}
      <3>1. PICK g \in 1..NumResources : g \in Uses[j] /\ g \in Uses[k]
        BY <2>2, ConstantsAssumption
      <3> QED
        BY <2>1, <3>1 DEF JobsInv, GatesCompatible, Needs
    <2>3. CASE Uses[j] \cap Uses[k] = {}
      <3>1. Source \in Needs(j) /\ Source \in Needs(k)
        BY <2>3 DEF Conflict, Needs
      <3>2. Mode[j] = "build" /\ Mode[k] = "build"
        BY <2>1, <3>1 DEF JobsInv, GatesCompatible
      <3> QED
        BY <2>3, <3>2 DEF Conflict
    <2> QED
      BY <2>2, <2>3
  <1> QED
    BY Invariance, <1>1, PTL

\* A completed task has no command that executes or will still be started, under
\* the same assumption.
THEOREM CompletionSafe ==
  ASSUME \A j \in Jobs : Contained(j)
  PROVE  Spec => []CompletedTaskQuiet
  <1>1. JobsInv => CompletedTaskQuiet
    <2> SUFFICES ASSUME JobsInv, NEW j \in Jobs, TaskClosed(j)
                 PROVE  child[j] \in {"none", "gone"} /\ ~Supervised(j)
      BY DEF CompletedTaskQuiet
    <2>1. state[j] \notin {"queued", "running", "unknown"}
      BY DEF JobsInv, ClosedTaskSettled, Active
    <2>2. child[j] \in {"none", "gone"}
      BY <2>1 DEF JobsInv, CommandsMatch, CommandMatchesWorker
    <2>3. ~Supervised(j)
      BY <2>1 DEF JobsInv, RowsMatch, RowMatchesWorker, Supervised
    <2> QED
      BY <2>2, <2>3
  <1> QED
    BY Invariance, <1>1, PTL

-----------------------------------------------------------------------------
(* Action properties *)

\* No step writes over a final row.
LEMMA FinalStep == JobsInv /\ [Next]_vars => ResultKept
  <1> SUFFICES ASSUME JobsInv, [Next]_vars PROVE ResultKept
    OBVIOUS
  <1> USE DEF JobsInv, ResultKept, TypeOK, RowsMatch, RowMatchesWorker, OneSpawner,
      Active, Terminal, Finished, rowVars, workerVars, clientVars, Uninvolved
  <1>1. ASSUME NEW c \in Clients, AdmitInsert(c) PROVE ResultKept
    BY <1>1 DEF AdmitInsert, WriteRow
  <1>2. ASSUME NEW c \in Clients, SpawnWorker(c) PROVE ResultKept
    BY <1>2 DEF SpawnWorker, FinishJob, WriteRow
  <1>3. ASSUME NEW c \in Clients, DeclareLost(c) PROVE ResultKept
    BY <1>3 DEF DeclareLost, FinishJob, WriteRow
  <1>4. ASSUME NEW j \in Jobs, LeaveQueue(j) PROVE ResultKept
    BY <1>4 DEF LeaveQueue, FinishJob, WriteRow, WorkerEnds
  <1>5. ASSUME NEW j \in Jobs, NEW g \in Gates, GateBusy(j, g) PROVE ResultKept
    BY <1>5 DEF GateBusy, WriteRow
  <1>6. ASSUME NEW j \in Jobs, ClaimJob(j) PROVE ResultKept
    BY <1>6 DEF ClaimJob, WriteRow, WorkerEnds
  <1>7. ASSUME NEW j \in Jobs, Heartbeat(j) PROVE ResultKept
    BY <1>7 DEF Heartbeat, WriteRow
  <1>8. ASSUME NEW j \in Jobs, PublishResult(j) PROVE ResultKept
    BY <1>8 DEF PublishResult, FinishJob, WriteRow, WorkerEnds
  <1>9. ASSUME NEW c \in Clients, NEW j \in Jobs,
                LaunchJob(c, j) \/ JobStatus(c, j) \/ CancelJob(c, j) \/ ReadRow(c, j)
         PROVE ResultKept
    BY <1>9 DEF LaunchJob, JobStatus, CancelJob, ReadRow
  <1>10. ASSUME NEW c \in Clients,
                AdmitKnown(c) \/ AdmitRefused(c) \/ AdmitSweep(c) \/ TryAlive(c) \/
                Reported(c)
         PROVE ResultKept
    BY <1>10 DEF AdmitKnown, AdmitRefused, AdmitSweep, TryAlive, Reported
  <1>11. ASSUME NEW c \in Clients, NEW t \in Tasks,
                CompleteTask(c, t)
         PROVE ResultKept
    BY <1>11 DEF CompleteTask
  <1>12. ASSUME NEW j \in Jobs,
                WorkerStart(j) \/ BeginTry(j) \/ StartCommand(j) \/
                CommandNotStarted(j) \/ Conclude(j) \/ SupervisionFails(j) \/
                StopGroup(j) \/ ReleaseGates(j) \/ GraceOver(j) \/ DeadlinePasses(j)
                \/ CommandExits(j) \/ OrphanEnds(j) \/ StrayEnds(j) \/ WorkerCrash(j)
         PROVE ResultKept
    BY <1>12 DEF WorkerStart, BeginTry, StartCommand, CommandNotStarted,
      Conclude, SupervisionFails, StopGroup, ReleaseGates, GraceOver,
      DeadlinePasses, CommandExits, OrphanEnds, StrayEnds, WorkerCrash,
      WorkerEnds
  <1>13. ASSUME NEW j \in Jobs, NEW g \in Gates,
                TakeGate(j, g)
         PROVE ResultKept
    BY <1>13 DEF TakeGate
  <1>14. ASSUME NEW S \in SUBSET Clients,
                ServerCrash(S)
         PROVE ResultKept
    BY <1>14 DEF ServerCrash, ClientsIdle
  <1>15. ASSUME
                Reboot
         PROVE ResultKept
    BY <1>15 DEF Reboot, ClientsIdle
  <1>16. CASE UNCHANGED vars
    BY <1>16 DEF vars
  <1>17. QED
    BY <1>1, <1>2, <1>3, <1>4, <1>5, <1>6, <1>7, <1>8, <1>9, <1>10, <1>11,
      <1>12, <1>13, <1>14, <1>15, <1>16 DEF Next, ClientStep, ClientCall,
      WorkerStep, Environment

\* No step declares a supervised job lost.
LEMMA LostStep == JobsInv /\ [Next]_vars => OnlyLostDeclared
  <1> SUFFICES ASSUME JobsInv, [Next]_vars PROVE OnlyLostDeclared
    OBVIOUS
  <1> USE DEF JobsInv, OnlyLostDeclared, TypeOK, RowsMatch, RowMatchesWorker,
      OneSpawner, ObserverExcludesWorker, Supervised, Active, Terminal, Finished,
      rowVars, workerVars, clientVars, Uninvolved
  <1>1. ASSUME NEW c \in Clients, AdmitInsert(c) PROVE OnlyLostDeclared
    BY <1>1 DEF AdmitInsert, WriteRow
  <1>2. ASSUME NEW c \in Clients, SpawnWorker(c) PROVE OnlyLostDeclared
    BY <1>2 DEF SpawnWorker, FinishJob, WriteRow
  <1>3. ASSUME NEW c \in Clients, DeclareLost(c) PROVE OnlyLostDeclared
    BY <1>3 DEF DeclareLost, FinishJob, WriteRow
  <1>4. ASSUME NEW j \in Jobs, LeaveQueue(j) PROVE OnlyLostDeclared
    BY <1>4 DEF LeaveQueue, FinishJob, WriteRow, WorkerEnds
  <1>5. ASSUME NEW j \in Jobs, NEW g \in Gates, GateBusy(j, g) PROVE OnlyLostDeclared
    BY <1>5 DEF GateBusy, WriteRow
  <1>6. ASSUME NEW j \in Jobs, ClaimJob(j) PROVE OnlyLostDeclared
    BY <1>6 DEF ClaimJob, WriteRow, WorkerEnds
  <1>7. ASSUME NEW j \in Jobs, Heartbeat(j) PROVE OnlyLostDeclared
    BY <1>7 DEF Heartbeat, WriteRow
  <1>8. ASSUME NEW j \in Jobs, PublishResult(j) PROVE OnlyLostDeclared
    BY <1>8 DEF PublishResult, FinishJob, WriteRow, WorkerEnds
  <1>9. ASSUME NEW c \in Clients, NEW j \in Jobs,
                LaunchJob(c, j) \/ JobStatus(c, j) \/ CancelJob(c, j) \/ ReadRow(c, j)
         PROVE OnlyLostDeclared
    BY <1>9 DEF LaunchJob, JobStatus, CancelJob, ReadRow
  <1>10. ASSUME NEW c \in Clients,
                AdmitKnown(c) \/ AdmitRefused(c) \/ AdmitSweep(c) \/ TryAlive(c) \/
                Reported(c)
         PROVE OnlyLostDeclared
    BY <1>10 DEF AdmitKnown, AdmitRefused, AdmitSweep, TryAlive, Reported
  <1>11. ASSUME NEW c \in Clients, NEW t \in Tasks,
                CompleteTask(c, t)
         PROVE OnlyLostDeclared
    BY <1>11 DEF CompleteTask
  <1>12. ASSUME NEW j \in Jobs,
                WorkerStart(j) \/ BeginTry(j) \/ StartCommand(j) \/
                CommandNotStarted(j) \/ Conclude(j) \/ SupervisionFails(j) \/
                StopGroup(j) \/ ReleaseGates(j) \/ GraceOver(j) \/ DeadlinePasses(j)
                \/ CommandExits(j) \/ OrphanEnds(j) \/ StrayEnds(j) \/ WorkerCrash(j)
         PROVE OnlyLostDeclared
    BY <1>12 DEF WorkerStart, BeginTry, StartCommand, CommandNotStarted,
      Conclude, SupervisionFails, StopGroup, ReleaseGates, GraceOver,
      DeadlinePasses, CommandExits, OrphanEnds, StrayEnds, WorkerCrash,
      WorkerEnds
  <1>13. ASSUME NEW j \in Jobs, NEW g \in Gates,
                TakeGate(j, g)
         PROVE OnlyLostDeclared
    BY <1>13 DEF TakeGate
  <1>14. ASSUME NEW S \in SUBSET Clients,
                ServerCrash(S)
         PROVE OnlyLostDeclared
    BY <1>14 DEF ServerCrash, ClientsIdle
  <1>15. ASSUME
                Reboot
         PROVE OnlyLostDeclared
    BY <1>15 DEF Reboot, ClientsIdle
  <1>16. CASE UNCHANGED vars
    BY <1>16 DEF vars
  <1>17. QED
    BY <1>1, <1>2, <1>3, <1>4, <1>5, <1>6, <1>7, <1>8, <1>9, <1>10, <1>11,
      <1>12, <1>13, <1>14, <1>15, <1>16 DEF Next, ClientStep, ClientCall,
      WorkerStep, Environment

\* A recorded result, unknown included, stays for ever.
THEOREM ResultStays == Spec => ResultIsFinal
  BY Invariance, FinalStep, PTL DEF Spec, ResultIsFinal

\* Observers never declare the job of a living worker lost.
THEOREM NotLostAlive == Spec => SupervisedNotLost
  BY Invariance, LostStep, PTL DEF Spec, SupervisedNotLost
-----------------------------------------------------------------------------
(* The limits: each slot pool has at most as many holders as slots. *)

PoolsBounded ==
  /\ Cardinality(Holders(Heavy)) <= HeavyLimit
  /\ Cardinality(Holders(Commands)) <= RunningLimit

\* Sets of jobs are finite, and a smaller set has no more members.
LEMMA FewerJobs ==
  ASSUME NEW S \in SUBSET Jobs, NEW T \in SUBSET S
  PROVE  /\ Cardinality(S) \in Nat
         /\ Cardinality(T) \in Nat
         /\ Cardinality(T) <= Cardinality(S)
PROOF
  <1>1. IsFiniteSet(S) /\ IsFiniteSet(T)
    BY FS_Subset, FiniteAssumption
  <1> QED
    BY <1>1, FS_Subset, FS_CardinalityType

\* Only an attempt on the next gate makes a worker hold more.
LEMMA HoldMore ==
  ASSUME JobsInv, [Next]_vars
  PROVE  \/ \A j \in Jobs : hold'[j] \subseteq hold[j]
         \/ \E j \in Jobs, g \in Gates :
              /\ CanTake(j, g)
              /\ hold' = [hold EXCEPT ![j] = @ \cup {g}]
PROOF
  <1> USE DEF JobsInv, TypeOK, workerVars, clientVars, Uninvolved
  <1> DEFINE Less == \A j \in Jobs : hold'[j] \subseteq hold[j]
  <1>1. ASSUME NEW c \in Clients, ClientStep(c) \/ ClientCall(c)
        PROVE  hold' = hold
    BY <1>1 DEF ClientStep, ClientCall, AdmitKnown, AdmitRefused, AdmitSweep, AdmitInsert,
         SpawnWorker, ReadRow, TryAlive, DeclareLost, Reported, LaunchJob, CancelJob,
         JobStatus, CompleteTask
  <1>2. ASSUME NEW j \in Jobs, NEW g \in Gates, TakeGate(j, g)
        PROVE  CanTake(j, g) /\ hold' = [hold EXCEPT ![j] = @ \cup {g}]
    BY <1>2 DEF TakeGate
  <1>3. ASSUME NEW j \in Jobs, NEW g \in Gates, GateBusy(j, g) PROVE Less
    BY <1>3 DEF GateBusy
  <1>4. ASSUME NEW j \in Jobs, ClaimJob(j) \/ CommandNotStarted(j) \/ ReleaseGates(j)
        PROVE  Less
    BY <1>4 DEF ClaimJob, CommandNotStarted, ReleaseGates
  <1>5. ASSUME NEW j \in Jobs, OrphanEnds(j) \/ WorkerCrash(j) PROVE Less
    BY <1>5 DEF OrphanEnds, WorkerCrash
  <1>6. ASSUME NEW j \in Jobs,
               \/ WorkerStart(j) \/ LeaveQueue(j) \/ BeginTry(j) \/ StartCommand(j)
               \/ Conclude(j) \/ StopGroup(j) \/ PublishResult(j)
               \/ SupervisionFails(j) \/ Heartbeat(j) \/ GraceOver(j) \/ DeadlinePasses(j)
               \/ CommandExits(j) \/ StrayEnds(j)
        PROVE  hold' = hold
    BY <1>6 DEF WorkerStart, LeaveQueue, BeginTry, StartCommand, Conclude, StopGroup,
         PublishResult, SupervisionFails, Heartbeat, GraceOver, DeadlinePasses,
         CommandExits, StrayEnds
  <1>7. ASSUME NEW S \in SUBSET Clients, ServerCrash(S) PROVE hold' = hold
    BY <1>7 DEF ServerCrash
  <1>8. ASSUME Reboot PROVE Less
    BY <1>8 DEF Reboot
  <1>9. CASE UNCHANGED vars
    BY <1>9 DEF vars
  <1>10. hold' = hold => Less
    OBVIOUS
  <1> QED
    BY <1>1, <1>2, <1>3, <1>4, <1>5, <1>6, <1>7, <1>8, <1>9, <1>10
    DEF Next, WorkerStep, Environment

\* No step takes a slot that is not there.
LEMMA PoolsStep == JobsInv /\ PoolsBounded /\ [Next]_vars => PoolsBounded'
PROOF
  <1> SUFFICES ASSUME JobsInv, PoolsBounded, [Next]_vars PROVE PoolsBounded'
    OBVIOUS
  <1> DEFINE Having(h, p) == {j \in Jobs : p \in h[j]}
  <1>1. \A p : Having(hold, p) = Holders(p) /\ Having(hold', p) = Holders(p)'
    BY DEF Holders
  <1>2. CASE \A j \in Jobs : hold'[j] \subseteq hold[j]
    <2>1. ASSUME NEW p \in {Heavy, Commands}
          PROVE  Cardinality(Having(hold', p)) \in Nat /\ Cardinality(Having(hold, p)) \in Nat
                 /\ Cardinality(Having(hold', p)) <= Cardinality(Having(hold, p))
      <3>1. Having(hold, p) \in SUBSET Jobs /\ Having(hold', p) \in SUBSET Having(hold, p)
        BY <1>2
      <3> HIDE DEF Having
      <3> QED
        BY <3>1, FewerJobs
    <2> HIDE DEF Having
    <2>2. Cardinality(Having(hold', Heavy)) <= HeavyLimit
      BY <1>1, <2>1, ConstantsAssumption DEF PoolsBounded
    <2>3. Cardinality(Having(hold', Commands)) <= RunningLimit
      BY <1>1, <2>1, ConstantsAssumption DEF PoolsBounded
    <2> QED
      BY <1>1, <2>2, <2>3 DEF PoolsBounded, Heavy, Commands
  <1>3. ASSUME NEW j \in Jobs, NEW g \in Gates, CanTake(j, g),
               hold' = [hold EXCEPT ![j] = @ \cup {g}]
        PROVE  PoolsBounded'
    <2>1. ASSUME NEW p \in {Heavy, Commands},
                 g = p => Cardinality(Having(hold, p)) < (IF p = Heavy THEN HeavyLimit ELSE RunningLimit)
          PROVE  Cardinality(Having(hold', p)) <= (IF p = Heavy THEN HeavyLimit ELSE RunningLimit)
      <3>1. Having(hold, p) \in SUBSET Jobs
        OBVIOUS
      <3>2. Having(hold', p) = IF g = p THEN Having(hold, p) \cup {j} ELSE Having(hold, p)
        BY <1>3 DEF JobsInv, TypeOK
      <3>3. Cardinality(Having(hold, p)) <= (IF p = Heavy THEN HeavyLimit ELSE RunningLimit)
        BY <1>1 DEF PoolsBounded, Heavy, Commands
      <3>4. Cardinality(Having(hold, p)) \in Nat /\ IsFiniteSet(Having(hold, p))
        BY <3>1, FS_Subset, FS_CardinalityType, FiniteAssumption
      <3> HIDE DEF Having
      <3>5. CASE g = p
        <4>1. Cardinality(Having(hold, p) \cup {j}) =
                IF j \in Having(hold, p) THEN Cardinality(Having(hold, p))
                                         ELSE Cardinality(Having(hold, p)) + 1
          BY <3>4, FS_AddElement
        <4>2. Cardinality(Having(hold, p) \cup {j}) \in Nat
          BY <3>4, FS_AddElement, FS_CardinalityType
        <4> QED
          BY <3>2, <3>4, <3>5, <2>1, <4>1, <4>2, ConstantsAssumption
      <3> QED
        BY <3>2, <3>3, <3>5
    <2>2. Heavy # Source /\ Commands # Source /\ Heavy # Commands
      BY ConstantsAssumption DEF Heavy, Commands, Source
    <2>3. g = Heavy => Cardinality(Having(hold, Heavy)) < HeavyLimit
      BY <1>1, <1>3, <2>2 DEF CanTake
    <2>4. g = Commands => Cardinality(Having(hold, Commands)) < RunningLimit
      BY <1>1, <1>3, <2>2 DEF CanTake
    <2> HIDE DEF Having
    <2>5. Cardinality(Having(hold', Heavy)) <= HeavyLimit
      BY <2>1, <2>3
    <2>6. Cardinality(Having(hold', Commands)) <= RunningLimit
      BY <2>1, <2>2, <2>4
    <2> QED
      BY <1>1, <2>5, <2>6 DEF PoolsBounded, Heavy, Commands
  <1> QED
    BY <1>2, <1>3, HoldMore

\* Where a command inherits its worker's locks (unix), no more commands and no
\* more builds execute than there are slots, orphans included.
THEOREM Capacity ==
  ASSUME Unix
  PROVE  Spec => []CapacityRespected
PROOF
  <1>1. Init => PoolsBounded
    <2> SUFFICES ASSUME Init PROVE PoolsBounded
      OBVIOUS
    <2>1. Holders(Heavy) = {} /\ Holders(Commands) = {}
      BY DEF Init, Holders
    <2> QED
      BY <2>1, FS_EmptySet, ConstantsAssumption DEF PoolsBounded
  <1>2. JobsInv /\ PoolsBounded => CapacityRespected
    <2> SUFFICES ASSUME JobsInv, PoolsBounded PROVE CapacityRespected
      OBVIOUS
    <2> DEFINE Run == {j \in Jobs : Executing(j)}
               Builds == {j \in Jobs : Executing(j) /\ Mode[j] = "build"}
    <2>1. ASSUME NEW j \in Jobs, Executing(j) PROVE hold[j] = Needs(j)
      BY <2>1 DEF JobsInv, CommandsMatch, CommandMatchesWorker, GatesMatch, GatesMatchWorker
    <2>2. Run \subseteq Holders(Commands) /\ Builds \subseteq Holders(Heavy)
      BY <2>1 DEF Holders, Needs
    <2>3. Holders(Commands) \in SUBSET Jobs /\ Holders(Heavy) \in SUBSET Jobs
      BY DEF Holders
    <2> HIDE DEF Run, Builds
    <2>4. /\ Cardinality(Run) <= Cardinality(Holders(Commands))
          /\ Cardinality(Run) \in Nat /\ Cardinality(Holders(Commands)) \in Nat
      BY <2>2, <2>3, FewerJobs
    <2>5. /\ Cardinality(Builds) <= Cardinality(Holders(Heavy))
          /\ Cardinality(Builds) \in Nat /\ Cardinality(Holders(Heavy)) \in Nat
      BY <2>2, <2>3, FewerJobs
    <2>6. Cardinality(Run) <= RunningLimit /\ Cardinality(Builds) <= HeavyLimit
      BY <2>4, <2>5, ConstantsAssumption DEF PoolsBounded
    <2> QED
      BY <2>6 DEF CapacityRespected, Run, Builds
  <1> QED
    BY Invariance, PoolsStep, <1>1, <1>2, PTL DEF Spec

-----------------------------------------------------------------------------
(* The promise of JobPromise. What a step may do to a row and to a command *)
(* comes first; each of these is a step of the promise or none.            *)

\* A step leaves rows and groups alone.
Untouched == state' = state /\ child' = child

\* The row of j goes from s to t.
RowMoves(j, t) == state' = [state EXCEPT ![j] = t] /\ child' = child

\* The command of j becomes t.
ChildMoves(j, t) == child' = [child EXCEPT ![j] = t] /\ state' = state

\* A result is recorded of a command that is over, or that the job is uncertain.
ResultOver(j, s) ==
  state[j] \in Active => s = "unknown" \/ (s \in Finished /\ child[j] \in {"none", "gone"})

\* What a row says to the promise.
Says(t) == IF t \in Active THEN "open" ELSE IF t \in Finished THEN "result" ELSE "uncertain"

\* A move of one row moves one receipt.
LEMMA ReceiptMoves ==
  ASSUME JobsInv, NEW j \in Jobs, NEW t \in Active \cup Terminal, state' = [state EXCEPT ![j] = t]
  PROVE  \A k \in Jobs : Receipt(k)' = IF k = j THEN Says(t) ELSE Receipt(k)
PROOF
  <1>1. ASSUME NEW k \in Jobs, k # j PROVE Receipt(k)' = Receipt(k)
    BY <1>1 DEF Receipt, JobsInv, TypeOK
  <1>2. Receipt(j)' = Says(t)
    BY DEF Receipt, Says, JobsInv, TypeOK, Active, Terminal, Finished
  <1> QED
    BY <1>1, <1>2

\* A row is inserted.
LEMMA InsertMaps ==
  ASSUME JobsInv, NEW j \in Jobs, state[j] = "absent", RowMoves(j, "queued")
  PROVE  [Promise!Next]_(Promise!vars)
PROOF
  <1>1. Receipt(j) = "none"
    BY DEF Receipt, Active, Finished
  <1>2. \A k \in Jobs : Receipt(k)' = IF k = j THEN "open" ELSE Receipt(k)
    BY ReceiptMoves DEF RowMoves, Says, Active
  <1>3. \A k \in Jobs : Command(k)' = Command(k)
    BY DEF RowMoves, Command
  <1>4. Promise!Accept(j)
    BY <1>1, <1>2, <1>3 DEF Promise!Accept
  <1> QED
    BY <1>4 DEF Promise!Next

\* A row stays active.
LEMMA ActiveMaps ==
  ASSUME JobsInv, NEW j \in Jobs, NEW t \in Active, state[j] \in Active, RowMoves(j, t)
  PROVE  UNCHANGED Promise!vars
  BY DEF Promise!vars, Receipt, Command, RowMoves, JobsInv, TypeOK, Active, Finished

\* A result is recorded.
LEMMA FinishMaps ==
  ASSUME JobsInv, NEW j \in Jobs, NEW s \in Terminal, ResultOver(j, s), FinishJob(j, s),
         child' = child
  PROVE  [Promise!Next]_(Promise!vars)
PROOF
  <1>1. CASE state[j] \notin Active
    BY <1>1 DEF Promise!vars, Receipt, Command, FinishJob, rowVars
  <1>2. CASE state[j] \in Active
    <2>1. Receipt(j) = "open"
      BY <1>2 DEF Receipt, Active, Finished
    <2>2. \A k \in Jobs : Receipt(k)' = IF k = j THEN Says(s) ELSE Receipt(k)
      BY <1>2, ReceiptMoves DEF FinishJob, WriteRow
    <2>3. \A k \in Jobs : Command(k)' = Command(k)
      BY DEF Command
    <2>4. CASE s = "unknown"
      <3>1. Says(s) = "uncertain"
        BY <2>4 DEF Says, Active, Finished
      <3>2. Promise!GiveUp(j)
        BY <2>1, <2>2, <2>3, <3>1 DEF Promise!GiveUp
      <3> QED
        BY <3>2 DEF Promise!Next
    <2>5. CASE s # "unknown"
      <3>1. Says(s) = "result" /\ Command(j) # "running"
        BY <1>2, <2>5 DEF Says, Active, Finished, Terminal, ResultOver, Command
      <3>2. Promise!GiveResult(j)
        BY <2>1, <2>2, <2>3, <3>1 DEF Promise!GiveResult
      <3> QED
        BY <3>2 DEF Promise!Next
    <2> QED
      BY <2>4, <2>5
  <1> QED
    BY <1>1, <1>2

\* The command starts.
LEMMA StartMaps ==
  ASSUME JobsInv, NEW j \in Jobs, state[j] \in Active, child[j] = "none", ChildMoves(j, "live")
  PROVE  [Promise!Next]_(Promise!vars)
PROOF
  <1>1. Promise!Start(j)
    BY DEF Promise!Start, Receipt, Command, ChildMoves, JobsInv, TypeOK, Active, Finished
  <1> QED
    BY <1>1 DEF Promise!Next

\* The command goes on in another form, or ends.
LEMMA EndMaps ==
  ASSUME JobsInv, NEW j \in Jobs, child[j] \in {"live", "exited", "stray"},
         NEW t \in {"exited", "stray", "gone"}, ChildMoves(j, t)
  PROVE  [Promise!Next]_(Promise!vars)
PROOF
  <1>1. CASE t # "gone"
    BY <1>1 DEF Promise!vars, Receipt, Command, ChildMoves, JobsInv, TypeOK
  <1>2. CASE t = "gone"
    <2>1. Promise!End({j})
      BY <1>2 DEF Promise!End, Receipt, Command, ChildMoves, JobsInv, TypeOK
    <2> QED
      BY <2>1 DEF Promise!Next
  <1> QED
    BY <1>1, <1>2

\* A restart ends all commands.
LEMMA RebootMaps ==
  ASSUME JobsInv, Reboot
  PROVE  [Promise!Next]_(Promise!vars)
PROOF
  <1> DEFINE Running == {j \in Jobs : child[j] \notin {"none", "gone"}}
  <1>1. Promise!End(Running)
    BY DEF Promise!End, Receipt, Command, Reboot, JobsInv, TypeOK
  <1> QED
    BY <1>1 DEF Promise!Next

\* Every step keeps the promise, where stopping a command stops its processes.
LEMMA PromiseStep ==
  ASSUME \A j \in Jobs : Contained(j), JobsInv, [Next]_vars
  PROVE  [Promise!Next]_(Promise!vars)
PROOF
  <1> DEFINE Kept == [Promise!Next]_(Promise!vars)
  <1> USE DEF JobsInv, RowsMatch, RowMatchesWorker, CommandsMatch, CommandMatchesWorker,
              Active, Terminal, Finished, workerVars, clientVars, Uninvolved
  <1>1. Untouched => Kept
    BY DEF Untouched, Promise!vars, Receipt, Command
  <1> HIDE DEF Kept
  <1>2. ASSUME NEW c \in Clients, AdmitInsert(c) PROVE Kept
    <2>1. creq[c] \in Jobs /\ RowMoves(creq[c], "queued") /\ state[creq[c]] = "absent"
      BY <1>2 DEF AdmitInsert, WriteRow, RowMoves, OneSpawner
    <2> QED
      BY <2>1, InsertMaps DEF Kept
  <1>3. ASSUME NEW c \in Clients, SpawnWorker(c) PROVE Kept
    <2>1. creq[c] \in Jobs /\ worker[creq[c]] = "none" /\ child' = child
      BY <1>3 DEF SpawnWorker, OneSpawner
    <2>2. child[creq[c]] = "none"
      BY <2>1
    <2>3. CASE UNCHANGED rowVars
      BY <1>1, <2>1, <2>3 DEF rowVars, Untouched
    <2>4. CASE FinishJob(creq[c], "spawn_failed")
      <3>1. ResultOver(creq[c], "spawn_failed")
        BY <2>2 DEF ResultOver
      <3> QED
        BY <2>1, <2>4, <3>1, FinishMaps DEF Kept
    <2> QED
      BY <1>3, <2>3, <2>4 DEF SpawnWorker
  <1>4. ASSUME NEW c \in Clients, DeclareLost(c) PROVE Kept
    <2>1. probe[c] \in Jobs /\ child' = child
      BY <1>4 DEF DeclareLost, ObserverExcludesWorker
    <2>2. CASE UNCHANGED rowVars
      BY <1>1, <2>1, <2>2 DEF rowVars, Untouched
    <2>3. CASE FinishJob(probe[c], "unknown")
      <3>1. ResultOver(probe[c], "unknown")
        BY DEF ResultOver
      <3> QED
        BY <2>1, <2>3, <3>1, FinishMaps DEF Kept
    <2> QED
      BY <1>4, <2>2, <2>3 DEF DeclareLost
  <1>5. ASSUME NEW j \in Jobs, LeaveQueue(j) PROVE Kept
    <2> DEFINE s == IF cancel[j] THEN "cancelled" ELSE "queue_timeout"
    <2>1. FinishJob(j, s) /\ child' = child /\ child[j] = "none"
      BY <1>5 DEF LeaveQueue
    <2>2. s \in Terminal /\ ResultOver(j, s)
      BY <2>1 DEF ResultOver
    <2> HIDE DEF s
    <2> QED
      BY <2>1, <2>2, FinishMaps DEF Kept
  <1>6. ASSUME NEW j \in Jobs, PublishResult(j) PROVE Kept
    <2>1. FinishJob(j, verdict[j]) /\ child' = child /\ verdict[j] \in Terminal
      BY <1>6 DEF PublishResult
    <2>2. child[j] \in {"none", "gone"} \/ verdict[j] = "unknown"
      BY <1>6 DEF PublishResult, Executing, TypeOK
    <2>3. ResultOver(j, verdict[j])
      BY <2>1, <2>2 DEF ResultOver
    <2> QED
      BY <2>1, <2>3, FinishMaps DEF Kept
  <1>7. ASSUME NEW j \in Jobs, NEW g \in Gates, GateBusy(j, g) PROVE Kept
    <2>1. CASE UNCHANGED rowVars
      BY <1>1, <1>7, <2>1 DEF rowVars, Untouched, GateBusy
    <2>2. CASE state[j] = "queued" /\ WriteRow(j, "queued")
      <3>1. RowMoves(j, "queued") /\ state[j] \in Active
        BY <1>7, <2>2 DEF GateBusy, WriteRow, RowMoves
      <3> QED
        BY <3>1, ActiveMaps DEF Kept
    <2> QED
      BY <1>7, <2>1, <2>2 DEF GateBusy
  <1>8. ASSUME NEW j \in Jobs, ClaimJob(j) PROVE Kept
    <2>1. CASE state[j] # "queued"
      BY <1>1, <1>8, <2>1 DEF rowVars, Untouched, ClaimJob
    <2>2. CASE state[j] = "queued"
      <3>1. RowMoves(j, "running") /\ state[j] \in Active
        BY <1>8, <2>2 DEF ClaimJob, WriteRow, RowMoves
      <3> QED
        BY <3>1, ActiveMaps DEF Kept
    <2> QED
      BY <2>1, <2>2
  <1>9. ASSUME NEW j \in Jobs, Heartbeat(j) PROVE Kept
    <2>1. RowMoves(j, "running") /\ state[j] \in Active
      BY <1>9 DEF Heartbeat, WriteRow, RowMoves
    <2> QED
      BY <2>1, ActiveMaps DEF Kept
  <1>10. ASSUME NEW j \in Jobs, StartCommand(j) PROVE Kept
    <2>1. state[j] \in Active /\ child[j] = "none" /\ ChildMoves(j, "live")
      BY <1>10 DEF StartCommand, ChildMoves
    <2> QED
      BY <2>1, StartMaps DEF Kept
  <1>11. ASSUME NEW j \in Jobs, StopGroup(j) PROVE Kept
    <2>1. child[j] \in {"live", "exited", "stray"} /\ (ChildMoves(j, "gone") \/ ChildMoves(j, "stray"))
      BY <1>11 DEF StopGroup, ChildMoves, Executing
    <2> QED
      BY <2>1, EndMaps DEF Kept
  <1>12. ASSUME NEW j \in Jobs, CommandExits(j) \/ OrphanEnds(j) \/ StrayEnds(j) PROVE Kept
    <2>1. /\ child[j] \in {"live", "exited", "stray"}
          /\ ChildMoves(j, "gone") \/ ChildMoves(j, "exited")
      BY <1>12 DEF CommandExits, OrphanEnds, StrayEnds, ChildMoves
    <2> QED
      BY <2>1, EndMaps DEF Kept
  <1>13. ASSUME NEW c \in Clients, NEW j \in Jobs,
                LaunchJob(c, j) \/ JobStatus(c, j) \/ CancelJob(c, j) \/ ReadRow(c, j)
         PROVE Untouched
    BY <1>13 DEF LaunchJob, JobStatus, CancelJob, ReadRow, Untouched
  <1>14. ASSUME NEW c \in Clients,
                \/ AdmitKnown(c) \/ AdmitRefused(c) \/ AdmitSweep(c) \/ TryAlive(c) \/ Reported(c)
                \/ \E t \in Tasks : CompleteTask(c, t)
         PROVE Untouched
    BY <1>14 DEF AdmitKnown, AdmitRefused, AdmitSweep, TryAlive, Reported, CompleteTask, Untouched
  <1>15. ASSUME NEW j \in Jobs,
                \/ WorkerStart(j) \/ BeginTry(j) \/ CommandNotStarted(j) \/ Conclude(j)
                \/ SupervisionFails(j) \/ ReleaseGates(j) \/ GraceOver(j) \/ DeadlinePasses(j)
                \/ WorkerCrash(j) \/ \E g \in Gates : TakeGate(j, g)
         PROVE Untouched
    BY <1>15 DEF WorkerStart, BeginTry, CommandNotStarted, Conclude, SupervisionFails,
         ReleaseGates, GraceOver, DeadlinePasses, WorkerCrash, WorkerEnds, TakeGate, Untouched
  <1>16. ASSUME NEW S \in SUBSET Clients, ServerCrash(S) PROVE Untouched
    BY <1>16 DEF ServerCrash, Untouched
  <1>17. ASSUME Reboot PROVE Kept
    BY <1>17, RebootMaps DEF Kept
  <1>18. UNCHANGED vars => Untouched
    BY DEF vars, Untouched
  <1> HIDE DEF JobsInv, RowsMatch, RowMatchesWorker, CommandsMatch, CommandMatchesWorker,
               Active, Terminal, Finished, workerVars, clientVars, Uninvolved
  <1>19. Kept
    BY <1>1, <1>2, <1>3, <1>4, <1>5, <1>6, <1>7, <1>8, <1>9, <1>10, <1>11, <1>12, <1>13,
       <1>14, <1>15, <1>16, <1>17, <1>18 DEF Next, ClientStep, ClientCall, WorkerStep, Environment
  <1> QED
    BY <1>19 DEF Kept

\* Every behaviour keeps the promise of JobPromise to every request, where
\* stopping a command stops its processes.
THEOREM PromiseKept ==
  ASSUME \A j \in Jobs : Contained(j)
  PROVE  Spec => KeepsPromise
PROOF
  <1>1. Init => Promise!Init
    <2> SUFFICES ASSUME Init PROVE Promise!Init
      OBVIOUS
    <2>1. \A j \in Jobs : Receipt(j) = "none" /\ Command(j) = "never"
      BY DEF Init, Receipt, Command, Active, Finished
    <2> QED
      BY <2>1 DEF Promise!Init
  <1>2. JobsInv /\ [Next]_vars => [Promise!Next]_(Promise!vars)
    BY PromiseStep
  <1> QED
    BY Invariance, <1>1, <1>2, PTL DEF Spec, KeepsPromise, Promise!Spec
=============================================================================
