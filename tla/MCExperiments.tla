---------------------------- MODULE MCExperiments ----------------------------
(* One of the experiments' programs at a time:                             *)
(* - two repeats of the harness over directories that may hold a trace;    *)
(* - three processes in one trace directory and their elections;           *)
(* - four modes of the checkpoint matrix, and two in a row;                *)
(* - arms of one, two and four threads, and a serial one, of three graphs; *)
(* - two launches by the launcher's driver.                                *)
EXTENDS ColdStartRun, Elections, CheckpointMatrix, ConcurrentCapture, LauncherDrive

MCPlans == {<<m>> : m \in Modes \ {"nccl_graph", "nccl_teardown", "nccl", "ipc"}} \cup {<<"plain", "ipc">>}

allVars == <<harnessVars, electionVars, matrixVars, armVars, driveVars>>

Init ==
  \/ HarnessInit /\ ElectionIdle /\ MatrixIdle /\ ArmIdle /\ DriveIdle
  \/ HarnessIdle /\ ElectionInit /\ MatrixIdle /\ ArmIdle /\ DriveIdle
  \/ HarnessIdle /\ ElectionIdle /\ MatrixInit /\ ArmIdle /\ DriveIdle
  \/ HarnessIdle /\ ElectionIdle /\ MatrixIdle /\ ArmInit /\ DriveIdle
  \/ HarnessIdle /\ ElectionIdle /\ MatrixIdle /\ ArmIdle /\ DriveInit

Next ==
  \/ HarnessNext /\ UNCHANGED <<electionVars, matrixVars, armVars, driveVars>>
  \/ ElectionNext /\ UNCHANGED <<harnessVars, matrixVars, armVars, driveVars>>
  \/ MatrixNext /\ UNCHANGED <<harnessVars, electionVars, armVars, driveVars>>
  \/ ArmNext /\ UNCHANGED <<harnessVars, electionVars, matrixVars, driveVars>>
  \/ DriveNext /\ UNCHANGED <<harnessVars, electionVars, matrixVars, armVars>>

Spec ==
  /\ Init /\ [][Next]_allVars
  /\ HarnessFairness /\ MatrixFairness /\ ArmFairness /\ DriveFairness

\* What is compared is comparable: the repeats of the harness, the launches of
\* the driver, the samples of one trace (coldstart-run.sh, drive.py, cs_sampler.py).
RunsAreComparable == SuccessIsComparable /\ OneElected /\ LaunchesAreApart

\* The verdicts of the two CUDA scripts say what happened
\* (cuda-checkpoint-ipc-matrix.py, cudagraph-concurrent-capture.py).
VerdictsAreTrue == RoundTripIsTrue /\ ArmIsTrue

\* Every script ends, whatever the server, the driver or a thread does, unless a call
\* that has no limit of time never returns.
ExperimentsEnd == HarnessEnds /\ MatrixEnds /\ ArmEnds /\ DriveEnds
=============================================================================
