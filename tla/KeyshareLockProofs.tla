-------------------------- MODULE KeyshareLockProofs --------------------------
(***************************************************************************)
(* The lock discipline of the keyshare, for any number of signing          *)
(* processes, events and crashes and any combination of faults.            *)
(***************************************************************************)
EXTENDS KeyshareLock, TLAPS

USE BoundsAssumption, SigningsAssumption, FaultsAssumption

(* Initially no job exists and nobody needs the lock.                      *)
LEMMA InitInv == Init => KeyshareInv
<1> SUFFICES ASSUME Init PROVE KeyshareInv
  OBVIOUS
<1>1. TypeOK
  BY DEF Init, TypeOK, Jobs, ExecStates, RunStates, SignStates
<1>2. JobsInv
  BY DEF Init, JobsInv, Active, Timely
<1>3. LockHeld
  BY DEF Init, LockHeld
<1> QED
  BY <1>1, <1>2, <1>3 DEF KeyshareInv

(* The steps of a signing process: its read releases the lock that it took *)
(* itself (NewSigning).                                                    *)
LEMMA SigningPreserves ==
    ASSUME KeyshareInv, NEW s \in Signings, SigningStep(s)
    PROVE  KeyshareInv'
<1>1. CASE NewSigning(s)
  BY <1>1 DEF NewSigning, LockKeyshare, KeyshareInv, TypeOK, JobsInv, LockHeld,
     Timely, Active, Jobs, ExecStates, RunStates, SignStates
<1>2. CASE SigningRead(s)
  BY <1>2 DEF SigningRead, UnlockKeyshare, KeyshareInv, TypeOK, JobsInv,
     LockHeld, Timely, Active, Jobs, ExecStates, RunStates, SignStates
<1>3. CASE SigningEnds(s)
  BY <1>3 DEF SigningEnds, KeyshareInv, TypeOK, JobsInv, LockHeld, Timely,
     Active, Jobs, ExecStates, RunStates, SignStates
<1> QED
  BY <1>1, <1>2, <1>3 DEF SigningStep

(* The events of the listener: the new job has neither been executed nor   *)
(* run before.                                                             *)
LEMMA EventPreserves ==
    ASSUME KeyshareInv, KeygenEvent \/ RefreshEvent
    PROVE  KeyshareInv'
<1>1. job + 1 \in Jobs /\ exec[job + 1] = "none" /\ run[job + 1] = "none"
  BY DEF KeygenEvent, RefreshEvent, KeyshareInv, TypeOK, JobsInv, Jobs
<1>2. CASE KeygenEvent
  BY <1>1, <1>2 DEF KeygenEvent, ListenerFree, KeyshareInv, TypeOK, JobsInv,
     LockHeld, Timely, Active, Jobs, ExecStates, RunStates
<1>3. CASE RefreshEvent
  BY <1>1, <1>3 DEF RefreshEvent, ListenerFree, KeyshareInv, TypeOK, JobsInv,
     LockHeld, Timely, Active, Jobs, ExecStates, RunStates
<1> QED
  BY <1>2, <1>3

(* The end of a Run: either the outcome is dropped, or Execute returns and *)
(* its Stop releases the lock that the job held.                           *)
LEMMA ReportPreserves ==
    ASSUME KeyshareInv, NEW j \in Jobs,
           run[j] \in {"running", "storing"},
           run' = [run EXCEPT ![j] = "ended"],
           file' \in {"none", "torn", "whole"},
           ReportedTo(j),
           UNCHANGED << job, kind, sign, crashes >>
    PROVE  KeyshareInv'
<1>1. CASE exec[j] = "executing" /\ exec' = [exec EXCEPT ![j] = "returned"] /\ Stop
  <2>1. TypeOK'
    BY <1>1 DEF Stop, UnlockKeyshare, KeyshareInv, TypeOK, ExecStates, RunStates
  <2>2. JobsInv'
    BY <1>1 DEF KeyshareInv, TypeOK, JobsInv, Timely, Active
  <2>3. ASSUME Timely' PROVE Timely /\ mu = j /\ mu' = 0 /\ fatal' = "no"
    BY <1>1, <2>3 DEF Stop, UnlockKeyshare, KeyshareInv, TypeOK, LockHeld,
       Timely, Jobs
  <2>4. LockHeld'
    BY <1>1, <2>3 DEF KeyshareInv, TypeOK, JobsInv, LockHeld, Timely, Active,
       Jobs
  <2> QED
    BY <2>1, <2>2, <2>4 DEF KeyshareInv
<1>2. CASE UNCHANGED << exec, mu, fatal >>
  BY <1>2 DEF KeyshareInv, TypeOK, JobsInv, LockHeld, Timely, Active, RunStates
<1> QED
  BY <1>1, <1>2 DEF ReportedTo

(* The steps of a job (Execute, Run and Stop of keygen and resharing).     *)
LEMMA JobPreserves ==
    ASSUME KeyshareInv, NEW j \in Jobs, JobStep(j)
    PROVE  KeyshareInv'
<1>1. CASE NewResharing(j)
  BY <1>1 DEF NewResharing, LockKeyshare, KeyshareInv, TypeOK, JobsInv,
     LockHeld, Timely, Active, Jobs, ExecStates, RunStates, SignStates
<1>2. CASE Spawn(j)
  BY <1>2 DEF Spawn, KeyshareInv, TypeOK, JobsInv, LockHeld, Timely, Active,
     Jobs, ExecStates, RunStates
<1>3. CASE Run(j)
  BY <1>3 DEF Run, LockKeyshare, KeyshareInv, TypeOK, JobsInv, LockHeld,
     Timely, Active, Jobs, ExecStates, RunStates
<1>4. CASE Truncate(j)
  BY <1>4 DEF Truncate, KeyshareInv, TypeOK, JobsInv, LockHeld, Timely, Active,
     Jobs, ExecStates, RunStates
<1>5. CASE Store(j)
  BY <1>5, ReportPreserves DEF Store
<1>6. CASE StoreFails(j)
  BY <1>6, ReportPreserves DEF StoreFails, KeyshareInv, TypeOK
<1>7. CASE RunEnds(j)
  BY <1>7, ReportPreserves DEF RunEnds, KeyshareInv, TypeOK
<1>8. CASE Timeout(j)
  <2>1. ~Timely'
    BY <1>8 DEF Timeout, Timely, KeyshareInv, TypeOK
  <2> QED
    BY <1>8, <2>1 DEF Timeout, Stop, UnlockKeyshare, KeyshareInv, TypeOK,
       JobsInv, LockHeld, Active, ExecStates
<1>9. CASE Return(j)
  <2>1. ~Timely'
    BY <1>9 DEF Return, Timely, KeyshareInv, TypeOK
  <2> QED
    BY <1>9, <2>1 DEF Return, Stop, UnlockKeyshare, KeyshareInv, TypeOK,
       JobsInv, LockHeld, Active, ExecStates
<1> QED
  BY <1>1, <1>2, <1>3, <1>4, <1>5, <1>6, <1>7, <1>8, <1>9 DEF JobStep

(* A crash leaves no process behind.                                       *)
LEMMA CrashPreserves ==
    ASSUME KeyshareInv, Crash
    PROVE  KeyshareInv'
BY DEF Crash, KeyshareInv, TypeOK, JobsInv, LockHeld, Timely, Active, Jobs,
   ExecStates, RunStates, SignStates

(* The invariant holds in every reachable state (Execute, NewSigning,      *)
(* NewResharing, Run and Stop).                                            *)
THEOREM KeyshareInvariant == Spec => []KeyshareInv
<1>1. ASSUME KeyshareInv, [Next]_vars PROVE KeyshareInv'
  <2>1. CASE UNCHANGED vars
    BY <1>1, <2>1 DEF vars, KeyshareInv, TypeOK, JobsInv, LockHeld, Timely,
       Active
  <2> QED
    BY <1>1, <2>1, SigningPreserves, EventPreserves, JobPreserves,
       CrashPreserves DEF Next
<1> QED
  BY InitInv, <1>1, PTL DEF Spec

(* Type correctness of the keyshare model.                                 *)
THEOREM KeyshareTypes == Spec => []TypeOK
BY KeyshareInvariant, PTL DEF KeyshareInv

(* Until the first timeout every process that relies on the keyshare lock  *)
(* holds it, and no Stop unlocks an unlocked mutex.                        *)
THEOREM LockIsHeld == Spec => []LockHeld
BY KeyshareInvariant, PTL DEF KeyshareInv

(* Until the first timeout nobody reads the keyshare while it is written.  *)
THEOREM ReadsAreNotTorn == Spec => []NoTornRead
<1>1. KeyshareInv => NoTornRead
  BY DEF KeyshareInv, TypeOK, JobsInv, LockHeld, NoTornRead, Storing,
     ListenerFree, Active, Jobs
<1> QED
  BY KeyshareInvariant, <1>1, PTL

===============================================================================
