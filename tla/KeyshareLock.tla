---------------------------- MODULE KeyshareLock ----------------------------
(***************************************************************************)
(* The keyshare of one relayer and the processes that use it:              *)
(* keyshare/ecdsa.go (a mutex and a file), the constructors, Run and Stop  *)
(* of tss/ecdsa/{signing,keygen,resharing} and the parts of                *)
(* tss/coordinator.go that decide when Run and Stop are called.            *)
(*                                                                         *)
(* The event listener of chains/evm/listener/tss.go handles one keygen or  *)
(* refresh event (a job) at a time; signing processes come from message    *)
(* handlers and run beside it.  The handshake between relayers is in       *)
(* TssSession; here a job's process is simply started at some point, or    *)
(* never.                                                                  *)
(***************************************************************************)
EXTENDS Integers

CONSTANTS
    Signings,   \* signing processes
    MaxJobs,    \* bound: keygen and refresh events
    MaxCrashes, \* bound: crashes of the relayer
    Faults      \* subset of {"timeout", "dropped", "failed"}

ASSUME BoundsAssumption == MaxJobs \in Nat /\ MaxCrashes \in Nat

ASSUME FaultsAssumption == Faults \subseteq {"timeout", "dropped", "failed"}

Jobs == 1 .. MaxJobs

ASSUME SigningsAssumption == Signings \cap (Jobs \cup {0}) = {}

VARIABLES
    mu,       \* 0: unlocked, else the process that locked it last
    file,     \* the keyshare file: "none", "torn" or "whole"
    job,      \* the number of events handled so far
    kind,     \* kind[j]: "keygen" or "resharing"
    exec,     \* exec[j]: the listener's Execute of job j
    run,      \* run[j]: the goroutine that runs the process of job j
    sign,     \* sign[s]: a signing process
    fatal,    \* the Go runtime has stopped the program
    crashes

vars == << mu, file, job, kind, exec, run, sign, fatal, crashes >>

ExecStates == {"none", "constructing", "executing", "timedOut",
               "returned", "abandoned"}
RunStates  == {"none", "spawned", "running", "storing", "ended"}
SignStates == {"idle", "reading", "signing", "done", "failed"}

TypeOK ==
    /\ mu \in {0} \cup Jobs \cup Signings
    /\ file \in {"none", "torn", "whole"}
    /\ job \in 0 .. MaxJobs
    /\ kind \in [Jobs -> {"keygen", "resharing"}]
    /\ exec \in [Jobs -> ExecStates]
    /\ run \in [Jobs -> RunStates]
    /\ sign \in [Signings -> SignStates]
    /\ fatal \in {"no", "yes"}
    /\ crashes \in 0 .. MaxCrashes

Init ==
    /\ mu = 0
    /\ file \in {"none", "whole"}
    /\ job = 0
    /\ kind = [j \in Jobs |-> "keygen"]
    /\ exec = [j \in Jobs |-> "none"]
    /\ run = [j \in Jobs |-> "none"]
    /\ sign = [s \in Signings |-> "idle"]
    /\ fatal = "no"
    /\ crashes = 0

-----------------------------------------------------------------------------
(* The mutex of ECDSAKeyshareStore.                                        *)

(* LockKeyshare: waits while the mutex is locked.                          *)
LockKeyshare(p) == mu = 0 /\ mu' = p

(* UnlockKeyshare: a Go mutex has no owner, so whoever calls it releases   *)
(* it; unlocking an unlocked mutex stops the whole program.                *)
UnlockKeyshare ==
    IF mu = 0
      THEN fatal' = "yes" /\ UNCHANGED mu
      ELSE mu' = 0 /\ UNCHANGED fatal

-----------------------------------------------------------------------------
(* Signing.                                                                *)

(* Mutant: the constructor reads without locking.                          *)
NewSigningUnlocked(s) ==
    /\ sign[s] = "idle"
    /\ sign' = [sign EXCEPT ![s] = "reading"]
    /\ UNCHANGED << mu, file, job, kind, exec, run, fatal, crashes >>

(* NewSigning: lock ...                                                    *)
NewSigning(s) ==
    /\ sign[s] = "idle"
    /\ LockKeyshare(s)
    /\ sign' = [sign EXCEPT ![s] = "reading"]
    /\ UNCHANGED << file, job, kind, exec, run, fatal, crashes >>

(* ... GetKeyshare, and the deferred unlock.                               *)
SigningRead(s) ==
    /\ sign[s] = "reading"
    /\ sign' = [sign EXCEPT ![s] =
                  IF file = "whole" THEN "signing" ELSE "failed"]
    /\ UnlockKeyshare
    /\ UNCHANGED << file, job, kind, exec, run, crashes >>

(* The signing session ends; Signing.Stop does not touch the keyshare.     *)
SigningEnds(s) ==
    /\ sign[s] = "signing"
    /\ sign' = [sign EXCEPT ![s] = "done"]
    /\ UNCHANGED << mu, file, job, kind, exec, run, fatal, crashes >>

-----------------------------------------------------------------------------
(* Keygen and resharing, driven by the event listener.                     *)

(* The listener is busy with job j, or between two events.                 *)
Active(j) == exec[j] \in {"constructing", "executing", "timedOut"}

ListenerFree == \A j \in Jobs : ~Active(j)

(* KeygenEventHandler.HandleEvents: skipped when the relayer already has a *)
(* keyshare, which is read without the lock; NewKeygen takes none.         *)
KeygenEvent ==
    /\ ListenerFree
    /\ job < MaxJobs
    /\ file # "whole"
    /\ job' = job + 1
    /\ kind' = [kind EXCEPT ![job + 1] = "keygen"]
    /\ exec' = [exec EXCEPT ![job + 1] = "executing"]
    /\ UNCHANGED << mu, file, run, sign, fatal, crashes >>

(* Mutant: the event is handled in a goroutine of its own.                 *)
RefreshEventConcurrent ==
    /\ job < MaxJobs
    /\ job' = job + 1
    /\ kind' = [kind EXCEPT ![job + 1] = "resharing"]
    /\ exec' = [exec EXCEPT ![job + 1] = "constructing"]
    /\ UNCHANGED << mu, file, run, sign, fatal, crashes >>

(* RefreshEventHandler.HandleEvents, up to NewResharing ...                *)
RefreshEvent ==
    /\ ListenerFree
    /\ job < MaxJobs
    /\ job' = job + 1
    /\ kind' = [kind EXCEPT ![job + 1] = "resharing"]
    /\ exec' = [exec EXCEPT ![job + 1] = "constructing"]
    /\ UNCHANGED << mu, file, run, sign, fatal, crashes >>

(* ... which locks the keyshare until Stop.  An unreadable keyshare counts *)
(* as an empty one.                                                        *)
NewResharing(j) ==
    /\ exec[j] = "constructing"
    /\ LockKeyshare(j)
    /\ exec' = [exec EXCEPT ![j] = "executing"]
    /\ UNCHANGED << file, job, kind, run, sign, fatal, crashes >>

(* The handshake has succeeded: "go startProcess".  It may still happen    *)
(* after the timeout, select choosing between the two.                     *)
Spawn(j) ==
    /\ exec[j] \in {"executing", "timedOut"}
    /\ run[j] = "none"
    /\ run' = [run EXCEPT ![j] = "spawned"]
    /\ UNCHANGED << mu, file, job, kind, exec, sign, fatal, crashes >>

(* Mutant: Keygen.Run does not lock.                                       *)
RunUnlocked(j) ==
    /\ run[j] = "spawned"
    /\ run' = [run EXCEPT ![j] = "running"]
    /\ UNCHANGED << mu, file, job, kind, exec, sign, fatal, crashes >>

(* Run: Keygen locks the keyshare here, Resharing has done so before.      *)
Run(j) ==
    /\ run[j] = "spawned"
    /\ IF kind[j] = "keygen" THEN LockKeyshare(j) ELSE UNCHANGED mu
    /\ run' = [run EXCEPT ![j] = "running"]
    /\ UNCHANGED << file, job, kind, exec, sign, fatal, crashes >>

(* Mutant: Stop leaves the keyshare locked.                                *)
StopKeepsLock == UNCHANGED << mu, fatal >>

(* Stop of keygen and resharing, whether the process ever locked or not.   *)
Stop == UnlockKeyshare

(* startProcess, tail: the loop of Execute takes the outcome of Run and    *)
(* Execute returns; its deferred function stops the process.  If the loop  *)
(* is busy the outcome is dropped and Execute goes on to its timeout.      *)
ReportedTo(j) ==
    \/ /\ exec[j] = "executing"
       /\ exec' = [exec EXCEPT ![j] = "returned"]
       /\ Stop
    \/ /\ exec[j] # "executing" \/ "dropped" \in Faults
       /\ UNCHANGED << exec, mu, fatal >>

(* processEndMessage: StoreKeyshare opens and truncates the file ...       *)
Truncate(j) ==
    /\ run[j] = "running"
    /\ run' = [run EXCEPT ![j] = "storing"]
    /\ file' = "torn"
    /\ UNCHANGED << mu, job, kind, exec, sign, fatal, crashes >>

(* ... and writes the new keyshare.                                        *)
Store(j) ==
    /\ run[j] = "storing"
    /\ run' = [run EXCEPT ![j] = "ended"]
    /\ file' = "whole"
    /\ ReportedTo(j)
    /\ UNCHANGED << job, kind, sign, crashes >>

(* The new keyshare cannot be written: the old one is gone all the same.   *)
StoreFails(j) ==
    /\ run[j] = "storing"
    /\ "failed" \in Faults
    /\ run' = [run EXCEPT ![j] = "ended"]
    /\ ReportedTo(j)
    /\ UNCHANGED << file, job, kind, sign, crashes >>

(* Run ends without a result: its context is done, or the party could not  *)
(* be built or started.                                                    *)
RunEnds(j) ==
    /\ run[j] = "running"
    /\ exec[j] # "executing" \/ "failed" \in Faults
    /\ run' = [run EXCEPT ![j] = "ended"]
    /\ ReportedTo(j)
    /\ UNCHANGED << file, job, kind, sign, crashes >>

(* watchExecution, ticker: stop the process and cancel the context.        *)
Timeout(j) ==
    /\ "timeout" \in Faults
    /\ exec[j] = "executing"
    /\ exec' = [exec EXCEPT ![j] = "timedOut"]
    /\ Stop
    /\ UNCHANGED << file, job, kind, run, sign, crashes >>

(* The loop sees the cancelled context: Execute returns and its deferred   *)
(* function stops the process once more.                                   *)
Return(j) ==
    /\ exec[j] = "timedOut"
    /\ exec' = [exec EXCEPT ![j] = "abandoned"]
    /\ Stop
    /\ UNCHANGED << file, job, kind, run, sign, crashes >>

(* The relayer goes down and starts again, for instance because the shared *)
(* configuration has changed (StartConfigWatcher, whose channel ends Run): *)
(* the file is all that is left.                                           *)
Crash ==
    /\ crashes < MaxCrashes
    /\ crashes' = crashes + 1
    /\ mu' = 0
    /\ fatal' = "no"
    /\ exec' = [j \in Jobs |-> IF j <= job THEN "returned" ELSE "none"]
    /\ run' = [j \in Jobs |-> IF j <= job THEN "ended" ELSE "none"]
    /\ sign' = [s \in Signings |->
                  IF sign[s] = "idle" THEN "idle" ELSE "failed"]
    /\ UNCHANGED << file, job, kind >>

-----------------------------------------------------------------------------
SigningStep(s) == NewSigning(s) \/ SigningRead(s) \/ SigningEnds(s)

JobStep(j) ==
    \/ NewResharing(j)
    \/ Spawn(j)
    \/ Run(j)
    \/ Truncate(j)
    \/ Store(j)
    \/ StoreFails(j)
    \/ RunEnds(j)
    \/ Timeout(j)
    \/ Return(j)

Next ==
    \/ /\ fatal = "no"
       /\ \/ \E s \in Signings : SigningStep(s)
          \/ KeygenEvent
          \/ RefreshEvent
          \/ \E j \in Jobs : JobStep(j)
    \/ Crash

Spec == Init /\ [][Next]_vars

(* Every handshake succeeds and the protocol ends, processes are           *)
(* scheduled, and Go's mutex is starvation free (it hands the lock over).  *)
Fairness ==
    /\ \A s \in Signings : WF_vars(SigningRead(s))
    /\ \A j \in Jobs :
        /\ SF_vars(NewResharing(j))
        /\ WF_vars(Spawn(j))
        /\ SF_vars(Run(j))
        /\ WF_vars(Truncate(j))
        /\ WF_vars(Store(j))

FairSpec == Spec /\ Fairness

-----------------------------------------------------------------------------
(* Properties.                                                             *)

(* No Execute of a keygen or a resharing has run into its timeout since    *)
(* the relayer started.                                                    *)
Timely == \A j \in Jobs : exec[j] \notin {"timedOut", "abandoned"}

(* The keyshare is being rewritten.                                        *)
Storing == \E j \in Jobs : run[j] = "storing"

(* Nobody releases a lock that is not locked, which would bring the whole  *)
(* relayer down: after a timeout the test of keygen expects Execute to     *)
(* return nil, as after any other end of the process.                      *)
NoFatalUnlock == fatal = "no"

(* Until a keygen or resharing times out the lock is in the hands of       *)
(* whoever relies on it: a constructor that reads the keyshare, a          *)
(* resharing from its constructor to its end, a keygen from its Run to its *)
(* end.  No Stop of another process takes it away, and none finds it       *)
(* unlocked (NewSigning, NewResharing, Keygen.Run, Stop).                  *)
LockHeld ==
    Timely =>
        /\ fatal = "no"
        /\ \A s \in Signings : sign[s] = "reading" => mu = s
        /\ \A j \in Jobs :
            /\ kind[j] = "resharing" /\ exec[j] = "executing" => mu = j
            /\ run[j] \in {"running", "storing"} => mu = j

(* Until then no signing process is constructed from a half-written        *)
(* keyshare, and no event is handled while one is being written: the       *)
(* unlocked read of KeygenEventHandler is safe because the listener        *)
(* handles one event at a time.                                            *)
NoTornRead ==
    Timely /\ Storing => /\ \A s \in Signings : sign[s] # "reading"
                         /\ ~ListenerFree

(* What makes them inductive: nothing is left over of a job that ended,    *)
(* jobs are executed in order and the lock's last owner still needs it.    *)
JobsInv ==
    /\ \A j \in Jobs : exec[j] # "none" => j <= job
    /\ \A i, j \in Jobs : Active(i) /\ Active(j) => i = j
    /\ Timely => \A j \in Jobs : run[j] \in {"spawned", "running", "storing"}
                    => exec[j] = "executing"
    /\ \A j \in Jobs : run[j] = "none" \/ exec[j] \notin {"none", "constructing"}

(* The inductive invariant of the lock discipline (keyshare/ecdsa.go,      *)
(* Execute).                                                               *)
KeyshareInv == TypeOK /\ JobsInv /\ LockHeld

(* No Execute has run into its timeout, and none is about to because the   *)
(* outcome of its process was dropped.                                     *)
Undisturbed == Timely /\ \A j \in Jobs : run[j] = "ended" => exec[j] # "executing"

(* As long as none does, the listener gets through every event, whatever   *)
(* processes fail or crash (HandleEvents, Execute, Stop).                  *)
JobsReturn ==
    []Undisturbed => \A j \in Jobs : exec[j] # "none" ~> exec[j] = "returned"

(* Neither do keygens and resharings, however they end, ever keep the      *)
(* keyshare from the signing processes for good (Execute, Stop).           *)
LockReleased == []Undisturbed => (mu # 0 ~> mu = 0)

=============================================================================
