---------------------------- MODULE LeaderLease ----------------------------
(***************************************************************************)
(* Leader election of the exchange engines: the lease row in Postgres      *)
(* (src/src/desk/leader.rs, try_acquire) and the lease task of every       *)
(* engine process (src/src/bin/exchange_engine.rs, main).                  *)
(*                                                                         *)
(* A process is one run of the binary: its holder name contains its pid,   *)
(* so a restarted engine is another process.  The statement try_acquire    *)
(* sends executes in the database at one moment and its answer is handled  *)
(* at a later one; the two are separate steps.  Clock and TTL are          *)
(* abstracted to whether the lease has expired.                            *)
(***************************************************************************)
EXTENDS Integers, FiniteSets

CONSTANTS
  Procs,       \* engine processes, one per start of the binary
  MaxFaults    \* bound on crashes, failed queries and renewals that come late

ASSUME FaultsAssumption == MaxFaults \in Nat

VARIABLES
  holder,      \* the row: leader_lease.holder
  epoch,       \* the row: leader_lease.epoch, the fencing token
  expired,     \* "yes" when leader_lease.expires_at < NOW()
  status,      \* status[p]: "unstarted", "up" or "exited"
  reply,       \* reply[p]: the query of the lease task that is under way
  wasLeader,   \* wasLeader[p]: was_leader of the lease task
  epochOf,     \* epochOf[p]: the epoch atomic the symbol threads read
  faults       \* faults so far

rowVars == <<holder, epoch, expired>>
taskVars == <<status, reply, wasLeader, epochOf>>
leaseVars == <<rowVars, taskVars, faults>>

NoHolder == "nobody"
NoEpoch == -1        \* what the atomic holds while the process does not lead

None == [kind |-> "none", epoch |-> 0]
Asked == [kind |-> "asked", epoch |-> 0]
Denied == [kind |-> "denied", epoch |-> 0]
Failed == [kind |-> "failed", epoch |-> 0]
Granted(e) == [kind |-> "granted", epoch |-> e]

Up(p) == status[p] = "up"
Leads(p) == Up(p) /\ epochOf[p] # NoEpoch

LeaseInit ==
  /\ holder = NoHolder /\ epoch = 0 /\ expired = "yes"
  /\ status = [p \in Procs |-> "unstarted"]
  /\ reply = [p \in Procs |-> None]
  /\ wasLeader = [p \in Procs |-> "no"]
  /\ epochOf = [p \in Procs |-> NoEpoch]
  /\ faults = 0

(* The process starts with a fresh lease task.                             *)
StartTask(p) ==
  /\ status[p] = "unstarted"
  /\ status' = [status EXCEPT ![p] = "up"]
  /\ UNCHANGED <<rowVars, reply, wasLeader, epochOf, faults>>

(* The interval ticks and try_acquire sends its statement.                 *)
Ask(p) ==
  /\ Up(p) /\ reply[p] = None
  /\ reply' = [reply EXCEPT ![p] = Asked]
  /\ UNCHANGED <<rowVars, status, wasLeader, epochOf, faults>>

MutantMayHold(p) == holder = p \/ holder = NoHolder

(* The row is ours, or missing, or the lease has expired.                  *)
MayHold(p) == holder = p \/ expired = "yes"

MutantEpochAfter(p) == IF holder = NoHolder THEN epoch + 1 ELSE epoch

(* A renewal keeps the epoch, a takeover bumps it.                         *)
EpochAfter(p) == IF holder = p THEN epoch ELSE epoch + 1

(* The database executes the statement, also when the process that sent it *)
(* has gone in the meantime.                                               *)
Execute(p) ==
  /\ reply[p] = Asked
  /\ IF MayHold(p)
     THEN /\ holder' = p /\ epoch' = EpochAfter(p) /\ expired' = "no"
          /\ reply' = [reply EXCEPT ![p] = Granted(EpochAfter(p))]
     ELSE /\ reply' = [reply EXCEPT ![p] = Denied]
          /\ UNCHANGED rowVars
  /\ UNCHANGED <<status, wasLeader, epochOf, faults>>

(* The query ends in an error, before or after the database executed it.   *)
QueryFails(p) ==
  /\ Up(p) /\ reply[p].kind \in {"asked", "granted", "denied"}
  /\ faults < MaxFaults
  /\ faults' = faults + 1
  /\ reply' = [reply EXCEPT ![p] = Failed]
  /\ UNCHANGED <<rowVars, status, wasLeader, epochOf>>

(* Ok(Some): the epoch becomes visible to the symbol threads.              *)
OnGranted(p) ==
  /\ Up(p) /\ reply[p].kind = "granted"
  /\ epochOf' = [epochOf EXCEPT ![p] = reply[p].epoch]
  /\ wasLeader' = [wasLeader EXCEPT ![p] = "yes"]
  /\ reply' = [reply EXCEPT ![p] = None]
  /\ UNCHANGED <<rowVars, status, faults>>

(* Ok(None) and Err: a leader exits with code 17, a standby goes on; only  *)
(* Ok(None) writes -1.                                                     *)
OnRefused(p) ==
  /\ Up(p) /\ reply[p].kind \in {"denied", "failed"}
  /\ IF wasLeader[p] = "yes"
     THEN status' = [status EXCEPT ![p] = "exited"] /\ UNCHANGED epochOf
     ELSE /\ epochOf' = IF reply[p].kind = "denied"
                        THEN [epochOf EXCEPT ![p] = NoEpoch] ELSE epochOf
          /\ UNCHANGED status
  /\ reply' = [reply EXCEPT ![p] = None]
  /\ UNCHANGED <<rowVars, wasLeader, faults>>

(* The process is killed.                                                  *)
Crash(p) ==
  /\ Up(p)
  /\ faults < MaxFaults
  /\ faults' = faults + 1
  /\ status' = [status EXCEPT ![p] = "exited"]
  /\ UNCHANGED <<rowVars, reply, wasLeader, epochOf>>

(* The lease of a process that is gone runs out.                           *)
ExpireAbandoned ==
  /\ expired = "no" /\ ~Up(holder)
  /\ expired' = "yes"
  /\ UNCHANGED <<holder, epoch, taskVars, faults>>

(* The lease of a running process runs out before its renewal: a stalled   *)
(* runtime, a slow database.                                               *)
ExpireLate ==
  /\ expired = "no" /\ Up(holder)
  /\ faults < MaxFaults
  /\ faults' = faults + 1
  /\ expired' = "yes"
  /\ UNCHANGED <<holder, epoch, taskVars>>

TaskStep(p) ==
  Ask(p) \/ Execute(p) \/ OnGranted(p) \/ OnRefused(p)
Fault(p) == QueryFails(p) \/ Crash(p)

LeaseNext ==
  \/ \E p \in Procs : StartTask(p) \/ TaskStep(p) \/ Fault(p)
  \/ ExpireAbandoned
  \/ ExpireLate

LeaseSpec == LeaseInit /\ [][LeaseNext]_leaseVars

(* The service manager starts processes, the lease task ticks and handles  *)
(* its answers, the database answers, and time passes.  Nothing is assumed *)
(* about faults.                                                           *)
LeaseFairSpec ==
  /\ LeaseSpec
  /\ \A p \in Procs : WF_leaseVars(StartTask(p)) /\ WF_leaseVars(TaskStep(p))
  /\ WF_leaseVars(ExpireAbandoned)

-----------------------------------------------------------------------------
(* Types of the variables.                                                 *)
Replies == [kind : {"none", "asked", "granted", "denied", "failed"}, epoch : Nat]
LeaseTypeOK ==
  /\ holder \in Procs \cup {NoHolder} /\ epoch \in Nat /\ expired \in {"yes", "no"}
  /\ status \in [Procs -> {"unstarted", "up", "exited"}]
  /\ reply \in [Procs -> Replies]
  /\ wasLeader \in [Procs -> {"yes", "no"}]
  /\ epochOf \in [Procs -> Nat \cup {NoEpoch}]
  /\ faults \in Nat

(* No two processes ever believe in the same epoch, whatever is delayed,   *)
(* lost or restarted: the fencing token tells all leaders apart, also      *)
(* those that led at the same time.                                        *)
EpochsUnique ==
  \A p, q \in Procs : epochOf[p] = epochOf[q] /\ epochOf[p] # NoEpoch => p = q

(* Failover completes: once faults stop, some process leads for good (with *)
(* more starts of the engine than faults).                                 *)
LeaderEmerges == <>[](\E p \in Procs : Leads(p))
=============================================================================
