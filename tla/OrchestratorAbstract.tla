------------------------- MODULE OrchestratorAbstract -------------------------
(***************************************************************************)
(* What the update orchestrator's Apply promises to the features that     *)
(* call it (updateorchestrator/update_orchestrator_mgr.go): calls are     *)
(* served one at a time under applyLock; each publishes an orchestration  *)
(* started event and then a finished event carrying some error outcome;   *)
(* after finished the call either returns or the device reboots, and a    *)
(* reboot whose sysrq write fails returns too.  How the outcome comes     *)
(* about (the drivers) is left out: UpdateOrchestrator refines this.      *)
(***************************************************************************)
EXTENDS Naturals, Sequences

CONSTANTS
  Callers,     \* the features that call Apply
  NoCaller,    \* applyLock is free
  MaxApplies   \* bound on the number of Apply calls

VARIABLES
  opc,         \* per caller: idle, waiting (for applyLock), applying, rebooting
  oid,         \* per caller: the number of its current call
  applyLock,   \* the caller holding the orchestrator's applyLock
  nApplies,    \* calls made so far
  trace,       \* the orchestration events published on the bus, in order
  rebooted     \* the device went down

absVars == <<opc, oid, applyLock, nApplies, trace, rebooted>>

AbsPcs == {"idle", "waiting", "applying", "rebooting"}

\* An orchestration event: its action, the call it belongs to (the
\* correlation context of the call) and whether it carries an error.
Lifecycle == [what : {"started", "finished"}, id : 1..MaxApplies, err : BOOLEAN]

AbsTypeOK ==
  /\ opc \in [Callers -> AbsPcs]
  /\ oid \in [Callers -> 0..MaxApplies]
  /\ applyLock \in Callers \cup {NoCaller}
  /\ nApplies \in 0..MaxApplies
  /\ trace \in Seq(Lifecycle)
  /\ rebooted \in BOOLEAN

\* The events manager's Publish: under publishMutex the event is written
\* to every subscriber's queue, i.e. appended to the one ordered bus.
Publish(e) == trace' = Append(trace, e)

AbsInit ==
  /\ opc = [c \in Callers |-> "idle"]
  /\ oid = [c \in Callers |-> 0]
  /\ applyLock = NoCaller
  /\ nApplies = 0
  /\ trace = <<>>
  /\ rebooted = FALSE

\* A feature calls Apply; the call blocks on applyLock.
AbsCall(c) ==
  /\ opc[c] = "idle"
  /\ nApplies < MaxApplies
  /\ opc' = [opc EXCEPT ![c] = "waiting"]
  /\ oid' = [oid EXCEPT ![c] = nApplies + 1]
  /\ nApplies' = nApplies + 1
  /\ UNCHANGED <<applyLock, trace, rebooted>>

\* The call takes applyLock and publishes started.
AbsStart(c) ==
  /\ opc[c] = "waiting"
  /\ applyLock = NoCaller
  /\ applyLock' = c
  /\ opc' = [opc EXCEPT ![c] = "applying"]
  /\ Publish([what |-> "started", id |-> oid[c], err |-> FALSE])
  /\ UNCHANGED <<oid, nApplies, rebooted>>

\* The call publishes finished with its outcome and returns, or goes on
\* to reboot still holding applyLock.
AbsFinish(c) ==
  /\ opc[c] = "applying"
  /\ \E e \in BOOLEAN :
       Publish([what |-> "finished", id |-> oid[c], err |-> e])
  /\ \/ /\ opc' = [opc EXCEPT ![c] = "idle"]
        /\ applyLock' = NoCaller
     \/ /\ opc' = [opc EXCEPT ![c] = "rebooting"]
        /\ UNCHANGED applyLock
  /\ UNCHANGED <<oid, nApplies, rebooted>>

\* The reboot takes the device down, or fails and the call returns.
AbsReboot(c) ==
  /\ opc[c] = "rebooting"
  /\ \/ /\ rebooted' = TRUE
        /\ UNCHANGED <<opc, applyLock>>
     \/ /\ opc' = [opc EXCEPT ![c] = "idle"]
        /\ applyLock' = NoCaller
        /\ UNCHANGED rebooted
  /\ UNCHANGED <<oid, nApplies, trace>>

AbsNext ==
  /\ ~rebooted
  /\ \E c \in Callers : AbsCall(c) \/ AbsStart(c) \/ AbsFinish(c) \/ AbsReboot(c)

\* applyLock is a sync.Mutex (strong fairness, see UpdateOrchestrator); the
\* steps of a call that holds it are taken by its goroutine.
AbsFairness ==
  \A c \in Callers :
    /\ SF_absVars(AbsStart(c))
    /\ WF_absVars(AbsFinish(c))
    /\ WF_absVars(AbsReboot(c))

AbsSpec == AbsInit /\ [][AbsNext]_absVars /\ AbsFairness

=============================================================================
