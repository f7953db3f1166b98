-------------------------- MODULE UpdateOrchestrator --------------------------
(***************************************************************************)
(* The update orchestrator (orchestration/updateorchestrator):            *)
(* updateOrchestrator.Apply run by several goroutines at once, composed   *)
(* with the self-update driver of SelfUpdateManager, an outcome for the   *)
(* cluster driver's Apply, the reboot manager and the remote connection   *)
(* status handler.                                                         *)
(*                                                                         *)
(* trace records, in the order they happen, what the orchestrator         *)
(* publishes on the events bus (started, finished, resources) and the     *)
(* driver calls and reboots it makes between them.                        *)
(***************************************************************************)
EXTENDS SelfUpdateManager

CONSTANTS
  Callers,      \* goroutines that call Apply (the feature adapters' workers)
  NoCaller,     \* model value: applyLock is free
  Manifests,    \* manifests a caller may apply, as [bundles, k8s]
  MaxApplies,   \* bound on Apply calls
  MaxConnMsgs   \* bound on remote connection status messages

ASSUME NoCaller \notin Callers
ASSUME MaxApplies \in Nat \ {0} /\ MaxConnMsgs \in Nat

(* A manifest keeps what Apply tells apart: its SelfUpdateBundle          *)
(* resources in order, and whether it has any other resource.             *)
ASSUME Manifests \subseteq [bundles : Seq(Bundles), k8s : BOOLEAN]

VARIABLES
  opc,              \* program point of each caller's Apply
  omf,              \* manifest of each caller's Apply
  oid,              \* apply id of each caller's Apply (its apply context)
  applyLock,        \* holder of upOrch.applyLock, or NoCaller
  applyErr,         \* applyErr of each caller's Apply
  suApplyResult,    \* suApplyResult of each caller's Apply
  nApplies,         \* Apply calls so far
  applyMf,          \* manifest of each apply id (history)
  trace,            \* published events and driver calls, in order (history)
  connectionStatus, \* updOrch.connectionStatus
  connMsgs,         \* connection status messages so far
  rebooted          \* the reboot manager has triggered the reboot

orchVars == <<opc, omf, oid, applyLock, applyErr, suApplyResult, nApplies,
              applyMf, trace, connectionStatus, connMsgs, rebooted>>
vars == <<suVars, orchVars>>

ApplyIds == 1..MaxApplies
NoManifest == [bundles |-> <<>>, k8s |-> FALSE]
Pcs == {"idle", "waiting", "started", "selfUpdate", "cluster", "finishing", "reboot"}
TraceKinds == {"started", "selfUpdate", "cluster", "finished", "reboot", "resources"}
Entry(w, i, e, r) == [what |-> w, id |-> i, err |-> e, result |-> r]

OrchTypeOK ==
  /\ opc \in [Callers -> Pcs]
  /\ omf \in [Callers -> Manifests \cup {NoManifest}]
  /\ oid \in [Callers -> 0..MaxApplies]
  /\ applyLock \in Callers \cup {NoCaller}
  /\ applyErr \in [Callers -> BOOLEAN]
  /\ suApplyResult \in [Callers -> ApplyResults]
  /\ nApplies \in 0..MaxApplies
  /\ applyMf \in [ApplyIds -> Manifests \cup {NoManifest}]
  /\ trace \in Seq([what : TraceKinds, id : 0..MaxApplies, err : BOOLEAN, result : Results])
  /\ connectionStatus \in BOOLEAN /\ connMsgs \in 0..MaxConnMsgs
  /\ rebooted \in BOOLEAN

TypeOK == SuTypeOK /\ OrchTypeOK

OrchInit ==
  /\ opc = [c \in Callers |-> "idle"]
  /\ omf = [c \in Callers |-> NoManifest]
  /\ oid = [c \in Callers |-> 0]
  /\ applyLock = NoCaller
  /\ applyErr = [c \in Callers |-> FALSE]
  /\ suApplyResult = [c \in Callers |-> NoReturn]
  /\ nApplies = 0
  /\ applyMf = [i \in ApplyIds |-> NoManifest]
  /\ trace = <<>>
  /\ connectionStatus = FALSE /\ connMsgs = 0
  /\ rebooted = FALSE

Init == SuInit /\ OrchInit

(***************************************************************************)
(* Apply, one action per step between the points where another goroutine *)
(* can interleave.  The deferred applyLock.Unlock() is Release.           *)
(***************************************************************************)
Publish(e) == trace' = Append(trace, e)

Release(c) ==
  /\ applyLock' = NoCaller
  /\ opc' = [opc EXCEPT ![c] = "idle"]

\* A feature adapter's worker calls Apply with a manifest.
OrchCall(c, m) ==
  /\ opc[c] = "idle"
  /\ nApplies < MaxApplies
  /\ nApplies' = nApplies + 1
  /\ opc' = [opc EXCEPT ![c] = "waiting"]
  /\ omf' = [omf EXCEPT ![c] = m]
  /\ oid' = [oid EXCEPT ![c] = nApplies + 1]
  /\ applyMf' = [applyMf EXCEPT ![nApplies + 1] = m]
  /\ UNCHANGED <<suVars, applyLock, applyErr, suApplyResult, trace,
                 connectionStatus, connMsgs, rebooted>>

(* Mutant: publish started without taking applyLock.                       *)
OrchStartUnlocked(c) ==
  /\ opc[c] = "waiting"
  /\ applyLock' = c
  /\ opc' = [opc EXCEPT ![c] = "started"]
  /\ applyErr' = [applyErr EXCEPT ![c] = FALSE]
  /\ suApplyResult' = [suApplyResult EXCEPT ![c] = NoReturn]
  /\ Publish(Entry("started", oid[c], FALSE, "NoResult"))
  /\ UNCHANGED <<suVars, omf, oid, nApplies, applyMf, connectionStatus, connMsgs, rebooted>>

(* Lock, attach the manifest to the context and publish started.         *)
OrchStart(c) ==
  /\ opc[c] = "waiting"
  /\ applyLock = NoCaller
  /\ applyLock' = c
  /\ opc' = [opc EXCEPT ![c] = "started"]
  /\ applyErr' = [applyErr EXCEPT ![c] = FALSE]
  /\ suApplyResult' = [suApplyResult EXCEPT ![c] = NoReturn]
  /\ Publish(Entry("started", oid[c], FALSE, "NoResult"))
  /\ UNCHANGED <<suVars, omf, oid, nApplies, applyMf, connectionStatus, connMsgs, rebooted>>

(* Partition the manifest.  A second SelfUpdateBundle publishes finished *)
(* with an error and returns; one bundle goes to the self-update driver.  *)
OrchPartition(c) ==
  /\ opc[c] = "started"
  /\ LET bs == omf[c].bundles IN
       \/ /\ Len(bs) >= 2
          /\ Publish(Entry("finished", oid[c], TRUE, "NoResult"))
          /\ Release(c)
          /\ UNCHANGED suCall
       \/ /\ Len(bs) = 1
          /\ suCall' = bs[1]
          /\ opc' = [opc EXCEPT ![c] = "selfUpdate"]
          /\ UNCHANGED <<trace, applyLock>>
       \/ /\ Len(bs) = 0
          /\ opc' = [opc EXCEPT ![c] = "cluster"]
          /\ UNCHANGED <<suCall, trace, applyLock>>
  /\ UNCHANGED <<suReturn, applyVars, opVars, subVars, suaVars, omf, oid,
                 applyErr, suApplyResult, nApplies, applyMf, connectionStatus,
                 connMsgs, rebooted>>

(* The self-update driver's Apply returned: applyErr = suApplyResult.Err. *)
OrchSelfUpdateReturned(c) ==
  /\ opc[c] = "selfUpdate"
  /\ suCall = NoBundle
  /\ suReturn # NoReturn
  /\ suApplyResult' = [suApplyResult EXCEPT ![c] = suReturn]
  /\ applyErr' = [applyErr EXCEPT ![c] = suReturn.err]
  /\ suReturn' = NoReturn
  /\ opc' = [opc EXCEPT ![c] = "cluster"]
  /\ Publish(Entry("selfUpdate", oid[c], suReturn.err, suReturn.result))
  /\ UNCHANGED <<suCall, applyVars, opVars, subVars, suaVars, omf, oid,
                 applyLock, nApplies, applyMf, connectionStatus, connMsgs, rebooted>>

\* The error outcomes of k8sUpdateManager.Apply: nil, or the error of
\* newKubectlApply or of cmd.apply.
K8sApplyErrors == BOOLEAN

(* Mutant: the cluster apply runs without checking applyErr == nil.       *)
OrchClusterIgnoresError(c) ==
  /\ opc[c] = "cluster"
  /\ opc' = [opc EXCEPT ![c] = "finishing"]
  /\ IF omf[c].k8s
       THEN \E e \in K8sApplyErrors :
              /\ applyErr' = [applyErr EXCEPT ![c] = e]
              /\ Publish(Entry("cluster", oid[c], e, "NoResult"))
       ELSE UNCHANGED <<applyErr, trace>>
  /\ UNCHANGED <<suVars, omf, oid, applyLock, suApplyResult, nApplies, applyMf,
                 connectionStatus, connMsgs, rebooted>>

(* Only when the self update succeeded and other resources remain does   *)
(* the cluster driver's Apply run; its error becomes applyErr.           *)
OrchCluster(c) ==
  /\ opc[c] = "cluster"
  /\ opc' = [opc EXCEPT ![c] = "finishing"]
  /\ IF ~applyErr[c] /\ omf[c].k8s
       THEN \E e \in K8sApplyErrors :
              /\ applyErr' = [applyErr EXCEPT ![c] = e]
              /\ Publish(Entry("cluster", oid[c], e, "NoResult"))
       ELSE UNCHANGED <<applyErr, trace>>
  /\ UNCHANGED <<suVars, omf, oid, applyLock, suApplyResult, nApplies, applyMf,
                 connectionStatus, connMsgs, rebooted>>

(* Publish finished with applyErr; a required reboot is started after it, *)
(* still holding the lock.                                                 *)
OrchFinish(c) ==
  /\ opc[c] = "finishing"
  /\ Publish(Entry("finished", oid[c], applyErr[c], "NoResult"))
  /\ IF suApplyResult[c].rebootRequired
       THEN opc' = [opc EXCEPT ![c] = "reboot"] /\ UNCHANGED applyLock
       ELSE Release(c)
  /\ UNCHANGED <<suVars, omf, oid, applyErr, suApplyResult, nApplies, applyMf,
                 connectionStatus, connMsgs, rebooted>>

(* rebootManager.Reboot: after RebootTimeout it writes the two sysrq      *)
(* files.  The device goes down, or a write fails and the error is only   *)
(* logged.                                                                 *)
OrchReboot(c) ==
  /\ opc[c] = "reboot"
  /\ \/ /\ rebooted' = TRUE
        /\ Publish(Entry("reboot", oid[c], FALSE, "NoResult"))
        /\ UNCHANGED <<opc, applyLock>>
     \/ /\ Publish(Entry("reboot", oid[c], TRUE, "NoResult"))
        /\ Release(c)
        /\ UNCHANGED rebooted
  /\ UNCHANGED <<suVars, omf, oid, applyErr, suApplyResult, nApplies, applyMf,
                 connectionStatus, connMsgs>>

(* handleConnectionStatus: on a false -> true edge of "connected", Get    *)
(* the whole state and publish a resources/updated event.  A payload     *)
(* that is not JSON or has no boolean "connected" changes nothing.       *)
HandleConnectionStatus(msg) ==
  /\ connMsgs < MaxConnMsgs
  /\ connMsgs' = connMsgs + 1
  /\ IF msg = "invalid"
       THEN UNCHANGED <<connectionStatus, trace>>
       ELSE /\ connectionStatus' = (msg = "connected")
            /\ IF msg = "connected" /\ ~connectionStatus
                 THEN Publish(Entry("resources", 0, FALSE, "NoResult"))
                 ELSE UNCHANGED trace
  /\ UNCHANGED <<suVars, opc, omf, oid, applyLock, applyErr, suApplyResult,
                 nApplies, applyMf, rebooted>>

\* Every caller is idle and no call is left: nothing is left to do.
OrchQuiescent ==
  /\ \A c \in Callers : opc[c] = "idle"
  /\ nApplies = MaxApplies
  /\ UNCHANGED vars

\* After the reboot the device is down.
Halted == rebooted /\ UNCHANGED vars

OrchStep ==
  \/ \E c \in Callers, m \in Manifests : OrchCall(c, m)
  \/ \E c \in Callers :
       \/ OrchStart(c)
       \/ OrchPartition(c)
       \/ OrchSelfUpdateReturned(c)
       \/ OrchCluster(c)
       \/ OrchFinish(c)
       \/ OrchReboot(c)
  \/ \E msg \in {"connected", "disconnected", "invalid"} : HandleConnectionStatus(msg)

Next ==
  \/ /\ ~rebooted
     /\ \/ OrchStep
        \/ SuDriverNext /\ UNCHANGED orchVars
        \/ SuEnvNext /\ UNCHANGED orchVars
        \/ OrchQuiescent
  \/ Halted

(* Go's sync.Mutex hands the lock to a waiter that has waited over 1 ms  *)
(* (starvation mode), so a waiting caller gets it: strong fairness for   *)
(* OrchStart.  The other steps are code a running goroutine executes.    *)
Fairness ==
  /\ \A c \in Callers :
       /\ SF_vars(OrchStart(c))
       /\ WF_vars(OrchPartition(c))
       /\ WF_vars(OrchSelfUpdateReturned(c))
       /\ WF_vars(OrchCluster(c))
       /\ WF_vars(OrchFinish(c))
       /\ WF_vars(OrchReboot(c))
  /\ WF_vars(SuApplyBegin /\ UNCHANGED orchVars)
  /\ WF_vars(SuApplyPublish /\ UNCHANGED orchVars)
  /\ WF_vars(SuApplyTimeout /\ UNCHANGED orchVars)
  /\ WF_vars(SuApplyReceiveDone /\ UNCHANGED orchVars)
  /\ WF_vars(SuApplyResult /\ UNCHANGED orchVars)
  /\ WF_vars(HandleSelfUpdateDesiredStateFeedback /\ UNCHANGED orchVars)

Spec == Init /\ [][Next]_vars /\ Fairness

(***************************************************************************)
(* Properties                                                              *)
(***************************************************************************)
IsApplyEntry(e) == e.what # "resources"

(* Applies are serialized by applyLock and each one's driver calls lie   *)
(* between its own started and finished, even when several adapters call *)
(* Apply at once: the apply entries of the trace are blocks               *)
(* started(i) selfUpdate(i)? cluster(i)? finished(i) reboot(i)?, one id    *)
(* per block, and a reboot follows the finished of its own apply.         *)
ApplyTraceBracketed ==
  LET A == SelectSeq(trace, IsApplyEntry) IN
  \A l \in 1..Len(A) :
    CASE A[l].what = "started" -> l = 1 \/ A[l - 1].what \in {"finished", "reboot"}
      [] A[l].what = "reboot"  -> l > 1 /\ A[l - 1].what = "finished" /\ A[l - 1].id = A[l].id
      [] OTHER -> /\ l > 1
                  /\ A[l - 1].what \in {"started", "selfUpdate", "cluster"}
                  /\ A[l - 1].id = A[l].id

(* The finished event of an apply carries an error exactly when the      *)
(* manifest has two SelfUpdateBundles or a driver it called failed; the  *)
(* self-update driver is called exactly for a manifest with one bundle,  *)
(* and the cluster driver exactly when other resources remain and the    *)
(* self update returned no error.                                         *)
FinishedReportsOutcome ==
  \A l \in 1..Len(trace) : trace[l].what = "finished" =>
    LET i   == trace[l].id
        mf  == applyMf[i]
        drv == {k \in 1..(l - 1) : trace[k].id = i /\ trace[k].what \in {"selfUpdate", "cluster"}}
        suFailed == \E k \in drv : trace[k].what = "selfUpdate" /\ trace[k].err
    IN /\ trace[l].err <=> (Len(mf.bundles) >= 2 \/ \E k \in drv : trace[k].err)
       /\ (\E k \in drv : trace[k].what = "selfUpdate") <=> Len(mf.bundles) = 1
       /\ (\E k \in drv : trace[k].what = "cluster") <=> (Len(mf.bundles) < 2 /\ mf.k8s /\ ~suFailed)

(* Every Apply call publishes its finished event and releases applyLock, *)
(* unless the device reboots: the self-update driver times out, and the  *)
(* lock is handed on fairly.                                              *)
ApplyEventuallyFinishes ==
  \A c \in Callers : opc[c] = "waiting" ~> (opc[c] = "idle" \/ rebooted)

(* The spec (error handling): rejected updates have a distinct terminal  *)
(* status, reserved for checksum mismatches and SUA tech code 4001.  An  *)
(* apply whose self update was rejected must not finish without error,  *)
(* which the adapters report as FinishedSuccess.                          *)
RejectedNotReportedAsSuccess ==
  \A l \in 1..Len(trace) : (trace[l].what = "finished" /\ ~trace[l].err) =>
    ~\E k \in 1..(l - 1) : /\ trace[k].id = trace[l].id
                           /\ trace[k].what = "selfUpdate"
                           /\ trace[k].result = "Rejected"

(***************************************************************************)
(* Refinement of OrchestratorAbstract.  A caller is applying from taking *)
(* applyLock until it publishes finished; the abstract trace is the      *)
(* started and finished events, without the result of the self update.  *)
(***************************************************************************)
AbsPc(c) ==
  CASE opc[c] \in {"idle", "waiting"} -> opc[c]
    [] opc[c] = "reboot"             -> "rebooting"
    [] OTHER                          -> "applying"

IsLifecycleEntry(e) == e.what \in {"started", "finished"}

AbsTrace ==
  LET L == SelectSeq(trace, IsLifecycleEntry) IN
  [l \in 1..Len(L) |-> [what |-> L[l].what, id |-> L[l].id, err |-> L[l].err]]

Abs == INSTANCE OrchestratorAbstract WITH
         opc <- [c \in Callers |-> AbsPc(c)], trace <- AbsTrace

(* Every behaviour of the orchestrator composed with its drivers is one  *)
(* the abstract Apply allows, fairness included: the callers see one    *)
(* started and one finished per call, under applyLock, and every call   *)
(* returns or reboots.                                                   *)
OrchestratorRefinement == Abs!AbsSpec

==============================================================================
