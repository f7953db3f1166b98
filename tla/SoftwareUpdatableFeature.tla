----------------------- MODULE SoftwareUpdatableFeature -----------------------
(***************************************************************************)
(* The SoftwareUpdatable:manifest feature (things/features_rollouts_      *)
(* software_updatable_manifests*.go) on top of the orchestrator's         *)
(* promise, OrchestratorAbstract, with the things update service's        *)
(* processThing, which disposes the feature instance and registers a new  *)
(* one.                                                                    *)
(*                                                                         *)
(* install starts a goroutine per UpdateAction; the goroutines take       *)
(* processOperationsLock in turn and run installModule, which writes the  *)
(* lastOperation status step by step and calls the orchestrator's Apply   *)
(* with a context tagged with the correlation ID of lastOperation as it   *)
(* reads it then.  The feature's event loop receives the orchestration    *)
(* events in publish order, checks the event's correlation ID against     *)
(* lastOperation, and then writes Installing, Installed, FinishedSuccess  *)
(* or FinishedError.  Every property write takes statusUpdatesLock on its *)
(* own, so writes of the worker and of the event loop interleave.         *)
(*                                                                         *)
(* The status, processOperationsLock and the event loop belong to one     *)
(* instance: instances are numbered 1..MaxSufRegistrations, instance 1 is *)
(* registered first, and a disposed instance's worker and (cancelled)     *)
(* loop go on running.  Every instance writes the same twin feature, so   *)
(* the history of the twin's lastOperation is kept per correlation ID.    *)
(***************************************************************************)
EXTENDS OrchestratorAbstract, SequencesExt

CONSTANTS
  SUFeature,          \* the Apply caller that is this feature's worker
  CorrelationIDs,     \* correlation IDs of the UpdateActions sent to install
  NoCid,              \* a context without the feature's operation value
  MaxUoApplies,       \* bound on Apply calls of the other feature
  SequentialInstalls, \* the backend sends install only after the previous one finished
  MaxSufRegistrations,\* registrations of the feature (processThing calls)
  ReRegisterWhileIdle \* processThing runs only when every install has finished

ASSUME SUFeature \in Callers /\ NoCid \notin CorrelationIDs
ASSUME MaxApplies >= Cardinality(CorrelationIDs) + MaxUoApplies
ASSUME SequentialInstalls \in BOOLEAN /\ ReRegisterWhileIdle \in BOOLEAN
ASSUME MaxSufRegistrations \in Nat \ {0}

SInst == 1..MaxSufRegistrations

VARIABLES
  requested,          \* UpdateActions accepted by install
  scur,               \* the registered instance
  sreg,               \* per instance: none, registered, cancelled, exited
  queued,             \* per instance: processUpdateAction goroutines waiting for its processOperationsLock
  ipc,                \* per instance: program point of installModule
  icid,               \* per instance: correlation ID installModule works on
  ifail,              \* per instance: terminal status of a failed getUpdateManifest
  ctxOf,              \* per Apply call: correlation ID in its context
  lastOperation,      \* per instance: status.LastOperation, as [cid, status]
  lastFailedOperation,\* per instance: status.LastFailedOperation
  evCur,              \* per instance: orchestration events its event loop has received
  cancelAt,           \* per instance: events on the bus when its loop was cancelled
  epc,                \* per instance: program point of the event loop
  ecid,               \* per instance: correlation ID of the event being handled
  eerr,               \* per instance: error of the finished event being handled
  statusHist,         \* per correlation ID: lastOperation statuses written to the twin
  sufPanicked         \* a nil pointer dereference stopped the process

sufVars == <<requested, scur, sreg, queued, ipc, icid, ifail, ctxOf,
             lastOperation, lastFailedOperation, evCur, cancelAt, epc, ecid,
             eerr, statusHist, sufPanicked>>
allVars == <<absVars, sufVars>>

\* datatypes.Status values written by the feature.
Statuses == {"Started", "Downloading", "Downloaded", "Installing", "Installed",
             "FinishedSuccess", "FinishedError", "FinishedRejected"}
FailStatuses == {"FinishedError", "FinishedRejected"}
TerminalStatuses == FailStatuses \cup {"FinishedSuccess"}

\* A nil *OperationStatus.
NoOperation == [cid |-> NoCid, status |-> "None"]
Operations == [cid : CorrelationIDs, status : Statuses] \cup {NoOperation}

SufTypeOK ==
  /\ AbsTypeOK
  /\ requested \subseteq CorrelationIDs
  /\ scur \in SInst
  /\ sreg \in [SInst -> {"none", "registered", "cancelled", "exited"}]
  /\ queued \in [SInst -> SUBSET requested]
  /\ ipc \in [SInst -> {"idle", "started", "downloading", "failing", "downloaded", "applying"}]
  /\ icid \in [SInst -> CorrelationIDs \cup {NoCid}]
  /\ ifail \in [SInst -> FailStatuses]
  /\ ctxOf \in [1..MaxApplies -> CorrelationIDs \cup {NoCid}]
  /\ lastOperation \in [SInst -> Operations]
  /\ lastFailedOperation \in [SInst -> Operations]
  /\ evCur \in [SInst -> 0..Len(trace)]
  /\ cancelAt \in [SInst -> 0..Len(trace)]
  /\ epc \in [SInst -> {"receive", "started", "finished", "finishedOk", "finishedErr"}]
  /\ ecid \in [SInst -> CorrelationIDs \cup {NoCid}]
  /\ eerr \in [SInst -> BOOLEAN]
  /\ statusHist \in [CorrelationIDs -> Seq(Statuses)]
  /\ sufPanicked \in BOOLEAN

\* newSoftwareUpdatableManifests: a status with no lastOperation, no
\* goroutine yet; instance 1 is registered (its loop subscribed at start).
SufInit ==
  /\ AbsInit
  /\ requested = {}
  /\ scur = 1
  /\ sreg = [i \in SInst |-> IF i = 1 THEN "registered" ELSE "none"]
  /\ queued = [i \in SInst |-> {}]
  /\ ipc = [i \in SInst |-> "idle"]
  /\ icid = [i \in SInst |-> NoCid]
  /\ ifail = [i \in SInst |-> "FinishedError"]
  /\ ctxOf = [k \in 1..MaxApplies |-> NoCid]
  /\ lastOperation = [i \in SInst |-> NoOperation]
  /\ lastFailedOperation = [i \in SInst |-> NoOperation]
  /\ evCur = [i \in SInst |-> 0]
  /\ cancelAt = [i \in SInst |-> 0]
  /\ epc = [i \in SInst |-> "receive"]
  /\ ecid = [i \in SInst |-> NoCid]
  /\ eerr = [i \in SInst |-> FALSE]
  /\ statusHist = [c \in CorrelationIDs |-> <<>>]
  /\ sufPanicked = FALSE

(* updateLastOperation of instance i: under its statusUpdatesLock, set    *)
(* LastOperation and the twin property.                                   *)
UpdateLastOperation(i, cid, st) ==
  /\ lastOperation' = [lastOperation EXCEPT ![i] = [cid |-> cid, status |-> st]]
  /\ statusHist' = [statusHist EXCEPT ![cid] = Append(@, st)]

(* updateLastFailedOperation.                                              *)
UpdateLastFailedOperation(i, cid, st) ==
  lastFailedOperation' = [lastFailedOperation EXCEPT ![i] = [cid |-> cid, status |-> st]]

(* setSUInstallContext(ctx, getLastOperation()): the correlation ID the   *)
(* context of an Apply carries.                                           *)
SetOperationContext(i) == lastOperation[i].cid

(* validateSUInstallContext(ctx, getLastOperation()): the context has the *)
(* feature's operation value and its correlation ID is lastOperation's.   *)
ValidateOperationContext(i, cid) == cid # NoCid /\ cid = lastOperation[i].cid

(* ... which it reads through the expected status: with the feature's     *)
(* value in the context and a nil lastOperation, it dereferences nil.     *)
DerefsNilLastOperation(i, cid) == cid # NoCid /\ lastOperation[i] = NoOperation

\* The last status written for cid is a terminal one.
Finished(cid) == statusHist[cid] # <<>> /\ Last(statusHist[cid]) \in TerminalStatuses

(***************************************************************************)
(* The things update service.                                              *)
(***************************************************************************)
\* The events manager's Subscribe: a new queue sink that receives the
\* events published from now on.
Subscribe == Len(trace)

\* cancelEventsHandler: a loop parked in select with nothing forwarded to
\* it is woken by ctx.Done and exits (the sink's forwarding goroutine too);
\* a busy one picks at random among the ready cases of its next selects,
\* and the forwarding goroutine may still hand it the events already on
\* its queue (it picks ctx.Done once the queue is empty).
CancelEventsHandler(i) ==
  IF epc[i] = "receive" /\ evCur[i] = Len(trace) THEN "exited" ELSE "cancelled"

\* disposeFeatures: dispose cancels the registered instance's loop.
DisposeFeatures == [sreg EXCEPT ![scur] = CancelEventsHandler(scur)]

\* register: with no cancelEventsHandler yet, handleOrchestrationEvents
\* subscribes the instance's loop; SetFeature puts the status and the
\* operations handler on the twin (which this module leaves out).
Register(i, regs) ==
  /\ sreg' = [regs EXCEPT ![i] = "registered"]
  /\ evCur' = [evCur EXCEPT ![i] = Subscribe]

(* processThing: disposeFeatures cancels the registered instance's event   *)
(* loop; a new instance with an empty status                               *)
(* is created, and register subscribes its loop and SetFeature puts the   *)
(* new status and operations handler on the twin.  Nothing stops the old  *)
(* instance's worker goroutines.                                           *)
ProcessThing ==
  /\ scur < MaxSufRegistrations
  /\ ReRegisterWhileIdle => \A r \in requested : Finished(r)
  /\ scur' = scur + 1
  /\ Register(scur + 1, DisposeFeatures)
  /\ cancelAt' = [cancelAt EXCEPT ![scur] = Len(trace)]
  /\ UNCHANGED <<absVars, requested, queued, ipc, icid, ifail, ctxOf,
                 lastOperation, lastFailedOperation, epc, ecid, eerr,
                 statusHist, sufPanicked>>

(***************************************************************************)
(* The worker: install, processUpdateAction and installModule.            *)
(***************************************************************************)
(* operationsHandler "install" with a valid UpdateAction, on the instance *)
(* whose handler is on the twin: start a processUpdateAction goroutine    *)
(* and return.  The backend sends each correlation ID once; with          *)
(* SequentialInstalls it waits for the terminal status of the previous    *)
(* ones.                                                                   *)
Install(cid) ==
  /\ cid \notin requested
  /\ SequentialInstalls => \A r \in requested : Finished(r)
  /\ requested' = requested \cup {cid}
  /\ queued' = [queued EXCEPT ![scur] = @ \cup {cid}]
  /\ UNCHANGED <<absVars, scur, sreg, ipc, icid, ifail, ctxOf, lastOperation,
                 lastFailedOperation, evCur, cancelAt, epc, ecid, eerr, statusHist,
                 sufPanicked>>

(* processUpdateAction takes the instance's processOperationsLock;        *)
(* installModule writes Started.                                           *)
ProcessUpdateAction(i, cid) ==
  /\ ipc[i] = "idle"
  /\ cid \in queued[i]
  /\ queued' = [queued EXCEPT ![i] = @ \ {cid}]
  /\ icid' = [icid EXCEPT ![i] = cid]
  /\ ipc' = [ipc EXCEPT ![i] = "started"]
  /\ UpdateLastOperation(i, cid, "Started")
  /\ UNCHANGED <<absVars, requested, scur, sreg, ifail, ctxOf,
                 lastFailedOperation, evCur, cancelAt, epc, ecid, eerr, sufPanicked>>

InstallDownloading(i) ==
  /\ ipc[i] = "started"
  /\ ipc' = [ipc EXCEPT ![i] = "downloading"]
  /\ UpdateLastOperation(i, icid[i], "Downloading")
  /\ UNCHANGED <<absVars, requested, scur, sreg, queued, icid, ifail, ctxOf,
                 lastFailedOperation, evCur, cancelAt, epc, ecid, eerr, sufPanicked>>

(***************************************************************************)
(* The artifact behind an UpdateAction, reduced to what getUpdateManifest *)
(* decides on: which download URL it has, whether the HTTP download       *)
(* succeeds, which checksum the backend sent and whether it matches (a    *)
(* hash that is not valid hex fails like a mismatch), and the YAML         *)
(* documents of the downloaded file.                                       *)
(***************************************************************************)
YamlDocs == {"resource", "null", "malformed"}
Artifacts ==
  [url : {"http", "https", "none"}, fetched : BOOLEAN,
   hash : {"md5", "sha1", "sha256", "none"}, matches : BOOLEAN,
   docs : BoundedSeq(YamlDocs, 2)]

\* validateSoftareArtifactHash: the first of MD5, SHA1, SHA256 given is
\* checked; with none given the artifact is accepted.
ValidateSoftareArtifactHash(a) == a.hash = "none" \/ a.matches

\* parseMultiYAML over readResources: a document that does not decode
\* fails, null documents are skipped, and no document left is an error.
ParseMultiYAML(a) ==
  /\ \A k \in 1..Len(a.docs) : a.docs[k] # "malformed"
  /\ \E k \in 1..Len(a.docs) : a.docs[k] = "resource"

\* getUpdateManifest as installModule reports it: no HTTP nor HTTPS URL
\* dereferences nil (the deferred recover reports FinishedError), a failed
\* download is an error, a checksum failure is rejected, a parse failure
\* an error.
GetUpdateManifestStatus(a) ==
  CASE a.url = "none"                  -> "FinishedError"
    [] ~a.fetched                      -> "FinishedError"
    [] ~ValidateSoftareArtifactHash(a) -> "FinishedRejected"
    [] ~ParseMultiYAML(a)              -> "FinishedError"
    [] OTHER                           -> "Downloaded"

(* installModule after getUpdateManifest: a failure writes                 *)
(* lastFailedOperation first, else the manifest is Downloaded.             *)
GetUpdateManifest(i) ==
  /\ ipc[i] = "downloading"
  /\ \E a \in Artifacts :
       LET r == GetUpdateManifestStatus(a) IN
       IF r = "Downloaded"
         THEN /\ ipc' = [ipc EXCEPT ![i] = "downloaded"]
              /\ UpdateLastOperation(i, icid[i], "Downloaded")
              /\ UNCHANGED <<ifail, lastFailedOperation>>
         ELSE /\ ipc' = [ipc EXCEPT ![i] = "failing"]
              /\ ifail' = [ifail EXCEPT ![i] = r]
              /\ UpdateLastFailedOperation(i, icid[i], r)
              /\ UNCHANGED <<lastOperation, statusHist>>
  /\ UNCHANGED <<absVars, requested, scur, sreg, queued, icid, ctxOf, evCur, cancelAt,
                 epc, ecid, eerr, sufPanicked>>

(* Mutant: the failure path returns without writing lastOperation.       *)
InstallFailedNoLastWrite(i) ==
  /\ ipc[i] = "failing"
  /\ ipc' = [ipc EXCEPT ![i] = "idle"]
  /\ icid' = [icid EXCEPT ![i] = NoCid]
  /\ UNCHANGED <<absVars, requested, scur, sreg, queued, ifail, ctxOf,
                 lastOperation, lastFailedOperation, evCur, cancelAt, epc,
                 ecid, eerr, statusHist, sufPanicked>>

(* Then lastOperation, and the worker returns, releasing the lock.       *)
InstallFailed(i) ==
  /\ ipc[i] = "failing"
  /\ ipc' = [ipc EXCEPT ![i] = "idle"]
  /\ icid' = [icid EXCEPT ![i] = NoCid]
  /\ UpdateLastOperation(i, icid[i], ifail[i])
  /\ UNCHANGED <<absVars, requested, scur, sreg, queued, ifail, ctxOf,
                 lastFailedOperation, evCur, cancelAt, epc, ecid, eerr, sufPanicked>>

(* setOperationContext tags the context with the correlation ID of        *)
(* lastOperation as read now, and the worker calls Apply.                 *)
InstallApply(i) ==
  /\ ipc[i] = "downloaded"
  /\ AbsCall(SUFeature)
  /\ ctxOf' = [ctxOf EXCEPT ![nApplies + 1] = SetOperationContext(i)]
  /\ ipc' = [ipc EXCEPT ![i] = "applying"]
  /\ UNCHANGED <<requested, scur, sreg, queued, icid, ifail, lastOperation,
                 lastFailedOperation, evCur, cancelAt, epc, ecid, eerr, statusHist,
                 sufPanicked>>

(* Apply returned: the worker releases processOperationsLock.             *)
InstallReturned(i) ==
  /\ ipc[i] = "applying"
  /\ opc[SUFeature] = "idle"
  /\ ipc' = [ipc EXCEPT ![i] = "idle"]
  /\ icid' = [icid EXCEPT ![i] = NoCid]
  /\ UNCHANGED <<absVars, requested, scur, sreg, queued, ifail, ctxOf,
                 lastOperation, lastFailedOperation, evCur, cancelAt, epc,
                 ecid, eerr, statusHist, sufPanicked>>

(***************************************************************************)
(* The event loop of handleOrchestrationEvents, of instance i.            *)
(***************************************************************************)
\* The loop selects the next event of its subscription; a cancelled loop
\* may still take those that were on its queue when it was cancelled.
SinkEnd(i) == IF sreg[i] = "cancelled" THEN cancelAt[i] ELSE Len(trace)
CanReceive(i) ==
  /\ sreg[i] \in {"registered", "cancelled"}
  /\ epc[i] = "receive"
  /\ evCur[i] < SinkEnd(i)

\* The loop is back in select: once cancelled, with nothing forwarded to
\* it, ctx.Done is the only ready case (the forwarding goroutine has taken
\* it too), and the loop exits.
BackToSelect(i, pc, n) ==
  sreg' = IF sreg[i] = "cancelled" /\ pc = "receive" /\ n = cancelAt[i]
            THEN [sreg EXCEPT ![i] = "exited"] ELSE sreg

(* Mutant: every event is handled, without validateOperationContext.     *)
ReceiveEventUnchecked(i) ==
  /\ CanReceive(i)
  /\ evCur' = [evCur EXCEPT ![i] = @ + 1]
  /\ LET e == trace[evCur[i] + 1] IN
       /\ epc' = [epc EXCEPT ![i] = e.what]
       /\ ecid' = [ecid EXCEPT ![i] = ctxOf[e.id]]
       /\ eerr' = [eerr EXCEPT ![i] = e.err]
  /\ UNCHANGED <<absVars, requested, scur, sreg, queued, ipc, icid, ifail,
                 ctxOf, lastOperation, lastFailedOperation, cancelAt,
                 statusHist, sufPanicked>>

(* Receive the next event of the subscription and validateOperationContext *)
(* it: its correlation ID against that of lastOperation.  An event of    *)
(* another feature's Apply has none and is ignored; one of this feature  *)
(* met with a nil lastOperation panics.                                   *)
ReceiveEvent(i) ==
  /\ CanReceive(i)
  /\ evCur' = [evCur EXCEPT ![i] = @ + 1]
  /\ LET e == trace[evCur[i] + 1]
         cid == ctxOf[e.id]
     IN /\ sufPanicked' = DerefsNilLastOperation(i, cid)
        /\ IF ValidateOperationContext(i, cid)
             THEN /\ epc' = [epc EXCEPT ![i] = e.what]
                  /\ ecid' = [ecid EXCEPT ![i] = cid]
                  /\ eerr' = [eerr EXCEPT ![i] = e.err]
             ELSE UNCHANGED <<epc, ecid, eerr>>
  /\ BackToSelect(i, epc'[i], evCur'[i])
  /\ UNCHANGED <<absVars, requested, scur, queued, ipc, icid, ifail,
                 ctxOf, lastOperation, lastFailedOperation, cancelAt,
                 statusHist>>

\* The loop of a cancelled subscription selects ctx.Done among the ready
\* cases and exits.
LoopExit(i) ==
  /\ sreg[i] = "cancelled" /\ epc[i] = "receive"
  /\ sreg' = [sreg EXCEPT ![i] = "exited"]
  /\ UNCHANGED <<absVars, requested, scur, queued, ipc, icid, ifail, ctxOf,
                 lastOperation, lastFailedOperation, evCur, cancelAt, epc,
                 ecid, eerr, statusHist, sufPanicked>>

(* handleEventStarted: Installing, for the event's correlation ID.       *)
HandleEventStarted(i) ==
  /\ epc[i] = "started"
  /\ epc' = [epc EXCEPT ![i] = "receive"]
  /\ UpdateLastOperation(i, ecid[i], "Installing")
  /\ BackToSelect(i, "receive", evCur[i])
  /\ UNCHANGED <<absVars, requested, scur, queued, ipc, icid, ifail,
                 ctxOf, lastFailedOperation, evCur, cancelAt, ecid, eerr, sufPanicked>>

(* Mutant: a successful finish writes FinishedSuccess in place of Installed. *)
HandleEventFinishedNoInstalled(i) ==
  /\ epc[i] = "finished"
  /\ IF eerr[i]
       THEN /\ epc' = [epc EXCEPT ![i] = "finishedErr"]
            /\ UpdateLastFailedOperation(i, ecid[i], "FinishedError")
            /\ UNCHANGED <<lastOperation, statusHist>>
       ELSE /\ epc' = [epc EXCEPT ![i] = "finishedOk"]
            /\ UpdateLastOperation(i, ecid[i], "FinishedSuccess")
            /\ UNCHANGED lastFailedOperation
  /\ UNCHANGED <<absVars, requested, scur, sreg, queued, ipc, icid, ifail,
                 ctxOf, evCur, cancelAt, ecid, eerr, sufPanicked>>

(* handleEventFinished, first write: Installed, or lastFailedOperation.   *)
HandleEventFinished(i) ==
  /\ epc[i] = "finished"
  /\ IF eerr[i]
       THEN /\ epc' = [epc EXCEPT ![i] = "finishedErr"]
            /\ UpdateLastFailedOperation(i, ecid[i], "FinishedError")
            /\ UNCHANGED <<lastOperation, statusHist>>
       ELSE /\ epc' = [epc EXCEPT ![i] = "finishedOk"]
            /\ UpdateLastOperation(i, ecid[i], "Installed")
            /\ UNCHANGED lastFailedOperation
  /\ UNCHANGED <<absVars, requested, scur, sreg, queued, ipc, icid, ifail,
                 ctxOf, evCur, cancelAt, ecid, eerr, sufPanicked>>

(* handleEventFinished, second write: FinishedSuccess or FinishedError.   *)
FinishedLastWrite(i) ==
  /\ epc[i] \in {"finishedOk", "finishedErr"}
  /\ epc' = [epc EXCEPT ![i] = "receive"]
  /\ UpdateLastOperation(i, ecid[i], IF epc[i] = "finishedOk"
                                      THEN "FinishedSuccess" ELSE "FinishedError")
  /\ BackToSelect(i, "receive", evCur[i])
  /\ UNCHANGED <<absVars, requested, scur, queued, ipc, icid, ifail,
                 ctxOf, lastFailedOperation, evCur, cancelAt, ecid, eerr, sufPanicked>>


(***************************************************************************)
(* The orchestrator and the other feature.                                *)
(***************************************************************************)
\* The UpdateOrchestrator feature's worker calls Apply with a context that
\* has no SoftwareUpdatable operation value.
OtherFeatureApply ==
  /\ Cardinality({k \in 1..nApplies : ctxOf[k] = NoCid}) < MaxUoApplies
  /\ \E c \in Callers \ {SUFeature} : AbsCall(c)
  /\ UNCHANGED sufVars

OrchestratorStep ==
  /\ \E c \in Callers : AbsStart(c) \/ AbsFinish(c) \/ AbsReboot(c)
  /\ UNCHANGED sufVars

\* The process is running: the device has not rebooted and nothing panicked.
Running == ~rebooted /\ ~sufPanicked

\* Every install is done and every event received: nothing is left to do.
SufQuiescent ==
  /\ requested = CorrelationIDs
  /\ \A c \in Callers : opc[c] = "idle"
  /\ \A i \in SInst :
       /\ queued[i] = {} /\ ipc[i] = "idle" /\ epc[i] = "receive"
       /\ sreg[i] # "cancelled"
       /\ sreg[i] = "registered" => evCur[i] = Len(trace)
  /\ UNCHANGED allVars

SufNext ==
  \/ /\ Running
     /\ \/ \E cid \in CorrelationIDs : Install(cid)
        \/ ProcessThing
        \/ \E i \in SInst :
             \/ \E cid \in CorrelationIDs : ProcessUpdateAction(i, cid)
             \/ InstallDownloading(i)
             \/ GetUpdateManifest(i)
             \/ InstallFailed(i)
             \/ InstallApply(i)
             \/ InstallReturned(i)
             \/ ReceiveEvent(i)
             \/ LoopExit(i)
             \/ HandleEventStarted(i)
             \/ HandleEventFinished(i)
             \/ FinishedLastWrite(i)
        \/ OtherFeatureApply
        \/ OrchestratorStep
        \/ SufQuiescent
  \/ ~Running /\ UNCHANGED allVars

(* processOperationsLock is a sync.Mutex; each correlation ID is installed *)
(* once, so a waiting goroutine, once the lock is free, stays enabled until *)
(* some waiter takes it, and weak fairness for each is enough.  The worker *)
(* and the event loop are goroutines that run while they can (weak        *)
(* fairness); the orchestrator keeps its promise's fairness.               *)
(* A cancelled loop need not pick ctx.Done early: it exits once it has     *)
(* drained its queue.  The backend, the things registry and the other     *)
(* feature need not send anything.                                         *)
\* The steps of one instance's worker goroutine after it took the lock,
\* and of its event loop goroutine: each enables one step at a time.
WorkerSteps(i) ==
  \/ InstallDownloading(i) \/ GetUpdateManifest(i) \/ InstallFailed(i)
  \/ InstallApply(i) \/ InstallReturned(i)
LoopSteps(i) ==
  \/ ReceiveEvent(i) \/ HandleEventStarted(i) \/ HandleEventFinished(i)
  \/ FinishedLastWrite(i)

SufFairness ==
  /\ \A i \in SInst :
       /\ \A cid \in CorrelationIDs : WF_allVars(ProcessUpdateAction(i, cid))
       /\ WF_allVars(WorkerSteps(i))
       /\ WF_allVars(LoopSteps(i))
  /\ \A c \in Callers :
       /\ SF_allVars(AbsStart(c) /\ UNCHANGED sufVars)
       /\ WF_allVars(AbsFinish(c) /\ UNCHANGED sufVars)
       /\ WF_allVars(AbsReboot(c) /\ UNCHANGED sufVars)

SufSpec == SufInit /\ [][SufNext]_allVars /\ SufFairness

(***************************************************************************)
(* Properties                                                              *)
(***************************************************************************)
HappyPath == <<"Started", "Downloading", "Downloaded", "Installing", "Installed",
               "FinishedSuccess">>

\* A prefix of the happy path, possibly cut short by one failure status.
LegalStatusSequence(s) ==
  \/ IsPrefix(s, HappyPath)
  \/ /\ s # <<>>
     /\ Last(s) \in FailStatuses
     /\ IsStrictPrefix(Front(s), HappyPath)

(* The spec (testable properties): for every install, the statuses        *)
(* written to lastOperation under its correlation ID are a prefix of      *)
(* Started, Downloading, Downloaded, Installing, Installed, FinishedSuccess *)
(* that may end early in FinishedRejected or FinishedError.  The worker's *)
(* writes and the event loop's writes for it are tagged by correlation ID *)
(* taken from lastOperation.                                              *)
StatusSequenceLegal ==
  \A cid \in CorrelationIDs : LegalStatusSequence(statusHist[cid])

(* Every accepted install eventually gets a terminal status written to   *)
(* lastOperation (the backend's action is closed), unless the device     *)
(* reboots: the event loop receives the finished event of its Apply and   *)
(* still finds the install's correlation ID in lastOperation.            *)
InstallEventuallyFinished ==
  \A cid \in CorrelationIDs : cid \in requested ~> (Finished(cid) \/ rebooted)

(* The event loop never dereferences a nil lastOperation: every event of  *)
(* this feature's Apply that a loop receives (a new instance's loop after *)
(* processThing included) meets an instance that has written a status.    *)
(* With ReRegisterWhileIdle = TRUE it holds by that guard alone; with it   *)
(* FALSE, SufSequential.cfg finds it violated (a re-registration during an *)
(* install), so it is kept for that reproduction and not among the runs.   *)
NoNilLastOperationDereference == ~sufPanicked

====
