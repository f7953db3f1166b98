--------------------- MODULE UpdateOrchestratorFeature ---------------------
(***************************************************************************)
(* The UpdateOrchestrator feature of the edge thing                        *)
(* (things/features_update_orchestrator*.go) with the things update       *)
(* service that creates, registers and disposes it (processThing),        *)
(* composed with the abstract orchestrator (OrchestratorAbstract) and     *)
(* with the producers of the resources events the feature consumes: the   *)
(* Kubernetes driver's informers, whose events are suppressed by          *)
(* flagPublishResourceEvent while kubectl apply runs (orchestration/k8s), *)
(* and the self-update driver's current-state handler                      *)
(* (orchestration/selfupdate).  The bus is the abstract trace, carrying   *)
(* resources events next to the orchestration events, in publish order.   *)
(*                                                                         *)
(* Each processThing disposes the feature instance and registers a new    *)
(* one: instances are numbered 1..MaxRegistrations, and an old instance's *)
(* event loop and timer go on running after dispose.  The feature's       *)
(* status/currentState twin property is twinCurrent; its status/state     *)
(* property is left out (nothing here depends on its value).  The         *)
(* cluster and the self-update current state are versions; Get returns    *)
(* the pair of current versions.  The orchestrator's connection resources *)
(* event (UpdateOrchestrator) takes the same path as the self-update      *)
(* bundle and is left out.                                                 *)
(***************************************************************************)
EXTENDS OrchestratorAbstract, Integers, SequencesExt

CONSTANTS
  UOFeature,          \* the caller of Apply that is this feature
  MaxUoApplies,       \* apply operations received by this feature
  MaxResourceChanges, \* changes of the cluster's pods and nodes and
                      \* current-state messages of the self-update agent
  MaxRegistrations,   \* processThing calls (registrations of the feature)
  RegisterWhileIdle,  \* processThing runs only while no Apply is in flight
  CallsMayFail        \* listing pods or nodes and SetFeatureProperty may fail

ASSUME UOFeature \in Callers /\ MaxRegistrations \in Nat \ {0}

Inst == 1..MaxRegistrations

VARIABLES
  k8sApplying,   \* the k8s driver is inside kubectl apply, holding its applyLock
  k8sDone,       \* the current orchestrator Apply has called the k8s driver
  clusterVer,    \* version of the cluster's pods and nodes
  informerQ,     \* changes the informer goroutine has not handled yet
  suVer,         \* version of the self-update driver's currentState
  cur,           \* the registered instance (0: none yet)
  reg,           \* per instance: none, subscribed, registered, cancelled, exited
  evCur,         \* per instance: events its event loop has taken from the bus
  cancelAt,      \* per instance: events on the bus when its loop was cancelled
  lpc,           \* per instance: the loop's receive, or refresh (updateCurrentState)
  uoStatus,      \* per instance: status is nil, noState (State nil) or state
  armed,         \* per instance: currentStateTimer is armed and not stopped
  firing,        \* per instance: timer callbacks started and not finished
  ucs,           \* per instance: the updateCurrentState caller holding updatesLock
  got,           \* per instance: what its orchMgr.Get returned (NotRead: not yet)
  twinCurrent,   \* status/currentState property on the twin
  panicked,      \* a nil pointer dereference stopped the process
  uoCmds,        \* apply operations received
  uoQueued,      \* processApply goroutines waiting on processOperationsLock
  uoWorking      \* the processApply goroutine inside orchMgr.Apply

busVars == <<opc, oid, applyLock, nApplies, rebooted>>   \* absVars but trace
k8sVars == <<k8sApplying, k8sDone>>
producerVars == <<clusterVer, informerQ, suVer>>
loopVars == <<cur, reg, evCur, cancelAt, lpc, uoStatus, armed, firing, ucs,
              got, twinCurrent>>
applyVars == <<uoCmds, uoQueued, uoWorking>>
uofVars == <<k8sVars, producerVars, loopVars, panicked, applyVars>>
vars == <<absVars, uofVars>>

\* An event: the orchestration events of OrchestratorAbstract, and the
\* resources events, whose source is a k8s object passed by value or the
\* self-update bundle (an *Unstructured).
Sources == {"object", "bundle"}
ResourcesEvent(s) == [what |-> "resources", id |-> 0, err |-> FALSE, src |-> s]
Event == Lifecycle \cup {ResourcesEvent(s) : s \in Sources}
NoSnapshot == <<-1, -1>>
NotRead == <<-2, -2>>
NoList == -1                 \* the k8s driver's Get returned nil
Snapshots == ({NoList} \cup 0..MaxResourceChanges) \X (0..MaxResourceChanges)
Holders == {"none", "register", "loop", "timer"}

UofTypeOK ==
  /\ opc \in [Callers -> AbsPcs]
  /\ trace \in Seq(Event)
  /\ k8sApplying \in BOOLEAN /\ k8sDone \in BOOLEAN
  /\ clusterVer \in 0..MaxResourceChanges /\ informerQ \in 0..MaxResourceChanges
  /\ suVer \in 0..MaxResourceChanges
  /\ cur \in 0..MaxRegistrations
  /\ reg \in [Inst -> {"none", "subscribed", "registered", "cancelled", "exited"}]
  /\ evCur \in [Inst -> 0..Len(trace)] /\ cancelAt \in [Inst -> 0..Len(trace)]
  /\ lpc \in [Inst -> {"receive", "refresh"}]
  /\ uoStatus \in [Inst -> {"nil", "noState", "state"}]
  /\ armed \in [Inst -> BOOLEAN] /\ firing \in [Inst -> 0..MaxResourceChanges]
  /\ ucs \in [Inst -> Holders] /\ got \in [Inst -> {NotRead} \cup Snapshots]
  /\ twinCurrent \in {NoSnapshot} \cup Snapshots
  /\ panicked \in BOOLEAN
  /\ uoCmds \in 0..MaxUoApplies /\ uoQueued \in 0..MaxUoApplies
  /\ uoWorking \in BOOLEAN

UofInit ==
  /\ AbsInit
  /\ k8sApplying = FALSE /\ k8sDone = FALSE
  /\ clusterVer = 0 /\ informerQ = 0 /\ suVer = 0
  /\ cur = 0 /\ reg = [i \in Inst |-> "none"]
  /\ evCur = [i \in Inst |-> 0] /\ cancelAt = [i \in Inst |-> 0]
  /\ lpc = [i \in Inst |-> "receive"]
  /\ uoStatus = [i \in Inst |-> "nil"]
  /\ armed = [i \in Inst |-> FALSE] /\ firing = [i \in Inst |-> 0]
  /\ ucs = [i \in Inst |-> "none"] /\ got = [i \in Inst |-> NotRead]
  /\ twinCurrent = NoSnapshot /\ panicked = FALSE
  /\ uoCmds = 0 /\ uoQueued = 0 /\ uoWorking = FALSE

(***************************************************************************)
(* The Kubernetes driver.                                                  *)
(***************************************************************************)

\* Apply: applyLock, flagPublishResourceEvent = false, kubectl apply; the
\* deferred function sets the flag back and unlocks.  Only a call holding
\* the orchestrator's applyLock reaches it, at most once per call.
K8sApplyBegin(c) ==
  /\ opc[c] = "applying" /\ applyLock = c
  /\ ~k8sApplying /\ ~k8sDone
  /\ k8sApplying' = TRUE /\ k8sDone' = TRUE
  /\ UNCHANGED <<absVars, producerVars, loopVars, panicked, applyVars>>

K8sApplyEnd ==
  /\ k8sApplying
  /\ k8sApplying' = FALSE
  /\ UNCHANGED <<absVars, k8sDone, producerVars, loopVars, panicked, applyVars>>

\* The values the informer goroutine can read from flagPublishResourceEvent:
\* it reads it without the lock, so while an Apply writes it either value.
FlagReads == IF k8sApplying THEN BOOLEAN ELSE {TRUE}

\* A pod or node is added, updated or deleted (by kubectl apply or not).
ClusterChange ==
  /\ clusterVer + suVer < MaxResourceChanges
  /\ clusterVer' = clusterVer + 1 /\ informerQ' = informerQ + 1
  /\ UNCHANGED <<absVars, k8sVars, suVer, loopVars, panicked, applyVars>>

\* The informer handler calls publishResourceEvent, which publishes the
\* object only if it reads the flag as true.
PublishResourceEvent ==
  /\ informerQ > 0
  /\ informerQ' = informerQ - 1
  /\ \E flag \in FlagReads :
       IF flag THEN Publish(ResourcesEvent("object")) ELSE UNCHANGED trace
  /\ UNCHANGED <<busVars, k8sVars, clusterVer, suVer, loopVars, panicked,
                 applyVars>>

\* orchMgr.Get appends the k8s driver's Get and the self-update driver's.
\* The k8s driver's Get takes its applyLock (so it waits for kubectl
\* apply) and lists pods, then nodes: a failed list is logged and Get
\* returns nil.  The self-update driver's Get returns its currentState.
CanGet == ~k8sApplying
K8sGet == IF CallsMayFail THEN {clusterVer, NoList} ELSE {clusterVer}
SuGet == suVer
Get == {<<k, SuGet>> : k \in K8sGet}
Snapshot == <<clusterVer, suVer>>

\* A YAML document of a self-update agent message: a resource, an empty
\* (null) document, or one that does not decode.
YamlDocs == {"resource", "null", "malformed"}

\* The self-update driver's parseMultiYAML over readResources: a document
\* that does not decode fails, null documents are skipped, and no
\* document left is an error.
ParseMultiYAML(docs) ==
  /\ \A k \in 1..Len(docs) : docs[k] # "malformed"
  /\ \E k \in 1..Len(docs) : docs[k] = "resource"

\* handleSelfUpdateCurrentState: a payload that parses becomes the
\* currentState and is published as a resources event with the bundle as
\* its source; one that does not is logged and dropped.
HandleSelfUpdateCurrentState ==
  /\ clusterVer + suVer < MaxResourceChanges
  /\ \E payload \in BoundedSeq(YamlDocs, 2) :
       IF ParseMultiYAML(payload)
         THEN suVer' = suVer + 1 /\ Publish(ResourcesEvent("bundle"))
         ELSE UNCHANGED <<suVer, trace>>
  /\ UNCHANGED <<busVars, k8sVars, clusterVer, informerQ, loopVars, panicked,
                 applyVars>>

(***************************************************************************)
(* The things update service: processThing disposes the features and      *)
(* registers new ones, under initMutex.                                    *)
(***************************************************************************)

\* The events manager's Subscribe: a new queue sink that receives the
\* events published from now on.
Subscribe == Len(trace)

\* processThing: disposeFeatures cancels the current instance's event loop
\* (it exits at a later select); a new instance, with a nil status, is
\* created and register runs handleEvents (Subscribe) and SetFeature, which
\* writes the nil status to the twin.  initMutex keeps the previous
\* processThing's register complete.
ProcessThing ==
  /\ cur < MaxRegistrations
  /\ cur > 0 => reg[cur] = "registered"
  /\ RegisterWhileIdle => \A c \in Callers : opc[c] = "idle"
  /\ cur' = cur + 1
  /\ reg' = [i \in Inst |-> CASE i = cur + 1 -> "subscribed"
                              [] i = cur     -> "cancelled"
                              [] OTHER       -> reg[i]]
  /\ evCur' = [evCur EXCEPT ![cur + 1] = Subscribe]
  /\ cancelAt' = [cancelAt EXCEPT ![cur] = Len(trace)]
  /\ twinCurrent' = NoSnapshot
  /\ UNCHANGED <<absVars, k8sVars, producerVars, lpc, uoStatus, armed, firing,
                 ucs, got, panicked, applyVars>>

(***************************************************************************)
(* The UpdateOrchestrator feature instance i.                              *)
(***************************************************************************)

\* updatesLock is a field of each instance: it orders the updates of one
\* instance, never those of an old and the new one.
UpdatesLockFree(i) == ucs[i] = "none"

\* A caller of updateCurrentState on instance i: register, the event loop
\* after finished or a bundle, or a timer callback.
Calls(i, by) ==
  CASE by = "register" -> reg[i] = "subscribed"
    [] by = "loop"     -> lpc[i] = "refresh"
    [] by = "timer"    -> firing[i] > 0
    [] OTHER           -> FALSE

\* updateCurrentState takes updatesLock; a nil status becomes a status
\* with a nil State.
LockUpdates(i, by) ==
  /\ UpdatesLockFree(i) /\ Calls(i, by)
  /\ ucs' = [ucs EXCEPT ![i] = by]
  /\ uoStatus' = [uoStatus EXCEPT ![i] = IF @ = "nil" THEN "noState" ELSE @]
  /\ UNCHANGED <<absVars, k8sVars, producerVars, cur, reg, evCur, cancelAt,
                 lpc, armed, firing, got, twinCurrent, panicked, applyVars>>

\* status.CurrentState = orchMgr.Get(ctx), still under updatesLock.
GetCurrentState(i) ==
  /\ ucs[i] # "none" /\ got[i] = NotRead
  /\ CanGet
  /\ \E g \in Get : got' = [got EXCEPT ![i] = g]
  /\ UNCHANGED <<absVars, k8sVars, producerVars, cur, reg, evCur, cancelAt,
                 lpc, uoStatus, armed, firing, ucs, twinCurrent, panicked,
                 applyVars>>

\* SetFeatureProperty(status/currentState) writes it to the twin (a failure
\* is logged); updatesLock is released and the caller goes on: register
\* returns, the loop receives again, the callback ends.
WriteCurrentState(i) ==
  /\ got[i] # NotRead
  /\ \E ok \in IF CallsMayFail THEN BOOLEAN ELSE {TRUE} :
       twinCurrent' = IF ok THEN got[i] ELSE twinCurrent
  /\ got' = [got EXCEPT ![i] = NotRead] /\ ucs' = [ucs EXCEPT ![i] = "none"]
  /\ reg' = IF ucs[i] = "register" THEN [reg EXCEPT ![i] = "registered"] ELSE reg
  /\ lpc' = IF ucs[i] = "loop" THEN [lpc EXCEPT ![i] = "receive"] ELSE lpc
  /\ firing' = IF ucs[i] = "timer" THEN [firing EXCEPT ![i] = @ - 1] ELSE firing
  /\ UNCHANGED <<absVars, k8sVars, producerVars, cur, evCur, cancelAt,
                 uoStatus, armed, panicked, applyVars>>

\* updateStatus, under updatesLock: a nil status is skipped; otherwise it
\* writes through status.State, which panics when State is nil.
UpdateStatus(i) == panicked' = (uoStatus[i] = "noState")

\* updateState: status is replaced by one whose State holds the manifest
\* (currentState is dropped until the next updateCurrentState).
UpdateState(i) == uoStatus' = [uoStatus EXCEPT ![i] = "state"]

\* featureOperationsHandler for a valid apply: the correlation ID goes
\* into the context and apply starts processApply in a goroutine.
FeatureOperationsHandler ==
  /\ cur > 0
  /\ uoCmds < MaxUoApplies
  /\ uoCmds' = uoCmds + 1 /\ uoQueued' = uoQueued + 1
  /\ UNCHANGED <<absVars, k8sVars, producerVars, loopVars, panicked, uoWorking>>

\* processApply: one goroutine at a time takes processOperationsLock and
\* calls orchMgr.Apply ...
ProcessApply ==
  /\ uoQueued > 0 /\ ~uoWorking
  /\ AbsCall(UOFeature)
  /\ uoQueued' = uoQueued - 1 /\ uoWorking' = TRUE
  /\ UNCHANGED <<k8sVars, producerVars, loopVars, panicked, uoCmds>>

\* ... and unlocks when Apply returns.
ProcessApplyReturned ==
  /\ uoWorking /\ opc[UOFeature] = "idle"
  /\ uoWorking' = FALSE
  /\ UNCHANGED <<absVars, k8sVars, producerVars, loopVars, panicked, uoCmds,
                 uoQueued>>

\* The other features' Apply calls (the SoftwareUpdatable feature).
OtherFeatureApply(c) ==
  /\ c # UOFeature
  /\ AbsCall(c)
  /\ UNCHANGED uofVars

\* The event loop of instance i takes the next event off its subscription
\* (the events manager's goroutine forwards the sink's queue in order).
\* A cancelled loop may still take the events that were on its queue when
\* it was cancelled: the forwarding goroutine picks ctx.Done once the queue
\* is empty.
SinkEnd(i) == IF reg[i] = "cancelled" THEN cancelAt[i] ELSE Len(trace)
CanReceive(i) ==
  /\ reg[i] \in {"subscribed", "registered", "cancelled"}
  /\ lpc[i] = "receive" /\ evCur[i] < SinkEnd(i)
NextEvent(i) == trace[evCur[i] + 1]

\* The loop selects ctx.Done of a cancelled subscription and exits.
LoopExit(i) ==
  /\ reg[i] = "cancelled" /\ lpc[i] = "receive"
  /\ reg' = [reg EXCEPT ![i] = "exited"]
  /\ UNCHANGED <<absVars, k8sVars, producerVars, cur, evCur, cancelAt, lpc,
                 uoStatus, armed, firing, ucs, got, twinCurrent, panicked,
                 applyVars>>

\* Mutant: updateStatus(Started) before updateState, so it dereferences
\* the State of the status register left behind.
HandleStartedStatusFirst(i) ==
  /\ CanReceive(i) /\ NextEvent(i).what = "started" /\ UpdatesLockFree(i)
  /\ evCur' = [evCur EXCEPT ![i] = @ + 1]
  /\ panicked' = (uoStatus[i] = "noState")
  /\ uoStatus' = [uoStatus EXCEPT ![i] = "state"]
  /\ UNCHANGED <<absVars, k8sVars, producerVars, cur, reg, cancelAt, lpc,
                 armed, firing, ucs, got, twinCurrent, applyVars>>

\* handleOrchestrationStartedEvent: updateState replaces status by one
\* whose State holds the manifest, then updateStatus(Started).
HandleOrchestrationStartedEvent(i) ==
  /\ CanReceive(i) /\ NextEvent(i).what = "started" /\ UpdatesLockFree(i)
  /\ evCur' = [evCur EXCEPT ![i] = @ + 1]
  /\ UpdateState(i)
  /\ UNCHANGED <<absVars, k8sVars, producerVars, cur, reg, cancelAt, lpc,
                 armed, firing, ucs, got, twinCurrent, panicked, applyVars>>

\* handleOrchestrationFinishedEvent: updateStatus with the outcome, then
\* updateCurrentState (lpc = refresh).  updateStatus skips a nil status
\* and dereferences status.State otherwise: a nil State panics.
HandleOrchestrationFinishedEvent(i) ==
  /\ CanReceive(i) /\ NextEvent(i).what = "finished" /\ UpdatesLockFree(i)
  /\ evCur' = [evCur EXCEPT ![i] = @ + 1]
  /\ UpdateStatus(i)
  /\ lpc' = [lpc EXCEPT ![i] = "refresh"]
  /\ UNCHANGED <<absVars, k8sVars, producerVars, cur, reg, cancelAt, uoStatus,
                 armed, firing, ucs, got, twinCurrent, applyVars>>

\* handleResourceEvent: stop the timer; a self-update bundle refreshes the
\* current state at once (lpc = refresh), anything else (the k8s driver's
\* objects, passed by value) arms a new 30 s timer.
HandleResourceEvent(i) ==
  /\ CanReceive(i) /\ NextEvent(i).what = "resources"
  /\ evCur' = [evCur EXCEPT ![i] = @ + 1]
  /\ armed' = [armed EXCEPT ![i] = (NextEvent(i).src = "object")]
  /\ lpc' = [lpc EXCEPT ![i] = IF NextEvent(i).src = "object"
                               THEN "receive" ELSE "refresh"]
  /\ UNCHANGED <<absVars, k8sVars, producerVars, cur, reg, cancelAt, uoStatus,
                 firing, ucs, got, twinCurrent, panicked, applyVars>>

\* Mutant: a timer that keeps firing (the callback is not one-shot).
TimerFireKeepsArmed(i) ==
  /\ armed[i]
  /\ firing' = [firing EXCEPT ![i] = @ + 1]
  /\ UNCHANGED <<absVars, k8sVars, producerVars, cur, reg, evCur, cancelAt, lpc,
                 uoStatus, armed, ucs, got, twinCurrent, panicked, applyVars>>

\* The timer expires: time.AfterFunc starts its callback in a goroutine;
\* Stop no longer affects it, and dispose never stops it.
TimerFire(i) ==
  /\ armed[i]
  /\ armed' = [armed EXCEPT ![i] = FALSE]
  /\ firing' = [firing EXCEPT ![i] = @ + 1]
  /\ UNCHANGED <<absVars, k8sVars, producerVars, cur, reg, evCur, cancelAt, lpc,
                 uoStatus, ucs, got, twinCurrent, panicked, applyVars>>

(***************************************************************************)
(* The orchestrator's own steps: a call that has called the k8s driver     *)
(* cannot publish finished before kubectl apply has returned.              *)
(***************************************************************************)

OrchestratorStart(c) ==
  /\ AbsStart(c)
  /\ k8sDone' = FALSE
  /\ UNCHANGED <<k8sApplying, producerVars, loopVars, panicked, applyVars>>

\* The feature treats a finished event alike whatever its error (status/state
\* is left out), so one outcome stands for both.
OrchestratorFinish(c) ==
  /\ AbsFinish(c) /\ ~Last(trace').err
  /\ ~k8sApplying
  /\ UNCHANGED uofVars

OrchestratorReboot(c) == AbsReboot(c) /\ UNCHANGED uofVars

\* The process is running: the device has not rebooted and nothing panicked.
Running == ~rebooted /\ ~panicked

\* Every input is used up and every goroutine waits for more: the last
\* instance is registered, old loops have exited, every loop has drained
\* the bus and no timer is pending.
Idle ==
  /\ nApplies = MaxApplies /\ \A c \in Callers : opc[c] = "idle"
  /\ ~k8sApplying /\ informerQ = 0
  /\ clusterVer + suVer = MaxResourceChanges
  /\ uoCmds = MaxUoApplies /\ ~uoWorking
  /\ cur = MaxRegistrations /\ reg[cur] = "registered"
  /\ \A i \in Inst :
       /\ i < cur => reg[i] = "exited"
       /\ lpc[i] = "receive" /\ ~armed[i] /\ firing[i] = 0
       /\ UpdatesLockFree(i)
  /\ evCur[cur] = Len(trace)

UofQuiescent == (~Running \/ Idle) /\ UNCHANGED vars

UofStep ==
  \/ \E c \in Callers :
       \/ OrchestratorStart(c) \/ OrchestratorFinish(c) \/ OrchestratorReboot(c)
       \/ K8sApplyBegin(c) \/ OtherFeatureApply(c)
  \/ K8sApplyEnd \/ ClusterChange \/ PublishResourceEvent
  \/ HandleSelfUpdateCurrentState
  \/ ProcessThing
  \/ FeatureOperationsHandler \/ ProcessApply \/ ProcessApplyReturned
  \/ \E i \in Inst :
       \/ LoopExit(i)
       \/ HandleOrchestrationStartedEvent(i) \/ HandleOrchestrationFinishedEvent(i)
       \/ HandleResourceEvent(i) \/ TimerFire(i)
       \/ \E by \in Holders : LockUpdates(i, by)
       \/ GetCurrentState(i) \/ WriteCurrentState(i)

UofNext == (Running /\ UofStep) \/ UofQuiescent

\* Goroutines that keep running while enabled are weakly fair; a step that
\* waits for a sync.Mutex another goroutine takes and releases (the
\* orchestrator's applyLock, the k8s driver's applyLock inside Get) is
\* strongly fair, and so is a loop's exit, which select picks at random
\* among the ready cases.  The cloud, the cluster and the agents are not
\* fair.  The first processThing runs from the things client's init hook
\* once it connects; later ones only when the registry reports the thing
\* again, which nothing forces.
UofFairness ==
  /\ \A c \in Callers :
       /\ SF_vars(Running /\ OrchestratorStart(c))
       /\ WF_vars(Running /\ OrchestratorFinish(c))
       /\ WF_vars(Running /\ OrchestratorReboot(c))
  /\ WF_vars(Running /\ K8sApplyEnd)
  /\ WF_vars(Running /\ PublishResourceEvent)
  /\ WF_vars(Running /\ cur = 0 /\ ProcessThing)
  /\ WF_vars(Running /\ ProcessApply)
  /\ WF_vars(Running /\ ProcessApplyReturned)
  /\ \A i \in Inst :
       /\ SF_vars(Running /\ LoopExit(i))
       /\ WF_vars(Running /\ HandleOrchestrationStartedEvent(i))
       /\ WF_vars(Running /\ HandleOrchestrationFinishedEvent(i))
       /\ WF_vars(Running /\ HandleResourceEvent(i))
       /\ \A by \in Holders : SF_vars(Running /\ LockUpdates(i, by))
       /\ SF_vars(Running /\ GetCurrentState(i))
       /\ WF_vars(Running /\ WriteCurrentState(i))
       /\ WF_vars(Running /\ TimerFire(i))

UofSpec == UofInit /\ [][UofNext]_vars /\ UofFairness

(***************************************************************************)
(* Properties.                                                             *)
(***************************************************************************)

\* updateStatus never dereferences a nil status.State: every finished event
\* an event loop handles finds either no status or one with a State.
NoNilStateDereference == ~panicked

\* Once the cluster and the self-update agent stop changing, the twin's
\* status/currentState eventually shows their current state for good: no
\* change is lost to flagPublishResourceEvent, the timer, the bus or a
\* re-registration.
CurrentStateEventuallyFresh == <>[](rebooted \/ twinCurrent = Snapshot)

=============================================================================
