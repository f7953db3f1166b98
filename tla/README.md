# TLA+ models of the vehicle update manager

This directory holds TLA+ models of the Go update manager in `src/updatem`, the TLC
configurations that check them, and `PROJECT.json`. `PROJECT.json` maps every modelled
definition to the source lines it stands for. It also lists the runs, the mutants, the
findings and the hazards.

## The system

The update manager receives a desired state from the cloud and applies it.
The parts, and how they interact:

| part | source | role |
|---|---|---|
| SoftwareUpdatable feature | `things/features_rollouts_software_updatable_manifests*.go` | hawkBit-style `install`. It downloads the manifest and calls the orchestrator's `Apply` in a goroutine under `processOperationsLock`. It reports `lastOperation` from the orchestration events whose context carries its correlation ID. |
| UpdateOrchestrator feature | `things/features_update_orchestrator*.go` | `apply` on the thing. It also calls `Apply` in a goroutine and reports status from events. A 30 s timer refreshes the current state. |
| things update service | `things/things_update_service*.go` | Creates and disposes both features when the edge thing is (re)registered. |
| update orchestrator | `orchestration/updateorchestrator` | `Apply` under `applyLock` does four things in order. It publishes `started`. It splits off at most one `SelfUpdateBundle` and hands it to the self-update driver. If that succeeded, it hands the rest to the Kubernetes driver. It then publishes `finished` with the error. A reboot follows if the self update asks for one. It also publishes a resources event when the remote connection comes up. |
| self-update driver | `orchestration/selfupdate` | `Apply` under its own `applyLock` subscribes to `selfupdate/desiredstatefeedback` and publishes the desired state to the local broker. It then waits for the feedback handler to signal `done`, or for `time.After`. The feedback handler runs on the paho router goroutine. |
| Kubernetes driver | `orchestration/k8s` | `kubectl apply`, plus a watch loop that publishes resource events unless an `Apply` is running. |
| events bus | `events` | `Publish` under `publishMutex` hands events to a queue sink per subscriber. |
| daemon, util, registry | `daemon`, `util`, `registry` | Configuration, and service init in order: the orchestrator's init creates both drivers and MQTT clients, and `MqttConnect` retries every 5 s until connected or signalled. Then the run lock, `start()`, and a wait for the stop signal. |

The concurrency involves four kinds of actor:
- the two features' install goroutines, serialised only by the orchestrator's `applyLock`;
- the paho router goroutine, which runs one message handler at a time;
- the events bus sinks, which deliver asynchronously to each feature's event loop;
- the broker and the SUA (self-update agent), which may lose, duplicate and delay QoS 1 messages and acknowledgements.

## Modules

### `SelfUpdateManager` (self-update driver)

**State**
- The call interface is `suCall` and `suReturn`.
- Apply's program counter is `suPc`: idle → subscribed → published → received. The current operation is `curOp`.
- Per operation it keeps:
  - `opBundle`;
  - `opResult`, which is `su.result`;
  - `done`, the number of values in the capacity-1 channel;
  - `doneWrites`;
  - `opReturned`.
- The paho client's route for the feedback topic is `route`: the operation whose handler is subscribed, or 0.
- The broker's subscription state is `brokerSub`.
- `blockedOn` names the operation whose full `done` channel the router goroutine is blocked sending on.
- The SUA side is `inbox` (desired states delivered), `suaCur`, `suaInstalled` and `feedback` (the broker's queue to the router).

**Actions**
- `SuApplyBegin`: lock, `newSelfUpdateOperation`, `Subscribe` with `WaitTimeout`. A timeout returns Error and leaves the late subscription in place.
- `SuApplyPublish`: `Publish` with `WaitTimeout`. After a timeout the message may still be delivered.
- `SuApplyTimeout`: the `time.After` branch.
- `SuApplyReceiveDone`: receiving from `done`, which unblocks a blocked router.
- `SuApplyResult`: reading `su.result` and deciding the reboot.
- `HandleSelfUpdateDesiredStateFeedback`: the handler.

Every return runs the deferred code: `Return` clears the operation, and `Unsubscribe` runs once the subscribe had succeeded.

**Environment**
- `RouterDrop`: a message with no route is dropped.
- `LateSubscribe`: a SUBACK that arrives after the timeout.
- `SuaTake` and `SuaReport(r)`: the SUA consumes a desired state and sends a report `r` from `Reports`. A report has a state name (uninitialized, downloading, installing, installed, failed, idle), a tech code and a flag for whether its fields are well formed. The SUA is done with the bundle after installed, failed or uninitialized.
- `BrokerRedeliver`: a QoS 1 duplicate.

**Abstraction**
- Bundles are model values.
- `FeedbackStateOf(r)` translates the handler's checks: the field lookups (`GetSelfUpdateFields`), the state-name dispatch and `IsStateTechCodeSupported`. It yields the state the handler acts on. Every early return becomes "downloading", which means no transition. The message on the broker carries that state.
- So a failed report with an unsupported tech code, or a malformed installed report, ends the SUA's work but not the operation. `Apply` then ends by its timeout.
- The progress value is left out: the handler only logs it, valid or not.

### `UpdateOrchestrator` (orchestrator, composed with the driver)

It EXTENDS `SelfUpdateManager`.

**State**
- Each caller (`uoFeature`, `suFeature`) has a program counter `opc` that follows the steps of `Apply`, and its manifest `omf`.
- `applyLock` is the orchestrator's mutex.
- `applyErr` and `suApplyResult` are the locals of `Apply`.
- `trace` is the ordered sequence of events published on the bus: started, the drivers' results, finished, reboot and resources.
- `connectionStatus` is the last value received on the remote connection topic.
- `rebooted` records that the device has gone down.

**Actions**
- `OrchCall` is a feature invoking `Apply`.
- `OrchStart`, `OrchPartition`, `OrchSelfUpdateReturned`, `OrchCluster`, `OrchFinish` and `OrchReboot` follow the body of `Apply` and `rebootManager.Reboot`.
- `HandleConnectionStatus` is the paho handler.
- The self-update driver's `Apply` is entered by writing `suCall` and left by reading `suReturn`.
- The Kubernetes driver's `Apply` is its error outcome (`K8sApplyErrors`).

Manifests are records of a sequence of self-update bundles and a flag for other resources. The four manifests cover the cases that matter:
- no bundle with cluster resources;
- one bundle with cluster resources;
- one bundle alone;
- two bundles.

### `OrchestratorAbstract` (what `Apply` promises its callers)

This is the abstract specification of the orchestrator as the features see it.
- **State:** a per-caller state `opc` (idle, waiting, applying, rebooting), `applyLock`, the number of calls, `rebooted`, and `trace`, the orchestration events on the bus.
- **Actions:**
  - `AbsCall`: a feature calls `Apply`.
  - `AbsStart`: the call takes `applyLock` and publishes `started`.
  - `AbsFinish`: the call publishes `finished` with some error outcome, then returns or goes on to reboot.
  - `AbsReboot`: the device goes down, or the sysrq write fails and the call returns.
- `Publish` is the events manager's `Publish`: one ordered bus under `publishMutex`.

`UpdateOrchestrator` refines it. The mapping is `INSTANCE OrchestratorAbstract WITH opc <- AbsPc, trace <- AbsTrace`:
- every program point between taking `applyLock` and publishing `finished` maps to applying;
- the abstract trace keeps only the started and finished events.

`OrchestratorRefinement` checks `Abs!AbsSpec` as a property, fairness included. The two feature modules are built on the abstract spec, so the orchestrator's internals do not multiply their state spaces.

### `SoftwareUpdatableFeature`

It EXTENDS `OrchestratorAbstract`.

**State**
- Feature instances are numbered `SInst = 1..MaxSufRegistrations`; `scur` is the registered one and `sreg[i]` is its registration state (none, registered, cancelled, exited). Every field below but `requested`, `ctxOf` and `statusHist` is per instance: an old instance's goroutines keep their own `processOperationsLock`, status and loop.
- `requested` and `queued` are the install requests and the `processUpdateAction` goroutines waiting for `processOperationsLock`.
- The worker is at program point `ipc` of `installModule`. `icid` is the correlation ID it works on. `ifail` is the failure status getUpdateManifest led to.
- `ctxOf` holds, per `Apply` call, the correlation ID its context carries.
- `lastOperation` and `lastFailedOperation` are the twin properties. `statusHist` records every status written to `lastOperation`, per correlation ID.
- The event loop is `evCur`, `epc`, `ecid` and `eerr`.

**Actions**
- Each step of `install`, `processUpdateAction` and `installModule` is an action. Each status write takes `statusUpdatesLock` on its own, so it is its own step.
- `GetUpdateManifest` chooses an artifact from `Artifacts`. Its outcome comes from `GetUpdateManifestStatus`, which follows the code's order:
  1. a missing URL panics, and the deferred recover reports FinishedError;
  2. a download error gives FinishedError;
  3. `ValidateSoftareArtifactHash` gives FinishedRejected;
  4. `ParseMultiYAML` gives FinishedError.
- `InstallApply` tags the context with `lastOperation`'s correlation ID as read at that moment (`setOperationContext`).
- The event loop does four things:
  - it validates each event's correlation ID against `lastOperation` (`ReceiveEvent`);
  - it writes Installing on `started`;
  - it writes Installed, or `lastFailedOperation`, on `finished`;
  - it then writes the terminal status in a second lock section.
- `OtherFeatureApply` is the UpdateOrchestrator feature's calls, whose contexts carry no correlation ID.
- `ProcessThing` is `processThing` for this feature: `DisposeFeatures` cancels the registered instance (`CancelEventsHandler`), and `Register` subscribes a new instance with a nil `lastOperation` (`newSoftwareUpdatableManifests`). With `ReRegisterWhileIdle` it runs only when every accepted install has a terminal status.
- `ReceiveEvent` sets `sufPanicked` when an event carrying this feature's context value meets a nil `lastOperation` (`DerefsNilLastOperation`, `validateSUInstallContext` line 53); the loop goroutine has no recover, so the process stops.
- A cancelled loop (both feature modules) may take only the events that were on its queue when it was cancelled (`SinkEnd`, from `cancelAt`): `Subscribe`'s forwarding goroutine selects between the next queued event and `ctx.Done`, and once its queue is empty only `ctx.Done` is ready. The loop exits when it is back at `select` with its queue drained (`BackToSelect`), or earlier when `select` picks `ctx.Done` (`LoopExit`). A backlog kept up for the whole time by later publishes is left out.

### `UpdateOrchestratorFeature`

It EXTENDS `OrchestratorAbstract` and composes four parts that interact through the bus:
- the things update service's `processThing`;
- the feature instances it creates;
- the Kubernetes driver's informer and its `flagPublishResourceEvent`;
- the self-update driver's current-state handler.

**State**
- Instances are numbered `1..MaxRegistrations`. `cur` is the registered one.
- Each instance `i` has:
  - a registration state `reg[i]` (subscribed, registered, cancelled, exited);
  - its place on the bus, `evCur[i]`;
  - the loop's program point `lpc[i]`;
  - its status, `uoStatus[i]`: nil, a status without State, or one with State;
  - its timer, `armed[i]`, and the timer callbacks in flight, `firing[i]`.
- The twin's `status/currentState` is `twinCurrent`.
- The cluster and the self-update current state are versions, `clusterVer` and `suVer`. `Snapshot` is the pair of current versions.
- `Get` is what `orchMgr.Get` can return: the pair, or, with `CallsMayFail`, the pair with `NoList` for the k8s part (a failed pod or node list returns nil).
- `ucs[i]` is the caller of `updateCurrentState` holding instance `i`'s `updatesLock` (register, loop or timer). `got[i]` is what its `Get` returned.
- `k8sApplying` is true while kubectl apply holds the k8s driver's lock.
- `panicked` records a nil dereference.

**Actions**
- `ProcessThing`:
  - cancels the current instance, whose loop exits at a later `select` (`LoopExit`);
  - creates a new instance and subscribes it;
  - writes the nil status to the twin (`SetFeature`).
- `updateCurrentState` is three steps, for each of its callers (`Calls`: register, the loop after finished or a bundle, a timer callback):
  - `LockUpdates` takes the instance's `updatesLock` and makes a nil status one with a nil State;
  - `GetCurrentState` runs `orchMgr.Get`, which waits for kubectl apply;
  - `WriteCurrentState` runs `SetFeatureProperty`, which may fail with `CallsMayFail`, releases the lock and resumes the caller.
- `updatesLock` is a field of each instance. Nothing orders the Get and write of an old instance against those of the new one.
- The loop handlers `HandleOrchestrationStartedEvent`, `HandleOrchestrationFinishedEvent` and `HandleResourceEvent` follow the code, with `UpdateState` and `UpdateStatus`, each under `updatesLock`:
  - `updateStatus` dereferences `status.State`;
  - a k8s object arms the 30 s timer;
  - a self-update bundle refreshes at once.
- `TimerFire` is `time.AfterFunc` starting its callback, which then calls `updateCurrentState` outside `eventsHandlingLock`. Dispose never stops the timer.
- `PublishResourceEvent` reads the flag without the lock, so during an apply it may read either value (`FlagReads`).
- `HandleSelfUpdateCurrentState` drops a payload that `ParseMultiYAML` rejects.

### `Daemon` (start-up and shutdown)

This module models `runDaemon` (`daemon/daemon_start.go`) from `init()` to the final `select`, and the OS signals that stop it.
- **`pc`** is the main goroutine's program point:
  - the update orchestrator's `registryInit` (`K8sInit`);
  - the self-update driver's `MqttConnect` and subscribe (`suConnect`, `SuSubscribe`);
  - the orchestrator's own `MqttConnect` and subscribe (`uoConnect`, `UoSubscribe`);
  - the things service's `registryInit` (`ThingsInit`);
  - `TryLock`, `Start`, `NotifyMain`, and the wait for a signal.
- Each init step may fail. A failure goes straight to the things service's init, because `initServices` logs the error and skips the service (`AddService` is its add on success). The things service's init fails without an update manager in the registry.
- **`mpc` and `future`** model `MqttConnect`'s loop: a tick calls `Connect`, then `select` picks the connect future or the signal channel. Failed connects are bounded by `MaxConnectFailures`.
- **`notified`** is the channel registered for the stop signals: `MqttConnect`'s `sigs` from entry until `signal.Stop`, then none, then `runDaemon`'s `signalChan` after `signal.Notify`. **`mqttBuf` and `mainBuf`** are their one-slot buffers.
- **`DeliverSignal`** is Go's signal delivery. It does a non-blocking send to the registered channel, and a full buffer drops the signal. With no channel registered, the default action ends the process (`killed`).
- `stop()` is abstracted to the daemon's exit (`done`); its `Dispose` and `Disconnect` calls are not modelled.

## Runs

| run | cfg | expect | what it shows |
|---|---|---|---|
| su_stale_feedback | `SU_InstalledMeansBundleInstalled.cfg` | violation | `Apply` returns Installed for a bundle the SUA never installed. |
| su_leaked_subscription | `SU_UnsubscribedWhenIdle.cfg` | violation | A SUBACK timeout leaves the subscription and route in place. |
| orch_safety | `OrchSafety.cfg` | pass | The events of concurrent `Apply` calls are bracketed: started … finished [reboot], never interleaved. `finished` carries exactly the drivers' outcome. |
| orch_liveness | `OrchLiveness.cfg` | pass | Every orchestrator `Apply` returns or the device reboots. Every self-update `Apply` returns, whatever the broker and the SUA do. The orchestrator with its drivers implements `OrchestratorAbstract`, fairness included. |
| orch_rejected_success | `OrchRejected.cfg` | violation | A rejected bundle leads to `finished` without error. |
| suf_sequential | `SufSequential.cfg` | pass | When installs come one after another and `processThing` re-registers the feature only between installs, each install's `lastOperation` statuses follow the spec's sequence and end in a terminal status. The other feature's calls interleave. |
| suf_concurrent_installs | `SufConcurrent.cfg` | violation | With a second install queued, one install's statuses go from FinishedSuccess back to Installing. |
| suf_lost_finish | `SufLostFinish.cfg` | violation | With a second install queued, the first install never gets a terminal status. |
| uof_registered | `UofRegistered.cfg` | pass | `processThing` runs while no `Apply` is in flight, and `Get` and `SetFeatureProperty` may fail. No loop, old or new, dereferences a nil State, and nothing deadlocks. |
| uof_late_register | `UofLateRegister.cfg` | violation | `processThing` runs while an `Apply` is in flight. The finished handler dereferences the nil State that register left. |
| uof_stale_current_state | `UofStaleCurrentState.cfg` | violation | Nothing fails, yet `status/currentState` can stay stale for good. A disposed instance's refresh read `Get` before the cluster changed, and writes it after the new instance's fresh snapshot. |
| daemon_signal | `DaemonSignal.cfg` | violation | A stop signal that reaches `MqttConnect`'s channel during start-up is lost, on either of two paths, and the daemon keeps running. |

### Findings
- **Stale feedback completes the wrong operation** (code bug). The handler never checks `metadata.name`. So feedback published late for an earlier bundle, after a PUBACK timeout, completes the next operation. That operation returns Installed and triggers a reboot.
- **Second write to `done`.** A redelivered terminal message writes `done` a second time, which the spec rules out. With the slot full, the write blocks the paho router goroutine until the next receive. That receive may never come. No run checks it, and `TypeOK` would not catch it: `done` is a capacity-1 channel, so its value never leaves 0..1. `SU_AtMostOneCompletion.cfg` still reproduces it (`AtMostOneCompletion` is violated).
- **No unsubscribe after a SUBACK timeout.** The spec says the driver always unsubscribes on exit. The defer is registered only after a successful subscribe.
- **Rejected is reported as success.** A rejected self update has a nil `Err`, so the orchestrator applies the cluster resources and publishes `finished` without error.
- **Apply tagged with another install's ID.** `setOperationContext` reads `lastOperation` when it runs, not the install's own ID. When installs queue up, the second `Apply` carries the first install's ID.
- **Lost terminal status** (code bug). `Apply` returns before the event loop has seen `finished`. The next install overwrites `lastOperation`, the finished event then fails validation, and the backend's action stays open.
- **Nil `status.State` panics** (code bug). `updateStatus` checks only that `status` is non-nil. The status that register's `updateCurrentState` creates has a nil State. An instance that subscribes between `started` and `finished` panics the process on `finished`. This happens when `processThing` registers the SoftwareUpdatable feature first and it applies, or on re-registration while an `Apply` runs.
- **Stale current state after re-registration** (code bug). `updateCurrentState` holds only its own instance's `updatesLock` between `orchMgr.Get` and `SetFeatureProperty`. `processThing` cancels the old instance's event loop, but not a refresh that loop is already running, nor its timer callback. In TLC's trace:
  1. the old loop reads `<<0,0>>`;
  2. the cluster changes;
  3. the new instance registers, reads `<<1,0>>` and writes it;
  4. the old loop writes `<<0,0>>` and exits.

  No event follows, so the twin keeps the stale snapshot. spec.md calls `status/currentState` "the latest full `Get()` snapshot". The same property is also violated by a single failed pod or node list (`k8s_orchestration_mgr.go:86`) or a single failed `SetFeatureProperty`: set `CallsMayFail = TRUE` with one registration. Refreshes are event-driven, and nothing retries.

- **A stop signal during start-up is lost** (code bug). A signal that arrives while a driver's `MqttConnect` waits in its `select` goes to `MqttConnect`'s own `sigs` channel. TLC's counterexample takes one of two paths; which one it reports varies between runs.
  - **`select` takes the signal** (`util_mqtt.go:47`):
    1. `MqttConnect` returns "cancelled by signal", the orchestrator's init fails, and `initServices` only logs it;
    2. the things service's init fails for want of an update manager;
    3. `start()` has no things service to connect and returns nil.
  - **The connect completes while the signal is buffered:**
    1. `select` picks the connect (`util_mqtt.go:42-45`);
    2. the deferred `signal.Stop` (line 36) drops the buffered signal;
    3. init goes on normally.

  Either way, `runDaemon` then registers `signalChan` and blocks on it for good. spec.md says the connect retry is "interruptible by OS signals" and that the daemon exits with 0 on SIGINT/TERM/QUIT/HUP. Here it ignores the first stop request.

### Bounds
- **Self-update runs:**
  - two bundles and `MaxOps = 2` operations, which is the least needed for one operation's late feedback to meet the next;
  - `MaxMsgs = 3` messages from the SUA, which is enough for a progress report, a terminal report and a duplicate.
  - Reports use one unsupported tech code (9999) next to 4001 and 5001. That covers rejected, failed and ignored.
- **Orchestrator runs:**
  - two callers (the two features), `MaxApplies = 2` and `MaxOps = 2`;
  - `MaxMsgs = 2` in the safety run and 1 in the liveness run. The liveness run also checks the self-update driver's `ApplyEventuallyReturns`. That rests on the `time.After` branch, and one message already reaches the feedback path;
  - `MaxConnMsgs = 1` connection-status message in the safety run and none in the liveness run, which keeps the liveness graph small.
- **SoftwareUpdatable runs:**
  - two correlation IDs and one call of the other feature (`MaxApplies = 3`);
  - two is the least for one install's events to meet the next.
  - `MaxSufRegistrations = 2` in the sequential run: one re-registration, so an old loop is cancelled with events still queued and a new instance installs. The concurrent-install runs use one registration, so their counterexamples come from the installs alone.
  - Artifacts have up to two YAML documents, which is enough for "null only", "one bad" and "one good".
- **UpdateOrchestrator feature runs:**
  - `MaxRegistrations = 2`: the first registration and one re-registration, so an old loop and timer outlive their instance;
  - one `Apply` in total (`MaxApplies = 1`), which may come from either feature;
  - one apply command to this feature;
  - `MaxResourceChanges = 1`: one change of the cluster or of the self-update current state in total. It reaches both the suppressed-event path and the immediate refresh, and one change is all the stale write needs.
  - `CallsMayFail = TRUE` in the safety run, so the failure outcomes are explored. It is FALSE in the stale-state run, so its counterexample is the race alone.
  - The safety run has about 10^6 states. The liveness run of the stale-state property is checked under the full `UofFairness`; TLC needs about four minutes to find its violation.
  - `finished` is checked with a nil error only: the feature handles both outcomes alike.
- **Daemon run:** one signal (`MaxSignals = 1`) and one failed connect (`MaxConnectFailures = 1`). One signal is what the finding needs: the daemon ought to stop on it. One failed connect covers the retry branch.
- Each bound is a named constant. Every action's guard tests it.

### Fairness
- **Weak fairness:** the driver's, the orchestrator's and the features' goroutine steps, the feedback handler, the informer handler and the timers. Each is a goroutine that keeps running while it is enabled, or a timer that fires.
- **Strong fairness:** the steps that take a `sync.Mutex` another goroutine takes and releases.
  - This covers `applyLock`, `processOperationsLock` and `updatesLock` (`LockUpdates`), and `updateCurrentState`'s wait in the k8s `Get` (`GetCurrentState`).
  - A mutex in starvation mode hands the lock to a waiter that has waited longer than 1 ms.
  - A cancelled UpdateOrchestrator-feature loop's exit is also strongly fair: `select` picks at random among the ready cases. A cancelled SoftwareUpdatable loop needs no fairness for its exit: it exits once its queue is drained.
  - `processOperationsLock` of the SoftwareUpdatable feature gets weak fairness per waiting goroutine: each correlation ID is installed once, so once the lock is free a waiter stays enabled until some waiter takes it. This is a weaker assumption than strong fairness.
- **The first `processThing` is weakly fair.** It runs from the things client's init hook. Later ones get no fairness, because the registry need never report the thing again.
- **Daemon:** the main goroutine's steps, the ticker and `MqttConnect`'s `select` are weakly fair as one goroutine. A connect future always completes, because the paho client is created with a connect timeout. Signals get no fairness.
- **No fairness:** the broker, the SUA, the cloud and the cluster. Liveness must hold however they behave, which is exactly why `time.After` is needed.

## Mutants

Each property of a passing run has a mutant in `PROJECT.json`. The mutant is a plausible bug in the code, and TLC finds the property violated once the mutant replaces the definition:
- `SuApplyNoTimeout` drops `time.After`;
- `OrchStartUnlocked` drops `applyLock`;
- `OrchClusterIgnoresError` drops the `applyErr == nil` test;
- `InstallFailedNoLastWrite` skips the `lastOperation` write on failure;
- `ReceiveEventUnchecked` drops `validateOperationContext`;
- `HandleEventFinishedNoInstalled` writes FinishedSuccess in place of Installed;
- `HandleStartedStatusFirst` swaps `updateState` and `updateStatus`;
- `TimerFireKeepsArmed` makes the timer periodic.

## Not modelled, and why

- **The self-update driver's Apply inside the feature modules.** The feature modules use the abstract orchestrator, and `UpdateOrchestrator` is shown to implement it.
- **SoftwareUpdatable re-registration during an install, as a run.** With `ReRegisterWhileIdle = FALSE`, `SufSequential.cfg` finds `NoNilLastOperationDereference` violated in 9 states. With the constant TRUE the property holds by that guard alone, because a new sink only gets events published after it subscribes, so the passing run does not check it. Re-registration happens during the download. The new instance's loop then takes the install's `started` event and dereferences its nil `lastOperation` (`features_rollouts_software_updatable_manifests_context.go:53`), which stops the daemon. This is the same kind of crash as the nil `status.State` finding. Every run slot is taken by a distinct question, so it is listed as a hazard and reproduced by flipping the constant. The old and new instances' workers also share the one abstract caller, so their `Apply` calls are serialised; this matters only in that unrestricted case.
- **`SetFeature` failing in register.** register then returns before `updateCurrentState`. Only the later `SetFeatureProperty` failure is modelled.
- **`Disconnect` at daemon stop.** It disposes the features under `initMutex`. A registry notification already waiting on `initMutex` would register new features after it. The process exits right after, so this is left out.
- **Server-side apply.** spec.md says the Kubernetes driver uses server-side apply. `createApplyOptions` sets `ServerSideApply: false`, which is client-side apply with prune. This is a configuration value, not behaviour a model checker can examine.
- **The liveness of a disposed loop's exit.** At the sizes that matter it does not finish within five minutes. The safety run's deadlock check covers the loop being stuck for good.
- **The UpdateOrchestrator feature's `status/state` twin property and the error text of `finished`.** No property depends on their values.
- **`kubectl apply` itself.** It is I/O against a cluster. It appears as its error outcome, and as cluster changes seen by the informer.
- **Events bus sinks.** The queue sink implementation is not in the repository. Delivery is modelled as the one ordered bus each subscriber reads from its subscribe point.
- **Request validation (`convertToUpdateAction`, `validateSoftwareUpdateActionManifests`), daemon configuration (`daemon_config_util.go`, `daemon_config_default.go`, the `*_opts.go` option setters) and service registration.** These are data conversion and wiring, and no property depends on their values. The daemon model takes their possible outcomes as nondeterministic init failures.
- **The service registry library.** `registryCtx.Get` is from kanto's container-management and is not in the repository. The daemon model assumes it fails for a type with no initialised service, which is what the things service's init relies on.
- **A signal between `start()` and `signal.Notify`.** It takes Go's default action and ends the process without `stop()`. The model ends the daemon there. What `stop()` would clean up is not modelled, so this is a hazard without a property.
