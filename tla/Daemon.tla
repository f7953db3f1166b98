------------------------------- MODULE Daemon -------------------------------
(***************************************************************************)
(* The daemon's start-up and shutdown (runDaemon in daemon_start.go) and   *)
(* the OS signals that stop it.  init() runs the services' init functions  *)
(* in order: the update orchestrator's registryInit creates the k8s        *)
(* driver, the self-update driver (MqttConnect, subscribe) and its own     *)
(* MQTT client (MqttConnect, subscribe); the things service's registryInit *)
(* needs the update orchestrator.  An init error is logged and the service *)
(* left out.  Then the run lock, start() (the things client's Connect),    *)
(* signal.Notify and the select that waits for a signal and calls stop().  *)
(*                                                                         *)
(* MqttConnect registers its own signal channel (capacity 1) for the       *)
(* whole retry loop: each tick calls Connect and selects between the       *)
(* connect future and the signal channel.  A signal with no channel        *)
(* registered for it takes the default action and ends the process.        *)
(***************************************************************************)
EXTENDS Naturals

CONSTANTS
  MaxSignals,         \* signals the OS delivers (SIGINT, SIGTERM, ...)
  MaxConnectFailures  \* failed broker connects, over both MqttConnect calls

ASSUME MaxSignals \in Nat /\ MaxConnectFailures \in Nat

VARIABLES
  pc,        \* the main goroutine's program point in runDaemon
  mpc,       \* MqttConnect's program point: waiting for a tick, or in select
  future,    \* the connect future of the current attempt
  failures,  \* failed connects so far
  notified,  \* the channel signal.Notify has registered: none, mqtt or main
  mqttBuf,   \* signals buffered in MqttConnect's sigs channel
  mainBuf,   \* signals buffered in runDaemon's signalChan
  sent,      \* signals the OS has delivered
  services   \* services init() added to the registry

vars == <<pc, mpc, future, failures, notified, mqttBuf, mainBuf, sent,
          services>>

Pcs == {"k8sInit", "suConnect", "suSubscribe", "uoConnect", "uoSubscribe",
        "thingsInit", "lock", "start", "notify", "wait",
        "done", "failed", "killed"}
Terminated == pc \in {"done", "failed", "killed"}

DaemonTypeOK ==
  /\ pc \in Pcs
  /\ mpc \in {"idle", "tick", "select"}
  /\ future \in {"none", "pending", "ok", "err"}
  /\ failures \in 0..MaxConnectFailures
  /\ notified \in {"none", "mqtt", "main"}
  /\ mqttBuf \in 0..1 /\ mainBuf \in 0..1
  /\ sent \in 0..MaxSignals
  /\ services \subseteq {"uo", "things"}

DaemonInit ==
  /\ pc = "k8sInit" /\ mpc = "idle" /\ future = "none" /\ failures = 0
  /\ notified = "none" /\ mqttBuf = 0 /\ mainBuf = 0 /\ sent = 0
  /\ services = {}

(***************************************************************************)
(* The OS.                                                                 *)
(***************************************************************************)
\* A signal goes to every channel registered for it by a send that never
\* blocks (a full buffer drops it); with none registered, the default
\* action ends the process.
DeliverSignal ==
  /\ sent < MaxSignals /\ ~Terminated
  /\ sent' = sent + 1
  /\ CASE notified = "none" -> pc' = "killed" /\ UNCHANGED <<mqttBuf, mainBuf>>
       [] notified = "mqtt" -> mqttBuf' = 1 /\ UNCHANGED <<pc, mainBuf>>
       [] notified = "main" -> mainBuf' = 1 /\ UNCHANGED <<pc, mqttBuf>>
  /\ UNCHANGED <<mpc, future, failures, notified, services>>

(***************************************************************************)
(* MqttConnect, called from pc = "suConnect" and pc = "uoConnect".         *)
(***************************************************************************)
Connecting == pc \in {"suConnect", "uoConnect"}

\* Entering MqttConnect: signal.Notify(sigs, ...) and the backoff ticker.
BeginMqttConnect(at) ==
  /\ pc' = at /\ mpc' = "tick" /\ notified' = "mqtt" /\ mqttBuf' = 0

\* A tick of the constant backoff ticker (the first is immediate): Connect.
MqttTick ==
  /\ Connecting /\ mpc = "tick"
  /\ mpc' = "select" /\ future' = "pending"
  /\ UNCHANGED <<pc, failures, notified, mqttBuf, mainBuf, sent, services>>

\* The broker answers, or the connect timeout expires.
ConnectCompletes ==
  /\ future = "pending"
  /\ \/ future' = "ok"
     \/ failures < MaxConnectFailures /\ future' = "err"
  /\ UNCHANGED <<pc, mpc, failures, notified, mqttBuf, mainBuf, sent,
                 services>>

\* MqttConnect returns: signal.Stop(sigs) drops the channel with whatever
\* it buffered; the caller goes on by the result.
ReturnFromMqttConnect(ok) ==
  /\ mpc' = "idle" /\ future' = "none" /\ notified' = "none" /\ mqttBuf' = 0
  /\ pc' = CASE pc = "suConnect" /\ ok -> "suSubscribe"
             [] pc = "uoConnect" /\ ok -> "uoSubscribe"
             [] OTHER                  -> "thingsInit"

\* select picks at random among its ready cases.
SelectConnected ==
  /\ Connecting /\ mpc = "select" /\ future = "ok"
  /\ ReturnFromMqttConnect(TRUE)
  /\ UNCHANGED <<failures, mainBuf, sent, services>>

SelectConnectError ==
  /\ Connecting /\ mpc = "select" /\ future = "err"
  /\ mpc' = "tick" /\ future' = "none" /\ failures' = failures + 1
  /\ UNCHANGED <<pc, notified, mqttBuf, mainBuf, sent, services>>

\* "connect to local broker ... cancelled by signal": an error for the caller.
SelectSignal ==
  /\ Connecting /\ mpc = "select" /\ mqttBuf = 1
  /\ ReturnFromMqttConnect(FALSE)
  /\ UNCHANGED <<failures, mainBuf, sent, services>>

(***************************************************************************)
(* init(): the update orchestrator's and the things service's init.        *)
(***************************************************************************)
\* initServices adds a service whose init returned no error; on an error
\* it logs and goes on with the next one.
AddService(s) == services' = services \cup {s}

\* NewK8sUpdateManager; its error ends the update orchestrator's init.
K8sInit ==
  /\ pc = "k8sInit"
  /\ \/ BeginMqttConnect("suConnect")
     \/ pc' = "thingsInit" /\ UNCHANGED <<mpc, notified, mqttBuf>>
  /\ UNCHANGED <<future, failures, mainBuf, sent, services>>

\* subscribeSelfUpdateCurrentState, then the orchestrator's own MqttConnect.
SuSubscribe ==
  /\ pc = "suSubscribe"
  /\ \/ BeginMqttConnect("uoConnect")
     \/ pc' = "thingsInit" /\ UNCHANGED <<mpc, notified, mqttBuf>>
  /\ UNCHANGED <<future, failures, mainBuf, sent, services>>

\* subscribeRemoteConnectionStatus; on success initServices adds the
\* update orchestrator to the registry.
UoSubscribe ==
  /\ pc = "uoSubscribe"
  /\ pc' = "thingsInit"
  /\ \/ AddService("uo")
     \/ UNCHANGED services
  /\ UNCHANGED <<mpc, future, failures, notified, mqttBuf, mainBuf, sent>>

\* The things service's registryInit fails without an update manager, or
\* when applyOptsThings rejects its options.
ThingsInit ==
  /\ pc = "thingsInit"
  /\ pc' = "lock"
  /\ \/ "uo" \in services /\ AddService("things")
     \/ UNCHANGED services
  /\ UNCHANGED <<mpc, future, failures, notified, mqttBuf, mainBuf, sent>>

(***************************************************************************)
(* runDaemon after init().                                                 *)
(***************************************************************************)
\* newRunLock and TryLock; another instance holding it is an error.
TryLock ==
  /\ pc = "lock"
  /\ pc' \in {"start", "failed"}
  /\ UNCHANGED <<mpc, future, failures, notified, mqttBuf, mainBuf, sent,
                 services>>

\* start(): startThingsManagers connects every things service in the
\* registry and returns the last error; with none, it returns nil.
Start ==
  /\ pc = "start"
  /\ pc' \in IF "things" \in services THEN {"notify", "failed"} ELSE {"notify"}
  /\ UNCHANGED <<mpc, future, failures, notified, mqttBuf, mainBuf, sent,
                 services>>

NotifyMain ==
  /\ pc = "notify"
  /\ pc' = "wait" /\ notified' = "main" /\ mainBuf' = 0
  /\ UNCHANGED <<mpc, future, failures, mqttBuf, sent, services>>

\* The select receives a signal; stop() disposes the update managers and
\* disconnects the things services, and runDaemon returns nil.
ReceiveSignalAndStop ==
  /\ pc = "wait" /\ mainBuf = 1
  /\ pc' = "done" /\ mainBuf' = 0
  /\ UNCHANGED <<mpc, future, failures, notified, mqttBuf, sent, services>>

DaemonStep ==
  \/ K8sInit \/ SuSubscribe \/ UoSubscribe \/ ThingsInit
  \/ TryLock \/ Start \/ NotifyMain \/ ReceiveSignalAndStop
  \/ MqttTick \/ SelectConnected \/ SelectConnectError \/ SelectSignal

DaemonNext ==
  \/ DaemonStep
  \/ ConnectCompletes
  \/ DeliverSignal
  \/ Terminated /\ UNCHANGED vars

(* The main goroutine runs while it can, the ticker ticks and select      *)
(* returns once a case is ready; paho's connect timeout completes every   *)
(* connect future.  The OS need not send a signal.                         *)
DaemonFairness ==
  /\ WF_vars(DaemonStep)
  /\ WF_vars(ConnectCompletes)

DaemonSpec == DaemonInit /\ [][DaemonNext]_vars /\ DaemonFairness

(***************************************************************************)
(* Properties                                                              *)
(***************************************************************************)
(* spec.md: the daemon exits with 0 on SIGINT/TERM/QUIT/HUP and the MQTT   *)
(* connect retry is interruptible by OS signals.  So every signal the     *)
(* daemon receives, at whatever point of its start-up, leads to its exit:  *)
(* the default action, an error exit, or stop() after the final select.   *)
SignalStopsDaemon == sent > 0 ~> Terminated

====
