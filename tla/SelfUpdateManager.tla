-------------------------- MODULE SelfUpdateManager --------------------------
(***************************************************************************)
(* The self-update driver (orchestration/selfupdate): selfUpdateManager.   *)
(* Apply and the MQTT feedback handler of selfUpdateOperation, together    *)
(* with the environment they talk to: the MQTT broker and the external     *)
(* Self-Update Agent (SUA).                                                *)
(*                                                                         *)
(* Apply runs on the caller's goroutine; the feedback handler runs on the  *)
(* paho router goroutine, which calls handlers one message at a time.     *)
(* Their only link is the selfUpdateOperation: its result field and its    *)
(* single-slot done channel.                                               *)
(***************************************************************************)
EXTENDS Naturals, Sequences

CONSTANTS
  Bundles,       \* SelfUpdateBundle resources a caller may apply
  NoBundle,      \* model value: no bundle (no call pending / SUA idle)
  EnableReboot,  \* cfg.enableReboot
  MaxOps,        \* bound on Apply calls (each allocates one operation)
  MaxMsgs        \* bound on feedback messages sent or redelivered

ASSUME NoBundle \notin Bundles
ASSUME EnableReboot \in BOOLEAN
ASSUME MaxOps \in Nat \ {0} /\ MaxMsgs \in Nat

VARIABLES
  suCall,       \* bundle passed to the pending Apply call, or NoBundle
  suReturn,     \* ApplyResult handed back to the caller, or NoReturn
  suPc,         \* program point of Apply; "idle" means applyLock is free
  curOp,        \* suMgr.selfUpdateOperation (0 = nil)
  nOps,         \* operations allocated so far
  opBundle,     \* bundle each operation was created for (history)
  opResult,     \* su.result of each operation
  done,         \* number of values buffered in su.done (capacity 1)
  doneWrites,   \* number of writes to su.done per operation (history)
  opReturned,   \* result Apply returned for each operation (history)
  route,        \* operation whose handler the paho router holds for the
                \* feedback topic (0 = no route)
  brokerSub,    \* broker side of the feedback subscription
  blockedOn,    \* operation whose full done channel blocks the router (0 = none)
  feedback,     \* feedback messages in flight from the broker to the client
  inbox,        \* desired-state messages delivered to the SUA
  suaCur,       \* bundle the SUA is processing, or NoBundle
  suaInstalled, \* bundles the SUA has reported installed (history)
  msgs          \* feedback messages sent or redelivered so far

suVars == <<suCall, suReturn, suPc, curOp, nOps, opBundle, opResult, done,
            doneWrites, opReturned, route, brokerSub, blockedOn, feedback,
            inbox, suaCur, suaInstalled, msgs>>

Ops == 1..MaxOps

\* OperationResult
Results == {"NoResult", "Installed", "Rejected", "Error", "Timeout"}

(***************************************************************************)
(* Feedback states as the handler tells them apart.  "downloading" stands  *)
(* for every message the handler returns on without a transition:         *)
(* downloading/installing (valid or invalid progress), idle, a failed     *)
(* state with an unsupported tech code, and malformed payloads.  "failed" *)
(* is a failed state with a supported tech code other than 4001,          *)
(* "rejected" is tech code 4001.                                           *)
(***************************************************************************)
FeedbackStates == {"uninitialized", "downloading", "installed", "rejected", "failed"}
TerminalStates == FeedbackStates \ {"downloading"}
Messages == [bundle : Bundles, state : FeedbackStates]

(***************************************************************************)
(* What the SUA reports: the state name of its desired-state feedback,     *)
(* the tech code of a failed state, and whether the message is well      *)
(* formed for the handler (it parses as YAML, and metadata, metadata.name, *)
(* state, state.name and, where needed, state.techCode are present with   *)
(* the expected types).  state.progress is only checked to be logged.     *)
(***************************************************************************)
SuaStates == {"uninitialized", "downloading", "installing", "installed", "failed", "idle"}
TechCodes == {1001, 2001, 3001, 4001, 5001}
SuaDoneStates == {"uninitialized", "installed", "failed"}
Reports == [wellFormed : BOOLEAN, state : SuaStates, techCode : {4001, 5001, 9999}]

\* isStateTechCodeSupported.
IsStateTechCodeSupported(c) == c \in TechCodes

\* The getSelfUpdateField* lookups of the handler all succeed.
GetSelfUpdateFields(r) == r.wellFormed

\* The state handleSelfUpdateDesiredStateFeedback acts on for a report:
\* every early return (a lookup that fails, a progress report, an
\* unsupported tech code, a state it does not know) is "downloading".
FeedbackStateOf(r) ==
  CASE ~GetSelfUpdateFields(r)                   -> "downloading"
    [] r.state = "uninitialized"                 -> "uninitialized"
    [] r.state = "installed"                     -> "installed"
    [] r.state = "failed" /\ ~IsStateTechCodeSupported(r.techCode) -> "downloading"
    [] r.state = "failed" /\ r.techCode = 4001   -> "rejected"
    [] r.state = "failed"                        -> "failed"
    [] OTHER                                     -> "downloading"

NoReturn == [result |-> "NoResult", err |-> FALSE, rebootRequired |-> FALSE]
ApplyResults == [result : Results, err : BOOLEAN, rebootRequired : BOOLEAN]

SuTypeOK ==
  /\ suCall \in Bundles \cup {NoBundle}
  /\ suReturn \in ApplyResults
  /\ suPc \in {"idle", "subscribed", "published", "received"}
  /\ curOp \in 0..MaxOps /\ nOps \in 0..MaxOps
  /\ opBundle \in [Ops -> Bundles \cup {NoBundle}]
  /\ opResult \in [Ops -> Results] /\ opReturned \in [Ops -> Results]
  /\ done \in [Ops -> 0..1] /\ doneWrites \in [Ops -> 0..MaxMsgs]
  /\ route \in 0..MaxOps /\ blockedOn \in 0..MaxOps
  /\ brokerSub \in {"none", "pending", "active"}
  /\ feedback \in Seq(Messages) /\ inbox \in Seq(Bundles)
  /\ suaCur \in Bundles \cup {NoBundle} /\ suaInstalled \subseteq Bundles
  /\ msgs \in 0..MaxMsgs

SuInit ==
  /\ suCall = NoBundle /\ suReturn = NoReturn
  /\ suPc = "idle" /\ curOp = 0 /\ nOps = 0
  /\ opBundle = [o \in Ops |-> NoBundle]
  /\ opResult = [o \in Ops |-> "NoResult"]
  /\ opReturned = [o \in Ops |-> "NoResult"]
  /\ done = [o \in Ops |-> 0] /\ doneWrites = [o \in Ops |-> 0]
  /\ route = 0 /\ brokerSub = "none" /\ blockedOn = 0
  /\ feedback = <<>> /\ inbox = <<>>
  /\ suaCur = NoBundle /\ suaInstalled = {} /\ msgs = 0

callVars == <<suCall, suReturn>>
applyVars == <<suPc, curOp, nOps, opBundle, opReturned>>
opVars == <<opResult, done, doneWrites, blockedOn>>
subVars == <<route, brokerSub>>
suaVars == <<feedback, inbox, suaCur, suaInstalled, msgs>>

(***************************************************************************)
(* Apply.  applyLock is held from SuApplyBegin until a Return; suPc #     *)
(* "idle" is exactly "the lock is held".  Return is the deferred block:  *)
(* selfUpdateOperation = nil, log, applyLock.Unlock().                    *)
(***************************************************************************)
Return(op, r, e, rb) ==
  /\ suReturn' = [result |-> r, err |-> e, rebootRequired |-> rb]
  /\ opReturned' = [opReturned EXCEPT ![op] = r]
  /\ suCall' = NoBundle
  /\ suPc' = "idle"
  /\ curOp' = 0

\* The deferred pahoClient.Unsubscribe of the feedback topic.
Unsubscribe ==
  /\ route' = 0
  /\ brokerSub' = "none"

(* Lock, allocate a fresh operation, marshal the bundle (it was parsed     *)
(* from YAML, so the JSON round trip cannot fail) and Subscribe with the  *)
(* new operation's handler.  When the SUBACK does not come within         *)
(* acknowledgeTimeout the call returns Error; the Unsubscribe is deferred *)
(* only after a successful subscribe, so the route stays and the          *)
(* SUBSCRIBE may still take effect at the broker.                         *)
SuApplyBegin ==
  /\ suPc = "idle"
  /\ suCall \in Bundles
  /\ nOps < MaxOps
  /\ LET op == nOps + 1 IN
       /\ nOps' = op
       /\ opBundle' = [opBundle EXCEPT ![op] = suCall]
       /\ route' = op
       /\ \/ /\ brokerSub' = "active"
             /\ suPc' = "subscribed"
             /\ curOp' = op
             /\ UNCHANGED <<suCall, suReturn, opReturned>>
          \/ /\ brokerSub' = IF brokerSub = "active" THEN "active" ELSE "pending"
             /\ Return(op, "Error", TRUE, FALSE)
  /\ UNCHANGED <<opVars, suaVars>>

(* Publish the desired state.  When the PUBACK does not come within       *)
(* acknowledgeTimeout the call returns Error, though the message may      *)
(* still have reached the SUA.                                             *)
SuApplyPublish ==
  /\ suPc = "subscribed"
  /\ LET sent == Append(inbox, opBundle[curOp]) IN
       \/ /\ inbox' = sent
          /\ suPc' = "published"
          /\ UNCHANGED <<callVars, curOp, opReturned, subVars>>
       \/ /\ inbox' \in {inbox, sent}
          /\ Return(curOp, "Error", TRUE, FALSE)
          /\ Unsubscribe
  /\ UNCHANGED <<nOps, opBundle, opVars, feedback, suaCur, suaInstalled, msgs>>

(* Mutant: the select of Apply without its time.After branch.             *)
SuApplyNoTimeout ==
  /\ suPc = "published"
  /\ FALSE
  /\ UNCHANGED suVars

(* The time.After branch of the select: the operation is not completed   *)
(* within cfg.timeout.                                                     *)
SuApplyTimeout ==
  /\ suPc = "published"
  /\ Return(curOp, "Timeout", TRUE, FALSE)
  /\ Unsubscribe
  /\ UNCHANGED <<nOps, opBundle, opVars, suaVars>>

(* The done branch of the select.  If the router goroutine is blocked    *)
(* sending on this full channel, its send completes into the freed slot. *)
SuApplyReceiveDone ==
  /\ suPc = "published"
  /\ done[curOp] = 1
  /\ IF blockedOn = curOp
       THEN blockedOn' = 0 /\ UNCHANGED done
       ELSE done' = [done EXCEPT ![curOp] = 0] /\ UNCHANGED blockedOn
  /\ suPc' = "received"
  /\ UNCHANGED <<callVars, curOp, nOps, opBundle, opReturned, opResult,
                 doneWrites, subVars, suaVars>>

(* After the receive, Apply reads su.result, which the router goroutine  *)
(* may have overwritten since it sent on done.                            *)
SuApplyResult ==
  /\ suPc = "received"
  /\ LET r == opResult[curOp] IN
       Return(curOp, r, r = "Error", r = "Installed" /\ EnableReboot)
  /\ Unsubscribe
  /\ UNCHANGED <<nOps, opBundle, opVars, suaVars>>

(***************************************************************************)
(* handleSelfUpdateDesiredStateFeedback, run by the paho router for the   *)
(* operation whose handler holds the route.  A terminal state sets        *)
(* su.result and sends on su.done; the send blocks the router when the    *)
(* slot is already full.  The bundle name of the message is not checked. *)
(***************************************************************************)
FeedbackResult(s) ==
  CASE s = "installed" -> "Installed"
    [] s = "rejected"  -> "Rejected"
    [] OTHER           -> "Error"

HandleSelfUpdateDesiredStateFeedback ==
  /\ blockedOn = 0
  /\ feedback # <<>>
  /\ route # 0
  /\ feedback' = Tail(feedback)
  /\ LET m == Head(feedback)
         op == route
     IN IF m.state \in TerminalStates
          THEN /\ opResult' = [opResult EXCEPT ![op] = FeedbackResult(m.state)]
               /\ doneWrites' = [doneWrites EXCEPT ![op] = @ + 1]
               /\ IF done[op] = 0
                    THEN done' = [done EXCEPT ![op] = 1] /\ UNCHANGED blockedOn
                    ELSE blockedOn' = op /\ UNCHANGED done
          ELSE UNCHANGED opVars
  /\ UNCHANGED <<callVars, applyVars, subVars, inbox, suaCur, suaInstalled, msgs>>

(***************************************************************************)
(* Environment: the paho router without a route, the broker and the SUA. *)
(***************************************************************************)
\* A message for a topic without a route is dropped by the router.
RouterDrop ==
  /\ blockedOn = 0
  /\ feedback # <<>>
  /\ route = 0
  /\ feedback' = Tail(feedback)
  /\ UNCHANGED <<callVars, applyVars, opVars, subVars, inbox, suaCur, suaInstalled, msgs>>

\* A SUBSCRIBE whose acknowledgement timed out takes effect late, or never.
LateSubscribe ==
  /\ brokerSub = "pending"
  /\ brokerSub' \in {"active", "none"}
  /\ UNCHANGED <<callVars, applyVars, opVars, route, suaVars>>

\* The SUA takes the next desired state when it is idle.
SuaTake ==
  /\ suaCur = NoBundle
  /\ inbox # <<>>
  /\ suaCur' = Head(inbox)
  /\ inbox' = Tail(inbox)
  /\ UNCHANGED <<callVars, applyVars, opVars, subVars, feedback, suaInstalled, msgs>>

(* The SUA reports a state of the bundle it processes; it is done with    *)
(* the bundle once it reports installed, failed or uninitialized (it is  *)
(* not configured to take it).  The broker forwards                        *)
(* the report only when the feedback subscription is active; the message *)
(* carries the state the handler will take from it.                       *)
SuaReport(r) ==
  /\ suaCur # NoBundle
  /\ msgs < MaxMsgs
  /\ feedback' = IF brokerSub = "active"
                   THEN Append(feedback, [bundle |-> suaCur, state |-> FeedbackStateOf(r)])
                   ELSE feedback
  /\ msgs' = msgs + 1
  /\ suaCur' = IF r.state \in SuaDoneStates THEN NoBundle ELSE suaCur
  /\ suaInstalled' = IF r.state = "installed" THEN suaInstalled \cup {suaCur} ELSE suaInstalled
  /\ UNCHANGED <<callVars, applyVars, opVars, subVars, inbox>>

\* QoS 1 is at-least-once: the broker may deliver a message twice.
BrokerRedeliver ==
  /\ feedback # <<>>
  /\ msgs < MaxMsgs
  /\ feedback' = <<Head(feedback)>> \o feedback
  /\ msgs' = msgs + 1
  /\ UNCHANGED <<callVars, applyVars, opVars, subVars, inbox, suaCur, suaInstalled>>

SuDriverNext ==
  \/ SuApplyBegin
  \/ SuApplyPublish
  \/ SuApplyTimeout
  \/ SuApplyReceiveDone
  \/ SuApplyResult
  \/ HandleSelfUpdateDesiredStateFeedback

SuEnvNext ==
  \/ RouterDrop
  \/ LateSubscribe
  \/ SuaTake
  \/ \E r \in Reports : SuaReport(r)
  \/ BrokerRedeliver

(* Weak fairness: the Apply goroutine and the router goroutine keep       *)
(* running, and the time.After timer always fires.  The SUA and the       *)
(* broker get none: the SUA may never answer.                             *)
SuFairness ==
  /\ WF_suVars(SuApplyBegin)
  /\ WF_suVars(SuApplyPublish)
  /\ WF_suVars(SuApplyTimeout)
  /\ WF_suVars(SuApplyReceiveDone)
  /\ WF_suVars(SuApplyResult)
  /\ WF_suVars(HandleSelfUpdateDesiredStateFeedback)

(***************************************************************************)
(* The standalone specification: one caller applies bundles one at a     *)
(* time and collects each ApplyResult.                                     *)
(***************************************************************************)
SuCall(b) ==
  /\ suCall = NoBundle
  /\ suPc = "idle"
  /\ suReturn = NoReturn
  /\ nOps < MaxOps
  /\ suCall' = b
  /\ UNCHANGED <<suReturn, applyVars, opVars, subVars, suaVars>>

SuCollect ==
  /\ suReturn # NoReturn
  /\ suReturn' = NoReturn
  /\ UNCHANGED <<suCall, applyVars, opVars, subVars, suaVars>>

\* Every operation has been used and Apply is idle: nothing is left to do.
SuQuiescent ==
  /\ suPc = "idle"
  /\ nOps = MaxOps
  /\ UNCHANGED suVars

SuNext ==
  \/ \E b \in Bundles : SuCall(b)
  \/ SuCollect
  \/ SuDriverNext
  \/ SuEnvNext
  \/ SuQuiescent

SuSpec == SuInit /\ [][SuNext]_suVars /\ SuFairness

(***************************************************************************)
(* Properties                                                              *)
(***************************************************************************)

(* Every Apply call returns: the select of Apply has a time.After branch, *)
(* so a SUA that never answers cannot keep the applyLock forever.         *)
ApplyEventuallyReturns == suCall \in Bundles ~> suCall = NoBundle

(* Apply returns Installed only for a bundle the SUA has reported          *)
(* installed.  The feedback handler does not compare metadata.name with   *)
(* the bundle of its operation.                                            *)
InstalledMeansBundleInstalled ==
  \A o \in Ops : opReturned[o] = "Installed" => opBundle[o] \in suaInstalled

(* The spec: "Terminal transitions push to a single-slot buffered channel; *)
(* second writes never occur because each call creates a fresh operation." *)
AtMostOneCompletion == \A o \in Ops : doneWrites[o] <= 1

(* The spec: Apply "always unsubscribe[s] on exit": no handler holds the  *)
(* feedback route while no Apply runs.                                     *)
UnsubscribedWhenIdle == suPc = "idle" => route = 0
==============================================================================
