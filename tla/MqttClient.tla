---------------------------- MODULE MqttClient ----------------------------
(***************************************************************************)
(* internal/mqttclient: the paho wrapper with a connected flag, a one-slot *)
(* queue for publishes made while disconnected, and the re-subscription of *)
(* the status topic; and its two publishers, the control loop and the      *)
(* restart scheduler of cmd/marstek-controller.                            *)
(*                                                                         *)
(* Each publisher, each OnConnect callback and main's Subscribe is a       *)
(* thread; an action is what a thread does between two points where        *)
(* another can run: an atomic load or store, a critical section of c.mu, a *)
(* call into paho.                                                         *)
(*                                                                         *)
(* External: paho runs each callback in a goroutine of its own, so the     *)
(* callbacks of a short connection may run in any order; with QoS 0 a      *)
(* publish made while paho has no session is lost.                         *)
(***************************************************************************)
EXTENDS Integers, Sequences, FiniteSets

CONSTANTS
    Control, Scheduler,     \* the two publishers
    MaxSessions,            \* bound: broker sessions
    MaxMessages             \* bound: publishes per publisher

ASSUME MqttAssumption ==
    Control # Scheduler /\ MaxSessions \in Nat \ {0} /\ MaxMessages \in Nat \ {0}

Publishers == {Control, Scheduler}
Message == [from : Publishers, n : 1..MaxMessages]
None == [from |-> Control, n |-> 0]
Sessions == 1..MaxSessions

VARIABLES
    session,       \* paho: sessions opened so far
    link,          \* paho: is the last one still open?
    lostCalls,     \* paho: ConnectionLost callbacks that have not run
    subscribed,    \* broker: the open session is subscribed to the status topic
    wire,          \* broker: control messages in the order of arrival
    lost,          \* messages paho has lost
    connected,     \* Client.connected
    pending,       \* Client.pending
    subs,          \* Client.subs holds the status topic
    dropped,       \* messages OnDrop was called for
    callback,      \* OnConnect callback of each session: where it is
    held,          \*   the pending publish it took
    snapshot,      \*   its copy of subs
    pc,            \* each publisher: where it is
    msg,           \*   its current message
    main           \* main's Subscribe: where it is

pahoVars   == <<session, link, lostCalls>>
brokerVars == <<subscribed, wire, lost>>
onConnectVars == <<callback, held, snapshot>>
publishVars == <<pc, msg>>
vars == <<pahoVars, brokerVars, connected, pending, subs, dropped, onConnectVars,
          publishVars, main>>

Init ==
    /\ session = 0 /\ link = FALSE /\ lostCalls = 0
    /\ subscribed = FALSE /\ wire = <<>> /\ lost = {}
    /\ connected = FALSE /\ pending = None /\ subs = FALSE /\ dropped = {}
    /\ callback = [s \in Sessions |-> "none"]
    /\ held = [s \in Sessions |-> None]
    /\ snapshot = [s \in Sessions |-> FALSE]
    /\ pc = [p \in Publishers |-> "idle"]
    /\ msg = [p \in Publishers |-> [from |-> p, n |-> 0]]
    /\ main = "subscribe"

-----------------------------------------------------------------------------
(* paho and the broker. *)

(* A session opens: paho starts OnConnect; a clean session has no          *)
(* subscription.                                                           *)
LinkUp ==
    /\ ~link /\ session < MaxSessions
    /\ link' = TRUE /\ session' = session + 1
    /\ callback' = [callback EXCEPT ![session + 1] = "start"]
    /\ subscribed' = FALSE
    /\ UNCHANGED <<lostCalls, wire, lost, connected, pending, subs, dropped, held, snapshot,
                   publishVars, main>>

LinkDown ==
    /\ link
    /\ link' = FALSE /\ subscribed' = FALSE
    /\ lostCalls' = lostCalls + 1
    /\ UNCHANGED <<session, wire, lost, connected, pending, subs, dropped, onConnectVars,
                   publishVars, main>>

(* paho's Publish of m. *)
Transmit(m) ==
    /\ wire' = IF link THEN Append(wire, m) ELSE wire
    /\ lost' = IF link THEN lost ELSE lost \cup {m}
    /\ UNCHANGED subscribed

(* paho's Subscribe to the status topic. *)
SubscribeTopic == subscribed' = (subscribed \/ link) /\ UNCHANGED <<wire, lost>>

-----------------------------------------------------------------------------
(* Callbacks. *)

ConnectionLost ==
    /\ lostCalls > 0
    /\ lostCalls' = lostCalls - 1
    /\ connected' = FALSE
    /\ UNCHANGED <<session, link, brokerVars, pending, subs, dropped, onConnectVars,
                   publishVars, main>>

OnConnectStore(s) ==
    /\ callback[s] = "start"
    /\ callback' = [callback EXCEPT ![s] = "stored"]
    /\ connected' = TRUE
    /\ UNCHANGED <<pahoVars, brokerVars, pending, subs, dropped, held, snapshot,
                   publishVars, main>>

(* Mutant: the pending publish is read and not cleared. *)
OnConnectTake_KeepPending(s) ==
    /\ callback[s] = "stored"
    /\ callback' = [callback EXCEPT ![s] = "taken"]
    /\ snapshot' = [snapshot EXCEPT ![s] = subs]
    /\ held' = [held EXCEPT ![s] = pending]
    /\ UNCHANGED <<pahoVars, brokerVars, connected, pending, subs, dropped, publishVars, main>>

(* Mutant: the subscriptions are taken like the pending publish. *)
OnConnectTake_TakeSubs(s) ==
    /\ callback[s] = "stored"
    /\ callback' = [callback EXCEPT ![s] = "taken"]
    /\ snapshot' = [snapshot EXCEPT ![s] = subs]
    /\ subs' = FALSE
    /\ held' = [held EXCEPT ![s] = pending]
    /\ pending' = None
    /\ UNCHANGED <<pahoVars, brokerVars, connected, dropped, publishVars, main>>

(* The critical section: copy the subscriptions, take the pending publish. *)
OnConnectTake(s) ==
    /\ callback[s] = "stored"
    /\ callback' = [callback EXCEPT ![s] = "taken"]
    /\ snapshot' = [snapshot EXCEPT ![s] = subs]
    /\ held' = [held EXCEPT ![s] = pending]
    /\ pending' = None
    /\ UNCHANGED <<pahoVars, brokerVars, connected, subs, dropped, publishVars, main>>

(* Mutant: the callback returns without flushing. *)
OnConnectSubscribe_Done(s) ==
    /\ callback[s] = "taken"
    /\ callback' = [callback EXCEPT ![s] = "done"]
    /\ IF snapshot[s] THEN SubscribeTopic ELSE UNCHANGED brokerVars
    /\ UNCHANGED <<pahoVars, connected, pending, subs, dropped, held, snapshot,
                   publishVars, main>>

OnConnectSubscribe(s) ==
    /\ callback[s] = "taken"
    /\ callback' = [callback EXCEPT ![s] = "subscribed"]
    /\ IF snapshot[s] THEN SubscribeTopic ELSE UNCHANGED brokerVars
    /\ UNCHANGED <<pahoVars, connected, pending, subs, dropped, held, snapshot,
                   publishVars, main>>

(* Mutant: a flush that finds the session closed puts the publish back. *)
OnConnectFlush_Requeue(s) ==
    /\ callback[s] = "subscribed"
    /\ callback' = [callback EXCEPT ![s] = "done"]
    /\ IF held[s] # None /\ link THEN Transmit(held[s]) ELSE UNCHANGED brokerVars
    /\ pending' = IF held[s] # None /\ ~link THEN held[s] ELSE pending
    /\ held' = [held EXCEPT ![s] = None]
    /\ UNCHANGED <<pahoVars, connected, subs, dropped, snapshot, publishVars, main>>

OnConnectFlush(s) ==
    /\ callback[s] = "subscribed"
    /\ callback' = [callback EXCEPT ![s] = "done"]
    /\ IF held[s] # None THEN Transmit(held[s]) ELSE UNCHANGED brokerVars
    /\ held' = [held EXCEPT ![s] = None]
    /\ UNCHANGED <<pahoVars, connected, pending, subs, dropped, snapshot, publishVars, main>>

-----------------------------------------------------------------------------
(* Publish. *)

MayPublish(p) == pc[p] = "idle" /\ msg[p].n < MaxMessages

(* The caller has a new payload. *)
Call(p) ==
    /\ pc' = [pc EXCEPT ![p] = "check"]
    /\ msg' = [msg EXCEPT ![p].n = @ + 1]
    /\ UNCHANGED <<pahoVars, brokerVars, connected, pending, subs, dropped, onConnectVars, main>>

(* The control loop publishes without asking. *)
ControlCalls == MayPublish(Control) /\ Call(Control)

(* runRestartScheduler asks IsConnected first and skips the restart if the *)
(* answer is no.                                                           *)
SchedulerCalls == MayPublish(Scheduler) /\ connected /\ Call(Scheduler)

(* Publish's own IsConnected. *)
Check(p) ==
    /\ pc[p] = "check"
    /\ pc' = [pc EXCEPT ![p] = IF connected THEN "send" ELSE "queue"]
    /\ UNCHANGED <<pahoVars, brokerVars, connected, pending, subs, dropped, onConnectVars,
                   msg, main>>

Send(p) ==
    /\ pc[p] = "send"
    /\ pc' = [pc EXCEPT ![p] = "idle"]
    /\ Transmit(msg[p])
    /\ UNCHANGED <<pahoVars, connected, pending, subs, dropped, onConnectVars, msg, main>>

(* The critical section: replace the pending publish. *)
Queue(p) ==
    /\ pc[p] = "queue"
    /\ pc' = [pc EXCEPT ![p] = "idle"]
    /\ pending' = msg[p]
    /\ dropped' = IF pending = None THEN dropped ELSE dropped \cup {pending}
    /\ UNCHANGED <<pahoVars, brokerVars, connected, subs, onConnectVars, msg, main>>

-----------------------------------------------------------------------------
(* Subscribe, called once by main for the status topic. *)

SubscribeStore ==
    /\ main = "subscribe"
    /\ main' = "check"
    /\ subs' = TRUE
    /\ UNCHANGED <<pahoVars, brokerVars, connected, pending, dropped, onConnectVars, publishVars>>

SubscribeCheck ==
    /\ main = "check"
    /\ main' = IF connected THEN "send" ELSE "done"
    /\ UNCHANGED <<pahoVars, brokerVars, connected, pending, subs, dropped, onConnectVars,
                   publishVars>>

SubscribeSend ==
    /\ main = "send"
    /\ main' = "done"
    /\ SubscribeTopic
    /\ UNCHANGED <<pahoVars, connected, pending, subs, dropped, onConnectVars, publishVars>>

-----------------------------------------------------------------------------
OnConnect(s) ==
    OnConnectStore(s) \/ OnConnectTake(s) \/ OnConnectSubscribe(s) \/ OnConnectFlush(s)

Publish(p) == Check(p) \/ Send(p) \/ Queue(p)

Subscribe == SubscribeStore \/ SubscribeCheck \/ SubscribeSend

Next ==
    \/ LinkUp \/ LinkDown \/ ConnectionLost
    \/ \E s \in Sessions : OnConnect(s)
    \/ ControlCalls \/ SchedulerCalls
    \/ \E p \in Publishers : Publish(p)
    \/ Subscribe

Spec == Init /\ [][Next]_vars

-----------------------------------------------------------------------------
(* Properties. *)

(* Type invariant; a publish that was taken from the queue belongs to a    *)
(* callback that has yet to flush it.                                      *)
TypeOK ==
    /\ session \in 0..MaxSessions /\ link \in BOOLEAN /\ lostCalls \in Nat
    /\ subscribed \in BOOLEAN /\ wire \in Seq(Message) /\ lost \subseteq Message
    /\ connected \in BOOLEAN /\ pending \in Message \cup {None}
    /\ subs \in BOOLEAN /\ dropped \subseteq Message
    /\ callback \in [Sessions -> {"none", "start", "stored", "taken", "subscribed", "done"}]
    /\ held \in [Sessions -> Message \cup {None}]
    /\ \A s \in Sessions : held[s] # None => callback[s] \in {"taken", "subscribed"}
    /\ snapshot \in [Sessions -> BOOLEAN]
    /\ pc \in [Publishers -> {"idle", "check", "send", "queue"}]
    /\ msg \in [Publishers -> [from : Publishers, n : 0..MaxMessages]]
    /\ main \in {"subscribe", "check", "send", "done"}

Issued == {m \in Message : m.n <= msg[m.from].n}

(* The number of places a message is in. *)
Places(m) ==
    LET one(b) == IF b THEN 1 ELSE 0
    IN  one(\E p \in Publishers : pc[p] # "idle" /\ msg[p] = m)
      + one(pending = m)
      + Cardinality({s \in Sessions : held[s] = m})
      + Cardinality({i \in DOMAIN wire : wire[i] = m})
      + one(m \in lost) + one(m \in dropped)

(* Nothing is duplicated and nothing vanishes: a message that was passed   *)
(* to Publish is in one place, on the wire, lost by paho or counted by     *)
(* OnDrop, however reconnects, callbacks and both publishers interleave.   *)
InOnePlace == \A m \in Issued : Places(m) = 1

(* A queued publish of the control loop is only ever replaced by a later   *)
(* one of its own.                                                         *)
QueueMovesForward ==
    [][ pending'.from = pending.from /\ pending' # None => pending'.n >= pending.n ]_vars

(* Once Subscribe and every callback have run, a client that believes it   *)
(* is connected over an open session receives the device's status:         *)
(* Subscribe stores before it checks, OnConnect sets the flag before it    *)
(* copies, so one of the two subscribes.                                   *)
Quiet ==
    /\ main = "done" /\ lostCalls = 0
    /\ \A s \in Sessions : callback[s] \in {"none", "done"}

StatusSubscribed == Quiet /\ connected /\ link => subscribed

(* client.go:27-28: a publish queued while disconnected is flushed on      *)
(* reconnect, so nothing is left queued when the client is connected and   *)
(* no call or callback is in progress.                                     *)
FlushedOnReconnect ==
    Quiet /\ connected /\ link /\ (\A p \in Publishers : pc[p] = "idle") => pending = None

=============================================================================
