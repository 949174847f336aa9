-------------------------- MODULE MqttClientProofs --------------------------
(***************************************************************************)
(* Theorems about MqttClient, for any number of sessions and messages and  *)
(* every interleaving of publishers, callbacks and Subscribe.              *)
(***************************************************************************)
EXTENDS MqttClient, FiniteSetTheorems, TLAPS

-----------------------------------------------------------------------------
(* Types. *)

(* TypeOK needs that a session which has not opened has no callback, and   *)
(* that a publisher's message is its own and, during a call, a real one.   *)
TypeInv ==
    /\ TypeOK
    /\ \A s \in Sessions : s > session => callback[s] = "none"
    /\ \A p \in Publishers :
          /\ msg[p].from = p
          /\ pc[p] # "idle" => msg[p] \in Message

(* None is not a message. *)
LEMMA NoneIsNoMessage == None \notin Message
  BY MqttAssumption DEF None, Message

(* Before anything has run. *)
LEMMA TypeInit == Init => TypeInv
  <1> SUFFICES ASSUME Init PROVE TypeInv
    OBVIOUS
  <1>1. /\ session \in 0..MaxSessions /\ lostCalls \in Nat
        /\ wire \in Seq(Message) /\ lost \subseteq Message /\ dropped \subseteq Message
        /\ pending \in Message \cup {None} /\ main \in {"subscribe", "check", "send", "done"}
    BY MqttAssumption DEF Init
  <1>2. link \in BOOLEAN /\ subscribed \in BOOLEAN /\ connected \in BOOLEAN /\ subs \in BOOLEAN
    BY Zenon DEF Init
  <1>3. /\ callback \in [Sessions -> {"none", "start", "stored", "taken", "subscribed", "done"}]
        /\ held \in [Sessions -> Message \cup {None}]
        /\ \A s \in Sessions : held[s] = None /\ callback[s] = "none"
        /\ snapshot \in [Sessions -> BOOLEAN]
    BY DEF Init
  <1>4. /\ pc \in [Publishers -> {"idle", "check", "send", "queue"}]
        /\ msg \in [Publishers -> [from : Publishers, n : 0..MaxMessages]]
        /\ \A p \in Publishers : msg[p].from = p /\ pc[p] = "idle"
    BY MqttAssumption DEF Init
  <1> QED
    BY <1>1, <1>2, <1>3, <1>4 DEF TypeInv, TypeOK

(* The connection comes and goes. *)
LEMMA TypeLink == TypeInv /\ (LinkUp \/ LinkDown \/ ConnectionLost) => TypeInv'
  <1> SUFFICES ASSUME TypeInv, LinkUp \/ LinkDown \/ ConnectionLost PROVE TypeInv'
    OBVIOUS
  <1>1. CASE LinkUp
    <2>1. session + 1 \in Sessions /\ callback[session + 1] = "none"
      BY <1>1, MqttAssumption DEF LinkUp, TypeInv, TypeOK, Sessions
    <2>2. link' \in BOOLEAN /\ subscribed' \in BOOLEAN
      BY <1>1, Zenon DEF LinkUp
    <2>3. session' \in 0..MaxSessions
      BY <1>1, MqttAssumption DEF LinkUp, TypeInv, TypeOK
    <2>4. callback' \in [Sessions -> {"none", "start", "stored", "taken", "subscribed", "done"}]
      BY <1>1, <2>1 DEF LinkUp, TypeInv, TypeOK
    <2>5. \A s \in Sessions : s # session + 1 => callback'[s] = callback[s]
      BY <1>1, <2>1 DEF LinkUp, TypeInv, TypeOK
    <2>6. \A s \in Sessions : s > session' => s # session + 1 /\ s > session
      BY <1>1, MqttAssumption DEF LinkUp, TypeInv, TypeOK, Sessions
    <2>7. \A s \in Sessions : s > session' => callback'[s] = "none"
      BY <2>5, <2>6 DEF TypeInv
    <2>8. \A s \in Sessions : held[s] # None => callback'[s] = callback[s]
      BY <2>1, <2>5 DEF TypeInv, TypeOK
    <2> QED
      BY <1>1, <2>2, <2>3, <2>4, <2>7, <2>8 DEF LinkUp, TypeInv, TypeOK, publishVars
  <1>2. CASE LinkDown
    <2>1. link' \in BOOLEAN /\ subscribed' \in BOOLEAN
      BY <1>2, Zenon DEF LinkDown
    <2>2. lostCalls' \in Nat
      BY <1>2 DEF LinkDown, TypeInv, TypeOK
    <2> QED
      BY <1>2, <2>1, <2>2 DEF LinkDown, TypeInv, TypeOK, onConnectVars, publishVars
  <1>3. CASE ConnectionLost
    <2>1. connected' \in BOOLEAN
      BY <1>3, Zenon DEF ConnectionLost
    <2>2. lostCalls' \in Nat
      BY <1>3 DEF ConnectionLost, TypeInv, TypeOK
    <2> QED
      BY <1>3, <2>1, <2>2
      DEF ConnectionLost, TypeInv, TypeOK, brokerVars, onConnectVars, publishVars
  <1> QED
    BY <1>1, <1>2, <1>3

(* What paho does with a message. *)
LEMMA TransmitType ==
  ASSUME TypeInv, NEW m \in Message, Transmit(m)
  PROVE  wire' \in Seq(Message) /\ lost' \subseteq Message /\ subscribed' \in BOOLEAN
  BY DEF Transmit, TypeInv, TypeOK

(* A connect callback. *)
LEMMA TypeOnConnect ==
  ASSUME TypeInv, NEW s \in Sessions, OnConnect(s)
  PROVE  TypeInv'
  <1>1. s <= session
    BY DEF OnConnect, OnConnectStore, OnConnectTake, OnConnectSubscribe, OnConnectFlush,
           TypeInv, TypeOK, Sessions
  <1>2. CASE OnConnectStore(s)
    BY <1>1, <1>2 DEF OnConnectStore, TypeInv, TypeOK, pahoVars, brokerVars, publishVars, Sessions
  <1>3. CASE OnConnectTake(s)
    BY <1>1, <1>3 DEF OnConnectTake, TypeInv, TypeOK, pahoVars, brokerVars, publishVars, Sessions
  <1>4. CASE OnConnectSubscribe(s)
    <2>1. subscribed' \in BOOLEAN /\ UNCHANGED <<wire, lost>>
      BY <1>4 DEF OnConnectSubscribe, SubscribeTopic, brokerVars, TypeInv, TypeOK
    <2> QED
      BY <1>1, <1>4, <2>1 DEF OnConnectSubscribe, TypeInv, TypeOK, pahoVars, publishVars, Sessions
  <1>5. CASE OnConnectFlush(s)
    <2>1. wire' \in Seq(Message) /\ lost' \subseteq Message /\ subscribed' \in BOOLEAN
      BY <1>5, TransmitType DEF OnConnectFlush, brokerVars, TypeInv, TypeOK
    <2> QED
      BY <1>1, <1>5, <2>1 DEF OnConnectFlush, TypeInv, TypeOK, pahoVars, publishVars, Sessions
  <1> QED
    BY <1>2, <1>3, <1>4, <1>5 DEF OnConnect

(* A publisher. *)
LEMMA TypePublish ==
  ASSUME TypeInv, NEW p \in Publishers, (MayPublish(p) /\ Call(p)) \/ Publish(p)
  PROVE  TypeInv'
  <1>1. CASE MayPublish(p) /\ Call(p)
    BY <1>1, MqttAssumption DEF MayPublish, Call, TypeInv, TypeOK, Message, pahoVars,
                                brokerVars, onConnectVars
  <1>2. CASE Check(p)
    BY <1>2 DEF Check, TypeInv, TypeOK, pahoVars, brokerVars, onConnectVars
  <1>3. CASE Send(p)
    <2>1. msg[p] \in Message
      BY <1>3 DEF Send, TypeInv
    <2>2. wire' \in Seq(Message) /\ lost' \subseteq Message /\ subscribed' \in BOOLEAN
      BY <1>3, <2>1, TransmitType DEF Send
    <2> QED
      BY <1>3, <2>2 DEF Send, TypeInv, TypeOK, pahoVars, onConnectVars
  <1>4. CASE Queue(p)
    <2>1. msg[p] \in Message
      BY <1>4 DEF Queue, TypeInv
    <2> QED
      BY <1>4, <2>1 DEF Queue, TypeInv, TypeOK, pahoVars, brokerVars, onConnectVars
  <1> QED
    BY <1>1, <1>2, <1>3, <1>4 DEF Publish

(* main's Subscribe. *)
LEMMA TypeSubscribe == TypeInv /\ Subscribe => TypeInv'
  BY DEF Subscribe, SubscribeStore, SubscribeCheck, SubscribeSend, SubscribeTopic, TypeInv,
         TypeOK, pahoVars, brokerVars, onConnectVars, publishVars

(* Every step. *)
LEMMA TypeNext == TypeInv /\ [Next]_vars => TypeInv'
  <1> SUFFICES ASSUME TypeInv, [Next]_vars PROVE TypeInv'
    OBVIOUS
  <1>1. CASE UNCHANGED vars
    BY <1>1 DEF vars, pahoVars, brokerVars, onConnectVars, publishVars, TypeInv, TypeOK
  <1>2. CASE ControlCalls \/ SchedulerCalls
    BY <1>2, TypePublish DEF ControlCalls, SchedulerCalls, Publishers
  <1> QED
    BY <1>1, <1>2, TypeLink, TypeOnConnect, TypePublish, TypeSubscribe DEF Next

(* Type correctness of the client and its publishers. *)
THEOREM MqttTypeCorrect == Spec => []TypeOK
  <1>1. TypeInv => TypeOK
    BY DEF TypeInv
  <1> QED
    BY <1>1, TypeInit, TypeNext, PTL DEF Spec


-----------------------------------------------------------------------------
(* The queue. *)

(* What is queued is no newer than the last message of its publisher.      *)
QueueInv == pending.n <= msg[pending.from].n

(* Initially nothing is queued. *)
LEMMA QueueInit == Init => QueueInv
  BY MqttAssumption DEF Init, QueueInv, None, Publishers

(* Every step keeps the queue behind its publisher, and moves it forward.  *)
LEMMA QueueNext ==
  ASSUME TypeInv, QueueInv, [Next]_vars
  PROVE  /\ QueueInv'
         /\ pending'.from = pending.from /\ pending' # None => pending'.n >= pending.n
  <1> DEFINE Goal == /\ QueueInv'
                     /\ (pending'.from = pending.from /\ pending' # None
                            => pending'.n >= pending.n)
  <1>0. /\ pending.from \in Publishers /\ pending.n \in 0..MaxMessages
        /\ \A p \in Publishers : msg[p].n \in 0..MaxMessages /\ msg[p].from = p
        /\ None.from \in Publishers /\ None.n = 0
    BY MqttAssumption DEF TypeInv, TypeOK, Message, None, Publishers
  <1>1. CASE UNCHANGED <<pending, msg>>
    BY <1>0, <1>1 DEF QueueInv
  <1>2. CASE \E p \in Publishers : MayPublish(p) /\ Call(p)
    BY <1>0, <1>2 DEF Call, MayPublish, QueueInv, TypeInv, TypeOK
  <1>3. CASE \E p \in Publishers : Queue(p)
    BY <1>0, <1>3 DEF Queue, QueueInv
  <1>4. CASE \E s \in Sessions : OnConnectTake(s)
    BY <1>0, <1>4 DEF OnConnectTake, QueueInv, publishVars
  <1>5. CASE UNCHANGED vars
    BY <1>1, <1>5 DEF vars, publishVars
  <1>6. CASE LinkUp \/ LinkDown \/ ConnectionLost \/ Subscribe
    BY <1>1, <1>6 DEF LinkUp, LinkDown, ConnectionLost, Subscribe, SubscribeStore,
                      SubscribeCheck, SubscribeSend, publishVars
  <1>7. CASE \E p \in Publishers : Check(p) \/ Send(p)
    BY <1>1, <1>7 DEF Check, Send
  <1>8. CASE \E s \in Sessions :
                OnConnectStore(s) \/ OnConnectSubscribe(s) \/ OnConnectFlush(s)
    BY <1>1, <1>8 DEF OnConnectStore, OnConnectSubscribe, OnConnectFlush, publishVars
  <1> QED
    BY <1>2, <1>3, <1>4, <1>5, <1>6, <1>7, <1>8
    DEF Next, OnConnect, Publish, ControlCalls, SchedulerCalls, Publishers

(* The queue never goes back to an older message of the same publisher,    *)
(* for any interleaving of publishers and connect callbacks.               *)
THEOREM QueueIsOrdered == Spec => QueueMovesForward
  <1>1. TypeInv /\ QueueInv /\ [Next]_vars
        => [pending'.from = pending.from /\ pending' # None => pending'.n >= pending.n]_vars
    BY QueueNext
  <1>2. TypeInv /\ QueueInv /\ [Next]_vars => QueueInv'
    BY QueueNext
  <1> QED
    BY <1>1, <1>2, QueueInit, TypeInit, TypeNext, PTL DEF Spec, QueueMovesForward

-----------------------------------------------------------------------------
(* The subscription. *)

(* A callback that has yet to subscribe. *)
WillSubscribe(s) ==
    callback[s] \in {"start", "stored"} \/ (callback[s] = "taken" /\ snapshot[s])

(* While an open session has no subscription and the client believes it is *)
(* connected, main or a callback is on its way to subscribe.               *)
SubInv ==
    /\ main # "subscribe" => subs
    /\ link /\ ~subscribed /\ connected
       => main \in {"subscribe", "check", "send"} \/ \E s \in Sessions : WillSubscribe(s)

(* Initially there is no session. *)
LEMMA SubInit == Init => SubInv
  BY DEF Init, SubInv

(* Every step keeps somebody on the way. *)
LEMMA SubNext == TypeInv /\ SubInv /\ [Next]_vars => SubInv'
  <1> SUFFICES ASSUME TypeInv, SubInv, [Next]_vars PROVE SubInv'
    OBVIOUS
  <1>0. /\ main \in {"subscribe", "check", "send", "done"}
        /\ callback \in [Sessions -> {"none", "start", "stored", "taken", "subscribed", "done"}]
        /\ snapshot \in [Sessions -> BOOLEAN]
    BY DEF TypeInv, TypeOK
  <1>1. CASE UNCHANGED <<link, subscribed, connected, subs, main, callback, snapshot>>
    BY <1>1 DEF SubInv, WillSubscribe
  <1>2. CASE LinkUp
    <2>1. session + 1 \in Sessions
      BY <1>2, MqttAssumption DEF LinkUp, TypeInv, TypeOK, Sessions
    <2> QED
      BY <1>0, <1>2, <2>1 DEF LinkUp, SubInv, WillSubscribe
  <1>3. CASE LinkDown \/ ConnectionLost
    BY <1>3 DEF LinkDown, ConnectionLost, SubInv, brokerVars
  <1>4. CASE \E s \in Sessions : OnConnectStore(s)
    BY <1>0, <1>4 DEF OnConnectStore, SubInv, WillSubscribe
  <1>5. ASSUME NEW s \in Sessions, OnConnectTake(s) PROVE SubInv'
    <2>1. CASE subs
      <3>1. WillSubscribe(s)'
        BY <1>0, <1>5, <2>1 DEF OnConnectTake, WillSubscribe
      <3> QED
        BY <1>5, <3>1 DEF OnConnectTake, SubInv
    <2>2. CASE ~subs
      BY <1>5, <2>2 DEF OnConnectTake, SubInv
    <2> QED
      BY <2>1, <2>2
  <1>6. ASSUME NEW s \in Sessions, OnConnectSubscribe(s) PROVE SubInv'
    <2>1. CASE snapshot[s]
      BY <1>6, <2>1 DEF OnConnectSubscribe, SubscribeTopic, SubInv, pahoVars
    <2>2. CASE ~snapshot[s]
      <3>1. \A t \in Sessions : WillSubscribe(t) => WillSubscribe(t)'
        BY <1>0, <1>6, <2>2 DEF OnConnectSubscribe, WillSubscribe
      <3> QED
        BY <1>6, <2>2, <3>1 DEF OnConnectSubscribe, SubInv, pahoVars, brokerVars
    <2> QED
      BY <2>1, <2>2
  <1>7. ASSUME NEW s \in Sessions, OnConnectFlush(s) PROVE SubInv'
    <2>1. subscribed' = subscribed
      BY <1>7 DEF OnConnectFlush, Transmit, brokerVars
    <2>2. \A t \in Sessions : WillSubscribe(t) => WillSubscribe(t)'
      BY <1>0, <1>7 DEF OnConnectFlush, WillSubscribe
    <2> QED
      BY <1>7, <2>1, <2>2 DEF OnConnectFlush, SubInv, pahoVars
  <1>8. CASE \E p \in Publishers : Call(p) \/ Check(p) \/ Send(p) \/ Queue(p)
    BY <1>1, <1>8
    DEF Call, Check, Send, Queue, Transmit, pahoVars, brokerVars, onConnectVars
  <1>9. CASE Subscribe
    <2>1. \A s \in Sessions : WillSubscribe(s)' <=> WillSubscribe(s)
      BY <1>9 DEF Subscribe, SubscribeStore, SubscribeCheck, SubscribeSend, WillSubscribe,
                  onConnectVars
    <2>2. link' = link /\ connected' = connected
      BY <1>9 DEF Subscribe, SubscribeStore, SubscribeCheck, SubscribeSend, pahoVars
    <2>3. CASE SubscribeStore
      BY <2>2, <2>3 DEF SubscribeStore, SubInv
    <2>4. CASE SubscribeCheck
      BY <2>1, <2>2, <2>4 DEF SubscribeCheck, SubInv, brokerVars
    <2>5. CASE SubscribeSend
      BY <2>2, <2>5 DEF SubscribeSend, SubscribeTopic, SubInv
    <2> QED
      BY <1>9, <2>3, <2>4, <2>5 DEF Subscribe
  <1>10. CASE UNCHANGED vars
    BY <1>1, <1>10 DEF vars, pahoVars, brokerVars, onConnectVars
  <1> QED
    BY <1>2, <1>3, <1>4, <1>5, <1>6, <1>7, <1>8, <1>9, <1>10
    DEF Next, OnConnect, Publish, ControlCalls, SchedulerCalls, Publishers

(* A settled client that believes it is connected over an open session is  *)
(* subscribed to the device's status, however many reconnects there were   *)
(* and in whatever order their callbacks ran.                              *)
THEOREM SettledIsSubscribed == Spec => []StatusSubscribed
  <1>1. TypeInv /\ SubInv => StatusSubscribed
    BY DEF TypeInv, TypeOK, SubInv, WillSubscribe, StatusSubscribed, Quiet
  <1> QED
    BY <1>1, SubInit, SubNext, TypeInit, TypeNext, PTL DEF Spec


-----------------------------------------------------------------------------
(* Conservation of messages. *)

(* The places a message can be in. *)
InFlight(m) == \E p \in Publishers : pc[p] # "idle" /\ msg[p] = m
IsHeld(m)   == \E s \in Sessions : held[s] = m
OnWire(m)   == \E i \in DOMAIN wire : wire[i] = m

(* An issued message is in some place, and in no second one. *)
Somewhere(m) ==
    InFlight(m) \/ pending = m \/ IsHeld(m) \/ OnWire(m) \/ m \in lost \/ m \in dropped

Exclusive(m) ==
    /\ InFlight(m) => ~(pending = m \/ IsHeld(m) \/ OnWire(m) \/ m \in lost \/ m \in dropped)
    /\ pending = m => ~(IsHeld(m) \/ OnWire(m) \/ m \in lost \/ m \in dropped)
    /\ IsHeld(m) => ~(OnWire(m) \/ m \in lost \/ m \in dropped)
    /\ OnWire(m) => ~(m \in lost \/ m \in dropped)
    /\ m \in lost => m \notin dropped

(* No two callbacks hold it, and it is on the wire once. *)
Once(m) ==
    /\ \A s, t \in Sessions : held[s] = m /\ held[t] = m => s = t
    /\ \A i, j \in DOMAIN wire : wire[i] = m /\ wire[j] = m => i = j

PlaceInv ==
    \A m \in Message : /\ m.n <= msg[m.from].n <=> Somewhere(m)
                       /\ Exclusive(m) /\ Once(m)

(* Initially nothing has been issued. *)
LEMMA PlaceInit == Init => PlaceInv
  <1> SUFFICES ASSUME Init, NEW m \in Message
               PROVE  ~(m.n <= msg[m.from].n) /\ ~Somewhere(m) /\ Exclusive(m) /\ Once(m)
    BY DEF PlaceInv
  <1>1. ~(m.n <= msg[m.from].n)
    BY MqttAssumption DEF Init, Message
  <1>2. m # None
    BY NoneIsNoMessage
  <1>3. ~InFlight(m) /\ pending # m /\ ~IsHeld(m) /\ ~OnWire(m) /\ m \notin lost /\ m \notin dropped
    BY <1>2 DEF Init, InFlight, IsHeld, OnWire
  <1>4. Once(m)
    BY <1>3 DEF Once, IsHeld, OnWire
  <1> QED
    BY <1>1, <1>3, <1>4 DEF Somewhere, Exclusive

(* What paho does with a message that is nowhere else: it is on the wire   *)
(* once, or lost; other messages stay where they are.                      *)
LEMMA TransmitPlace ==
  ASSUME TypeInv, NEW m \in Message, Transmit(m), ~OnWire(m)
  PROVE  /\ \A x : x # m => (OnWire(x)' <=> OnWire(x)) /\ (x \in lost' <=> x \in lost)
         /\ \/ OnWire(m)' /\ lost' = lost
            \/ ~OnWire(m)' /\ m \in lost'
         /\ \A x : (\A i, j \in DOMAIN wire : wire[i] = x /\ wire[j] = x => i = j)
                   => (\A i, j \in DOMAIN wire : wire[i] = x /\ wire[j] = x => i = j)'
  <1>1. CASE ~link
    BY <1>1 DEF Transmit, OnWire
  <1>2. CASE link
    <2>1. /\ wire \in Seq(Message) /\ wire' = Append(wire, m) /\ lost' = lost
      BY <1>2 DEF Transmit, TypeInv, TypeOK
    <2>2. /\ Len(wire) \in Nat /\ DOMAIN wire = 1..Len(wire)
          /\ DOMAIN wire' = 1..(Len(wire) + 1)
          /\ wire'[Len(wire) + 1] = m
          /\ \A i \in 1..Len(wire) : wire'[i] = wire[i]
      BY <2>1
    <2>3. OnWire(m)'
      BY <2>2 DEF OnWire
    <2>4. \A x : x # m => (OnWire(x)' <=> OnWire(x))
      BY <2>2 DEF OnWire
    <2>5. ASSUME NEW x, \A i, j \in DOMAIN wire : wire[i] = x /\ wire[j] = x => i = j,
                 NEW i \in DOMAIN wire', NEW j \in DOMAIN wire', wire'[i] = x, wire'[j] = x
          PROVE  i = j
      BY <2>2, <2>5 DEF OnWire
    <2> QED
      BY <2>1, <2>3, <2>4, <2>5
  <1> QED
    BY <1>1, <1>2

(* Nothing moves. *)
LEMMA PlaceStays ==
  PlaceInv /\ UNCHANGED <<pc, msg, pending, held, wire, lost, dropped>> => PlaceInv'
  BY DEF PlaceInv, Somewhere, Exclusive, Once, InFlight, IsHeld, OnWire

(* A callback takes what is queued. *)
LEMMA PlaceTake ==
  ASSUME TypeInv, PlaceInv, NEW s \in Sessions, OnConnectTake(s)
  PROVE  PlaceInv'
  <1> SUFFICES ASSUME NEW m \in Message
               PROVE  (/\ m.n <= msg[m.from].n <=> Somewhere(m)
                       /\ Exclusive(m) /\ Once(m))'
    BY DEF PlaceInv
  <1>1. m # None
    BY NoneIsNoMessage
  <1>2. /\ UNCHANGED <<pc, msg, wire, lost, dropped>> /\ pending' = None
        /\ held' = [held EXCEPT ![s] = pending] /\ held \in [Sessions -> Message \cup {None}]
        /\ held[s] = None
    BY DEF OnConnectTake, TypeInv, TypeOK, brokerVars, publishVars
  <1>3. /\ IsHeld(m)' <=> IsHeld(m) \/ pending = m
        /\ pending' # m
        /\ InFlight(m)' <=> InFlight(m)
        /\ OnWire(m)' <=> OnWire(m)
    BY <1>1, <1>2 DEF IsHeld, InFlight, OnWire
  <1>4. Once(m)'
    BY <1>1, <1>2 DEF PlaceInv, Once, Exclusive, IsHeld
  <1>5. (m.n <= msg[m.from].n <=> Somewhere(m))'
    BY <1>2, <1>3 DEF PlaceInv, Somewhere
  <1>6. Exclusive(m)'
    BY <1>2, <1>3 DEF PlaceInv, Exclusive
  <1> QED
    BY <1>4, <1>5, <1>6

(* A callback flushes what it holds. *)
LEMMA PlaceFlush ==
  ASSUME TypeInv, PlaceInv, NEW s \in Sessions, OnConnectFlush(s)
  PROVE  PlaceInv'
  <1>1. CASE held[s] = None
    BY <1>1, PlaceStays
    DEF OnConnectFlush, brokerVars, publishVars, TypeInv, TypeOK
  <1>2. CASE held[s] # None
    <2> DEFINE h == held[s]
    <2>1. /\ h \in Message /\ Transmit(h) /\ UNCHANGED <<pc, msg, pending, dropped>>
          /\ held' = [held EXCEPT ![s] = None] /\ held \in [Sessions -> Message \cup {None}]
      BY <1>2 DEF OnConnectFlush, TypeInv, TypeOK, publishVars
    <2>2. IsHeld(h) /\ Exclusive(h) /\ Somewhere(h) /\ h.n <= msg[h.from].n /\ Once(h)
      BY <2>1 DEF PlaceInv, IsHeld, Somewhere
    <2>3. ~InFlight(h) /\ pending # h /\ ~OnWire(h) /\ h \notin lost /\ h \notin dropped
      BY <2>2 DEF Exclusive
    <2>4. ASSUME NEW m \in Message
          PROVE  (/\ m.n <= msg[m.from].n <=> Somewhere(m)
                  /\ Exclusive(m) /\ Once(m))'
      <3>1. m # None
        BY NoneIsNoMessage
      <3>2. /\ IsHeld(m)' <=> IsHeld(m) /\ m # h
            /\ InFlight(m)' <=> InFlight(m)
        BY <2>1, <2>2, <3>1 DEF IsHeld, InFlight, Once
      <3>3. Once(m)'
        <4>1. \A i, j \in DOMAIN wire : wire[i] = m /\ wire[j] = m => i = j
          BY DEF PlaceInv, Once
        <4>2. (\A i, j \in DOMAIN wire : wire[i] = m /\ wire[j] = m => i = j)'
          BY <2>1, <2>3, <4>1, TransmitPlace
        <4>3. (\A a, b \in Sessions : held[a] = m /\ held[b] = m => a = b)'
          BY <2>1, <3>1 DEF PlaceInv, Once
        <4> QED
          BY <4>2, <4>3 DEF Once
      <3>4. /\ m # h => (OnWire(m)' <=> OnWire(m)) /\ (m \in lost' <=> m \in lost)
            /\ m = h => \/ OnWire(m)' /\ m \notin lost'
                        \/ ~OnWire(m)' /\ m \in lost'
        BY <2>1, <2>3, TransmitPlace
      <3>5. (m.n <= msg[m.from].n <=> Somewhere(m))'
        BY <2>1, <2>2, <3>2, <3>4 DEF PlaceInv, Somewhere
      <3>6. Exclusive(m)'
        BY <2>1, <2>3, <3>2, <3>4 DEF PlaceInv, Exclusive
      <3> QED
        BY <3>3, <3>5, <3>6
    <2> QED
      BY <2>4 DEF PlaceInv
  <1> QED
    BY <1>1, <1>2

(* A new message. *)
LEMMA PlaceCall ==
  ASSUME TypeInv, PlaceInv, NEW p \in Publishers, MayPublish(p), Call(p)
  PROVE  PlaceInv'
  <1> SUFFICES ASSUME NEW m \in Message
               PROVE  (/\ m.n <= msg[m.from].n <=> Somewhere(m)
                       /\ Exclusive(m) /\ Once(m))'
    BY DEF PlaceInv
  <1> DEFINE new == [from |-> p, n |-> msg[p].n + 1]
  <1>1. /\ pc[p] = "idle" /\ pc' = [pc EXCEPT ![p] = "check"]
        /\ msg' = [msg EXCEPT ![p].n = @ + 1]
        /\ UNCHANGED <<wire, lost, dropped, pending, held>>
        /\ pc \in [Publishers -> {"idle", "check", "send", "queue"}]
        /\ msg \in [Publishers -> [from : Publishers, n : 0..MaxMessages]]
        /\ \A q \in Publishers : msg[q].from = q
    BY DEF MayPublish, Call, brokerVars, onConnectVars, TypeInv, TypeOK
  <1>2. msg'[p] = new /\ \A q \in Publishers : q # p => msg'[q] = msg[q]
    BY <1>1
  <1>3. InFlight(m)' <=> InFlight(m) \/ m = new
    BY <1>1, <1>2 DEF InFlight
  <1>4. m.n <= msg'[m.from].n <=> m.n <= msg[m.from].n \/ m = new
    <2>1. CASE m.from = p
      BY <1>1, <1>2, <2>1, MqttAssumption DEF Message
    <2>2. CASE m.from # p
      BY <1>1, <1>2, <2>2 DEF Message
    <2> QED
      BY <2>1, <2>2
  <1>5. m = new => ~Somewhere(m)
    BY <1>1 DEF PlaceInv
  <1>6. /\ IsHeld(m)' <=> IsHeld(m)
        /\ OnWire(m)' <=> OnWire(m)
        /\ Once(m)'
    BY <1>1 DEF IsHeld, OnWire, Once, PlaceInv
  <1>7. (m.n <= msg[m.from].n <=> Somewhere(m))'
    BY <1>1, <1>3, <1>4, <1>6 DEF PlaceInv, Somewhere
  <1>8. Exclusive(m)'
    BY <1>1, <1>3, <1>5, <1>6 DEF PlaceInv, Exclusive, Somewhere
  <1> QED
    BY <1>6, <1>7, <1>8

(* Publish leaves a message on the wire, lost or queued. *)
LEMMA PlacePublish ==
  ASSUME TypeInv, PlaceInv, NEW p \in Publishers, Publish(p)
  PROVE  PlaceInv'
  <1> DEFINE c == msg[p]
  <1>0. /\ pc[p] # "idle" /\ c \in Message /\ c.from = p
        /\ pc \in [Publishers -> {"idle", "check", "send", "queue"}]
        /\ \A q \in Publishers : msg[q].from = q
    BY DEF Publish, Check, Send, Queue, TypeInv, TypeOK
  <1>1. /\ InFlight(c) /\ pending # c /\ ~IsHeld(c) /\ ~OnWire(c) /\ c \notin lost
        /\ c \notin dropped
    BY <1>0 DEF InFlight, PlaceInv, Exclusive
  <1>2. CASE Check(p)
    <2>1. \A m \in Message : InFlight(m)' <=> InFlight(m)
      BY <1>0, <1>2 DEF Check, InFlight
    <2>2. UNCHANGED <<msg, pending, held, wire, lost, dropped>>
      BY <1>2 DEF Check, brokerVars, onConnectVars
    <2> QED
      BY <2>1, <2>2 DEF PlaceInv, Somewhere, Exclusive, Once, IsHeld, OnWire
  <1>3. CASE Send(p)
    <2>1. /\ pc' = [pc EXCEPT ![p] = "idle"] /\ Transmit(c)
          /\ UNCHANGED <<msg, pending, held, dropped>>
      BY <1>3 DEF Send, onConnectVars
    <2>2. ASSUME NEW m \in Message
          PROVE  (/\ m.n <= msg[m.from].n <=> Somewhere(m)
                  /\ Exclusive(m) /\ Once(m))'
      <3>1. InFlight(m)' <=> InFlight(m) /\ m # c
        BY <1>0, <2>1 DEF InFlight
      <3>2. IsHeld(m)' <=> IsHeld(m)
        BY <2>1 DEF IsHeld
      <3>3. /\ m # c => (OnWire(m)' <=> OnWire(m)) /\ (m \in lost' <=> m \in lost)
            /\ m = c => \/ OnWire(m)' /\ m \notin lost'
                        \/ ~OnWire(m)' /\ m \in lost'
        BY <1>0, <1>1, <2>1, TransmitPlace
      <3>4. Once(m)'
        <4>1. \A i, j \in DOMAIN wire : wire[i] = m /\ wire[j] = m => i = j
          BY DEF PlaceInv, Once
        <4>2. (\A i, j \in DOMAIN wire : wire[i] = m /\ wire[j] = m => i = j)'
          BY <1>0, <1>1, <2>1, <4>1, TransmitPlace
        <4> QED
          BY <2>1, <4>2 DEF PlaceInv, Once
      <3>5. (m.n <= msg[m.from].n <=> Somewhere(m))'
        BY <1>1, <2>1, <3>1, <3>2, <3>3 DEF PlaceInv, Somewhere
      <3>6. Exclusive(m)'
        BY <1>1, <2>1, <3>1, <3>2, <3>3 DEF PlaceInv, Exclusive
      <3> QED
        BY <3>4, <3>5, <3>6
    <2> QED
      BY <2>2 DEF PlaceInv
  <1>4. CASE Queue(p)
    <2>1. /\ pc' = [pc EXCEPT ![p] = "idle"] /\ pending' = c
          /\ dropped' = (IF pending = None THEN dropped ELSE dropped \cup {pending})
          /\ UNCHANGED <<msg, held, wire, lost>>
      BY <1>4 DEF Queue, brokerVars, onConnectVars
    <2>2. ASSUME NEW m \in Message
          PROVE  (/\ m.n <= msg[m.from].n <=> Somewhere(m)
                  /\ Exclusive(m) /\ Once(m))'
      <3>1. m # None
        BY NoneIsNoMessage
      <3>2. InFlight(m)' <=> InFlight(m) /\ m # c
        BY <1>0, <2>1 DEF InFlight
      <3>3. IsHeld(m)' = IsHeld(m) /\ OnWire(m)' = OnWire(m) /\ Once(m)'
        BY <2>1 DEF IsHeld, OnWire, Once, PlaceInv
      <3>4. m \in dropped' <=> m \in dropped \/ pending = m
        BY <2>1, <3>1
      <3>5. (m.n <= msg[m.from].n <=> Somewhere(m))'
        BY <1>1, <2>1, <3>2, <3>3, <3>4 DEF PlaceInv, Somewhere
      <3>6. Exclusive(m)'
        BY <1>1, <2>1, <3>2, <3>3, <3>4 DEF PlaceInv, Exclusive
      <3> QED
        BY <3>3, <3>5, <3>6
    <2> QED
      BY <2>2 DEF PlaceInv
  <1> QED
    BY <1>2, <1>3, <1>4 DEF Publish

(* Every step. *)
LEMMA PlaceNext == TypeInv /\ PlaceInv /\ [Next]_vars => PlaceInv'
  <1> SUFFICES ASSUME TypeInv, PlaceInv, [Next]_vars PROVE PlaceInv'
    OBVIOUS
  <1>1. CASE UNCHANGED vars
    BY <1>1, PlaceStays DEF vars, brokerVars, onConnectVars, publishVars
  <1>2. CASE LinkUp \/ LinkDown \/ ConnectionLost
    BY <1>2, PlaceStays
    DEF LinkUp, LinkDown, ConnectionLost, brokerVars, onConnectVars, publishVars
  <1>3. CASE \E s \in Sessions : OnConnectStore(s) \/ OnConnectSubscribe(s)
    BY <1>3, PlaceStays
    DEF OnConnectStore, OnConnectSubscribe, SubscribeTopic, brokerVars, publishVars
  <1>4. CASE Subscribe
    BY <1>4, PlaceStays
    DEF Subscribe, SubscribeStore, SubscribeCheck, SubscribeSend, SubscribeTopic, brokerVars,
        onConnectVars, publishVars
  <1> QED
    BY <1>1, <1>2, <1>3, <1>4, PlaceTake, PlaceFlush, PlaceCall, PlacePublish
    DEF Next, OnConnect, ControlCalls, SchedulerCalls, Publishers

(* A set all of whose members are equal has at most one. *)
LEMMA AtMostOne ==
  ASSUME NEW S, \A x, y \in S : x = y
  PROVE  Cardinality(S) = IF S = {} THEN 0 ELSE 1
  <1>1. CASE S = {}
    BY <1>1, FS_EmptySet
  <1>2. CASE S # {}
    <2>1. PICK x \in S : TRUE
      BY <1>2
    <2>2. S = {x}
      BY <2>1
    <2> QED
      BY <1>2, <2>2, FS_Singleton
  <1> QED
    BY <1>1, <1>2

(* Counting the places. *)
LEMMA PlacesCount == ASSUME PlaceInv, NEW m \in Issued PROVE Places(m) = 1
  <1>1. m \in Message /\ Somewhere(m) /\ Exclusive(m) /\ Once(m)
    BY DEF PlaceInv, Issued
  <1>2. Cardinality({s \in Sessions : held[s] = m}) = IF IsHeld(m) THEN 1 ELSE 0
    <2> DEFINE S == {s \in Sessions : held[s] = m}
    <2>1. \A x, y \in S : x = y
      BY <1>1 DEF Once
    <2>2. S = {} <=> ~IsHeld(m)
      BY DEF IsHeld
    <2> HIDE DEF S
    <2>3. Cardinality(S) = IF IsHeld(m) THEN 1 ELSE 0
      BY <2>1, <2>2, AtMostOne
    <2> QED
      BY <2>3 DEF S
  <1>3. Cardinality({i \in DOMAIN wire : wire[i] = m}) = IF OnWire(m) THEN 1 ELSE 0
    <2> DEFINE S == {i \in DOMAIN wire : wire[i] = m}
    <2>1. \A x, y \in S : x = y
      BY <1>1 DEF Once
    <2>2. S = {} <=> ~OnWire(m)
      BY DEF OnWire
    <2> HIDE DEF S
    <2>3. Cardinality(S) = IF OnWire(m) THEN 1 ELSE 0
      BY <2>1, <2>2, AtMostOne
    <2> QED
      BY <2>3 DEF S
  <1> DEFINE one(b) == IF b THEN 1 ELSE 0
  <1>4. Places(m) = one(InFlight(m)) + one(pending = m) + one(IsHeld(m)) + one(OnWire(m))
                    + one(m \in lost) + one(m \in dropped)
    BY <1>2, <1>3 DEF Places, InFlight
  <1> QED
    BY <1>1, <1>4 DEF Somewhere, Exclusive

(* No message is duplicated and none vanishes, for any number of messages, *)
(* sessions and interleavings of the publishers and the callbacks.         *)
THEOREM MessagesConserved == Spec => []InOnePlace
  <1>1. PlaceInv => InOnePlace
    BY PlacesCount DEF InOnePlace
  <1> QED
    BY <1>1, PlaceInit, PlaceNext, TypeInit, TypeNext, PTL DEF Spec

=============================================================================
