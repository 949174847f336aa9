--------------------------- MODULE StatusSource ---------------------------
(***************************************************************************)
(* MQTTStatusSource (internal/controller/statussource.go) and its reader,  *)
(* Controller.readDeviceStatus: HandleMessage runs in paho's goroutine,    *)
(* LatestStatus and Poll in the control loop's.  They share the cached     *)
(* status, under a mutex, and a channel of one message.                    *)
(*                                                                         *)
(* A status is the number of its arrival, 0 is none.  An action is what a  *)
(* goroutine does between two points where the other can run; actions are  *)
(* short against a tick, so time passes only while no handler runs and the *)
(* loop is idle or waits for a poll to be answered.                        *)
(*                                                                         *)
(* External: paho hands the messages of a topic to the handler one at a    *)
(* time, in order; the device sends when it likes, asked or not.           *)
(***************************************************************************)
EXTENDS Integers

CONSTANTS
    StatusStaleAfter, StatusHardFailAfter, StatusPollTimeout,
    ControlInterval,        \* durations, in ticks
    MaxMessages             \* bound: status messages

ASSUME StatusAssumption ==
    /\ StatusStaleAfter \in Nat /\ StatusHardFailAfter \in Nat
    /\ StatusPollTimeout \in Nat /\ ControlInterval \in Nat \ {0}
    /\ MaxMessages \in Nat

Messages == 1..MaxMessages

VARIABLES
    timer, due,         \* Run's ticker
    arrived,            \* the last message paho has handed over
    handler,            \* HandleMessage of that message: where it is
    latest, latestAge,  \* the cached status and the age of receivedAt
    channel,            \* pollResponseCh
    step,               \* readDeviceStatus: where it is
    seen, silent,       \*   the status LatestStatus returned; was it too old?
    waited,             \*   how long Poll has waited
    used,               \* the last status a Step has worked with
    outcome             \* how the last readDeviceStatus ended

tickerVars  == <<timer, due>>
handlerVars == <<arrived, handler>>
cacheVars   == <<latest, latestAge>>
readerVars  == <<seen, silent, waited>>
vars == <<tickerVars, handlerVars, cacheVars, channel, step, readerVars, used, outcome>>

Never == -1

AgeCap ==
    (IF StatusStaleAfter > StatusHardFailAfter THEN StatusStaleAfter
                                               ELSE StatusHardFailAfter) + 1

Init ==
    /\ timer = ControlInterval /\ due = TRUE
    /\ arrived = 0 /\ handler = "idle"
    /\ latest = 0 /\ latestAge = Never /\ channel = 0
    /\ step = "idle" /\ seen = 0 /\ silent = FALSE /\ waited = 0
    /\ used = 0 /\ outcome = "none"

-----------------------------------------------------------------------------
(* Time: nothing that can go on at once is left waiting. *)

Tick ==
    /\ handler = "idle"
    /\ \/ step = "idle" /\ ~due
       \/ step = "wait" /\ channel = 0 /\ waited < StatusPollTimeout
    /\ timer' = IF timer = 1 THEN ControlInterval ELSE timer - 1
    /\ due' = (due \/ timer = 1)
    /\ latestAge' = IF latestAge = Never \/ latestAge >= AgeCap THEN latestAge
                    ELSE latestAge + 1
    /\ waited' = IF step = "wait" THEN waited + 1 ELSE waited
    /\ UNCHANGED <<handlerVars, latest, channel, step, seen, silent, used, outcome>>

-----------------------------------------------------------------------------
(* HandleMessage. *)

Arrive ==
    /\ handler = "idle" /\ arrived < MaxMessages
    /\ arrived' = arrived + 1
    /\ handler' = "store"
    /\ UNCHANGED <<tickerVars, cacheVars, channel, step, readerVars, used, outcome>>

(* Mutant: a status that may answer a poll is not cached. *)
Store_UnlessPolling ==
    /\ handler = "store"
    /\ handler' = "send"
    /\ latest' = IF step = "idle" THEN arrived ELSE latest
    /\ latestAge' = IF step = "idle" THEN 0 ELSE latestAge
    /\ UNCHANGED <<tickerVars, arrived, channel, step, readerVars, used, outcome>>

(* The critical section: cache the status. *)
Store ==
    /\ handler = "store"
    /\ handler' = "send"
    /\ latest' = arrived /\ latestAge' = 0
    /\ UNCHANGED <<tickerVars, arrived, channel, step, readerVars, used, outcome>>

(* Hand the status to a poll; if the channel is full it is not needed.     *)
Forward ==
    /\ handler = "send"
    /\ handler' = "idle"
    /\ channel' = IF channel = 0 THEN arrived ELSE channel
    /\ UNCHANGED <<tickerVars, arrived, cacheVars, step, readerVars, used, outcome>>

-----------------------------------------------------------------------------
(* readDeviceStatus and Poll. *)

Fresh == latestAge # Never /\ latestAge <= StatusStaleAfter

Begin == step = "idle" /\ due /\ due' = FALSE

(* LatestStatus is fresh enough. *)
UseCached ==
    /\ Begin /\ Fresh
    /\ used' = latest /\ outcome' = "cached"
    /\ UNCHANGED <<timer, handlerVars, cacheVars, channel, step, readerVars>>

(* It is not; its age is compared again only after the poll. *)
CallPoll ==
    /\ Begin /\ ~Fresh
    /\ step' = "drain"
    /\ seen' = latest
    /\ silent' = (latestAge # Never /\ latestAge > StatusHardFailAfter)
    /\ UNCHANGED <<timer, handlerVars, cacheVars, channel, waited, used, outcome>>

(* Mutant: Poll does not empty the channel. *)
Drain_Keep ==
    /\ step = "drain"
    /\ step' = "publish"
    /\ UNCHANGED <<tickerVars, handlerVars, cacheVars, channel, readerVars, used, outcome>>

Drain ==
    /\ step = "drain"
    /\ step' = "publish"
    /\ channel' = 0
    /\ UNCHANGED <<tickerVars, handlerVars, cacheVars, readerVars, used, outcome>>

PollPublished ==
    /\ step = "publish"
    /\ step' = "wait"
    /\ waited' = 0
    /\ UNCHANGED <<tickerVars, handlerVars, cacheVars, channel, seen, silent, used, outcome>>

(* Poll has returned an error: fall back or freeze. *)
GiveUp ==
    /\ step' = "idle"
    /\ outcome' = IF silent THEN "hard_fail" ELSE "freeze"
    /\ UNCHANGED <<tickerVars, handlerVars, cacheVars, channel, readerVars, used>>

PollFailed == step = "publish" /\ GiveUp

Answer ==
    /\ step = "wait" /\ channel # 0
    /\ step' = "idle"
    /\ channel' = 0
    /\ used' = channel /\ outcome' = "polled"
    /\ UNCHANGED <<tickerVars, handlerVars, cacheVars, readerVars>>

(* Both ready, select takes either. *)
TimeOut == step = "wait" /\ waited >= StatusPollTimeout /\ GiveUp

-----------------------------------------------------------------------------
HandleMessage == Store \/ Forward

readDeviceStatus ==
    \/ UseCached \/ CallPoll
    \/ Drain \/ PollPublished \/ PollFailed \/ Answer \/ TimeOut

Next == Tick \/ Arrive \/ HandleMessage \/ readDeviceStatus

Spec == Init /\ [][Next]_vars

(* Time passes and both goroutines run; nothing is assumed of the device.  *)
FairSpec ==
    Spec /\ WF_vars(Tick) /\ WF_vars(HandleMessage) /\ WF_vars(readDeviceStatus)

-----------------------------------------------------------------------------
(* Properties. *)

(* Type invariant; a status is cached before it is forwarded, and nothing  *)
(* is read that was not cached.                                            *)
TypeOK ==
    /\ timer \in 1..ControlInterval /\ due \in BOOLEAN
    /\ arrived \in 0..MaxMessages /\ handler \in {"idle", "store", "send"}
    /\ latest \in 0..arrived /\ latestAge \in {Never} \cup Nat
    /\ channel \in 0..latest /\ used \in 0..latest
    /\ step \in {"idle", "drain", "publish", "wait"}
    /\ seen \in 0..latest /\ silent \in BOOLEAN /\ waited \in Nat
    /\ outcome \in {"none", "cached", "polled", "freeze", "hard_fail"}

(* A poll is answered by a status newer than the one that was found stale: *)
(* neither a reply that came after an earlier poll's timeout nor the stale *)
(* status itself, forwarded late, is taken for the answer.                 *)
AnswerIsNew == step = "wait" /\ channel # 0 => channel > seen

(* The loop never goes back to an older status, although it reads from the *)
(* cache and from the channel in turn, and the channel keeps the first of  *)
(* several answers.                                                        *)
ReadsMoveForward == [][used' >= used]_vars

(* Every status reaches the loop, or a newer one does, although Poll       *)
(* throws away what it finds in the channel: what it throws away is in the *)
(* cache, and still fresh when the next Step looks.  Needs                 *)
(* StatusStaleAfter >= StatusPollTimeout + ControlInterval.                *)
EveryStatusIsSeen == \A n \in Messages : arrived = n ~> used >= n

=============================================================================
