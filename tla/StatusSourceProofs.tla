------------------------- MODULE StatusSourceProofs -------------------------
(***************************************************************************)
(* A poll is answered by a new status and the loop never reads backwards,  *)
(* for every number of messages and every setting of the durations.        *)
(***************************************************************************)
EXTENDS StatusSource, TLAPS

-----------------------------------------------------------------------------
(* The handler's message is newer than the cache until it is stored, and   *)
(* is the cached one, just received, until it is forwarded: time does not  *)
(* pass while the handler runs.                                            *)
HandlerInv ==
    /\ handler = "store" => latest < arrived
    /\ handler = "send"  => latest = arrived /\ latestAge = 0

(* While a status is being read, what LatestStatus returned is not older   *)
(* than what was used before, a handler about to forward has a newer one,  *)
(* and once the channel was drained so has it.  The second conjunct makes  *)
(* the third inductive: a status that is just being handled is fresh, so   *)
(* no poll starts while it still has to be forwarded.                      *)
ReaderInv ==
    /\ step # "idle" => used <= seen
    /\ step # "idle" /\ handler = "send" => arrived > seen
    /\ step \in {"publish", "wait"} /\ channel # 0 => channel > seen

StatusInv == TypeOK /\ HandlerInv /\ ReaderInv

(* The invariant holds before the first message and the first Step.        *)
LEMMA StatusInit == Init => StatusInv
  <1> SUFFICES ASSUME Init PROVE StatusInv
    OBVIOUS
  <1>1. due \in BOOLEAN /\ silent \in BOOLEAN
    BY Zenon DEF Init
  <1>2. TypeOK
    BY <1>1, StatusAssumption DEF Init, TypeOK
  <1>3. HandlerInv /\ ReaderInv
    BY DEF Init, HandlerInv, ReaderInv
  <1> QED
    BY <1>2, <1>3 DEF StatusInv

(* A status that is just being handled is fresh: no poll starts then.      *)
LEMMA HandledIsFresh ==
  ASSUME HandlerInv, handler = "send"
  PROVE  Fresh
  BY StatusAssumption DEF HandlerInv, Fresh, Never

(* Time keeps the invariant: it passes only while no message is handled.   *)
LEMMA TickInv == StatusInv /\ Tick => StatusInv'
  <1> SUFFICES ASSUME StatusInv, Tick PROVE StatusInv'
    OBVIOUS
  <1> USE DEF StatusInv, Tick, handlerVars
  <1>1. timer' \in 1..ControlInterval /\ due' \in BOOLEAN /\ waited' \in Nat
    BY StatusAssumption DEF TypeOK
  <1>2. latestAge' \in {Never} \cup Nat
    BY DEF TypeOK, Never
  <1>3. TypeOK'
    BY <1>1, <1>2 DEF TypeOK
  <1>4. HandlerInv' /\ ReaderInv'
    BY DEF HandlerInv, ReaderInv
  <1> QED
    BY <1>3, <1>4

(* The handler keeps the invariant.                                        *)
LEMMA HandlerStep == StatusInv /\ (Arrive \/ HandleMessage) => StatusInv'
  <1> SUFFICES ASSUME StatusInv, Arrive \/ HandleMessage PROVE StatusInv'
    OBVIOUS
  <1> USE DEF StatusInv, TypeOK, HandlerInv, ReaderInv,
              tickerVars, handlerVars, cacheVars, readerVars
  <1>1. CASE Arrive
    BY <1>1, StatusAssumption DEF Arrive
  <1>2. CASE Store
    BY <1>2 DEF Store
  <1>3. CASE Forward
    BY <1>3 DEF Forward
  <1> QED
    BY <1>1, <1>2, <1>3 DEF HandleMessage

(* The reader keeps the invariant.                                         *)
LEMMA ReaderStep == StatusInv /\ readDeviceStatus => StatusInv'
  <1> SUFFICES ASSUME StatusInv, readDeviceStatus PROVE StatusInv'
    OBVIOUS
  <1>1. CASE UseCached
    <2>1. due' \in BOOLEAN
      BY <1>1, Zenon DEF UseCached, Begin
    <2> QED
      BY <1>1, <2>1 DEF UseCached, Begin, StatusInv, TypeOK, HandlerInv, ReaderInv,
                        handlerVars, cacheVars, readerVars
  <1>2. CASE CallPoll
    <2>1. handler # "send"
      BY <1>2, HandledIsFresh DEF CallPoll, StatusInv
    <2>2. due' \in BOOLEAN /\ silent' \in BOOLEAN
      BY <1>2, Zenon DEF CallPoll, Begin
    <2> QED
      BY <1>2, <2>1, <2>2 DEF CallPoll, Begin, StatusInv, TypeOK, HandlerInv, ReaderInv,
                        handlerVars, cacheVars
  <1>3. CASE Drain
    BY <1>3 DEF Drain, StatusInv, TypeOK, HandlerInv, ReaderInv,
                tickerVars, handlerVars, cacheVars, readerVars
  <1>4. CASE PollPublished
    BY <1>4 DEF PollPublished, StatusInv, TypeOK, HandlerInv, ReaderInv,
                tickerVars, handlerVars, cacheVars
  <1>5. CASE GiveUp
    BY <1>5 DEF GiveUp, StatusInv, TypeOK, HandlerInv, ReaderInv,
                tickerVars, handlerVars, cacheVars, readerVars
  <1>6. CASE Answer
    BY <1>6 DEF Answer, StatusInv, TypeOK, HandlerInv, ReaderInv,
                tickerVars, handlerVars, cacheVars, readerVars
  <1> QED
    BY <1>1, <1>2, <1>3, <1>4, <1>5, <1>6 DEF readDeviceStatus, PollFailed, TimeOut

(* The invariant holds in every reachable state.                           *)
LEMMA StatusInvariant == Spec => []StatusInv
  <1>1. StatusInv /\ [Next]_vars => StatusInv'
    <2> SUFFICES ASSUME StatusInv, [Next]_vars PROVE StatusInv'
      OBVIOUS
    <2>1. CASE Next
      BY <2>1, TickInv, HandlerStep, ReaderStep DEF Next
    <2>2. CASE UNCHANGED vars
      BY <2>2 DEF vars, tickerVars, handlerVars, cacheVars, readerVars,
                  StatusInv, TypeOK, HandlerInv, ReaderInv
    <2> QED
      BY <2>1, <2>2
  <1> QED
    BY <1>1, StatusInit, PTL DEF Spec

-----------------------------------------------------------------------------
(* Type correctness of the status source and its reader.                   *)
THEOREM StatusTypeCorrect == Spec => []TypeOK
  BY StatusInvariant, PTL DEF StatusInv

(* The status Poll returns is newer than the one readDeviceStatus found    *)
(* too old, although Poll takes whatever message comes.                    *)
THEOREM PollsAnsweredAnew == Spec => []AnswerIsNew
  <1>1. StatusInv => AnswerIsNew
    BY DEF StatusInv, ReaderInv, AnswerIsNew
  <1> QED
    BY <1>1, StatusInvariant, PTL

(* The statuses the loop works with never go back.                         *)
THEOREM ReadsAreOrdered == Spec => ReadsMoveForward
  <1>1. StatusInv /\ [Next]_vars => [used' >= used]_vars
    <2> SUFFICES ASSUME StatusInv, Next PROVE used' >= used
      OBVIOUS
    <2> USE DEF StatusInv, TypeOK
    <2>1. CASE UseCached
      BY <2>1 DEF UseCached
    <2>2. CASE Answer
      BY <2>2 DEF Answer, ReaderInv
    <2>3. CASE ~UseCached /\ ~Answer
      <3>1. used' = used
        BY <2>3 DEF Next, Tick, Arrive, HandleMessage, Store, Forward, readDeviceStatus,
                    CallPoll, Drain, PollPublished, PollFailed, TimeOut, GiveUp
      <3> QED
        BY <3>1
    <2> QED
      BY <2>1, <2>2, <2>3
  <1> QED
    BY <1>1, StatusInvariant, PTL DEF Spec, ReadsMoveForward

=============================================================================
