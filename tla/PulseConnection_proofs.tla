------------------------ MODULE PulseConnection_proofs ------------------------
(***************************************************************************)
(* Proofs about the connection half of PulseDeviceCollection, for every    *)
(* delay, number of signals and, where it says so, every point at which    *)
(* they arrive.                                                            *)
(***************************************************************************)
EXTENDS PulseConnection, TLAPS

\* Every source GLib holds is remembered or in call.
Tracked(s) ==
    /\ s \in Fields
    /\ s.sources = (IF s.reconnectTimer THEN 1 ELSE 0) + (IF s.inCall THEN 1 ELSE 0)

LEMMA TrackedPending ==
    ASSUME NEW s \in Fields
    PROVE  Tracked(s) <=> Pending(s) = IF s.reconnectTimer THEN 1 ELSE 0
  BY DEF Tracked, Pending, Fields

LEMMA ReconnectDelayNat ==
    ASSUME NEW c \in 0..2
    PROVE  ReconnectDelay(c) \in Nat
  <1>1. ReconnectDelay(c) \in {InitialDelayMs % GuintRange,
                               (InitialDelayMs * 2) % GuintRange,
                               (InitialDelayMs * 5) % GuintRange}
    BY ConnectionAssumption DEF ReconnectDelay
  <1>2. \A n \in Nat : n % GuintRange \in Nat
    BY ConnectionAssumption
  <1> QED BY <1>1, <1>2, ConnectionAssumption

LEMMA ScheduleReconnectFacts ==
    ASSUME NEW s, Tracked(s)
    PROVE  LET t == ScheduleReconnect(s)
           IN  /\ Tracked(t)
               /\ t.context = s.context
               /\ t.stateCallback = s.stateCallback
               /\ t.subscribeCallback = s.subscribeCallback
               /\ t.isLoopActive = s.isLoopActive
               /\ t.inCall = s.inCall
               /\ t.reconnectTimer = (s.isLoopActive \/ s.reconnectTimer)
  <1>1. ReconnectDelay(s.reconnectionCounter) \in Nat
    BY ReconnectDelayNat DEF Tracked, Fields
  <1>2. CASE ~s.isLoopActive \/ s.reconnectTimer
    BY <1>2 DEF ScheduleReconnect, Tracked, Fields
  <1>3. CASE s.isLoopActive /\ ~s.reconnectTimer
    <2> DEFINE next == IF s.reconnectionCounter < 2 THEN s.reconnectionCounter + 1 ELSE 2
               later == ReconnectDelay(s.reconnectionCounter)
    <2>1. next \in 0..2 /\ s \in Fields /\ s.sources + 1 \in Nat /\ later \in Nat
      BY <1>1, <1>3 DEF Tracked, Fields
    <2>2. ScheduleReconnect(s) =
            [s EXCEPT !.reconnectTimer = TRUE, !.sources = @ + 1,
                      !.delay = later, !.reconnectionCounter = next]
      BY <1>3, <2>1 DEF ScheduleReconnect, ScheduleReconnectUnguarded
    <2> HIDE DEF next, later
    <2>3. [s EXCEPT !.reconnectTimer = TRUE, !.sources = @ + 1,
                    !.delay = later, !.reconnectionCounter = next] \in Fields
      BY <2>1 DEF Fields
    <2>4. /\ ScheduleReconnect(s).sources = s.sources + 1
          /\ ScheduleReconnect(s).reconnectTimer
          /\ ScheduleReconnect(s).inCall = s.inCall
      BY <2>1, <2>2 DEF Fields
    <2>5. Tracked(ScheduleReconnect(s))
      BY <1>3, <2>2, <2>3, <2>4 DEF Tracked
    <2> QED BY <1>3, <2>1, <2>2, <2>5 DEF Fields
  <1> QED BY <1>2, <1>3

LEMMA CancelReconnectTimerFacts ==
    ASSUME NEW s, Tracked(s)
    PROVE  LET t == CancelReconnectTimer(s)
           IN  /\ Tracked(t)
               /\ t.context = s.context
               /\ t.stateCallback = s.stateCallback
               /\ t.subscribeCallback = s.subscribeCallback
               /\ t.isLoopActive = s.isLoopActive
               /\ t.inCall = s.inCall
               /\ ~t.reconnectTimer
               /\ t.delay = s.delay
               /\ t.reconnectionCounter = s.reconnectionCounter
  <1>1. CASE ~s.reconnectTimer
    BY <1>1 DEF Tracked, Fields, CancelReconnectTimer
  <1>2. CASE s.reconnectTimer
    <2>1. /\ s \in Fields /\ s.sources - 1 = IF s.inCall THEN 1 ELSE 0
          /\ s.sources - 1 \in Nat
      BY <1>2 DEF Tracked, Fields
    <2>2. CancelReconnectTimer(s) = [s EXCEPT !.reconnectTimer = FALSE, !.sources = @ - 1]
      BY <1>2 DEF CancelReconnectTimer
    <2>3. [s EXCEPT !.reconnectTimer = FALSE, !.sources = @ - 1] \in Fields
      BY <2>1 DEF Fields
    <2> QED BY <2>1, <2>2, <2>3 DEF Tracked, Fields
  <1> QED BY <1>1, <1>2

\* When a callback returns, its own source goes, and nothing else changes.
LEMMA LeaveCallbackFacts ==
    ASSUME NEW s, Tracked(s)
    PROVE  LET t == LeaveCallback(s)
           IN  /\ Tracked(t)
               /\ t.context = s.context
               /\ t.stateCallback = s.stateCallback
               /\ t.subscribeCallback = s.subscribeCallback
               /\ t.subscription = s.subscription
               /\ t.isLoopActive = s.isLoopActive
               /\ t.reconnectTimer = s.reconnectTimer
               /\ ~t.inCall
               /\ t.delay = s.delay
               /\ t.reconnectionCounter = s.reconnectionCounter
  <1>1. CASE ~s.inCall
    BY <1>1 DEF Tracked, Fields, LeaveCallback
  <1>2. CASE s.inCall
    <2>1. /\ s \in Fields /\ s.sources - 1 = IF s.reconnectTimer THEN 1 ELSE 0
          /\ s.sources - 1 \in Nat
      BY <1>2 DEF Tracked, Fields
    <2>2. LeaveCallback(s) = [s EXCEPT !.inCall = FALSE, !.sources = @ - 1]
      BY <1>2 DEF LeaveCallback
    <2>3. [s EXCEPT !.inCall = FALSE, !.sources = @ - 1] \in Fields
      BY <2>1 DEF Fields
    <2> QED BY <2>1, <2>2, <2>3 DEF Tracked, Fields
  <1> QED BY <1>1, <1>2

LEMMA DestroyContextFacts ==
    ASSUME NEW s, Tracked(s)
    PROVE  LET t == DestroyContext(s)
           IN  /\ Tracked(t)
               /\ t.context = Null
               /\ ~t.stateCallback /\ ~t.subscribeCallback
               /\ t.subscription = "none"
               /\ t.isLoopActive = s.isLoopActive
               /\ t.reconnectTimer = s.reconnectTimer
               /\ t.inCall = s.inCall
               /\ t.delay = s.delay
               /\ t.reconnectionCounter = s.reconnectionCounter
  BY DEF Tracked, Fields, DestroyContext, Null

LEMMA DeactivateFacts ==
    ASSUME NEW s, Tracked(s)
    PROVE  LET t == DeactivateAndStopLoop(s)
           IN  /\ Tracked(t)
               /\ t.context = Null
               /\ ~t.stateCallback /\ ~t.subscribeCallback
               /\ ~t.isLoopActive
               /\ ~t.reconnectTimer
               /\ t.inCall = s.inCall
               /\ t.delay = s.delay
               /\ t.reconnectionCounter = s.reconnectionCounter
  <1> DEFINE a == [s EXCEPT !.isLoopActive = FALSE]
             b == CancelReconnectTimer(a)
             c == StopMonitoring(b)
  <1>1. Tracked(a) /\ ~a.isLoopActive /\ a.inCall = s.inCall
        /\ a.delay = s.delay /\ a.reconnectionCounter = s.reconnectionCounter
    BY DEF Tracked, Fields
  <1>2. Tracked(b) /\ ~b.isLoopActive /\ ~b.reconnectTimer /\ b.inCall = s.inCall
        /\ b.delay = s.delay /\ b.reconnectionCounter = s.reconnectionCounter
    BY <1>1, CancelReconnectTimerFacts
  <1>3. Tracked(c) /\ ~c.isLoopActive /\ ~c.reconnectTimer /\ c.inCall = s.inCall
        /\ c.delay = s.delay /\ c.reconnectionCounter = s.reconnectionCounter
    <2> HIDE DEF b
    <2> QED BY <1>2 DEF Tracked, Fields, StopMonitoring
  <1>4. DeactivateAndStopLoop(s) = DestroyContext(c)
    BY DEF DeactivateAndStopLoop
  <1> HIDE DEF c
  <1> QED BY <1>3, <1>4, DestroyContextFacts

LEMMA ContextLostFacts ==
    ASSUME NEW s, Tracked(s), NEW state \in {"FAILED", "TERMINATED"}
    PROVE  LET t == ContextLost(s, state)
           IN  /\ Tracked(t)
               /\ t.context = state
               /\ t.stateCallback = s.stateCallback
               /\ t.isLoopActive = s.isLoopActive
               /\ t.inCall = s.inCall
               /\ t.reconnectTimer = (s.isLoopActive \/ s.reconnectTimer)
  <1> DEFINE a == [s EXCEPT !.context = state]
  <1>1. Tracked(a) /\ a.context = state /\ a.stateCallback = s.stateCallback
        /\ a.isLoopActive = s.isLoopActive /\ a.reconnectTimer = s.reconnectTimer
        /\ a.inCall = s.inCall
    BY DEF Tracked, Fields, ContextStates
  <1>2. ContextLost(s, state) = ScheduleReconnect(a)
    BY DEF ContextLost
  <1> HIDE DEF a
  <1> QED BY <1>1, <1>2, ScheduleReconnectFacts

LEMMA ConnectRefusedFacts ==
    ASSUME NEW s, Tracked(s)
    PROVE  LET t == LeaveCallback(ConnectRefused(s))
           IN  /\ Tracked(t)
               /\ t.context = Null
               /\ ~t.stateCallback /\ ~t.subscribeCallback
               /\ t.isLoopActive = s.isLoopActive
               /\ t.reconnectTimer = (s.isLoopActive \/ s.reconnectTimer)
               /\ ~t.inCall
  <1> DEFINE a == DestroyContext(s)
             b == ScheduleReconnect(a)
  <1>1. /\ Tracked(a) /\ a.context = Null /\ ~a.stateCallback /\ ~a.subscribeCallback
        /\ a.isLoopActive = s.isLoopActive /\ a.reconnectTimer = s.reconnectTimer
    BY DestroyContextFacts
  <1> HIDE DEF a
  <1>2. /\ Tracked(b) /\ b.context = Null /\ ~b.stateCallback /\ ~b.subscribeCallback
        /\ b.isLoopActive = s.isLoopActive
        /\ b.reconnectTimer = (s.isLoopActive \/ s.reconnectTimer)
    BY <1>1, ScheduleReconnectFacts
  <1>3. ConnectRefused(s) = b
    BY DEF ConnectRefused, a
  <1> HIDE DEF b
  <1> QED BY <1>2, <1>3, LeaveCallbackFacts

-----------------------------------------------------------------------------
(* Wherever the signals arrive.                                            *)

\* A source is in call in ReconnectTimerCallback only, or for good once an
\* exception has left that.
InCallWhere ==
    pdc.inCall => \/ pc \in {"recreate", "reconnect", "aborted"}
                  \/ pc \in {"threw", "destroyed"} /\ ~reconnectionEnabled

TrackedInv == TypeOK /\ Tracked(pdc) /\ InCallWhere

LEMMA TrackedInit == Init => TrackedInv
  <1> SUFFICES ASSUME Init PROVE TrackedInv
    OBVIOUS
  <1>1. Tracked(pdc)
    BY DEF Init, Tracked, Fields, ContextStates
  <1>2. signals \in 0..MaxSignals
    BY ConnectionAssumption DEF Init
  <1> QED BY <1>1, <1>2 DEF Init, TrackedInv, TypeOK, LivePoints, Tracked, InCallWhere

LEMMA ConnectTracked ==
    ASSUME TrackedInv, NEW at \in {"connect", "reconnect"}, NEW next \in {"run", "loop"},
           Connect(at, next)
    PROVE  TrackedInv'
  <1>1. Tracked(pdc) /\ pc = at
    BY DEF TrackedInv, Connect
  <1>2. /\ Tracked(pdc') /\ pc' \in LivePoints \cup Ended
        /\ pdc'.inCall => pc' = "aborted" \/ (pc' = "threw" /\ ~reconnectionEnabled)
    <2>1. CASE ConnectStarts(next)
      <3> DEFINE a == [pdc EXCEPT !.context = "CONNECTING"]
      <3>1. Tracked(a)
        BY <1>1 DEF Tracked, Fields, ContextStates
      <3>2. pdc' = LeaveCallback(a) /\ pc' = next
        BY <2>1 DEF ConnectStarts
      <3> HIDE DEF a
      <3> QED BY <3>1, <3>2, LeaveCallbackFacts DEF LivePoints
    <2>2. CASE ConnectIsRefused(next)
      BY <1>1, <2>2, ConnectRefusedFacts DEF ConnectIsRefused, LivePoints
    <2>3. CASE ConnectFailsInside(next)
      <3>1. CASE reconnectionEnabled
        BY <1>1, <2>3, <3>1, ContextLostFacts, ConnectRefusedFacts
           DEF ConnectFailsInside, LivePoints
      <3>2. CASE ~reconnectionEnabled
        BY <1>1, <2>3, <3>2 DEF ConnectFailsInside, Tracked, Fields, ContextStates, Ended
      <3> QED BY <3>1, <3>2
    <2>4. CASE ConnectOnNull
      BY <1>1, <2>4 DEF ConnectOnNull, Ended
    <2> QED BY <2>1, <2>2, <2>3, <2>4 DEF Connect
  <1> QED BY <1>2 DEF Connect, Environment, Tracked, TrackedInv, TypeOK, InCallWhere

\* GLib dispatches a source only when none is in call.
LEMMA FiringIsPending ==
    ASSUME TrackedInv, TimerFires
    PROVE  pdc.reconnectTimer /\ ~pdc.inCall
  BY DEF TrackedInv, InCallWhere, TimerFires, Tracked, Fields

\* What line 209 leaves: a source in call, and none that is remembered.
LEMMA FiredFacts ==
    ASSUME NEW s, Tracked(s), s.reconnectTimer, ~s.inCall
    PROVE  LET t == [s EXCEPT !.reconnectTimer = FALSE, !.inCall = TRUE]
           IN  /\ Tracked(t) /\ t.inCall
               /\ t.context = s.context
               /\ ~t.reconnectTimer
               /\ t.isLoopActive = s.isLoopActive
               /\ t.delay = s.delay
               /\ t.reconnectionCounter = s.reconnectionCounter
  <1>1. s \in Fields /\ s.sources = 1
    BY DEF Tracked, Fields
  <1>2. [s EXCEPT !.reconnectTimer = FALSE, !.inCall = TRUE] \in Fields
    BY <1>1 DEF Fields
  <1> QED BY <1>1, <1>2 DEF Tracked, Fields

LEMMA TrackedNext == TrackedInv /\ [Next]_vars => TrackedInv'
  <1> SUFFICES ASSUME TrackedInv, [Next]_vars PROVE TrackedInv'
    OBVIOUS
  <1> USE DEF TrackedInv, TypeOK
  <1>1. Tracked(pdc) /\ InCallWhere
    OBVIOUS
  <1>2. SUFFICES ASSUME TRUE
                 PROVE  /\ Tracked(pdc')
                        /\ InCallWhere'
                        /\ loopRunning' \in BOOLEAN
                        /\ pc' \in LivePoints \cup Ended
                        /\ reconnectionEnabled' \in BOOLEAN
                        /\ signals' \in 0..MaxSignals
    BY DEF Tracked
  <1>3. CASE Activate
    BY <1>1, <1>3 DEF Activate, Environment, Tracked, Fields, LivePoints, Ended, InCallWhere
  <1>4. CASE InitialConnect
    BY <1>4, ConnectTracked DEF InitialConnect
  <1>5. CASE RunLoop
    BY <1>1, <1>5 DEF RunLoop, Environment, LivePoints, InCallWhere
  <1>6. CASE ContextReady
    BY <1>1, <1>6
       DEF ContextReady, Environment, Tracked, Fields, ContextStates, LivePoints, InCallWhere
  <1>7. CASE StartMonitoring \/ MonitorNull
    BY <1>1, <1>7
       DEF StartMonitoring, MonitorNull, Environment, Tracked, Fields, LivePoints, Ended,
           InCallWhere
  <1>8. ASSUME NEW state \in {"FAILED", "TERMINATED"}, ContextDown(state)
        PROVE  TrackedInv'
    <2>1. Tracked([pdc EXCEPT !.context = state])
          /\ [pdc EXCEPT !.context = state].inCall = pdc.inCall
      BY <1>1 DEF Tracked, Fields, ContextStates
    <2>2. Tracked(ContextLost(pdc, state)) /\ ContextLost(pdc, state).inCall = pdc.inCall
      BY <1>1, ContextLostFacts
    <2>3. /\ Tracked(pdc') /\ pc' \in LivePoints \cup Ended
          /\ pdc'.inCall = pdc.inCall /\ pc = "loop"
      BY <1>8, <2>1, <2>2 DEF ContextDown, Fields, LivePoints, Ended
    <2> QED BY <1>1, <1>8, <2>3 DEF ContextDown, Environment, Tracked, InCallWhere
  <1>9. CASE TimerFires
    <2> DEFINE fired == [pdc EXCEPT !.reconnectTimer = FALSE, !.inCall = TRUE]
    <2>1. Tracked(fired)
      BY <1>9, FiringIsPending, FiredFacts
    <2>2. \/ pdc' = DestroyContext(fired) /\ pc' = "recreate"
          \/ pdc' = LeaveCallback(fired) /\ pc' = "loop"
      BY <1>9 DEF TimerFires
    <2> HIDE DEF fired
    <2>3. Tracked(pdc') /\ InCallWhere'
      BY <2>1, <2>2, DestroyContextFacts, LeaveCallbackFacts DEF InCallWhere
    <2> QED BY <1>9, <2>2, <2>3 DEF TimerFires, Environment, LivePoints
  <1>10. CASE Recreate
    BY <1>1, <1>10
       DEF Recreate, CreateContext, Environment, Tracked, Fields, ContextStates, LivePoints,
           InCallWhere
  <1>11. CASE RecreateFails
    <2> DEFINE a == [pdc EXCEPT !.context = Null]
    <2>1. Tracked(a)
      BY <1>1 DEF Tracked, Fields
    <2>2. pdc' = LeaveCallback(ScheduleReconnect(a))
      BY <1>11 DEF RecreateFails
    <2> HIDE DEF a
    <2>3. Tracked(pdc') /\ ~pdc'.inCall
      BY <2>1, <2>2, ScheduleReconnectFacts, LeaveCallbackFacts
    <2> QED BY <1>11, <2>3 DEF RecreateFails, Environment, LivePoints, InCallWhere
  <1>12. CASE Reconnect
    BY <1>12, ConnectTracked DEF Reconnect
  <1>13. CASE Signal
    <2>1. signals' \in 0..MaxSignals
      BY <1>13, ConnectionAssumption DEF Signal
    <2>2. Tracked(pdc') /\ pdc'.inCall = pdc.inCall
      BY <1>1, <1>13, DeactivateFacts DEF Signal
    <2> QED BY <1>1, <1>13, <2>1, <2>2 DEF Signal, InCallWhere
  <1>14. CASE LoopReturns
    BY <1>1, <1>14 DEF LoopReturns, Environment, Ended, InCallWhere
  <1>15. CASE Destroy
    <2>1. Tracked(pdc') /\ pdc'.inCall = pdc.inCall
      BY <1>1, <1>15, CancelReconnectTimerFacts, DestroyContextFacts DEF Destroy
    <2> QED BY <1>1, <1>15, <2>1 DEF Destroy, Environment, Ended, LatePoints, InCallWhere
  <1>16. CASE Finished \/ UNCHANGED vars
    BY <1>1, <1>16 DEF Finished, vars, InCallWhere
  <1> QED
    BY <1>3, <1>4, <1>5, <1>6, <1>7, <1>8, <1>9, <1>10, <1>11, <1>12, <1>13,
       <1>14, <1>15, <1>16
       DEF Next, MainThread, Server, Tracked

\* ContextLost, ConnectRefused and the signal handler keep the fields and the
\* program points within their types.
THEOREM TypeCorrect == Spec => []TypeOK
  <1>1. TrackedInv => TypeOK
    BY DEF TrackedInv
  <1> QED BY TrackedInit, TrackedNext, <1>1, PTL DEF Spec

\* PulseDeviceCollection.cpp:176-231: for every point at which a signal may arrive,
\* reconnectTimerId_ is set exactly while GLib has a source to fire, and there is at
\* most one, not counting the one whose callback is under way.
THEOREM TimerAlwaysTracked == Spec => []TimerTracked
  <1>1. TrackedInv => TimerTracked
    BY TrackedPending DEF TrackedInv, TypeOK, TimerTracked
  <1> QED BY TrackedInit, TrackedNext, <1>1, PTL DEF Spec

\* PulseDeviceCollection.cpp:28-34: wherever signals interrupt the program, nothing
\* that GLib or libpulse would still call points to the object after its destructor;
\* a source is left, blocked, only by an exception out of the timer's callback.
THEOREM NothingEverCallsBack == Spec => []NothingCallsBack
  <1> DEFINE Clean == pc = "destroyed" => /\ ~pdc.reconnectTimer
                                          /\ ~pdc.stateCallback /\ ~pdc.subscribeCallback
  <1>1. Init => Clean
    BY DEF Init
  <1>2. TrackedInv /\ Clean /\ [Next]_vars => Clean'
    <2> SUFFICES ASSUME TrackedInv, Clean, [Next]_vars, pc' = "destroyed"
                 PROVE  /\ ~pdc'.reconnectTimer
                        /\ ~pdc'.stateCallback /\ ~pdc'.subscribeCallback
      OBVIOUS
    <2>1. CASE Destroy
      BY <2>1, CancelReconnectTimerFacts, DestroyContextFacts DEF Destroy, TrackedInv
    <2>2. CASE ~Destroy
      BY <2>2, ConnectionAssumption
         DEF Next, MainThread, Server, Activate, InitialConnect, Connect, ConnectStarts,
             ConnectIsRefused, ConnectFailsInside, ConnectOnNull, RunLoop, ContextReady,
             StartMonitoring, MonitorNull, ContextDown, TimerFires, Recreate, RecreateFails,
             Reconnect, Signal, LoopReturns, Finished, vars, LivePoints, LatePoints
    <2> QED BY <2>1, <2>2
  <1>3. TrackedInv /\ Clean => NothingCallsBack
    BY TrackedPending DEF TrackedInv, TypeOK, InCallWhere, NothingCallsBack
  <1> HIDE DEF Clean
  <1> QED BY TrackedInit, TrackedNext, <1>1, <1>2, <1>3, PTL DEF Spec

-----------------------------------------------------------------------------
(* The backoff.                                                            *)

BackoffOf(s) == s.delay <= ReconnectDelay(s.reconnectionCounter)

LEMMA ReconnectDelayGrows ==
    ASSUME InitialDelayMs * 5 < GuintRange
    PROVE  /\ ReconnectDelay(0) = InitialDelayMs
           /\ ReconnectDelay(1) = InitialDelayMs * 2
           /\ ReconnectDelay(2) = InitialDelayMs * 5
  <1>1. \A n \in Nat : n < GuintRange => n % GuintRange = n
    BY ConnectionAssumption
  <1>2. /\ InitialDelayMs \in Nat /\ InitialDelayMs < GuintRange
        /\ InitialDelayMs * 2 \in Nat /\ InitialDelayMs * 2 < GuintRange
        /\ InitialDelayMs * 5 \in Nat
    BY ConnectionAssumption
  <1>3. /\ ReconnectDelay(0) = (InitialDelayMs * 1) % GuintRange
        /\ ReconnectDelay(1) = (InitialDelayMs * 2) % GuintRange
        /\ ReconnectDelay(2) = (InitialDelayMs * 5) % GuintRange
    BY DEF ReconnectDelay
  <1>4. InitialDelayMs * 1 = InitialDelayMs
    BY <1>2
  <1> QED BY <1>1, <1>2, <1>3, <1>4

LEMMA ScheduleReconnectGrows ==
    ASSUME InitialDelayMs * 5 < GuintRange, NEW s, Tracked(s), BackoffOf(s)
    PROVE  LET t == ScheduleReconnect(s)
           IN  BackoffOf(t) /\ t.delay >= s.delay
  <1> DEFINE c == s.reconnectionCounter
             next == IF c < 2 THEN c + 1 ELSE 2
             later == ReconnectDelay(c)
  <1>1. CASE ~s.isLoopActive \/ s.reconnectTimer
    BY <1>1 DEF ScheduleReconnect, Tracked, Fields
  <1>2. CASE ~(~s.isLoopActive \/ s.reconnectTimer)
    <2>1. c \in 0..2 /\ s.delay \in Nat
      BY DEF Tracked, Fields
    <2>2. later \in Nat /\ later <= ReconnectDelay(next)
      <3>1. CASE c = 0
        BY <3>1, ReconnectDelayGrows, ConnectionAssumption
      <3>2. CASE c = 1
        BY <3>2, ReconnectDelayGrows, ConnectionAssumption
      <3>3. CASE c = 2
        BY <3>3, ReconnectDelayGrows, ConnectionAssumption
      <3> QED BY <2>1, <3>1, <3>2, <3>3
    <2>3. s.delay <= later
      BY DEF BackoffOf
    <2>4. ScheduleReconnect(s) =
            [s EXCEPT !.reconnectTimer = TRUE, !.sources = @ + 1,
                      !.delay = later, !.reconnectionCounter = next]
      BY <1>2 DEF ScheduleReconnect, ScheduleReconnectUnguarded
    <2> HIDE DEF later, next
    <2>5. /\ ScheduleReconnect(s).delay = later
          /\ ScheduleReconnect(s).reconnectionCounter = next
      BY <2>4 DEF Tracked, Fields
    <2> QED BY <2>1, <2>2, <2>3, <2>5 DEF BackoffOf
  <1> QED BY <1>1, <1>2

BackoffStep(s, t) == BackoffOf(t) /\ t.delay >= s.delay

LEMMA BackoffSame ==
    ASSUME NEW s, NEW t, Tracked(s), BackoffOf(s), t.delay = s.delay,
           t.reconnectionCounter = s.reconnectionCounter
    PROVE  BackoffStep(s, t)
  BY DEF BackoffStep, BackoffOf, Tracked, Fields

LEMMA BackoffConnect ==
    ASSUME InitialDelayMs * 5 < GuintRange, TrackedInv, BackoffOf(pdc),
           NEW at, NEW next, Connect(at, next)
    PROVE  BackoffStep(pdc, pdc')
  <1>1. Tracked(pdc)
    BY DEF TrackedInv, TypeOK, Tracked
  <1>2. ASSUME NEW s, Tracked(s), BackoffOf(s)
        PROVE  BackoffStep(s, LeaveCallback(ConnectRefused(s)))
    <2> DEFINE a == DestroyContext(s)
               b == ScheduleReconnect(a)
    <2>1. Tracked(a) /\ a.delay = s.delay /\ a.reconnectionCounter = s.reconnectionCounter
      BY <1>2, DestroyContextFacts
    <2> HIDE DEF a
    <2>2. BackoffOf(a)
      BY <1>2, <2>1 DEF BackoffOf
    <2>3. Tracked(b) /\ BackoffOf(b) /\ b.delay >= s.delay
      BY <2>1, <2>2, ScheduleReconnectFacts, ScheduleReconnectGrows
    <2>4. ConnectRefused(s) = b
      BY DEF ConnectRefused, a
    <2> HIDE DEF b
    <2>5. LeaveCallback(b).delay = b.delay
          /\ LeaveCallback(b).reconnectionCounter = b.reconnectionCounter
      BY <2>3, LeaveCallbackFacts
    <2> QED BY <2>3, <2>4, <2>5 DEF BackoffStep, BackoffOf
  <1>3. CASE ConnectStarts(next)
    <2> DEFINE a == [pdc EXCEPT !.context = "CONNECTING"]
    <2>1. Tracked(a) /\ a.delay = pdc.delay
          /\ a.reconnectionCounter = pdc.reconnectionCounter
      BY <1>1 DEF Tracked, Fields, ContextStates
    <2>2. pdc' = LeaveCallback(a)
      BY <1>3 DEF ConnectStarts
    <2> HIDE DEF a
    <2> QED BY <1>1, <2>1, <2>2, LeaveCallbackFacts, BackoffSame
  <1>4. CASE ConnectIsRefused(next)
    BY <1>1, <1>2, <1>4 DEF ConnectIsRefused
  <1>5. CASE ConnectFailsInside(next) /\ reconnectionEnabled
    <2> DEFINE a == [pdc EXCEPT !.context = "FAILED"]
               b == ContextLost(pdc, "FAILED")
    <2>1. Tracked(a) /\ a.delay = pdc.delay
          /\ a.reconnectionCounter = pdc.reconnectionCounter
      BY <1>1 DEF Tracked, Fields, ContextStates
    <2>2. b = ScheduleReconnect(a)
      BY DEF ContextLost
    <2> HIDE DEF a, b
    <2>3. BackoffOf(a)
      BY <2>1 DEF BackoffOf
    <2>4. Tracked(b) /\ BackoffOf(b) /\ b.delay >= pdc.delay
      BY <2>1, <2>2, <2>3, ScheduleReconnectFacts, ScheduleReconnectGrows
    <2>5. pdc' = LeaveCallback(ConnectRefused(b))
      BY <1>5 DEF ConnectFailsInside, b
    <2>6. Tracked(LeaveCallback(ConnectRefused(b)))
          /\ BackoffStep(b, LeaveCallback(ConnectRefused(b)))
      BY <2>4, <1>2, ConnectRefusedFacts
    <2> QED BY <1>1, <2>4, <2>5, <2>6 DEF BackoffStep, Tracked, Fields
  <1>6. CASE ConnectFailsInside(next) /\ ~reconnectionEnabled
    BY <1>1, <1>6, BackoffSame DEF ConnectFailsInside, Tracked, Fields
  <1>7. CASE ConnectOnNull
    BY <1>1, <1>7, BackoffSame DEF ConnectOnNull
  <1> QED BY <1>3, <1>4, <1>5, <1>6, <1>7 DEF Connect

LEMMA BackoffNext ==
    ASSUME InitialDelayMs * 5 < GuintRange, TrackedInv, BackoffOf(pdc), [Next]_vars
    PROVE  BackoffStep(pdc, pdc')
  <1>1. Tracked(pdc)
    BY DEF TrackedInv, TypeOK, Tracked
  <1>2. CASE InitialConnect \/ Reconnect
    BY <1>2, BackoffConnect DEF InitialConnect, Reconnect
  <1>3. CASE Activate \/ StartMonitoring \/ ContextReady \/ Recreate
    BY <1>1, <1>3, BackoffSame
       DEF Activate, StartMonitoring, ContextReady, Recreate, CreateContext, Tracked, Fields
  <1>4. CASE RunLoop \/ MonitorNull \/ LoopReturns \/ Finished \/ UNCHANGED vars
    BY <1>1, <1>4, BackoffSame DEF RunLoop, MonitorNull, LoopReturns, Finished, vars
  <1>5. ASSUME NEW a, Tracked(a), a.delay = pdc.delay,
               a.reconnectionCounter = pdc.reconnectionCounter, pdc' = ScheduleReconnect(a)
        PROVE  BackoffStep(pdc, pdc')
    <2>1. BackoffOf(a)
      BY <1>5 DEF BackoffOf
    <2> QED BY <1>5, <2>1, ScheduleReconnectGrows DEF BackoffStep
  <1>6. ASSUME NEW state \in {"FAILED", "TERMINATED"}, ContextDown(state)
        PROVE  BackoffStep(pdc, pdc')
    <2> DEFINE a == [pdc EXCEPT !.context = state]
    <2>1. Tracked(a) /\ a.delay = pdc.delay
          /\ a.reconnectionCounter = pdc.reconnectionCounter
      BY <1>1 DEF Tracked, Fields, ContextStates
    <2>2. pdc' = a \/ pdc' = ScheduleReconnect(a)
      BY <1>6 DEF ContextDown, ContextLost
    <2> HIDE DEF a
    <2> QED BY <1>1, <1>5, <2>1, <2>2, BackoffSame
  <1>7. CASE TimerFires
    <2> DEFINE fired == [pdc EXCEPT !.reconnectTimer = FALSE, !.inCall = TRUE]
    <2>1. Tracked(fired) /\ fired.delay = pdc.delay
          /\ fired.reconnectionCounter = pdc.reconnectionCounter
      BY <1>1, <1>7, FiringIsPending, FiredFacts
    <2>2. pdc' = DestroyContext(fired) \/ pdc' = LeaveCallback(fired)
      BY <1>7 DEF TimerFires
    <2> HIDE DEF fired
    <2> QED BY <1>1, <2>1, <2>2, DestroyContextFacts, LeaveCallbackFacts, BackoffSame
  <1>8. CASE RecreateFails
    <2> DEFINE a == [pdc EXCEPT !.context = Null]
    <2>1. Tracked(a) /\ a.delay = pdc.delay
          /\ a.reconnectionCounter = pdc.reconnectionCounter
      BY <1>1 DEF Tracked, Fields
    <2> DEFINE b == ScheduleReconnect(a)
    <2>2. pdc' = LeaveCallback(b)
      BY <1>8 DEF RecreateFails
    <2> HIDE DEF a
    <2>3. BackoffOf(a)
      BY <2>1 DEF BackoffOf
    <2>4. Tracked(b) /\ BackoffOf(b) /\ b.delay >= pdc.delay
      BY <2>1, <2>3, ScheduleReconnectFacts, ScheduleReconnectGrows
    <2> HIDE DEF b
    <2>5. pdc'.delay = b.delay /\ pdc'.reconnectionCounter = b.reconnectionCounter
      BY <2>2, <2>4, LeaveCallbackFacts
    <2> QED BY <2>4, <2>5 DEF BackoffStep, BackoffOf
  <1>9. CASE Signal
    BY <1>1, <1>9, DeactivateFacts, BackoffSame DEF Signal
  <1>10. CASE Destroy
    BY <1>1, <1>10, CancelReconnectTimerFacts, DestroyContextFacts, BackoffSame DEF Destroy
  <1> QED
    BY <1>2, <1>3, <1>4, <1>6, <1>7, <1>8, <1>9, <1>10 DEF Next, MainThread, Server

\* As long as five initial delays fit a guint, no retry waits shorter than the
\* one before it.
THEOREM BackoffMonotone ==
    ASSUME InitialDelayMs * 5 < GuintRange
    PROVE  Spec => BackoffNeverShrinks
  <1>1. Init => BackoffOf(pdc)
    BY ReconnectDelayGrows, ConnectionAssumption DEF Init, BackoffOf
  <1>2. TrackedInv /\ BackoffOf(pdc) /\ [Next]_vars
          => BackoffOf(pdc)' /\ [pdc'.delay >= pdc.delay]_vars
    BY BackoffNext DEF BackoffStep, BackoffOf
  <1> QED BY TrackedInit, TrackedNext, <1>1, <1>2, PTL DEF Spec, BackoffNeverShrinks

-----------------------------------------------------------------------------
(* Signals that find the main thread idle in the loop, or out of it.       *)

NotAborted == pc # "aborted"

Unmonitored(s) == ~s.subscribeCallback /\ s.subscription = "none"

\* At each program point: which of the context and the timer is there.
AtActivate == pc = "activate" =>
    /\ pdc.context = "UNCONNECTED" /\ ~pdc.reconnectTimer /\ signals = 0
    /\ Unmonitored(pdc)

AtConnect == pc \in {"connect", "reconnect"} =>
    /\ pdc.context = "UNCONNECTED" /\ pdc.stateCallback /\ ~pdc.reconnectTimer
    /\ Unmonitored(pdc)

AtRun == pc = "run" =>
    /\ (Alive(pdc) # pdc.reconnectTimer) /\ pdc.context # "READY"
    /\ pdc.context = "CONNECTING" => Unmonitored(pdc)

AtLoop == pc \in {"run", "loop"} =>
    (pdc.context \in {"CONNECTING", "READY"} => pdc.stateCallback)

AtRecreate == pc = "recreate" => pdc.context = Null /\ ~pdc.reconnectTimer

AtMonitor == pc = "monitor" =>
    pdc.context = "READY" /\ pdc.stateCallback /\ ~pdc.reconnectTimer

ActiveOutsideLoop ==
    pc \in {"connect", "run", "recreate", "reconnect", "monitor"}
        => pdc.isLoopActive

InactiveIsEmpty ==
    ~pdc.isLoopActive /\ pc # "activate" => pdc.context = Null /\ ~pdc.reconnectTimer

SignalsDeactivate == signals > 0 => ~pdc.isLoopActive /\ pc # "activate"

IdleInv ==
    /\ TrackedInv
    /\ NotAborted /\ NeverStranded /\ ReadyIsMonitored
    /\ AtActivate /\ AtConnect /\ AtRun /\ AtLoop /\ AtRecreate /\ AtMonitor
    /\ ActiveOutsideLoop /\ InactiveIsEmpty /\ SignalsDeactivate

Points == /\ NotAborted /\ NeverStranded /\ ReadyIsMonitored
          /\ AtActivate /\ AtConnect /\ AtRun /\ AtLoop /\ AtRecreate /\ AtMonitor
          /\ ActiveOutsideLoop /\ InactiveIsEmpty /\ SignalsDeactivate

LEMMA IdleInit == Init => IdleInv
  BY TrackedInit
     DEF Init, IdleInv, NotAborted, NeverStranded, ReadyIsMonitored, Unmonitored, Alive, AtActivate,
         AtConnect, AtRun, AtLoop, AtRecreate, AtMonitor, ActiveOutsideLoop,
         InactiveIsEmpty, SignalsDeactivate

LEMMA ConnectPoints ==
    ASSUME IdleInv, NEW at \in {"connect", "reconnect"}, NEW next \in {"run", "loop"},
           Connect(at, next)
    PROVE  Points'
  <1> USE DEF NotAborted, NeverStranded, ReadyIsMonitored, Unmonitored, Alive, AtActivate,
         AtConnect, AtRun, AtLoop, AtRecreate, AtMonitor, ActiveOutsideLoop,
         InactiveIsEmpty, SignalsDeactivate, Null
  <1>1. /\ Tracked(pdc) /\ pc = at /\ pdc.isLoopActive
        /\ pdc.context = "UNCONNECTED" /\ pdc.stateCallback /\ ~pdc.reconnectTimer
        /\ ~pdc.subscribeCallback /\ pdc.subscription = "none"
        /\ ~(signals > 0) /\ signals' = signals
    BY DEF IdleInv, TrackedInv, TypeOK, Tracked, Connect, Environment
  <1>2. CASE ConnectStarts(next)
    <2> DEFINE a == [pdc EXCEPT !.context = "CONNECTING"]
    <2>1. /\ Tracked(a) /\ a.context = "CONNECTING" /\ a.stateCallback
          /\ ~a.subscribeCallback /\ a.subscription = "none"
          /\ ~a.reconnectTimer /\ a.isLoopActive
      BY <1>1 DEF Tracked, Fields, ContextStates
    <2>2. pdc' = LeaveCallback(a) /\ pc' = next
      BY <1>2 DEF ConnectStarts
    <2> HIDE DEF a
    <2>3. /\ pdc'.context = "CONNECTING" /\ pdc'.stateCallback
          /\ ~pdc'.subscribeCallback /\ pdc'.subscription = "none"
          /\ ~pdc'.reconnectTimer /\ pdc'.isLoopActive
      BY <2>1, <2>2, LeaveCallbackFacts
    <2> QED BY <1>1, <2>2, <2>3 DEF Points
  <1>3. CASE ConnectIsRefused(next)
    <2>1. /\ pdc'.context = Null /\ pdc'.reconnectTimer /\ pdc'.isLoopActive /\ pc' = next
      BY <1>1, <1>3, ConnectRefusedFacts DEF ConnectIsRefused
    <2> QED BY <1>1, <2>1 DEF Points
  <1>4. CASE ConnectFailsInside(next) /\ reconnectionEnabled
    <2>1. pdc' = LeaveCallback(ConnectRefused(ContextLost(pdc, "FAILED"))) /\ pc' = next
      BY <1>4 DEF ConnectFailsInside
    <2>2. Tracked(ContextLost(pdc, "FAILED")) /\ ContextLost(pdc, "FAILED").isLoopActive
      BY <1>1, ContextLostFacts
    <2>3. /\ pdc'.context = Null /\ pdc'.reconnectTimer /\ pdc'.isLoopActive
      BY <2>1, <2>2, ConnectRefusedFacts
    <2> QED BY <1>1, <2>1, <2>3 DEF Points
  <1>5. CASE ConnectFailsInside(next) /\ ~reconnectionEnabled
    <2>1. /\ pdc'.context = "FAILED" /\ pdc'.isLoopActive /\ pc' = "threw"
      BY <1>1, <1>5 DEF ConnectFailsInside, Tracked, Fields
    <2> QED BY <1>1, <2>1 DEF Points
  <1>6. CASE ConnectOnNull
    BY <1>1, <1>6 DEF ConnectOnNull
  <1> QED BY <1>2, <1>3, <1>4, <1>5, <1>6 DEF Connect

LEMMA IdleNext ==
    ASSUME InterruptPoints \subseteq QuietPoints, IdleInv, [Next]_vars
    PROVE  IdleInv'
  <1> USE DEF NotAborted, NeverStranded, ReadyIsMonitored, Unmonitored, Alive, AtActivate,
         AtConnect, AtRun, AtLoop, AtRecreate, AtMonitor, ActiveOutsideLoop,
         InactiveIsEmpty, SignalsDeactivate, Null, Environment
  <1>1. TrackedInv'
    BY TrackedNext DEF IdleInv
  <1>2. Tracked(pdc) /\ signals \in Nat /\ reconnectionEnabled \in BOOLEAN
    BY DEF IdleInv, TrackedInv, TypeOK, Tracked
  <1> SUFFICES Points'
    BY <1>1 DEF IdleInv, Points
  <1>3. CASE Activate
    <2>1. /\ pdc'.context = "UNCONNECTED" /\ pdc'.stateCallback
          /\ ~pdc'.subscribeCallback /\ pdc'.subscription = "none"
          /\ ~pdc'.reconnectTimer /\ pdc'.isLoopActive /\ pc' = "connect"
          /\ signals' = 0
      BY <1>2, <1>3 DEF Activate, IdleInv, Tracked, Fields
    <2> QED BY <2>1 DEF Points
  <1>4. CASE InitialConnect
    BY <1>4, ConnectPoints DEF InitialConnect
  <1>5. CASE RunLoop
    <2>1. pc = "run" /\ pc' = "loop" /\ pdc' = pdc /\ signals' = signals
      BY <1>5 DEF RunLoop
    <2>2. /\ Alive(pdc) # pdc.reconnectTimer /\ pdc.context # "READY"
          /\ pdc.isLoopActive /\ ~(signals > 0)
          /\ pdc.context = "CONNECTING" =>
                pdc.stateCallback /\ ~pdc.subscribeCallback /\ pdc.subscription = "none"
      BY <2>1 DEF IdleInv
    <2> QED BY <2>1, <2>2 DEF Points
  <1>6. CASE ContextReady
    <2>1. /\ pdc'.context = "READY" /\ pdc'.stateCallback = pdc.stateCallback
          /\ pdc'.reconnectTimer = pdc.reconnectTimer
          /\ pdc'.isLoopActive = pdc.isLoopActive
      BY <1>2, <1>6 DEF ContextReady, Tracked, Fields
    <2>2. /\ pdc.stateCallback /\ ~pdc.reconnectTimer /\ pdc.isLoopActive
      BY <1>2, <1>6 DEF ContextReady, IdleInv, Tracked, Fields
    <2>3. pc' = "monitor" /\ signals' = signals
      BY <1>6, <2>2 DEF ContextReady
    <2> QED BY <2>1, <2>2, <2>3 DEF Points, IdleInv
  <1>7. CASE StartMonitoring
    <2>1. /\ pdc'.context = "READY" /\ pdc'.stateCallback /\ pdc'.subscribeCallback
          /\ pdc'.subscription # "none"
          /\ ~pdc'.reconnectTimer /\ pdc'.isLoopActive /\ pc' = "loop"
          /\ signals' = signals
      BY <1>2, <1>7 DEF StartMonitoring, IdleInv, Tracked, Fields
    <2> QED BY <1>7, <2>1 DEF Points, IdleInv, StartMonitoring
  <1>8. ASSUME NEW state \in {"FAILED", "TERMINATED"}, ContextDown(state)
        PROVE  Points'
    <2>1. /\ pdc.stateCallback /\ ~pdc.reconnectTimer /\ pdc.isLoopActive
          /\ ~(signals > 0) /\ signals' = signals
      BY <1>2, <1>8 DEF ContextDown, IdleInv, Tracked, Fields
    <2>2. CASE reconnectionEnabled
      <3>1. pdc' = ContextLost(pdc, state) /\ pc' = "loop"
        BY <1>8, <2>1, <2>2 DEF ContextDown
      <3>2. /\ ContextLost(pdc, state).context = state
            /\ ContextLost(pdc, state).reconnectTimer
            /\ ContextLost(pdc, state).isLoopActive
        <4>1. /\ ContextLost(pdc, state).context = state
              /\ ContextLost(pdc, state).isLoopActive = pdc.isLoopActive
              /\ ContextLost(pdc, state).reconnectTimer
                   = (pdc.isLoopActive \/ pdc.reconnectTimer)
          BY <1>2, <1>8, ContextLostFacts, Zenon
        <4> QED BY <2>1, <4>1
      <3>3. pdc'.context = state /\ pdc'.reconnectTimer /\ pdc'.isLoopActive
        BY <3>1, <3>2
      <3> QED BY <2>1, <3>1, <3>3 DEF Points
    <2>3. CASE ~reconnectionEnabled
      <3>1. pdc' = [pdc EXCEPT !.context = state] /\ pc' = "threw"
        BY <1>8, <2>1, <2>3 DEF ContextDown
      <3>2. /\ pdc'.context = state /\ pdc'.isLoopActive
        BY <1>2, <2>1, <3>1 DEF Tracked, Fields
      <3> QED BY <2>1, <3>1, <3>2 DEF Points
    <2> QED BY <2>2, <2>3
  <1>9. CASE TimerFires
    <2> DEFINE fired == [pdc EXCEPT !.reconnectTimer = FALSE, !.inCall = TRUE]
    <2>0. pdc.reconnectTimer /\ ~pdc.inCall
      BY <1>9, FiringIsPending DEF IdleInv
    <2>1. pdc.isLoopActive /\ ~(signals > 0) /\ signals' = signals
      BY <1>2, <1>9, <2>0 DEF TimerFires, IdleInv
    <2>2. pdc' = DestroyContext(fired) /\ pc' = "recreate"
      BY <1>9, <2>1 DEF TimerFires
    <2>4. Tracked(fired) /\ ~fired.reconnectTimer /\ fired.isLoopActive
      BY <1>2, <2>0, <2>1, FiredFacts
    <2> HIDE DEF fired
    <2>3. pdc'.context = Null /\ ~pdc'.reconnectTimer /\ pdc'.isLoopActive
      BY <2>2, <2>4, DestroyContextFacts
    <2> QED BY <2>1, <2>2, <2>3 DEF Points
  <1>10. CASE Recreate
    <2>1. /\ pdc'.context = "UNCONNECTED" /\ pdc'.stateCallback
          /\ ~pdc'.subscribeCallback /\ pdc'.subscription = "none"
          /\ ~pdc'.reconnectTimer /\ pdc'.isLoopActive /\ pc' = "reconnect"
          /\ ~(signals > 0) /\ signals' = signals
      BY <1>2, <1>10 DEF Recreate, CreateContext, IdleInv, Tracked, Fields
    <2> QED BY <2>1 DEF Points
  <1>11. CASE RecreateFails
    <2> DEFINE a == [pdc EXCEPT !.context = Null]
    <2>1. Tracked(a) /\ a.context = Null /\ a.isLoopActive /\ ~(signals > 0)
      BY <1>2, <1>11 DEF RecreateFails, IdleInv, Tracked, Fields
    <2> DEFINE b == ScheduleReconnect(a)
    <2>2. pdc' = LeaveCallback(b) /\ pc' = "loop" /\ signals' = signals
      BY <1>11 DEF RecreateFails
    <2> HIDE DEF a
    <2>4. Tracked(b) /\ b.context = Null /\ b.reconnectTimer /\ b.isLoopActive
      BY <2>1, ScheduleReconnectFacts
    <2> HIDE DEF b
    <2>3. pdc'.context = Null /\ pdc'.reconnectTimer /\ pdc'.isLoopActive
      BY <2>2, <2>4, LeaveCallbackFacts
    <2> QED BY <2>1, <2>2, <2>3 DEF Points
  <1>12. CASE Reconnect
    BY <1>12, ConnectPoints DEF Reconnect
  <1>13. CASE Signal
    <2>1. /\ pdc'.context = Null /\ ~pdc'.isLoopActive /\ ~pdc'.reconnectTimer
      BY <1>2, <1>13, DeactivateFacts DEF Signal
    <2>2. pc \in QuietPoints /\ pc' = pc
      BY <1>13 DEF Signal
    <2> QED BY <2>1, <2>2 DEF Points, QuietPoints, LatePoints
  <1>14. CASE LoopReturns
    BY <1>14 DEF LoopReturns, IdleInv, Points
  <1>15. CASE Destroy
    <2>1. /\ pdc'.context = Null /\ ~pdc'.reconnectTimer
          /\ pdc'.isLoopActive = pdc.isLoopActive
      BY <1>2, <1>15, CancelReconnectTimerFacts, DestroyContextFacts DEF Destroy
    <2>2. pc' = "destroyed" /\ signals' = signals
      BY <1>15 DEF Destroy
    <2> QED BY <2>1, <2>2 DEF Points, IdleInv
  <1>16. CASE Finished \/ UNCHANGED vars
    BY <1>16 DEF Finished, vars, IdleInv, Points
  <1>17. ~MonitorNull
    BY DEF MonitorNull, IdleInv
  <1> QED
    BY <1>3, <1>4, <1>5, <1>6, <1>7, <1>8, <1>9, <1>10, <1>11, <1>12, <1>13,
       <1>14, <1>15, <1>16, <1>17
       DEF Next, MainThread, Server

LEMMA IdleInvariance ==
    ASSUME InterruptPoints \subseteq QuietPoints
    PROVE  Spec => []IdleInv
  <1>1. IdleInv /\ [Next]_vars => IdleInv'
    BY IdleNext
  <1> QED BY IdleInit, <1>1, PTL DEF Spec

\* When every signal finds the main thread idle in the loop or out of it, an
\* active connection that sleeps is alive and heard or about to be retried.
THEOREM NeverEverStranded ==
    ASSUME InterruptPoints \subseteq QuietPoints
    PROVE  Spec => []NeverStranded
  <1>1. IdleInv => NeverStranded
    BY DEF IdleInv
  <1> QED BY IdleInvariance, <1>1, PTL

\* PulseDeviceCollection.cpp:130-152, with the same signals: every context that is
\* READY when the loop sleeps, the first one or the n-th, has its own subscribe
\* callback and was asked for events; whether that worked, the code only logs.
THEOREM ReadyAlwaysMonitored ==
    ASSUME InterruptPoints \subseteq QuietPoints
    PROVE  Spec => []ReadyIsMonitored
  <1>1. IdleInv => ReadyIsMonitored
    BY DEF IdleInv
  <1> QED BY IdleInvariance, <1>1, PTL

\* With the same signals: after DeactivateAndStopLoop there is no context and
\* no timer, and none comes back.
THEOREM StopIsFinal ==
    ASSUME InterruptPoints \subseteq QuietPoints
    PROVE  Spec => []StoppedStaysStopped
  <1>1. IdleInv => StoppedStaysStopped
    BY TrackedPending
       DEF IdleInv, InactiveIsEmpty, SignalsDeactivate, StoppedStaysStopped,
           TrackedInv, TypeOK
  <1> QED BY IdleInvariance, <1>1, PTL

\* With the same signals: a loop that was told to stop ends by returning;
\* nothing is left in it that could throw or start another attempt.
THEOREM StopEndsClean ==
    ASSUME InterruptPoints \subseteq QuietPoints
    PROVE  Spec => [][signals > 0 /\ pc = "loop" /\ pc' # "loop" => pc' = "returned"]_vars
  <1>2. IdleInv /\ [Next]_vars
          => [signals > 0 /\ pc = "loop" /\ pc' # "loop" => pc' = "returned"]_vars
    <2> SUFFICES ASSUME IdleInv, Next, signals > 0, pc = "loop", pc' # "loop"
                 PROVE  pc' = "returned"
      BY DEF vars
    <2>1. pdc.context = Null /\ ~pdc.reconnectTimer
      BY DEF IdleInv, InactiveIsEmpty, SignalsDeactivate
    <2>2. ~Activate /\ ~InitialConnect /\ ~RunLoop /\ ~StartMonitoring /\ ~MonitorNull
      BY DEF Activate, InitialConnect, Connect, RunLoop, StartMonitoring, MonitorNull
    <2>3. ~Recreate /\ ~RecreateFails /\ ~Reconnect /\ ~Destroy
      BY DEF Recreate, RecreateFails, Reconnect, Connect, Destroy, LatePoints
    <2>4. ~TimerFires
      BY <2>1, FiringIsPending DEF IdleInv
    <2>5. ~Server
      BY <2>1 DEF Server, ContextReady, ContextDown, Null
    <2>6. ~Signal /\ ~Finished
      BY DEF Signal, Finished, vars
    <2>7. LoopReturns
      BY <2>2, <2>3, <2>4, <2>5, <2>6 DEF Next, MainThread
    <2> QED BY <2>7 DEF LoopReturns
  <1> QED BY IdleInvariance, <1>2, PTL DEF Spec

-----------------------------------------------------------------------------
(* Why ActivateAndStartLoop ends, wherever signals arrive.                 *)

QuitBySignal ==
    pc \in {"loop", "recreate", "reconnect", "monitor"} /\ ~loopRunning => signals > 0

\* Without a signal, whoever calls libpulse has a context to pass.
ContextThere ==
    /\ pc \in {"activate", "connect", "reconnect", "monitor"} /\ pdc.context = Null
         => signals > 0
    /\ pc = "aborted" => signals > 0

\* What an exception leaves behind is over and can report nothing more.
ThrownIsOver ==
    pc = "threw" => ~reconnectionEnabled /\ pdc.context \notin {"CONNECTING", "READY"}

EndInv == /\ pc = "returned" => signals > 0
          /\ QuitBySignal /\ ContextThere /\ ThrownIsOver

LEMMA EndInvInit == Init => EndInv
  BY DEF Init, EndInv, QuitBySignal, ContextThere, ThrownIsOver, Null

LEMMA EndInvNext == TrackedInv /\ EndInv /\ [Next]_vars => EndInv'
  <1> SUFFICES ASSUME TrackedInv, EndInv, [Next]_vars PROVE EndInv'
    OBVIOUS
  <1> USE DEF EndInv, QuitBySignal, ContextThere, ThrownIsOver, Environment, Null
  <1>1. Tracked(pdc) /\ signals \in Nat
    BY DEF TrackedInv, TypeOK
  <1>2. ASSUME NEW at \in {"connect", "reconnect"}, NEW next \in {"run", "loop"},
               Connect(at, next), at = "connect" => next = "run"
        PROVE  EndInv'
    <2>1. CASE ConnectFailsInside(next) /\ ~reconnectionEnabled
      <3>1. pdc'.context = "FAILED" /\ pc' = "threw"
        BY <1>1, <2>1 DEF ConnectFailsInside, Tracked, Fields
      <3> QED BY <1>2, <2>1, <3>1 DEF Connect
    <2>2. CASE ConnectStarts(next) \/ ConnectIsRefused(next)
               \/ (ConnectFailsInside(next) /\ reconnectionEnabled)
      <3>1. pc' = next
        BY <2>2 DEF ConnectStarts, ConnectIsRefused, ConnectFailsInside
      <3> QED BY <1>2, <3>1 DEF Connect
    <2>3. CASE ConnectOnNull
      BY <1>2, <2>3 DEF Connect, ConnectOnNull
    <2> QED BY <1>2, <2>1, <2>2, <2>3 DEF Connect
  <1>3. CASE InitialConnect \/ Reconnect
    BY <1>2, <1>3 DEF InitialConnect, Reconnect
  <1>4. CASE Activate
    <2>1. pdc'.context = pdc.context
      BY <1>1, <1>4 DEF Activate, Tracked, Fields
    <2> QED BY <1>4, <2>1 DEF Activate
  <1>5. CASE RunLoop \/ MonitorNull \/ LoopReturns \/ Destroy
    BY <1>5 DEF RunLoop, MonitorNull, LoopReturns, Destroy
  <1>6. CASE StartMonitoring
    BY <1>6 DEF StartMonitoring
  <1>7. CASE TimerFires \/ RecreateFails
    BY <1>7 DEF TimerFires, RecreateFails
  <1>8. CASE Recreate
    <2>1. pdc'.context = "UNCONNECTED"
      BY <1>1, <1>8 DEF Recreate, CreateContext, Tracked, Fields
    <2> QED BY <1>8, <2>1 DEF Recreate
  <1>9. CASE ContextReady
    <2>1. pdc'.context = "READY"
      BY <1>1, <1>9 DEF ContextReady, Tracked, Fields
    <2> QED BY <1>9, <2>1 DEF ContextReady
  <1>10. ASSUME NEW state \in {"FAILED", "TERMINATED"}, ContextDown(state)
         PROVE  EndInv'
    <2>1. CASE pc' = "threw"
      <3>1. ~reconnectionEnabled /\ pdc' = [pdc EXCEPT !.context = state]
        BY <1>10, <2>1 DEF ContextDown
      <3>2. pdc'.context = state
        BY <1>1, <3>1 DEF Tracked, Fields
      <3> QED BY <1>10, <2>1, <3>1, <3>2 DEF ContextDown
    <2>2. CASE pc' = "loop"
      BY <1>10, <2>2 DEF ContextDown
    <2> QED BY <1>10, <2>1, <2>2 DEF ContextDown
  <1>11. CASE Signal
    <2>1. pdc'.context = Null /\ signals' > 0
      BY <1>1, <1>11, DeactivateFacts DEF Signal
    <2> QED BY <1>11, <2>1 DEF Signal
  <1>12. CASE Finished \/ UNCHANGED vars
    BY <1>12 DEF Finished, vars
  <1> QED
    BY <1>3, <1>4, <1>5, <1>6, <1>7, <1>8, <1>9, <1>10, <1>11, <1>12
       DEF Next, MainThread, Server

\* PulseDeviceCollection.cpp:36-46, 206-231, 331, 340: for every point at which a
\* signal may arrive, the loop returns because a signal has stopped it, an exception
\* leaves it because reconnection is disabled, and the null context reaches libpulse
\* because a signal has cleared it.
THEOREM AlwaysEndsForAReason == Spec => []EndsForAReason
  <1>1. EndInv => EndsForAReason
    BY DEF EndInv, ContextThere, ThrownIsOver, EndsForAReason
  <1> QED BY TrackedInit, TrackedNext, EndInvInit, EndInvNext, <1>1, PTL DEF Spec

LEMMA ThrownAlwaysOver == Spec => []ThrownIsOver
  <1>1. EndInv => ThrownIsOver
    BY DEF EndInv
  <1> QED BY TrackedInit, TrackedNext, EndInvInit, EndInvNext, <1>1, PTL DEF Spec

-----------------------------------------------------------------------------
(* The refinement: PulseConnection implements ConnectionSupervisor.        *)

LEMMA ActiveKept ==
    ASSUME TrackedInv, Next, ~Activate, ~Signal
    PROVE  pdc'.isLoopActive = pdc.isLoopActive /\ signals' = signals
  <1>1. Tracked(pdc)
    BY DEF TrackedInv, TypeOK, Tracked
  <1>2. ASSUME NEW at, NEW next, Connect(at, next)
        PROVE  pdc'.isLoopActive = pdc.isLoopActive /\ signals' = signals
    <2>1. CASE ConnectStarts(next)
      <3> DEFINE a == [pdc EXCEPT !.context = "CONNECTING"]
      <3>1. Tracked(a) /\ a.isLoopActive = pdc.isLoopActive
        BY <1>1 DEF Tracked, Fields, ContextStates
      <3>2. pdc' = LeaveCallback(a) /\ signals' = signals
        BY <1>2, <2>1 DEF ConnectStarts, Connect, Environment
      <3> HIDE DEF a
      <3> QED BY <3>1, <3>2, LeaveCallbackFacts
    <2>2. CASE ConnectIsRefused(next)
      BY <1>1, <1>2, <2>2, ConnectRefusedFacts DEF ConnectIsRefused, Connect, Environment
    <2>3. CASE ConnectFailsInside(next)
      <3>1. Tracked(ContextLost(pdc, "FAILED"))
            /\ ContextLost(pdc, "FAILED").isLoopActive = pdc.isLoopActive
        BY <1>1, ContextLostFacts
      <3>2. LeaveCallback(ConnectRefused(ContextLost(pdc, "FAILED"))).isLoopActive
              = pdc.isLoopActive
        BY <3>1, ConnectRefusedFacts
      <3> QED
        BY <1>1, <1>2, <2>3, <3>2
           DEF ConnectFailsInside, Connect, Environment, Tracked, Fields
    <2>4. CASE ConnectOnNull
      BY <1>2, <2>4 DEF ConnectOnNull, Connect, Environment
    <2> QED BY <1>2, <2>1, <2>2, <2>3, <2>4 DEF Connect
  <1>3. CASE InitialConnect \/ Reconnect
    BY <1>2, <1>3 DEF InitialConnect, Reconnect
  <1>4. CASE RunLoop \/ MonitorNull \/ LoopReturns \/ Finished
    BY <1>4 DEF RunLoop, MonitorNull, LoopReturns, Finished, Environment, vars
  <1>5. CASE ContextReady \/ StartMonitoring \/ Recreate
    BY <1>1, <1>5
       DEF ContextReady, StartMonitoring, Recreate, CreateContext, Environment, Tracked, Fields
  <1>6. ASSUME NEW state \in {"FAILED", "TERMINATED"}, ContextDown(state)
        PROVE  pdc'.isLoopActive = pdc.isLoopActive /\ signals' = signals
    <2>1. ContextLost(pdc, state).isLoopActive = pdc.isLoopActive
      BY <1>1, ContextLostFacts
    <2> QED BY <1>1, <1>6, <2>1 DEF ContextDown, Environment, Tracked, Fields
  <1>7. CASE TimerFires
    <2> DEFINE fired == [pdc EXCEPT !.reconnectTimer = FALSE, !.inCall = TRUE]
    <2>1. Tracked(fired) /\ fired.isLoopActive = pdc.isLoopActive
      BY <1>1, <1>7, FiringIsPending, FiredFacts
    <2>2. /\ pdc' = DestroyContext(fired) \/ pdc' = LeaveCallback(fired)
          /\ signals' = signals
      BY <1>7 DEF TimerFires, Environment
    <2> HIDE DEF fired
    <2> QED BY <2>1, <2>2, DestroyContextFacts, LeaveCallbackFacts
  <1>8. CASE RecreateFails
    <2> DEFINE a == [pdc EXCEPT !.context = Null]
               b == ScheduleReconnect(a)
    <2>1. Tracked(a) /\ a.isLoopActive = pdc.isLoopActive
      BY <1>1 DEF Tracked, Fields
    <2>2. pdc' = LeaveCallback(b) /\ signals' = signals
      BY <1>8 DEF RecreateFails, Environment
    <2> HIDE DEF a
    <2>3. Tracked(b) /\ b.isLoopActive = pdc.isLoopActive
      BY <2>1, ScheduleReconnectFacts
    <2> HIDE DEF b
    <2> QED BY <2>2, <2>3, LeaveCallbackFacts
  <1>9. CASE Destroy
    BY <1>1, <1>9, CancelReconnectTimerFacts, DestroyContextFacts DEF Destroy, Environment
  <1> QED
    BY <1>3, <1>4, <1>5, <1>6, <1>7, <1>8, <1>9 DEF Next, MainThread, Server

\* The owner is the only one who deactivates, and the loop runs until then.
ModeInv ==
    /\ ~pdc.isLoopActive /\ pc \notin {"activate", "destroyed"} => signals > 0
    /\ pc = "activate" => ~pdc.isLoopActive
    /\ pc \in {"loop", "recreate", "reconnect", "monitor"} /\ pdc.isLoopActive => loopRunning
    /\ pc = "returned" => ~pdc.isLoopActive
    /\ pc = "threw" => pdc.isLoopActive

LEMMA ModeNext ==
    ASSUME InterruptPoints \subseteq {"loop"}, IdleInv, ModeInv, [Next]_vars
    PROVE  ModeInv'
  <1>1. Tracked(pdc) /\ signals \in Nat
    BY DEF IdleInv, TrackedInv, TypeOK, Tracked
  <1>2. CASE Activate
    BY <1>1, <1>2
       DEF Activate, ModeInv, IdleInv, AtActivate, Null, Tracked, Fields
  <1>3. CASE Signal
    <2>1. ~pdc'.isLoopActive
      BY <1>1, <1>3, DeactivateFacts DEF Signal
    <2> QED BY <1>1, <1>3, <2>1 DEF Signal, ModeInv
  <1>4. CASE Next /\ ~Activate /\ ~Signal
    <2>1. pdc'.isLoopActive = pdc.isLoopActive /\ signals' = signals
      BY <1>4, ActiveKept DEF IdleInv
    <2>2. /\ pc = "activate" => pc' \in {"activate", "destroyed"}
          /\ pc' = "activate" => pc = "activate"
          /\ pc = "destroyed" => pc' = "destroyed"
      BY <1>4 DEF Next, MainThread, Server, InitialConnect, Connect, ConnectStarts,
                  ConnectIsRefused, ConnectFailsInside, ConnectOnNull, RunLoop,
                  StartMonitoring, MonitorNull, TimerFires, Recreate, RecreateFails, Reconnect,
                  LoopReturns, Destroy, ContextReady, ContextDown, Finished, vars
    <2>3. pc' = "returned" => ~pdc.isLoopActive
      BY <1>4 DEF Next, MainThread, Server, InitialConnect, Connect, ConnectStarts,
                  ConnectIsRefused, ConnectFailsInside, ConnectOnNull, RunLoop,
                  StartMonitoring, MonitorNull, TimerFires, Recreate, RecreateFails, Reconnect,
                  LoopReturns, Destroy, ContextReady, ContextDown, Finished, vars, ModeInv
    <2>4. pc' \in {"loop", "recreate", "reconnect", "monitor"} =>
            \/ loopRunning'
            \/ loopRunning' = loopRunning /\ pc \in {"loop", "recreate", "reconnect", "monitor"}
      BY <1>4 DEF Next, MainThread, Server, InitialConnect, Connect, ConnectStarts,
                  ConnectIsRefused, ConnectFailsInside, ConnectOnNull, RunLoop,
                  StartMonitoring, MonitorNull, TimerFires, Recreate, RecreateFails, Reconnect,
                  LoopReturns, Destroy, ContextReady, ContextDown, Finished, vars
    <2>5. pc' = "threw" => pdc.isLoopActive
      <3>1. pc = "threw" \/ pc \in {"connect", "reconnect"}
            \/ (pc = "loop" /\ pdc.context \in {"CONNECTING", "READY"}) \/ pc' # "threw"
        BY <1>4 DEF Next, MainThread, Server, InitialConnect, Connect, ConnectStarts,
                  ConnectIsRefused, ConnectFailsInside, ConnectOnNull, RunLoop,
                  StartMonitoring, MonitorNull, TimerFires, Recreate, RecreateFails, Reconnect,
                  LoopReturns, Destroy, ContextReady, ContextDown, Finished, vars
      <3> QED BY <3>1 DEF ModeInv, IdleInv, ActiveOutsideLoop, InactiveIsEmpty, Null
    <2> QED BY <2>1, <2>2, <2>3, <2>4, <2>5 DEF ModeInv
  <1>5. CASE UNCHANGED vars
    BY <1>5 DEF vars, ModeInv
  <1> QED BY <1>2, <1>3, <1>4, <1>5

LEMMA RefinementStep ==
    ASSUME InterruptPoints \subseteq {"loop"}, IdleInv, ModeInv, IdleInv', ModeInv', [Next]_vars
    PROVE  [Supervisor!Next]_(Supervisor!vars)
  <1> USE DEF Supervisor!Next, Supervisor!vars, Supervisor!Try, Supervisor!Succeed,
              Supervisor!Lose, Supervisor!Retry, Supervisor!GiveUp, Supervisor!Stop,
              Supervisor!Move
  <1>1. /\ Tracked(pdc) /\ signals \in Nat
        /\ pc \in LivePoints \cup Ended /\ pc' \in LivePoints \cup Ended
        /\ pdc.isLoopActive \in BOOLEAN /\ pdc'.isLoopActive \in BOOLEAN
        /\ reconnectionEnabled \in BOOLEAN
    BY DEF IdleInv, TrackedInv, TypeOK, Tracked, Fields
  <1>2. CASE Activate
    BY <1>1, <1>2 DEF Activate, phase, Environment, IdleInv, AtActivate, Null
  <1>3. CASE Signal
    <2>1. ~pdc'.isLoopActive /\ pc = "loop" /\ pc' = "loop"
          /\ reconnectionEnabled' = reconnectionEnabled
      BY <1>1, <1>3, DeactivateFacts DEF Signal
    <2> QED BY <2>1 DEF phase
  <1>4. CASE UNCHANGED vars
    BY <1>4 DEF vars, phase
  <1>5. ASSUME Next, ~Activate, ~Signal
        PROVE  [Supervisor!Next]_(Supervisor!vars)
    <2>1. pdc'.isLoopActive = pdc.isLoopActive /\ signals' = signals
      BY <1>5, ActiveKept DEF IdleInv
    <2>2. CASE InitialConnect
      <3>1. /\ pc = "connect" /\ pdc.isLoopActive
            /\ reconnectionEnabled' = reconnectionEnabled
            /\ pc' = "run" \/ (pc' = "threw" /\ ~reconnectionEnabled)
        BY <2>2 DEF InitialConnect, Connect, ConnectStarts, ConnectIsRefused,
                    ConnectFailsInside, ConnectOnNull, Environment, IdleInv,
                    ActiveOutsideLoop, NotAborted
      <3>2. pc' = "run" => pdc'.context # "READY"
        BY DEF IdleInv, AtRun
      <3> QED BY <2>1, <3>1, <3>2 DEF phase
    <2>3. CASE RunLoop
      <3>1. /\ pc = "run" /\ pc' = "loop" /\ pdc' = pdc
            /\ reconnectionEnabled' = reconnectionEnabled
        BY <2>3 DEF RunLoop, Environment
      <3> QED BY <3>1 DEF phase
    <2>4. CASE ContextReady
      <3>1. /\ pc = "loop" /\ pdc.context = "CONNECTING" /\ pdc.isLoopActive
            /\ pc' \in {"monitor", "loop"} /\ pdc'.context = "READY"
            /\ reconnectionEnabled' = reconnectionEnabled
        BY <1>1, <2>4 DEF ContextReady, Environment, IdleInv, InactiveIsEmpty, Null,
                          Tracked, Fields
      <3> QED BY <2>1, <3>1 DEF phase
    <2>5. CASE StartMonitoring
      <3>1. /\ pc = "monitor" /\ pdc.context = "READY" /\ pdc.isLoopActive
            /\ pc' = "loop" /\ pdc'.context = "READY"
            /\ reconnectionEnabled' = reconnectionEnabled
        BY <1>1, <2>5 DEF StartMonitoring, Environment, IdleInv, AtMonitor,
                          ActiveOutsideLoop, NotAborted, Tracked, Fields
      <3> QED BY <2>1, <3>1 DEF phase
    <2>6. ASSUME NEW state \in {"FAILED", "TERMINATED"}, ContextDown(state)
          PROVE  [Supervisor!Next]_(Supervisor!vars)
      <3>1. /\ pc = "loop" /\ pdc.context \in {"CONNECTING", "READY"} /\ pdc.isLoopActive
            /\ pdc.stateCallback /\ reconnectionEnabled' = reconnectionEnabled
            /\ pc' = "loop" \/ (pc' = "threw" /\ ~reconnectionEnabled)
        BY <2>6 DEF ContextDown, Environment, IdleInv, InactiveIsEmpty, AtLoop, Null
      <3>2. ContextLost(pdc, state).context = state
        BY <1>1, ContextLostFacts
      <3>3. pdc'.context = state
        BY <1>1, <2>6, <3>2 DEF ContextDown, Tracked, Fields
      <3> QED BY <2>1, <3>1, <3>3 DEF phase
    <2>7. CASE TimerFires
      <3>1. pdc.reconnectTimer /\ pc = "loop"
        BY <2>7, FiringIsPending DEF TimerFires, IdleInv
      <3>2. pdc.isLoopActive /\ pdc.context \notin {"CONNECTING", "READY"}
        BY <3>1 DEF IdleInv, InactiveIsEmpty, NeverStranded, AtLoop, Alive
      <3>3. pc' = "recreate" /\ reconnectionEnabled' = reconnectionEnabled
        BY <2>7, <3>2 DEF TimerFires, Environment
      <3> QED BY <2>1, <3>1, <3>2, <3>3 DEF phase
    <2>8. CASE Recreate
      <3>1. /\ pc = "recreate" /\ pc' = "reconnect" /\ pdc.isLoopActive
            /\ reconnectionEnabled' = reconnectionEnabled
        BY <2>8 DEF Recreate, Environment, IdleInv, ActiveOutsideLoop
      <3> QED BY <2>1, <3>1 DEF phase
    <2>9. CASE RecreateFails
      <3>1. /\ pc = "recreate" /\ pc' = "loop" /\ pdc.isLoopActive
            /\ reconnectionEnabled' = reconnectionEnabled
        BY <2>9 DEF RecreateFails, Environment, IdleInv, ActiveOutsideLoop
      <3> QED BY <2>1, <3>1 DEF phase
    <2>10. CASE Reconnect
      <3>1. /\ pc = "reconnect" /\ pdc.isLoopActive
            /\ reconnectionEnabled' = reconnectionEnabled
            /\ pc' = "loop" \/ (pc' = "threw" /\ ~reconnectionEnabled)
        BY <2>10 DEF Reconnect, Connect, ConnectStarts, ConnectIsRefused,
                     ConnectFailsInside, ConnectOnNull, Environment, IdleInv,
                     ActiveOutsideLoop, NotAborted
      <3> QED BY <2>1, <3>1 DEF phase
    <2>11. CASE LoopReturns
      <3>1. /\ pc = "loop" /\ pc' = "returned" /\ pdc' = pdc
            /\ reconnectionEnabled' = reconnectionEnabled /\ ~pdc.isLoopActive
        BY <2>11 DEF LoopReturns, Environment, ModeInv
      <3> QED BY <3>1 DEF phase
    <2>12. CASE Destroy
      <3>1. \/ pc \in {"activate", "returned"} /\ ~pdc.isLoopActive
            \/ pc = "threw" /\ pdc.isLoopActive
        BY <2>12 DEF Destroy, LatePoints, ModeInv, IdleInv, ActiveOutsideLoop
      <3>2. pc' = "destroyed" /\ reconnectionEnabled' = reconnectionEnabled
        BY <2>12 DEF Destroy, Environment
      <3> QED BY <2>1, <3>1, <3>2 DEF phase
    <2>13. CASE Finished
      BY <2>13 DEF Finished, vars, phase
    <2>14. ~MonitorNull
      BY DEF MonitorNull, IdleInv, AtMonitor, Null
    <2> QED
      BY <1>5, <2>2, <2>3, <2>4, <2>5, <2>6, <2>7, <2>8, <2>9, <2>10, <2>11, <2>12, <2>13,
         <2>14
         DEF Next, MainThread, Server
  <1> QED BY <1>2, <1>3, <1>4, <1>5

\* The safety part of the refinement: every step of the connection half is a
\* step of the supervisor or leaves its phase alone.
THEOREM ImplementsSupervisor ==
    ASSUME InterruptPoints \subseteq {"loop"}
    PROVE  Spec => Supervisor!SafeSpec
  <1>1. Init => IdleInv /\ ModeInv /\ Supervisor!Init
    BY IdleInit
       DEF Init, ModeInv, Supervisor!Init, phase
  <1>2. IdleInv /\ ModeInv /\ [Next]_vars => (IdleInv /\ ModeInv)'
    <2>1. InterruptPoints \subseteq QuietPoints
      BY DEF QuietPoints
    <2> QED BY <2>1, IdleNext, ModeNext
  <1>3. IdleInv /\ ModeInv /\ (IdleInv /\ ModeInv)' /\ [Next]_vars
          => [Supervisor!Next]_(Supervisor!vars)
    BY RefinementStep
  <1> QED BY <1>1, <1>2, <1>3, PTL DEF Spec, Supervisor!SafeSpec
=============================================================================
