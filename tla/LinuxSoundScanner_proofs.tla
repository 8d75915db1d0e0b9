----------------------- MODULE LinuxSoundScanner_proofs -----------------------
(***************************************************************************)
(* The process for every setting, every number of signals and messages.    *)
(* Its steps are steps of the connection and of the publisher, so what is  *)
(* proved of these holds inside it; what is left is the scanner's own      *)
(* bookkeeping: which objects exist while the others run.                  *)
(***************************************************************************)
EXTENDS LinuxSoundScanner, TLAPS

LEMMA StepsOfComponents ==
    ASSUME [Next]_vars
    PROVE  [Connection!Next]_connection /\ [Publisher!Next]_publisher
  <1> USE DEF connection, publisher, scanner, vars
  <1>1. CASE Start
    BY <1>1 DEF Start, Initialize, BadConfiguration, ConsoleOutputOnly, CreateCollection,
         CreateEmptyDispatcher, ConnectPublisher, CreateRabbitMqDispatcher,
         SubscribeObserver, SetupSignalHandlers, Publisher!Next
  <1>2. CASE RunConnection
    BY <1>2 DEF RunConnection, Connection!Next, Connection!MainThread
  <1>3. CASE DispatchState
    BY <1>3 DEF DispatchState, Connection!Next
  <1>4. CASE NotifyObserver \/ SendReturns \/ SendIsRefused \/ BrokerAnswers
    BY <1>4 DEF NotifyObserver, SendReturns, SendIsRefused, BrokerAnswers, Publisher!Next
  <1>5. CASE Leave
    BY <1>5 DEF Leave, Unsubscribe, Unwind, Abort, DestroyTarget, DestroyObserver,
         ClosePublisher, DestroyDispatcher, DestroyCollection, Exit, DestroyLocal,
         Publisher!Next, Connection!Next, Connection!MainThread
  <1>6. CASE Signal
    BY <1>6 DEF Signal, KilledBySignal, SignalStops, SignalHitsDeadTarget, SignalDeadlocks,
         Connection!Next
  <1>7. CASE Finished \/ UNCHANGED vars
    BY <1>7 DEF Finished
  <1> QED BY <1>1, <1>2, <1>3, <1>4, <1>5, <1>6, <1>7 DEF Next

\* The process does to its collection and its publisher only what their modules
\* allow: whatever is proved of one of them alone holds of it in the process,
\* with the other one's callbacks, signals and teardown in between.
THEOREM RunsItsComponents == Spec => Connection!Spec /\ Publisher!Spec
  <1>1. Init => Connection!Init /\ Publisher!Init
    BY DEF Init
  <1>2. [Next]_vars => /\ [Connection!Next]_(Connection!vars)
                       /\ [Publisher!Next]_(Publisher!vars)
    BY StepsOfComponents DEF connection, publisher, Connection!vars, Publisher!vars
  <1> QED BY <1>1, <1>2, PTL DEF Spec, Connection!Spec, Publisher!Spec

LEMMA ComponentTypes == Spec => [](Connection!TypeOK /\ Publisher!TypeOK)
  <1>1. Connection!Spec => []Connection!TypeOK
    BY ScannerAssumption, Connection!TypeCorrect
       DEF ScannerAssumption, Connection!ConnectionAssumption
  <1>2. Publisher!Spec => []Publisher!TypeOK
    BY ScannerAssumption, Publisher!PublisherTypeCorrect
       DEF ScannerAssumption, Publisher!PublisherAssumption
  <1> QED BY RunsItsComponents, <1>1, <1>2, PTL

LEMMA LoopEndsForAReason ==
    Spec => [](Connection!EndsForAReason /\ Connection!ThrownIsOver)
  <1>1. Connection!Spec => []Connection!EndsForAReason
    BY ScannerAssumption, Connection!AlwaysEndsForAReason
       DEF ScannerAssumption, Connection!ConnectionAssumption
  <1>2. Connection!Spec => []Connection!ThrownIsOver
    BY ScannerAssumption, Connection!ThrownAlwaysOver
       DEF ScannerAssumption, Connection!ConnectionAssumption
  <1> QED BY RunsItsComponents, <1>1, <1>2, PTL
-----------------------------------------------------------------------------
(* The scanner's own invariant.                                            *)

Starting == {"initialize", "collection", "dispatcher", "observer", "handlers"}

\* What exists is what was constructed first.
Prefixes == {{}, {"collection"}, {"collection", "dispatcher"},
             {"collection", "dispatcher", "observer"}, Locals}

\* Where main is tells what exists.
Constructed ==
    /\ alive \in Prefixes
    /\ step \in {"initialize", "collection"} => alive = {}
    /\ step = "dispatcher" => alive = {"collection"}
    /\ step = "observer" => alive = {"collection", "dispatcher"}
    /\ step = "handlers" => alive = {"collection", "dispatcher", "observer"}
    /\ step = "loop" => alive = Locals
    /\ step \notin {"initialize", "ended"} => transport \in {"None", "RabbitMQ"}

\* A callback that publishes is one of the loop, which waits for it.
CallbackInLoop == InCallback => step = "loop" /\ connPc = "loop"

HandlersKnown ==
    /\ step \in Starting => ~handlers /\ outcome = "running"
    /\ step \in {"handlers", "loop"} => observing
    /\ step = "loop" => handlers /\ outcome = "running"

\* Once the loop has been left, it was for a stop or for an exception.
LeftForAReason ==
    handlers /\ step = "leave" /\ signals = 0 =>
        observing /\ connPc \in {"threw", "destroyed"}

\* The connection is not there before its loop, nor after its object.
ConnectionWhere ==
    /\ step \in Starting => connPc = "activate"
    /\ connPc = "destroyed" => "collection" \notin alive

\* Who still holds a dead observer.
DeadObserverHeld ==
    /\ step \in {"initialize", "collection", "dispatcher", "observer"} => ~observing
    /\ step = "leave" /\ observing =>
         outcome = "software" /\ connPc \in {"threw", "destroyed"}
    /\ observing /\ "collection" \in alive /\ "observer" \notin alive =>
         step \in {"leave", "ended"} /\ outcome # "ok" /\ connPc = "threw"

ScannerTypeOK ==
    /\ step \in Steps
    /\ alive \subseteq Locals
    /\ observing \in BOOLEAN /\ handlers \in BOOLEAN /\ stuck \in BOOLEAN
    /\ transport \in {"", "None", "RabbitMQ"}
    /\ outcome \in Outcomes

ScannerInv ==
    /\ ScannerTypeOK
    /\ Constructed /\ CallbackInLoop /\ HandlersKnown /\ LeftForAReason
    /\ FirstSignalIsSafe /\ ConnectionWhere /\ DeadObserverHeld

Known == /\ signals \in Nat
         /\ Connection!EndsForAReason

LEMMA ScannerInit == Init => ScannerInv
  BY DEF Init, ScannerInv, ScannerTypeOK, Steps, Locals, Outcomes, Constructed, Prefixes,
         CallbackInLoop, InCallback, HandlersKnown, Starting, LeftForAReason,
         FirstSignalIsSafe, ConnectionWhere, DeadObserverHeld, Publisher!Init,
         Connection!Init

\* A step that leaves the scanner's own variables, starts no send and moves no
\* program point.
LEMMA Undisturbed ==
    ASSUME ScannerInv, UNCHANGED scanner, connPc' = connPc,
           pubPc' = "send" => pubPc = "send", signals' = 0 => signals = 0
    PROVE  ScannerInv'
  <1>1. ScannerTypeOK'
    BY DEF ScannerInv, ScannerTypeOK, scanner
  <1>2. Constructed'
    BY DEF ScannerInv, Constructed, scanner
  <1>3. CallbackInLoop' /\ HandlersKnown'
    BY DEF ScannerInv, CallbackInLoop, InCallback, HandlersKnown, scanner
  <1>4. LeftForAReason' /\ FirstSignalIsSafe'
    BY DEF ScannerInv, LeftForAReason, FirstSignalIsSafe, scanner
  <1>5. ConnectionWhere' /\ DeadObserverHeld'
    BY DEF ScannerInv, ConnectionWhere, DeadObserverHeld, scanner
  <1> QED BY <1>1, <1>2, <1>3, <1>4, <1>5 DEF ScannerInv

\* The loop and the server's callbacks leave the object there.
LEMMA LoopKeepsObject ==
    ASSUME RunConnection \/ DispatchState
    PROVE  connPc' # "destroyed" \/ connPc = "destroyed"
  BY DEF RunConnection, DispatchState, Connection!Activate, Connection!InitialConnect,
         Connection!RunLoop, Connection!StartMonitoring, Connection!MonitorNull,
         Connection!TimerFires, Connection!Recreate, Connection!RecreateFails,
         Connection!Reconnect, Connection!LoopReturns, Connection!Connect,
         Connection!ConnectStarts, Connection!ConnectIsRefused,
         Connection!ConnectFailsInside, Connection!ConnectOnNull, Connection!Server,
         Connection!ContextReady, Connection!ContextDown

LEMMA ScannerNext ==
    ASSUME ScannerInv, Known, [Next]_vars
    PROVE  ScannerInv'
  <1>0. connPc = "returned" => signals # 0
    BY DEF Known, Connection!EndsForAReason
  <1>1. CASE BrokerAnswers
    <2>1. UNCHANGED <<connection, scanner>> /\ pubPc' = pubPc
      BY <1>1 DEF BrokerAnswers, Publisher!Broker, Publisher!Confirm
    <2> QED BY <2>1, Undisturbed DEF connection
  <1>2. CASE ClosePublisher
    <2>1. UNCHANGED <<connection, scanner>> /\ pubPc' # "send"
      BY <1>2 DEF ClosePublisher, Publisher!Close, Publisher!Destructor,
         Publisher!WaitForConfirms, Publisher!WaitForConfirmsFails,
         Publisher!ReleaseProducer, Publisher!ReleaseVHost, Publisher!ReleaseContext
    <2> QED BY <2>1, Undisturbed DEF connection
  <1>3. CASE SignalStops
    <2>1. UNCHANGED <<publisher, scanner>> /\ connPc' = connPc /\ signals' = signals + 1
      BY <1>3 DEF SignalStops, Connection!Signal
    <2>2. signals' # 0 /\ pubPc' = pubPc
      BY <2>1 DEF Known, publisher
    <2> QED BY <2>1, <2>2, Undisturbed
  <1>4. CASE Finished \/ UNCHANGED vars
    <2>1. UNCHANGED <<connection, publisher, scanner>>
      BY <1>4 DEF Finished, vars
    <2> QED BY <2>1, Undisturbed DEF connection, publisher
  <1> USE DEF connection, publisher, scanner, vars, ScannerInv, ScannerTypeOK, Steps,
         Locals, Outcomes, Constructed, Prefixes, CallbackInLoop, InCallback,
         HandlersKnown, Starting, LeftForAReason, FirstSignalIsSafe, ConnectionWhere,
         DeadObserverHeld, Known, At, End
  <1>5. CASE Initialize
    BY <1>5 DEF Initialize, Validated
  <1>6. CASE BadConfiguration \/ ConsoleOutputOnly
    BY <1>6 DEF BadConfiguration, ConsoleOutputOnly
  <1>7. CASE CreateCollection
    BY <1>7 DEF CreateCollection
  <1>8. CASE CreateEmptyDispatcher
    BY <1>8 DEF CreateEmptyDispatcher
  <1>9. CASE ConnectPublisher
    BY <1>9 DEF ConnectPublisher, Publisher!Constructor, Publisher!CreateContext,
         Publisher!CreateVHost, Publisher!CreateProducer, Publisher!Obtain,
         Publisher!AttemptFails, Publisher!Cleanup, Publisher!ReleaseVHost,
         Publisher!ReleaseContext, Publisher!Retry
  <1>10. CASE CreateRabbitMqDispatcher
    BY <1>10 DEF CreateRabbitMqDispatcher
  <1>11. CASE SubscribeObserver
    BY <1>11 DEF SubscribeObserver
  <1>12. CASE SetupSignalHandlers
    <2>1. alive' = Locals /\ transport \in {"None", "RabbitMQ"} /\ pubPc # "send"
      BY <1>12 DEF SetupSignalHandlers
    <2>2. /\ step' = "loop" /\ handlers' /\ handlers' \in BOOLEAN /\ outcome = "running"
          /\ UNCHANGED <<connPc, pubPc, signals, observing, transport, outcome, stuck>>
          /\ observing
      BY <1>12 DEF SetupSignalHandlers
    <2>3. ScannerTypeOK' /\ Constructed'
      BY <2>1, <2>2
    <2>4. ConnectionWhere' /\ DeadObserverHeld'
      <3>1. connPc = "activate"
        BY <1>12 DEF SetupSignalHandlers
      <3> QED BY <2>1, <2>2, <3>1
    <2> HIDE DEF ConnectionWhere, DeadObserverHeld
    <2> QED BY <2>1, <2>2, <2>3, <2>4
  <1>13. CASE RunConnection
    BY <1>13, LoopKeepsObject DEF RunConnection
  <1>14. CASE DispatchState
    BY <1>14, LoopKeepsObject DEF DispatchState
  <1>15. CASE NotifyObserver
    BY <1>15 DEF NotifyObserver
  <1>16. CASE SendReturns \/ SendIsRefused
    BY <1>16 DEF SendReturns, SendIsRefused, Publisher!Sent, Publisher!SendRefused
  <1>17. CASE Unsubscribe
    <2>1. /\ connPc = "returned" /\ alive = Locals /\ pubPc # "send"
          /\ transport \in {"None", "RabbitMQ"}
      BY <1>17 DEF Unsubscribe
    <2>2. signals # 0
      BY <1>0, <2>1
    <2>3. /\ step' = "leave" /\ outcome' = "ok" /\ observing' \in BOOLEAN
          /\ UNCHANGED <<connPc, pubPc, signals, alive, handlers, transport, stuck>>
      BY <1>17 DEF Unsubscribe
    <2>4. ScannerTypeOK' /\ Constructed'
      BY <2>1, <2>3
    <2>5. ConnectionWhere' /\ DeadObserverHeld'
      <3>1. observing' = FALSE
        BY <1>17 DEF Unsubscribe
      <3> QED BY <2>1, <2>3, <3>1
    <2> HIDE DEF ConnectionWhere, DeadObserverHeld
    <2> QED BY <2>1, <2>2, <2>3, <2>4, <2>5
  <1>18. CASE Unwind
    BY <1>18 DEF Unwind
  <1>19. CASE Abort
    BY <1>19 DEF Abort
  <1>20. CASE DestroyTarget \/ DestroyObserver \/ DestroyDispatcher
    <2>1. alive' \in Prefixes
      BY <1>20 DEF DestroyTarget, DestroyObserver, DestroyDispatcher, DestroyLocal
    <2>2. /\ step = "leave"
          /\ UNCHANGED <<connection, publisher, step, observing, handlers, transport, outcome,
                         stuck>>
      BY <1>20 DEF DestroyTarget, DestroyObserver, DestroyDispatcher, DestroyLocal
    <2>3. ScannerTypeOK' /\ Constructed' /\ CallbackInLoop' /\ HandlersKnown'
          /\ LeftForAReason' /\ FirstSignalIsSafe'
      BY <2>1, <2>2
    <2>4. ConnectionWhere' /\ DeadObserverHeld'
      <3>1. alive' \subseteq alive
        BY <1>20 DEF DestroyTarget, DestroyObserver, DestroyDispatcher, DestroyLocal
      <3>2. CASE "collection" \in alive
        BY <2>1, <2>2, <3>1, <3>2
      <3>3. CASE "collection" \notin alive
        BY <2>1, <2>2, <3>1, <3>3
      <3> QED BY <3>2, <3>3
    <2> HIDE DEF ConnectionWhere, DeadObserverHeld
    <2> QED BY <2>3, <2>4
  <1>21. CASE DestroyCollection
    BY <1>21 DEF DestroyCollection, DestroyLocal, Connection!Destroy, Connection!Environment
  <1>22. CASE Exit
    BY <1>22 DEF Exit
  <1>23. CASE KilledBySignal
    BY <1>23 DEF KilledBySignal
  <1>24. CASE SignalHitsDeadTarget
    BY <1>24 DEF SignalHitsDeadTarget
  <1>25. CASE SignalDeadlocks
    BY <1>25 DEF SignalDeadlocks
  <1> QED
    BY <1>1, <1>2, <1>3, <1>4, <1>5, <1>6, <1>7, <1>8, <1>9, <1>10, <1>11, <1>12, <1>13,
       <1>14, <1>15, <1>16, <1>17, <1>18, <1>19, <1>20, <1>21, <1>22, <1>23, <1>24, <1>25
       DEF Next, Start, Leave, Signal

LEMMA ScannerInvariance == Spec => []ScannerInv
  <1>1. Connection!TypeOK /\ Connection!EndsForAReason => Known
    BY ScannerAssumption
       DEF Known, Connection!TypeOK, ScannerAssumption, Connection!ConnectionAssumption
  <1>2. ScannerInv /\ Known /\ [Next]_vars => ScannerInv'
    BY ScannerNext
  <1> QED BY ScannerInit, ComponentTypes, LoopEndsForAReason, <1>1, <1>2, PTL DEF Spec
-----------------------------------------------------------------------------
(* What the runs check, for every constant.                                *)

\* Every variable of the process has its type, those of its collection and of
\* its publisher included.
THEOREM ScannerTypeCorrect == Spec => []TypeOK
  <1>1. Connection!TypeOK /\ Publisher!TypeOK /\ ScannerInv => TypeOK
    BY DEF ScannerInv, ScannerTypeOK, TypeOK
  <1> QED BY <1>1, ComponentTypes, ScannerInvariance, PTL

\* LinuxSoundScanner.cpp:167-217: what the observer and the handler's target hold by
\* reference outlives them, wherever main is left.
THEOREM ReferencesAlwaysLive == Spec => []ReferencesLive
  <1>1. ScannerInv => ReferencesLive
    <2> SUFFICES ASSUME ScannerInv PROVE ReferencesLive
      OBVIOUS
    <2>1. alive \in Prefixes
      BY DEF ScannerInv, Constructed
    <2> QED BY <2>1 DEF ReferencesLive, Prefixes, Locals
  <1> QED BY <1>1, ScannerInvariance, PTL

\* LinuxSoundScanner.cpp:219, 225: the one reference that does dangle, the observer in
\* the collection's list, is there only after an exception of the loop, with nothing
\* left that would notify, wherever signals arrive.
THEOREM DeadObserverNeverReached == Spec => []DeadObserverUnreachable
  <1>1. ScannerInv /\ Connection!ThrownIsOver => DeadObserverUnreachable
    BY DEF ScannerInv, DeadObserverHeld, Connection!ThrownIsOver, DeadObserverUnreachable
  <1> QED BY <1>1, ScannerInvariance, LoopEndsForAReason, PTL

\* The first signal after the handlers are installed finds its target, unless
\* an exception has ended the loop.
THEOREM FirstSignalAlwaysSafe == Spec => []FirstSignalIsSafe
  <1>1. ScannerInv => FirstSignalIsSafe
    BY DEF ScannerInv
  <1> QED BY <1>1, ScannerInvariance, PTL

\* A stop leaves nothing in the loop that could throw, whatever the dispatcher
\* and the observer do meanwhile.
THEOREM StopsAreClean ==
    ASSUME InterruptPoints \subseteq Connection!QuietPoints
    PROVE  Spec => StopIsClean
  <1>1. Connection!Spec =>
            [][signals > 0 /\ connPc = "loop" /\ connPc' # "loop"
                   => connPc' = "returned"]_(Connection!vars)
    BY ScannerAssumption, Connection!StopEndsClean
       DEF ScannerAssumption, Connection!ConnectionAssumption
  <1>2. [signals > 0 /\ connPc = "loop" /\ connPc' # "loop"
             => connPc' = "returned"]_(Connection!vars)
        => [signals > 0 /\ connPc = "loop" /\ connPc' # "loop"
                => connPc' = "returned"]_vars
    BY DEF Connection!vars
  <1> QED BY <1>1, <1>2, RunsItsComponents, PTL DEF StopIsClean
=============================================================================
