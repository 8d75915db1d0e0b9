--------------------------- MODULE LinuxSoundScanner ---------------------------
(***************************************************************************)
(* LinuxSoundScanner (LinuxSoundScanner.cpp): the process.  main creates   *)
(* the device collection and the dispatcher, subscribes a ServiceObserver, *)
(* installs the signal handlers, waits in the collection's loop and tears  *)
(* all of it down in the opposite order.                                   *)
(*                                                                         *)
(* The collection's connection half and the publisher are the modules of   *)
(* their own, composed here on the one main thread they share: a callback  *)
(* of the loop calls the observer, the observer calls the dispatcher, and  *)
(* while the publisher's send blocks, nothing else of the loop runs.  The  *)
(* signals do: they interrupt a send as well as anything else, before the  *)
(* handlers are there and after the objects they refer to are gone.        *)
(***************************************************************************)
EXTENDS Integers

CONSTANTS InitialDelayMs, GuintRange, MaxSignals, InterruptPoints
CONSTANTS MaxAttempts, FirstDelay, MaxDelay, MaxUnconfirmed, MaxMessages

VARIABLES pdc, loopRunning, connPc, reconnectionEnabled, signals
VARIABLES pubPc, attempt, delay, resources, tally, flushFailed
VARIABLES
    step,        \* where main is
    alive,       \* the locals of main's try block that exist
    observing,   \* the collection's observers_ holds the observer
    handlers,    \* SIGTERM and SIGINT go to SignalHandler
    transport,   \* transportMethod_
    outcome,     \* how the process ends, once that is decided
    stuck        \* the main thread waits for a lock it holds itself

connection == <<pdc, loopRunning, connPc, reconnectionEnabled, signals>>
publisher  == <<pubPc, attempt, delay, resources, tally, flushFailed>>
scanner    == <<step, alive, observing, handlers, transport, outcome, stuck>>
vars       == <<connection, publisher, scanner>>

\* The components with their theorems, which the proofs about the process cite.
Connection == INSTANCE PulseConnection_proofs WITH pc <- connPc
Publisher  == INSTANCE RequestPublisher_proofs WITH pc <- pubPc

ASSUME ScannerAssumption ==
    Connection!ConnectionAssumption /\ Publisher!PublisherAssumption

Steps == {"initialize", "collection", "dispatcher", "observer", "handlers",
          "loop", "leave", "ended"}

\* The locals, in the order of their construction; target is what the signal
\* handler's callback has captured by reference.
Locals == {"collection", "dispatcher", "observer", "target"}

Outcomes == {"running", "ok", "software", "config", "killed", "aborted", "crashed"}

TypeOK ==
    /\ Connection!TypeOK /\ Publisher!TypeOK
    /\ step \in Steps
    /\ alive \subseteq Locals
    /\ observing \in BOOLEAN /\ handlers \in BOOLEAN /\ stuck \in BOOLEAN
    /\ transport \in {"", "None", "RabbitMQ"}
    /\ outcome \in Outcomes

Init ==
    /\ Connection!Init /\ Publisher!Init
    /\ step = "initialize"
    /\ alive = {}
    /\ observing = FALSE /\ handlers = FALSE /\ stuck = FALSE
    /\ transport = ""
    /\ outcome = "running"

At(place) == step = place /\ ~stuck

End(how) == step' = "ended" /\ outcome' = how

-----------------------------------------------------------------------------
(* initialize and the first half of main.                                  *)

\* What the command line and the configuration may hold; "" is not given.
Methods == {"", "None", "RabbitMQ", "other"}

\* Mutant: any transport method is accepted.
ValidatedUnchecked(method) == method

Validated(method) == IF method \in {"None", "RabbitMQ"} THEN method ELSE "None"

\* The command line goes before the configuration.
Initialize ==
    /\ At("initialize")
    /\ \E commandLine \in Methods, configured \in Methods :
          transport' = Validated(IF commandLine = "" THEN configured ELSE commandLine)
    /\ step' = "collection"
    /\ UNCHANGED <<connection, publisher, alive, observing, handlers, outcome, stuck>>

\* A setting that is no Boolean or no number throws out of initialize.
BadConfiguration ==
    /\ At("initialize")
    /\ End("config")
    /\ UNCHANGED <<connection, publisher, alive, observing, handlers, transport, stuck>>

\* --help and --version: main returns at once.
ConsoleOutputOnly ==
    /\ At("initialize")
    /\ End("ok")
    /\ UNCHANGED <<connection, publisher, alive, observing, handlers, transport, stuck>>

CreateCollection ==
    /\ At("collection")
    /\ alive' = {"collection"}
    /\ step' = "dispatcher"
    /\ UNCHANGED <<connection, publisher, observing, handlers, transport, outcome, stuck>>

\* The EmptyDispatcher; any other method than these two leaves a null pointer.
CreateEmptyDispatcher ==
    /\ At("dispatcher") /\ transport # "RabbitMQ"
    /\ alive' = IF transport = "None" THEN alive \cup {"dispatcher"} ELSE alive
    /\ step' = "observer"
    /\ UNCHANGED <<connection, publisher, observing, handlers, transport, outcome, stuck>>

\* RabbitMqHttpRequestDispatcher constructs the publisher, on this thread.
ConnectPublisher ==
    /\ At("dispatcher") /\ transport = "RabbitMQ"
    /\ Publisher!Constructor
    /\ UNCHANGED <<connection, scanner>>

CreateRabbitMqDispatcher ==
    /\ At("dispatcher") /\ pubPc = "open"
    /\ alive' = alive \cup {"dispatcher"}
    /\ step' = "observer"
    /\ UNCHANGED <<connection, publisher, observing, handlers, transport, outcome, stuck>>

SubscribeObserver ==
    /\ At("observer")
    /\ alive' = alive \cup {"observer"}
    /\ observing' = TRUE
    /\ step' = "handlers"
    /\ UNCHANGED <<connection, publisher, handlers, transport, outcome, stuck>>

\* Mutant: the target is a temporary of the call.
SetupSignalHandlersOnTemporary ==
    /\ At("handlers")
    /\ handlers' = TRUE
    /\ step' = "loop"
    /\ UNCHANGED <<connection, publisher, alive, observing, transport, outcome, stuck>>

SetupSignalHandlers ==
    /\ At("handlers")
    /\ alive' = alive \cup {"target"}
    /\ handlers' = TRUE
    /\ step' = "loop"
    /\ UNCHANGED <<connection, publisher, observing, transport, outcome, stuck>>
-----------------------------------------------------------------------------
(* The loop.                                                               *)

InCallback == pubPc = "send"

\* A step of ActivateAndStartLoop or of a timer.
RunConnection ==
    /\ At("loop") /\ ~InCallback
    /\ \/ Connection!Activate \/ Connection!InitialConnect \/ Connection!RunLoop
       \/ Connection!StartMonitoring \/ Connection!MonitorNull \/ Connection!TimerFires
       \/ Connection!Recreate \/ Connection!RecreateFails \/ Connection!Reconnect
       \/ Connection!LoopReturns
    /\ UNCHANGED <<publisher, scanner>>

\* The loop dispatches a change of the context's state.
DispatchState ==
    /\ At("loop") /\ ~InCallback
    /\ Connection!Server
    /\ UNCHANGED <<publisher, scanner>>

\* An info callback notifies the observer, which publishes.
NotifyObserver ==
    /\ At("loop") /\ observing
    /\ connPc = "loop" /\ pdc.context = "READY"
    /\ Publisher!Publish
    /\ UNCHANGED <<connection, scanner>>

SendReturns ==
    /\ At("loop")
    /\ Publisher!Sent
    /\ UNCHANGED <<connection, scanner>>

SendIsRefused ==
    /\ At("loop")
    /\ Publisher!SendRefused
    /\ UNCHANGED <<connection, scanner>>

-----------------------------------------------------------------------------
(* The second half of main.                                                *)

\* Mutant: the observer is left in the collection's list.
UnsubscribeForgotten ==
    /\ At("loop") /\ connPc = "returned"
    /\ step' = "leave"
    /\ outcome' = "ok"
    /\ UNCHANGED <<connection, publisher, alive, observing, handlers, transport, stuck>>

Unsubscribe ==
    /\ At("loop") /\ connPc = "returned"
    /\ observing' = FALSE
    /\ step' = "leave"
    /\ outcome' = "ok"
    /\ UNCHANGED <<connection, publisher, alive, handlers, transport, stuck>>

\* An exception reaches the handler of main: the collection's constructor, the
\* publisher's or a callback threw.  Unsubscribe is skipped, and observers_ goes on
\* holding the observer.
Unwind ==
    /\ \/ At("collection")
       \/ At("dispatcher") /\ pubPc = "threw"
       \/ At("loop") /\ connPc = "threw"
    /\ step' = "leave"
    /\ outcome' = "software"
    /\ UNCHANGED <<connection, publisher, alive, observing, handlers, transport, stuck>>

\* An exception of a callback does not get through the frames of the C
\* libraries that called it and std::terminate aborts, or libpulse does.
Abort ==
    /\ At("loop") /\ connPc \in {"threw", "aborted"}
    /\ End("aborted")
    /\ UNCHANGED <<connection, publisher, alive, observing, handlers, transport, stuck>>

\* The end of the try block: the locals go in the opposite order.
DestroyLocal(local, after) ==
    /\ At("leave") /\ local \in alive /\ alive \cap after = {}
    /\ alive' = alive \ {local}
    /\ UNCHANGED <<step, observing, handlers, transport, outcome, stuck>>

DestroyTarget   == DestroyLocal("target", {}) /\ UNCHANGED <<connection, publisher>>
DestroyObserver == DestroyLocal("observer", {"target"}) /\ UNCHANGED <<connection, publisher>>

\* ~RequestPublisher starts, and runs.
ClosePublisher ==
    /\ At("leave") /\ "dispatcher" \in alive /\ alive \cap {"target", "observer"} = {}
    /\ Publisher!Close \/ Publisher!Destructor
    /\ UNCHANGED <<connection, scanner>>

DestroyDispatcher ==
    /\ DestroyLocal("dispatcher", {"target", "observer"})
    /\ transport = "RabbitMQ" => pubPc = "destroyed"
    /\ UNCHANGED <<connection, publisher>>

DestroyCollection ==
    /\ DestroyLocal("collection", {"target", "observer", "dispatcher"})
    /\ Connection!Destroy
    /\ UNCHANGED publisher

Exit ==
    /\ At("leave") /\ alive = {}
    /\ step' = "ended"
    /\ UNCHANGED <<connection, publisher, alive, observing, handlers, transport, outcome, stuck>>
-----------------------------------------------------------------------------
(* Signals.                                                                *)

\* Without a handler of its own, a signal ends the process.
KilledBySignal ==
    /\ ~handlers /\ step # "ended"
    /\ End("killed")
    /\ UNCHANGED <<connection, publisher, alive, observing, handlers, transport, stuck>>

\* SignalHandler reaches DeactivateAndStopLoop.  With a dead target that is one
\* of the outcomes, as long as the collection is there.
SignalStops ==
    /\ handlers /\ ~stuck /\ step # "ended" /\ "collection" \in alive
    /\ Connection!Signal
    /\ UNCHANGED <<publisher, scanner>>

\* The other outcome of a dead target.
SignalHitsDeadTarget ==
    /\ handlers /\ ~stuck /\ step # "ended" /\ "target" \notin alive
    /\ End("crashed")
    /\ UNCHANGED <<connection, publisher, alive, observing, handlers, transport, stuck>>

\* The handler logs before it does anything else: if the signal interrupted a
\* log call of the main thread, it waits for the queue's mutex, which its own
\* thread holds.  A thread that waits in send or for confirms is in no log call.
SignalDeadlocks ==
    /\ handlers /\ ~stuck /\ step # "ended" /\ pubPc \notin {"send", "flush"}
    /\ connPc \in InterruptPoints
    /\ stuck' = TRUE
    /\ UNCHANGED <<connection, publisher, step, alive, observing, handlers, transport, outcome>>

BrokerAnswers ==
    /\ step # "ended"
    /\ Publisher!Broker
    /\ UNCHANGED <<connection, scanner>>

Finished == (step = "ended" \/ stuck) /\ UNCHANGED vars

Start == Initialize \/ BadConfiguration \/ ConsoleOutputOnly \/ CreateCollection
         \/ CreateEmptyDispatcher \/ ConnectPublisher \/ CreateRabbitMqDispatcher
         \/ SubscribeObserver \/ SetupSignalHandlers

Leave == Unsubscribe \/ Unwind \/ Abort
         \/ DestroyTarget \/ DestroyObserver \/ ClosePublisher \/ DestroyDispatcher
         \/ DestroyCollection \/ Exit

Signal == KilledBySignal \/ SignalStops \/ SignalHitsDeadTarget \/ SignalDeadlocks

Next == Start \/ RunConnection \/ DispatchState \/ NotifyObserver \/ SendReturns
        \/ SendIsRefused \/ Leave \/ Signal \/ BrokerAnswers \/ Finished

Spec == Init /\ [][Next]_vars

\* The main thread runs.  Nothing is promised of the server, the broker or
\* whoever sends signals.
FairSpec == Spec /\ WF_vars(Start \/ RunConnection \/ SendReturns \/ Leave)

BrokerConfirms == WF_vars(BrokerAnswers)
-----------------------------------------------------------------------------
(* Safety.                                                                 *)

\* LinuxSoundScanner.cpp:167-217: the observer has its dispatcher and its
\* collection, whatever method was asked for, and the handler's target has its
\* collection: what they hold by reference outlives them.
ReferencesLive ==
    /\ "observer" \in alive => {"collection", "dispatcher"} \subseteq alive
    /\ "target" \in alive => "collection" \in alive

\* LinuxSoundScanner.cpp:219, 225: an exception skips Unsubscribe, and the observer
\* dies while the collection's list still holds it.  Only an exception of the loop
\* does that, and then nothing notifies any more: the loop is not run again, and the
\* context is over or gone.
DeadObserverUnreachable ==
    observing /\ "collection" \in alive /\ "observer" \notin alive =>
        /\ outcome # "ok" /\ connPc = "threw"
        /\ pdc.context \notin {"CONNECTING", "READY"}

\* LinuxSoundScanner.cpp:211: the first signal finds its target, from the moment
\* the handlers are installed, unless an exception has ended the loop before.  The
\* handler can hit a dead target only as a second signal or after a failure.
FirstSignalIsSafe ==
    outcome = "crashed" /\ signals = 0 => observing /\ connPc \in {"threw", "destroyed"}

\* A stop that has found the collection, in a send or between callbacks, leaves
\* nothing in the loop that could throw afterwards.
StopIsClean ==
    [][signals > 0 /\ connPc = "loop" /\ connPc' # "loop" => connPc' = "returned"]_vars
-----------------------------------------------------------------------------
(* Liveness.                                                               *)

\* LinuxSoundScanner.cpp:212-221: a signal that was handled ends the process, also
\* when it interrupts a send, but only because the broker confirms what the send
\* waits for, and only if no signal interrupts a log call.
StopTakesEffect ==
    BrokerConfirms /\ []~stuck => (signals > 0 ~> step = "ended")

\* LinuxSoundScanner.cpp:217, the claim of its comment: main waits for the
\* deactivation, and a signal that deactivates ends the wait.
StopIsHeard ==
    BrokerConfirms => (signals > 0 \/ stuck ~> step = "ended")

\* README.md:106: "otherwise the process exits on PulseAudio failure or
\* termination", whether the exception unwinds to main or aborts in the frames of
\* the C libraries, and past a broker that does not confirm.
FailureExits ==
    []~stuck =>
        (~reconnectionEnabled /\ pdc.context \in {"FAILED", "TERMINATED"}
            ~> step = "ended")
=============================================================================
