--------------------------- MODULE PulseConnection ---------------------------
(***************************************************************************)
(* The connection half of PulseDeviceCollection                            *)
(* (SoundLib/impl/PulseDeviceCollection.cpp): the PulseAudio context, the  *)
(* GLib main loop, the reconnect timer, and DeactivateAndStopLoop, which   *)
(* LinuxSoundScanner calls from its SIGTERM/SIGINT handler.                *)
(*                                                                         *)
(* Everything but the signal handler runs on the main thread.  The kernel  *)
(* delivers the signals to that thread, so the handler runs to completion  *)
(* at whatever instruction the main thread has reached.  pc names the      *)
(* program points between which such an interruption makes a difference;   *)
(* InterruptPoints says at which of them signals arrive.                   *)
(*                                                                         *)
(* A member function is an operator from the object's fields to its fields *)
(* so that handlers compose calls in the order the code makes them.        *)
(***************************************************************************)
EXTENDS Integers

CONSTANTS
    InitialDelayMs,   \* SoundLibRuntimeSettings: initial reconnect delay
    GuintRange,       \* 2^32: the delay is computed in guint
    MaxSignals,       \* bound: SIGTERM/SIGINT deliveries in a behaviour
    InterruptPoints   \* the program points at which a signal may arrive

VARIABLES
    pdc,                  \* the object's fields, and GLib's live timer sources
    loopRunning,          \* is_running of gMainLoop_
    pc,                   \* where the main thread is
    reconnectionEnabled,  \* SoundLibRuntimeSettings, set once at start
    signals               \* signals delivered so far

vars == <<pdc, loopRunning, pc, reconnectionEnabled, signals>>

LivePoints == {"activate", "connect", "run", "loop", "recreate", "reconnect",
               "monitor"}
Ended      == {"returned", "threw", "aborted", "destroyed"}

\* ActivateAndStartLoop is over, and the object still there.
LatePoints == {"returned", "threw"}

\* Where no callback of the loop is under way.
QuietPoints == {"loop"} \cup LatePoints

ASSUME ConnectionAssumption ==
    /\ InitialDelayMs \in Nat
    /\ GuintRange \in Nat \ {0}
    /\ MaxSignals \in Nat
    /\ InterruptPoints \subseteq LivePoints \cup LatePoints

Null == "null"
ContextStates == {"UNCONNECTED", "CONNECTING", "READY", "FAILED", "TERMINATED"}

Fields == [context             : ContextStates \cup {Null},
           stateCallback       : BOOLEAN,   \* registered on the context
           subscribeCallback   : BOOLEAN,   \* registered on the context
           isLoopActive        : BOOLEAN,
           reconnectTimer      : BOOLEAN,   \* reconnectTimerId_ # 0
           sources             : Nat,       \* timeout sources GLib holds
           inCall              : BOOLEAN,   \* one of them: GLib called it and
                                            \* has not got the result yet
           subscription        : {"none", "asked", "failed"},
           delay               : Nat,       \* of the last timer started, in ms
           reconnectionCounter : 0..2]      \* 2 stands for "two or more"

TypeOK ==
    /\ pdc \in Fields
    /\ loopRunning \in BOOLEAN
    /\ pc \in LivePoints \cup Ended
    /\ reconnectionEnabled \in BOOLEAN
    /\ signals \in 0..MaxSignals

-----------------------------------------------------------------------------
(* Member functions, as operators on the object's fields.                  *)

\* Mutant: a cap of eight times the initial delay, which wraps.
ReconnectDelayWraps(counter) ==
    (InitialDelayMs * (CASE counter = 0 -> 1
                         [] counter = 1 -> 2
                         [] OTHER       -> 8)) % GuintRange

\* currentReconnectDelayMs: once, twice and from then on five times the
\* initial delay, in guint arithmetic.
ReconnectDelay(counter) ==
    (InitialDelayMs * (CASE counter = 0 -> 1
                         [] counter = 1 -> 2
                         [] OTHER       -> 5)) % GuintRange

\* The body of ScheduleReconnect; as its mutant it lacks the two guards.
ScheduleReconnectUnguarded(s) ==
    [s EXCEPT !.reconnectTimer      = TRUE,
              !.sources             = @ + 1,
              !.delay               = ReconnectDelay(s.reconnectionCounter),
              !.reconnectionCounter = IF @ < 2 THEN @ + 1 ELSE 2]

ScheduleReconnect(s) ==
    IF ~s.isLoopActive \/ s.reconnectTimer
    THEN s
    ELSE ScheduleReconnectUnguarded(s)

\* Mutant: the source is removed whether or not there is one.
CancelReconnectTimerUnguarded(s) ==
    [s EXCEPT !.reconnectTimer = FALSE, !.sources = @ - 1]

CancelReconnectTimer(s) ==
    IF s.reconnectTimer
    THEN [s EXCEPT !.reconnectTimer = FALSE, !.sources = @ - 1]
    ELSE s

\* The callbacks are cleared before pa_context_disconnect, so destroying a
\* context never reports its own TERMINATED state.
DestroyContext(s) ==
    [s EXCEPT !.context = Null, !.stateCallback = FALSE,
              !.subscribeCallback = FALSE, !.subscription = "none"]

CreateContext(s) ==
    [s EXCEPT !.context = "UNCONNECTED", !.stateCallback = FALSE,
              !.subscribeCallback = FALSE, !.subscription = "none"]

\* Whether the server takes the empty mask makes no difference: the caller
\* destroys the context next.
StopMonitoring(s) ==
    [s EXCEPT !.subscribeCallback = @ /\ s.context # "READY"]

\* A callback returns.  That of the timer returns G_SOURCE_REMOVE, whatever
\* it did, and only then GLib drops its source; an exception leaves it.
LeaveCallback(s) ==
    IF s.inCall THEN [s EXCEPT !.inCall = FALSE, !.sources = @ - 1] ELSE s

\* Mutant: the context is left to the destructor.
DeactivateKeepsContext(s) ==
    StopMonitoring(CancelReconnectTimer([s EXCEPT !.isLoopActive = FALSE]))

\* Mutant: the pending timer survives the deactivation.
DeactivateKeepsTimer(s) ==
    DestroyContext(StopMonitoring([s EXCEPT !.isLoopActive = FALSE]))

DeactivateAndStopLoop(s) ==
    DestroyContext(StopMonitoring(CancelReconnectTimer(
        [s EXCEPT !.isLoopActive = FALSE])))

\* ContextStateCallback on PA_CONTEXT_FAILED or PA_CONTEXT_TERMINATED, when
\* it does not throw.
ContextLost(s, state) == ScheduleReconnect([s EXCEPT !.context = state])

\* The <0 branch after pa_context_connect, in ActivateAndStartLoop and in
\* ReconnectTimerCallback alike.
ConnectRefused(s) == ScheduleReconnect(DestroyContext(s))

-----------------------------------------------------------------------------
Init ==
    /\ pdc = [context |-> "UNCONNECTED", stateCallback |-> FALSE,
              subscribeCallback |-> FALSE, isLoopActive |-> FALSE,
              reconnectTimer |-> FALSE, sources |-> 0, inCall |-> FALSE,
              subscription |-> "none", delay |-> 0, reconnectionCounter |-> 0]
    /\ loopRunning = FALSE
    /\ pc = "activate"
    /\ reconnectionEnabled \in BOOLEAN
    /\ signals = 0

Environment == <<reconnectionEnabled, signals>>

\* ActivateAndStartLoop up to the registration of the state callback; libpulse
\* asserts that the context it is given is not null.
Activate ==
    /\ pc = "activate"
    /\ pdc' = [pdc EXCEPT !.isLoopActive = TRUE,
                          !.stateCallback = pdc.context # Null]
    /\ pc' = IF pdc.context = Null THEN "aborted" ELSE "connect"
    /\ UNCHANGED <<loopRunning, Environment>>

\* pa_context_connect returns 0: the attempt goes on in the background.
ConnectStarts(next) ==
    /\ pdc.context # Null
    /\ pdc' = LeaveCallback([pdc EXCEPT !.context = "CONNECTING"])
    /\ pc' = next

\* It returns <0 without having reported a state.
ConnectIsRefused(next) ==
    /\ pdc.context # Null
    /\ pdc' = LeaveCallback(ConnectRefused(pdc))
    /\ pc' = next

\* It reports FAILED to the state callback from inside the call: the callback
\* schedules a reconnect, then the call returns <0; or the callback throws, and
\* a timer callback that made the call never returns to GLib.
ConnectFailsInside(next) ==
    /\ pdc.context # Null
    /\ IF reconnectionEnabled
       THEN /\ pdc' = LeaveCallback(ConnectRefused(ContextLost(pdc, "FAILED")))
            /\ pc' = next
       ELSE pdc' = [pdc EXCEPT !.context = "FAILED"] /\ pc' = "threw"

ConnectOnNull ==
    /\ pdc.context = Null
    /\ pc' = "aborted"
    /\ UNCHANGED pdc

Connect(at, next) ==
    /\ pc = at
    /\ \/ ConnectStarts(next)
       \/ ConnectIsRefused(next)
       \/ ConnectFailsInside(next)
       \/ ConnectOnNull
    /\ UNCHANGED <<loopRunning, Environment>>

InitialConnect == Connect("connect", "run")

\* g_main_loop_run sets is_running, whatever g_main_loop_quit did before.
RunLoop ==
    /\ pc = "run"
    /\ loopRunning' = TRUE
    /\ pc' = "loop"
    /\ UNCHANGED <<pdc, Environment>>

-----------------------------------------------------------------------------
(* Callbacks the main loop dispatches.                                     *)

\* Mutant: only the first connection is monitored.
ContextReadyMonitorsOnce ==
    /\ pc = "loop" /\ pdc.context = "CONNECTING"
    /\ pdc' = [pdc EXCEPT !.context = "READY"]
    /\ pc' = IF pdc.stateCallback /\ pdc.reconnectionCounter = 0
             THEN "monitor" ELSE "loop"
    /\ UNCHANGED <<loopRunning, Environment>>

\* The context becomes READY: ContextStateCallback requests the initial info
\* and goes on to StartMonitoring.
ContextReady ==
    /\ pc = "loop" /\ pdc.context = "CONNECTING"
    /\ pdc' = [pdc EXCEPT !.context = "READY"]
    /\ pc' = IF pdc.stateCallback THEN "monitor" ELSE "loop"
    /\ UNCHANGED <<loopRunning, Environment>>

\* The subscribe callback is registered; that pa_context_subscribe fails is
\* only logged.
StartMonitoring ==
    /\ pc = "monitor" /\ pdc.context # Null
    /\ \E result \in {"asked", "failed"} :
          pdc' = [pdc EXCEPT !.subscribeCallback = TRUE, !.subscription = result]
    /\ pc' = "loop"
    /\ UNCHANGED <<loopRunning, Environment>>

MonitorNull ==
    /\ pc = "monitor" /\ pdc.context = Null
    /\ pc' = "aborted"
    /\ UNCHANGED <<pdc, loopRunning, Environment>>

\* The server goes away.  The exception unwinds to the handler in main, or to
\* std::terminate: the program ends either way.
ContextDown(state) ==
    /\ pc = "loop" /\ pdc.context \in {"CONNECTING", "READY"}
    /\ CASE ~pdc.stateCallback  -> /\ pdc' = [pdc EXCEPT !.context = state]
                                   /\ UNCHANGED pc
         [] pdc.stateCallback /\ reconnectionEnabled
                                -> /\ pdc' = ContextLost(pdc, state)
                                   /\ UNCHANGED pc
         [] OTHER               -> /\ pdc' = [pdc EXCEPT !.context = state]
                                   /\ pc' = "threw"
    /\ UNCHANGED <<loopRunning, Environment>>

\* ReconnectTimerCallback up to DestroyContext, or to its early return.
TimerFires ==
    /\ pc = "loop" /\ pdc.sources > 0
    /\ LET fired == [pdc EXCEPT !.reconnectTimer = FALSE, !.inCall = TRUE]
       IN  IF pdc.isLoopActive
           THEN pdc' = DestroyContext(fired) /\ pc' = "recreate"
           ELSE pdc' = LeaveCallback(fired) /\ UNCHANGED pc
    /\ UNCHANGED <<loopRunning, Environment>>

\* ReconnectTimerCallback: CreateContext and the state callback's registration.
Recreate ==
    /\ pc = "recreate"
    /\ pdc' = [CreateContext(pdc) EXCEPT !.stateCallback = TRUE]
    /\ pc' = "reconnect"
    /\ UNCHANGED <<loopRunning, Environment>>

\* Mutant: the result of CreateContext is not looked at.
RecreateFailsUnchecked ==
    /\ pc = "recreate"
    /\ pdc' = [pdc EXCEPT !.context = Null]
    /\ pc' = "reconnect"
    /\ UNCHANGED <<loopRunning, Environment>>

RecreateFails ==
    /\ pc = "recreate"
    /\ pdc' = LeaveCallback(ScheduleReconnect([pdc EXCEPT !.context = Null]))
    /\ pc' = "loop"
    /\ UNCHANGED <<loopRunning, Environment>>

Reconnect == Connect("reconnect", "loop")

-----------------------------------------------------------------------------
\* Mutant: the main loop is not told to quit.
SignalWithoutQuit ==
    /\ pc \in InterruptPoints /\ signals < MaxSignals
    /\ signals' = signals + 1
    /\ pdc' = DeactivateAndStopLoop(pdc)
    /\ UNCHANGED <<loopRunning, pc, reconnectionEnabled>>

\* SignalHandler -> DeactivateAndStopLoop.
Signal ==
    /\ pc \in InterruptPoints /\ signals < MaxSignals
    /\ signals' = signals + 1
    /\ pdc' = DeactivateAndStopLoop(pdc)
    /\ loopRunning' = FALSE
    /\ UNCHANGED <<pc, reconnectionEnabled>>

LoopReturns ==
    /\ pc = "loop" /\ ~loopRunning
    /\ pc' = "returned"
    /\ UNCHANGED <<pdc, loopRunning, Environment>>

\* Mutant: unwinding leaves the context and its callbacks.
DestroyKeepsContext ==
    /\ pc \in {"activate"} \cup LatePoints
    /\ pdc' = CancelReconnectTimer(pdc)
    /\ pc' = "destroyed"
    /\ UNCHANGED <<loopRunning, Environment>>

\* ~PulseDeviceCollection, on return from main's try block or by unwinding,
\* before the activation if what main does in between throws.
Destroy ==
    /\ pc \in {"activate"} \cup LatePoints
    /\ pdc' = DestroyContext(CancelReconnectTimer(pdc))
    /\ pc' = "destroyed"
    /\ UNCHANGED <<loopRunning, Environment>>

Finished == pc \in {"aborted", "destroyed"} /\ UNCHANGED vars

MainThread == \/ Activate \/ InitialConnect \/ RunLoop \/ StartMonitoring
              \/ MonitorNull \/ TimerFires \/ Recreate \/ RecreateFails \/ Reconnect
              \/ LoopReturns \/ Destroy

Server == ContextReady \/ \E state \in {"FAILED", "TERMINATED"} : ContextDown(state)

Next == MainThread \/ Server \/ Signal \/ Finished

Spec == Init /\ [][Next]_vars

\* The main thread keeps running: it is never descheduled for ever.
FairSpec == Spec /\ WF_vars(MainThread)

\* A server that is tried again and again accepts at last.
ServerRecovers ==
    /\ SF_vars(Recreate)
    /\ SF_vars(pc = "reconnect" /\ ConnectStarts("loop")
               /\ UNCHANGED <<loopRunning, Environment>>)
    /\ SF_vars(ContextReady)

-----------------------------------------------------------------------------
(* Safety.                                                                 *)

\* The sources GLib would still dispatch: the one that is in call is blocked
\* until its callback returns.
Pending(s) == s.sources - (IF s.inCall THEN 1 ELSE 0)

\* PulseDeviceCollection.cpp:176-231: reconnectTimerId_ and GLib agree.  A timer
\* is remembered exactly while GLib has one to fire, and there is never a second
\* one: FAILED reported from inside pa_context_connect and the <0 that follows
\* both ask for a timer, while the source of the callback that connects is not
\* gone yet.
TimerTracked == Pending(pdc) = IF pdc.reconnectTimer THEN 1 ELSE 0

Alive(s) == s.context \in {"CONNECTING", "READY"} /\ s.stateCallback

\* Whenever an active main loop goes to sleep, what wakes the connection is
\* there, and there once: a live context whose state changes are heard, or a
\* pending retry, whichever way connect, CreateContext or the server failed.
NeverStranded ==
    pc = "loop" /\ pdc.isLoopActive => (Alive(pdc) # pdc.reconnectTimer)

\* PulseDeviceCollection.cpp:130-152: each context is monitored for itself.  When
\* the loop sleeps, one that is READY has the callback and its own subscription was
\* attempted, and one that connects has inherited neither.  Whether the attempt
\* succeeded is only logged (145-151): a connection may be READY and hear nothing.
ReadyIsMonitored ==
    pc = "loop" =>
        /\ pdc.context = "READY" => pdc.subscribeCallback /\ pdc.subscription # "none"
        /\ pdc.context = "CONNECTING" =>
               ~pdc.subscribeCallback /\ pdc.subscription = "none"

\* PulseDeviceCollection.cpp:36-46, 206-231, 331, 340: how the connection may end,
\* wherever signals arrive.  The loop returns only for a signal, an exception
\* leaves only if reconnection is disabled, and libpulse is given the null context
\* only after a signal has cleared it inside a callback: no failure of the server
\* does that.
EndsForAReason ==
    /\ pc = "returned" => signals > 0
    /\ pc = "threw" => ~reconnectionEnabled
    /\ pc = "aborted" => signals > 0

\* After DeactivateAndStopLoop nothing comes back: no context, no timer, and a
\* source that was removed cannot revive the connection.
StoppedStaysStopped ==
    signals > 0 => /\ ~pdc.isLoopActive
                   /\ pdc.context = Null
                   /\ Pending(pdc) = 0

\* PulseDeviceCollection.cpp:28-34, 224: once the destructor has run, nothing that
\* GLib or libpulse would still call points to the object, whatever the signals
\* interrupted.  One source may be left all the same, blocked: that of the timer
\* callback an exception has left, which takes a reconnection that is disabled.
NothingCallsBack ==
    pc = "destroyed" => /\ Pending(pdc) = 0
                        /\ pdc.inCall => ~reconnectionEnabled
                        /\ ~pdc.stateCallback /\ ~pdc.subscribeCallback

\* README.md:100 and :106: without PADIO_RECONNECT_ON there is no reconnection.
\* The code breaks it when pa_context_connect itself returns <0.
ReconnectOnlyWhenEnabled == pdc.reconnectTimer => reconnectionEnabled

\* The delay of the retries grows to its cap and never falls back, because
\* reconnectionCounter is static; guint must not wrap for that.
BackoffNeverShrinks == [][pdc'.delay >= pdc.delay]_vars

-----------------------------------------------------------------------------
(* Liveness and refinement.                                                *)

\* LinuxSoundScanner.cpp:217: main waits in ActivateAndStartLoop for the
\* deactivation, and a deactivation ends the wait.
DeactivationStopsLoop == signals > 0 ~> pc \in Ended

\* With reconnection enabled the link comes up again unless it is stopped, as
\* soon as the server is there again.
ReconnectsEventually ==
    ServerRecovers =>
        ((pdc.isLoopActive /\ reconnectionEnabled)
            ~> (pdc.context = "READY" \/ ~pdc.isLoopActive))

\* Where the supervisor is: isLoopActive_ tells a stop from a failure.
phase ==
    IF pc \in {"activate", "connect"} THEN "starting"
    ELSE IF ~pdc.isLoopActive THEN "stopped"
    ELSE IF pc \in {"threw", "destroyed"} THEN "failed"
    ELSE IF pc \in {"recreate", "reconnect"} \/ pdc.context = "CONNECTING" THEN "trying"
    ELSE IF pdc.context = "READY" THEN "up"
    ELSE "waiting"

Supervisor == INSTANCE ConnectionSupervisor WITH mayReconnect <- reconnectionEnabled

\* The connection half implements the supervisor, with its promise to retry.
SupervisesConnection == Supervisor!Spec
=============================================================================
