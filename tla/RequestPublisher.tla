--------------------------- MODULE RequestPublisher ---------------------------
(***************************************************************************)
(* RequestPublisher (RequestPublisher.cpp): the connection to RabbitMQ.    *)
(* The constructor tries to open it a fixed number of times, with a delay  *)
(* that doubles; Publish hands a message to the producer, which confirms   *)
(* it later; the destructor waits for the confirms that are still missing  *)
(* and frees what was opened, in the opposite order.                       *)
(*                                                                         *)
(* Everything runs on the main thread but the confirms, which a thread of  *)
(* the rmqcpp library delivers.  The library and the broker are external:  *)
(* they may refuse a connection or a message at will and may never answer. *)
(* Messages differ in nothing the publisher looks at, so they are counted. *)
(***************************************************************************)
EXTENDS Integers

CONSTANTS
    MaxAttempts,      \* MAX_RECONNECTION_ATTEMPTS
    FirstDelay,       \* DELAY_BETWEEN_RECONNECTION_ATTEMPTS_IN_MILLISECONDS
    MaxDelay,         \* MAX_DELAY_BETWEEN_RECONNECTION_ATTEMPTS_IN_MILLISECONDS
    MaxUnconfirmed,   \* maxUnconfirmed: the producer's window
    MaxMessages       \* bound: calls of Publish

ASSUME PublisherAssumption ==
    /\ MaxAttempts \in Nat \ {0}
    /\ FirstDelay \in Nat /\ MaxDelay \in Nat /\ FirstDelay <= MaxDelay
    /\ MaxUnconfirmed \in Nat \ {0}
    /\ MaxMessages \in Nat

VARIABLES
    pc,           \* where the main thread is
    attempt,      \* of the constructor
    delay,        \* before the next attempt, in ms
    resources,    \* the smart pointers that are not null
    tally,        \* what became of the messages handed to Publish
    flushFailed   \* waitForConfirms timed out or threw

vars == <<pc, attempt, delay, resources, tally, flushFailed>>

Constructing == {"context", "vhost", "producer", "cleanup", "retry"}
Closing      == {"flush", "release"}
Resources    == {"context", "vhost", "producer"}

\* A message is unconfirmed until the broker answers; one still unconfirmed
\* when the producer is released is abandoned.
Tallies == [handed : 0..MaxMessages, unconfirmed : Nat, acked : Nat,
            nacked : Nat, refused : Nat, abandoned : Nat]

TypeOK ==
    /\ pc \in Constructing \cup Closing \cup {"open", "send", "threw", "destroyed"}
    /\ attempt \in 1..MaxAttempts
    /\ delay \in 0..MaxDelay
    /\ resources \subseteq Resources
    /\ tally \in Tallies
    /\ flushFailed \in BOOLEAN

Init ==
    /\ pc = "context"
    /\ attempt = 1
    /\ delay = FirstDelay
    /\ resources = {}
    /\ tally = [handed |-> 0, unconfirmed |-> 0, acked |-> 0, nacked |-> 0,
                refused |-> 0, abandoned |-> 0]
    /\ flushFailed = FALSE

-----------------------------------------------------------------------------
(* The constructor.                                                        *)

\* A step of an attempt that obtains a resource.
Obtain(at, resource, next) ==
    /\ pc = at
    /\ resources' = resources \cup {resource}
    /\ pc' = next
    /\ UNCHANGED <<attempt, delay, tally, flushFailed>>

CreateContext  == Obtain("context", "context", "vhost")
CreateVHost    == Obtain("vhost", "vhost", "producer")
CreateProducer == Obtain("producer", "producer", "open")

\* A step of an attempt throws, or the producer does not come up in 25 s.
AttemptFails ==
    /\ pc \in {"context", "vhost", "producer"}
    /\ pc' = "cleanup"
    /\ UNCHANGED <<attempt, delay, resources, tally, flushFailed>>

\* Closing the vhost may throw; it is released all the same.
ReleaseVHost(at) ==
    /\ pc = at /\ "producer" \notin resources /\ "vhost" \in resources
    /\ resources' = resources \ {"vhost"}
    /\ UNCHANGED <<pc, attempt, delay, tally, flushFailed>>

\* Mutant: the context goes without a look at the vhost.
ReleaseContextFirst(at, next) ==
    /\ pc = at /\ "producer" \notin resources
    /\ resources' = resources \ {"context"}
    /\ pc' = next
    /\ UNCHANGED <<attempt, delay, tally, flushFailed>>

ReleaseContext(at, next) ==
    /\ pc = at /\ resources \cap {"producer", "vhost"} = {}
    /\ resources' = resources \ {"context"}
    /\ pc' = next
    /\ UNCHANGED <<attempt, delay, tally, flushFailed>>

\* The handler of the exception, up to the sleep: ResetRabbitResources, which
\* finds no producer, then the last attempt rethrows.
Cleanup ==
    \/ ReleaseVHost("cleanup")
    \/ ReleaseContext("cleanup", IF attempt = MaxAttempts THEN "threw" ELSE "retry")

\* Mutants: the delay is compared with the cap before it is doubled, or never.
NextDelayCheckedFirst == IF delay < MaxDelay THEN 2 * delay ELSE MaxDelay
NextDelayUncapped == 2 * delay

NextDelay == IF 2 * delay < MaxDelay THEN 2 * delay ELSE MaxDelay

\* Mutant: the attempts are not counted.
RetryForEver ==
    /\ pc = "retry"
    /\ delay' = NextDelay
    /\ pc' = "context"
    /\ UNCHANGED <<attempt, resources, tally, flushFailed>>

\* The sleep is over.
Retry ==
    /\ pc = "retry"
    /\ attempt' = attempt + 1
    /\ delay' = NextDelay
    /\ pc' = "context"
    /\ UNCHANGED <<resources, tally, flushFailed>>

-----------------------------------------------------------------------------
(* Publish, and the producer it calls.                                     *)

Publish ==
    /\ pc = "open" /\ tally.handed < MaxMessages
    /\ tally' = [tally EXCEPT !.handed = @ + 1]
    /\ pc' = "send"
    /\ UNCHANGED <<attempt, delay, resources, flushFailed>>

\* producer_->send blocks while the window is full, without a timeout.
Sent ==
    /\ pc = "send" /\ tally.unconfirmed < MaxUnconfirmed
    /\ tally' = [tally EXCEPT !.unconfirmed = @ + 1]
    /\ pc' = "open"
    /\ UNCHANGED <<attempt, delay, resources, flushFailed>>

\* send returns something else than SENDING; Publish only logs it.
SendRefused ==
    /\ pc = "send"
    /\ tally' = [tally EXCEPT !.refused = @ + 1]
    /\ pc' = "open"
    /\ UNCHANGED <<attempt, delay, resources, flushFailed>>

\* Mutant: confirms are delivered on the main thread, between its calls.
ConfirmOnMainThread(status) ==
    /\ pc \in {"open", "flush"} /\ tally.unconfirmed > 0
    /\ tally' = [tally EXCEPT !.unconfirmed = @ - 1, ![status] = @ + 1]
    /\ UNCHANGED <<pc, attempt, delay, resources, flushFailed>>

\* The confirm callback, which only logs, on the library's thread.
Confirm(status) ==
    /\ "producer" \in resources /\ tally.unconfirmed > 0
    /\ tally' = [tally EXCEPT !.unconfirmed = @ - 1, ![status] = @ + 1]
    /\ UNCHANGED <<pc, attempt, delay, resources, flushFailed>>

-----------------------------------------------------------------------------
(* The destructor: ResetRabbitResources with a producer.                   *)

Close ==
    /\ pc = "open"
    /\ pc' = "flush"
    /\ UNCHANGED <<attempt, delay, resources, tally, flushFailed>>

\* Mutant: the destructor asks for the confirms without waiting for them.
WaitForNothing ==
    /\ pc = "flush"
    /\ pc' = "release"
    /\ UNCHANGED <<attempt, delay, resources, tally, flushFailed>>

WaitForConfirms ==
    /\ pc = "flush" /\ tally.unconfirmed = 0
    /\ pc' = "release"
    /\ UNCHANGED <<attempt, delay, resources, tally, flushFailed>>

\* Mutant: no timeout; the wait fails only when it is not needed.
WaitForConfirmsForEver ==
    /\ pc = "flush" /\ tally.unconfirmed = 0
    /\ flushFailed' = TRUE
    /\ pc' = "release"
    /\ UNCHANGED <<attempt, delay, resources, tally>>

WaitForConfirmsFails ==
    /\ pc = "flush"
    /\ flushFailed' = TRUE
    /\ pc' = "release"
    /\ UNCHANGED <<attempt, delay, resources, tally>>

\* producer_.reset(): no confirm is delivered after it.
ReleaseProducer ==
    /\ pc = "release" /\ "producer" \in resources
    /\ resources' = resources \ {"producer"}
    /\ tally' = [tally EXCEPT !.unconfirmed = 0, !.abandoned = @ + tally.unconfirmed]
    /\ UNCHANGED <<pc, attempt, delay, flushFailed>>

-----------------------------------------------------------------------------
Finished == pc \in {"threw", "destroyed"} /\ UNCHANGED vars

Constructor == CreateContext \/ CreateVHost \/ CreateProducer
               \/ AttemptFails \/ Cleanup \/ Retry

Destructor == WaitForConfirms \/ WaitForConfirmsFails
              \/ ReleaseProducer \/ ReleaseVHost("release")
              \/ ReleaseContext("release", "destroyed")

Broker == \E status \in {"acked", "nacked"} : Confirm(status)

Next == Constructor \/ Publish \/ Sent \/ SendRefused \/ Broker
        \/ Close \/ Destructor \/ Finished

Spec == Init /\ [][Next]_vars

\* The main thread runs: every wait of the constructor and of the destructor
\* has a timeout, and a send that may return does.  The broker promises nothing.
FairSpec == Spec /\ WF_vars(Constructor) /\ WF_vars(Sent) /\ WF_vars(Destructor)

BrokerConfirms == WF_vars(Broker)

-----------------------------------------------------------------------------
(* Safety.                                                                 *)

\* RequestPublisher.cpp:37-78: what is held depends on what was opened before
\* it at every moment, a new attempt starts from nothing, and neither a failed
\* construction nor a destruction leaves anything behind.
HeldInOrder ==
    /\ "producer" \in resources => "vhost" \in resources
    /\ "vhost" \in resources => "context" \in resources
    /\ pc \in {"context", "retry", "threw", "destroyed"} => resources = {}
    /\ pc \in {"open", "send", "flush"} => resources = Resources

\* The first delay, doubled n times.
Doubled[n \in Nat] == IF n = 0 THEN FirstDelay ELSE 2 * Doubled[n - 1]

\* RequestPublisher.cpp:94-156: attempt n is followed by the first delay,
\* doubled n - 1 times, and never by more than the cap.
BackoffDoubles ==
    delay = IF Doubled[attempt - 1] < MaxDelay THEN Doubled[attempt - 1] ELSE MaxDelay

\* RequestPublisher.cpp:39-58: a publisher that was destroyed without a warning
\* from waitForConfirms has had an answer to every message it enqueued; a confirm
\* that comes between the timeout and the release still counts.
LossIsReported ==
    pc = "destroyed" /\ ~flushFailed =>
        tally.handed = tally.acked + tally.nacked + tally.refused

-----------------------------------------------------------------------------
(* Liveness.                                                               *)

\* RequestPublisher.cpp:119: the constructor breaks out if the host is
\* unreachable; it opens the connection or throws.
ConstructionEnds == pc \in Constructing ~> pc \notin Constructing

\* RequestPublisher.cpp:44: a silent broker cannot hold up the destructor.
CloseEnds == pc = "flush" ~> pc = "destroyed"

\* RequestPublisher.cpp:181: Publish returns, but only because the broker
\* confirms what fills the window.
PublishReturns == BrokerConfirms => (pc = "send" ~> pc = "open")

=============================================================================
