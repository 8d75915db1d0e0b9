# LinuxSoundScanner in TLA+

LinuxSoundScanner watches the sinks and sources of a PulseAudio server and
publishes what it sees to RabbitMQ, where a repository server picks it up.
This directory holds TLA+ models of its core, the TLC configurations that check
them on small instances, and theorems that TLAPS checks for every value of the
constants. All definitions are translated from the C++ source; `PROJECT.json`
maps each of them to its lines.

## The system

| Part | Source | State | Operations |
|---|---|---|---|
| Connection | `SoundLib/impl/PulseDeviceCollection.cpp` (36-55, 99-231, 312-347) | `context_`, `isLoopActive_`, `reconnectTimerId_`, the static `reconnectionCounter`, GLib's main loop and timeout sources | start, stop, connect, reconnect timer, state callback, destructor |
| Device mirror | the same file (57-97, 233-308, 349-550) | `pnpToDeviceMap_`, `observers_` | inventory, subscription events, queries by index, merge, volume check, notification |
| PulseDevice | `SoundLib/impl/PulseDevice.cpp` | PnP id, name, flow, two volumes | normalisation, accessors |
| Observer and API client | `ServiceObserver.cpp`, `AudioDeviceApiClient.cpp` | none | turn an event into a POST or PUT message |
| Dispatcher and publisher | `RabbitMqHttpRequestDispatcher.cpp`, `RequestPublisher.cpp` | context, vhost, producer; the producer's window of unconfirmed messages | connect with retries, publish, confirm, shut down |
| Application | `LinuxSoundScanner.cpp` | the transport method, the locals of `main`'s try block, the signal handler's callback | configure, wire the parts, wait, tear down |
| Settings | `SoundLibRuntimeSettings.cpp` | reconnection on/off, initial delay | set once before `main` |

**How they interact.** `main` creates the collection, then the dispatcher (whose
publisher connects to RabbitMQ, synchronously), subscribes a `ServiceObserver`,
installs the handler of SIGTERM and SIGINT, and enters
`ActivateAndStartLoop`, which runs GLib's main loop. Everything of PulseAudio
happens in callbacks of that loop, on the main thread: a state callback of the
context requests the server info and subscribes to events, the info callback
requests the two lists, every event requests one endpoint, every answer updates
the map and notifies the observer, and the observer publishes synchronously.
The signal handler runs on the main thread as well, between any two of its
instructions, and calls `DeactivateAndStopLoop` directly. Confirms of messages
come on a thread of the rmqcpp library and are only logged.

**What is hard.** Two program texts share one thread without a lock: the main
loop's callbacks and the signal handler. `pa_context_connect` may report FAILED
from inside the call *and* return <0. Each failure path must leave exactly one
thing that wakes the connection. The inventory and the events race, since the
server may change between the list and the subscription and between an event
and the query it causes. A connection is lost with answers on their way, while
the map survives. Several endpoints fall together in one device and arrive in
any order. `send` blocks while ten messages are unconfirmed, in the main loop's
thread, where a signal finds it. The handler's callback refers to a local of
`main` that dies before the handlers are removed (they never are). What the
broker refuses, or a process that dies has not sent, nobody sends again.
`PROJECT.json` lists the hazards line by line, with the properties that cover each
of them.

**What makes each part correct.** The connection: it is alive or about to be
retried as long as it is active, has one timer at most, asks each context that gets
ready for its events, and is dead for good once stopped. The mirror: the repository
that replays the messages has the map, the map has every endpoint when all is quiet,
with the volume of every sink that shares its PnP id with no other, and all gets
quiet, since no callback asks for more than it was given. PulseDevice: volumes are exact, and the merge
does not depend on the order. The publisher: resources are freed in the right
order wherever an attempt fails, nothing waits for ever on a broker that is
silent except `send`, and no message is lost without a trace in the log. The
process: what it has destroyed is not reached any more, a stop ends it, a failure
ends it. The delivery: the repository server follows the map, and
what was lost on the way is repaired by the next inventory.

## The modules

- **`ConnectionSupervisor`** states what the connection promises: it is
  starting, trying, up or waiting until it is stopped; it gives up by itself
  only if it may not reconnect; it never waits for ever.
- **`PulseConnection`** is the connection half. A member function is an operator
  from the object's fields to its fields (`ScheduleReconnect(s)`,
  `DestroyContext(s)`, ...), so that the actions compose calls in the order of
  the code. `pc` is the main thread's place in the code; between two values of
  `pc` a signal can come in, if `InterruptPoints` contains that place. `sources`
  is what GLib holds, apart from `reconnectTimer`, which is what the object
  remembers. GLib drops the source of a timer only when its callback has returned
  `G_SOURCE_REMOVE`: while the callback runs (`inCall`, from line 209 to
  `LeaveCallback`) the source is still there, though the id is forgotten and a second
  source may be added to it. If `pa_context_connect` reports FAILED from inside the
  call, the state callback may throw, and the source stays for good, blocked, with a
  pointer to the object; nothing dispatches it, which is what `Pending` says.
  `subscription` is what became of `pa_context_subscribe`: its failure is only logged,
  and a connection that is READY then hears nothing. (In the mirror, that is the
  subscription among `requests` that times out.) libpulse aborts if it is given a null
  context; a signal inside a callback can bring that about, so every call with
  `context_` has that branch (`ConnectOnNull`, `MonitorNull`). `reconnectionCounter` is counted to "two or more", which is all
  `ReconnectDelay` distinguishes. `phase` maps it to the supervisor.
- **`PulseDevice`** holds the pure part: the volume arithmetic in its integer
  widths, the device built from one endpoint, the merge.
- **`PulseDeviceCollection`** is the device half with its two neighbours. The
  PulseAudio server is external: `requests` is what it has not answered,
  `incoming` the stream of answers and events the main loop has not dispatched.
  `ServerInfoCallback`, `SubscribeCallback`, `InfoCallback` and `EndOfList` are
  the callbacks, one dispatch each; `InfoCallback` contains the whole call chain
  down to the message. `published` is the message of the last step and
  `repository` replays all of them.
- **`RequestPublisher`** is the publisher: the attempts of the constructor, the
  send and its window, the confirms of the other thread, the shutdown with its
  timeout. `ResetRabbitResources` is called by both, after an attempt that failed and
  in the destructor, and is the same steps in both: the vhost is closed and released,
  then the context.
- **`DeviceRepository`** states what the mirror promises the repository server:
  a step reports one direction of one device and touches no other volume.
  `knownVolumes` of `PulseDeviceCollection` maps the mirror to it.
- **`RepositoryDelivery`** composes the mirror with the publisher's window and
  what is behind it. `sending` is the message the main thread is blocked with
  (while there is one, no callback is dispatched), `window` what the broker has
  not confirmed, `delivered` what the repository server knows. Messages are
  refused or rejected, the window is sent again, the process dies and starts
  anew; `loss` remembers whether something was lost since the last READY and
  since the start. It keeps the messages themselves, where `RequestPublisher`
  counts them.
- **`LinuxSoundScanner`** is the process: `step` is where `main` is, `alive` which
  of its locals exist, `handlers` whether the signal handlers are installed,
  `observing` whether the collection holds the observer. It runs the actions of
  `PulseConnection` and `RequestPublisher` on the one thread they share: none of
  the loop's while a send blocks (`InCallback`), the constructor and the destructor
  of the publisher while `main` is at them, signals at any time. A signal kills the
  process before `SetupSignalHandlers`, stops the connection afterwards, may find a
  dead target once `main` has left the loop, and, since the handler logs first, may
  wait for the logger's lock on the thread that holds it (`stuck`).
- **`MCPulseConnection`**, **`MCPulseDeviceCollection`**,
  **`MCRepositoryDelivery`**, **`MCLinuxSoundScanner`** give the constants their
  values for TLC. `RequestPublisher` needs numbers only and is run as it is.
- **`PulseConnection_proofs`**, **`PulseDevice_proofs`**,
  **`PulseDeviceCollection_proofs`**, **`InventoryComplete_proofs`**,
  **`RequestPublisher_proofs`**, **`LinuxSoundScanner_proofs`**,
  **`RepositoryDelivery_proofs`** hold the theorems. `LinuxSoundScanner` instantiates
  those of the connection and of the publisher, and `RepositoryDelivery` those of the
  mirror; they contain the models, and the proofs about a composition can so cite what
  is proved of its components.
- **`DataLemmas`** holds what these proofs share and no model needs: induction and
  recursion on the natural numbers, what is in a sequence when one is appended to or
  loses its head, and what a stream of updates says last.

`PulseConnection` and `RequestPublisher` are alone in their modules because each
has questions of its own that need every interleaving of its own steps; the two
compositions then answer what needs both: `LinuxSoundScanner` the life of the
objects and the stop, `RepositoryDelivery` the way of the data.

Operators marked *Mutant* are changes that a plausible bug would make; with one
of them in the place of the definition it follows, TLC finds the property named in
`PROJECT.json` violated.

## The runs

| Run | Question | Result |
|---|---|---|
| `ConnectionIdle` | signals come while the loop is idle | all safety properties, the stop, the refinement of the supervisor hold; if the server accepts at last, an enabled reconnection gets the link up |
| `ConnectionAnyPoint` | signals come at any place, the idle loop included | the timer stays tracked, nothing calls the object back once it is destroyed, and the connection never ends without a reason: it returns or aborts only after a signal, throws only if it may not reconnect |
| `ConnectionLostQuit` | a signal just before the loop runs | **violated**: the quit is forgotten, `main` waits for ever |
| `ConnectionOptional` | is reconnection optional? | **violated**: a refused connect reconnects although it is not enabled |
| `Mirror` | a sink, its monitor, a microphone | the repository has the map, the map has the server's endpoints, and the volumes of the sinks that share their PnP id with no other; a message reports one direction of one device |
| `MirrorShared` | two sinks and a microphone of one card, a request that times out | repository and map agree, no flow is lost, the queries do not feed themselves |
| `MirrorCapture` | are microphones mirrored? | **violated**: their volume is compared with the render volume |
| `MirrorRange` | are volumes within 0 to 1000? | **violated**: 150% is 1500 |
| `Publisher` | eight attempts, messages beyond the window, a silent broker | order, backoff, reported loss, and the three liveness properties hold |
| `Scanner` | the process from configuration to exit, with two signals at any time | what the observer and the handler's target refer to outlives them, an observer that died in the collection's list is not notified, the first signal is safe, a stop and a failure both end the process |
| `ScannerLogs` | does a signal always end the wait? | **violated**: the handler logs, and may wait for the logger's lock its own thread holds |
| `Delivery` | refusals, rejections, repetitions, restarts between map and repository server | the server follows the map as long as nothing is lost, an inventory repairs what was, and everything comes to rest |

### Bounds

- `MaxSignals = 2`: one signal to stop, one more to find everything stopped; the
  handler is idempotent from then on. `GuintRange = 64` with
  `InitialDelayMs = 10` keeps the ratio that matters: five times the delay fits.
- `MaxChanges = 2`, `MaxOutages = 1`: two changes are what it takes for a query
  to overtake a second change or for an endpoint to leave and come back; with an
  outage between, the map is as old as it can be. The initial state already
  ranges over every presence and volume. `Mirror` has three endpoints: a sink and
  a monitor that merge, and a source on its own. `MirrorShared` has three that
  all merge and trades the outage for a lost request.
- `Delivery`: one change, one outage, one lost request and two faults, for a sink
  and a microphone of two devices with one volume besides mute. Two faults are a
  loss and a restart, or a repetition and a loss. The window has 2 places, so that
  an inventory of two devices fills it and the change after it blocks. Endpoints
  that share a device are the business of `Mirror` and `MirrorShared`.
- `Scanner`: two signals, since the second is the one that may find its target
  gone; two attempts of the publisher, a window of 1 and 3 messages, so that a
  send blocks, is confirmed and blocks again. Signals find the connection where it
  waits or is left (`Quiet`), which is a bound of the run and not a fact of the code:
  `std::signal` masks nothing. What a signal does inside the callbacks, where it may
  make libpulse abort, is the question of `ConnectionAnyPoint`, and before the loop
  runs, that of `ConnectionLostQuit`. `ScannerLogs` needs one signal only.
- Volumes: two, 100% and 50%, and mute gives a third, 0. `MirrorRange` adds 150%.
- The publisher has the code's attempts, and its delays in seconds; a window of 2
  in the place of 10, and 4 messages: the window fills twice.

### Fairness

- `PulseConnection`: weak fairness of the main thread's own steps, since the
  kernel runs it; a pending timer fires because GLib dispatches it. No fairness of
  signals or of the server, except in `ReconnectsEventually`, whose premise is that
  a server that is tried for ever accepts (strong fairness of a context that can
  be made, a connect that starts, a context that gets ready). Without it no
  reconnection can be promised.
- `RequestPublisher`: the steps of the main thread, whose waits all have a
  timeout except `send`; only `PublishReturns` assumes that the broker confirms.
- `LinuxSoundScanner`: the main thread's steps, nothing of the server, the broker or
  the signals. `StopTakesEffect` and `StopIsHeard` have the broker's confirms as
  their premise, since a send that blocks is not interrupted by a stop;
  `FailureExits` does not need them: an exception comes from the loop, and the flush
  has a timeout. The two that hold assume that no signal interrupts a log call (see
  `ScannerLogs`), and speak of signals that find the connection in `Quiet`: the quit
  that is lost before the loop runs is excluded by that (see `ConnectionLostQuit`).
- `RepositoryDelivery`: PulseAudio answers, the main loop dispatches, a lost
  context or process is replaced (that is what `PulseConnection` and the restart
  policy are for), a send with room in the window returns, and the broker
  acknowledges what stays in the window. Changes, outages and faults are never
  forced.

Deadlock checking is off only where the main loop does wait for good: after the quit
that is lost, which `ConnectionAnyPoint` and `ConnectionLostQuit` both contain.

## What is proved

For every value of the constants that the named assumptions allow:

- `PulseConnection_proofs`: `TypeCorrect`, `TimerAlwaysTracked`,
  `NothingEverCallsBack` and `AlwaysEndsForAReason` with signals at any place. The
  invariant `TrackedInv` is `TypeOK`, with every source either remembered or in call
  (`Tracked`), and with the places where one can be in call (`InCallWhere`): in the
  timer callback, and after it only if an exception left it. The guard of
  `ScheduleReconnect` makes a second source to fire impossible, and so the one that
  fires is the one the object remembers. `BackoffMonotone` has as its premise that five
  times the initial delay fits into a guint; it says nothing about a delay that wraps.
  `AlwaysEndsForAReason` adds that the loop is quit by signals only and that the
  context is null outside the callbacks only after one.
  `NeverEverStranded`, `ReadyAlwaysMonitored`, `StopIsFinal`, `StopEndsClean` and
  `ImplementsSupervisor` (initial states and steps) have as their premise that signals
  find the loop idle or left. `StopIsFinal` is false without it: a signal between
  lines 211 and 216 is followed by a new context. `NeverStranded` and
  `ReadyIsMonitored` hold in TLC's instances with signals anywhere too, but their
  proof uses the same invariant and so the same premise. That invariant, `IdleInv`, says for each place in the code what the context and the timer are there; `NeverStranded` alone is not inductive, because it speaks of
  the idle loop only and the loop is entered from the places before it.
- `PulseDevice_proofs`: the volume formula equals the code's uint32_t
  arithmetic for every volume; it is monotone below the wrap; sink and source
  merge into the same device in either order.
- `PulseDeviceCollection_proofs`: `MirrorTypeCorrect`,
  `RepositoryAlwaysMatches`, `FlowsOnlyGrow`, `ImplementsRepository`, for any set of
  endpoints with any PnP ids and any number of changes, outages and timeouts.
  The argument for the repository: every action either leaves map and repository
  alone or ends in `NotifyObservers`, and the message it sends, read back from
  the updated map, makes the same update at the other side. The refinement rests
  on one lemma about the merge: what it changes is the direction of the endpoint
  that was merged, and the flow of a device never shrinks. Its last section says what
  one message writes, part by part of a device (`Writes`), for the proofs of the delivery.
- `InventoryComplete_proofs`: `InventoryAlwaysComplete` and `RenderAlwaysMirrored`, for
  any set of endpoints and any number of changes and outages; the second is about the
  sinks that share their PnP id with no other (sinks that do overwrite each other's
  volume). Both speak of a quiet
  connection only, so the invariant `InventoryInv` says what holds before it is quiet:
  whatever a present endpoint lacks is on its way (`Followed`), as an unanswered
  request that asks for it, an answer that carries it, or a notice that will cause
  the query (`Awaited`), and the dispatch of that answer posts the device (`Posted`). For the volume of a sink this is not enough, because an answer given
  before a change may be dispatched after it: `Corrected` adds that such a stale
  answer always has something fresh behind it in the stream. Before the subscription
  takes effect no notice exists, so `StartShape` fixes the three states the requests
  of `READY` can be in until then; that the lists are asked for after the
  subscription is what the proof rests on.
  `WorkAlwaysShrinks` and `WorkAlwaysBounded` are about coming to rest. `Work` adds up,
  over both streams, how many answers and callbacks each item can lead to: the server
  info leads to two lists, a list to one callback per endpoint and its end, a notice to
  one query. Every answer, callback and timeout lowers the sum, whatever the server does
  meanwhile; a change adds 4, READY 2 * N + 7 for N endpoints. The sum is a recursive
  function, so the proof is an induction over the streams (`TotalConcat`); that an
  answer is less than its question needs that there are finitely many endpoints.
- `RequestPublisher_proofs`: `PublisherTypeCorrect`, `ResourcesHeldInOrder`,
  `ShutdownLossIsReported`. The invariant says what is held at each place, the release
  after a failed attempt included, that
  every message is in one place (`Accounted`) and that nothing is abandoned unless
  a flush failed. `BackoffAlwaysDoubles` needs no invariant beyond the types, but
  one that relates the delay to the attempt: `Doubled`, a recursive function on the
  naturals, is unfolded once per retry.
- `LinuxSoundScanner_proofs`: `RunsItsComponents` shows that each step of the
  process is a step, or a stutter, of the connection and of the publisher, so the
  theorems above hold inside it. With them, `ScannerInv` adds the scanner's own
  bookkeeping: the locals that exist are a prefix of the order of construction
  fixed by `step`, a callback that publishes is one of the running loop, and a loop
  that was left without a signal was left by an exception. From it follow, for every
  place signals may find the connection at, `ScannerTypeCorrect`,
  `ReferencesAlwaysLive`, `FirstSignalAlwaysSafe` and `DeadObserverNeverReached`, and
  `StopsAreClean` for signals that find the loop idle or left.
  `DeadObserverNeverReached` is about the reference that does dangle: an exception
  skips `Unsubscribe`, and the collection's list holds the observer after it died. That
  nothing uses the list rests on what the connection proves of an exception: its
  context is over by then (`ThrownIsOver`) and no step runs the loop again.

- `RepositoryDelivery_proofs`, for any set of endpoints, any window, and any number of
  changes, outages, lost requests and faults. `RunsItsMirror`: each step but a restart is
  a step of the mirror or a stutter. A restart is not, since it forgets the map while the
  server keeps its state and the counts go on, so the mirror's invariant is shown to
  survive it separately, and `MirrorAlwaysCompleteInProcess` follows. `DeliveryTypeCorrect`,
  `DeliveredAlwaysFollowsMap` and `InventoryAlwaysRepairs` rest on `DeliveryInv`. The two
  properties speak of an empty window; what holds before it is empty is `Told(p)`: for
  each part of device `p` (its name, its flow, a volume), the last message on its way that
  writes this part writes the map's value, and if none writes it, the repository server
  has that value already. While nothing was lost since the start, every device in the map
  is told (`StartTold`); while nothing was lost since READY, every endpoint is told that
  the inventory is no longer waiting for (`ReadyTold`, with `Awaited` of
  `InventoryComplete_proofs`). A message that is sent again does no harm since what it
  writes is written again by what stands behind it in the window: that is an induction
  over the prefix that is replayed (`ReplayedIn`). `DeliveredAlwaysTrue` joins both halves:
  when all is quiet and nothing was lost since READY, the repository server has every
  endpoint of PulseAudio with its flow, and with its name and render volume if it
  shares its PnP id with no other of its direction.
  `DeliveryWorkShrinks` adds the message that is sent and the window to the mirror's
  `Work`: whatever the process, the broker's confirms and rejections and PulseAudio's
  answers do lowers that number. It is what `EventuallyDelivered` rests on besides
  fairness: without changes, faults and new contexts only finitely many steps are left.

### Induction

The induction theorems of the library take an operator as a parameter and cannot be
used with the installed backends. `DataLemmas` therefore states induction of a *set*
of natural numbers (`Induction`, from well-foundedness of `<`), and shows that a
function recursive on the naturals satisfies its own equation (`RecursionExists`, by the
union of its finite approximations). `FoldLeft` of
the community modules recurs on sets of indices instead; that its function exists for
every window is an induction over the length (`ReplaysExist`).

### What is only model-checked

What needs fairness, which TLAPS cannot reason about: `DeactivationStopsLoop`,
`ReconnectsEventually`, `ConstructionEnds`, `CloseEnds`, `PublishReturns`, `StopTakesEffect`, `FailureExits`,
`EventuallyDelivered`, and the part of `SupervisesConnection` that promises a
retry. Every invariant and every action property of the passing runs is also a
theorem.

## What is not modelled, and why

The logger but for the lock of its queue, message texts, JSON, host and system
names, time stamps, Poco's parsing of options and properties: they take no decision
the properties depend on, and what they compute is constant while the process runs.
`TimeUtil` and `AppPath` are formatting. `GetSize`, `CreateItem` by number and
`KeyInputThread`: nothing calls them. Host, user and password of the broker are
part of whether an attempt to connect succeeds, which is nondeterministic. An
exception thrown out of a callback unwinds to `main` or aborts: how it gets through
the C frames of libpulse and GLib depends on their build, and both happen in the
model. That a signal inside a callback can make libpulse abort is part of the model as
well, but no violation: nothing in the repository promises that a stop ends without
an abort. Of the memory a signal handler shares with the code it interrupts, the
object's own fields and the logger's lock are modelled; the allocator's is not, and
would show what `ScannerLogs` shows. The rmqcpp library's own reconnection appears
as confirms that come late or never, and as a window that is sent again. The
repository server is the function its messages suggest: a POST replaces a device, a
PUT replaces one volume.

The removal of an endpoint is only logged (the code that would act on it is commented
out), so a device that is gone stays in the map and in the repository; nothing in the
repository promises otherwise, and there is no property about it.

## What is left

The components, their two compositions and the two abstract specifications are
modelled, their safety is proved, and so is that the delivery's own steps run out. What
could be proved in addition is the same for the process: a number that the steps of
`LinuxSoundScanner` lower from a signal to the exit while the broker confirms, as the
part of `StopTakesEffect` that needs no fairness.
