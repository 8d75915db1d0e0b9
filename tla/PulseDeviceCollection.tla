------------------------ MODULE PulseDeviceCollection ------------------------
(***************************************************************************)
(* The device half of PulseDeviceCollection: the inventory taken when the  *)
(* context becomes READY, the subscription events, the queries they cause  *)
(* and pnpToDeviceMap_, which every answer updates and which               *)
(* ServiceObserver turns into messages for the repository server.          *)
(*                                                                         *)
(* The PulseAudio server is external: it answers the requests of the one   *)
(* connection in their order and puts its events into the same stream.     *)
(* The repository server is external too: a consumer that replays every    *)
(* message in order.  A sink or source is an endpoint; a device that is    *)
(* plugged in again gets a new index.                                      *)
(***************************************************************************)
EXTENDS PulseDevice, Sequences, FiniteSets

CONSTANTS
    Endpoints,     \* sinks and sources, monitor sources included
    FlowOf,        \* "Render" for a sink, "Capture" for a source
    PnpIdOf,       \* device.name, or the name without ".monitor"
    NameOf,        \* the description, without "Monitor of "
    RawVolumes,    \* pa_cvolume_avg: 65536 is 100%
    MaxChanges,    \* bound: changes of the server's endpoints
    MaxOutages,    \* bound: connections lost
    MaxTimeouts    \* bound: queries that end without an answer

VARIABLES
    server,        \* the server's endpoints
    connected,     \* the context is READY
    subscribed,    \* the server sends its events to this context
    requests,      \* what the server has not yet answered
    incoming,      \* answers and events the main loop has not yet dispatched
    devices,       \* pnpToDeviceMap_
    published,     \* what the last step gave to EnqueueRequest
    repository,    \* the devices as the repository server knows them
    spent          \* changes, outages and timeouts so far

link == <<connected, subscribed, requests, incoming>>
mirror == <<devices, published, repository>>
vars == <<server, link, mirror, spent>>

PnpIds == {PnpIdOf[e] : e \in Endpoints}
Names  == {NameOf[e] : e \in Endpoints}

ASSUME CollectionAssumption ==
    /\ IsFiniteSet(Endpoints)
    /\ FlowOf \in [Endpoints -> EndpointFlows]
    /\ DOMAIN PnpIdOf = Endpoints
    /\ DOMAIN NameOf = Endpoints
    /\ RawVolumes \subseteq Nat
    /\ MaxChanges \in Nat /\ MaxOutages \in Nat /\ MaxTimeouts \in Nat

ServerEndpoint == [present : BOOLEAN, index : Nat, volume : Nat, mute : BOOLEAN]

Infos == [endpoint : Endpoints, volume : Nat, mute : BOOLEAN]

InfoEvents == {"Confirmed", "Discovered", "Changed"}

Requests ==
    [kind : {"server_info", "subscribe"}]
    \cup [kind : {"list"}, flow : EndpointFlows]
    \cup [kind : {"by_index"}, endpoint : Endpoints, index : Nat,
          event : {"Discovered", "Changed"}]

Incoming ==
    [kind : {"server_info"}]
    \cup [kind : {"infos"}, event : InfoEvents, infos : SUBSET Infos]
    \cup [kind : {"notice"}, endpoint : Endpoints, index : Nat,
          change : {"NEW", "CHANGE", "REMOVE"}]

Nothing == [method |-> "none"]

Messages ==
    {Nothing}
    \cup [method : {"POST"}, event : {"Confirmed", "Discovered"}, pnpId : PnpIds,
          device : Devices(Names)]
    \cup [method : {"PUT"}, event : {"VolumeRenderChanged", "VolumeCaptureChanged"},
          pnpId : PnpIds, volume : Uint16]

\* A map of the code: a function on the PnP ids it contains.
IsDeviceMap(map) ==
    DOMAIN map \subseteq PnpIds /\ map \in [DOMAIN map -> Devices(Names)]

TypeOK ==
    /\ server \in [Endpoints -> ServerEndpoint]
    /\ connected \in BOOLEAN /\ subscribed \in BOOLEAN
    /\ requests \in Seq(Requests)
    /\ incoming \in Seq(Incoming)
    /\ IsDeviceMap(devices)
    /\ published \in Messages
    /\ IsDeviceMap(repository)
    /\ spent \in [changes : 0..MaxChanges, outages : 0..MaxOutages,
                  timeouts : 0..MaxTimeouts]

Absent(index) == [present |-> FALSE, index |-> index, volume |-> 0, mute |-> FALSE]

Init ==
    /\ server \in [Endpoints -> {Absent(0)} \cup
                      [present : {TRUE}, index : {0}, volume : RawVolumes, mute : {FALSE}]]
    /\ connected = FALSE /\ subscribed = FALSE
    /\ requests = <<>> /\ incoming = <<>>
    /\ devices = <<>> /\ published = Nothing /\ repository = <<>>
    /\ spent = [changes |-> 0, outages |-> 0, timeouts |-> 0]

-----------------------------------------------------------------------------
(* The messages: ServiceObserver and AudioDeviceApiClient.                 *)

Updated(map, pnpId, device) ==
    [p \in DOMAIN map \cup {pnpId} |-> IF p = pnpId THEN device ELSE map[p]]

\* What the repository server makes of one message, with the devices it has.
Replay(map, message) ==
    CASE message.method = "POST" -> Updated(map, message.pnpId, message.device)
      [] message.method = "PUT" /\ message.pnpId \in DOMAIN map ->
           IF message.event = "VolumeRenderChanged"
           THEN [map EXCEPT ![message.pnpId].renderVolume = message.volume]
           ELSE [map EXCEPT ![message.pnpId].captureVolume = message.volume]
      [] OTHER -> map

\* Mutant: the render volume is put for either direction.
OnCollectionChangedRenderOnly(event, pnpId) ==
    published' =
        IF event \in {"Confirmed", "Discovered"}
        THEN [method |-> "POST", event |-> event, pnpId |-> pnpId,
              device |-> devices'[pnpId]]
        ELSE [method |-> "PUT", event |-> event, pnpId |-> pnpId,
              volume |-> devices'[pnpId].renderVolume]

\* OnCollectionChanged reads the device back from the collection, by then
\* updated, and posts all of it or puts the volume of one direction.
OnCollectionChanged(event, pnpId) ==
    published' =
        IF event \in {"Confirmed", "Discovered"}
        THEN [method |-> "POST", event |-> event, pnpId |-> pnpId,
              device |-> devices'[pnpId]]
        ELSE [method |-> "PUT", event |-> event, pnpId |-> pnpId,
              volume |-> IF event = "VolumeRenderChanged"
                         THEN devices'[pnpId].renderVolume
                         ELSE devices'[pnpId].captureVolume]

NotifyObservers(event, pnpId) ==
    OnCollectionChanged(event, pnpId) /\ repository' = Replay(repository, published')

Silent == devices' = devices /\ published' = Nothing /\ repository' = repository

-----------------------------------------------------------------------------
(* The map.                                                                *)

\* Mutant: the observers hear of a device only when the map learns something.
AddOrUpdateAndNotifyNews(event, pnpId, device) ==
    IF pnpId \in DOMAIN devices /\ MergeDevice(devices[pnpId], device) = devices[pnpId]
    THEN Silent
    ELSE /\ devices' = Updated(devices, pnpId,
                               IF pnpId \in DOMAIN devices
                               THEN MergeDevice(devices[pnpId], device) ELSE device)
         /\ NotifyObservers(event, pnpId)

AddOrUpdateAndNotify(event, pnpId, device) ==
    /\ devices' = Updated(devices, pnpId,
                          IF pnpId \in DOMAIN devices
                          THEN MergeDevice(devices[pnpId], device) ELSE device)
    /\ NotifyObservers(event, pnpId)

\* prevVolume is the render volume for either direction.
CheckIfVolumeChangedAndNotify(pnpId, flow, volume) ==
    IF pnpId \in DOMAIN devices /\ devices[pnpId].renderVolume # volume
    THEN IF flow = "Render"
         THEN /\ devices' = [devices EXCEPT ![pnpId].renderVolume = volume]
              /\ NotifyObservers("VolumeRenderChanged", pnpId)
         ELSE /\ devices' = [devices EXCEPT ![pnpId].captureVolume = volume]
              /\ NotifyObservers("VolumeCaptureChanged", pnpId)
    ELSE Silent

\* DeliverDeviceAndState and DeliverChangedState.
Deliver(event, info) ==
    LET e      == info.endpoint
        volume == StoredVolume(info.volume, info.mute)
    IN  IF event = "Changed"
        THEN CheckIfVolumeChangedAndNotify(PnpIdOf[e], FlowOf[e], volume)
        ELSE AddOrUpdateAndNotify(event, PnpIdOf[e],
                                  EndpointDevice(NameOf[e], FlowOf[e], volume))

-----------------------------------------------------------------------------
(* The server.                                                             *)

Post(notice) == incoming' = IF subscribed THEN Append(incoming, notice) ELSE incoming

ServerChanges(e, change, endpoint) ==
    /\ spent.changes < MaxChanges
    /\ spent' = [spent EXCEPT !.changes = @ + 1]
    /\ server' = [server EXCEPT ![e] = endpoint]
    /\ Post([kind |-> "notice", endpoint |-> e, index |-> endpoint.index,
             change |-> change])
    /\ UNCHANGED <<connected, subscribed, requests, devices, repository>>
    /\ published' = Nothing

Plug(e) ==
    /\ ~server[e].present
    /\ \E volume \in RawVolumes, mute \in BOOLEAN :
          ServerChanges(e, "NEW", [present |-> TRUE, index |-> server[e].index + 1,
                                   volume |-> volume, mute |-> mute])

Unplug(e) ==
    /\ server[e].present
    /\ ServerChanges(e, "REMOVE", Absent(server[e].index))

\* A change of volume, mute or, when both stay, of some other property.
Adjust(e) ==
    /\ server[e].present
    /\ \E volume \in RawVolumes, mute \in BOOLEAN :
          ServerChanges(e, "CHANGE", [server[e] EXCEPT !.volume = volume, !.mute = mute])

InfoOf(e) == [endpoint |-> e, volume |-> server[e].volume, mute |-> server[e].mute]

Found(request) ==
    IF request.kind = "list"
    THEN {e \in Endpoints : server[e].present /\ FlowOf[e] = request.flow}
    ELSE {e \in {request.endpoint} : server[e].present /\ server[e].index = request.index}

\* An index the server no longer knows gets an error, which reaches the
\* callback as an end of list without a device.
Reply(request) ==
    CASE request.kind = "subscribe"   -> <<>>
      [] request.kind = "server_info" -> <<[kind |-> "server_info"]>>
      [] OTHER -> <<[kind  |-> "infos",
                     event |-> IF request.kind = "list" THEN "Confirmed" ELSE request.event,
                     infos |-> {InfoOf(e) : e \in Found(request)}]>>

\* The server takes one request.
Answer ==
    /\ requests # <<>>
    /\ requests' = Tail(requests)
    /\ incoming' = incoming \o Reply(Head(requests))
    /\ subscribed' = (subscribed \/ Head(requests).kind = "subscribe")
    /\ UNCHANGED <<server, connected, devices, repository, spent>>
    /\ published' = Nothing

\* A request ends without an answer: the callbacks log it at most, and
\* pa_context_subscribe has no callback to tell.
RequestTimesOut ==
    /\ requests # <<>> /\ spent.timeouts < MaxTimeouts
    /\ spent' = [spent EXCEPT !.timeouts = @ + 1]
    /\ requests' = Tail(requests)
    /\ UNCHANGED <<server, connected, subscribed, incoming, devices, repository>>
    /\ published' = Nothing

-----------------------------------------------------------------------------
(* The connection, as PulseConnection leaves it.                           *)

\* Mutant: the inventory is taken before the subscription.
ReadyRequestsListsFirst ==
    <<[kind |-> "list", flow |-> "Render"], [kind |-> "list", flow |-> "Capture"],
      [kind |-> "subscribe"]>>

\* The requests of a context that has just become READY: RequestInitialInfo,
\* then StartMonitoring.
ReadyRequests == <<[kind |-> "server_info"], [kind |-> "subscribe"]>>

ContextReady ==
    /\ ~connected
    /\ connected' = TRUE
    /\ requests' = ReadyRequests
    /\ UNCHANGED <<server, subscribed, incoming, devices, repository, spent>>
    /\ published' = Nothing

\* The context is lost with everything on its way; the map stays.
ContextLost ==
    /\ connected /\ spent.outages < MaxOutages
    /\ spent' = [spent EXCEPT !.outages = @ + 1]
    /\ connected' = FALSE /\ subscribed' = FALSE
    /\ requests' = <<>> /\ incoming' = <<>>
    /\ UNCHANGED <<server, devices, repository>>
    /\ published' = Nothing

-----------------------------------------------------------------------------
(* The callbacks the main loop dispatches.                                 *)

Dispatched(kind) == incoming # <<>> /\ Head(incoming).kind = kind

Ask(asked) == requests' = requests \o asked

\* Mutant: the sources are forgotten.
ServerInfoCallbackSinksOnly ==
    /\ Dispatched("server_info")
    /\ incoming' = Tail(incoming)
    /\ Ask(<<[kind |-> "list", flow |-> "Render"]>>)
    /\ UNCHANGED <<server, connected, subscribed, spent>>
    /\ Silent

ServerInfoCallback ==
    /\ Dispatched("server_info")
    /\ incoming' = Tail(incoming)
    /\ Ask(<<[kind |-> "list", flow |-> "Render"], [kind |-> "list", flow |-> "Capture"]>>)
    /\ UNCHANGED <<server, connected, subscribed, spent>>
    /\ Silent

\* What an event makes the code ask; a removal is only logged.
QueryAfter(notice) ==
    IF notice.change = "REMOVE" THEN <<>>
    ELSE <<[kind |-> "by_index", endpoint |-> notice.endpoint, index |-> notice.index,
            event |-> IF notice.change = "NEW" THEN "Discovered" ELSE "Changed"]>>

SubscribeCallback ==
    /\ Dispatched("notice")
    /\ incoming' = Tail(incoming)
    /\ Ask(QueryAfter(Head(incoming)))
    /\ UNCHANGED <<server, connected, subscribed, spent>>
    /\ Silent

\* InfoCallback and ChangedInfoCallback, called once per device of an answer.
InfoCallback ==
    /\ Dispatched("infos")
    /\ \E info \in Head(incoming).infos :
          /\ incoming' = <<[Head(incoming) EXCEPT !.infos = @ \ {info}]>> \o Tail(incoming)
          /\ Deliver(Head(incoming).event, info)
    /\ UNCHANGED <<server, connected, subscribed, requests, spent>>

\* Mutant: the end of any list asks for the sources.
EndOfListAsksAgain ==
    /\ Dispatched("infos") /\ Head(incoming).infos = {}
    /\ incoming' = Tail(incoming)
    /\ Ask(<<[kind |-> "list", flow |-> "Capture"]>>)
    /\ UNCHANGED <<server, connected, subscribed, spent>>
    /\ Silent

EndOfList ==
    /\ Dispatched("infos") /\ Head(incoming).infos = {}
    /\ incoming' = Tail(incoming)
    /\ UNCHANGED <<server, connected, subscribed, requests, spent>>
    /\ Silent

\* Nothing to answer or to dispatch: the main loop sleeps.
Idle == connected /\ requests = <<>> /\ incoming = <<>> /\ UNCHANGED vars

ServerStep == \E e \in Endpoints : Plug(e) \/ Unplug(e) \/ Adjust(e)

Callback == ServerInfoCallback \/ SubscribeCallback \/ InfoCallback \/ EndOfList

Next == ServerStep \/ Answer \/ ContextReady \/ ContextLost \/ Callback \/ RequestTimesOut \/ Idle

Spec == Init /\ [][Next]_vars

-----------------------------------------------------------------------------
(* Safety.                                                                 *)

\* Replaying the messages gives exactly pnpToDeviceMap_: every change of the
\* map is published, whole or by the volume that changed, and nothing else is.
RepositoryMatches == repository = devices

Quiet == connected /\ requests = <<>> /\ incoming = <<>>

Unshared(e) ==
    \A other \in Endpoints \ {e} : <<PnpIdOf[other], FlowOf[other]>> # <<PnpIdOf[e], FlowOf[e]>>

Current(e) == StoredVolume(server[e].volume, server[e].mute)

\* When everything is answered and dispatched, no endpoint is missing: its
\* device is known, under its name and with its flow.  The server may have
\* changed at any time, before or after the subscription took effect.
InventoryComplete ==
    Quiet /\ spent.timeouts = 0 =>
        \A e \in Endpoints : server[e].present =>
            /\ PnpIdOf[e] \in DOMAIN devices
            /\ FlowOf[e] \in Covers(devices[PnpIdOf[e]].flow)
            /\ Unshared(e) => NameOf[e] \in devices[PnpIdOf[e]].name

\* And then the volume of every sink that shares its PnP id with no other sink is
\* the server's (one map entry has room for one render volume).  A change between
\* the list and the subscription, or one whose query overtakes another, is not lost.
RenderMirrored ==
    Quiet /\ spent.timeouts = 0 =>
        \A e \in Endpoints :
            server[e].present /\ FlowOf[e] = "Render" /\ Unshared(e) =>
                /\ PnpIdOf[e] \in DOMAIN devices
                /\ devices[PnpIdOf[e]].renderVolume = Current(e)

\* README.md:3 promises the state changes of the audio devices, microphones
\* included.  The code compares a capture volume with the render volume.
CaptureMirrored ==
    Quiet /\ spent.timeouts = 0 =>
        \A e \in Endpoints :
            server[e].present /\ FlowOf[e] = "Capture" /\ Unshared(e) =>
                /\ PnpIdOf[e] \in DOMAIN devices
                /\ devices[PnpIdOf[e]].captureVolume = Current(e)

\* PulseDevice.h:24 and :25: the volumes are 0 to 1000.  PulseAudio's are not
\* limited to 100%.
VolumeWithinThousand ==
    \A p \in DOMAIN devices :
        devices[p].renderVolume <= 1000 /\ devices[p].captureVolume <= 1000

\* A device never leaves the map and never loses a flow, whatever order sinks,
\* sources and their changes are merged in.
FlowOnlyGrows ==
    [][\A p \in DOMAIN devices :
          p \in DOMAIN devices' /\ Covers(devices[p].flow) \subseteq Covers(devices'[p].flow)]_vars

-----------------------------------------------------------------------------
(* Coming to rest.                                                         *)

Total(work, s) ==
    LET sum[i \in 0..Len(s)] == IF i = 0 THEN 0 ELSE sum[i - 1] + work[s[i]]
    IN  sum[Len(s)]

\* How many answers and callbacks a request leads to at most, counting itself.
RequestWork ==
    [request \in Requests |->
        CASE request.kind = "server_info" -> 2 * Cardinality(Endpoints) + 6
          [] request.kind = "list"        -> Cardinality(Endpoints) + 2
          [] request.kind = "by_index"    -> 3
          [] request.kind = "subscribe"   -> 1]

\* And an item of the stream.
ItemWork ==
    [item \in Incoming |->
        CASE item.kind = "server_info" -> 2 * Cardinality(Endpoints) + 5
          [] item.kind = "infos"       -> Cardinality(item.infos) + 1
          [] item.kind = "notice"      -> 4]

Work == Total(RequestWork, requests) + Total(ItemWork, incoming)

\* PulseDeviceCollection.cpp:240-428: what the callbacks ask for never feeds itself.  An
\* answer, a callback or a timeout leaves less to do, whatever is plugged in or out
\* meanwhile; only a change of the server, by one notice, and READY make work.
WorkShrinks ==
    [][Answer \/ Callback \/ RequestTimesOut => Work' < Work]_vars

-----------------------------------------------------------------------------
(* Refinement.                                                             *)

\* The volumes the repository server has, of the directions a device covers.
VolumeOf(device, d) == IF d = "Render" THEN device.renderVolume ELSE device.captureVolume

knownVolumes ==
    [p \in DOMAIN repository |->
        [d \in Covers(repository[p].flow) |-> VolumeOf(repository[p], d)]]

Repository == INSTANCE DeviceRepository
                  WITH Ids <- PnpIds, Directions <- EndpointFlows, Volumes <- Uint16,
                       known <- knownVolumes

\* PulseDeviceCollection.cpp:430-506: however sinks, sources, monitors and their
\* changes interleave and merge, a message reports one direction of one device and
\* leaves every other volume the repository knows as it was.
ReportsOneDirection == Repository!Spec
=============================================================================
