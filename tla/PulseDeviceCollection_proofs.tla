--------------------- MODULE PulseDeviceCollection_proofs ---------------------
(***************************************************************************)
(* Proofs about the device half of PulseDeviceCollection, for any set of   *)
(* endpoints, any sharing of PnP ids, any volumes and any bounds.          *)
(***************************************************************************)
EXTENDS PulseDeviceCollection, PulseDevice_proofs

FlowsKept(before, after) ==
    \A p \in DOMAIN before :
        p \in DOMAIN after /\ Covers(before[p].flow) \subseteq Covers(after[p].flow)

LEMMA UpdatedFacts ==
    ASSUME NEW map, IsDeviceMap(map), NEW pnpId \in PnpIds, NEW device \in Devices(Names)
    PROVE  /\ IsDeviceMap(Updated(map, pnpId, device))
           /\ DOMAIN Updated(map, pnpId, device) = DOMAIN map \cup {pnpId}
           /\ Updated(map, pnpId, device)[pnpId] = device
           /\ \A p \in DOMAIN map : p # pnpId => Updated(map, pnpId, device)[p] = map[p]
  BY DEF IsDeviceMap, Updated

\* A discovery or a confirmation: the map and the repository take the same
\* device, and merging it loses no flow.
LEMMA AddOrUpdateFacts ==
    ASSUME IsDeviceMap(devices), repository = devices,
           NEW event \in {"Confirmed", "Discovered"}, NEW pnpId \in PnpIds,
           NEW device \in Devices(Names), AddOrUpdateAndNotify(event, pnpId, device)
    PROVE  /\ IsDeviceMap(devices') /\ repository' = devices'
           /\ published' \in Messages /\ FlowsKept(devices, devices')
           /\ published'.method = "POST"
  <1> DEFINE merged == IF pnpId \in DOMAIN devices
                       THEN MergeDevice(devices[pnpId], device) ELSE device
  <1>1. merged \in Devices(Names)
    BY MergeDeviceType DEF IsDeviceMap
  <1>2. devices' = Updated(devices, pnpId, merged)
    BY DEF AddOrUpdateAndNotify
  <1>3. pnpId \in DOMAIN devices => Covers(devices[pnpId].flow) \subseteq Covers(merged.flow)
    BY MergeDeviceCovers DEF IsDeviceMap
  <1> HIDE DEF merged
  <1>4. /\ IsDeviceMap(devices') /\ DOMAIN devices' = DOMAIN devices \cup {pnpId}
        /\ devices'[pnpId] = merged
        /\ \A p \in DOMAIN devices : p # pnpId => devices'[p] = devices[p]
    BY <1>1, <1>2, UpdatedFacts
  <1>5. FlowsKept(devices, devices')
    BY <1>3, <1>4 DEF FlowsKept
  <1>6. published' = [method |-> "POST", event |-> event, pnpId |-> pnpId,
                      device |-> merged]
    BY <1>4 DEF AddOrUpdateAndNotify, NotifyObservers, OnCollectionChanged
  <1>7. repository' = Updated(repository, pnpId, merged)
    <2>1. repository' = Replay(repository, published')
      BY DEF AddOrUpdateAndNotify, NotifyObservers
    <2>2. /\ published'.method = "POST" /\ published'.pnpId = pnpId
          /\ published'.device = merged
      BY <1>6
    <2> QED BY <2>1, <2>2 DEF Replay
  <1> QED BY <1>1, <1>2, <1>4, <1>5, <1>6, <1>7 DEF Messages

\* A changed volume: the map and the repository set the same field of the same
\* device, or neither changes.
LEMMA VolumeChangeFacts ==
    ASSUME IsDeviceMap(devices), repository = devices,
           NEW pnpId \in PnpIds, NEW flow \in EndpointFlows, NEW volume \in Uint16,
           CheckIfVolumeChangedAndNotify(pnpId, flow, volume)
    PROVE  /\ IsDeviceMap(devices') /\ repository' = devices'
           /\ published' \in Messages /\ FlowsKept(devices, devices')
  <1>1. CASE ~(pnpId \in DOMAIN devices /\ devices[pnpId].renderVolume # volume)
    BY <1>1 DEF CheckIfVolumeChangedAndNotify, Silent, Messages, Nothing, FlowsKept
  <1>2. CASE pnpId \in DOMAIN devices /\ devices[pnpId].renderVolume # volume
             /\ flow = "Render"
    <2> DEFINE new == [devices[pnpId] EXCEPT !.renderVolume = volume]
    <2>1. devices' = [devices EXCEPT ![pnpId] = new]
      BY <1>2 DEF CheckIfVolumeChangedAndNotify
    <2>2. /\ new \in Devices(Names) /\ new.renderVolume = volume
          /\ new.flow = devices[pnpId].flow
      BY <1>2 DEF IsDeviceMap, Devices
    <2> HIDE DEF new
    <2>3. /\ IsDeviceMap(devices') /\ DOMAIN devices' = DOMAIN devices
          /\ devices'[pnpId] = new
          /\ \A p \in DOMAIN devices : p # pnpId => devices'[p] = devices[p]
      BY <1>2, <2>1, <2>2 DEF IsDeviceMap
    <2>4. published' = [method |-> "PUT", event |-> "VolumeRenderChanged",
                        pnpId |-> pnpId, volume |-> volume]
      BY <1>2, <2>2, <2>3 DEF CheckIfVolumeChangedAndNotify, NotifyObservers, OnCollectionChanged
    <2>5. repository' = [repository EXCEPT ![pnpId].renderVolume = volume]
      <3>1. repository' = Replay(repository, published')
        BY <1>2 DEF CheckIfVolumeChangedAndNotify, NotifyObservers
      <3>2. /\ published'.method = "PUT" /\ published'.event = "VolumeRenderChanged"
            /\ published'.pnpId = pnpId /\ published'.volume = volume
        BY <2>4
      <3> QED BY <1>2, <3>1, <3>2 DEF Replay
    <2>6. repository' = devices'
      BY <2>1, <2>5 DEF new
    <2>7. published' \in Messages
      BY <2>4 DEF Messages
    <2> QED BY <2>2, <2>3, <2>6, <2>7 DEF FlowsKept
  <1>3. CASE pnpId \in DOMAIN devices /\ devices[pnpId].renderVolume # volume
             /\ flow = "Capture"
    <2> DEFINE new == [devices[pnpId] EXCEPT !.captureVolume = volume]
    <2>1. devices' = [devices EXCEPT ![pnpId] = new]
      BY <1>3 DEF CheckIfVolumeChangedAndNotify
    <2>2. /\ new \in Devices(Names) /\ new.captureVolume = volume
          /\ new.flow = devices[pnpId].flow
      BY <1>3 DEF IsDeviceMap, Devices
    <2> HIDE DEF new
    <2>3. /\ IsDeviceMap(devices') /\ DOMAIN devices' = DOMAIN devices
          /\ devices'[pnpId] = new
          /\ \A p \in DOMAIN devices : p # pnpId => devices'[p] = devices[p]
      BY <1>3, <2>1, <2>2 DEF IsDeviceMap
    <2>4. published' = [method |-> "PUT", event |-> "VolumeCaptureChanged",
                        pnpId |-> pnpId, volume |-> volume]
      BY <1>3, <2>2, <2>3 DEF CheckIfVolumeChangedAndNotify, NotifyObservers, OnCollectionChanged
    <2>5. repository' = [repository EXCEPT ![pnpId].captureVolume = volume]
      <3>1. repository' = Replay(repository, published')
        BY <1>3 DEF CheckIfVolumeChangedAndNotify, NotifyObservers
      <3>2. /\ published'.method = "PUT" /\ published'.event = "VolumeCaptureChanged"
            /\ published'.pnpId = pnpId /\ published'.volume = volume
        BY <2>4
      <3> QED BY <1>3, <3>1, <3>2 DEF Replay
    <2>6. repository' = devices'
      BY <2>1, <2>5 DEF new
    <2>7. published' \in Messages
      BY <2>4 DEF Messages
    <2> QED BY <2>2, <2>3, <2>6, <2>7 DEF FlowsKept
  <1> QED BY <1>1, <1>2, <1>3 DEF EndpointFlows

MirrorStep ==
    /\ IsDeviceMap(devices') /\ repository' = devices'
    /\ published' \in Messages /\ FlowsKept(devices, devices')

LEMMA DeliverFacts ==
    ASSUME IsDeviceMap(devices), repository = devices,
           NEW event \in InfoEvents, NEW info \in Infos, Deliver(event, info)
    PROVE  MirrorStep
  <1> DEFINE e == info.endpoint
             volume == StoredVolume(info.volume, info.mute)
  <1>1. e \in Endpoints /\ volume \in Uint16
    BY StoredVolumeType DEF Infos
  <1>2. PnpIdOf[e] \in PnpIds /\ FlowOf[e] \in EndpointFlows /\ NameOf[e] \in Names
    BY <1>1, CollectionAssumption DEF PnpIds, Names
  <1> HIDE DEF e, volume
  <1>3. CASE event = "Changed"
    <2>1. CheckIfVolumeChangedAndNotify(PnpIdOf[e], FlowOf[e], volume)
      BY <1>3 DEF Deliver, e, volume
    <2> QED BY <1>1, <1>2, <2>1, VolumeChangeFacts DEF MirrorStep
  <1>4. CASE event # "Changed"
    <2> DEFINE device == EndpointDevice(NameOf[e], FlowOf[e], volume)
    <2>1. AddOrUpdateAndNotify(event, PnpIdOf[e], device)
      BY <1>4 DEF Deliver, e, volume
    <2>2. device \in Devices(Names)
      BY <1>1, <1>2, EndpointDeviceType
    <2>3. event \in {"Confirmed", "Discovered"}
      BY <1>4 DEF InfoEvents
    <2> HIDE DEF device
    <2>4. published'.method = "POST"
      BY <1>2, <2>1, <2>2, <2>3, AddOrUpdateFacts
    <2>5. /\ IsDeviceMap(devices') /\ repository' = devices'
          /\ published' \in Messages /\ FlowsKept(devices, devices')
      BY <1>2, <2>1, <2>2, <2>3, AddOrUpdateFacts
    <2> QED BY <2>4, <2>5 DEF MirrorStep
  <1> QED BY <1>3, <1>4

-----------------------------------------------------------------------------
(* The invariant.                                                          *)

Link == /\ server \in [Endpoints -> ServerEndpoint]
        /\ connected \in BOOLEAN /\ subscribed \in BOOLEAN
        /\ requests \in Seq(Requests)
        /\ incoming \in Seq(Incoming)
        /\ spent \in [changes : 0..MaxChanges, outages : 0..MaxOutages,
                      timeouts : 0..MaxTimeouts]

MirrorInv == TypeOK /\ RepositoryMatches

LEMMA MirrorInit == Init => MirrorInv
  <1> SUFFICES ASSUME Init PROVE MirrorInv
    OBVIOUS
  <1>1. {Absent(0)} \cup [present : {TRUE}, index : {0}, volume : RawVolumes, mute : {FALSE}]
          \subseteq ServerEndpoint
    <2>1. Absent(0) \in ServerEndpoint
      BY DEF Absent, ServerEndpoint
    <2>2. [present : {TRUE}, index : {0}, volume : RawVolumes, mute : {FALSE}]
            \subseteq ServerEndpoint
      <3> SUFFICES ASSUME NEW x \in [present : {TRUE}, index : {0},
                                     volume : RawVolumes, mute : {FALSE}]
                   PROVE  x \in ServerEndpoint
        BY Zenon
      <3>1. x = [present |-> x.present, index |-> x.index, volume |-> x.volume,
                 mute |-> x.mute]
        OBVIOUS
      <3>2. x.present \in BOOLEAN /\ x.index \in Nat /\ x.volume \in Nat /\ x.mute \in BOOLEAN
        <4>1. x.present \in {TRUE} /\ x.mute \in {FALSE}
          BY Zenon
        <4>2. x.index \in {0} /\ x.volume \in RawVolumes
          BY Zenon
        <4>3. 0 \in Nat
          OBVIOUS
        <4>4. x.index \in Nat /\ x.volume \in Nat
          BY <4>2, <4>3, CollectionAssumption, Zenon DEF CollectionAssumption
        <4> QED BY <4>1, <4>4, Zenon
      <3> QED BY <3>1, <3>2, Zenon DEF ServerEndpoint
    <2> QED BY <2>1, <2>2
  <1>2. server \in [Endpoints -> ServerEndpoint]
    BY <1>1 DEF Init
  <1>3. IsDeviceMap(devices) /\ IsDeviceMap(repository)
    BY DEF Init, IsDeviceMap
  <1>4. spent \in [changes : 0..MaxChanges, outages : 0..MaxOutages,
                   timeouts : 0..MaxTimeouts]
    BY CollectionAssumption DEF Init
  <1>5. /\ connected \in BOOLEAN /\ subscribed \in BOOLEAN
        /\ requests \in Seq(Requests) /\ incoming \in Seq(Incoming)
        /\ published \in Messages /\ repository = devices
    <2>1. Nothing \in Messages
      BY Zenon DEF Messages
    <2>2. <<>> \in Seq(Requests) /\ <<>> \in Seq(Incoming)
      OBVIOUS
    <2> QED BY <2>1, <2>2 DEF Init
  <1> QED BY <1>2, <1>3, <1>4, <1>5 DEF MirrorInv, TypeOK, RepositoryMatches

LEMMA SilentStep ==
    ASSUME IsDeviceMap(devices), repository = devices,
           devices' = devices, repository' = repository, published' = Nothing
    PROVE  MirrorStep
  BY DEF MirrorStep, FlowsKept, Messages, Nothing

LEMMA ServerChangesLink ==
    ASSUME MirrorInv, NEW e \in Endpoints, NEW change \in {"NEW", "CHANGE", "REMOVE"},
           NEW endpoint \in ServerEndpoint, ServerChanges(e, change, endpoint)
    PROVE  Link' /\ MirrorStep
  <1> USE DEF MirrorInv, TypeOK
  <1>1. server' \in [Endpoints -> ServerEndpoint]
    BY DEF ServerChanges
  <1>2. [kind |-> "notice", endpoint |-> e, index |-> endpoint.index, change |-> change]
          \in Incoming
    BY DEF Incoming, ServerEndpoint
  <1>3. incoming' \in Seq(Incoming)
    BY <1>2 DEF ServerChanges, Post
  <1>4. spent' \in [changes : 0..MaxChanges, outages : 0..MaxOutages,
                    timeouts : 0..MaxTimeouts]
    BY CollectionAssumption DEF ServerChanges
  <1>5. MirrorStep
    BY SilentStep DEF ServerChanges, RepositoryMatches
  <1> QED BY <1>1, <1>3, <1>4, <1>5 DEF ServerChanges, Link

LEMMA MirrorNext ==
    ASSUME MirrorInv, [Next]_vars
    PROVE  (Link' /\ MirrorStep) \/ UNCHANGED vars
  <1> USE DEF MirrorInv, TypeOK
  <1>1. CASE ServerStep
    <2>1. ASSUME NEW e \in Endpoints, Plug(e)
          PROVE  Link' /\ MirrorStep
      <3>1. PICK volume \in RawVolumes, mute \in BOOLEAN :
              ServerChanges(e, "NEW", [present |-> TRUE, index |-> server[e].index + 1,
                                       volume |-> volume, mute |-> mute])
        BY <2>1 DEF Plug
      <3>2. server[e].index + 1 \in Nat
        BY DEF ServerEndpoint
      <3>3. [present |-> TRUE, index |-> server[e].index + 1,
             volume |-> volume, mute |-> mute] \in ServerEndpoint
        BY <3>2, CollectionAssumption DEF ServerEndpoint
      <3> QED BY <3>1, <3>3, ServerChangesLink
    <2>2. ASSUME NEW e \in Endpoints, Unplug(e)
          PROVE  Link' /\ MirrorStep
      <3>1. Absent(server[e].index) \in ServerEndpoint
        BY DEF ServerEndpoint, Absent
      <3> QED BY <2>2, <3>1, ServerChangesLink DEF Unplug
    <2>3. ASSUME NEW e \in Endpoints, Adjust(e)
          PROVE  Link' /\ MirrorStep
      <3>1. PICK volume \in RawVolumes, mute \in BOOLEAN :
              ServerChanges(e, "CHANGE", [server[e] EXCEPT !.volume = volume, !.mute = mute])
        BY <2>3 DEF Adjust
      <3>2. [server[e] EXCEPT !.volume = volume, !.mute = mute] \in ServerEndpoint
        BY CollectionAssumption DEF ServerEndpoint
      <3> QED BY <3>1, <3>2, ServerChangesLink
    <2> QED BY <1>1, <2>1, <2>2, <2>3 DEF ServerStep
  <1>2. CASE Answer
    <2>1. requests' \in Seq(Requests)
      BY <1>2 DEF Answer
    <2>2. incoming' \in Seq(Incoming) /\ subscribed' \in BOOLEAN
      <3> DEFINE request == Head(requests)
      <3>1. request \in Requests
        BY <1>2 DEF Answer
      <3>2. [kind |-> "server_info"] \in Incoming
        BY DEF Incoming
      <3>3. ASSUME request.kind # "subscribe", request.kind # "server_info"
            PROVE  [kind  |-> "infos",
                    event |-> IF request.kind = "list" THEN "Confirmed" ELSE request.event,
                    infos |-> {InfoOf(e) : e \in Found(request)}] \in Incoming
        <4>1. Found(request) \subseteq Endpoints
          BY <3>1, <3>3 DEF Found, Requests
        <4>2. {InfoOf(e) : e \in Found(request)} \in SUBSET Infos
          BY <4>1 DEF InfoOf, Infos, ServerEndpoint
        <4>3. (IF request.kind = "list" THEN "Confirmed" ELSE request.event) \in InfoEvents
          BY <3>1, <3>3 DEF Requests, InfoEvents
        <4> QED BY <4>2, <4>3 DEF Incoming
      <3> HIDE DEF request
      <3>4. Reply(request) \in Seq(Incoming)
        BY <3>2, <3>3 DEF Reply
      <3>5. incoming' = incoming \o Reply(request) /\ subscribed' \in BOOLEAN
        BY <1>2 DEF Answer, request
      <3> QED BY <3>4, <3>5
    <2>3. MirrorStep
      BY <1>2, SilentStep DEF Answer, RepositoryMatches
    <2> QED BY <1>2, <2>1, <2>2, <2>3 DEF Answer, Link
  <1>3. CASE ContextReady
    <2>1. ReadyRequests \in Seq(Requests)
      BY DEF ReadyRequests, Requests
    <2>2. MirrorStep
      BY <1>3, SilentStep DEF ContextReady, RepositoryMatches
    <2> QED BY <1>3, <2>1, <2>2 DEF ContextReady, Link
  <1>4. CASE ContextLost
    <2>1. spent' \in [changes : 0..MaxChanges, outages : 0..MaxOutages,
                      timeouts : 0..MaxTimeouts]
      BY <1>4, CollectionAssumption DEF ContextLost
    <2>2. MirrorStep
      BY <1>4, SilentStep DEF ContextLost, RepositoryMatches
    <2>3. requests' \in Seq(Requests) /\ incoming' \in Seq(Incoming)
      BY <1>4 DEF ContextLost
    <2>4. server' \in [Endpoints -> ServerEndpoint]
          /\ connected' \in BOOLEAN /\ subscribed' \in BOOLEAN
      BY <1>4 DEF ContextLost
    <2> QED BY <2>1, <2>2, <2>3, <2>4 DEF Link
  <1>5. CASE ServerInfoCallback
    <2>1. <<[kind |-> "list", flow |-> "Render"], [kind |-> "list", flow |-> "Capture"]>>
            \in Seq(Requests)
      BY DEF Requests, EndpointFlows
    <2>2. requests' \in Seq(Requests) /\ incoming' \in Seq(Incoming)
      BY <1>5, <2>1 DEF ServerInfoCallback, Ask, Dispatched
    <2>3. MirrorStep
      BY <1>5, SilentStep DEF ServerInfoCallback, Silent, RepositoryMatches
    <2> QED BY <1>5, <2>2, <2>3 DEF ServerInfoCallback, Link
  <1>6. CASE SubscribeCallback
    <2>1. Head(incoming) \in Incoming /\ Head(incoming).kind = "notice"
      BY <1>6 DEF SubscribeCallback, Dispatched
    <2>2. /\ Head(incoming).endpoint \in Endpoints
          /\ Head(incoming).index \in Nat
      BY <2>1 DEF Incoming
    <2>3. QueryAfter(Head(incoming)) \in Seq(Requests)
      <3> DEFINE n == Head(incoming)
                 query == [kind |-> "by_index", endpoint |-> n.endpoint, index |-> n.index,
                           event |-> IF n.change = "NEW" THEN "Discovered" ELSE "Changed"]
      <3>1. query \in Requests
        BY <2>2 DEF Requests
      <3>2. QueryAfter(n) = <<>> \/ QueryAfter(n) = <<query>>
        BY DEF QueryAfter
      <3> HIDE DEF query, n
      <3>3. <<>> \in Seq(Requests) /\ <<query>> \in Seq(Requests)
        BY <3>1
      <3>4. QueryAfter(n) \in Seq(Requests)
        BY <3>2, <3>3, Zenon
      <3> QED BY <3>4 DEF n
    <2>4. requests' \in Seq(Requests) /\ incoming' \in Seq(Incoming)
      BY <1>6, <2>3 DEF SubscribeCallback, Ask, Dispatched
    <2>5. MirrorStep
      BY <1>6, SilentStep DEF SubscribeCallback, Silent, RepositoryMatches
    <2> QED BY <1>6, <2>4, <2>5 DEF SubscribeCallback, Link
  <1>7. CASE InfoCallback
    <2> DEFINE head == Head(incoming)
    <2>1. head \in Incoming /\ head.kind = "infos"
      BY <1>7 DEF InfoCallback, Dispatched
    <2>2. head.event \in InfoEvents /\ head.infos \in SUBSET Infos
      BY <2>1 DEF Incoming
    <2>3. PICK info \in head.infos :
            /\ incoming' = <<[head EXCEPT !.infos = @ \ {info}]>> \o Tail(incoming)
            /\ Deliver(head.event, info)
      BY <1>7 DEF InfoCallback
    <2>4. [head EXCEPT !.infos = @ \ {info}] \in Incoming
      BY <2>1, <2>2 DEF Incoming
    <2>5. incoming # <<>>
      BY <1>7 DEF InfoCallback, Dispatched
    <2> HIDE DEF head
    <2>6. incoming' \in Seq(Incoming)
      BY <2>3, <2>4, <2>5
    <2>7. MirrorStep
      BY <2>2, <2>3, DeliverFacts DEF RepositoryMatches
    <2> QED BY <1>7, <2>6, <2>7 DEF InfoCallback, Link
  <1>8. CASE EndOfList
    <2>1. incoming' \in Seq(Incoming)
      BY <1>8 DEF EndOfList, Dispatched
    <2>2. MirrorStep
      BY <1>8, SilentStep DEF EndOfList, Silent, RepositoryMatches
    <2> QED BY <1>8, <2>1, <2>2 DEF EndOfList, Link
  <1>9. CASE RequestTimesOut
    <2>1. spent' \in [changes : 0..MaxChanges, outages : 0..MaxOutages,
                      timeouts : 0..MaxTimeouts]
      BY <1>9, CollectionAssumption DEF RequestTimesOut
    <2>2. requests' \in Seq(Requests)
      BY <1>9 DEF RequestTimesOut
    <2>3. MirrorStep
      BY <1>9, SilentStep DEF RequestTimesOut, RepositoryMatches
    <2> QED BY <1>9, <2>1, <2>2, <2>3 DEF RequestTimesOut, Link
  <1>10. CASE Idle \/ UNCHANGED vars
    BY <1>10 DEF Idle
  <1> QED
    BY <1>1, <1>2, <1>3, <1>4, <1>5, <1>6, <1>7, <1>8, <1>9, <1>10 DEF Next, Callback

LEMMA MirrorInvNext == MirrorInv /\ [Next]_vars => MirrorInv'
  <1> SUFFICES ASSUME MirrorInv, [Next]_vars PROVE MirrorInv'
    OBVIOUS
  <1>1. CASE Link' /\ MirrorStep
    BY <1>1 DEF Link, MirrorStep, MirrorInv, TypeOK, RepositoryMatches
  <1>2. CASE UNCHANGED vars
    BY <1>2 DEF vars, link, mirror, MirrorInv, TypeOK, RepositoryMatches, IsDeviceMap
  <1> QED BY <1>1, <1>2, MirrorNext

\* Requests, events and answers keep their shape, and the map never holds a
\* volume outside uint16_t or a device that no endpoint stands for.
THEOREM MirrorTypeCorrect == Spec => []TypeOK
  <1>1. MirrorInv => TypeOK
    BY DEF MirrorInv
  <1> QED BY MirrorInit, MirrorInvNext, <1>1, PTL DEF Spec

\* Whoever replays the published messages holds exactly pnpToDeviceMap_,
\* whatever the server does and however endpoints share PnP ids.
THEOREM RepositoryAlwaysMatches == Spec => []RepositoryMatches
  <1>1. MirrorInv => RepositoryMatches
    BY DEF MirrorInv
  <1> QED BY MirrorInit, MirrorInvNext, <1>1, PTL DEF Spec

\* No step takes a device or a flow out of the map.
THEOREM FlowsOnlyGrow == Spec => FlowOnlyGrows
  <1>1. MirrorInv /\ [Next]_vars =>
          [\A p \in DOMAIN devices :
              p \in DOMAIN devices'
              /\ Covers(devices[p].flow) \subseteq Covers(devices'[p].flow)]_vars
    BY MirrorNext DEF MirrorStep, FlowsKept
  <1> QED BY MirrorInit, MirrorInvNext, <1>1, PTL DEF Spec, FlowOnlyGrows

-----------------------------------------------------------------------------
(* What one message writes: all of a device, or one of its volumes.        *)

Parts == {"name", "flow", "renderVolume", "captureVolume"}

VolumePut(message) ==
    IF message.event = "VolumeRenderChanged" THEN "renderVolume" ELSE "captureVolume"

Writes(message, p, x) ==
    /\ message.method \in {"POST", "PUT"} /\ message.pnpId = p
    /\ message.method = "PUT" => x = VolumePut(message)

\* The value of the part x that the message brings.
Carried(message, x) ==
    IF message.method = "POST" THEN message.device[x] ELSE message.volume

LEMMA SameParts ==
    ASSUME NEW NameSet, NEW a \in Devices(NameSet), NEW b \in Devices(NameSet),
           \A x \in Parts : a[x] = b[x]
    PROVE  a = b
  BY DEF Devices, Parts

LEMMA ReplayWrites ==
    ASSUME NEW map, IsDeviceMap(map), NEW message \in Messages
    PROVE  /\ IsDeviceMap(Replay(map, message))
           /\ DOMAIN map \subseteq DOMAIN Replay(map, message)
           /\ \A p \in PnpIds, x \in Parts :
                /\ Writes(message, p, x) /\ (message.method = "POST" \/ p \in DOMAIN map) =>
                     /\ p \in DOMAIN Replay(map, message)
                     /\ Replay(map, message)[p][x] = Carried(message, x)
                /\ ~Writes(message, p, x) /\ p \in DOMAIN map =>
                     Replay(map, message)[p][x] = map[p][x]
  <1>1. CASE message.method = "POST"
    <2>1. message.pnpId \in PnpIds /\ message.device \in Devices(Names)
      BY <1>1 DEF Messages, Nothing
    <2>2. Replay(map, message) = Updated(map, message.pnpId, message.device)
      BY <1>1 DEF Replay
    <2> DEFINE after == Updated(map, message.pnpId, message.device)
    <2>3. /\ IsDeviceMap(after) /\ DOMAIN after = DOMAIN map \cup {message.pnpId}
          /\ after[message.pnpId] = message.device
          /\ \A p \in DOMAIN map : p # message.pnpId => after[p] = map[p]
      BY <2>1, UpdatedFacts
    <2> HIDE DEF after
    <2>4. Replay(map, message) = after
      BY <2>2 DEF after
    <2> QED BY <1>1, <2>1, <2>3, <2>4 DEF Writes, Carried
  <1>2. CASE message.method = "PUT" /\ message.pnpId \in DOMAIN map
    <2>1. /\ message.pnpId \in PnpIds /\ message.volume \in Uint16
          /\ map[message.pnpId] \in Devices(Names)
      BY <1>2 DEF Messages, Nothing, IsDeviceMap
    <2>2. CASE message.event = "VolumeRenderChanged"
      <3>1. Replay(map, message) = [map EXCEPT ![message.pnpId].renderVolume = message.volume]
        BY <1>2, <2>2 DEF Replay
      <3> QED BY <1>2, <2>1, <2>2, <3>1
              DEF IsDeviceMap, Devices, Parts, Writes, Carried, VolumePut
    <2>3. CASE message.event # "VolumeRenderChanged"
      <3>1. Replay(map, message) = [map EXCEPT ![message.pnpId].captureVolume = message.volume]
        BY <1>2, <2>3 DEF Replay
      <3> QED BY <1>2, <2>1, <2>3, <3>1
              DEF IsDeviceMap, Devices, Parts, Writes, Carried, VolumePut
    <2> QED BY <2>2, <2>3
  <1>3. CASE message.method # "POST" /\ ~(message.method = "PUT" /\ message.pnpId \in DOMAIN map)
    <2>1. Replay(map, message) = map
      BY <1>3 DEF Replay
    <2> QED BY <1>3, <2>1 DEF Writes
  <1> QED BY <1>1, <1>2, <1>3

\* A callback publishes what it changes of the map: each part is either as it was
\* or in the message.
LEMMA PublishedWrites ==
    ASSUME MirrorInv, Callback, NEW p \in DOMAIN devices', NEW x \in Parts
    PROVE  \/ Writes(published', p, x) /\ Carried(published', x) = devices'[p][x]
           \/ /\ ~Writes(published', p, x)
              /\ p \in DOMAIN devices /\ devices'[p][x] = devices[p][x]
  <1>0. IsDeviceMap(devices)
    BY DEF MirrorInv, TypeOK
  <1>1. CASE devices' = devices /\ published' = Nothing
    BY <1>1 DEF Writes, Nothing
  <1>2. CASE ServerInfoCallback \/ SubscribeCallback \/ EndOfList
    BY <1>1, <1>2 DEF ServerInfoCallback, SubscribeCallback, EndOfList, Silent
  <1>3. CASE InfoCallback
    <2>1. PICK info \in Head(incoming).infos : Deliver(Head(incoming).event, info)
      BY <1>3 DEF InfoCallback
    <2>2. /\ incoming # <<>> /\ Head(incoming).kind = "infos"
          /\ Head(incoming) \in Incoming
      BY <1>3 DEF InfoCallback, Dispatched, MirrorInv, TypeOK
    <2>3. Head(incoming).event \in InfoEvents /\ info \in Infos
      BY <2>1, <2>2 DEF Incoming
    <2> DEFINE event == Head(incoming).event
               q == PnpIdOf[info.endpoint]
               flow == FlowOf[info.endpoint]
               volume == StoredVolume(info.volume, info.mute)
               device == EndpointDevice(NameOf[info.endpoint], flow, volume)
    <2>4. flow \in EndpointFlows
      BY <2>3, CollectionAssumption DEF Infos
    <2>5. CASE event # "Changed"
      <3>1. AddOrUpdateAndNotify(event, q, device)
        BY <2>1, <2>5 DEF Deliver
      <3>2. event \in {"Confirmed", "Discovered"}
        BY <2>3, <2>5 DEF InfoEvents
      <3> DEFINE stored == IF q \in DOMAIN devices THEN MergeDevice(devices[q], device)
                           ELSE device
      <3>3. devices' = Updated(devices, q, stored)
        BY <3>1 DEF AddOrUpdateAndNotify
      <3>4. published' = [method |-> "POST", event |-> event, pnpId |-> q,
                          device |-> devices'[q]]
        BY <3>1, <3>2 DEF AddOrUpdateAndNotify, NotifyObservers, OnCollectionChanged
      <3> HIDE DEF stored, q, event
      <3>5. CASE p = q
        BY <3>4, <3>5 DEF Writes, Carried
      <3>6. CASE p # q
        BY <3>3, <3>4, <3>6 DEF Writes, Updated
      <3> QED BY <3>5, <3>6
    <2>6. CASE event = "Changed"
      <3>1. CheckIfVolumeChangedAndNotify(q, flow, volume)
        BY <2>1, <2>6 DEF Deliver
      <3> HIDE DEF q, flow, volume, event
      <3>2. CASE ~(q \in DOMAIN devices /\ devices[q].renderVolume # volume)
        BY <1>1, <3>1, <3>2 DEF CheckIfVolumeChangedAndNotify, Silent
      <3>3. CASE q \in DOMAIN devices /\ devices[q].renderVolume # volume /\ flow = "Render"
        <4>1. /\ devices' = [devices EXCEPT ![q].renderVolume = volume]
              /\ published' = [method |-> "PUT", event |-> "VolumeRenderChanged", pnpId |-> q,
                               volume |-> devices'[q].renderVolume]
          BY <3>1, <3>3 DEF CheckIfVolumeChangedAndNotify, NotifyObservers,
                            OnCollectionChanged
        <4> QED BY <1>0, <3>3, <4>1
                DEF IsDeviceMap, Devices, Parts, Writes, Carried, VolumePut
      <3>4. CASE q \in DOMAIN devices /\ devices[q].renderVolume # volume /\ flow = "Capture"
        <4>1. /\ devices' = [devices EXCEPT ![q].captureVolume = volume]
              /\ published' = [method |-> "PUT", event |-> "VolumeCaptureChanged", pnpId |-> q,
                               volume |-> devices'[q].captureVolume]
          BY <3>1, <3>4 DEF CheckIfVolumeChangedAndNotify, NotifyObservers,
                            OnCollectionChanged
        <4> QED BY <1>0, <3>4, <4>1
                DEF IsDeviceMap, Devices, Parts, Writes, Carried, VolumePut
      <3> QED BY <2>4, <3>2, <3>3, <3>4 DEF EndpointFlows
    <2> QED BY <2>5, <2>6
  <1> QED BY <1>2, <1>3 DEF Callback

-----------------------------------------------------------------------------
(* The refinement.                                                         *)

\* A merged device covers the new direction besides its own ones, and keeps the
\* volumes of those.
LEMMA MergeDeviceReports ==
    ASSUME NEW NameSet, NEW found \in Devices(NameSet), NEW name \in NameSet,
           NEW flow \in EndpointFlows, NEW volume \in Uint16
    PROVE  LET merged == MergeDevice(found, EndpointDevice(name, flow, volume))
           IN  /\ Covers(merged.flow) = Covers(found.flow) \cup {flow}
               /\ \A d \in Covers(found.flow) \ {flow} :
                     VolumeOf(merged, d) = VolumeOf(found, d)
  BY DEF MergeDevice, EndpointDevice, Devices, Flows, EndpointFlows, Covers, VolumeOf

\* Changing one device of the repository in one direction is one report.
LEMMA OneReport ==
    ASSUME NEW p \in PnpIds, NEW d \in EndpointFlows,
           IsDeviceMap(repository), IsDeviceMap(repository'),
           DOMAIN repository' = DOMAIN repository \cup {p},
           \A other \in DOMAIN repository \ {p} : repository'[other] = repository[other],
           p \in DOMAIN repository =>
               /\ Covers(repository'[p].flow) = Covers(repository[p].flow) \cup {d}
               /\ \A other \in Covers(repository[p].flow) \ {d} :
                     VolumeOf(repository'[p], other) = VolumeOf(repository[p], other),
           p \notin DOMAIN repository => Covers(repository'[p].flow) = {d}
    PROVE  Repository!Report(p, d)
  <1>1. DOMAIN knownVolumes' = DOMAIN knownVolumes \cup {p}
    BY DEF knownVolumes
  <1>2. \A other \in DOMAIN knownVolumes \ {p} : knownVolumes'[other] = knownVolumes[other]
    BY DEF knownVolumes
  <1>3. DOMAIN knownVolumes'[p] = Repository!DirectionsOf(p) \cup {d}
    BY DEF knownVolumes, Repository!DirectionsOf
  <1>4. knownVolumes'[p][d] \in Uint16
    <2>1. repository'[p] \in Devices(Names) /\ d \in Covers(repository'[p].flow)
      BY DEF IsDeviceMap
    <2>2. knownVolumes'[p][d] = VolumeOf(repository'[p], d)
      BY <2>1 DEF knownVolumes
    <2> QED BY <2>1, <2>2 DEF VolumeOf, Devices
  <1>5. \A other \in Repository!DirectionsOf(p) \ {d} :
            knownVolumes'[p][other] = knownVolumes[p][other]
    BY DEF knownVolumes, Repository!DirectionsOf
  <1> QED BY <1>1, <1>2, <1>3, <1>4, <1>5 DEF Repository!Report

Reported == Repository!Next \/ knownVolumes' = knownVolumes

LEMMA AddOrUpdateReports ==
    ASSUME IsDeviceMap(devices), repository = devices,
           IsDeviceMap(devices'), repository' = devices',
           NEW event, NEW pnpId \in PnpIds, NEW name \in Names,
           NEW flow \in EndpointFlows, NEW volume \in Uint16,
           AddOrUpdateAndNotify(event, pnpId, EndpointDevice(name, flow, volume))
    PROVE  Reported
  <1> DEFINE device == EndpointDevice(name, flow, volume)
             merged == IF pnpId \in DOMAIN devices
                       THEN MergeDevice(devices[pnpId], device) ELSE device
  <1>1. devices' = Updated(devices, pnpId, merged)
    BY DEF AddOrUpdateAndNotify
  <1>2. pnpId \in DOMAIN devices =>
            /\ Covers(merged.flow) = Covers(devices[pnpId].flow) \cup {flow}
            /\ \A d \in Covers(devices[pnpId].flow) \ {flow} :
                  VolumeOf(merged, d) = VolumeOf(devices[pnpId], d)
    BY MergeDeviceReports DEF IsDeviceMap
  <1>3. pnpId \notin DOMAIN devices => Covers(merged.flow) = {flow}
    BY DEF EndpointDevice, Covers, EndpointFlows
  <1> HIDE DEF device, merged
  <1>4. /\ DOMAIN repository' = DOMAIN repository \cup {pnpId}
        /\ repository'[pnpId] = merged
        /\ \A other \in DOMAIN repository \ {pnpId} : repository'[other] = repository[other]
    BY <1>1 DEF Updated
  <1>5. Repository!Report(pnpId, flow)
    BY <1>2, <1>3, <1>4, OneReport
  <1> QED BY <1>5 DEF Reported, Repository!Next

LEMMA VolumeChangeReports ==
    ASSUME IsDeviceMap(devices), repository = devices,
           IsDeviceMap(devices'), repository' = devices',
           NEW pnpId \in PnpIds, NEW flow \in EndpointFlows, NEW volume \in Uint16,
           CheckIfVolumeChangedAndNotify(pnpId, flow, volume)
    PROVE  Reported
  <1>1. CASE devices' = devices
    BY <1>1 DEF Reported, knownVolumes
  <1>2. CASE devices' # devices
    <2> DEFINE new == IF flow = "Render"
                      THEN [devices[pnpId] EXCEPT !.renderVolume = volume]
                      ELSE [devices[pnpId] EXCEPT !.captureVolume = volume]
    <2>1. pnpId \in DOMAIN devices /\ devices' = [devices EXCEPT ![pnpId] = new]
      BY <1>2 DEF CheckIfVolumeChangedAndNotify, Silent
    <2>2. /\ new.flow = devices[pnpId].flow
          /\ \A d \in EndpointFlows \ {flow} : VolumeOf(new, d) = VolumeOf(devices[pnpId], d)
      BY <2>1 DEF IsDeviceMap, Devices, VolumeOf, EndpointFlows
    <2>3. Covers(devices[pnpId].flow) \subseteq EndpointFlows
      BY <2>1 DEF IsDeviceMap, Devices, Flows, Covers
    <2> HIDE DEF new
    <2>4. /\ DOMAIN repository' = DOMAIN repository
          /\ repository'[pnpId] = new
          /\ \A other \in DOMAIN repository \ {pnpId} : repository'[other] = repository[other]
      BY <2>1 DEF IsDeviceMap
    <2>5. CASE flow \in Covers(devices[pnpId].flow)
      <3>1. pnpId \in DOMAIN repository
            /\ Covers(repository'[pnpId].flow) = Covers(repository[pnpId].flow) \cup {flow}
        BY <2>1, <2>2, <2>4, <2>5
      <3>2. \A d \in Covers(repository[pnpId].flow) \ {flow} :
               VolumeOf(repository'[pnpId], d) = VolumeOf(repository[pnpId], d)
        BY <2>2, <2>3, <2>4
      <3>3. DOMAIN repository' = DOMAIN repository \cup {pnpId}
        BY <2>4, <3>1
      <3>4. IsDeviceMap(repository) /\ IsDeviceMap(repository')
        OBVIOUS
      <3>5. Repository!Report(pnpId, flow)
        BY <2>4, <3>1, <3>2, <3>3, <3>4, OneReport
      <3> QED BY <3>5 DEF Reported, Repository!Next
    <2>6. CASE flow \notin Covers(devices[pnpId].flow)
      <3>1. ASSUME NEW p \in DOMAIN repository
            PROVE  [d \in Covers(repository'[p].flow) |-> VolumeOf(repository'[p], d)]
                     = [d \in Covers(repository[p].flow) |-> VolumeOf(repository[p], d)]
        <4>1. Covers(repository'[p].flow) = Covers(repository[p].flow)
          BY <2>2, <2>4
        <4>2. \A d \in Covers(repository[p].flow) :
                 VolumeOf(repository'[p], d) = VolumeOf(repository[p], d)
          BY <2>2, <2>3, <2>4, <2>6
        <4> QED BY <4>1, <4>2
      <3>2. knownVolumes' = knownVolumes
        BY <2>4, <3>1 DEF knownVolumes
      <3> QED BY <3>2 DEF Reported
    <2> QED BY <2>5, <2>6
  <1> QED BY <1>1, <1>2

LEMMA DeliverReports ==
    ASSUME IsDeviceMap(devices), repository = devices,
           NEW event \in InfoEvents, NEW info \in Infos, Deliver(event, info)
    PROVE  Reported
  <1> DEFINE e == info.endpoint
             volume == StoredVolume(info.volume, info.mute)
  <1>1. e \in Endpoints /\ volume \in Uint16
    BY StoredVolumeType DEF Infos
  <1>2. PnpIdOf[e] \in PnpIds /\ FlowOf[e] \in EndpointFlows /\ NameOf[e] \in Names
    BY <1>1, CollectionAssumption DEF PnpIds, Names
  <1>3. IsDeviceMap(devices') /\ repository' = devices'
    BY DeliverFacts DEF MirrorStep
  <1> HIDE DEF e, volume
  <1>4. CASE event = "Changed"
    <2>1. CheckIfVolumeChangedAndNotify(PnpIdOf[e], FlowOf[e], volume)
      BY <1>4 DEF Deliver, e, volume
    <2> QED BY <1>1, <1>2, <1>3, <2>1, VolumeChangeReports
  <1>5. CASE event # "Changed"
    <2>1. AddOrUpdateAndNotify(event, PnpIdOf[e], EndpointDevice(NameOf[e], FlowOf[e], volume))
      BY <1>5 DEF Deliver, e, volume
    <2> QED BY <1>1, <1>2, <1>3, <2>1, AddOrUpdateReports
  <1> QED BY <1>4, <1>5

LEMMA EveryStepReports ==
    ASSUME MirrorInv, [Next]_vars
    PROVE  Reported
  <1>1. CASE InfoCallback
    <2> DEFINE head == Head(incoming)
    <2>1. head \in Incoming /\ head.kind = "infos"
      BY <1>1 DEF InfoCallback, Dispatched, MirrorInv, TypeOK
    <2>2. head.event \in InfoEvents /\ head.infos \in SUBSET Infos
      BY <2>1 DEF Incoming
    <2>3. PICK info \in head.infos : Deliver(head.event, info)
      BY <1>1 DEF InfoCallback
    <2> HIDE DEF head
    <2> QED BY <2>2, <2>3, DeliverReports DEF MirrorInv, TypeOK, RepositoryMatches
  <1>2. CASE repository' = repository
    BY <1>2 DEF Reported, knownVolumes
  <1>3. repository' = repository \/ InfoCallback
    BY DEF Next, ServerStep, Plug, Unplug, Adjust, ServerChanges, Answer, ContextReady,
           ContextLost, Callback, ServerInfoCallback, SubscribeCallback, EndOfList,
           Silent, RequestTimesOut, Idle, vars, mirror
  <1> QED BY <1>1, <1>2, <1>3

\* The device half implements the catalogue of DeviceRepository: however sinks,
\* sources and monitors share devices, a message reports one direction of one
\* device and leaves the rest of what the repository knows.
THEOREM ImplementsRepository == Spec => ReportsOneDirection
  <1>1. Init => Repository!Init
    BY DEF Init, Repository!Init, knownVolumes
  <1>2. MirrorInv /\ [Next]_vars => [Repository!Next]_knownVolumes
    BY EveryStepReports DEF Reported
  <1> QED BY MirrorInit, MirrorInvNext, <1>1, <1>2, PTL
          DEF Spec, Repository!Spec, ReportsOneDirection
=============================================================================
