----------------------- MODULE InventoryComplete_proofs -----------------------
(***************************************************************************)
(* The mirror is complete when all is quiet, for any set of endpoints and  *)
(* any number of changes and outages.  What makes it so is that whatever   *)
(* an endpoint still lacks is on its way: a request that asks for it, or   *)
(* an item of the server's stream that carries it or will cause a request. *)
(* And all gets quiet: what is on its way leads to finitely many answers  *)
(* and callbacks only, and each of them leaves fewer.                      *)
(***************************************************************************)
EXTENDS PulseDeviceCollection_proofs, DataLemmas, FiniteSetTheorems

Known(e) ==
    /\ PnpIdOf[e] \in DOMAIN devices
    /\ FlowOf[e] \in Covers(devices[PnpIdOf[e]].flow)
    /\ Unshared(e) => NameOf[e] \in devices[PnpIdOf[e]].name

\* A request whose answer makes e known, if st is what the server has of it.
Discovers(e, st, request) ==
    \/ request.kind = "server_info"
    \/ request.kind = "list" /\ request.flow = FlowOf[e]
    \/ /\ request.kind = "by_index" /\ request.event = "Discovered"
       /\ request.endpoint = e /\ request.index = st.index

\* An item of the stream that makes e known, or leads to a request that does.
Announces(e, st, item) ==
    \/ item.kind = "server_info"
    \/ /\ item.kind = "infos" /\ item.event # "Changed"
       /\ \E info \in item.infos : info.endpoint = e
    \/ /\ item.kind = "notice" /\ item.change = "NEW"
       /\ item.endpoint = e /\ item.index = st.index

Coming(e) ==
    \/ \E request \in Items(requests) : Discovers(e, server[e], request)
    \/ \E item \in Items(incoming) : Announces(e, server[e], item)

\* What makes e known, or known again, has not been dispatched.
Awaited(e) == server[e].present => Coming(e)

\* The last step posted the device of e.
Posted(e) ==
    /\ published.method = "POST" /\ published.pnpId = PnpIdOf[e]
    /\ PnpIdOf[e] \in DOMAIN devices

\* Until the subscription takes effect nothing but the two requests of READY and
\* what follows from them is on its way.
StartShape ==
    /\ ~connected => ~subscribed /\ requests = <<>> /\ incoming = <<>>
    /\ connected /\ ~subscribed /\ spent.timeouts = 0 =>
         \/ requests = ReadyRequests /\ incoming = <<>>
         \/ requests = <<[kind |-> "subscribe"]>> /\ incoming = <<[kind |-> "server_info"]>>
         \/ /\ requests = <<[kind |-> "subscribe"], [kind |-> "list", flow |-> "Render"],
                            [kind |-> "list", flow |-> "Capture"]>>
            /\ incoming = <<>>

-----------------------------------------------------------------------------
(* The volumes of the sinks.                                               *)

\* A request whose answer carries the volume of e.
Queries(e, st, request) ==
    \/ request.kind = "server_info"
    \/ request.kind = "list" /\ request.flow = FlowOf[e]
    \/ /\ request.kind = "by_index"
       /\ request.endpoint = e /\ request.index = st.index

InfoAt(e, st) == [endpoint |-> e, volume |-> st.volume, mute |-> st.mute]

\* An answer with a state of e that is no longer the server's.
Stale(e, st, item) ==
    item.kind = "infos" /\ \E info \in item.infos : info.endpoint = e /\ info # InfoAt(e, st)

\* An item that brings the present state of e, or leads to a request that does.
Fresh(e, st, item) ==
    \/ item.kind = "server_info"
    \/ item.kind = "infos" /\ InfoAt(e, st) \in item.infos /\ ~Stale(e, st, item)
    \/ /\ item.kind = "notice" /\ item.change # "REMOVE"
       /\ item.endpoint = e /\ item.index = st.index

StaleItems(e, st) == {item \in Incoming : Stale(e, st, item)}
FreshItems(e, st) == {item \in Incoming : Fresh(e, st, item)}

\* A stale answer is not the last word.
Corrected(e, st, s) == Superseded(StaleItems(e, st), FreshItems(e, st), s)

Right(e) == Known(e) /\ devices[PnpIdOf[e]].renderVolume = Current(e)

OnItsWay(e) ==
    \/ \E request \in Items(requests) : Queries(e, server[e], request)
    \/ /\ Corrected(e, server[e], incoming)
       /\ Right(e) \/ \E item \in Items(incoming) : Fresh(e, server[e], item)

Sink(e) == e \in Endpoints /\ FlowOf[e] = "Render" /\ Unshared(e)

\* What an endpoint lacks is on its way.
Followed(e) ==
    server[e].present => (Known(e) \/ Coming(e)) /\ (Sink(e) => OnItsWay(e))

InventoryInv ==
    /\ MirrorInv /\ StartShape
    /\ connected /\ spent.timeouts = 0 => \A e \in Endpoints : Followed(e)

-----------------------------------------------------------------------------
(* The stream, seen from one endpoint.                                     *)

\* A stream whose head has been dispatched, or replaced by what is left of it.
LEMMA CorrectedTail ==
    ASSUME NEW e, NEW st, NEW s \in Seq(Incoming), s # <<>>, Corrected(e, st, s)
    PROVE  Corrected(e, st, Tail(s))
  BY SupersededTail DEF Corrected

\* A stale item has a fresh one behind it.
LEMMA CorrectedHead ==
    ASSUME NEW e, NEW st, NEW s \in Seq(Incoming), s # <<>>, Corrected(e, st, s),
           Stale(e, st, Head(s))
    PROVE  \E item \in Items(Tail(s)) : Fresh(e, st, item)
  BY SupersededHead, ItemsHeadTail DEF Corrected, StaleItems, FreshItems

LEMMA CorrectedReplaced ==
    ASSUME NEW e, NEW st, NEW s \in Seq(Incoming), s # <<>>, Corrected(e, st, s),
           NEW x \in Incoming, Stale(e, st, x) => Stale(e, st, Head(s))
    PROVE  Corrected(e, st, <<x>> \o Tail(s))
  BY SupersededReplaced, ItemsHeadTail DEF Corrected, StaleItems

\* A stream that has grown by an item that is not stale, or by a fresh one.
LEMMA CorrectedAppend ==
    ASSUME NEW e, NEW st, NEW s \in Seq(Incoming), NEW x \in Incoming, ~Stale(e, st, x),
           Corrected(e, st, s) \/ Fresh(e, st, x)
    PROVE  Corrected(e, st, Append(s, x))
  BY SupersededAppend DEF Corrected, StaleItems, FreshItems

-----------------------------------------------------------------------------
(* What a delivered answer does to a device.                               *)

EndpointFacts(e) ==
    /\ PnpIdOf[e] \in PnpIds /\ FlowOf[e] \in EndpointFlows /\ NameOf[e] \in Names

LEMMA EndpointsHaveFacts == ASSUME NEW e \in Endpoints PROVE EndpointFacts(e)
  BY CollectionAssumption DEF EndpointFacts, PnpIds, Names

\* The merge, seen from an endpoint whose device takes in another one.
LEMMA MergeKeeps ==
    ASSUME NEW found \in Devices(Names), NEW flow \in EndpointFlows,
           flow \in Covers(found.flow),
           NEW name \in Names, NEW other \in EndpointFlows, NEW volume \in Uint16
    PROVE  LET merged == MergeDevice(found, EndpointDevice(name, other, volume))
           IN  /\ flow \in Covers(merged.flow)
               /\ other # flow => /\ found.name \subseteq merged.name
                                  /\ flow = "Render" =>
                                       merged.renderVolume = found.renderVolume
  BY DEF MergeDevice, EndpointDevice, Devices, Flows, EndpointFlows, Covers

\* And from the endpoint that is taken in.
LEMMA MergeTakes ==
    ASSUME NEW found \in Devices(Names), NEW name \in Names,
           NEW flow \in EndpointFlows, NEW volume \in Uint16
    PROVE  LET merged == MergeDevice(found, EndpointDevice(name, flow, volume))
           IN  /\ flow \in Covers(merged.flow) /\ name \in merged.name
               /\ flow = "Render" => merged.renderVolume = volume
  BY DEF MergeDevice, EndpointDevice, Devices, Flows, EndpointFlows, Covers

\* A confirmed or discovered endpoint is known, with its volume.
LEMMA Takes ==
    ASSUME IsDeviceMap(devices), NEW e \in Endpoints, NEW volume \in Uint16, NEW event,
           AddOrUpdateAndNotify(event, PnpIdOf[e],
                                EndpointDevice(NameOf[e], FlowOf[e], volume))
    PROVE  /\ Known(e)'
           /\ FlowOf[e] = "Render" => devices'[PnpIdOf[e]].renderVolume = volume
  <1> DEFINE p == PnpIdOf[e]
             device == EndpointDevice(NameOf[e], FlowOf[e], volume)
             merged == IF p \in DOMAIN devices THEN MergeDevice(devices[p], device) ELSE device
  <1>1. EndpointFacts(e)
    BY EndpointsHaveFacts
  <1>2. /\ FlowOf[e] \in Covers(merged.flow) /\ NameOf[e] \in merged.name
        /\ FlowOf[e] = "Render" => merged.renderVolume = volume
    <2>1. CASE p \in DOMAIN devices
      BY <1>1, <2>1, MergeTakes DEF IsDeviceMap, EndpointFacts
    <2>2. CASE p \notin DOMAIN devices
      BY <1>1, <2>2 DEF EndpointDevice, Covers, EndpointFlows, EndpointFacts
    <2> QED BY <2>1, <2>2
  <1>3. devices' = Updated(devices, p, merged)
    BY DEF AddOrUpdateAndNotify
  <1> HIDE DEF merged, device
  <1>4. p \in DOMAIN devices' /\ devices'[p] = merged
    BY <1>3 DEF Updated
  <1> QED BY <1>2, <1>4 DEF Known

\* What is known stays known when another endpoint is confirmed or discovered,
\* and a sink that does not share its PnP id with a sink keeps its volume.
LEMMA OtherKept ==
    ASSUME IsDeviceMap(devices), NEW e \in Endpoints, Known(e),
           NEW other \in Endpoints \ {e}, NEW volume \in Uint16, NEW event,
           AddOrUpdateAndNotify(event, PnpIdOf[other],
                                EndpointDevice(NameOf[other], FlowOf[other], volume))
    PROVE  /\ Known(e)'
           /\ Sink(e) => devices'[PnpIdOf[e]].renderVolume = devices[PnpIdOf[e]].renderVolume
  <1> DEFINE p == PnpIdOf[e]
             q == PnpIdOf[other]
             device == EndpointDevice(NameOf[other], FlowOf[other], volume)
             merged == IF q \in DOMAIN devices THEN MergeDevice(devices[q], device) ELSE device
  <1>1. EndpointFacts(e) /\ EndpointFacts(other)
    BY EndpointsHaveFacts
  <1>2. devices' = Updated(devices, q, merged)
    BY DEF AddOrUpdateAndNotify
  <1>3. CASE p # q
    <2> HIDE DEF merged
    <2>1. p \in DOMAIN devices' /\ devices'[p] = devices[p]
      BY <1>2, <1>3 DEF Updated, Known
    <2> QED BY <2>1 DEF Known
  <1>4. CASE p = q
    <2>1. /\ p \in DOMAIN devices /\ merged = MergeDevice(devices[p], device)
          /\ FlowOf[e] \in Covers(devices[p].flow) /\ devices[p] \in Devices(Names)
      BY <1>4 DEF Known, IsDeviceMap
    <2>2. /\ FlowOf[e] \in Covers(merged.flow)
          /\ FlowOf[other] # FlowOf[e] =>
               /\ devices[p].name \subseteq merged.name
               /\ FlowOf[e] = "Render" => merged.renderVolume = devices[p].renderVolume
      <3>1. /\ FlowOf[e] \in EndpointFlows /\ FlowOf[other] \in EndpointFlows
            /\ NameOf[other] \in Names
        BY <1>1 DEF EndpointFacts
      <3> HIDE DEF p, merged
      <3> QED BY <2>1, <3>1, MergeKeeps
    <2>3. Unshared(e) => FlowOf[other] # FlowOf[e]
      BY <1>4 DEF Unshared
    <2> HIDE DEF merged
    <2>4. p \in DOMAIN devices' /\ devices'[p] = merged
      BY <1>2, <1>4 DEF Updated
    <2> QED BY <2>2, <2>3, <2>4 DEF Known, Sink
  <1> QED BY <1>3, <1>4

\* A change of a volume: whoever is known stays known; the sink it is about gets
\* the new one and the others keep theirs.
LEMMA ChangeKept ==
    ASSUME IsDeviceMap(devices), NEW e \in Endpoints, Known(e),
           NEW other \in Endpoints, NEW volume \in Uint16,
           CheckIfVolumeChangedAndNotify(PnpIdOf[other], FlowOf[other], volume)
    PROVE  /\ Known(e)'
           /\ Sink(e) =>
                devices'[PnpIdOf[e]].renderVolume =
                    IF other = e THEN volume ELSE devices[PnpIdOf[e]].renderVolume
  <1> DEFINE p == PnpIdOf[e]
             q == PnpIdOf[other]
  <1>0. FlowOf[other] \in EndpointFlows
    BY EndpointsHaveFacts DEF EndpointFacts
  <1>1. CASE ~(q \in DOMAIN devices /\ devices[q].renderVolume # volume)
    <2>1. devices' = devices
      BY <1>1 DEF CheckIfVolumeChangedAndNotify, Silent
    <2> QED BY <1>1, <2>1 DEF Known
  <1>2. CASE q \in DOMAIN devices /\ devices[q].renderVolume # volume
             /\ FlowOf[other] = "Render"
    <2>1. devices' = [devices EXCEPT ![q].renderVolume = volume]
      BY <1>2 DEF CheckIfVolumeChangedAndNotify
    <2>2. /\ p \in DOMAIN devices'
          /\ devices'[p].flow = devices[p].flow /\ devices'[p].name = devices[p].name
          /\ devices'[p].renderVolume = IF p = q THEN volume ELSE devices[p].renderVolume
      BY <2>1 DEF Known, IsDeviceMap, Devices
    <2>3. Sink(e) /\ p = q => other = e
      BY <1>2 DEF Sink, Unshared
    <2> QED BY <2>2, <2>3 DEF Known
  <1>3. CASE q \in DOMAIN devices /\ devices[q].renderVolume # volume
             /\ FlowOf[other] = "Capture"
    <2>1. devices' = [devices EXCEPT ![q].captureVolume = volume]
      BY <1>3 DEF CheckIfVolumeChangedAndNotify
    <2>2. /\ p \in DOMAIN devices'
          /\ devices'[p].flow = devices[p].flow /\ devices'[p].name = devices[p].name
          /\ devices'[p].renderVolume = devices[p].renderVolume
      BY <2>1 DEF Known, IsDeviceMap, Devices
    <2>3. Sink(e) => other # e
      BY <1>3 DEF Sink
    <2> QED BY <2>2, <2>3 DEF Known
  <1> QED BY <1>0, <1>1, <1>2, <1>3 DEF EndpointFlows

\* Of all deliveries, seen from one endpoint.
LEMMA DeliverKeeps ==
    ASSUME IsDeviceMap(devices), NEW e \in Endpoints,
           NEW event, NEW info \in Infos, Deliver(event, info)
    PROVE  /\ Known(e) \/ (info.endpoint = e /\ event # "Changed") => Known(e)'
           /\ Sink(e) /\ info.endpoint = e /\ (Known(e) \/ event # "Changed") =>
                devices'[PnpIdOf[e]].renderVolume = StoredVolume(info.volume, info.mute)
           /\ Sink(e) /\ Known(e) /\ info.endpoint # e =>
                devices'[PnpIdOf[e]].renderVolume = devices[PnpIdOf[e]].renderVolume
  <1> DEFINE other == info.endpoint
             volume == StoredVolume(info.volume, info.mute)
  <1>1. other \in Endpoints /\ volume \in Uint16
    BY StoredVolumeType DEF Infos
  <1> HIDE DEF other, volume
  <1>2. CASE event = "Changed"
    <2>1. CheckIfVolumeChangedAndNotify(PnpIdOf[other], FlowOf[other], volume)
      BY <1>2 DEF Deliver, other, volume
    <2>2. Known(e) =>
            /\ Known(e)'
            /\ Sink(e) => devices'[PnpIdOf[e]].renderVolume =
                            IF other = e THEN volume ELSE devices[PnpIdOf[e]].renderVolume
      BY <1>1, <2>1, ChangeKept
    <2> QED BY <1>2, <2>2 DEF other, volume
  <1>3. CASE event # "Changed"
    <2>1. AddOrUpdateAndNotify(event, PnpIdOf[other],
                               EndpointDevice(NameOf[other], FlowOf[other], volume))
      BY <1>3 DEF Deliver, other, volume
    <2>2. CASE other = e
      <3>1. /\ Known(e)'
            /\ FlowOf[e] = "Render" => devices'[PnpIdOf[e]].renderVolume = volume
        BY <1>1, <2>1, <2>2, Takes
      <3> QED BY <2>2, <3>1 DEF Sink, other, volume
    <2>3. CASE other # e
      <3>1. Known(e) =>
              /\ Known(e)'
              /\ Sink(e) => devices'[PnpIdOf[e]].renderVolume
                              = devices[PnpIdOf[e]].renderVolume
        BY <1>1, <2>1, <2>3, OtherKept
      <3> QED BY <2>3, <3>1 DEF other, volume
    <2> QED BY <2>2, <2>3
  <1> QED BY <1>2, <1>3

-----------------------------------------------------------------------------
(* The start of a connection.                                              *)

LEMMA StartShapeNext ==
    ASSUME MirrorInv, StartShape, [Next]_vars
    PROVE  StartShape'
  <1> USE DEF StartShape
  <1>0. spent.timeouts \in Nat /\ connected \in BOOLEAN /\ subscribed \in BOOLEAN
    BY CollectionAssumption DEF MirrorInv, TypeOK
  <1>1. ASSUME NEW e, NEW change, NEW endpoint, ServerChanges(e, change, endpoint)
        PROVE  StartShape'
    <2>1. spent'.timeouts = spent.timeouts
      BY <1>1 DEF ServerChanges, MirrorInv, TypeOK
    <2> QED BY <1>1, <2>1 DEF ServerChanges, Post
  <1>2. CASE ServerStep
    BY <1>1, <1>2 DEF ServerStep, Plug, Unplug, Adjust
  <1>3. CASE Answer
    <2>1. CASE spent.timeouts # 0 \/ subscribed
      BY <1>3, <2>1 DEF Answer
    <2>2. CASE spent.timeouts = 0 /\ ~subscribed
      <3>1. CASE requests = ReadyRequests /\ incoming = <<>>
        <4>1. /\ Head(requests) = [kind |-> "server_info"]
              /\ Tail(requests) = <<[kind |-> "subscribe"]>>
          BY <3>1 DEF ReadyRequests
        <4>2. Reply(Head(requests)) = <<[kind |-> "server_info"]>>
          BY <4>1 DEF Reply
        <4> QED BY <1>3, <2>2, <3>1, <4>1, <4>2 DEF Answer
      <3>2. CASE Head(requests) = [kind |-> "subscribe"]
        <4>1. subscribed'
          BY <1>0, <1>3, <3>2 DEF Answer
        <4>2. connected /\ connected' = connected
          BY <1>0, <1>3 DEF Answer
        <4> QED BY <4>1, <4>2
      <3> QED BY <1>3, <2>2, <3>1, <3>2 DEF Answer
    <2> QED BY <2>1, <2>2
  <1>4. CASE ContextReady
    BY <1>4 DEF ContextReady
  <1>5. CASE ContextLost
    BY <1>5 DEF ContextLost
  <1>6. CASE ServerInfoCallback
    <2>1. CASE requests = <<[kind |-> "subscribe"]>> /\ incoming = <<[kind |-> "server_info"]>>
      <3>1. /\ requests' = <<[kind |-> "subscribe"], [kind |-> "list", flow |-> "Render"],
                            [kind |-> "list", flow |-> "Capture"]>>
            /\ incoming' = <<>>
        <4> DEFINE a == [kind |-> "subscribe"]
                   b == [kind |-> "list", flow |-> "Render"]
                   c == [kind |-> "list", flow |-> "Capture"]
                   d == [kind |-> "server_info"]
        <4>1. requests' = <<a>> \o <<b, c>> /\ incoming' = Tail(<<d>>)
          BY <1>6, <2>1 DEF ServerInfoCallback, Ask
        <4> HIDE DEF a, b, c, d
        <4>2. <<a>> \o <<b, c>> = <<a, b, c>>
          <5> DEFINE S == {a, b, c}
                     s == <<a>> \o <<b, c>>
                     t == <<a, b, c>>
          <5>1. <<a>> \in Seq(S) /\ <<b, c>> \in Seq(S)
            OBVIOUS
          <5>2. s \in Seq(S) /\ t \in Seq(S) /\ Len(s) = 3 /\ Len(t) = 3
            BY <5>1
          <5>3. \A i \in 1..3 : s[i] = t[i]
            BY <5>1
          <5> HIDE DEF s, t, S
          <5>4. s = t
            BY <5>2, <5>3, SeqEqual
          <5> QED BY <5>4 DEF s, t
        <4>3. Tail(<<d>>) = <<>>
          OBVIOUS
        <4> QED BY <4>1, <4>2, <4>3 DEF a, b, c
      <3>2. connected /\ connected' = connected
        BY <1>0, <1>6 DEF ServerInfoCallback, Dispatched
      <3>3. connected'
        BY <3>2
      <3> QED BY <3>1, <3>3, Zenon
    <2>2. CASE ~connected \/ subscribed \/ spent.timeouts # 0
      BY <1>6, <2>2 DEF ServerInfoCallback, Dispatched
    <2> QED BY <1>6, <2>1, <2>2 DEF ServerInfoCallback, Dispatched
  <1>7. CASE SubscribeCallback \/ InfoCallback \/ EndOfList
    <2>1. incoming # <<>> /\ Head(incoming).kind # "server_info"
      BY <1>7 DEF SubscribeCallback, InfoCallback, EndOfList, Dispatched
    <2>2. connected /\ (subscribed \/ spent.timeouts # 0)
      BY <2>1
    <2>3. UNCHANGED <<connected, subscribed, spent>>
      BY <1>7 DEF SubscribeCallback, InfoCallback, EndOfList
    <2> QED BY <2>2, <2>3
  <1>8. CASE RequestTimesOut
    <2>1. spent'.timeouts = spent.timeouts + 1
      BY <1>8 DEF RequestTimesOut, MirrorInv, TypeOK
    <2> QED BY <1>0, <1>8, <2>1 DEF RequestTimesOut
  <1>9. CASE Idle \/ UNCHANGED vars
    BY <1>9 DEF Idle, vars, link
  <1> QED BY <1>2, <1>3, <1>4, <1>5, <1>6, <1>7, <1>8, <1>9 DEF Next, Callback

\* Before the subscription the two requests of READY, or the lists, are on their way.
LEMMA UnsubscribedFollowed ==
    ASSUME StartShape', connected', ~subscribed', spent'.timeouts = 0, NEW e \in Endpoints
    PROVE  Followed(e)' /\ Awaited(e)'
  <1>1. ASSUME NEW request \in Items(requests)',
               Discovers(e, server'[e], request), Queries(e, server'[e], request)
        PROVE  Followed(e)' /\ Awaited(e)'
    BY <1>1 DEF Followed, Awaited, Coming, OnItsWay
  <1>2. CASE requests' = ReadyRequests
    <2> DEFINE asked == [kind |-> "server_info"]
    <2>1. asked \in Items(requests)'
      BY <1>2 DEF Items, ReadyRequests
    <2>2. Discovers(e, server'[e], asked) /\ Queries(e, server'[e], asked)
      BY DEF Discovers, Queries
    <2> HIDE DEF asked
    <2> QED BY <1>1, <2>1, <2>2
  <1>3. CASE incoming' = <<[kind |-> "server_info"]>>
    <2> DEFINE item == [kind |-> "server_info"]
    <2>1. item.kind = "server_info"
      OBVIOUS
    <2>2. incoming' = <<item>>
      BY <1>3
    <2> HIDE DEF item
    <2>3. /\ item \in Items(incoming)'
          /\ \A i \in 1..Len(incoming') : incoming'[i] = item
      BY <2>2 DEF Items
    <2>4. /\ Announces(e, server'[e], item) /\ Fresh(e, server'[e], item)
          /\ ~Stale(e, server'[e], item)
      BY <2>1 DEF Announces, Fresh, Stale
    <2>5. Corrected(e, server'[e], incoming')
      BY <2>3, <2>4 DEF Corrected, Superseded, StaleItems
    <2> QED BY <2>3, <2>4, <2>5 DEF Followed, Awaited, Coming, OnItsWay
  <1>4. CASE requests' = <<[kind |-> "subscribe"], [kind |-> "list", flow |-> "Render"],
                           [kind |-> "list", flow |-> "Capture"]>>
    <2> DEFINE asked == [kind |-> "list", flow |-> FlowOf[e]]
    <2>1. FlowOf[e] \in {"Render", "Capture"}
      BY EndpointsHaveFacts DEF EndpointFacts, EndpointFlows
    <2>2. asked \in Items(requests)'
      BY <1>4, <2>1 DEF Items
    <2>3. Discovers(e, server'[e], asked) /\ Queries(e, server'[e], asked)
      BY DEF Discovers, Queries
    <2> HIDE DEF asked
    <2> QED BY <1>1, <2>2, <2>3
  <1> QED BY <1>2, <1>3, <1>4 DEF StartShape

-----------------------------------------------------------------------------
(* The steps of the server.                                                *)

\* A change of the server's endpoints is told to a subscribed context.
LEMMA ServerChangesFollowed ==
    ASSUME MirrorInv, subscribed, NEW e \in Endpoints, Followed(e),
           NEW c \in Endpoints, NEW change \in {"NEW", "CHANGE", "REMOVE"},
           NEW endpoint \in ServerEndpoint, ServerChanges(c, change, endpoint),
           change = "REMOVE" => ~endpoint.present,
           change = "CHANGE" => server[c].present /\ endpoint.index = server[c].index
    PROVE  Followed(e)' /\ (Awaited(e) => Awaited(e)')
  <1> DEFINE notice == [kind |-> "notice", endpoint |-> c, index |-> endpoint.index,
                        change |-> change]
  <1>1. /\ notice \in Incoming /\ notice.kind = "notice" /\ notice.endpoint = c
        /\ notice.index = endpoint.index /\ notice.change = change
    BY DEF Incoming, ServerEndpoint
  <1>2. /\ incoming' = Append(incoming, notice) /\ requests' = requests
        /\ devices' = devices /\ server' = [server EXCEPT ![c] = endpoint]
    BY DEF ServerChanges, Post
  <1>3. incoming \in Seq(Incoming) /\ server'[c] = endpoint
        /\ (c # e => server'[e] = server[e])
    BY <1>2 DEF MirrorInv, TypeOK
  <1> HIDE DEF notice
  <1>4. Items(incoming)' = Items(incoming) \cup {notice}
    BY <1>1, <1>2, <1>3, ItemsAppend
  <1>5. ~Stale(e, server'[e], notice)
    BY <1>1 DEF Stale
  <1>6. Known(e)' = Known(e)
    BY <1>2 DEF Known
  <1>7. CASE c # e
    <2>1. Coming(e) => Coming(e)'
      BY <1>2, <1>3, <1>4, <1>7 DEF Coming
    <2>2. Corrected(e, server[e], incoming) => Corrected(e, server'[e], incoming')
      BY <1>1, <1>2, <1>3, <1>5, <1>7, CorrectedAppend
    <2>3. Right(e) => Right(e)'
      BY <1>2, <1>3, <1>6, <1>7 DEF Right, Current
    <2>4. OnItsWay(e) => OnItsWay(e)'
      BY <1>2, <1>3, <1>4, <1>7, <2>2, <2>3 DEF OnItsWay
    <2> QED BY <1>3, <1>6, <1>7, <2>1, <2>4 DEF Followed, Awaited, Sink
  <1>8. CASE c = e /\ change # "REMOVE"
    <2>1. Fresh(e, server'[e], notice)
      BY <1>1, <1>3, <1>8 DEF Fresh
    <2>2. Corrected(e, server'[e], incoming')
      BY <1>1, <1>2, <1>3, <1>5, <2>1, CorrectedAppend
    <2>3. OnItsWay(e)'
      BY <1>4, <2>1, <2>2 DEF OnItsWay
    <2>4. CASE change = "NEW"
      <3>1. Announces(e, server'[e], notice)
        BY <1>1, <1>3, <1>8, <2>4 DEF Announces
      <3> QED BY <1>4, <2>3, <3>1 DEF Followed, Awaited, Coming
    <2>5. CASE change = "CHANGE"
      <3>1. server[e].present /\ server'[e].index = server[e].index
        BY <1>3, <1>8, <2>5
      <3>2. Coming(e) => Coming(e)'
        BY <1>2, <1>4, <3>1 DEF Coming, Discovers, Announces
      <3> QED BY <1>6, <2>3, <3>1, <3>2 DEF Followed, Awaited
    <2> QED BY <1>8, <2>4, <2>5
  <1>9. CASE c = e /\ change = "REMOVE"
    BY <1>3, <1>9 DEF Followed, Awaited
  <1> QED BY <1>7, <1>8, <1>9

\* An answer has the state the server has when it gives it.
LEMMA ReplyFacts ==
    ASSUME server \in [Endpoints -> ServerEndpoint],
           NEW request \in Requests, NEW e \in Endpoints, server[e].present
    PROVE  \/ /\ Reply(request) = <<>>
              /\ ~Discovers(e, server[e], request) /\ ~Queries(e, server[e], request)
           \/ \E x \in Incoming :
                 /\ Reply(request) = <<x>> /\ ~Stale(e, server[e], x)
                 /\ Discovers(e, server[e], request) => Announces(e, server[e], x)
                 /\ Queries(e, server[e], request) => Fresh(e, server[e], x)
  <1>1. CASE request.kind = "subscribe"
    BY <1>1 DEF Reply, Discovers, Queries
  <1>2. CASE request.kind = "server_info"
    <2> DEFINE x == [kind |-> "server_info"]
    <2>1. x \in Incoming /\ Reply(request) = <<x>> /\ x.kind = "server_info"
      BY <1>2 DEF Reply, Incoming
    <2> HIDE DEF x
    <2> QED BY <2>1 DEF Stale, Announces, Fresh
  <1>3. CASE request.kind \in {"list", "by_index"}
    <2> DEFINE event == IF request.kind = "list" THEN "Confirmed" ELSE request.event
               infos == {InfoOf(f) : f \in Found(request)}
               x == [kind |-> "infos", event |-> event, infos |-> infos]
    <2>1. Reply(request) = <<x>> /\ x.kind = "infos" /\ x.event = event /\ x.infos = infos
      BY <1>3 DEF Reply
    <2>2. event \in InfoEvents
      BY <1>3 DEF Requests, InfoEvents
    <2>3. Found(request) \subseteq Endpoints
      BY <1>3 DEF Found, Requests
    <2>4. infos \in SUBSET Infos
      BY <2>3 DEF InfoOf, Infos, ServerEndpoint
    <2>5. x \in Incoming
      BY <2>2, <2>4 DEF Incoming
    <2>6. \A info \in infos : info.endpoint = e => info = InfoAt(e, server[e])
      BY DEF InfoOf, InfoAt
    <2>7. Queries(e, server[e], request) => InfoAt(e, server[e]) \in infos
      BY <1>3 DEF Queries, Found, InfoOf, InfoAt
    <2>8. Discovers(e, server[e], request) =>
            Queries(e, server[e], request) /\ event # "Changed"
      BY <1>3 DEF Discovers, Queries
    <2>9. InfoAt(e, server[e]).endpoint = e
      BY DEF InfoAt
    <2> HIDE DEF x, infos, event
    <2>10. ~Stale(e, server[e], x)
      BY <2>1, <2>6 DEF Stale
    <2>11. Queries(e, server[e], request) => Fresh(e, server[e], x)
      BY <2>1, <2>7, <2>10 DEF Fresh
    <2>12. Discovers(e, server[e], request) => Announces(e, server[e], x)
      BY <2>1, <2>7, <2>8, <2>9 DEF Announces
    <2> QED BY <2>1, <2>5, <2>10, <2>11, <2>12
  <1> QED BY <1>1, <1>2, <1>3 DEF Requests

LEMMA AnswerFollowed ==
    ASSUME MirrorInv, NEW e \in Endpoints, Followed(e), Answer
    PROVE  Followed(e)' /\ (Awaited(e) => Awaited(e)')
  <1> DEFINE st == server[e]
  <1>0. /\ server \in [Endpoints -> ServerEndpoint]
        /\ requests \in Seq(Requests) /\ incoming \in Seq(Incoming)
    BY DEF MirrorInv, TypeOK
  <1>1. /\ requests # <<>> /\ requests' = Tail(requests) /\ server' = server
        /\ devices' = devices /\ incoming' = incoming \o Reply(Head(requests))
    BY DEF Answer
  <1>2. /\ Items(requests) = {Head(requests)} \cup Items(requests)'
        /\ Head(requests) \in Requests
    BY <1>0, <1>1, ItemsHeadTail
  <1>3. (Known(e)' = Known(e)) /\ (Right(e)' = Right(e))
    BY <1>1 DEF Known, Right, Current
  <1> SUFFICES ASSUME st.present PROVE Followed(e)' /\ (Coming(e) => Coming(e)')
    BY <1>1 DEF Followed, Awaited
  <1>4. CASE /\ Reply(Head(requests)) = <<>>
             /\ ~Discovers(e, st, Head(requests)) /\ ~Queries(e, st, Head(requests))
    <2>1. incoming' = incoming
      BY <1>0, <1>1, <1>4
    <2>2. (Coming(e) => Coming(e)') /\ (OnItsWay(e) => OnItsWay(e)')
      BY <1>1, <1>2, <1>3, <1>4, <2>1 DEF Coming, OnItsWay
    <2> QED BY <1>1, <1>3, <2>2 DEF Followed
  <1>5. ASSUME NEW x \in Incoming,
               Reply(Head(requests)) = <<x>>, ~Stale(e, st, x),
               Discovers(e, st, Head(requests)) => Announces(e, st, x),
               Queries(e, st, Head(requests)) => Fresh(e, st, x)
        PROVE  Followed(e)' /\ (Coming(e) => Coming(e)')
    <2>1. incoming' = Append(incoming, x)
      <3>1. incoming' = incoming \o <<x>>
        BY <1>1, <1>5
      <3>2. incoming \o <<x>> = Append(incoming, x)
        BY <1>0
      <3> QED BY <3>1, <3>2
    <2>2. Items(incoming)' = Items(incoming) \cup {x}
      BY <1>0, <2>1, ItemsAppend
    <2>3. Coming(e) => Coming(e)'
      BY <1>1, <1>2, <1>5, <2>2 DEF Coming
    <2>4. Corrected(e, st, incoming) \/ Fresh(e, st, x) => Corrected(e, st, incoming')
      BY <1>0, <1>5, <2>1, CorrectedAppend
    <2>5. OnItsWay(e) => OnItsWay(e)'
      BY <1>1, <1>2, <1>3, <1>5, <2>2, <2>4 DEF OnItsWay
    <2> QED BY <1>1, <1>3, <2>3, <2>5 DEF Followed
  <1> HIDE DEF st
  <1> QED BY <1>0, <1>2, <1>4, <1>5, ReplyFacts DEF st

-----------------------------------------------------------------------------
(* The callbacks.                                                          *)

LEMMA ServerInfoCallbackFollowed ==
    ASSUME MirrorInv, NEW e \in Endpoints, ServerInfoCallback
    PROVE  Followed(e)' /\ Awaited(e)'
  <1> DEFINE asked == [kind |-> "list", flow |-> FlowOf[e]]
             lists == <<[kind |-> "list", flow |-> "Render"],
                        [kind |-> "list", flow |-> "Capture"]>>
  <1>1. requests' = requests \o lists /\ requests \in Seq(Requests)
    BY DEF ServerInfoCallback, Ask, MirrorInv, TypeOK
  <1>2. lists \in Seq(Requests)
    BY DEF Requests, EndpointFlows
  <1>3. asked \in Items(lists)
    <2>1. FlowOf[e] \in {"Render", "Capture"}
      BY EndpointsHaveFacts DEF EndpointFacts, EndpointFlows
    <2>2. FlowOf[e] = "Render" => lists[1] = asked
      OBVIOUS
    <2>3. FlowOf[e] = "Capture" => lists[2] = asked
      OBVIOUS
    <2>4. Len(lists) = 2
      OBVIOUS
    <2> HIDE DEF lists, asked
    <2> QED BY <2>1, <2>2, <2>3, <2>4 DEF Items
  <1>4. Discovers(e, server'[e], asked) /\ Queries(e, server'[e], asked)
    BY DEF Discovers, Queries
  <1> HIDE DEF asked, lists
  <1>5. asked \in Items(requests)'
    BY <1>1, <1>2, <1>3, ItemsConcat
  <1> QED BY <1>4, <1>5 DEF Followed, Awaited, Coming, OnItsWay

LEMMA SubscribeCallbackFollowed ==
    ASSUME MirrorInv, NEW e \in Endpoints, Followed(e), SubscribeCallback
    PROVE  Followed(e)' /\ (Awaited(e) => Awaited(e)')
  <1> DEFINE st == server[e]
             n == Head(incoming)
             asked == QueryAfter(n)
  <1>0. requests \in Seq(Requests) /\ incoming \in Seq(Incoming)
    BY DEF MirrorInv, TypeOK
  <1>1. /\ incoming # <<>> /\ n.kind = "notice" /\ incoming' = Tail(incoming)
        /\ requests' = requests \o asked /\ server' = server /\ devices' = devices
    BY DEF SubscribeCallback, Dispatched, Ask, Silent
  <1>2. n \in Incoming /\ Items(incoming) = {n} \cup Items(incoming)'
    BY <1>0, <1>1, ItemsHeadTail
  <1>3. (Known(e)' = Known(e)) /\ (Right(e)' = Right(e))
    BY <1>1 DEF Known, Right, Current
  <1>4. Corrected(e, st, incoming) => Corrected(e, st, incoming')
    BY <1>0, <1>1, CorrectedTail
  <1>5. CASE n.change = "REMOVE"
    <2>1. asked = <<>>
      BY <1>5 DEF QueryAfter
    <2>2. requests' = requests
      BY <1>0, <1>1, <2>1
    <2>3. ~Announces(e, st, n) /\ ~Fresh(e, st, n)
      BY <1>1, <1>5 DEF Announces, Fresh
    <2> HIDE DEF n, st, asked
    <2> QED BY <1>1, <1>2, <1>3, <1>4, <2>2, <2>3 DEF Followed, Awaited, Coming, OnItsWay, st
  <1>6. CASE n.change # "REMOVE"
    <2> DEFINE query == [kind |-> "by_index", endpoint |-> n.endpoint, index |-> n.index,
                         event |-> IF n.change = "NEW" THEN "Discovered" ELSE "Changed"]
    <2>1. n.endpoint \in Endpoints /\ n.index \in Nat
      BY <1>1, <1>2 DEF Incoming
    <2>2. query \in Requests
      BY <2>1 DEF Requests
    <2>3. asked = <<query>>
      BY <1>6 DEF QueryAfter
    <2>4. Announces(e, st, n) => Discovers(e, st, query)
      BY <1>1 DEF Announces, Discovers
    <2>5. Fresh(e, st, n) => Queries(e, st, query)
      BY <1>1 DEF Fresh, Queries
    <2> HIDE DEF query, n, st, asked
    <2>6. Items(requests)' = Items(requests) \cup {query}
      <3>1. <<query>> \in Seq(Requests) /\ Items(<<query>>) = {query}
        BY <2>2, ItemsOne
      <3>2. Items(requests \o <<query>>) = Items(requests) \cup Items(<<query>>)
        BY <1>0, <3>1, ItemsConcat, Zenon
      <3>3. requests' = requests \o <<query>>
        BY <1>1, <2>3
      <3> QED BY <3>1, <3>2, <3>3, Zenon
    <2>7. Coming(e) => Coming(e)'
      BY <1>1, <1>2, <2>4, <2>6 DEF Coming, st
    <2>8. OnItsWay(e) => OnItsWay(e)'
      BY <1>1, <1>2, <1>3, <1>4, <2>5, <2>6 DEF OnItsWay, st
    <2> QED BY <1>1, <1>3, <2>7, <2>8 DEF Followed, Awaited
  <1> QED BY <1>5, <1>6

LEMMA EndOfListFollowed ==
    ASSUME MirrorInv, NEW e \in Endpoints, Followed(e), EndOfList
    PROVE  Followed(e)' /\ (Awaited(e) => Awaited(e)')
  <1> DEFINE st == server[e]
             head == Head(incoming)
  <1>0. incoming \in Seq(Incoming)
    BY DEF MirrorInv, TypeOK
  <1>1. /\ incoming # <<>> /\ head.kind = "infos" /\ head.infos = {}
        /\ incoming' = Tail(incoming)
        /\ requests' = requests /\ server' = server /\ devices' = devices
    BY DEF EndOfList, Dispatched, Silent
  <1>2. Items(incoming) = {head} \cup Items(incoming)'
    BY <1>0, <1>1, ItemsHeadTail
  <1>3. (Known(e)' = Known(e)) /\ (Right(e)' = Right(e))
    BY <1>1 DEF Known, Right, Current
  <1>4. Corrected(e, st, incoming) => Corrected(e, st, incoming')
    BY <1>0, <1>1, CorrectedTail
  <1>5. ~Announces(e, st, head) /\ ~Fresh(e, st, head)
    BY <1>1 DEF Announces, Fresh
  <1> HIDE DEF head
  <1> QED BY <1>1, <1>2, <1>3, <1>4, <1>5 DEF Followed, Awaited, Coming, OnItsWay

\* One device of an answer reaches the map, the others remain in the answer.
LEMMA InfoCallbackFollowed ==
    ASSUME MirrorInv, NEW e \in Endpoints, Followed(e), InfoCallback
    PROVE  Followed(e)' /\ (Awaited(e) => Awaited(e)' \/ Posted(e)')
  <1> DEFINE st == server[e]
             head == Head(incoming)
  <1>0. incoming \in Seq(Incoming) /\ IsDeviceMap(devices)
    BY DEF MirrorInv, TypeOK
  <1>1. /\ incoming # <<>> /\ head.kind = "infos"
        /\ requests' = requests /\ server' = server
    BY DEF InfoCallback, Dispatched
  <1>2. PICK info \in head.infos :
          /\ incoming' = <<[head EXCEPT !.infos = @ \ {info}]>> \o Tail(incoming)
          /\ Deliver(head.event, info)
    BY DEF InfoCallback
  <1> DEFINE left == [head EXCEPT !.infos = @ \ {info}]
  <1>3. /\ Items(incoming) = {head} \cup Items(Tail(incoming))
        /\ head \in Incoming /\ Tail(incoming) \in Seq(Incoming)
    BY <1>0, <1>1, ItemsHeadTail
  <1>4. /\ head.event \in InfoEvents /\ head.infos \in SUBSET Infos
        /\ left \in Incoming /\ left.kind = "infos" /\ left.event = head.event
        /\ left.infos = head.infos \ {info}
    BY <1>1, <1>3 DEF Incoming
  <1>5. info \in Infos
    BY <1>4
  <1>6. /\ Known(e) \/ (info.endpoint = e /\ head.event # "Changed") => Known(e)'
        /\ Sink(e) /\ info.endpoint = e /\ (Known(e) \/ head.event # "Changed") =>
             devices'[PnpIdOf[e]].renderVolume = StoredVolume(info.volume, info.mute)
        /\ Sink(e) /\ Known(e) /\ info.endpoint # e =>
             devices'[PnpIdOf[e]].renderVolume = devices[PnpIdOf[e]].renderVolume
    BY <1>0, <1>2, <1>5, DeliverKeeps
  <1> HIDE DEF head, left
  <1>7. Items(incoming)' = {left} \cup Items(Tail(incoming))
    <2>1. <<left>> \in Seq(Incoming)
      BY <1>4
    <2>2. Items(<<left>> \o Tail(incoming)) = Items(<<left>>) \cup Items(Tail(incoming))
      <3> DEFINE one == <<left>>
                 rest == Tail(incoming)
      <3>1. one \in Seq(Incoming) /\ rest \in Seq(Incoming)
        BY <1>3, <2>1
      <3> HIDE DEF one, rest
      <3>2. Items(one \o rest) = Items(one) \cup Items(rest)
        BY <3>1, ItemsConcat
      <3> QED BY <3>2 DEF one, rest
    <2>3. incoming' = <<left>> \o Tail(incoming)
      BY <1>2 DEF left
    <2>4. Items(<<left>>) = {left}
      BY ItemsOne
    <2> QED BY <2>2, <2>3, <2>4, Zenon
  <1>8. /\ Known(e) \/ Coming(e) => Known(e)' \/ Coming(e)'
        /\ Coming(e) => Coming(e)' \/ Posted(e)'
    <2>1. Announces(e, st, head) /\ ~Announces(e, st, left) =>
            info.endpoint = e /\ head.event # "Changed"
      BY <1>1, <1>4 DEF Announces
    <2>2. info.endpoint = e /\ head.event # "Changed" => Posted(e)'
      BY <1>2, <1>4 DEF Deliver, AddOrUpdateAndNotify, NotifyObservers, OnCollectionChanged,
                        InfoEvents, Posted, Updated
    <2> QED BY <1>1, <1>3, <1>6, <1>7, <2>1, <2>2 DEF Coming
  <1>9. Stale(e, st, left) => Stale(e, st, head)
    BY <1>1, <1>4 DEF Stale
  <1>10. Corrected(e, st, incoming) => Corrected(e, st, incoming')
    <2>1. incoming' = <<left>> \o Tail(incoming)
      BY <1>2 DEF left
    <2> QED BY <1>0, <1>1, <1>4, <1>9, <2>1, CorrectedReplaced DEF head
  <1>11. ASSUME Sink(e), st.present, OnItsWay(e)
         PROVE  OnItsWay(e)'
    <2>1. CASE \E request \in Items(requests) : Queries(e, st, request)
      BY <1>1, <2>1 DEF OnItsWay
    <2> SUFFICES ASSUME Corrected(e, st, incoming),
                        Right(e) \/ \E item \in Items(incoming) : Fresh(e, st, item)
                 PROVE  OnItsWay(e)'
      BY <1>11, <2>1 DEF OnItsWay
    <2>2. CASE \E item \in Items(Tail(incoming)) : Fresh(e, st, item)
      BY <1>1, <1>7, <1>10, <2>2 DEF OnItsWay
    <2>3. CASE info.endpoint # e
      <3>1. Right(e) => Right(e)'
        BY <1>1, <1>6, <1>11, <2>3 DEF Right, Current
      <3>2. Fresh(e, st, head) => Fresh(e, st, left)
        BY <1>1, <1>4, <1>9, <2>3 DEF Fresh, InfoAt
      <3> QED BY <1>1, <1>3, <1>7, <1>10, <3>1, <3>2 DEF OnItsWay
    <2>4. CASE info.endpoint = e /\ info # InfoAt(e, st)
      <3>1. Stale(e, st, head)
        BY <1>1, <2>4 DEF Stale
      <3> QED BY <1>0, <1>1, <2>2, <3>1, CorrectedHead DEF head
    <2>5. CASE info = InfoAt(e, st) /\ (Known(e) \/ head.event # "Changed")
      <3>1. info.endpoint = e /\ info.volume = st.volume /\ info.mute = st.mute
        BY <2>5 DEF InfoAt
      <3>2. Right(e)'
        BY <1>1, <1>6, <1>11, <2>5, <3>1 DEF Right, Current
      <3> QED BY <1>1, <1>10, <3>2 DEF OnItsWay
    <2>6. CASE ~Known(e) /\ head.event = "Changed"
      <3>1. Coming(e)
        BY <1>11, <2>6 DEF Followed
      <3>2. CASE \E request \in Items(requests) : Discovers(e, st, request)
        BY <1>1, <3>2 DEF OnItsWay, Discovers, Queries
      <3>3. CASE \E item \in Items(incoming) : Announces(e, st, item)
        <4>1. ~Announces(e, st, head)
          BY <1>1, <2>6 DEF Announces
        <4>2. PICK item \in Items(Tail(incoming)) : Announces(e, st, item)
          BY <1>3, <3>3, <4>1
        <4>3. CASE Stale(e, st, item)
          <5>1. Corrected(e, st, Tail(incoming))
            BY <1>0, <1>1, CorrectedTail
          <5>2. Tail(incoming) \in Seq(Incoming) /\ item \in Incoming
            BY <1>0, <4>2, ItemsHeadTail DEF Items
          <5>3. item \in StaleItems(e, st)
            BY <4>3, <5>2 DEF StaleItems
          <5>4. PICK other \in Items(Tail(incoming)) : other \in FreshItems(e, st)
            BY <4>2, <5>1, <5>2, <5>3, SupersededItem DEF Corrected
          <5>5. Fresh(e, st, other)
            BY <5>4 DEF FreshItems
          <5> QED BY <2>2, <5>4, <5>5
        <4>4. CASE ~Stale(e, st, item)
          <5>1. Fresh(e, st, item)
            BY <4>2, <4>4 DEF Announces, Stale, Fresh
          <5> QED BY <2>2, <4>2, <5>1
        <4> QED BY <4>3, <4>4
      <3> QED BY <3>1, <3>2, <3>3 DEF Coming
    <2> QED BY <2>3, <2>4, <2>5, <2>6
  <1> QED BY <1>1, <1>8, <1>11 DEF Followed, Awaited, Sink

-----------------------------------------------------------------------------
(* The invariant.                                                          *)

LEMMA InventoryInit == Init => InventoryInv
  <1> SUFFICES ASSUME Init PROVE InventoryInv
    OBVIOUS
  <1>1. ~connected /\ ~subscribed /\ requests = <<>> /\ incoming = <<>>
    BY DEF Init
  <1>2. StartShape
    BY <1>1 DEF StartShape
  <1> QED BY <1>1, <1>2, MirrorInit DEF InventoryInv

\* A step, seen from one endpoint: what it lacks stays on its way, and if it was
\* still to be confirmed or discovered, it still is, or its device is posted now.
LEMMA FollowedNext ==
    ASSUME InventoryInv, [Next]_vars, connected', spent'.timeouts = 0, NEW e \in Endpoints
    PROVE  /\ Followed(e)'
           /\ \/ Awaited(e)' \/ Posted(e)'
              \/ connected /\ spent.timeouts = 0 /\ ~Awaited(e)
  <1>1. MirrorInv /\ StartShape /\ MirrorInv' /\ StartShape'
    BY MirrorInvNext, StartShapeNext DEF InventoryInv
  <1>2. /\ connected \in BOOLEAN /\ subscribed \in BOOLEAN /\ spent.timeouts \in Nat
        /\ connected' \in BOOLEAN /\ subscribed' \in BOOLEAN
        /\ server \in [Endpoints -> ServerEndpoint]
    BY <1>1, CollectionAssumption DEF MirrorInv, TypeOK
  <1>3. CASE ~subscribed'
    BY <1>1, <1>3, UnsubscribedFollowed
  <1>4. CASE subscribed'
    <2>1. connected /\ spent.timeouts = 0 => Followed(e)
      BY DEF InventoryInv
    <2>2. subscribed => connected
      BY <1>1, <1>2 DEF StartShape
    <2>3. requests # <<>> \/ incoming # <<>> => connected
      BY <1>1 DEF StartShape
    <2>4. CASE ServerStep
      <3>1. ASSUME NEW c \in Endpoints, NEW change \in {"NEW", "CHANGE", "REMOVE"},
                   NEW endpoint \in ServerEndpoint, ServerChanges(c, change, endpoint),
                   change = "REMOVE" => ~endpoint.present,
                   change = "CHANGE" => /\ server[c].present
                                        /\ endpoint.index = server[c].index
            PROVE  /\ Followed(e)'
                   /\ \/ Awaited(e)' \/ Posted(e)'
                      \/ connected /\ spent.timeouts = 0 /\ ~Awaited(e)
        <4>1. subscribed /\ spent.timeouts = 0
          BY <1>1, <1>4, <3>1 DEF ServerChanges, MirrorInv, TypeOK
        <4> QED BY <1>1, <2>1, <2>2, <3>1, <4>1, ServerChangesFollowed
      <3>2. PICK c \in Endpoints : Plug(c) \/ Unplug(c) \/ Adjust(c)
        BY <2>4 DEF ServerStep
      <3>3. server[c].index \in Nat
        BY <1>2 DEF ServerEndpoint
      <3>4. CASE Plug(c)
        <4>1. PICK volume \in RawVolumes, mute \in BOOLEAN :
                ServerChanges(c, "NEW", [present |-> TRUE, index |-> server[c].index + 1,
                                         volume |-> volume, mute |-> mute])
          BY <3>4 DEF Plug
        <4>2. [present |-> TRUE, index |-> server[c].index + 1,
               volume |-> volume, mute |-> mute] \in ServerEndpoint
          BY <3>3, CollectionAssumption DEF ServerEndpoint
        <4> QED BY <3>1, <4>1, <4>2
      <3>5. CASE Unplug(c)
        <4>1. Absent(server[c].index) \in ServerEndpoint /\ ~Absent(server[c].index).present
          BY <3>3 DEF Absent, ServerEndpoint
        <4> QED BY <3>1, <3>5, <4>1 DEF Unplug
      <3>6. CASE Adjust(c)
        <4>1. server[c].present /\ server[c] \in ServerEndpoint
          BY <1>2, <3>6 DEF Adjust
        <4>2. PICK volume \in RawVolumes, mute \in BOOLEAN :
                ServerChanges(c, "CHANGE",
                              [server[c] EXCEPT !.volume = volume, !.mute = mute])
          BY <3>6 DEF Adjust
        <4> DEFINE endpoint == [server[c] EXCEPT !.volume = volume, !.mute = mute]
        <4>3. endpoint \in ServerEndpoint /\ endpoint.index = server[c].index
          BY <4>1, CollectionAssumption DEF ServerEndpoint
        <4> HIDE DEF endpoint
        <4>4. ServerChanges(c, "CHANGE", endpoint)
          BY <4>2 DEF endpoint
        <4> QED BY <3>1, <4>1, <4>3, <4>4
      <3> QED BY <3>2, <3>4, <3>5, <3>6
    <2>5. CASE Answer
      BY <1>1, <2>1, <2>3, <2>5, AnswerFollowed DEF Answer
    <2>6. CASE ContextReady \/ ContextLost
      BY <1>2, <1>4, <2>2, <2>6 DEF ContextReady, ContextLost
    <2>7. CASE ServerInfoCallback
      BY <1>1, <2>7, ServerInfoCallbackFollowed
    <2>8. CASE SubscribeCallback
      BY <1>1, <2>1, <2>3, <2>8, SubscribeCallbackFollowed DEF SubscribeCallback, Dispatched
    <2>9. CASE InfoCallback
      BY <1>1, <2>1, <2>3, <2>9, InfoCallbackFollowed DEF InfoCallback, Dispatched
    <2>10. CASE EndOfList
      BY <1>1, <2>1, <2>3, <2>10, EndOfListFollowed DEF EndOfList, Dispatched
    <2>11. CASE RequestTimesOut
      <3>1. spent'.timeouts = spent.timeouts + 1
        BY <1>1, <2>11 DEF RequestTimesOut, MirrorInv, TypeOK
      <3> QED BY <1>2, <3>1
    <2>12. CASE UNCHANGED vars
      <3>1. Followed(e)
        BY <2>1, <2>12 DEF vars, link
      <3>2. UNCHANGED <<server, requests, incoming, devices>>
        BY <2>12 DEF vars, link, mirror
      <3>3. Followed(e)' /\ (Awaited(e)' <=> Awaited(e))
        BY <3>1, <3>2 DEF Followed, Awaited, Known, Coming, Sink, OnItsWay, Right, Current
      <3>4. UNCHANGED <<connected, spent>>
        BY <2>12 DEF vars, link
      <3> QED BY <3>3, <3>4
    <2> QED BY <2>4, <2>5, <2>6, <2>7, <2>8, <2>9, <2>10, <2>11, <2>12
            DEF Next, Callback, Idle
  <1> QED BY <1>3, <1>4

LEMMA InventoryNext == InventoryInv /\ [Next]_vars => InventoryInv'
  <1> SUFFICES ASSUME InventoryInv, [Next]_vars PROVE InventoryInv'
    OBVIOUS
  <1>1. MirrorInv' /\ StartShape'
    BY MirrorInvNext, StartShapeNext DEF InventoryInv
  <1> QED BY <1>1, FollowedNext DEF InventoryInv

\* When nothing is on its way, everything is there.
LEMMA QuietIsKnown ==
    ASSUME InventoryInv, Quiet, spent.timeouts = 0, NEW e \in Endpoints, server[e].present
    PROVE  Known(e) /\ (Sink(e) => Right(e))
  <1>1. Items(requests) = {} /\ Items(incoming) = {}
    BY ItemsEmpty DEF Quiet
  <1>2. Followed(e)
    BY DEF InventoryInv, Quiet
  <1> QED BY <1>1, <1>2 DEF Followed, Coming, OnItsWay

\* PulseDeviceCollection.cpp:200 and :266-364: whatever is plugged in, unplugged or
\* lost while the lists, events and queries of a connection are on their way, no
\* endpoint is missing from the map once they have been dispatched.
THEOREM InventoryAlwaysComplete == Spec => []InventoryComplete
  <1>1. InventoryInv => InventoryComplete
    BY QuietIsKnown DEF InventoryComplete, Known
  <1> QED BY InventoryInit, InventoryNext, <1>1, PTL DEF Spec

\* And the volume stored for a sink that shares its PnP id with no other sink is then
\* the server's: a stale answer is always followed by what corrects it.
THEOREM RenderAlwaysMirrored == Spec => []RenderMirrored
  <1>1. InventoryInv => RenderMirrored
    BY QuietIsKnown DEF RenderMirrored, Right, Known, Sink
  <1> QED BY InventoryInit, InventoryNext, <1>1, PTL DEF Spec

-----------------------------------------------------------------------------
(* Coming to rest.                                                         *)

LEMMA TotalIsSum ==
    ASSUME NEW S, NEW work, \A x \in S : work[x] \in Nat, NEW s \in Seq(S)
    PROVE  \E sum : IsSum(sum, work, s) /\ Total(work, s) = sum[Len(s)]
  <1> DEFINE sum == CHOOSE f : IsSum(f, work, s)
  <1>1. Total(work, s) = sum[Len(s)]
    BY DEF Total, IsSum
  <1>2. \E f : IsSum(f, work, s)
    BY SumExists
  <1>3. IsSum(sum, work, s)
    BY <1>2
  <1> QED BY <1>1, <1>3

LEMMA TotalConcat ==
    ASSUME NEW S, NEW work, \A x \in S : work[x] \in Nat,
           NEW s \in Seq(S), NEW t \in Seq(S)
    PROVE  /\ Total(work, s) \in Nat
           /\ Total(work, s \o t) = Total(work, s) + Total(work, t)
  <1>1. s \o t \in Seq(S)
    OBVIOUS
  <1>2. PICK f : IsSum(f, work, s) /\ Total(work, s) = f[Len(s)]
    BY TotalIsSum
  <1>3. PICK g : IsSum(g, work, t) /\ Total(work, t) = g[Len(t)]
    BY TotalIsSum
  <1>4. PICK h : IsSum(h, work, s \o t) /\ Total(work, s \o t) = h[Len(s \o t)]
    BY <1>1, TotalIsSum
  <1>5. Total(work, s) \in Nat
    <2>1. SumsUp(f, work, s)
      BY <1>2, SumFacts
    <2> QED BY <1>2, <2>1 DEF SumsUp
  <1>6. h[Len(s \o t)] = f[Len(s)] + g[Len(t)]
    BY <1>2, <1>3, <1>4, SumConcat
  <1> QED BY <1>2, <1>3, <1>4, <1>5, <1>6

LEMMA TotalOne ==
    ASSUME NEW S, NEW work, \A x \in S : work[x] \in Nat, NEW x \in S
    PROVE  Total(work, <<x>>) = work[x]
  <1>1. <<x>> \in Seq(S) /\ Len(<<x>>) = 1 /\ <<x>>[1] = x
    OBVIOUS
  <1>2. PICK f : IsSum(f, work, <<x>>) /\ Total(work, <<x>>) = f[Len(<<x>>)]
    BY <1>1, TotalIsSum
  <1>3. SumsUp(f, work, <<x>>)
    BY <1>1, <1>2, SumFacts
  <1>4. f[0] = 0 /\ f[1] = f[0] + work[x]
    BY <1>1, <1>3 DEF SumsUp
  <1> QED BY <1>1, <1>2, <1>4

LEMMA TotalEmpty ==
    ASSUME NEW work
    PROVE  Total(work, <<>>) = 0
  <1>1. PICK f : IsSum(f, work, <<>>) /\ Total(work, <<>>) = f[Len(<<>>)]
    <2>1. <<>> \in Seq({}) /\ \A x \in {} : work[x] \in Nat
      OBVIOUS
    <2> QED BY <2>1, TotalIsSum
  <1>2. SumsUp(f, work, <<>>)
    <2>1. <<>> \in Seq({}) /\ \A x \in {} : work[x] \in Nat
      OBVIOUS
    <2> QED BY <1>1, <2>1, SumFacts
  <1> QED BY <1>1, <1>2 DEF SumsUp

LEMMA TotalHeadTail ==
    ASSUME NEW S, NEW work, \A x \in S : work[x] \in Nat, NEW s \in Seq(S), s # <<>>
    PROVE  /\ Head(s) \in S /\ Tail(s) \in Seq(S) /\ Total(work, Tail(s)) \in Nat
           /\ Total(work, s) = work[Head(s)] + Total(work, Tail(s))
  <1>1. Head(s) \in S /\ Tail(s) \in Seq(S) /\ <<Head(s)>> \in Seq(S)
    BY ItemsHeadTail
  <1>2. s = <<Head(s)>> \o Tail(s)
    <2> DEFINE one == <<Head(s)>>
    <2>1. /\ Len(s) \in Nat /\ Len(one \o Tail(s)) = Len(s) /\ one \o Tail(s) \in Seq(S)
          /\ \A i \in 1..Len(s) : (one \o Tail(s))[i] = s[i]
      OBVIOUS
    <2> HIDE DEF one
    <2>2. one \o Tail(s) = s
      BY <2>1, SeqEqual
    <2> QED BY <2>2 DEF one
  <1>3. Total(work, Tail(s)) \in Nat
    BY <1>1, TotalConcat
  <1>4. Total(work, <<Head(s)>> \o Tail(s)) = Total(work, <<Head(s)>>) + Total(work, Tail(s))
    BY <1>1, TotalConcat
  <1>5. Total(work, <<Head(s)>>) = work[Head(s)]
    BY <1>1, TotalOne
  <1> QED BY <1>1, <1>2, <1>3, <1>4, <1>5

\* The answers that occur: finitely many devices.
FiniteItems == {item \in Incoming : item.kind = "infos" => IsFiniteSet(item.infos)}

N == Cardinality(Endpoints)

LEMMA NumberOfEndpoints == IsFiniteSet(Endpoints) /\ N \in Nat
  BY CollectionAssumption, FS_CardinalityType DEF CollectionAssumption, N

LEMMA RequestWorks ==
    ASSUME NEW request \in Requests
    PROVE  /\ RequestWork[request] \in Nat \ {0}
           /\ request.kind = "server_info" => RequestWork[request] = 2 * N + 6
           /\ request.kind = "list" => RequestWork[request] = N + 2
           /\ request.kind = "by_index" => RequestWork[request] = 3
  <1>1. request.kind \in {"server_info", "subscribe", "list", "by_index"}
    BY DEF Requests
  <1>2. RequestWork[request] =
            CASE request.kind = "server_info" -> 2 * N + 6
              [] request.kind = "list"        -> N + 2
              [] request.kind = "by_index"    -> 3
              [] request.kind = "subscribe"   -> 1
    BY DEF RequestWork, N
  <1> QED BY <1>1, <1>2, NumberOfEndpoints

LEMMA ItemWorks ==
    ASSUME NEW item \in FiniteItems
    PROVE  /\ ItemWork[item] \in Nat \ {0}
           /\ item.kind = "server_info" => ItemWork[item] = 2 * N + 5
           /\ item.kind = "infos" => ItemWork[item] = Cardinality(item.infos) + 1
           /\ item.kind = "notice" => ItemWork[item] = 4
  <1>1. item.kind \in {"server_info", "infos", "notice"} /\ item \in Incoming
    BY DEF FiniteItems, Incoming
  <1>2. ItemWork[item] =
            CASE item.kind = "server_info" -> 2 * N + 5
              [] item.kind = "infos"       -> Cardinality(item.infos) + 1
              [] item.kind = "notice"      -> 4
    BY <1>1 DEF ItemWork, N
  <1>3. item.kind = "infos" => Cardinality(item.infos) \in Nat
    BY FS_CardinalityType DEF FiniteItems
  <1> QED BY <1>1, <1>2, <1>3, NumberOfEndpoints

LEMMA AllWorks ==
    /\ \A request \in Requests : RequestWork[request] \in Nat
    /\ \A item \in FiniteItems : ItemWork[item] \in Nat
  BY RequestWorks, ItemWorks

\* An answer is less to do than its question.
LEMMA ReplyWork ==
    ASSUME server \in [Endpoints -> ServerEndpoint], NEW request \in Requests
    PROVE  /\ Reply(request) \in Seq(FiniteItems)
           /\ Total(ItemWork, Reply(request)) < RequestWork[request]
  <1>1. CASE request.kind = "subscribe"
    <2>1. Reply(request) = <<>>
      BY <1>1 DEF Reply
    <2> QED BY <2>1, TotalEmpty, RequestWorks
  <1>2. CASE request.kind = "server_info"
    <2> DEFINE x == [kind |-> "server_info"]
    <2>1. Reply(request) = <<x>> /\ x \in FiniteItems /\ x.kind = "server_info"
      BY <1>2 DEF Reply, FiniteItems, Incoming
    <2> HIDE DEF x
    <2>2. Total(ItemWork, <<x>>) = ItemWork[x] /\ ItemWork[x] = 2 * N + 5
      BY <2>1, TotalOne, ItemWorks, AllWorks
    <2>3. RequestWork[request] = 2 * N + 6
      BY <1>2, RequestWorks
    <2> QED BY <2>1, <2>2, <2>3, NumberOfEndpoints
  <1>3. CASE request.kind \in {"list", "by_index"}
    <2> DEFINE event == IF request.kind = "list" THEN "Confirmed" ELSE request.event
               found == Found(request)
               infos == {InfoOf(e) : e \in found}
               x == [kind |-> "infos", event |-> event, infos |-> infos]
    <2>1. Reply(request) = <<x>> /\ x.kind = "infos" /\ x.infos = infos
      BY <1>3 DEF Reply
    <2>2. event \in InfoEvents
      BY <1>3 DEF Requests, InfoEvents
    <2>3. found \subseteq Endpoints
      BY <1>3 DEF Found, Requests
    <2>4. infos \in SUBSET Infos
      BY <2>3 DEF InfoOf, Infos, ServerEndpoint
    <2>5. x \in Incoming
      BY <2>2, <2>4 DEF Incoming
    <2>6. IsFiniteSet(found) /\ Cardinality(found) \in Nat
      BY <2>3, NumberOfEndpoints, FS_Subset, FS_CardinalityType
    <2>7. IsFiniteSet(infos) /\ Cardinality(infos) <= Cardinality(found)
      <3> DEFINE f == [e \in found |-> InfoOf(e)]
      <3>1. f \in Surjection(found, infos)
        BY DEF Surjection
      <3> HIDE DEF f
      <3> QED BY <2>6, <3>1, FS_Surjection
    <2>8. Cardinality(found) + 1 < RequestWork[request]
      <3>1. CASE request.kind = "list"
        <4>1. Cardinality(found) <= N
          BY <2>3, NumberOfEndpoints, FS_Subset DEF N
        <4> QED BY <2>6, <3>1, <4>1, RequestWorks, NumberOfEndpoints
      <3>2. CASE request.kind = "by_index"
        <4> DEFINE one == {request.endpoint}
        <4>1. found \subseteq one
          BY <3>2 DEF Found
        <4>2. IsFiniteSet(one) /\ Cardinality(one) = 1
          BY FS_Singleton
        <4> HIDE DEF one, found
        <4>3. Cardinality(found) <= 1
          BY <4>1, <4>2, FS_Subset
        <4> QED BY <2>6, <3>2, <4>3, RequestWorks
      <3> QED BY <1>3, <3>1, <3>2
    <2> HIDE DEF x, infos, event, found
    <2>9. x \in FiniteItems
      BY <2>1, <2>5, <2>7 DEF FiniteItems
    <2>10. Total(ItemWork, <<x>>) = Cardinality(infos) + 1 /\ Cardinality(infos) \in Nat
      BY <2>1, <2>7, <2>9, TotalOne, ItemWorks, AllWorks, FS_CardinalityType
    <2>11. RequestWork[request] \in Nat
      BY AllWorks
    <2> QED BY <2>1, <2>6, <2>7, <2>8, <2>9, <2>10, <2>11
  <1> QED BY <1>1, <1>2, <1>3 DEF Requests

LEMMA WorkNumbers ==
    ASSUME requests \in Seq(Requests), incoming \in Seq(FiniteItems)
    PROVE  /\ Total(RequestWork, requests) \in Nat /\ Total(ItemWork, incoming) \in Nat
           /\ Work \in Nat
  <1>1. Total(RequestWork, requests) \in Nat
    BY TotalConcat, AllWorks
  <1>2. Total(ItemWork, incoming) \in Nat
    BY TotalConcat, AllWorks
  <1> QED BY <1>1, <1>2 DEF Work

LEMMA TwoRequests ==
    ASSUME NEW a \in Requests, NEW b \in Requests
    PROVE  <<a, b>> \in Seq(Requests) /\ Total(RequestWork, <<a, b>>) = RequestWork[a] + RequestWork[b]
  <1> DEFINE one == <<a>>
             two == <<b>>
             both == <<a, b>>
  <1>1. one \in Seq(Requests) /\ two \in Seq(Requests) /\ both \in Seq(Requests)
    OBVIOUS
  <1>2. one \o two = both
    <2>1. /\ one \o two \in Seq(Requests) /\ Len(one \o two) = Len(both)
          /\ \A i \in 1..Len(both) : (one \o two)[i] = both[i]
      OBVIOUS
    <2> HIDE DEF one, two, both
    <2> QED BY <1>1, <2>1, SeqEqual
  <1>3. /\ Total(RequestWork, one) = RequestWork[a]
        /\ Total(RequestWork, two) = RequestWork[b]
    BY TotalOne, AllWorks
  <1> HIDE DEF one, two, both
  <1>4. Total(RequestWork, one \o two) = Total(RequestWork, one) + Total(RequestWork, two)
    BY <1>1, TotalConcat, AllWorks
  <1>5. both \in Seq(Requests) /\ Total(RequestWork, both) = RequestWork[a] + RequestWork[b]
    BY <1>1, <1>2, <1>3, <1>4
  <1> QED BY <1>5 DEF both

LEMMA AnswerShrinks ==
    ASSUME TypeOK, incoming \in Seq(FiniteItems), Answer
    PROVE  incoming' \in Seq(FiniteItems) /\ Work' < Work
  <1> DEFINE request == Head(requests)
             reply == Reply(request)
  <1>1. /\ requests \in Seq(Requests) /\ requests # <<>> /\ requests' = Tail(requests)
        /\ incoming' = incoming \o reply /\ server \in [Endpoints -> ServerEndpoint]
    BY DEF TypeOK, Answer
  <1>2. /\ request \in Requests /\ Total(RequestWork, requests') \in Nat
        /\ Total(RequestWork, requests) = RequestWork[request] + Total(RequestWork, requests')
    BY <1>1, TotalHeadTail, AllWorks
  <1> HIDE DEF request
  <1>3. reply \in Seq(FiniteItems) /\ Total(ItemWork, reply) < RequestWork[request]
    BY <1>1, <1>2, ReplyWork
  <1> HIDE DEF reply
  <1>4. /\ Total(ItemWork, incoming') = Total(ItemWork, incoming) + Total(ItemWork, reply)
        /\ Total(ItemWork, reply) \in Nat
    BY <1>1, <1>3, TotalConcat, AllWorks
  <1>5. Total(ItemWork, incoming) \in Nat /\ RequestWork[request] \in Nat
    BY <1>1, <1>2, WorkNumbers, AllWorks
  <1>6. Work' < Work
    BY <1>2, <1>3, <1>4, <1>5 DEF Work
  <1>7. incoming' \in Seq(FiniteItems)
    BY <1>1, <1>3
  <1> QED BY <1>6, <1>7

LEMMA TimeoutShrinks ==
    ASSUME TypeOK, incoming \in Seq(FiniteItems), RequestTimesOut
    PROVE  incoming' \in Seq(FiniteItems) /\ Work' < Work
  <1>1. /\ requests \in Seq(Requests) /\ requests # <<>> /\ requests' = Tail(requests)
        /\ incoming' = incoming
    BY DEF TypeOK, RequestTimesOut
  <1>2. /\ Head(requests) \in Requests /\ Total(RequestWork, requests') \in Nat
        /\ Total(RequestWork, requests)
             = RequestWork[Head(requests)] + Total(RequestWork, requests')
    BY <1>1, TotalHeadTail, AllWorks
  <1>3. RequestWork[Head(requests)] \in Nat \ {0} /\ Total(ItemWork, incoming) \in Nat
    BY <1>1, <1>2, RequestWorks, WorkNumbers
  <1> QED BY <1>1, <1>2, <1>3 DEF Work

\* A callback asks for less than the item it dispatches has left to do.
LEMMA CallbackShrinks ==
    ASSUME TypeOK, incoming \in Seq(FiniteItems), Callback
    PROVE  incoming' \in Seq(FiniteItems) /\ Work' < Work
  <1> DEFINE item == Head(incoming)
             rest == Tail(incoming)
  <1>1. requests \in Seq(Requests) /\ incoming # <<>>
    BY DEF TypeOK, Callback, ServerInfoCallback, SubscribeCallback, InfoCallback, EndOfList,
           Dispatched
  <1>2. /\ item \in FiniteItems /\ rest \in Seq(FiniteItems)
        /\ Total(ItemWork, rest) \in Nat
        /\ Total(ItemWork, incoming) = ItemWork[item] + Total(ItemWork, rest)
    BY <1>1, TotalHeadTail, AllWorks
  <1>3. Total(RequestWork, requests) \in Nat /\ ItemWork[item] \in Nat \ {0}
    BY <1>1, <1>2, WorkNumbers, ItemWorks
  <1>4. ASSUME NEW asked \in Seq(Requests), requests' = requests \o asked, incoming' = rest,
               Total(RequestWork, asked) < ItemWork[item]
        PROVE  incoming' \in Seq(FiniteItems) /\ Work' < Work
    <2>1. /\ Total(RequestWork, asked) \in Nat
          /\ Total(RequestWork, requests')
               = Total(RequestWork, requests) + Total(RequestWork, asked)
      BY <1>1, <1>4, TotalConcat, AllWorks
    <2> HIDE DEF item, rest
    <2>2. Total(ItemWork, incoming') = Total(ItemWork, rest)
      BY <1>4
    <2>3. Work' < Work
      BY <1>2, <1>3, <1>4, <2>1, <2>2 DEF Work
    <2> QED BY <1>2, <1>4, <2>3
  <1>5. CASE ServerInfoCallback
    <2> DEFINE a == [kind |-> "list", flow |-> "Render"]
               b == [kind |-> "list", flow |-> "Capture"]
    <2>1. /\ a \in Requests /\ a.kind = "list" /\ b \in Requests /\ b.kind = "list"
          /\ requests' = requests \o <<a, b>> /\ incoming' = rest /\ item.kind = "server_info"
      BY <1>5 DEF ServerInfoCallback, Dispatched, Ask, Requests, EndpointFlows
    <2> HIDE DEF a, b, item, rest
    <2>2. <<a, b>> \in Seq(Requests) /\ Total(RequestWork, <<a, b>>) = (N + 2) + (N + 2)
      BY <2>1, TwoRequests, RequestWorks
    <2>3. ItemWork[item] = 2 * N + 5
      BY <1>2, <2>1, ItemWorks
    <2>4. Total(RequestWork, <<a, b>>) < ItemWork[item]
      BY <2>2, <2>3, NumberOfEndpoints
    <2> QED BY <1>4, <2>1, <2>2, <2>4
  <1>6. CASE SubscribeCallback
    <2>1. requests' = requests \o QueryAfter(item) /\ incoming' = rest /\ item.kind = "notice"
      BY <1>6 DEF SubscribeCallback, Dispatched, Ask
    <2>2. ItemWork[item] = 4
      BY <1>2, <2>1, ItemWorks
    <2>3. CASE item.change = "REMOVE"
      <3>1. QueryAfter(item) = <<>> /\ <<>> \in Seq(Requests)
        BY <2>3 DEF QueryAfter
      <3>2. Total(RequestWork, <<>>) < ItemWork[item]
        BY <2>2, TotalEmpty
      <3> HIDE DEF item, rest
      <3> QED BY <1>4, <2>1, <3>1, <3>2
    <2>4. CASE item.change # "REMOVE"
      <3> DEFINE a == [kind |-> "by_index", endpoint |-> item.endpoint, index |-> item.index,
                       event |-> IF item.change = "NEW" THEN "Discovered" ELSE "Changed"]
      <3>1. QueryAfter(item) = <<a>> /\ a.kind = "by_index"
        BY <2>4 DEF QueryAfter
      <3>2. a \in Requests
        BY <1>2, <2>1 DEF FiniteItems, Incoming, Requests
      <3> HIDE DEF a, item, rest
      <3>3. Total(RequestWork, <<a>>) = 3
        BY <3>1, <3>2, TotalOne, AllWorks, RequestWorks
      <3> DEFINE asked == <<a>>
      <3>4. asked \in Seq(Requests)
        BY <3>2
      <3> HIDE DEF asked
      <3>5. requests' = requests \o asked /\ Total(RequestWork, asked) < ItemWork[item]
        BY <2>1, <2>2, <3>1, <3>3 DEF asked
      <3> QED BY <1>4, <2>1, <3>4, <3>5
    <2> QED BY <2>3, <2>4
  <1>7. CASE EndOfList
    <2>1. requests' = requests /\ incoming' = rest
      BY <1>7 DEF EndOfList
    <2> HIDE DEF item, rest
    <2>2. Work' < Work
      BY <1>2, <1>3, <2>1 DEF Work
    <2> QED BY <1>2, <2>1, <2>2
  <1>8. CASE InfoCallback
    <2>1. PICK info \in item.infos :
             incoming' = <<[item EXCEPT !.infos = @ \ {info}]>> \o rest
      BY <1>8 DEF InfoCallback
    <2> DEFINE left == item.infos \ {info}
               x == [item EXCEPT !.infos = left]
    <2>2. requests' = requests /\ item.kind = "infos"
      BY <1>8 DEF InfoCallback, Dispatched
    <2>3. IsFiniteSet(item.infos) /\ item.infos \in SUBSET Infos /\ item.event \in InfoEvents
      BY <1>2, <2>2 DEF FiniteItems, Incoming
    <2>4. /\ IsFiniteSet(left) /\ Cardinality(item.infos) \in Nat
          /\ Cardinality(left) = Cardinality(item.infos) - 1
      BY <2>1, <2>3, FS_RemoveElement, FS_CardinalityType
    <2>5. left \in SUBSET Infos
      BY <2>3
    <2> HIDE DEF left
    <2>6. x = [kind |-> "infos", event |-> item.event, infos |-> left]
      <3>1. item \in [kind : {"infos"}, event : InfoEvents, infos : SUBSET Infos]
        BY <1>2, <2>2 DEF FiniteItems, Incoming
      <3> HIDE DEF item
      <3> QED BY <3>1
    <2>7. x \in FiniteItems /\ x.kind = "infos" /\ x.infos = left
      BY <2>3, <2>4, <2>5, <2>6 DEF FiniteItems, Incoming
    <2>8. incoming' = <<x>> \o rest
      BY <2>1 DEF left
    <2> HIDE DEF x, item, rest
    <2>9. <<x>> \in Seq(FiniteItems)
      BY <2>7
    <2>10. Total(ItemWork, incoming') = Total(ItemWork, <<x>>) + Total(ItemWork, rest)
      BY <1>2, <2>8, <2>9, TotalConcat, AllWorks
    <2>11. Total(ItemWork, <<x>>) = Cardinality(left) + 1
      BY <2>7, TotalOne, ItemWorks, AllWorks
    <2>12. ItemWork[item] = Cardinality(item.infos) + 1
      BY <1>2, <2>2, ItemWorks
    <2>13. Total(ItemWork, incoming') < Total(ItemWork, incoming)
      BY <1>2, <2>4, <2>10, <2>11, <2>12
    <2>14. Total(ItemWork, incoming') \in Nat /\ Total(ItemWork, incoming) \in Nat
      BY <1>2, <2>4, <2>10, <2>11, <2>12
    <2>15. Work' < Work
      BY <1>3, <2>2, <2>13, <2>14 DEF Work
    <2>16. incoming' \in Seq(FiniteItems)
      BY <1>2, <2>8, <2>9
    <2> QED BY <2>15, <2>16
  <1> QED BY <1>5, <1>6, <1>7, <1>8 DEF Callback

\* READY makes 2 * N + 7 answers and callbacks, a change of the server 4.
Backlog == 2 * N + 7 + 4 * spent.changes

RestInv ==
    /\ TypeOK
    /\ incoming \in Seq(FiniteItems)
    /\ ~connected => ~subscribed /\ requests = <<>> /\ incoming = <<>>
    /\ Work \in Nat /\ Work <= Backlog

LEMMA NoWork ==
    ASSUME requests = <<>>, incoming = <<>>
    PROVE  Work = 0 /\ incoming \in Seq(FiniteItems)
  BY TotalEmpty DEF Work

LEMMA BacklogNumber ==
    ASSUME TypeOK
    PROVE  spent.changes \in Nat /\ Backlog \in Nat
  BY NumberOfEndpoints, CollectionAssumption DEF TypeOK, Backlog, CollectionAssumption

LEMMA RestInit == Init => RestInv
  <1> SUFFICES ASSUME Init PROVE RestInv
    OBVIOUS
  <1>1. TypeOK
    BY InventoryInit DEF InventoryInv, MirrorInv
  <1>2. ~subscribed /\ requests = <<>> /\ incoming = <<>>
    BY DEF Init
  <1> QED BY <1>1, <1>2, NoWork, BacklogNumber DEF RestInv

LEMMA RestNext == RestInv /\ TypeOK' /\ [Next]_vars => RestInv'
  <1> SUFFICES ASSUME RestInv, TypeOK', [Next]_vars PROVE RestInv'
    OBVIOUS
  <1>1. /\ TypeOK /\ incoming \in Seq(FiniteItems) /\ requests \in Seq(Requests)
        /\ Work \in Nat /\ Work <= Backlog /\ Backlog \in Nat /\ spent.changes \in Nat
    BY WorkNumbers, BacklogNumber DEF RestInv, TypeOK
  <1>2. CASE Answer \/ Callback \/ RequestTimesOut
    <2>1. incoming' \in Seq(FiniteItems) /\ Work' < Work
      BY <1>1, <1>2, AnswerShrinks, CallbackShrinks, TimeoutShrinks
    <2>2. requests' \in Seq(Requests)
      BY DEF TypeOK
    <2>3. Work' \in Nat
      <3>1. Total(RequestWork, requests') \in Nat
        BY <2>2, TotalConcat, AllWorks
      <3>2. Total(ItemWork, incoming') \in Nat
        BY <2>1, TotalConcat, AllWorks
      <3> QED BY <3>1, <3>2 DEF Work
    <2>4. connected' = connected /\ spent'.changes = spent.changes
      BY <1>1, <1>2 DEF TypeOK, Answer, RequestTimesOut, Callback, ServerInfoCallback,
         SubscribeCallback, InfoCallback, EndOfList
    <2>5. connected
      BY <1>2 DEF RestInv, Answer, RequestTimesOut, Callback, ServerInfoCallback,
         SubscribeCallback, InfoCallback, EndOfList, Dispatched
    <2>6. Backlog' = Backlog
      BY <2>4 DEF Backlog
    <2> QED BY <1>1, <2>1, <2>3, <2>4, <2>5, <2>6 DEF RestInv
  <1>3. CASE ServerStep
    <2>0. PICK e \in Endpoints, change \in {"NEW", "CHANGE", "REMOVE"} :
             \E endpoint : ServerChanges(e, change, endpoint)
      BY <1>3 DEF ServerStep, Plug, Unplug, Adjust
    <2>1. PICK endpoint : ServerChanges(e, change, endpoint)
      BY <2>0
    <2> DEFINE notice == [kind |-> "notice", endpoint |-> e, index |-> endpoint.index,
                          change |-> change]
    <2>2. /\ incoming' = IF subscribed THEN Append(incoming, notice) ELSE incoming
          /\ requests' = requests /\ connected' = connected
          /\ spent' = [spent EXCEPT !.changes = @ + 1]
          /\ server' = [server EXCEPT ![e] = endpoint]
      BY <2>1 DEF ServerChanges, Post
    <2>3. spent'.changes = spent.changes + 1
      BY <1>1, <2>2 DEF TypeOK
    <2>4. Backlog' = Backlog + 4
      BY <1>1, <2>3, NumberOfEndpoints DEF Backlog
    <2>5. CASE ~subscribed
      <3>1. Work' = Work
        BY <2>2, <2>5 DEF Work
      <3>2. subscribed' = subscribed
        BY <2>1 DEF ServerChanges
      <3> QED BY <1>1, <2>2, <2>4, <2>5, <3>1, <3>2 DEF RestInv
    <2>6. CASE subscribed
      <3>1. notice.index \in Nat
        <4>1. server'[e] = endpoint /\ server'[e] \in ServerEndpoint
          BY <1>1, <2>2 DEF TypeOK
        <4> QED BY <4>1 DEF ServerEndpoint
      <3>2. notice \in FiniteItems /\ notice.kind = "notice"
        BY <3>1 DEF FiniteItems, Incoming
      <3> HIDE DEF notice
      <3> DEFINE one == <<notice>>
      <3>3. one \in Seq(FiniteItems) /\ Append(incoming, notice) = incoming \o one
        BY <1>1, <3>2
      <3>4. Total(ItemWork, one) = 4
        BY <3>2, TotalOne, ItemWorks, AllWorks
      <3> HIDE DEF one
      <3>5. incoming' = incoming \o one
        BY <2>2, <2>6, <3>3
      <3>6. Total(ItemWork, incoming') = Total(ItemWork, incoming) + 4
        <4>1. Total(ItemWork, incoming \o one) = Total(ItemWork, incoming) + Total(ItemWork, one)
          BY <1>1, <3>3, TotalConcat, AllWorks
        <4> QED BY <3>4, <3>5, <4>1
      <3>7. Work' = Work + 4
        BY <1>1, <2>2, <3>6, WorkNumbers DEF Work
      <3>8. incoming' \in Seq(FiniteItems)
        BY <1>1, <3>3, <3>5
      <3>9. connected
        BY <2>6 DEF RestInv
      <3> QED BY <1>1, <2>2, <2>4, <3>7, <3>8, <3>9 DEF RestInv
    <2> QED BY <2>5, <2>6
  <1>4. CASE ContextReady
    <2> DEFINE a == [kind |-> "server_info"]
               b == [kind |-> "subscribe"]
    <2>1. /\ requests' = <<a, b>> /\ incoming' = incoming /\ connected' /\ incoming = <<>>
          /\ spent' = spent
      BY <1>4 DEF ContextReady, ReadyRequests, RestInv
    <2>2. a \in Requests /\ a.kind = "server_info" /\ b \in Requests /\ b.kind = "subscribe"
      BY DEF Requests
    <2> HIDE DEF a, b
    <2>3. RequestWork[a] = 2 * N + 6 /\ RequestWork[b] = 1
      BY <2>2, RequestWorks DEF RequestWork
    <2>4. Total(RequestWork, requests') = 2 * N + 7 /\ Total(ItemWork, incoming') = 0
      BY <2>1, <2>2, <2>3, TwoRequests, TotalEmpty, NumberOfEndpoints
    <2>5. Work' = 2 * N + 7 /\ Backlog' = Backlog
      BY <2>1, <2>4, NumberOfEndpoints DEF Work, Backlog
    <2>6. 2 * N + 7 \in Nat /\ 2 * N + 7 <= Backlog
      BY <1>1, NumberOfEndpoints DEF Backlog
    <2> QED BY <1>1, <2>1, <2>5, <2>6 DEF RestInv
  <1>5. CASE ContextLost
    <2>1. ~subscribed' /\ requests' = <<>> /\ incoming' = <<>>
      BY <1>5 DEF ContextLost
    <2>2. Total(RequestWork, requests') = 0 /\ Total(ItemWork, incoming') = 0
      BY <2>1, TotalEmpty
    <2>3. Work' = 0 /\ incoming' \in Seq(FiniteItems)
      BY <2>1, <2>2 DEF Work
    <2>4. Backlog' \in Nat
      <3>1. spent'.changes \in Nat
        BY CollectionAssumption DEF TypeOK, CollectionAssumption
      <3> QED BY <3>1, NumberOfEndpoints DEF Backlog
    <2> QED BY <2>1, <2>3, <2>4 DEF RestInv
  <1>6. CASE Idle \/ UNCHANGED vars
    <2>1. UNCHANGED <<requests, incoming, connected, subscribed, spent>>
      BY <1>6 DEF Idle, vars, link
    <2>2. Work' = Work /\ Backlog' = Backlog
      BY <2>1 DEF Work, Backlog
    <2> QED BY <2>1, <2>2 DEF RestInv
  <1> QED BY <1>2, <1>3, <1>4, <1>5, <1>6 DEF Next

LEMMA RestAlways == Spec => []RestInv
  <1>1. InventoryInv => TypeOK
    BY DEF InventoryInv, MirrorInv
  <1>2. InventoryInv /\ [Next]_vars => TypeOK'
    BY InventoryNext DEF InventoryInv, MirrorInv
  <1> QED BY InventoryInit, InventoryNext, RestInit, RestNext, <1>2, PTL DEF Spec

\* PulseDeviceCollection.cpp:318-428: what is on its way between the server and the
\* callbacks never exceeds what READY and the changes so far have caused, and when
\* none of it is left, nothing is on its way.
THEOREM WorkAlwaysBounded ==
    Spec => [](/\ Work \in Nat /\ Work <= 2 * Cardinality(Endpoints) + 7 + 4 * spent.changes
               /\ Work = 0 <=> requests = <<>> /\ incoming = <<>>)
  <1>1. RestInv => /\ Work \in Nat
                   /\ Work <= 2 * Cardinality(Endpoints) + 7 + 4 * spent.changes
                   /\ Work = 0 <=> requests = <<>> /\ incoming = <<>>
    <2> SUFFICES ASSUME RestInv, requests # <<>> \/ incoming # <<>> PROVE Work # 0
      BY WorkNumbers, NoWork DEF RestInv, TypeOK, Backlog, N
    <2>1. /\ requests \in Seq(Requests) /\ incoming \in Seq(FiniteItems)
          /\ Total(RequestWork, requests) \in Nat /\ Total(ItemWork, incoming) \in Nat
      BY WorkNumbers DEF RestInv, TypeOK
    <2>2. CASE requests # <<>>
      <3>1. /\ Head(requests) \in Requests /\ Total(RequestWork, Tail(requests)) \in Nat
            /\ Total(RequestWork, requests)
                 = RequestWork[Head(requests)] + Total(RequestWork, Tail(requests))
        BY <2>1, <2>2, TotalHeadTail, AllWorks
      <3>2. RequestWork[Head(requests)] \in Nat \ {0}
        BY <3>1, RequestWorks
      <3> QED BY <2>1, <3>1, <3>2 DEF Work
    <2>3. CASE incoming # <<>>
      <3>1. /\ Head(incoming) \in FiniteItems /\ Total(ItemWork, Tail(incoming)) \in Nat
            /\ Total(ItemWork, incoming)
                 = ItemWork[Head(incoming)] + Total(ItemWork, Tail(incoming))
        BY <2>1, <2>3, TotalHeadTail, AllWorks
      <3>2. ItemWork[Head(incoming)] \in Nat \ {0}
        BY <3>1, ItemWorks
      <3> QED BY <2>1, <3>1, <3>2 DEF Work
    <2> QED BY <2>2, <2>3
  <1> QED BY RestAlways, <1>1, PTL

\* PulseDeviceCollection.cpp:240-428: every answer, callback and timeout leaves less
\* to do than before, for any set of endpoints, whatever changes meanwhile: the
\* queries never feed themselves, and without changes they come to an end.
THEOREM WorkAlwaysShrinks == Spec => WorkShrinks
  <1>1. RestInv /\ [Next]_vars =>
          [Answer \/ Callback \/ RequestTimesOut => Work' < Work]_vars
    BY AnswerShrinks, CallbackShrinks, TimeoutShrinks DEF RestInv
  <1> QED BY RestAlways, <1>1, PTL DEF Spec, WorkShrinks

=============================================================================
