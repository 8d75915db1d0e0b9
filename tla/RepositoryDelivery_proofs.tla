---------------------- MODULE RepositoryDelivery_proofs ----------------------
(***************************************************************************)
(* The way from the map to the repository server, for any window, any set  *)
(* of endpoints and any number of faults and restarts.  The process does   *)
(* to its mirror what the mirror's module allows, or starts it anew; what  *)
(* is proved of the mirror therefore holds in the process.  What the       *)
(* repository server does not have yet is in the window, and what is wrong *)
(* in the window is put right behind it.                                   *)
(***************************************************************************)
EXTENDS RepositoryDelivery, DataLemmas

-----------------------------------------------------------------------------
(* Sending a part of the window.                                           *)

\* Replayed unfolded: iter replays the messages whose numbers are in a set.
Replays(map, messages, iter) ==
    iter = [p \in SUBSET DOMAIN messages |->
                IF p = {} THEN map
                ELSE Collection!Replay(iter[p \ {Max(p)}], messages[Max(p)])]

LEMMA ReplayedUnfolded ==
    ASSUME NEW map, NEW messages
    PROVE  Replayed(map, messages)
             = (CHOOSE iter : Replays(map, messages, iter))[DOMAIN messages]
  BY DEF Replayed, FoldLeft, MapThenFoldSet, Replays

LEMMA MaxFacts ==
    ASSUME NEW n \in Nat, NEW p \in SUBSET (1..n), p # {}
    PROVE  Max(p) \in p /\ \A y \in p : Max(p) >= y
  <1>1. \E x \in p : \A y \in p : x >= y
    BY Greatest
  <1> QED BY <1>1, Zenon DEF Max

LEMMA ReplaysExist ==
    ASSUME NEW M, NEW map \in M, NEW S, NEW s \in Seq(S),
           \A m \in M, i \in 1..Len(s) : Collection!Replay(m, s[i]) \in M
    PROVE  \E iter : Replays(map, s, iter)
  <1> DEFINE Prefix(n, g) ==
               \A p \in SUBSET (1..n) :
                  g[p] = IF p = {} THEN map
                         ELSE Collection!Replay(g[p \ {Max(p)}], s[Max(p)])
             Done(n) == n <= Len(s) => \E g \in [SUBSET (1..n) -> M] : Prefix(n, g)
             T == {n \in Nat : Done(n)}
  <1>0. Len(s) \in Nat /\ DOMAIN s = 1..Len(s)
    OBVIOUS
  <1>1. Done(0)
    <2> DEFINE g == [p \in SUBSET (1..0) |-> map]
    <2>1. \A p \in SUBSET (1..0) : p = {}
      OBVIOUS
    <2>2. g \in [SUBSET (1..0) -> M] /\ \A p \in SUBSET (1..0) : g[p] = map
      OBVIOUS
    <2> HIDE DEF g
    <2>3. Prefix(0, g)
      BY <2>1, <2>2
    <2> QED BY <2>2, <2>3
  <1>2. ASSUME NEW n \in Nat, Done(n) PROVE Done(n + 1)
    <2> SUFFICES ASSUME n + 1 <= Len(s)
                 PROVE  \E h \in [SUBSET (1..(n + 1)) -> M] : Prefix(n + 1, h)
      OBVIOUS
    <2>1. PICK g \in [SUBSET (1..n) -> M] : Prefix(n, g)
      <3> HIDE DEF Prefix
      <3>1. n <= Len(s)
        BY <1>0
      <3> QED BY <1>2, <3>1
    <2> DEFINE h == [p \in SUBSET (1..(n + 1)) |->
                       IF n + 1 \in p THEN Collection!Replay(g[p \ {n + 1}], s[n + 1])
                       ELSE g[p]]
    <2>2. ASSUME NEW p \in SUBSET (1..(n + 1))
          PROVE  /\ n + 1 \in p => p \ {n + 1} \in SUBSET (1..n)
                 /\ n + 1 \notin p => p \in SUBSET (1..n)
      OBVIOUS
    <2>3. h \in [SUBSET (1..(n + 1)) -> M]
      BY <1>0, <2>2
    <2>4. ASSUME NEW p \in SUBSET (1..(n + 1))
          PROVE  h[p] = IF p = {} THEN map
                        ELSE Collection!Replay(h[p \ {Max(p)}], s[Max(p)])
      <3>1. CASE p = {}
        BY <2>1, <3>1
      <3>2. CASE n + 1 \in p
        <4>1. Max(p) = n + 1
          <5>1. n + 1 \in Nat /\ p # {}
            BY <3>2
          <5>2. Max(p) \in p /\ \A y \in p : Max(p) >= y
            BY <5>1, MaxFacts
          <5>3. Max(p) >= n + 1 /\ Max(p) \in 1..(n + 1)
            BY <3>2, <5>2
          <5> HIDE DEF h
          <5> QED BY <5>3
        <4>2. h[p \ {n + 1}] = g[p \ {n + 1}]
          BY <2>2, <3>2
        <4> QED BY <3>2, <4>1, <4>2
      <3>3. CASE n + 1 \notin p /\ p # {}
        <4>1. p \in SUBSET (1..n)
          BY <3>3
        <4>2. Max(p) \in p
          BY <3>3, <4>1, MaxFacts
        <4> DEFINE q == p \ {Max(p)}
        <4>3. q \in SUBSET (1..n) /\ n + 1 \notin q
          <5> HIDE DEF h
          <5>1. q \subseteq p /\ n + 1 \notin p
            BY <3>3
          <5> HIDE DEF q
          <5> QED BY <4>1, <5>1
        <4>4. h[q] = g[q] /\ h[p] = g[p]
          BY <3>3, <4>1, <4>3
        <4>5. g[p] = Collection!Replay(g[q], s[Max(p)])
          BY <2>1, <3>3, <4>1
        <4> QED BY <3>3, <4>4, <4>5
      <3> QED BY <3>1, <3>2, <3>3
    <2> HIDE DEF h
    <2>5. Prefix(n + 1, h)
      BY <2>4
    <2> QED BY <2>3, <2>5
  <1>3. Done(Len(s))
    <2> HIDE DEF Done
    <2>1. 0 \in T /\ \A n \in Nat : n \in T => n + 1 \in T
      BY <1>1, <1>2
    <2>2. Nat \subseteq T
      <3> HIDE DEF T
      <3> QED BY <2>1, Induction
    <2> QED BY <1>0, <2>2
  <1>4. PICK g \in [SUBSET (1..Len(s)) -> M] : Prefix(Len(s), g)
    <2> HIDE DEF Prefix
    <2>1. Len(s) <= Len(s)
      BY <1>0
    <2> QED BY <1>3, <2>1
  <1>5. g = [p \in SUBSET (1..Len(s)) |->
               IF p = {} THEN map ELSE Collection!Replay(g[p \ {Max(p)}], s[Max(p)])]
    BY <1>4
  <1> QED BY <1>0, <1>5 DEF Replays

\* What every message of a sequence preserves, the sequence preserves.
LEMMA ReplayedIn ==
    ASSUME NEW M, NEW map \in M, NEW S, NEW s \in Seq(S),
           \A m \in M, i \in 1..Len(s) : Collection!Replay(m, s[i]) \in M
    PROVE  Replayed(map, s) \in M
  <1> DEFINE iter == CHOOSE g : Replays(map, s, g)
             Done(n) == n <= Len(s) => \A p \in SUBSET (1..n) : iter[p] \in M
             T == {n \in Nat : Done(n)}
  <1>0. Len(s) \in Nat /\ DOMAIN s = 1..Len(s)
    OBVIOUS
  <1>1. Replays(map, s, iter)
    BY ReplaysExist
  <1> HIDE DEF iter
  <1>2. ASSUME NEW p \in SUBSET (1..Len(s))
        PROVE  iter[p] = IF p = {} THEN map
                         ELSE Collection!Replay(iter[p \ {Max(p)}], s[Max(p)])
    <2>1. p \in SUBSET DOMAIN s
      BY <1>0
    <2> QED BY <1>1, <2>1 DEF Replays
  <1>3. Done(0)
    <2>1. \A p \in SUBSET (1..0) : p = {} /\ p \in SUBSET (1..Len(s))
      BY <1>0
    <2> QED BY <1>2, <2>1
  <1>4. ASSUME NEW n \in Nat, Done(n) PROVE Done(n + 1)
    <2> SUFFICES ASSUME n + 1 <= Len(s), NEW p \in SUBSET (1..(n + 1)) PROVE iter[p] \in M
      OBVIOUS
    <2>1. p \in SUBSET (1..Len(s)) /\ n <= Len(s)
      BY <1>0
    <2>2. CASE p = {}
      BY <1>2, <2>1, <2>2
    <2>3. CASE p # {}
      <3>1. Max(p) \in p /\ \A y \in p : Max(p) >= y
        <4>1. n + 1 \in Nat
          OBVIOUS
        <4> QED BY <2>3, <4>1, MaxFacts
      <3>2. p \ {Max(p)} \in SUBSET (1..n)
        <4> SUFFICES ASSUME NEW y \in p, y # Max(p) PROVE y \in 1..n
          OBVIOUS
        <4> DEFINE max == Max(p)
        <4>1. max >= y /\ max \in 1..(n + 1) /\ y \in 1..(n + 1) /\ y # max
          BY <3>1
        <4> HIDE DEF max
        <4> QED BY <4>1
      <3>3. iter[p \ {Max(p)}] \in M
        BY <1>4, <2>1, <3>2
      <3>4. Max(p) \in 1..Len(s)
        BY <2>1, <3>1
      <3> QED BY <1>2, <2>1, <2>3, <3>3, <3>4
    <2> QED BY <2>2, <2>3
  <1>5. Done(Len(s))
    <2> HIDE DEF Done
    <2>1. 0 \in T /\ \A n \in Nat : n \in T => n + 1 \in T
      BY <1>3, <1>4
    <2>2. Nat \subseteq T
      <3> HIDE DEF T
      <3> QED BY <2>1, Induction
    <2> QED BY <1>0, <2>2
  <1>6. iter[DOMAIN s] \in M
    BY <1>0, <1>5
  <1> QED BY <1>6, ReplayedUnfolded DEF iter

-----------------------------------------------------------------------------
(* The process and its mirror.                                             *)

LEMMA StepsOfMirror ==
    ASSUME [Next]_vars
    PROVE  [Collection!Next \/ Restart]_(Collection!vars)
  <1> USE DEF vars, collection, delivery, Collection!vars, Collection!link, Collection!mirror
  <1>1. CASE Dispatch
    BY <1>1 DEF Dispatch, Collection!Next
  <1>2. CASE ContextReady \/ ContextLost
    BY <1>2 DEF ContextReady, ContextLost, Collection!Next
  <1>3. CASE ServerMoves
    BY <1>3 DEF ServerMoves, Collection!Next
  <1>4. CASE Publishing \/ Broker \/ Idle \/ UNCHANGED vars
    BY <1>4 DEF Publishing, Send, SendRefused, Broker, Acknowledge, Reject, Resend, Idle
  <1> QED BY <1>1, <1>2, <1>3, <1>4 DEF Next

\* docker-compose.yml's restart apart, the process does to its mirror only what
\* PulseDeviceCollection allows: no window, send or broker reaches into the map.
THEOREM RunsItsMirror ==
    Spec => Collection!Init /\ [][Collection!Next \/ Restart]_(Collection!vars)
  <1>1. Init => Collection!Init
    BY DEF Init
  <1>2. [Next]_vars => [Collection!Next \/ Restart]_(Collection!vars)
    BY StepsOfMirror
  <1> QED BY <1>1, <1>2, PTL DEF Spec

LEMMA EmptyMap == Collection!IsDeviceMap(<<>>)
  <1>1. DOMAIN <<>> = {}
    OBVIOUS
  <1> QED BY <1>1 DEF Collection!IsDeviceMap

\* A new process knows nothing, and its mirror is in order at once.
LEMMA RestartInventory ==
    ASSUME Collection!InventoryInv, Restart
    PROVE  Collection!InventoryInv'
  <1>1. /\ server' = server /\ spent' = spent /\ ~connected' /\ ~subscribed'
        /\ connected' \in BOOLEAN /\ subscribed' \in BOOLEAN
        /\ requests' = <<>> /\ incoming' = <<>>
        /\ devices' = <<>> /\ repository' = <<>> /\ published' = Nothing
    BY DEF Restart
  <1>2. Nothing \in Collection!Messages
    BY DEF Nothing, Collection!Nothing, Collection!Messages
  <1>3. Collection!TypeOK'
    BY <1>1, <1>2, EmptyMap
       DEF Collection!InventoryInv, Collection!MirrorInv, Collection!TypeOK
  <1>4. Collection!RepositoryMatches' /\ Collection!StartShape'
    BY <1>1 DEF Collection!RepositoryMatches, Collection!StartShape
  <1> QED BY <1>1, <1>3, <1>4 DEF Collection!InventoryInv, Collection!MirrorInv

LEMMA MirrorKept ==
    ASSUME Collection!InventoryInv, [Next]_vars
    PROVE  Collection!InventoryInv'
  <1>1. ASSUME [Collection!Next]_(Collection!vars)
        PROVE  Collection!InventoryInv'
    BY <1>1, DeliveryAssumption, Collection!InventoryNext
       DEF DeliveryAssumption, Collection!CollectionAssumption
  <1> QED BY <1>1, StepsOfMirror, RestartInventory

LEMMA MirrorAlways == Spec => []Collection!InventoryInv
  <1>1. Init => Collection!InventoryInv
    BY DeliveryAssumption, Collection!InventoryInit
       DEF Init, DeliveryAssumption, Collection!CollectionAssumption
  <1> QED BY <1>1, MirrorKept, PTL DEF Spec

\* What is proved of the mirror holds in the process, however long the window
\* blocks the main thread and however often the process is started again.
THEOREM MirrorAlwaysCompleteInProcess ==
    Spec => [](Collection!RepositoryMatches /\ Collection!InventoryComplete
               /\ Collection!RenderMirrored)
  <1>1. Collection!InventoryInv => Collection!RepositoryMatches
    BY DEF Collection!InventoryInv, Collection!MirrorInv
  <1>2. Collection!InventoryInv => Collection!InventoryComplete /\ Collection!RenderMirrored
    <2> SUFFICES ASSUME Collection!InventoryInv
                 PROVE  Collection!InventoryComplete /\ Collection!RenderMirrored
      OBVIOUS
    <2>1. ASSUME NEW e \in Endpoints,
                 Collection!Quiet, spent.timeouts = 0, server[e].present
          PROVE  Collection!Known(e) /\ (Collection!Sink(e) => Collection!Right(e))
      BY <2>1, DeliveryAssumption, Collection!QuietIsKnown
         DEF DeliveryAssumption, Collection!CollectionAssumption
    <2> QED BY <2>1 DEF Collection!InventoryComplete, Collection!RenderMirrored,
                        Collection!Known, Collection!Sink, Collection!Right
  <1> QED BY MirrorAlways, <1>1, <1>2, PTL

-----------------------------------------------------------------------------
(* Types.                                                                  *)

Messages == Collection!Messages

\* The messages that wait in the window.
Waiting == Messages \ {Nothing}

DeviceMaps ==
    UNION {[known -> Collection!Devices(Collection!Names)] : known \in SUBSET Collection!PnpIds}

LEMMA DeviceMapsAreMaps ==
    ASSUME NEW map
    PROVE  map \in DeviceMaps <=> Collection!IsDeviceMap(map)
  BY DEF DeviceMaps, Collection!IsDeviceMap

LEMMA MessageWrites ==
    ASSUME NEW map, Collection!IsDeviceMap(map), NEW message \in Messages
    PROVE  /\ Collection!IsDeviceMap(Collection!Replay(map, message))
           /\ DOMAIN map \subseteq DOMAIN Collection!Replay(map, message)
           /\ \A p \in Collection!PnpIds, x \in Collection!Parts :
                /\ /\ Collection!Writes(message, p, x)
                   /\ message.method = "POST" \/ p \in DOMAIN map
                   => /\ p \in DOMAIN Collection!Replay(map, message)
                      /\ Collection!Replay(map, message)[p][x] = Collection!Carried(message, x)
                /\ ~Collection!Writes(message, p, x) /\ p \in DOMAIN map =>
                     Collection!Replay(map, message)[p][x] = map[p][x]
  BY DeliveryAssumption, Collection!ReplayWrites
     DEF Messages, DeliveryAssumption, Collection!CollectionAssumption

\* The first messages of the window.
LEMMA WindowPrefix ==
    ASSUME window \in Seq(Waiting), NEW n \in 0..Len(window)
    PROVE  /\ SubSeq(window, 1, n) \in Seq(Waiting)
           /\ \A i \in 1..Len(SubSeq(window, 1, n)) :
                 SubSeq(window, 1, n)[i] \in Items(window)
  <1>1. SubSeq(window, 1, n) \in Seq(Waiting) /\ Len(SubSeq(window, 1, n)) = n
    OBVIOUS
  <1>2. \A i \in 1..n : SubSeq(window, 1, n)[i] = window[i]
    OBVIOUS
  <1> QED BY <1>1, <1>2 DEF Items

LEMMA WindowReplayed ==
    ASSUME TypeOK, NEW n \in 0..Len(window)
    PROVE  Collection!IsDeviceMap(Replayed(delivered, SubSeq(window, 1, n)))
  <1> DEFINE s == SubSeq(window, 1, n)
  <1>1. s \in Seq(Waiting)
    BY WindowPrefix DEF TypeOK, Waiting, Messages
  <1>2. delivered \in DeviceMaps
    BY DeviceMapsAreMaps DEF TypeOK
  <1> HIDE DEF s
  <1>3. ASSUME NEW m \in DeviceMaps, NEW i \in 1..Len(s)
        PROVE  Collection!Replay(m, s[i]) \in DeviceMaps
    <2>1. s[i] \in Messages
      BY <1>1 DEF Waiting
    <2> QED BY <2>1, DeviceMapsAreMaps, MessageWrites
  <1> QED BY <1>1, <1>2, <1>3, ReplayedIn, DeviceMapsAreMaps DEF s

\* The acknowledgement of the oldest message.
LEMMA WindowHead ==
    ASSUME window \in Seq(Waiting), window # <<>>
    PROVE  /\ Head(window) \in Waiting /\ Tail(window) \in Seq(Waiting)
           /\ Len(Tail(window)) = Len(window) - 1
  BY ItemsHeadTail

LEMMA TypesNext ==
    ASSUME TypeOK, Collection!TypeOK', [Next]_vars
    PROVE  TypeOK'
  <1> USE DEF TypeOK
  <1>0. /\ window \in Seq(Waiting) /\ MaxUnconfirmed \in Nat /\ MaxFaults \in Nat
        /\ Len(window) \in Nat /\ loss \subseteq {"start", "ready"} /\ faults \in 0..MaxFaults
    BY DeliveryAssumption DEF DeliveryAssumption, Waiting, Messages
  <1>1. CASE Dispatch
    BY <1>1 DEF Dispatch, Collection!TypeOK
  <1>2. CASE ContextReady \/ ContextLost \/ ServerMoves \/ Idle \/ UNCHANGED vars
    BY <1>2 DEF ContextReady, ContextLost, ServerMoves, Idle, vars, delivery
  <1>3. ASSUME window' \in Seq(Waiting), Len(window') <= Len(window),
               sending' \in {sending, Nothing}, Collection!IsDeviceMap(delivered'),
               loss' \subseteq {"start", "ready"}, faults' \in 0..MaxFaults
        PROVE  TypeOK'
    <2>1. Nothing \in Messages
      BY DEF Nothing, Collection!Nothing, Collection!Messages, Messages
    <2>2. Len(window') <= MaxUnconfirmed
      BY <1>0, <1>3
    <2> QED BY <1>3, <2>1, <2>2 DEF Waiting, Messages
  <1>4. CASE Send
    <2>1. sending \in Waiting /\ window' = Append(window, sending)
      BY <1>4 DEF Send, Waiting, Messages
    <2>2. window' \in Seq(Waiting) /\ Len(window') = Len(window) + 1
      BY <1>0, <2>1
    <2>3. Len(window') <= MaxUnconfirmed
      BY <1>0, <1>4, <2>2 DEF Send
    <2>4. Nothing \in Messages
      BY DEF Nothing, Collection!Nothing, Collection!Messages, Messages
    <2> QED BY <1>4, <2>2, <2>3, <2>4 DEF Send, Waiting, Messages
  <1>5. CASE SendRefused
    BY <1>0, <1>3, <1>5 DEF SendRefused, Fault, Lost
  <1>6. CASE Acknowledge
    <2>1. window' \in Seq(Waiting) /\ Len(window') <= Len(window) /\ Head(window) \in Messages
      BY <1>0, <1>6, WindowHead DEF Acknowledge, Waiting
    <2>2. Collection!IsDeviceMap(delivered')
      BY <1>6, <2>1, MessageWrites DEF Acknowledge
    <2> QED BY <1>0, <1>3, <1>6, <2>1, <2>2 DEF Acknowledge
  <1>7. CASE Reject
    <2>1. window' \in Seq(Waiting) /\ Len(window') <= Len(window)
      BY <1>0, <1>7, WindowHead DEF Reject
    <2> QED BY <1>0, <1>3, <1>7, <2>1 DEF Reject, Fault, Lost
  <1>8. CASE Resend
    <2>1. PICK n \in 1..Len(window) : delivered' = Replayed(delivered, SubSeq(window, 1, n))
      BY <1>8 DEF Resend
    <2>2. n \in 0..Len(window)
      BY <1>0
    <2>3. Collection!IsDeviceMap(delivered')
      BY <2>1, <2>2, WindowReplayed
    <2> QED BY <1>0, <1>3, <1>8, <2>3 DEF Resend, Fault
  <1>9. CASE Restart
    <2>1. Collection!IsDeviceMap(delivered')
      BY <1>9, WindowReplayed DEF Restart
    <2>2. window' = <<>> /\ sending' = Nothing /\ loss' = {} /\ faults' = faults + 1
          /\ faults < MaxFaults
      BY <1>9 DEF Restart, Fault
    <2> QED BY <1>0, <1>3, <2>1, <2>2
  <1> QED BY <1>1, <1>2, <1>4, <1>5, <1>6, <1>7, <1>8, <1>9
          DEF Next, Publishing, Broker

-----------------------------------------------------------------------------
(* What is on its way to the repository server.                            *)

pending == IF sending = Nothing THEN window ELSE Append(window, sending)

\* The messages that bring the part x of the device of p as the map has it, and
\* those that bring something else.
Confirming(p, x) ==
    {m \in Messages : Collection!Writes(m, p, x) /\ Collection!Carried(m, x) = devices[p][x]}

Contradicting(p, x) ==
    {m \in Messages : Collection!Writes(m, p, x) /\ Collection!Carried(m, x) # devices[p][x]}

Has(p, x) == p \in DOMAIN delivered /\ delivered[p][x] = devices[p][x]

PartTold(p, x) ==
    /\ Superseded(Contradicting(p, x), Confirming(p, x), pending)
    /\ Has(p, x) \/ \E m \in Items(pending) : m \in Confirming(p, x)

\* When all that is pending has been delivered, the repository server has the
\* device of p as it is in the map.
Told(p) == \A x \in Collection!Parts : PartTold(p, x)

LEMMA PendingType ==
    ASSUME TypeOK
    PROVE  /\ window \in Seq(Waiting) /\ pending \in Seq(Waiting)
           /\ Items(window) \subseteq Items(pending)
  <1>1. window \in Seq(Waiting)
    BY DEF TypeOK, Waiting, Messages
  <1>2. CASE sending = Nothing
    BY <1>1, <1>2 DEF pending
  <1>3. CASE sending # Nothing
    <2>1. sending \in Waiting /\ pending = Append(window, sending)
      BY <1>3 DEF TypeOK, Waiting, Messages, pending
    <2>2. Items(pending) = Items(window) \cup {sending}
      BY <1>1, <2>1, ItemsAppend
    <2> QED BY <1>1, <2>1, <2>2
  <1> QED BY <1>2, <1>3

LEMMA ToldUnchanged ==
    ASSUME NEW p, Told(p), UNCHANGED <<devices, delivered, pending>>
    PROVE  Told(p)'
  BY DEF Told, PartTold, Has, Confirming, Contradicting

LEMMA SendTold ==
    ASSUME NEW p, Told(p), Send
    PROVE  Told(p)'
  <1>1. pending' = pending /\ UNCHANGED <<devices, delivered>>
    BY DEF Send, pending, collection
  <1> QED BY <1>1, ToldUnchanged

\* The window's head reaches the repository server.
LEMMA AcknowledgeTold ==
    ASSUME TypeOK, NEW p \in Collection!PnpIds, Told(p), Acknowledge
    PROVE  Told(p)'
  <1> DEFINE head == Head(window)
  <1>1. /\ window # <<>> /\ window' = Tail(window) /\ sending' = sending
        /\ delivered' = Collection!Replay(delivered, head)
        /\ devices' = devices /\ Collection!IsDeviceMap(delivered)
    BY DEF Acknowledge, collection, TypeOK
  <1>2. /\ pending \in Seq(Waiting) /\ pending # <<>>
        /\ head = Head(pending) /\ pending' = Tail(pending)
    <2>1. CASE sending = Nothing
      BY <1>1, <2>1, PendingType DEF pending
    <2>2. CASE sending # Nothing
      <3>1. sending \in Waiting /\ window \in Seq(Waiting)
        BY <2>2, PendingType DEF TypeOK, Waiting, Messages
      <3>2. /\ Append(window, sending) # <<>> /\ Head(Append(window, sending)) = Head(window)
            /\ Tail(Append(window, sending)) = Append(Tail(window), sending)
        BY <1>1, <3>1, TailAppend
      <3> QED BY <1>1, <2>2, <3>2, PendingType DEF pending
    <2> QED BY <2>1, <2>2
  <1> HIDE DEF head
  <1>3. Items(pending) = {head} \cup Items(pending') /\ head \in Messages
    BY <1>2, ItemsHeadTail DEF Waiting
  <1> SUFFICES ASSUME NEW x \in Collection!Parts PROVE PartTold(p, x)'
    BY DEF Told
  <1> DEFINE right == Confirming(p, x)
             wrong == Contradicting(p, x)
  <1>4. PartTold(p, x) /\ PartTold(p, "name") /\ "name" \in Collection!Parts
    BY DEF Told, Collection!Parts
  <1>5. Superseded(wrong, right, pending) /\ Superseded(wrong, right, pending')
    BY <1>2, <1>4, SupersededTail DEF PartTold
  <1>6. right' = right /\ wrong' = wrong
    BY <1>1 DEF Confirming, Contradicting
  <1>7. ASSUME NEW m \in Items(pending'), Collection!Writes(m, p, x)
        PROVE  \E other \in Items(pending') : other \in right
    <2>1. m \in Messages /\ pending' \in Seq(Waiting)
      BY <1>2, ItemsHeadTail DEF Items, Waiting
    <2>2. m \in right \/ m \in wrong
      BY <1>7, <2>1 DEF Confirming, Contradicting
    <2> HIDE DEF right, wrong
    <2> QED BY <1>5, <2>1, <2>2, SupersededItem
  <1>8. CASE \E m \in Items(pending') : m \in right
    BY <1>5, <1>6, <1>8 DEF PartTold
  <1>9. CASE ~(\E m \in Items(pending') : m \in right)
    <2>1. Has(p, x) \/ head \in right
      BY <1>3, <1>4, <1>9 DEF PartTold
    <2>2. head \notin wrong
      <3> HIDE DEF right, wrong
      <3> QED BY <1>2, <1>5, <1>9, SupersededHead
    <2>3. CASE ~Collection!Writes(head, p, x)
      <3>1. Has(p, x)
        BY <2>1, <2>3 DEF Confirming
      <3>2. /\ p \in DOMAIN delivered' /\ delivered'[p][x] = delivered[p][x]
        BY <1>1, <1>3, <2>3, <3>1, MessageWrites DEF Has
      <3>3. Has(p, x)'
        BY <1>1, <3>1, <3>2 DEF Has
      <3> QED BY <1>5, <1>6, <3>3 DEF PartTold
    <2>4. CASE Collection!Writes(head, p, x)
      <3>1. Collection!Carried(head, x) = devices[p][x]
        BY <1>3, <2>2, <2>4 DEF Contradicting
      <3>2. head.method = "POST" \/ p \in DOMAIN delivered
        <4> SUFFICES ASSUME head.method # "POST", p \notin DOMAIN delivered PROVE FALSE
          OBVIOUS
        <4>1. PICK m \in Items(pending) : m \in Confirming(p, "name")
          BY <1>4 DEF PartTold, Has
        <4>2. m.method = "POST" /\ m.pnpId = p
          BY <4>1 DEF Confirming, Collection!Writes, Collection!VolumePut
        <4>3. m \in Items(pending')
          BY <1>3, <4>2
        <4>4. Collection!Writes(m, p, x)
          BY <4>2 DEF Collection!Writes
        <4> QED BY <1>7, <1>9, <4>3, <4>4
      <3>3. p \in DOMAIN delivered' /\ delivered'[p][x] = Collection!Carried(head, x)
        BY <1>1, <1>3, <2>4, <3>2, MessageWrites
      <3>4. Has(p, x)'
        BY <1>1, <3>1, <3>3 DEF Has
      <3> QED BY <1>5, <1>6, <3>4 DEF PartTold
    <2> QED BY <2>3, <2>4
  <1> QED BY <1>8, <1>9

\* Sending some of the window again does no harm: either it brings what is right,
\* and will again, or it does not touch the part at all.
LEMMA ResendTold ==
    ASSUME TypeOK, NEW p \in Collection!PnpIds, Told(p), Resend
    PROVE  Told(p)'
  <1>1. PICK n \in 1..Len(window) : delivered' = Replayed(delivered, SubSeq(window, 1, n))
    BY DEF Resend
  <1>2. UNCHANGED <<devices, pending>>
    BY DEF Resend, collection, pending
  <1> SUFFICES ASSUME NEW x \in Collection!Parts PROVE PartTold(p, x)'
    BY DEF Told
  <1> DEFINE right == Confirming(p, x)
             wrong == Contradicting(p, x)
  <1>3. right' = right /\ wrong' = wrong /\ PartTold(p, x)
    BY <1>2 DEF Told, Confirming, Contradicting
  <1>4. CASE \E m \in Items(pending) : m \in right
    BY <1>2, <1>3, <1>4 DEF PartTold
  <1>5. CASE ~(\E m \in Items(pending) : m \in right)
    <2> DEFINE M == {map \in DeviceMaps : p \in DOMAIN map /\ map[p][x] = devices[p][x]}
               s == SubSeq(window, 1, n)
    <2>1. delivered \in M
      BY <1>3, <1>5, DeviceMapsAreMaps DEF PartTold, Has, TypeOK
    <2>2. s \in Seq(Waiting) /\ \A i \in 1..Len(s) : s[i] \in Items(pending)
      <3>1. n \in 0..Len(window)
        BY PendingType
      <3>2. s \in Seq(Waiting) /\ \A i \in 1..Len(s) : s[i] \in Items(window)
        BY <3>1, PendingType, WindowPrefix
      <3> QED BY <3>2, PendingType
    <2> HIDE DEF s
    <2>3. ASSUME NEW m \in M, NEW i \in 1..Len(s)
          PROVE  Collection!Replay(m, s[i]) \in M
      <3>1. s[i] \in Items(pending) /\ s[i] \in Messages
        BY <2>2 DEF Waiting
      <3>2. ~Collection!Writes(s[i], p, x)
        <4>1. s[i] \notin wrong
          <5> HIDE DEF right, wrong
          <5>1. Superseded(wrong, right, pending)
            BY <1>3 DEF PartTold, right, wrong
          <5> QED BY <1>5, <3>1, <5>1, SupersededItem, PendingType
        <4> QED BY <1>5, <3>1, <4>1 DEF Confirming, Contradicting
      <3> QED BY <3>1, <3>2, MessageWrites, DeviceMapsAreMaps
    <2>4. Replayed(delivered, s) \in M
      <3> HIDE DEF M
      <3> QED BY <2>1, <2>2, <2>3, ReplayedIn
    <2>5. Has(p, x)'
      BY <1>1, <1>2, <2>4 DEF Has, s
    <2> QED BY <1>2, <1>3, <2>5 DEF PartTold
  <1> QED BY <1>4, <1>5

\* A callback's message tells what the callback has changed.
LEMMA DispatchTold ==
    ASSUME TypeOK, Collection!MirrorInv, Collection!MirrorInv', Dispatch,
           NEW p \in DOMAIN devices',
           \/ p \in DOMAIN devices /\ Told(p)
           \/ published'.method = "POST" /\ published'.pnpId = p
    PROVE  Told(p)'
  <1>1. /\ sending = Nothing /\ sending' = published' /\ Collection!Callback
        /\ UNCHANGED <<window, delivered>>
    BY DEF Dispatch
  <1>2. published' \in Messages
    BY DEF Collection!MirrorInv, Collection!TypeOK, Messages
  <1>3. window \in Seq(Waiting) /\ pending = window
    BY <1>1, PendingType DEF pending
  <1>4. pending' = IF published' = Nothing THEN window ELSE Append(window, published')
    BY <1>1 DEF pending
  <1> SUFFICES ASSUME NEW x \in Collection!Parts PROVE PartTold(p, x)'
    BY DEF Told
  <1>5. \/ /\ Collection!Writes(published', p, x)
           /\ Collection!Carried(published', x) = devices'[p][x]
        \/ /\ ~Collection!Writes(published', p, x)
           /\ p \in DOMAIN devices /\ devices'[p][x] = devices[p][x]
    BY <1>1, DeliveryAssumption, Collection!PublishedWrites
       DEF DeliveryAssumption, Collection!CollectionAssumption
  <1> DEFINE right == Confirming(p, x)'
             wrong == Contradicting(p, x)'
  <1>6. CASE /\ Collection!Writes(published', p, x)
             /\ Collection!Carried(published', x) = devices'[p][x]
    <2>1. published' # Nothing
      BY <1>6 DEF Collection!Writes, Nothing, Collection!Nothing
    <2>2. published' \in Waiting /\ published' \in right /\ published' \notin wrong
      BY <1>2, <1>6, <2>1 DEF Confirming, Contradicting, Waiting
    <2>3. pending' = Append(window, published')
      BY <1>4, <2>1
    <2> HIDE DEF right, wrong
    <2>4. Superseded(wrong, right, pending')
      BY <1>3, <2>2, <2>3, SupersededAppend
    <2>5. published' \in Items(pending')
      BY <1>3, <2>2, <2>3, ItemsAppend
    <2> QED BY <2>2, <2>4, <2>5 DEF PartTold, right, wrong
  <1>7. CASE /\ ~Collection!Writes(published', p, x)
             /\ p \in DOMAIN devices /\ devices'[p][x] = devices[p][x]
    <2>1. ~(published'.method = "POST" /\ published'.pnpId = p)
      BY <1>7 DEF Collection!Writes
    <2>2. PartTold(p, x)
      BY <2>1 DEF Told
    <2>3. right = Confirming(p, x) /\ wrong = Contradicting(p, x)
      BY <1>7 DEF Confirming, Contradicting
    <2>4. Has(p, x)' <=> Has(p, x)
      BY <1>1, <1>7 DEF Has
    <2>5. published' \notin wrong
      BY <1>7 DEF Contradicting
    <2> HIDE DEF right, wrong
    <2>6. Superseded(wrong, right, window)
      BY <1>3, <2>2, <2>3 DEF PartTold
    <2>7. Superseded(wrong, right, pending') /\ Items(pending) \subseteq Items(pending')
      <3>1. CASE published' = Nothing
        BY <1>3, <1>4, <2>6, <3>1
      <3>2. CASE published' # Nothing
        <4>1. published' \in Waiting /\ pending' = Append(window, published')
          BY <1>2, <1>4, <3>2 DEF Waiting
        <4>2. Superseded(wrong, right, pending')
          BY <1>3, <2>5, <2>6, <4>1, SupersededAppend
        <4>3. Items(pending) \subseteq Items(pending')
          BY <1>3, <4>1, ItemsAppend
        <4> QED BY <4>2, <4>3
      <3> QED BY <3>1, <3>2
    <2> QED BY <2>2, <2>3, <2>4, <2>7 DEF PartTold, right, wrong
  <1> QED BY <1>5, <1>6, <1>7

-----------------------------------------------------------------------------
(* The invariant.                                                          *)

StartTold == "start" \notin loss => \A p \in DOMAIN devices : Told(p)

\* Since READY nothing was lost: an endpoint is still to be confirmed or
\* discovered by this connection, or its device is told.
ReadyTold ==
    connected /\ spent.timeouts = 0 /\ "ready" \notin loss =>
        \A e \in Endpoints :
            \/ Collection!Awaited(e)
            \/ PnpIdOf[e] \in DOMAIN devices /\ Told(PnpIdOf[e])

DeliveryInv == TypeOK /\ Collection!InventoryInv /\ StartTold /\ ReadyTold

LEMMA DeliveryInit == Init => DeliveryInv
  <1> SUFFICES ASSUME Init PROVE DeliveryInv
    OBVIOUS
  <1>1. Collection!InventoryInv
    BY DeliveryAssumption, Collection!InventoryInit
       DEF Init, DeliveryAssumption, Collection!CollectionAssumption
  <1>2. ~connected /\ devices = <<>>
    BY DEF Init, Collection!Init
  <1>3. TypeOK
    <2>1. Nothing \in Messages
      BY DEF Nothing, Collection!Nothing, Collection!Messages, Messages
    <2>2. <<>> \in Seq(Waiting) /\ Len(<<>>) = 0
      OBVIOUS
    <2>3. Collection!TypeOK
      BY <1>1 DEF Collection!InventoryInv, Collection!MirrorInv
    <2> QED BY <2>1, <2>2, <2>3, EmptyMap, DeliveryAssumption
            DEF Init, TypeOK, DeliveryAssumption, Waiting, Messages
  <1>4. DOMAIN devices = {}
    BY <1>2
  <1> QED BY <1>1, <1>2, <1>3, <1>4 DEF DeliveryInv, StartTold, ReadyTold

\* The steps that lose nothing and leave the mirror as it is.
LEMMA MirrorStill ==
    ASSUME DeliveryInv, UNCHANGED collection, UNCHANGED loss,
           \A p \in Collection!PnpIds : Told(p) => Told(p)'
    PROVE  StartTold' /\ ReadyTold'
  <1>1. UNCHANGED <<devices, connected, spent>>
        /\ \A e \in Endpoints : Collection!Awaited(e)' <=> Collection!Awaited(e)
    BY DEF collection, Collection!Awaited, Collection!Coming
  <1>2. DOMAIN devices \subseteq Collection!PnpIds
    BY DEF DeliveryInv, TypeOK, Collection!TypeOK, Collection!IsDeviceMap
  <1> QED BY <1>1, <1>2 DEF DeliveryInv, StartTold, ReadyTold

\* What a step of the mirror leaves of an endpoint.
LEMMA AwaitedNext ==
    ASSUME Collection!InventoryInv, Collection!Next,
           connected', spent'.timeouts = 0, NEW e \in Endpoints
    PROVE  \/ Collection!Awaited(e)' \/ Collection!Posted(e)'
           \/ connected /\ spent.timeouts = 0 /\ ~Collection!Awaited(e)
  BY DeliveryAssumption, Collection!FollowedNext
     DEF DeliveryAssumption, Collection!CollectionAssumption

\* The steps of PulseAudio and of its server.
LEMMA MirrorMoves ==
    ASSUME DeliveryInv, UNCHANGED delivery,
           Collection!Next, devices' = devices, published' = Nothing
    PROVE  StartTold' /\ ReadyTold'
  <1>1. \A p : Told(p) => Told(p)'
    BY ToldUnchanged DEF delivery, pending
  <1>2. StartTold'
    BY <1>1 DEF DeliveryInv, StartTold, delivery
  <1>3. \A e \in Endpoints : ~Collection!Posted(e)'
    BY DEF Collection!Posted, Nothing, Collection!Nothing
  <1>4. ReadyTold'
    <2> SUFFICES ASSUME connected', spent'.timeouts = 0, "ready" \notin loss',
                        NEW e \in Endpoints, ~Collection!Awaited(e)'
                 PROVE  PnpIdOf[e] \in DOMAIN devices' /\ Told(PnpIdOf[e])'
      BY DEF ReadyTold
    <2>1. connected /\ spent.timeouts = 0 /\ ~Collection!Awaited(e)
      BY <1>3, AwaitedNext DEF DeliveryInv
    <2> QED BY <1>1, <2>1 DEF DeliveryInv, ReadyTold, delivery
  <1> QED BY <1>2, <1>4

LEMMA DispatchTells ==
    ASSUME DeliveryInv, Collection!InventoryInv', Dispatch
    PROVE  StartTold' /\ ReadyTold'
  <1>1. Collection!MirrorInv /\ Collection!MirrorInv' /\ TypeOK /\ loss' = loss
    BY DEF DeliveryInv, Collection!InventoryInv, Dispatch
  <1>2. DOMAIN devices \subseteq DOMAIN devices'
    <2>1. Collection!Next
      BY DEF Dispatch, Collection!Next
    <2>2. Collection!MirrorStep \/ UNCHANGED Collection!vars
      BY <1>1, <2>1, DeliveryAssumption, Collection!MirrorNext
         DEF DeliveryAssumption, Collection!CollectionAssumption
    <2> QED BY <2>2 DEF Collection!MirrorStep, Collection!FlowsKept, Collection!vars,
                        Collection!mirror
  <1>3. ASSUME NEW p \in DOMAIN devices', p \notin DOMAIN devices
        PROVE  published'.method = "POST" /\ published'.pnpId = p
    <2>1. "name" \in Collection!Parts /\ Collection!Callback
      BY DEF Collection!Parts, Dispatch
    <2>2. Collection!Writes(published', p, "name")
      BY <1>1, <1>3, <2>1, DeliveryAssumption, Collection!PublishedWrites
         DEF DeliveryAssumption, Collection!CollectionAssumption
    <2> QED BY <2>2 DEF Collection!Writes, Collection!VolumePut
  <1>4. StartTold'
    BY <1>1, <1>3, DispatchTold DEF DeliveryInv, StartTold
  <1>5. ReadyTold'
    <2> SUFFICES ASSUME connected', spent'.timeouts = 0, "ready" \notin loss',
                        NEW e \in Endpoints, ~Collection!Awaited(e)'
                 PROVE  PnpIdOf[e] \in DOMAIN devices' /\ Told(PnpIdOf[e])'
      BY DEF ReadyTold
    <2>1. Collection!Next
      BY DEF Dispatch, Collection!Next
    <2>2. CASE Collection!Posted(e)'
      <3>1. /\ PnpIdOf[e] \in DOMAIN devices'
            /\ published'.method = "POST" /\ published'.pnpId = PnpIdOf[e]
        BY <2>2 DEF Collection!Posted
      <3> QED BY <1>1, <3>1, DispatchTold
    <2>3. CASE connected /\ spent.timeouts = 0 /\ ~Collection!Awaited(e)
      <3>1. PnpIdOf[e] \in DOMAIN devices /\ Told(PnpIdOf[e])
        BY <1>1, <2>3 DEF DeliveryInv, ReadyTold
      <3> QED BY <1>1, <1>2, <3>1, DispatchTold
    <2> QED BY <2>1, <2>2, <2>3, AwaitedNext DEF DeliveryInv
  <1> QED BY <1>4, <1>5

LEMMA DeliveryNext == DeliveryInv /\ [Next]_vars => DeliveryInv'
  <1> SUFFICES ASSUME DeliveryInv, [Next]_vars PROVE DeliveryInv'
    OBVIOUS
  <1>1. Collection!InventoryInv'
    BY MirrorKept DEF DeliveryInv
  <1>2. TypeOK'
    BY <1>1, TypesNext DEF DeliveryInv, Collection!InventoryInv, Collection!MirrorInv
  <1> SUFFICES StartTold' /\ ReadyTold'
    BY <1>1, <1>2 DEF DeliveryInv
  <1>3. CASE Dispatch
    BY <1>1, <1>3, DispatchTells
  <1>4. CASE ContextReady
    <2>1. /\ ~connected /\ devices' = devices /\ loss' = loss \ {"ready"}
          /\ UNCHANGED <<sending, window, delivered>> /\ Collection!Next
      BY <1>4 DEF ContextReady, Collection!ContextReady, Collection!Next
    <2>2. \A p : Told(p) => Told(p)'
      BY <2>1, ToldUnchanged DEF pending
    <2>3. StartTold'
      BY <2>1, <2>2 DEF DeliveryInv, StartTold
    <2>4. \A e \in Endpoints : ~Collection!Posted(e)'
      BY <1>4 DEF ContextReady, Collection!ContextReady, Collection!Posted, Collection!Nothing
    <2>5. ReadyTold'
      BY <2>1, <2>4, AwaitedNext DEF DeliveryInv, ReadyTold
    <2> QED BY <2>3, <2>5
  <1>5. CASE ContextLost
    <2>1. /\ devices' = devices /\ published' = Nothing /\ UNCHANGED delivery /\ Collection!Next
      BY <1>5 DEF ContextLost, Collection!ContextLost, Collection!Next, Nothing
    <2> QED BY <2>1, MirrorMoves
  <1>6. CASE ServerMoves
    <2>1. /\ devices' = devices /\ published' = Nothing /\ UNCHANGED delivery /\ Collection!Next
      BY <1>6 DEF ServerMoves, Collection!ServerStep, Collection!Plug, Collection!Unplug,
         Collection!Adjust, Collection!ServerChanges, Collection!Answer,
         Collection!RequestTimesOut, Collection!Next, Nothing
    <2> QED BY <2>1, MirrorMoves
  <1>7. CASE Send
    BY <1>7, SendTold, MirrorStill DEF Send
  <1>8. CASE Acknowledge
    BY <1>8, AcknowledgeTold, MirrorStill DEF Acknowledge, DeliveryInv
  <1>9. CASE Resend
    BY <1>9, ResendTold, MirrorStill DEF Resend, DeliveryInv
  <1>10. CASE SendRefused \/ Reject
    BY <1>10 DEF SendRefused, Reject, Lost, StartTold, ReadyTold
  <1>11. CASE Restart
    <2>1. ~connected' /\ DOMAIN devices' = {}
      BY <1>11 DEF Restart
    <2> QED BY <2>1 DEF StartTold, ReadyTold
  <1>12. CASE Idle \/ UNCHANGED vars
    <2>1. UNCHANGED <<collection, loss, devices, delivered, pending>>
      BY <1>12 DEF Idle, vars, collection, delivery, pending
    <2> QED BY <2>1, ToldUnchanged, MirrorStill
  <1> QED BY <1>3, <1>4, <1>5, <1>6, <1>7, <1>8, <1>9, <1>10, <1>11, <1>12
          DEF Next, Publishing, Broker

LEMMA DeliveryAlways == Spec => []DeliveryInv
  BY DeliveryInit, DeliveryNext, PTL DEF Spec

\* With nothing pending, what is told is what the repository server has.
LEMMA SettledHas ==
    ASSUME DeliveryInv, Settled, NEW p \in DOMAIN devices, Told(p)
    PROVE  p \in DOMAIN delivered /\ delivered[p] = devices[p]
  <1>1. Items(pending) = {}
    BY ItemsEmpty DEF Settled, pending
  <1>2. \A x \in Collection!Parts : p \in DOMAIN delivered /\ delivered[p][x] = devices[p][x]
    BY <1>1 DEF Told, PartTold, Has
  <1>3. p \in DOMAIN delivered
    BY <1>2 DEF Collection!Parts
  <1>4. /\ delivered[p] \in Collection!Devices(Collection!Names)
        /\ devices[p] \in Collection!Devices(Collection!Names)
    BY <1>3 DEF DeliveryInv, TypeOK, Collection!TypeOK, Collection!IsDeviceMap
  <1> QED BY <1>2, <1>3, <1>4, DeliveryAssumption, Collection!SameParts
          DEF DeliveryAssumption, Collection!CollectionAssumption

\* RequestPublisher.cpp:115-117 and 181-206: the window never holds more than
\* maxUnconfirmed messages, and the repository server only well-formed devices.
THEOREM DeliveryTypeCorrect == Spec => []TypeOK
  <1>1. DeliveryInv => TypeOK
    BY DEF DeliveryInv
  <1> QED BY DeliveryAlways, <1>1, PTL

\* RequestPublisher.cpp:181-206: as long as the process has lost no message, the
\* repository server has its map whenever nothing is on the way, for any window and
\* however often the window is sent again.
THEOREM DeliveredAlwaysFollowsMap == Spec => []DeliveredFollowsMap
  <1>1. DeliveryInv => DeliveredFollowsMap
    BY SettledHas DEF DeliveredFollowsMap, DeliveryInv, StartTold
  <1> QED BY DeliveryAlways, <1>1, PTL

\* PulseDeviceCollection.cpp:318-347: the inventory of the last READY repairs the
\* repository, whatever was lost before it, in this process or in an earlier one.
THEOREM InventoryAlwaysRepairs == Spec => []InventoryRepairs
  <1>1. DeliveryInv => InventoryRepairs
    <2> SUFFICES ASSUME DeliveryInv, Settled, Collection!Quiet, spent.timeouts = 0,
                        "ready" \notin loss, NEW e \in Endpoints, server[e].present
                 PROVE  /\ PnpIdOf[e] \in DOMAIN devices \cap DOMAIN delivered
                        /\ delivered[PnpIdOf[e]] = devices[PnpIdOf[e]]
      BY DEF InventoryRepairs
    <2>1. connected /\ Collection!Items(requests) = {} /\ Collection!Items(incoming) = {}
      BY DEF Collection!Quiet, Collection!Items
    <2>2. ~Collection!Awaited(e)
      BY <2>1 DEF Collection!Awaited, Collection!Coming
    <2>3. PnpIdOf[e] \in DOMAIN devices /\ Told(PnpIdOf[e])
      BY <2>1, <2>2 DEF DeliveryInv, ReadyTold
    <2> QED BY <2>3, SettledHas
  <1> QED BY DeliveryAlways, <1>1, PTL

\* What the repository server has of a present endpoint.
DeliveredTruth(e) ==
    LET p == PnpIdOf[e] IN
    /\ p \in DOMAIN delivered
    /\ FlowOf[e] \in Collection!Covers(delivered[p].flow)
    /\ Collection!Unshared(e) => NameOf[e] \in delivered[p].name
    /\ Collection!Unshared(e) /\ FlowOf[e] = "Render" =>
           delivered[p].renderVolume = Collection!Current(e)

\* README.md:3, from the first component to the last: when PulseAudio is quiet,
\* nothing is on its way, and nothing was lost since READY, the repository server
\* has every endpoint of PulseAudio with its flow, and those that share their PnP id
\* with no other of their direction with their name and, sinks, their volume.
THEOREM DeliveredAlwaysTrue ==
    Spec => [](Settled /\ Collection!Quiet /\ spent.timeouts = 0 /\ "ready" \notin loss =>
                   \A e \in Endpoints : server[e].present => DeliveredTruth(e))
  <1> DEFINE Mirrored == /\ Collection!RepositoryMatches
                         /\ Collection!InventoryComplete /\ Collection!RenderMirrored
             Rest == Settled /\ Collection!Quiet /\ spent.timeouts = 0 /\ "ready" \notin loss
             True == \A e \in Endpoints : server[e].present => DeliveredTruth(e)
  <1>1. Mirrored /\ InventoryRepairs => (Rest => True)
    <2> SUFFICES ASSUME Mirrored, InventoryRepairs, Rest,
                        NEW e \in Endpoints, server[e].present
                 PROVE  DeliveredTruth(e)
      OBVIOUS
    <2>1. PnpIdOf[e] \in DOMAIN delivered /\ delivered[PnpIdOf[e]] = devices[PnpIdOf[e]]
      BY DEF InventoryRepairs
    <2>2. /\ FlowOf[e] \in Collection!Covers(devices[PnpIdOf[e]].flow)
          /\ Collection!Unshared(e) => NameOf[e] \in devices[PnpIdOf[e]].name
      BY DEF Collection!InventoryComplete
    <2>3. Collection!Unshared(e) /\ FlowOf[e] = "Render" =>
              devices[PnpIdOf[e]].renderVolume = Collection!Current(e)
      BY DEF Collection!RenderMirrored
    <2> QED BY <2>1, <2>2, <2>3 DEF DeliveredTruth
  <1>2. Spec => []Mirrored
    BY MirrorAlwaysCompleteInProcess, PTL
  <1> HIDE DEF Mirrored, Rest, True
  <1>3. Spec => [](Rest => True)
    BY <1>1, <1>2, InventoryAlwaysRepairs, PTL
  <1> QED BY <1>3 DEF Rest, True

-----------------------------------------------------------------------------
(* Coming to rest.                                                         *)

\* A callback publishes one message at most, which is sent and acknowledged.
DeliveryWork ==
    3 * Collection!Work + (IF sending = Nothing THEN 0 ELSE 2) + Len(window)

\* What the process, its broker and PulseAudio's answers do by themselves.
OwnStep ==
    Dispatch \/ Publishing \/ Acknowledge \/ Reject \/ (ServerMoves /\ ~Collection!ServerStep)

LEMMA RestKept ==
    ASSUME Collection!RestInv, Collection!TypeOK', [Next]_vars
    PROVE  Collection!RestInv'
  <1>1. ASSUME [Collection!Next]_(Collection!vars)
        PROVE  Collection!RestInv'
    BY <1>1, DeliveryAssumption, Collection!RestNext
       DEF DeliveryAssumption, Collection!CollectionAssumption
  <1>2. CASE Restart
    <2>1. /\ ~subscribed' /\ requests' = <<>> /\ incoming' = <<>> /\ spent' = spent
      BY <1>2 DEF Restart
    <2>2. /\ Collection!Total(Collection!RequestWork, requests') = 0
          /\ Collection!Total(Collection!ItemWork, incoming') = 0
      BY <2>1, DeliveryAssumption, Collection!TotalEmpty
         DEF DeliveryAssumption, Collection!CollectionAssumption
    <2>3. Collection!Work' = 0 /\ incoming' \in Seq(Collection!FiniteItems)
      BY <2>1, <2>2 DEF Collection!Work
    <2>4. Collection!Backlog \in Nat
      BY DeliveryAssumption, Collection!BacklogNumber
         DEF DeliveryAssumption, Collection!CollectionAssumption, Collection!RestInv
    <2>5. Collection!Backlog' = Collection!Backlog
      BY <2>1 DEF Collection!Backlog
    <2> QED BY <2>1, <2>3, <2>4, <2>5 DEF Collection!RestInv
  <1> QED BY <1>1, <1>2, StepsOfMirror

LEMMA RestAlways == Spec => []Collection!RestInv
  <1>1. Init => Collection!RestInv
    BY DeliveryAssumption, Collection!RestInit
       DEF Init, DeliveryAssumption, Collection!CollectionAssumption
  <1>2. Collection!InventoryInv /\ [Next]_vars => Collection!TypeOK'
    BY MirrorKept DEF Collection!InventoryInv, Collection!MirrorInv
  <1> QED BY MirrorAlways, <1>1, <1>2, RestKept, PTL DEF Spec

LEMMA OwnStepShrinks ==
    ASSUME Collection!RestInv, Collection!RestInv', TypeOK, TypeOK', OwnStep
    PROVE  DeliveryWork' < DeliveryWork
  <1> DEFINE w == Collection!Work
             blocked == IF sending = Nothing THEN 0 ELSE 2
             n == Len(window)
  <1>0. \A x, y, m \in Nat, b, c \in {0, 2} : x < y => 3 * x + c + m < 3 * y + b + m
    OBVIOUS
  <1>1. w \in Nat /\ w' \in Nat
    BY DEF Collection!RestInv
  <1>2. n \in Nat /\ window \in Seq(Collection!Messages \ {Nothing}) /\ blocked \in {0, 2}
    BY DEF TypeOK
  <1>3. DeliveryWork = 3 * w + blocked + n /\ DeliveryWork' = 3 * w' + blocked' + n'
    BY DEF DeliveryWork
  <1>4. CASE Dispatch
    <2>1. sending = Nothing /\ window' = window /\ Collection!Callback
      BY <1>4 DEF Dispatch
    <2>2. w' < w
      BY <2>1, DeliveryAssumption, Collection!CallbackShrinks
         DEF DeliveryAssumption, Collection!CollectionAssumption, Collection!RestInv
    <2>3. blocked' \in {0, 2} /\ n' = n
      BY <2>1
    <2> HIDE DEF w, blocked, n
    <2> QED BY <1>0, <1>1, <1>2, <1>3, <2>2, <2>3
  <1>5. CASE ServerMoves /\ ~Collection!ServerStep
    <2>1. /\ Collection!Answer \/ Collection!RequestTimesOut
          /\ sending' = sending /\ window' = window
      BY <1>5 DEF ServerMoves, delivery
    <2>2. w' < w
      BY <2>1, DeliveryAssumption, Collection!AnswerShrinks, Collection!TimeoutShrinks
         DEF DeliveryAssumption, Collection!CollectionAssumption, Collection!RestInv
    <2>3. blocked' = blocked /\ n' = n
      BY <2>1
    <2> HIDE DEF w, blocked, n
    <2> QED BY <1>0, <1>1, <1>2, <1>3, <2>2, <2>3
  <1>6. ASSUME UNCHANGED collection PROVE w' = w
    BY <1>6 DEF collection, Collection!Work
  <1>7. CASE Send
    <2>1. /\ sending # Nothing /\ sending' = Nothing /\ UNCHANGED collection
          /\ window' = Append(window, sending) /\ sending \in Collection!Messages \ {Nothing}
      BY <1>7 DEF Send, TypeOK
    <2>2. blocked = 2 /\ blocked' = 0 /\ n' = n + 1
      BY <1>2, <2>1
    <2>3. w' = w
      BY <1>6, <2>1
    <2> HIDE DEF w, blocked, n
    <2> QED BY <1>1, <1>2, <1>3, <2>2, <2>3
  <1>8. CASE SendRefused
    <2>1. /\ sending # Nothing /\ sending' = Nothing /\ UNCHANGED collection
          /\ window' = window
      BY <1>8 DEF SendRefused
    <2>2. blocked = 2 /\ blocked' = 0 /\ n' = n
      BY <2>1
    <2>3. w' = w
      BY <1>6, <2>1
    <2> HIDE DEF w, blocked, n
    <2> QED BY <1>1, <1>2, <1>3, <2>2, <2>3
  <1>9. CASE Acknowledge \/ Reject
    <2>1. /\ window # <<>> /\ window' = Tail(window) /\ UNCHANGED collection
          /\ sending' = sending
      BY <1>9 DEF Acknowledge, Reject
    <2>2. blocked' = blocked /\ n' = n - 1
      BY <1>2, <2>1
    <2>3. w' = w
      BY <1>6, <2>1
    <2> HIDE DEF w, blocked, n
    <2> QED BY <1>1, <1>2, <1>3, <2>2, <2>3
  <1> QED BY <1>4, <1>5, <1>7, <1>8, <1>9 DEF OwnStep, Publishing

\* PulseDeviceCollection.cpp:240-428 and RequestPublisher.cpp:158-206: callbacks, answers,
\* sends and confirms all leave less to do, for any window and any set of endpoints.
\* Without changes, faults and new contexts only finitely many of them are left.
THEOREM DeliveryWorkShrinks ==
    Spec => [](DeliveryWork \in Nat) /\ [][OwnStep => DeliveryWork' < DeliveryWork]_vars
  <1>1. DeliveryInv /\ Collection!RestInv => DeliveryWork \in Nat
    <2> SUFFICES ASSUME DeliveryInv, Collection!RestInv PROVE DeliveryWork \in Nat
      OBVIOUS
    <2>1. Collection!Work \in Nat
      BY DEF Collection!RestInv
    <2>2. Len(window) \in Nat
      BY DEF DeliveryInv, TypeOK
    <2> QED BY <2>1, <2>2 DEF DeliveryWork
  <1>2. /\ DeliveryInv /\ DeliveryInv' /\ Collection!RestInv /\ Collection!RestInv'
        => [OwnStep => DeliveryWork' < DeliveryWork]_vars
    <2>1. DeliveryInv /\ DeliveryInv' => TypeOK /\ TypeOK'
      BY DEF DeliveryInv
    <2> QED BY <2>1, OwnStepShrinks
  <1> QED BY DeliveryAlways, RestAlways, <1>1, <1>2, PTL

=============================================================================
