-------------------------- MODULE PulseDevice_proofs --------------------------
(***************************************************************************)
(* Facts about volumes and merging that hold for every volume and device.  *)
(***************************************************************************)
EXTENDS PulseDevice, TLAPS

\* The C++ expression, factor for factor: v * 1000 wraps in uint32_t, the
\* quotient by PA_VOLUME_NORM is truncated to uint16_t.
SourceVolume(v) == (((v * 1000) % (65536 * 65536)) \div 65536) % 65536

\* NormalizeVolume, which TLC can evaluate, is the expression of the source.
THEOREM NormalizeVolumeIsExact ==
    ASSUME NEW v \in Nat
    PROVE  NormalizeVolume(v) = SourceVolume(v)
  <1> DEFINE r == (v * 125) % 536870912
             k == (v * 125) \div 536870912
  <1>1. /\ r \in Nat /\ r < 536870912 /\ k \in Nat
        /\ v * 125 = k * 536870912 + r
    BY Z3
  <1> HIDE DEF r, k
  <1>2. v * 1000 = k * 4294967296 + 8 * r
    BY Z3, <1>1
  <1>3. (v * 1000) % 4294967296 = 8 * r
    BY Z3, <1>1, <1>2
  <1>4. (8 * r) \div 65536 = r \div 8192
    BY Z3, <1>1
  <1>5. r \div 8192 \in Nat /\ r \div 8192 < 65536
    BY Z3, <1>1
  <1>6. (r \div 8192) % 65536 = r \div 8192
    BY Z3, <1>5
  <1>7. NormalizeVolume(v) = r \div 8192
    BY Z3 DEF NormalizeVolume, r
  <1> QED BY Z3, <1>3, <1>4, <1>6, <1>7 DEF SourceVolume

\* What the collection stores always fits the uint16_t it is stored in.
LEMMA StoredVolumeType ==
    ASSUME NEW v \in Nat, NEW mute \in BOOLEAN
    PROVE  StoredVolume(v, mute) \in Uint16
  <1>1. (v * 125) % 536870912 \in Nat /\ (v * 125) % 536870912 < 536870912
    BY Z3
  <1>2. NormalizeVolume(v) \in Nat /\ NormalizeVolume(v) < 65536
    BY Z3, <1>1 DEF NormalizeVolume
  <1> QED BY Z3, <1>2 DEF StoredVolume, Uint16

\* Up to 65.5 times the nominal volume nothing wraps: louder is never stored
\* as quieter, and 0 to 100% is stored as 0 to 1000.
THEOREM NormalizeVolumeMonotone ==
    ASSUME NEW v \in Nat, NEW w \in Nat, v <= w, w <= 4294967
    PROVE  /\ NormalizeVolume(v) <= NormalizeVolume(w)
           /\ w <= 65536 => NormalizeVolume(w) <= 1000
  <1>1. (v * 125) % 536870912 = v * 125 /\ (w * 125) % 536870912 = w * 125
    BY Z3
  <1>2. (v * 125) \div 8192 <= (w * 125) \div 8192
    BY Z3
  <1>3. w <= 65536 => (w * 125) \div 8192 <= 1000
    BY Z3
  <1> QED BY Z3, <1>1, <1>2, <1>3 DEF NormalizeVolume

LEMMA EndpointDeviceType ==
    ASSUME NEW Names, NEW name \in Names, NEW flow \in EndpointFlows, NEW volume \in Uint16
    PROVE  EndpointDevice(name, flow, volume) \in Devices(Names)
  BY DEF EndpointDevice, Devices, Flows, EndpointFlows, Uint16

LEMMA MergeDeviceType ==
    ASSUME NEW Names, NEW found \in Devices(Names), NEW device \in Devices(Names)
    PROVE  MergeDevice(found, device) \in Devices(Names)
  BY DEF MergeDevice, Devices, Flows

\* Merging loses no flow of either device.
LEMMA MergeDeviceCovers ==
    ASSUME NEW Names, NEW found \in Devices(Names), NEW device \in Devices(Names)
    PROVE  /\ Covers(found.flow) \subseteq Covers(MergeDevice(found, device).flow)
           /\ Covers(device.flow) \subseteq Covers(MergeDevice(found, device).flow)
  BY DEF MergeDevice, Devices, Flows, EndpointFlows, Covers

\* A sink and a source of one PnP id give the same device in either order.
THEOREM MergeCommutes ==
    ASSUME NEW Names, NEW sink \in Devices(Names), NEW source \in Devices(Names),
           sink.flow = "Render", source.flow = "Capture"
    PROVE  MergeDevice(sink, source) = MergeDevice(source, sink)
  BY DEF MergeDevice, Devices
=============================================================================
