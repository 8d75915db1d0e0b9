--------------------------- MODULE DeviceRepository ---------------------------
(***************************************************************************)
(* What the device half of PulseDeviceCollection promises the repository   *)
(* server: a catalogue of devices, each with the volume of every direction *)
(* it is known to have.  A step reports one direction of one device; it    *)
(* forgets nothing and touches nothing else, so the sinks and sources that *)
(* fall together in one device never disturb each other's volume.          *)
(* PulseDeviceCollection implements this specification.                    *)
(***************************************************************************)

CONSTANTS Ids, Directions, Volumes

VARIABLE known   \* what is known: id -> direction -> volume

TypeOK ==
    /\ DOMAIN known \subseteq Ids
    /\ \A p \in DOMAIN known :
          /\ DOMAIN known[p] \subseteq Directions
          /\ DOMAIN known[p] # {}
          /\ \A d \in DOMAIN known[p] : known[p][d] \in Volumes

Init == DOMAIN known = {}

DirectionsOf(p) == IF p \in DOMAIN known THEN DOMAIN known[p] ELSE {}

Report(p, d) ==
    /\ DOMAIN known' = DOMAIN known \cup {p}
    /\ \A other \in DOMAIN known \ {p} : known'[other] = known[other]
    /\ DOMAIN known'[p] = DirectionsOf(p) \cup {d}
    /\ known'[p][d] \in Volumes
    /\ \A other \in DirectionsOf(p) \ {d} : known'[p][other] = known[p][other]

Next == \E p \in Ids, d \in Directions : Report(p, d)

Spec == Init /\ [][Next]_known

=============================================================================
