-------------------------- MODULE RepositoryDelivery --------------------------
(***************************************************************************)
(* From pnpToDeviceMap_ to the repository server: what the device half of  *)
(* PulseDeviceCollection publishes goes through ServiceObserver and        *)
(* RequestPublisher::Publish into the producer's window, where it waits    *)
(* for the broker's confirm, on the one main thread that also dispatches   *)
(* the answers of PulseAudio.                                              *)
(*                                                                         *)
(* Publish only logs a message that is refused or not acknowledged, and a  *)
(* process that dies takes its window with it; docker-compose starts it    *)
(* again.  Nothing is sent a second time by this code: what repairs the    *)
(* repository is the inventory, taken at every READY of a context.         *)
(*                                                                         *)
(* External: rmqcpp, which sends the window again when its connection      *)
(* comes back; the broker; and the repository server, which replays what   *)
(* the queue delivers.                                                     *)
(***************************************************************************)
EXTENDS Integers, SequencesExt

CONSTANTS Endpoints, FlowOf, PnpIdOf, NameOf, RawVolumes, MaxChanges, MaxOutages, MaxTimeouts
CONSTANTS
    MaxUnconfirmed,  \* maxUnconfirmed: the producer's window
    MaxFaults        \* bound: messages refused, rejected or sent again, and restarts

VARIABLES server, connected, subscribed, requests, incoming,
          devices, published, repository, spent
VARIABLES
    sending,     \* the message in producer_->send, which has not returned
    window,      \* the messages without a confirm
    delivered,   \* the devices as the repository server knows them
    loss,        \* was a message lost since the process's start, since READY
    faults       \* so far

\* The mirror with its theorems, which the proofs about the delivery cite.
Collection == INSTANCE InventoryComplete_proofs

collection == <<server, connected, subscribed, requests, incoming,
                devices, published, repository, spent>>
delivery == <<sending, window, delivered, loss, faults>>
vars == <<collection, delivery>>

ASSUME DeliveryAssumption ==
    Collection!CollectionAssumption /\ MaxUnconfirmed \in Nat \ {0} /\ MaxFaults \in Nat

Nothing == Collection!Nothing

TypeOK ==
    /\ Collection!TypeOK
    /\ sending \in Collection!Messages
    /\ window \in Seq(Collection!Messages \ {Nothing}) /\ Len(window) <= MaxUnconfirmed
    /\ Collection!IsDeviceMap(delivered)
    /\ loss \subseteq {"start", "ready"}
    /\ faults \in 0..MaxFaults

Init ==
    /\ Collection!Init
    /\ sending = Nothing /\ window = <<>> /\ delivered = <<>>
    /\ loss = {} /\ faults = 0

Replayed(map, messages) == FoldLeft(Collection!Replay, map, messages)

-----------------------------------------------------------------------------
(* The main thread: it dispatches callbacks while none of them publishes.  *)

\* Nothing but the server moves while producer_->send blocks.
Dispatch ==
    /\ sending = Nothing
    /\ Collection!Callback
    /\ sending' = published'
    /\ UNCHANGED <<window, delivered, loss, faults>>

ContextReady ==
    /\ sending = Nothing
    /\ Collection!ContextReady
    /\ loss' = loss \ {"ready"}
    /\ UNCHANGED <<sending, window, delivered, faults>>

ContextLost ==
    /\ sending = Nothing
    /\ Collection!ContextLost
    /\ UNCHANGED delivery

\* Mutants: a full window does not block; a full window pushes its oldest out.
SendUnbounded ==
    /\ sending # Nothing
    /\ window' = Append(window, sending)
    /\ sending' = Nothing
    /\ UNCHANGED <<collection, delivered, loss, faults>>

SendOverwrites ==
    /\ sending # Nothing
    /\ window' = Append(IF Len(window) < MaxUnconfirmed THEN window ELSE Tail(window), sending)
    /\ sending' = Nothing
    /\ UNCHANGED <<collection, delivered, loss, faults>>

Send ==
    /\ sending # Nothing /\ Len(window) < MaxUnconfirmed
    /\ window' = Append(window, sending)
    /\ sending' = Nothing
    /\ UNCHANGED <<collection, delivered, loss, faults>>

Fault == faults < MaxFaults /\ faults' = faults + 1

Lost == loss' = {"start", "ready"}

\* send returns something else than SENDING: an error line.
SendRefused ==
    /\ sending # Nothing /\ Fault
    /\ sending' = Nothing
    /\ Lost
    /\ UNCHANGED <<collection, window, delivered>>

-----------------------------------------------------------------------------
(* PulseAudio's server, which waits for nobody.                            *)

ServerMoves ==
    /\ Collection!ServerStep \/ Collection!Answer \/ Collection!RequestTimesOut
    /\ UNCHANGED delivery

-----------------------------------------------------------------------------
(* The broker and the repository server behind it.                         *)

Acknowledge ==
    /\ window # <<>>
    /\ delivered' = Collection!Replay(delivered, Head(window))
    /\ window' = Tail(window)
    /\ UNCHANGED <<collection, sending, loss, faults>>

\* A confirm that is not an ACK: an error line.
Reject ==
    /\ window # <<>> /\ Fault
    /\ window' = Tail(window)
    /\ Lost
    /\ UNCHANGED <<collection, sending, delivered>>

\* The connection to the broker breaks when the broker has taken some messages
\* and their confirms are not back; all of the window is sent again, in order.
Resend ==
    /\ window # <<>> /\ Fault
    /\ \E n \in 1..Len(window) : delivered' = Replayed(delivered, SubSeq(window, 1, n))
    /\ UNCHANGED <<collection, sending, window, loss>>

-----------------------------------------------------------------------------
(* The process dies at any point and is started again.                     *)

Restart ==
    /\ Fault
    /\ \E n \in 0..Len(window) : delivered' = Replayed(delivered, SubSeq(window, 1, n))
    /\ sending' = Nothing /\ window' = <<>> /\ loss' = {}
    /\ connected' = FALSE /\ subscribed' = FALSE
    /\ requests' = <<>> /\ incoming' = <<>>
    /\ devices' = <<>> /\ published' = Nothing /\ repository' = <<>>
    /\ UNCHANGED <<server, spent>>

-----------------------------------------------------------------------------
\* Nothing is on its way to the repository server.
Settled == sending = Nothing /\ window = <<>>

Idle == Collection!Quiet /\ Settled /\ UNCHANGED vars

Publishing == Send \/ SendRefused

Broker == Acknowledge \/ Reject \/ Resend

Next == Dispatch \/ ContextReady \/ ContextLost \/ Publishing \/ ServerMoves
        \/ Broker \/ Restart \/ Idle

Spec == Init /\ [][Next]_vars

\* PulseAudio answers, the main loop runs, a lost context or process is replaced,
\* and the broker confirms: without that the window stays full for ever.
FairSpec ==
    /\ Spec
    /\ WF_vars(ServerMoves /\ Collection!Answer)
    /\ WF_vars(Dispatch) /\ WF_vars(ContextReady) /\ WF_vars(Send)
    /\ WF_vars(Acknowledge)

-----------------------------------------------------------------------------
(* Safety.                                                                 *)

\* RequestPublisher.cpp:181-206: as long as this process has lost no message, the
\* repository server holds its map whenever nothing is on the way, however slowly
\* the broker confirms and however often the window is sent again.
DeliveredFollowsMap ==
    Settled /\ "start" \notin loss =>
        \A p \in DOMAIN devices : p \in DOMAIN delivered /\ delivered[p] = devices[p]

\* PulseDeviceCollection.cpp:318-347: the inventory posts every endpoint, known or
\* not, and so repairs what was lost before the context's READY, refused, rejected
\* or gone with an earlier process.
InventoryRepairs ==
    Settled /\ Collection!Quiet /\ spent.timeouts = 0 /\ "ready" \notin loss =>
        \A e \in Endpoints : server[e].present =>
            /\ PnpIdOf[e] \in DOMAIN devices \cap DOMAIN delivered
            /\ delivered[PnpIdOf[e]] = devices[PnpIdOf[e]]

-----------------------------------------------------------------------------
(* Liveness.                                                               *)

\* README.md:3: once PulseAudio rests, everything comes to rest, and then the map
\* and the repository server both have its endpoints, and the render volumes of the
\* sinks that share their PnP id with no other, through outages, restarts and a full
\* window, if nothing was lost since the last READY.
EventuallyDelivered ==
    <>[](spent.timeouts = 0 /\ "ready" \notin loss =>
            /\ Settled /\ Collection!Quiet
            /\ Collection!InventoryComplete /\ Collection!RenderMirrored
            /\ InventoryRepairs)
=============================================================================
