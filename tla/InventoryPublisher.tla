------------------------- MODULE InventoryPublisher -------------------------
(***************************************************************************)
(* InventoryPublisher of subgen_core/mqtt_inventory.py: the thread that    *)
(* keeps the retained Home Assistant messages of the library inventory     *)
(* true.  Four parties share it: the callers of update, start and stop;    *)
(* the publisher's own thread (_run, _connect_and_run); paho's network     *)
(* thread, which reconnects by itself and calls _on_connect and            *)
(* _on_disconnect; and the broker, which keeps the retained availability   *)
(* and publishes the last will of a session that ends without DISCONNECT.  *)
(*                                                                         *)
(* The publisher's flags are one record: `latest' (a snapshot exists),     *)
(* `urgent', `needs' (_needs_discovery), `wake', `stop', `connected' and   *)
(* `fresh' (the last state message is younger than refresh_seconds).       *)
(* Messages sent and not confirmed are in `flight', and reach the broker   *)
(* in order or not at all; paho's redelivery of one in a LATER session is  *)
(* left out.  A wait with a timeout may return at any time.                *)
(***************************************************************************)
EXTENDS Naturals, Sequences, SequencesExt

CONSTANT MaxSessions    \* bound: sessions the broker accepts

VARIABLES flag,      \* the publisher's fields shared between threads
          loop,      \* its thread: pc, what it claimed under the lock, and
                     \* was_connected of the finally block
          net,       \* paho's network thread
          broker     \* session, retained availability, messages in flight

pubVars == <<flag, loop, net, broker>>

Flags == [latest: BOOLEAN, urgent: BOOLEAN, needs: BOOLEAN, wake: BOOLEAN,
          stop: BOOLEAN, connected: BOOLEAN, fresh: BOOLEAN]

LoopPcs == {"none", "connect", "wait", "claim", "decide", "discovery",
            "online", "state", "finally", "offline", "disconnect", "abort",
            "join", "pause", "ended"}

NetPcs == {"down", "dialled", "accepted", "setting", "waking", "up", "dropped"}

NoClaim == [needs |-> FALSE, urgent |-> FALSE, latest |-> FALSE]

PubInit ==
    /\ flag = [latest |-> FALSE, urgent |-> FALSE, needs |-> FALSE,
               wake |-> FALSE, stop |-> FALSE, connected |-> FALSE,
               fresh |-> FALSE]
    /\ loop = [pc |-> "none", claim |-> NoClaim, was |-> FALSE]
    /\ net = "down"
    /\ broker = [session |-> "none", sessions |-> 0, availability |-> "none",
                 flight |-> <<>>, announced |-> FALSE]

Go(pc) == loop' = [loop EXCEPT !.pc = pc]

(* The top of `while not self._stop.is_set()'. *)
Again == loop' = [loop EXCEPT !.pc = IF flag.stop THEN "finally" ELSE "wait",
                              !.claim = NoClaim]

---------------------------------------------------------------------------
(* The callers. *)

Start ==
    /\ loop.pc = "none"
    /\ flag' = [flag EXCEPT !.stop = FALSE]
    /\ Go("connect")
    /\ UNCHANGED <<net, broker>>

Update(urgent) ==
    /\ flag' = [flag EXCEPT !.latest = TRUE, !.urgent = @ \/ urgent, !.wake = TRUE]
    /\ UNCHANGED <<loop, net, broker>>

(* A stop whose join times out leaves the thread owned: nothing changes.   *)
StopRequested ==
    /\ loop.pc /= "none"
    /\ ~flag.stop
    /\ flag' = [flag EXCEPT !.stop = TRUE, !.wake = TRUE]
    /\ UNCHANGED <<loop, net, broker>>

StopJoined ==
    /\ flag.stop
    /\ loop.pc = "ended"
    /\ Go("none")
    /\ UNCHANGED <<flag, net, broker>>

RefreshElapses ==
    /\ flag.fresh
    /\ flag' = [flag EXCEPT !.fresh = FALSE]
    /\ UNCHANGED <<loop, net, broker>>

---------------------------------------------------------------------------
(* The broker and the network between it and the client. *)

(* The broker's view once the messages in flight have all arrived.         *)
Delivered(b) ==
    [b EXCEPT !.availability = IF b.flight = <<>> THEN @ ELSE Last(b.flight),
              !.announced    = @ \/ "online" \in ToSet(b.flight),
              !.flight       = <<>>]

Deliver ==
    /\ broker.session = "live"
    /\ broker.flight /= <<>>
    /\ broker' = [broker EXCEPT !.availability = Head(broker.flight),
                                !.announced = @ \/ Head(broker.flight) = "online",
                                !.flight = Tail(@)]
    /\ UNCHANGED <<flag, loop, net>>

ConnectionLost ==
    /\ broker.session = "live"
    /\ broker' = [broker EXCEPT !.session = "stale", !.flight = <<>>]
    /\ UNCHANGED <<flag, loop, net>>

(* The broker notices that a session is gone and publishes its will.       *)
WillPublished ==
    /\ broker.session = "stale"
    /\ broker' = [broker EXCEPT !.session = "none", !.availability = "offline"]
    /\ UNCHANGED <<flag, loop, net>>

---------------------------------------------------------------------------
(* paho's network thread. *)

(* A CONNECT with the client id of a session the broker still holds takes  *)
(* it over: the broker publishes the old will first.                       *)
ConnackAccepted ==
    /\ net = "dialled"
    /\ broker.session /= "live"
    /\ broker.sessions < MaxSessions
    /\ broker' = [broker EXCEPT !.session = "live", !.sessions = @ + 1,
                                !.availability = IF broker.session = "stale"
                                                 THEN "offline" ELSE @,
                                !.announced = FALSE]
    /\ net' = "accepted"
    /\ UNCHANGED <<flag, loop>>

ConnackRefused ==
    /\ net = "dialled"
    /\ flag' = [flag EXCEPT !.connected = FALSE]
    /\ net' = "dropped"
    /\ UNCHANGED <<loop, broker>>

OnConnectLocked ==
    /\ net = "accepted"
    /\ flag' = [flag EXCEPT !.needs = TRUE, !.urgent = TRUE]
    /\ net' = "setting"
    /\ UNCHANGED <<loop, broker>>

OnConnectSet ==
    /\ net = "setting"
    /\ flag' = [flag EXCEPT !.connected = TRUE]
    /\ net' = "waking"
    /\ UNCHANGED <<loop, broker>>

OnConnectWake ==
    /\ net = "waking"
    /\ flag' = [flag EXCEPT !.wake = TRUE]
    /\ net' = "up"
    /\ UNCHANGED <<loop, broker>>

OnDisconnect ==
    /\ net = "up"
    /\ broker.session /= "live"
    /\ flag' = [flag EXCEPT !.connected = FALSE]
    /\ net' = "dropped"
    /\ UNCHANGED <<loop, broker>>

Redial ==
    /\ net = "dropped"
    /\ net' = "dialled"
    /\ UNCHANGED <<flag, loop, broker>>

---------------------------------------------------------------------------
(* The publisher's thread. *)

ConnectClient ==
    /\ loop.pc = "connect"
    /\ flag' = [flag EXCEPT !.connected = FALSE]
    /\ \/ /\ net' = "dialled"
          /\ Again
       \/ /\ Go("finally")                  \* client.connect raised
          /\ UNCHANGED net
       \/ /\ Go("pause")                    \* the client factory raised
          /\ UNCHANGED net
    /\ UNCHANGED broker

(* self._wake.wait(timeout) returns, for the event or for the time. *)
Woken ==
    /\ loop.pc = "wait"
    /\ flag' = [flag EXCEPT !.wake = FALSE]
    /\ Go("claim")
    /\ UNCHANGED <<net, broker>>

(* What is to be published is taken out of the fields under the lock,      *)
(* whether or not the client is connected.                                 *)
Claim ==
    /\ loop.pc = "claim"
    /\ loop' = [loop EXCEPT !.pc = "decide",
                            !.claim = [needs |-> flag.needs /\ flag.latest,
                                       urgent |-> flag.urgent,
                                       latest |-> flag.latest]]
    /\ flag' = [flag EXCEPT !.urgent = FALSE, !.needs = @ /\ ~flag.latest]
    /\ UNCHANGED <<net, broker>>

Wanted == flag.connected /\ loop.claim.latest
          /\ (loop.claim.needs \/ loop.claim.urgent \/ ~flag.fresh)

Decide ==
    /\ loop.pc = "decide"
    /\ IF Wanted THEN Go(IF loop.claim.needs THEN "discovery" ELSE "state")
                 ELSE Again
    /\ UNCHANGED <<flag, net, broker>>

(* _publish_message confirmed: everything sent before it has arrived too.  *)
Confirmed(messages) ==
    /\ broker.session = "live"
    /\ broker' = Delivered([broker EXCEPT !.flight = @ \o messages])

(* _publish_message raised: refused by the client, or sent and not         *)
(* confirmed in time.                                                      *)
Unconfirmed(messages) ==
    \/ UNCHANGED broker
    \/ /\ broker.session = "live"
       /\ messages /= <<>>
       /\ broker' = [broker EXCEPT !.flight = @ \o messages]

PublishRaised ==
    /\ flag' = [flag EXCEPT !.needs = @ \/ loop.claim.needs]
    /\ Go("finally")

Published(pc, messages, next) ==
    /\ loop.pc = pc
    /\ \/ /\ Confirmed(messages)
          /\ Go(next)
          /\ UNCHANGED flag
       \/ /\ Unconfirmed(messages)
          /\ PublishRaised
    /\ UNCHANGED net

PublishDiscovery == Published("discovery", <<>>, "online")

PublishOnline == Published("online", <<"online">>, "state")

PublishSnapshot ==
    /\ loop.pc = "state"
    /\ \/ /\ Confirmed(<<>>)
          /\ Again
          /\ flag' = [flag EXCEPT !.fresh = TRUE]
       \/ /\ Unconfirmed(<<>>)
          /\ PublishRaised
    /\ UNCHANGED net

(* finally: was_connected is read and the event cleared. *)
Finally ==
    /\ loop.pc = "finally"
    /\ flag' = [flag EXCEPT !.connected = FALSE]
    /\ loop' = [pc |-> IF flag.connected THEN "offline" ELSE "disconnect",
                claim |-> NoClaim, was |-> flag.connected]
    /\ UNCHANGED <<net, broker>>

OfflineUnconfirmedCleanly == Unconfirmed(<<"offline">>) /\ Go("disconnect")

OfflineUnconfirmed == Unconfirmed(<<"offline">>) /\ Go("abort")

PublishOffline ==
    /\ loop.pc = "offline"
    /\ \/ Confirmed(<<"offline">>) /\ Go("disconnect")
       \/ OfflineUnconfirmed
    /\ UNCHANGED <<flag, net>>

(* client.disconnect: a session told DISCONNECT ends without its will; one *)
(* that cannot be told is aborted.                                         *)
Disconnect ==
    /\ loop.pc = "disconnect"
    /\ \/ /\ broker.session = "live"
          /\ net /= "down"
          /\ broker' = [Delivered(broker) EXCEPT !.session = "none"]
          /\ Go("join")
       \/ /\ Go("abort")
          /\ UNCHANGED broker
    /\ UNCHANGED <<flag, net>>

(* _abort_connection: the socket is closed without a DISCONNECT. *)
AbortConnection ==
    /\ loop.pc = "abort"
    /\ broker' = [broker EXCEPT !.session = IF @ = "live" THEN "stale" ELSE @,
                                !.flight = <<>>]
    /\ Go("join")
    /\ UNCHANGED <<flag, net>>

(* loop_stop joins the network thread, which finishes the callback it is in. *)
LoopStopped ==
    /\ loop.pc = "join"
    /\ net \notin {"accepted", "setting", "waking"}
    /\ net' = "down"
    /\ loop' = [loop EXCEPT !.pc = "pause", !.was = FALSE]
    /\ UNCHANGED <<flag, broker>>

(* _run: the pause after a failed connection, or the end of the thread.    *)
Pause ==
    /\ loop.pc = "pause"
    /\ Go(IF flag.stop THEN "ended" ELSE "connect")
    /\ UNCHANGED <<flag, net, broker>>

PubNext ==
    \/ Start \/ StopRequested \/ StopJoined \/ RefreshElapses
    \/ \E urgent \in BOOLEAN : Update(urgent)
    \/ Deliver \/ ConnectionLost \/ WillPublished
    \/ ConnackAccepted \/ ConnackRefused \/ OnConnectLocked \/ OnConnectSet
    \/ OnConnectWake \/ OnDisconnect \/ Redial
    \/ ConnectClient \/ Woken \/ Claim \/ Decide
    \/ PublishDiscovery \/ PublishOnline \/ PublishSnapshot
    \/ Finally \/ PublishOffline \/ Disconnect \/ AbortConnection
    \/ LoopStopped \/ Pause

PubSpec == PubInit /\ [][PubNext]_pubVars

---------------------------------------------------------------------------
(* Home Assistant does not keep showing a publisher that ended: when the   *)
(* finally block of _connect_and_run found the client connected and the    *)
(* broker holds no session of it any more, the retained availability is    *)
(* "offline".  Either it was confirmed before the DISCONNECT, which makes  *)
(* the broker drop the last will, or the will was published.               *)
GoneIsOffline ==
    (loop.pc = "join" /\ loop.was /\ broker.session = "none")
        => broker.availability = "offline"

(* A connected publisher that has a snapshot and waits for work, with no   *)
(* rediscovery pending, has announced itself in this session: the          *)
(* rediscovery _on_connect asked for was carried out, not erased.          *)
RediscoveryNotErased ==
    (loop.pc = "wait" /\ flag.connected /\ flag.latest /\ ~flag.needs /\ net = "up"
     /\ broker.session = "live")
        => broker.announced
=============================================================================
