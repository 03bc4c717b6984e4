----------------------------- MODULE Observers -----------------------------
(***************************************************************************)
(* What the health endpoint and the development dashboard tell of the      *)
(* store that Consumer fills: which devices count as connected, and the    *)
(* updates that web socket clients receive through a broadcast channel.    *)
(* The channel keeps the last RingCap updates; a receiver that was         *)
(* overtaken gets an error instead, and the dashboard then closes its      *)
(* socket.  Subscribing and building the first update have no await        *)
(* between them.                                                           *)
(*                                                                         *)
(* Every handler is one step, made at one time of the clock.  An update is *)
(* the raw sample of each watched sensor, which stands for all that is     *)
(* sent of it.                                                             *)
(*                                                                         *)
(* AllSensors, KeptUpdates and Resumed are faulty variants of the          *)
(* definitions below them; no action uses one.                             *)
(***************************************************************************)
EXTENDS Consumer

CONSTANTS Interval,  \* poll interval of each device, in units of the time
          RingCap,   \* updates the broadcast channel keeps (16 in the code)
          Clients,   \* web socket clients of the dashboard
          Watched    \* the sensors whose samples are followed to the clients

ASSUME ObserversAssumption == /\ Interval \in [DeviceSet -> Nat \ {0}]
                              /\ RingCap \in Nat \ {0}
                              /\ Watched \subseteq Sensors

VARIABLES
  ring,   \* the updates the broadcast channel keeps, oldest first
  client  \* what each client shows, and how many updates it has to receive

observerVars == <<ring, client>>
allVars == <<vars, observerVars>>

-----------------------------------------------------------------------------
(* readyz and build_snapshot *)

\* Health that looks at the computed sensors too.
AllSensors(c, d) == SensorsOf(c, d) \cup Ids(c.computed)

\* Only sensors with a register on the device count.
Counted(c, d) == SensorsOf(c, d)

\* The time of the raw sample, or of the metric if there is none; 0 if neither.
TimeOf(st, s) == IF st[s].raw # 0 THEN st[s].raw ELSE st[s].at

Recent(t, d) == t # 0 /\ now - t <= 2 * Interval[d]

\* readyz: some sensor of the device is recent.
Healthy(d) == \E s \in Counted(config, d) : Recent(TimeOf(store, s), d)

Ready == \E d \in DeviceSet : Healthy(d)

Newest(st, c, d) == Max({TimeOf(st, s) : s \in SensorsOf(c, d)} \cup {0})

\* build_snapshot: the newest sample of the device is recent.
Connected(d) == Recent(Newest(store, config, d), d)

-----------------------------------------------------------------------------
(* Updates *)

Off == [on |-> FALSE]

\* build_update
Update == [s \in Watched |-> store[s].raw]

\* The broadcaster sends an update; a receiver that has missed more than the
\* channel keeps has lagged, however much more that is.
Broadcast ==
  /\ up
  /\ ring' = LET all == Append(ring, Update)
             IN  IF Len(all) > RingCap THEN Tail(all) ELSE all
  /\ client' = [c \in Clients |->
                  IF client[c].on /\ client[c].unread <= RingCap
                  THEN [client[c] EXCEPT !.unread = @ + 1] ELSE client[c]]
  /\ UNCHANGED vars

\* A receiver that starts with what the channel keeps.
KeptUpdates == Len(ring)

\* A new receiver gets what is sent from then on.
FirstUnread == 0

\* handle_ws: the client subscribes, and is sent the store as it is.
Connect(c) ==
  /\ up
  /\ ~ client[c].on
  /\ client' = [client EXCEPT ![c] = [on |-> TRUE, shown |-> Update,
                                            unread |-> FirstUnread]]
  /\ UNCHANGED <<vars, ring>>

\* A receiver that lags is moved to the next update.
Resumed(c) == [client[c] EXCEPT !.unread = 0]

\* The error of a receiver that lags ends the loop, like that of a channel
\* without a sender.
Overtaken(c) == Off

\* The oldest update that a client has to receive.
Shown(c) == [on     |-> TRUE,
             shown  |-> ring[Len(ring) - client[c].unread + 1],
             unread |-> client[c].unread - 1]

Receive(c) ==
  /\ up
  /\ client[c].on
  /\ client[c].unread > 0
  /\ client' = [client EXCEPT ![c] = IF client[c].unread > RingCap
                                      THEN Overtaken(c) ELSE Shown(c)]
  /\ UNCHANGED <<vars, ring>>

\* The client closes its socket.
Disconnect(c) == /\ client[c].on
                 /\ client' = [client EXCEPT ![c] = Off]
                 /\ UNCHANGED <<vars, ring>>

\* The sockets and the channel end with the process.
StopAll == /\ Halt
           /\ ring' = <<>>
           /\ client' = [c \in Clients |-> Off]

ObserversInit == Init /\ ring = <<>> /\ client = [c \in Clients |-> Off]

ObserversNext ==
  \/ \E d \in DeviceSet : Poll(d) /\ UNCHANGED observerVars
  \/ Consume /\ UNCHANGED observerVars
  \/ Tick /\ UNCHANGED observerVars
  \/ \E q \in Additions : HotAdd(q) /\ UNCHANGED <<consumerVars, observerVars>>
  \/ StopAll
  \/ Start /\ UNCHANGED observerVars
  \/ Broadcast
  \/ \E c \in Clients : Connect(c) \/ Receive(c) \/ Disconnect(c)

ObserversSpec == ObserversInit /\ [][ObserversNext]_allVars

-----------------------------------------------------------------------------
(* Properties *)

\* A device that has answered no poll for two intervals is connected neither for
\* the health endpoint nor for the dashboard, which agree on every device though
\* one looks for any recent sample and the other for the newest, and registers
\* of a device differ in age after one was added.  Samples that waited in the
\* channel do not make a device look alive, nor do computed sensors, which get a
\* new time with every batch of any device (readyz, is_fresh, build_snapshot,
\* run of ComputedEngine).
ConnectedMeansAlive ==
  \A d \in DeviceSet :
    /\ Connected(d) <=> Healthy(d)
    /\ up /\ Healthy(d) => \E t \in polled[d] : now - t <= 2 * Interval[d]

\* While it is connected, a client never goes back to an older sample, from the
\* first update, which is built from the store and not from the channel, over
\* however many broadcasts it was late for (handle_ws, broadcast_loop).
NeverOlder ==
  [][\A c \in Clients : client[c].on /\ client'[c].on =>
       \A s \in Watched :
         client'[c].shown[s] >= client[c].shown[s]]_allVars

\* A connected client that has nothing to receive shows the last broadcast, or
\* newer: one that lags is never left with an old one (handle_ws 215-223).
ShowsLastBroadcast ==
  \A c \in Clients :
    client[c].on /\ ring # <<>> /\ client[c].unread = 0 =>
      \A s \in Watched : client[c].shown[s] >= ring[Len(ring)][s]
=============================================================================
