---------------------------- MODULE SignalRecovery ----------------------------
(***************************************************************************)
(* How the two network bridges of a match find each other again: the room  *)
(* of the signaling server (a Durable Object, index.ts) and the two bridge *)
(* processes (recovery.rs), which dial the room, exchange one offer and    *)
(* one answer per connection id, and start over when the tunnel, the       *)
(* signaling socket or the negotiation fails.                              *)
(*                                                                         *)
(* Events of a Durable Object do not interleave at its storage operations, *)
(* so a handler is one step, but for the call to the lobby inside the      *)
(* first markConnected, at which the handler is suspended.  A signaling    *)
(* socket is a pair of queues; a broken one is noticed by the two sides at *)
(* different times, or by the server never, until it is replaced.  The     *)
(* greetings, pings and peer-joined and peer-left notices, which the       *)
(* bridges of a recovery ignore, are left out.                             *)
(***************************************************************************)
EXTENDS Naturals, Sequences

CONSTANTS
    MaxFaults    \* broken sockets and tunnels, failed and slow attempts

ASSUME SignalAssumption == MaxFaults \in Nat

VARIABLES
    connId,      \* CONNECTION_ID_KEY of the room's storage, 0 when absent
    queue,       \* QUEUED_SIGNALS_KEY, by the role an entry is for
    marked,      \* the status of the room is 'connected'
    suspended,   \* roles whose fetch waits for the lobby
    srv,         \* roles with an attached socket, broken ones included
    link,        \* whether the role's newest socket still carries messages
    up, down,    \* what is in the socket, towards the room and the bridge
    st,          \* where the loop of the bridge is
    last,        \* last_id of the bridge
    used,        \* history: the newest id the bridge ever negotiated
    paired,      \* the newest id for which both endpoints met (external: ICE)
    faults

room == <<connId, queue, marked, suspended, srv>>
bridges == <<st, last, used, paired>>
vars == <<room, link, up, down, bridges, faults>>

Roles == {"offer", "answer"}
BridgeStates == {"dial", "upgrade", "ready", "sdp", "connecting", "tunnel", "exited"}
PeerRole(r) == IF r = "offer" THEN "answer" ELSE "offer"

Ready(id) == [type |-> "ready-for-offer", id |-> id]
Sdp(id) == [type |-> "sdp", id |-> id]
Restart(id) == [type |-> "restart", id |-> id]
ToBridge == [type : {"ready-for-offer", "sdp"}, id : Nat \ {0}]
QueuedSdp == [type : {"sdp"}, id : Nat \ {0}]
ToRoom == [type : {"restart", "sdp"}, id : Nat \ {0}]

Init ==
    /\ connId = 0 /\ queue = [r \in Roles |-> <<>>] /\ marked = FALSE
    /\ suspended = {} /\ srv = {}
    /\ link = [r \in Roles |-> FALSE]
    /\ up = [r \in Roles |-> <<>>] /\ down = [r \in Roles |-> <<>>]
    /\ st = [r \in Roles |-> "dial"]
    /\ last = [r \in Roles |-> 0] /\ used = [r \in Roles |-> 0]
    /\ paired = 0 /\ faults = 0

Fault == faults < MaxFaults /\ faults' = faults + 1
-----------------------------------------------------------------------------
(* The room *)

\* A message to a socket that no longer carries anything is lost.
Sent(buffer, r, m) ==
    IF link[r] THEN [buffer EXCEPT ![r] = Append(@, m)] ELSE buffer

\* Mutant: the new id is announced but not stored.
NotStored(id) == id
StoredId(id) == id + 1

\* The queue without the SDP of older connections: as the bridges of a recovery
\* queue nothing else, that is an empty one.
DropRecoverySdp == [r \in Roles |-> <<>>]

\* Mutant: the announcement reaches one of the two only.
AnnouncedToAnswer(s) == s \cap {"answer"}
Announced(s) == s

\* The broadcast of ready-for-offer, over what the sockets hold (d).
Announce(d, l, s) ==
    [r \in Roles |-> IF r \in Announced(s) /\ l[r]
                     THEN Append(d[r], Ready(connId + 1)) ELSE d[r]]

\* startConnection: the next id, the queue without the SDP of older ones, and
\* ready-for-offer to every attached socket.  d, l and s are what the sockets
\* hold, whether they carry messages, and which there are.
StartConnection(d, l, s) ==
    /\ connId' = StoredId(connId)
    /\ queue' = DropRecoverySdp
    /\ down' = Announce(d, l, s)

\* flushQueuedSignals into the role's new, still empty socket.
FlushQueuedSignals(r) ==
    /\ down' = [down EXCEPT ![r] = queue[r]]
    /\ queue' = [queue EXCEPT ![r] = <<>>]
    /\ UNCHANGED connId

\* The bridge has the 101 answer and begins to read.
Upgraded(r) ==
    /\ st' = [st EXCEPT ![r] = "ready"]
    /\ last' = [last EXCEPT ![r] = 0]

\* fetch of SignalingRoom, for the token and the role of a recovering bridge.
\* An attached socket of the role is detached and closed, so that its late
\* messages and its close go unheard.  The first time both roles are there the
\* handler waits for the lobby inside markConnected.
Fetch(r) ==
    /\ st[r] = "dial"
    /\ LET s == srv \cup {r}
           l == [link EXCEPT ![r] = TRUE]
           d == [down EXCEPT ![r] = <<>>]
       IN  /\ srv' = s /\ link' = l
           /\ up' = [up EXCEPT ![r] = <<>>]
           /\ IF s = Roles /\ ~marked
              THEN /\ marked' = TRUE
                   /\ suspended' = suspended \cup {r}
                   /\ st' = [st EXCEPT ![r] = "upgrade"]
                   /\ down' = d
                   /\ UNCHANGED <<connId, queue, last>>
              ELSE /\ IF s = Roles
                      THEN StartConnection(d, l, s) \* leaves nothing to flush
                      ELSE FlushQueuedSignals(r)
                   /\ Upgraded(r)
                   /\ UNCHANGED <<marked, suspended>>
    /\ UNCHANGED <<used, paired, faults>>

\* The lobby has answered: the handler starts the connection with the sockets
\* there are now.  The bridge may have given up meanwhile, or dialled again.
\* flushQueuedSignals then finds the queue empty.
FetchResumes(r) ==
    /\ r \in suspended
    /\ suspended' = suspended \ {r}
    /\ StartConnection(down, link, srv)
    /\ IF st[r] = "upgrade" THEN Upgraded(r) ELSE UNCHANGED <<st, last>>
    /\ UNCHANGED <<marked, srv, link, up, used, paired, faults>>

\* webSocketMessage, "restart": two requests for one connection start one.
ReceiveRestart(r) ==
    /\ r \in srv /\ up[r] # <<>> /\ Head(up[r]).type = "restart"
    /\ LET id == Head(up[r]).id
       IN  \/ /\ id = connId /\ srv = Roles
              /\ StartConnection(down, link, srv)
           \/ /\ id < connId
              /\ down' = Sent(down, r, Ready(connId))
              /\ UNCHANGED <<connId, queue>>
           \/ /\ id = connId /\ srv # Roles
              /\ UNCHANGED <<connId, queue, down>>
    /\ up' = [up EXCEPT ![r] = Tail(@)]
    /\ UNCHANGED <<marked, suspended, srv, link, bridges, faults>>

\* Mutant: the connection id of an SDP is not looked at.
AnySdp(id) == TRUE
SdpCurrent(id) == id = connId

\* webSocketMessage, "sdp": relayed, queued for an absent peer, or dropped
\* when it belongs to another connection.
ReceiveSdp(r) ==
    /\ r \in srv /\ up[r] # <<>> /\ Head(up[r]).type = "sdp"
    /\ LET m == Head(up[r])
           t == PeerRole(r)
       IN  \/ /\ ~SdpCurrent(m.id)
              /\ UNCHANGED <<down, queue>>
           \/ /\ SdpCurrent(m.id) /\ t \in srv
              /\ down' = Sent(down, t, m)
              /\ UNCHANGED queue
           \/ /\ SdpCurrent(m.id) /\ t \notin srv
              /\ queue' = [queue EXCEPT ![t] = Append(@, m)]
              /\ UNCHANGED down
    /\ up' = [up EXCEPT ![r] = Tail(@)]
    /\ UNCHANGED <<connId, marked, suspended, srv, link, bridges, faults>>

\* webSocketClose of a recovering bridge: the room stays.
SocketClosed(r) ==
    /\ r \in srv /\ ~link[r] /\ up[r] = <<>>
    /\ srv' = srv \ {r}
    /\ UNCHANGED <<connId, queue, marked, suspended, link, up, down, bridges,
                   faults>>
-----------------------------------------------------------------------------
(* The bridge *)

\* negotiate from its start: the offering side creates its endpoint and sends
\* the offer, the answering side waits for it.
Negotiate(r, id) ==
    /\ st' = [st EXCEPT ![r] = "sdp"]
    /\ last' = [last EXCEPT ![r] = id]
    /\ used' = [used EXCEPT ![r] = id]
    /\ up' = IF r = "offer" THEN Sent(up, r, Sdp(id)) ELSE up
    /\ UNCHANGED paired

\* Mutant: an announcement of the connection at hand starts it again.
NotOlder(m, id) == m.type = "ready-for-offer" /\ m.id >= id
Newer(m, id) == m.type = "ready-for-offer" /\ m.id > id

\* wait_ready, the NewConnection error of wait_sdp, and monitor_signal: a
\* newer id ends whatever the bridge is doing.
ReadReady(r) ==
    /\ st[r] \in {"ready", "sdp", "tunnel"}
    /\ down[r] # <<>> /\ Newer(Head(down[r]), last[r])
    /\ Negotiate(r, Head(down[r]).id)
    /\ down' = [down EXCEPT ![r] = Tail(@)]
    /\ UNCHANGED <<room, link, faults>>

AwaitedSdp(r, m) == st[r] = "sdp" /\ m.type = "sdp" /\ m.id = last[r]

\* wait_sdp has what it waits for: the answering side creates its endpoint and
\* sends the answer.  From here on the bridge does not read the socket until
\* the endpoint is connected or the negotiation ends.
ReadSdp(r) ==
    /\ down[r] # <<>> /\ AwaitedSdp(r, Head(down[r]))
    /\ st' = [st EXCEPT ![r] = "connecting"]
    /\ up' = IF r = "answer" THEN Sent(up, r, Sdp(last[r])) ELSE up
    /\ paired' = IF r = "offer" /\ st["answer"] = "connecting"
                       /\ last["answer"] = last[r]
                 THEN last[r] ELSE paired
    /\ down' = [down EXCEPT ![r] = Tail(@)]
    /\ UNCHANGED <<room, link, last, used, faults>>

\* Every other message is read and ignored.
ReadOther(r) ==
    /\ st[r] \in {"ready", "sdp", "tunnel"}
    /\ down[r] # <<>>
    /\ ~Newer(Head(down[r]), last[r]) /\ ~AwaitedSdp(r, Head(down[r]))
    /\ down' = [down EXCEPT ![r] = Tail(@)]
    /\ UNCHANGED <<room, link, up, bridges, faults>>

\* wait_connected, successful: both endpoints have each other's description.
Connected(r) ==
    /\ st[r] = "connecting" /\ paired = last[r]
    /\ st' = [st EXCEPT ![r] = "tunnel"]
    /\ UNCHANGED <<room, link, up, down, last, used, paired, faults>>

\* Mutant: the bridge waits for the other one to ask for a new connection.
RestartUnsent(r) ==
    /\ st' = [st EXCEPT ![r] = "ready"]
    /\ UNCHANGED <<room, link, up, down, last, used, paired>>

\* request_restart, and back to wait_ready.
RequestRestart(r) ==
    /\ st' = [st EXCEPT ![r] = "ready"]
    /\ up' = Sent(up, r, Restart(last[r]))
    /\ UNCHANGED <<room, link, down, last, used, paired>>

\* The other bridge has closed its endpoint of the connection r is at.
PeerGone(r) ==
    \/ st[PeerRole(r)] \notin {"sdp", "connecting", "tunnel"}
    \/ last[PeerRole(r)] # last[r]

\* The tunnel ends when its peer is gone (the heartbeat of the data channel).
TunnelEnds(r) ==
    /\ st[r] = "tunnel" /\ PeerGone(r)
    /\ RequestRestart(r) /\ UNCHANGED faults

\* The network takes the tunnel down.
TunnelBreaks(r) == st[r] = "tunnel" /\ Fault /\ RequestRestart(r)

\* A negotiation that cannot succeed any more: the room has started another
\* one, or the bridge has lost the socket its descriptions travel on.
Hopeless(r) == last[r] < connId \/ ~link[r]

\* The 12 seconds of a negotiation are over: of a hopeless one, or of one that
\* is slow.
NegotiationTimesOut(r) ==
    /\ st[r] \in {"sdp", "connecting"}
    /\ IF Hopeless(r) THEN UNCHANGED faults ELSE Fault
    /\ RequestRestart(r)

\* The bridge drops its signaling socket, to dial again or because its process
\* ends.  What it sent last may still arrive.
Drop(r, to) ==
    /\ st' = [st EXCEPT ![r] = to]
    /\ link' = [link EXCEPT ![r] = FALSE]
    /\ \E kept \in {<<>>, up[r]} : up' = [up EXCEPT ![r] = kept]
    /\ down' = [down EXCEPT ![r] = <<>>]
    /\ UNCHANGED <<room, last, used, paired>>

\* Any other error of a negotiation: ICE fails, or the endpoint notices that
\* the other one has closed.
NegotiationFails(r) ==
    /\ st[r] = "connecting"
    /\ IF PeerGone(r) THEN UNCHANGED faults ELSE Fault
    /\ Drop(r, "dial")

\* A bridge that reads its socket learns that it is broken: from the close,
\* from an error of TCP, or in the tunnel from 15 seconds without an answer.
SocketLost(r) ==
    /\ st[r] \in {"upgrade", "ready", "sdp", "tunnel"}
    /\ ~link[r] /\ down[r] = <<>>
    /\ Drop(r, "dial") /\ UNCHANGED faults

\* An attempt from which nothing is to be expected any more: a wait for the
\* server on a dead socket, which neither a ping nor a timeout of its own ends,
\* or any attempt once the process of the other bridge has ended.
Stranded(r) ==
    \/ st[r] \in {"upgrade", "ready"} /\ ~link[r]
    \/ st[PeerRole(r)] = "exited"

\* The deadline of the attempt, 45 seconds from the start or 60 from the end of
\* the last tunnel, ends the process: of a stranded attempt, or of a slow one.
DeadlineExceeded(r) ==
    /\ st[r] \in {"dial", "upgrade", "ready", "sdp", "connecting"}
    /\ IF Stranded(r) THEN UNCHANGED faults ELSE Fault
    /\ Drop(r, "exited")

\* The network (external): a socket stops carrying messages; what is under
\* way arrives or does not.
SocketBreaks(r) ==
    /\ link[r] /\ Fault
    /\ link' = [link EXCEPT ![r] = FALSE]
    /\ \E u \in {<<>>, up[r]}, d \in {<<>>, down[r]} :
           /\ up' = [up EXCEPT ![r] = u]
           /\ down' = [down EXCEPT ![r] = d]
    /\ UNCHANGED <<room, bridges>>
-----------------------------------------------------------------------------
RoomSteps(r) == ReceiveRestart(r) \/ ReceiveSdp(r) \/ FetchResumes(r)
BridgeSteps(r) ==
    \/ Fetch(r) \/ ReadReady(r) \/ ReadSdp(r) \/ ReadOther(r) \/ Connected(r)
    \/ TunnelEnds(r)

Next ==
    \E r \in Roles :
        \/ Fetch(r) \/ FetchResumes(r) \/ ReceiveRestart(r) \/ ReceiveSdp(r)
        \/ SocketClosed(r)
        \/ ReadReady(r) \/ ReadSdp(r) \/ ReadOther(r) \/ Connected(r)
        \/ TunnelEnds(r) \/ TunnelBreaks(r) \/ NegotiationTimesOut(r)
        \/ NegotiationFails(r) \/ SocketLost(r) \/ DeadlineExceeded(r)
        \/ SocketBreaks(r)

Spec == Init /\ [][Next]_vars

\* The room handles what arrives, the bridges read their sockets and keep
\* their timers: the one of a negotiation, the heartbeat of the signaling socket
\* beside a tunnel, and the deadline.  A broken socket need not be noticed
\* anywhere else, neither by the bridge nor by the server, and faults need not
\* happen.  The deadline counts only for a stranded attempt: two bridges that
\* wait for each other over working sockets are not excused by it.
HopelessTimeout(r) == Hopeless(r) /\ NegotiationTimesOut(r)
HeartbeatTimeout(r) == st[r] = "tunnel" /\ SocketLost(r)
StrandedDeadline(r) == Stranded(r) /\ DeadlineExceeded(r)
FairSpec ==
    /\ Spec
    /\ \A r \in Roles : /\ WF_vars(RoomSteps(r)) /\ WF_vars(BridgeSteps(r))
                        /\ WF_vars(HopelessTimeout(r))
                        /\ WF_vars(HeartbeatTimeout(r))
                        /\ WF_vars(StrandedDeadline(r))
-----------------------------------------------------------------------------
\* Of what a socket or the queue holds.
Known(buffer, id) == \A j \in DOMAIN buffer : buffer[j].id <= id

\* No SDP is older than id, nor than an announcement before it.
InOrder(buffer, id) ==
    \A j \in DOMAIN buffer : buffer[j].type = "sdp" =>
        /\ buffer[j].id >= id
        /\ \A i \in DOMAIN buffer :
               i < j /\ buffer[i].type = "ready-for-offer" =>
                   buffer[i].id <= buffer[j].id

\* The room and the bridges keep their shape, and no bridge knows an id the
\* room has not stored.
TypeOK ==
    /\ connId \in Nat /\ marked \in BOOLEAN
    /\ queue \in [Roles -> Seq(QueuedSdp)]
    /\ suspended \subseteq Roles /\ srv \subseteq Roles
    /\ link \in [Roles -> BOOLEAN]
    /\ up \in [Roles -> Seq(ToRoom)] /\ down \in [Roles -> Seq(ToBridge)]
    /\ st \in [Roles -> BridgeStates]
    /\ last \in [Roles -> 0 .. connId] /\ used \in [Roles -> 0 .. connId]
    /\ paired \in 0 .. connId /\ faults \in 0 .. MaxFaults
    /\ \A r \in Roles : /\ Known(down[r], connId) /\ Known(up[r], connId)
                        /\ Known(queue[r], connId)

\* A bridge never negotiates an id a second time, not over a new signaling
\* socket either, on which it starts again from zero: an SDP is matched by its
\* id only, and would be taken for the one of the endpoint before.
FreshConnection ==
    [][\A r \in Roles :
          st'[r] = "sdp" /\ <<st[r], last[r]>>' # <<st[r], last[r]>>
              => last'[r] > used[r]]_vars

\* On no socket does an SDP follow the announcement of a newer connection
\* ("never deliver SDP from a previous recovery"), whether it was relayed or
\* waited in the queue.
NoStaleSdp == \A r \in Roles : st[r] # "dial" => InOrder(down[r], last[r])

\* A bridge whose connection was superseded has the announcement of a newer one
\* in its socket, unless the socket is broken, or is new and the other bridge
\* is not there yet.
SupersededHears ==
    \A r \in Roles :
        st[r] \in {"ready", "sdp", "connecting", "tunnel"} /\ link[r]
                /\ last[r] < connId =>
            \/ \E j \in DOMAIN down[r] : Newer(down[r][j], last[r])
            \/ last[r] = 0 /\ PeerRole(r) \notin srv

\* Once the faults are over both bridges run a tunnel of one connection and keep
\* it, or the deadline has ended both: a bridge is not left waiting for one that
\* has given up, and two that go on trying with working sockets find each other
\* (wait_ready and wait_sdp wait without a timeout of their own).
Recovers ==
    \/ <>[](/\ \A r \in Roles : st[r] = "tunnel"
            /\ last["offer"] = last["answer"])
    \/ <>[](\A r \in Roles : st[r] = "exited")
=============================================================================
