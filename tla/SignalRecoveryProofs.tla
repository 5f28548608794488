------------------------- MODULE SignalRecoveryProofs -------------------------
(***************************************************************************)
(* For every number of faults: the ids, the order of what the sockets hold *)
(* and the announcements of SignalRecovery.                                *)
(***************************************************************************)
EXTENDS SignalRecovery, SequenceTheorems, TLAPS

-----------------------------------------------------------------------------
(* Buffers *)

Message == [type : {"ready-for-offer", "sdp", "restart"}, id : Nat \ {0}]

\* No announcement is of an id up to this one.
Fresh(buffer, id) ==
    \A j \in DOMAIN buffer : buffer[j].type = "ready-for-offer" => buffer[j].id > id

Holds(buffer, m) == \E j \in DOMAIN buffer : buffer[j] = m

\* The indices and elements of a buffer with a message at its end, as send
\* leaves it.
LEMMA Appended ==
  ASSUME NEW S, NEW b \in Seq(S), NEW m \in S
  PROVE  /\ Append(b, m) \in Seq(S) /\ Append(b, m) # <<>>
         /\ Len(b) \in Nat /\ DOMAIN b = 1 .. Len(b)
         /\ DOMAIN Append(b, m) = 1 .. (Len(b) + 1)
         /\ \A j \in 1 .. Len(b) : Append(b, m)[j] = b[j]
         /\ Append(b, m)[Len(b) + 1] = m
BY AppendProperties, LenProperties

\* The indices and elements of a buffer whose first message has been read.
LEMMA Read ==
  ASSUME NEW S, NEW b \in Seq(S), b # <<>>
  PROVE  /\ Tail(b) \in Seq(S) /\ Head(b) \in S /\ Head(b) = b[1]
         /\ Len(b) \in Nat \ {0} /\ DOMAIN b = 1 .. Len(b)
         /\ DOMAIN Tail(b) = 1 .. (Len(b) - 1)
         /\ \A j \in 1 .. (Len(b) - 1) : Tail(b)[j] = b[j + 1]
<1>1. Len(b) \in Nat \ {0} /\ DOMAIN b = 1 .. Len(b)
  BY LenProperties, EmptySeq
<1>2. Tail(b) \in Seq(S) /\ Head(b) \in S /\ Head(b) = b[1] /\ Len(Tail(b)) = Len(b) - 1
      /\ \A j \in 1 .. Len(Tail(b)) : Tail(b)[j] = b[j + 1]
  BY HeadTailProperties, <1>1, ElementOfSeq
<1> QED BY <1>1, <1>2, LenProperties

\* What the room holds about an id it also holds about a later one.
LEMMA KnownLater ==
  ASSUME NEW b \in Seq(Message), NEW c \in Nat, NEW d \in Nat, c <= d, Known(b, c)
  PROVE  Known(b, d)
<1>1. \A j \in DOMAIN b : b[j] \in Message
  BY ElementOfSeq, LenProperties
<1>2. \A j \in DOMAIN b : b[j].id \in Nat
  BY <1>1 DEF Message
<1> QED BY <1>2 DEF Known

\* Nothing is wrong with an empty socket.
LEMMA EmptyBuffer ==
  ASSUME NEW id
  PROVE  Known(<<>>, id) /\ InOrder(<<>>, id) /\ Fresh(<<>>, id)
BY DEF Known, InOrder, Fresh

\* An appended message that is known leaves everything known.
LEMMA KnownAppend ==
  ASSUME NEW b \in Seq(Message), NEW m \in Message, NEW c \in Nat,
         Known(b, c), m.id <= c
  PROVE  Known(Append(b, m), c)
BY Appended DEF Known

\* The rest of a known buffer is known, and so is its first message.
LEMMA KnownTail ==
  ASSUME NEW b \in Seq(Message), b # <<>>, NEW c \in Nat, Known(b, c)
  PROVE  Known(Tail(b), c) /\ Head(b).id <= c
BY Read DEF Known

\* An announcement at its end leaves a socket in order.
LEMMA InOrderReady ==
  ASSUME NEW b \in Seq(Message), NEW id \in Nat, NEW c \in Nat \ {0}, InOrder(b, id)
  PROVE  InOrder(Append(b, Ready(c)), id)
<1>1. Ready(c) \in Message
  BY DEF Ready, Message
<1> QED BY <1>1, Appended DEF InOrder, Ready

\* An SDP of the newest id at its end leaves a socket in order.
LEMMA InOrderSdp ==
  ASSUME NEW b \in Seq(Message), NEW id \in Nat, NEW m \in Message,
         InOrder(b, id), Known(b, m.id), id <= m.id
  PROVE  InOrder(Append(b, m), id)
<1>1. m.id \in Nat
  BY DEF Message
<1> QED BY <1>1, Appended DEF InOrder, Known

\* The rest of a socket in order is in order.
LEMMA InOrderTail ==
  ASSUME NEW b \in Seq(Message), b # <<>>, NEW id \in Nat, InOrder(b, id)
  PROVE  InOrder(Tail(b), id)
<1>1. Len(b) \in Nat \ {0} /\ DOMAIN b = 1 .. Len(b)
      /\ DOMAIN Tail(b) = 1 .. (Len(b) - 1)
      /\ \A j \in 1 .. (Len(b) - 1) : Tail(b)[j] = b[j + 1]
  BY Read
<1> SUFFICES ASSUME NEW j \in 1 .. (Len(b) - 1), Tail(b)[j].type = "sdp"
             PROVE  /\ Tail(b)[j].id >= id
                    /\ \A i \in 1 .. (Len(b) - 1) :
                          i < j /\ Tail(b)[i].type = "ready-for-offer"
                              => Tail(b)[i].id <= Tail(b)[j].id
  BY <1>1 DEF InOrder
<1>2. j + 1 \in DOMAIN b /\ b[j + 1].type = "sdp"
  BY <1>1
<1>3. b[j + 1].id >= id
  BY <1>2 DEF InOrder
<1>4. ASSUME NEW i \in 1 .. (Len(b) - 1), i < j, Tail(b)[i].type = "ready-for-offer"
      PROVE  Tail(b)[i].id <= Tail(b)[j].id
  <2>1. i + 1 \in DOMAIN b /\ i + 1 < j + 1 /\ b[i + 1].type = "ready-for-offer"
    BY <1>1, <1>4
  <2>2. b[i + 1].id <= b[j + 1].id
    BY <1>2, <2>1 DEF InOrder
  <2> QED BY <1>1, <1>4, <2>2
<1> QED BY <1>1, <1>3, <1>4

\* What follows an announcement is in order with respect to it.
LEMMA InOrderAfterReady ==
  ASSUME NEW b \in Seq(Message), b # <<>>, NEW id \in Nat, InOrder(b, id),
         Head(b).type = "ready-for-offer"
  PROVE  InOrder(Tail(b), Head(b).id)
<1>1. Len(b) \in Nat \ {0} /\ DOMAIN b = 1 .. Len(b) /\ Head(b) = b[1]
      /\ DOMAIN Tail(b) = 1 .. (Len(b) - 1)
      /\ \A j \in 1 .. (Len(b) - 1) : Tail(b)[j] = b[j + 1]
      /\ Head(b) \in Message /\ Tail(b) \in Seq(Message)
  BY Read
<1>2. InOrder(Tail(b), id)
  BY InOrderTail
<1>3. \A j \in 1 .. (Len(b) - 1) : Tail(b)[j] \in Message
  BY <1>1, ElementOfSeq, LenProperties
<1>4. \A j \in 1 .. (Len(b) - 1) : Tail(b)[j].id \in Nat
  BY <1>3 DEF Message
<1>5. ASSUME NEW j \in 1 .. (Len(b) - 1), Tail(b)[j].type = "sdp"
      PROVE  Tail(b)[j].id >= Head(b).id
  <2>1. 1 \in DOMAIN b /\ j + 1 \in DOMAIN b /\ 1 < j + 1
        /\ b[j + 1].type = "sdp" /\ b[1].type = "ready-for-offer"
    BY <1>1, <1>5
  <2>2. b[1].id <= b[j + 1].id
    BY <2>1 DEF InOrder
  <2> QED BY <1>1, <1>5, <2>2, <1>4 DEF Message
<1> QED BY <1>1, <1>2, <1>5 DEF InOrder

\* A socket into which only SDP went is in order from zero, and announces
\* nothing.
LEMMA SdpOnly ==
  ASSUME NEW b \in Seq(QueuedSdp), NEW id
  PROVE  InOrder(b, 0) /\ Fresh(b, id)
<1>1. \A j \in DOMAIN b : b[j] \in QueuedSdp
  BY ElementOfSeq, LenProperties
<1> QED BY <1>1 DEF InOrder, Fresh, QueuedSdp

\* A later announcement is as new as those before it.
LEMMA FreshAppend ==
  ASSUME NEW b \in Seq(Message), NEW m \in Message, NEW id \in Nat, Fresh(b, id),
         m.type = "ready-for-offer" => m.id > id
  PROVE  Fresh(Append(b, m), id)
BY Appended DEF Fresh

\* The rest of the announcements are new as well.
LEMMA FreshTail ==
  ASSUME NEW b \in Seq(Message), b # <<>>, NEW id \in Nat, Fresh(b, id)
  PROVE  /\ Fresh(Tail(b), id)
         /\ Head(b).type = "ready-for-offer" => Head(b).id > id
<1>1. Len(b) \in Nat \ {0} /\ DOMAIN b = 1 .. Len(b) /\ Head(b) = b[1]
      /\ DOMAIN Tail(b) = 1 .. (Len(b) - 1)
      /\ \A j \in 1 .. (Len(b) - 1) : Tail(b)[j] = b[j + 1] /\ j + 1 \in DOMAIN b
  BY Read
<1> QED BY <1>1 DEF Fresh

\* What a socket holds stays in it when more is sent.
LEMMA HoldsAppend ==
  ASSUME NEW b \in Seq(Message), NEW m \in Message, NEW n
  PROVE  /\ Holds(b, n) => Holds(Append(b, m), n)
         /\ Holds(Append(b, m), m)
BY Appended DEF Holds

\* What a socket holds is read next or stays.
LEMMA HoldsTail ==
  ASSUME NEW b \in Seq(Message), b # <<>>, NEW n, Holds(b, n), Head(b) # n
  PROVE  Holds(Tail(b), n)
<1>1. Len(b) \in Nat \ {0} /\ DOMAIN b = 1 .. Len(b) /\ Head(b) = b[1]
      /\ DOMAIN Tail(b) = 1 .. (Len(b) - 1)
      /\ \A j \in 1 .. (Len(b) - 1) : Tail(b)[j] = b[j + 1]
  BY Read
<1>2. PICK j \in DOMAIN b : b[j] = n
  BY DEF Holds
<1>3. j # 1 /\ j \in Nat
  BY <1>1, <1>2
<1>4. j - 1 \in 1 .. (Len(b) - 1) /\ Tail(b)[j - 1] = b[(j - 1) + 1] /\ (j - 1) + 1 = j
  BY <1>1, <1>3
<1> QED BY <1>1, <1>2, <1>4 DEF Holds

-----------------------------------------------------------------------------
(* The inductive invariant *)

\* A socket that carries messages is attached to the room, and a bridge that
\* dials has none.
SocketFacts ==
    \A r \in Roles : /\ link[r] => r \in srv
                     /\ st[r] = "dial" => ~link[r]

\* On a socket a bridge counts from zero; the first id it takes from it is the
\* newest it ever took, and it sends nothing before.
Counting ==
    /\ ~marked => connId = 0 /\ suspended = {}
    /\ \A r \in Roles :
        /\ st[r] \in {"sdp", "connecting", "tunnel"} => last[r] > 0
        /\ st[r] \in {"ready", "sdp", "connecting", "tunnel"} => last[r] \in {0, used[r]}
        /\ link[r] /\ up[r] # <<>> => last[r] > 0
        /\ st[r] = "upgrade" => used[r] = 0 /\ last[r] = 0

\* A bridge that counts from zero finds new ids only.
FreshIds ==
    \A r \in Roles : st[r] # "dial" /\ last[r] = 0 => Fresh(down[r], used[r])

\* A bridge that reads its socket.
Online(r) == st[r] \in {"ready", "sdp", "connecting", "tunnel"} /\ link[r]

\* SupersededHears, of the current id; what waits on a socket whose bridge is
\* alone announces nothing.
Hears ==
    \A r \in Roles : Online(r) /\ last[r] < connId =>
        \/ Holds(down[r], Ready(connId))
        \/ /\ last[r] = 0 /\ PeerRole(r) \notin srv
           /\ Fresh(down[r], connId)

IInv == TypeOK /\ SocketFacts /\ Counting /\ FreshIds /\ Hears /\ NoStaleSdp

-----------------------------------------------------------------------------
(* The steps *)

\* What the type invariant says of a buffer, in terms of the lemmas above.
LEMMA BufferTypes ==
  ASSUME TypeOK, NEW r \in Roles
  PROVE  /\ down[r] \in Seq(ToBridge) /\ down[r] \in Seq(Message)
         /\ up[r] \in Seq(ToRoom) /\ up[r] \in Seq(Message)
         /\ queue[r] \in Seq(QueuedSdp) /\ queue[r] \in Seq(Message)
         /\ Known(down[r], connId) /\ Known(up[r], connId) /\ Known(queue[r], connId)
<1>1. ToBridge \subseteq Message /\ ToRoom \subseteq Message /\ QueuedSdp \subseteq Message
  BY DEF ToBridge, ToRoom, QueuedSdp, Message
<1>2. down[r] \in Seq(ToBridge) /\ up[r] \in Seq(ToRoom) /\ queue[r] \in Seq(QueuedSdp)
  BY DEF TypeOK
<1>3. down[r] \in Seq(Message) /\ up[r] \in Seq(Message) /\ queue[r] \in Seq(Message)
  BY <1>1, <1>2, SeqMonotonic
<1> QED BY <1>2, <1>3 DEF TypeOK

\* The values the bridges and their sockets take.
LEMMA Values ==
  ASSUME TypeOK, NEW r \in Roles
  PROVE  /\ connId \in Nat /\ last[r] \in 0 .. connId /\ used[r] \in 0 .. connId
         /\ last[r] \in Nat /\ used[r] \in Nat
         /\ DOMAIN down = Roles /\ DOMAIN up = Roles /\ DOMAIN queue = Roles
         /\ DOMAIN st = Roles /\ DOMAIN last = Roles /\ DOMAIN used = Roles
         /\ DOMAIN link = Roles
         /\ st[r] \in BridgeStates
         /\ link[r] \in BOOLEAN /\ PeerRole(r) \in Roles /\ PeerRole(r) # r
BY DEF TypeOK, PeerRole, Roles

\* The type invariant holds when what the sockets hold has its type and is
\* known, and the rest has its type.
LEMMA TypeFromParts ==
  ASSUME connId' \in Nat, marked' \in BOOLEAN, suspended' \subseteq Roles,
         srv' \subseteq Roles, link' \in [Roles -> BOOLEAN],
         up' = [q \in Roles |-> up'[q]],
         down' = [q \in Roles |-> down'[q]], queue' = [q \in Roles |-> queue'[q]],
         st' \in [Roles -> BridgeStates],
         last' \in [Roles -> 0 .. connId'], used' \in [Roles -> 0 .. connId'],
         paired' \in 0 .. connId', faults' \in 0 .. MaxFaults,
         \A q \in Roles : /\ up'[q] \in Seq(ToRoom) /\ Known(up'[q], connId')
                          /\ down'[q] \in Seq(ToBridge) /\ Known(down'[q], connId')
                          /\ queue'[q] \in Seq(QueuedSdp) /\ Known(queue'[q], connId')
  PROVE  TypeOK'
BY DEF TypeOK

\* One role's entry replaced.
LEMMA Updated ==
  ASSUME NEW S, NEW f \in [Roles -> S], NEW r \in Roles, NEW v \in S
  PROVE  /\ [f EXCEPT ![r] = v] \in [Roles -> S]
         /\ [f EXCEPT ![r] = v][r] = v
         /\ \A q \in Roles : q # r => [f EXCEPT ![r] = v][q] = f[q]
OBVIOUS

\* A function over the roles, by its values.
LEMMA ByRole ==
  ASSUME NEW S, NEW f \in [Roles -> S]
  PROVE  f = [q \in Roles |-> f[q]] /\ \A q \in Roles : f[q] \in S
OBVIOUS

\* Ids up to the newest stay so when the room stores the next.
LEMMA RangeLater ==
  ASSUME NEW c \in Nat, NEW f \in [Roles -> 0 .. c]
  PROVE  f \in [Roles -> 0 .. (c + 1)]
<1>1. \A x \in 0 .. c : x \in 0 .. (c + 1)
  OBVIOUS
<1> QED BY <1>1

\* The invariant holds before anybody has dialled.
LEMMA InitIInv == Init => IInv
<1> SUFFICES ASSUME Init PROVE IInv
  OBVIOUS
<1>1. TypeOK
  <2>1. /\ connId \in Nat /\ paired \in 0 .. connId /\ faults \in 0 .. MaxFaults
    BY SignalAssumption DEF Init
  <2>2. /\ marked \in BOOLEAN /\ suspended \subseteq Roles
        /\ srv \subseteq Roles /\ link \in [Roles -> BOOLEAN]
    BY Zenon DEF Init
  <2>3. /\ queue \in [Roles -> Seq(QueuedSdp)] /\ up \in [Roles -> Seq(ToRoom)]
        /\ down \in [Roles -> Seq(ToBridge)]
    BY EmptySeq DEF Init
  <2>4. /\ st \in [Roles -> BridgeStates]
        /\ last \in [Roles -> 0 .. connId] /\ used \in [Roles -> 0 .. connId]
    BY DEF Init, BridgeStates
  <2>5. \A r \in Roles : /\ Known(down[r], connId) /\ Known(up[r], connId)
                         /\ Known(queue[r], connId)
    BY EmptyBuffer DEF Init
  <2> QED BY <2>1, <2>2, <2>3, <2>4, <2>5 DEF TypeOK
<1>2. \A r \in Roles : /\ st[r] = "dial" /\ link[r] = FALSE /\ up[r] = <<>>
                       /\ last[r] = 0 /\ used[r] = 0
  BY DEF Init
<1>3. SocketFacts /\ FreshIds /\ Hears /\ NoStaleSdp
  BY <1>2 DEF SocketFacts, FreshIds, Hears, Online, NoStaleSdp
<1>4. Counting
  BY <1>2 DEF Init, Counting
<1> QED BY <1>1, <1>3, <1>4 DEF IInv

-----------------------------------------------------------------------------
(* The room *)

\* What the sockets hold after the broadcast.
LEMMA AnnounceBuffers ==
  ASSUME NEW d \in [Roles -> Seq(ToBridge)], NEW l, NEW s, connId \in Nat,
         NEW q \in Roles, Known(d[q], connId)
  PROVE  /\ Announce(d, l, s)[q] \in Seq(ToBridge)
         /\ Known(Announce(d, l, s)[q], connId + 1)
         /\ q \in s /\ l[q] => Holds(Announce(d, l, s)[q], Ready(connId + 1))
         /\ \A id \in Nat : InOrder(d[q], id) => InOrder(Announce(d, l, s)[q], id)
         /\ \A id \in 0 .. connId : Fresh(d[q], id) => Fresh(Announce(d, l, s)[q], id)
<1> DEFINE m == Ready(connId + 1)
<1>1. m \in ToBridge /\ m \in Message /\ m.id = connId + 1 /\ m.type = "ready-for-offer"
  BY DEF Ready, ToBridge, Message
<1>2. d[q] \in Seq(ToBridge) /\ d[q] \in Seq(Message)
  <2>1. ToBridge \subseteq Message
    BY DEF ToBridge, Message
  <2> QED BY <2>1, SeqMonotonic
<1>3. Known(d[q], connId + 1)
  BY <1>2, KnownLater
<1>4. CASE q \in s /\ l[q]
  <2>1. Announce(d, l, s)[q] = Append(d[q], m)
    BY <1>4 DEF Announce, Announced
  <2>2. Append(d[q], m) \in Seq(ToBridge)
    BY <1>1, <1>2, Appended
  <2>3. Known(Append(d[q], m), connId + 1)
    BY <1>1, <1>2, <1>3, KnownAppend
  <2>4. Holds(Append(d[q], m), m)
    BY <1>1, <1>2, HoldsAppend
  <2>5. ASSUME NEW id \in Nat, InOrder(d[q], id)
        PROVE  InOrder(Append(d[q], m), id)
    BY <1>2, <2>5, InOrderReady
  <2>6. ASSUME NEW id \in 0 .. connId, Fresh(d[q], id)
        PROVE  Fresh(Append(d[q], m), id)
    <3>1. id \in Nat /\ m.id > id
      BY <1>1
    <3> QED BY <1>1, <1>2, <2>6, <3>1, FreshAppend
  <2> QED BY <2>1, <2>2, <2>3, <2>4, <2>5, <2>6
<1>5. CASE ~(q \in s /\ l[q])
  <2>1. Announce(d, l, s)[q] = d[q]
    BY <1>5 DEF Announce, Announced
  <2> QED BY <1>2, <1>3, <1>5, <2>1
<1> QED BY <1>4, <1>5

\* startConnection keeps the order of the sockets, and every bridge on a socket
\* that works finds the announcement of the new id.
LEMMA StartConnectionStep ==
  ASSUME IInv, NEW d \in [Roles -> Seq(ToBridge)],
         NEW l \in [Roles -> BOOLEAN], NEW s \in SUBSET Roles,
         StartConnection(d, l, s), link' = l, srv' = s, used' = used,
         last' \in [Roles -> 0 .. connId],
         \A q \in Roles : l[q] => q \in s,
         \A q \in Roles : Known(d[q], connId),
         \A q \in Roles : st'[q] # "dial" => InOrder(d[q], last'[q]),
         \A q \in Roles : st'[q] # "dial" /\ last'[q] = 0 => Fresh(d[q], used[q])
  PROVE  /\ NoStaleSdp' /\ FreshIds' /\ Hears'
         /\ connId' = connId + 1
         /\ down' = [q \in Roles |-> down'[q]] /\ queue' = [q \in Roles |-> queue'[q]]
         /\ \A q \in Roles : /\ down'[q] \in Seq(ToBridge) /\ Known(down'[q], connId')
                             /\ queue'[q] \in Seq(QueuedSdp) /\ Known(queue'[q], connId')
<1>1. TypeOK /\ connId \in Nat /\ used \in [Roles -> 0 .. connId]
  BY DEF IInv, TypeOK
<1>2. connId' = connId + 1 /\ queue' = [q \in Roles |-> <<>>]
      /\ down' = Announce(d, l, s)
  BY DEF StartConnection, StoredId, DropRecoverySdp
<1>3. down' = [q \in Roles |-> down'[q]] /\ queue' = [q \in Roles |-> queue'[q]]
  BY <1>2 DEF Announce
<1>4. \A q \in Roles : queue'[q] \in Seq(QueuedSdp) /\ Known(queue'[q], connId')
  <2>1. <<>> \in Seq(QueuedSdp) /\ Known(<<>>, connId')
    BY EmptyBuffer
  <2> QED BY <1>2, <2>1
<1>5. ASSUME NEW q \in Roles
      PROVE  /\ down'[q] \in Seq(ToBridge) /\ Known(down'[q], connId')
             /\ l[q] => Holds(down'[q], Ready(connId'))
             /\ \A id \in Nat : InOrder(d[q], id) => InOrder(down'[q], id)
             /\ \A id \in 0 .. connId : Fresh(d[q], id) => Fresh(down'[q], id)
  BY <1>1, <1>2, AnnounceBuffers
<1>6. \A q \in Roles : last'[q] \in Nat /\ used[q] \in 0 .. connId
  BY <1>1
<1>7. NoStaleSdp'
  BY <1>5, <1>6 DEF NoStaleSdp
<1>8. FreshIds'
  BY <1>5, <1>6 DEF FreshIds
<1>9. Hears'
  BY <1>5 DEF Hears, Online
<1> QED BY <1>2, <1>3, <1>4, <1>5, <1>7, <1>8, <1>9

\* A dial that finds the other bridge starts a connection, one that does not is
\* given what waits for it.
LEMMA FetchStep ==
  ASSUME IInv, NEW r \in Roles, Fetch(r)
  PROVE  IInv'
<1> DEFINE s == srv \cup {r}
           l == [link EXCEPT ![r] = TRUE]
           d == [down EXCEPT ![r] = <<>>]
<1>1. TypeOK /\ SocketFacts /\ Counting /\ FreshIds /\ Hears /\ NoStaleSdp
  BY DEF IInv
<1>2. /\ st[r] = "dial" /\ srv' = s /\ link' = l
      /\ up' = [up EXCEPT ![r] = <<>>]
      /\ used' = used /\ paired' = paired /\ faults' = faults
  BY DEF Fetch
<1>3. /\ srv \subseteq Roles /\ link \in [Roles -> BOOLEAN] /\ connId \in Nat
      /\ down \in [Roles -> Seq(ToBridge)] /\ up \in [Roles -> Seq(ToRoom)]
      /\ queue \in [Roles -> Seq(QueuedSdp)]
      /\ last \in [Roles -> 0 .. connId] /\ used \in [Roles -> 0 .. connId]
      /\ marked \in BOOLEAN /\ suspended \subseteq Roles
      /\ paired \in 0 .. connId /\ faults \in 0 .. MaxFaults
      /\ st \in [Roles -> BridgeStates]
      /\ \A q \in Roles : Known(down[q], connId) /\ Known(up[q], connId)
                          /\ Known(queue[q], connId)
  BY <1>1 DEF TypeOK
<1>4. /\ d \in [Roles -> Seq(ToBridge)] /\ d[r] = <<>>
      /\ \A q \in Roles : q # r => d[q] = down[q]
  BY <1>3
<1>5. \A q \in Roles : Known(d[q], connId)
  BY <1>3, <1>4, EmptyBuffer
<1>6. /\ up' = [q \in Roles |-> up'[q]] /\ up'[r] = <<>>
      /\ \A q \in Roles : q # r => up'[q] = up[q]
      /\ \A q \in Roles : up'[q] \in Seq(ToRoom)
  <2>1. <<>> \in Seq(ToRoom)
    BY EmptySeq
  <2>2. /\ up' \in [Roles -> Seq(ToRoom)] /\ up'[r] = <<>>
        /\ \A q \in Roles : q # r => up'[q] = up[q]
    BY <1>2, <1>3, <2>1, Updated
  <2> QED BY <2>2, ByRole
<1>7. \A q \in Roles : Known(up'[q], connId)
  BY <1>3, <1>6, EmptyBuffer
<1>8. /\ l \in [Roles -> BOOLEAN] /\ s \subseteq Roles
      /\ \A q \in Roles : q # r => l[q] = link[q]
      /\ \A q \in Roles : l[q] => q \in s
  BY <1>1, <1>3 DEF SocketFacts
<1>9. CASE s = Roles /\ ~marked
  <2>1. /\ marked' = TRUE /\ suspended' = suspended \cup {r}
        /\ st' = [st EXCEPT ![r] = "upgrade"] /\ down' = d
        /\ connId' = connId /\ queue' = queue /\ last' = last
    BY <1>9 DEF Fetch
  <2>2. connId = 0
    BY <1>1, <1>9 DEF Counting
  <2>3. \A q \in Roles : last[q] = 0 /\ used[q] = 0
    BY <1>3, <2>2
  <2>4. st'[r] = "upgrade" /\ \A q \in Roles : q # r => st'[q] = st[q]
    BY <1>3, <2>1
  <2>5. TypeOK'
    BY <1>2, <1>3, <1>4, <1>5, <1>6, <1>7, <1>8, <2>1, TypeFromParts DEF BridgeStates
  <2>6. SocketFacts'
    BY <1>1, <1>2, <1>8, <2>4 DEF SocketFacts
  <2>7. Counting'
    BY <1>1, <1>2, <1>6, <1>8, <2>1, <2>2, <2>3, <2>4 DEF Counting
  <2>8. FreshIds'
    BY <1>1, <1>2, <1>4, <2>1, <2>4, EmptyBuffer DEF FreshIds
  <2>9. Hears'
    BY <2>1, <2>2, <2>3 DEF Hears
  <2>10. NoStaleSdp'
    BY <1>1, <1>4, <2>1, <2>4, EmptyBuffer DEF NoStaleSdp
  <2> QED BY <2>5, <2>6, <2>7, <2>8, <2>9, <2>10 DEF IInv
<1>10. CASE ~(s = Roles /\ ~marked)
  <2>1. /\ st' = [st EXCEPT ![r] = "ready"] /\ last' = [last EXCEPT ![r] = 0]
        /\ marked' = marked /\ suspended' = suspended
        /\ IF s = Roles THEN StartConnection(d, l, s) ELSE FlushQueuedSignals(r)
    BY <1>10 DEF Fetch, Upgraded
  <2>2. /\ st'[r] = "ready" /\ last'[r] = 0
        /\ \A q \in Roles : q # r => st'[q] = st[q] /\ last'[q] = last[q]
        /\ last' \in [Roles -> 0 .. connId]
        /\ st' \in [Roles -> BridgeStates]
    BY <1>3, <2>1 DEF BridgeStates
  <2>3. SocketFacts'
    BY <1>1, <1>2, <1>8, <2>2 DEF SocketFacts
  <2>4. \A q \in Roles :
            /\ st'[q] \in {"sdp", "connecting", "tunnel"} => last'[q] > 0
            /\ st'[q] \in {"ready", "sdp", "connecting", "tunnel"} =>
                   last'[q] \in {0, used'[q]}
            /\ link'[q] /\ up'[q] # <<>> => last'[q] > 0
            /\ st'[q] = "upgrade" => used'[q] = 0 /\ last'[q] = 0
    BY <1>1, <1>2, <1>6, <1>8, <2>2 DEF Counting
  <2>5. CASE s = Roles
    <3>1. StartConnection(d, l, s) /\ marked = TRUE
      BY <1>3, <1>10, <2>1, <2>5
    <3>2. \A q \in Roles : st'[q] # "dial" => InOrder(d[q], last'[q])
      BY <1>1, <1>4, <2>2, EmptyBuffer DEF NoStaleSdp
    <3>3. \A q \in Roles : st'[q] # "dial" /\ last'[q] = 0 => Fresh(d[q], used[q])
      BY <1>1, <1>4, <2>2, EmptyBuffer DEF FreshIds
    <3>4. /\ NoStaleSdp' /\ FreshIds' /\ Hears'
          /\ connId' = connId + 1
          /\ down' = [q \in Roles |-> down'[q]] /\ queue' = [q \in Roles |-> queue'[q]]
          /\ \A q \in Roles : /\ down'[q] \in Seq(ToBridge) /\ Known(down'[q], connId')
                              /\ queue'[q] \in Seq(QueuedSdp) /\ Known(queue'[q], connId')
      <4> HIDE DEF d, l, s
      <4> QED BY <1>2, <1>4, <1>5, <1>8, <2>2, <3>1, <3>2, <3>3, StartConnectionStep
    <3>5. connId' \in Nat /\ \A q \in Roles : Known(up'[q], connId')
      <4>1. \A q \in Roles : up'[q] \in Seq(Message)
        <5>1. ToRoom \subseteq Message
          BY DEF ToRoom, Message
        <5> QED BY <1>6, <5>1, SeqMonotonic
      <4>2. connId' \in Nat /\ connId <= connId'
        BY <1>3, <3>4
      <4> QED BY <1>3, <1>7, <4>1, <4>2, KnownLater
    <3>6. /\ last' \in [Roles -> 0 .. connId'] /\ used' \in [Roles -> 0 .. connId']
          /\ paired' \in 0 .. connId'
      <4>1. paired \in 0 .. (connId + 1)
        BY <1>3
      <4> QED BY <1>2, <1>3, <2>2, <3>4, <4>1, RangeLater
    <3>7. TypeOK'
      BY <1>2, <1>3, <1>6, <1>8, <2>1, <2>2, <3>4, <3>5, <3>6, TypeFromParts
    <3>8. Counting'
      BY <2>1, <2>4, <3>1 DEF Counting
    <3> QED BY <2>3, <3>4, <3>7, <3>8 DEF IInv
  <2>6. CASE s # Roles
    <3>1. /\ down' = [down EXCEPT ![r] = queue[r]] /\ queue' = [queue EXCEPT ![r] = <<>>]
          /\ connId' = connId
      BY <2>1, <2>6 DEF FlushQueuedSignals
    <3>2. /\ down'[r] = queue[r] /\ \A q \in Roles : q # r => down'[q] = down[q]
          /\ queue'[r] = <<>> /\ \A q \in Roles : q # r => queue'[q] = queue[q]
          /\ down' = [q \in Roles |-> down'[q]] /\ queue' = [q \in Roles |-> queue'[q]]
      BY <1>3, <3>1
    <3>3. queue[r] \in Seq(QueuedSdp) /\ queue[r] \in Seq(ToBridge)
      <4>1. QueuedSdp \subseteq ToBridge
        BY DEF QueuedSdp, ToBridge
      <4> QED BY <1>3, <4>1, SeqMonotonic
    <3>4. \A q \in Roles : /\ down'[q] \in Seq(ToBridge) /\ Known(down'[q], connId')
                           /\ queue'[q] \in Seq(QueuedSdp) /\ Known(queue'[q], connId')
      BY <1>3, <3>1, <3>2, <3>3, EmptyBuffer
    <3>5. TypeOK'
      BY <1>2, <1>3, <1>6, <1>7, <1>8, <2>1, <2>2, <3>1, <3>2, <3>4, TypeFromParts
    <3>6. Counting'
      BY <1>1, <2>1, <2>4, <3>1 DEF Counting
    <3>7. FreshIds'
      BY <1>1, <1>2, <2>2, <3>2, <3>3, SdpOnly DEF FreshIds
    <3>8. NoStaleSdp'
      BY <1>1, <2>2, <3>2, <3>3, SdpOnly DEF NoStaleSdp
    <3>9. Hears'
      <4>1. PeerRole(r) \notin s /\ \A q \in Roles : q # r => q \notin s
        BY <1>3, <2>6 DEF PeerRole, Roles
      <4>2. \A q \in Roles : link'[q] => q = r
        BY <1>2, <1>8, <4>1
      <4>3. Fresh(down'[r], connId')
        BY <3>2, <3>3, SdpOnly
      <4> QED BY <1>2, <2>2, <4>1, <4>2, <4>3 DEF Hears, Online
    <3> QED BY <2>3, <3>5, <3>6, <3>7, <3>8, <3>9 DEF IInv
  <2> QED BY <2>5, <2>6
<1> QED BY <1>9, <1>10

\* The handler that waited for the lobby starts a connection as well.
LEMMA FetchResumesStep ==
  ASSUME IInv, NEW r \in Roles, FetchResumes(r)
  PROVE  IInv'
<1>1. TypeOK /\ SocketFacts /\ Counting /\ FreshIds /\ Hears /\ NoStaleSdp
  BY DEF IInv
<1>2. /\ r \in suspended /\ suspended' = suspended \ {r}
      /\ StartConnection(down, link, srv)
      /\ marked' = marked /\ srv' = srv /\ link' = link /\ up' = up /\ used' = used
      /\ paired' = paired /\ faults' = faults
  BY DEF FetchResumes
<1>3. /\ srv \in SUBSET Roles /\ link \in [Roles -> BOOLEAN] /\ connId \in Nat
      /\ down \in [Roles -> Seq(ToBridge)] /\ up \in [Roles -> Seq(ToRoom)]
      /\ last \in [Roles -> 0 .. connId] /\ used \in [Roles -> 0 .. connId]
      /\ marked \in BOOLEAN /\ suspended \subseteq Roles
      /\ paired \in 0 .. connId /\ faults \in 0 .. MaxFaults
      /\ st \in [Roles -> BridgeStates]
      /\ \A q \in Roles : Known(down[q], connId) /\ Known(up[q], connId)
  BY <1>1 DEF TypeOK
\* Whether or not the bridge still waits, no count changes.
<1>4. /\ last' = last
      /\ st' \in [Roles -> BridgeStates]
      /\ \A q \in Roles : \/ st'[q] = st[q]
                          \/ st[q] = "upgrade" /\ st'[q] = "ready"
  <2>1. CASE st[r] = "upgrade"
    <3>1. st' = [st EXCEPT ![r] = "ready"] /\ last' = [last EXCEPT ![r] = 0]
      BY <2>1 DEF FetchResumes, Upgraded
    <3>2. last[r] = 0
      BY <1>1, <2>1 DEF Counting
    <3>3. last' = last
      BY <1>3, <3>1, <3>2
    <3> QED BY <1>3, <2>1, <3>1, <3>3 DEF BridgeStates
  <2>2. CASE st[r] # "upgrade"
    BY <1>3, <2>2 DEF FetchResumes
  <2> QED BY <2>1, <2>2
<1>5. marked = TRUE
  BY <1>1, <1>2, <1>3 DEF Counting
<1>6. \A q \in Roles : st'[q] # "dial" => st[q] # "dial"
  BY <1>4
<1>7. /\ NoStaleSdp' /\ FreshIds' /\ Hears'
      /\ connId' = connId + 1
      /\ down' = [q \in Roles |-> down'[q]] /\ queue' = [q \in Roles |-> queue'[q]]
      /\ \A q \in Roles : /\ down'[q] \in Seq(ToBridge) /\ Known(down'[q], connId')
                          /\ queue'[q] \in Seq(QueuedSdp) /\ Known(queue'[q], connId')
  <2>1. \A q \in Roles : link[q] => q \in srv
    BY <1>1 DEF SocketFacts
  <2>2. \A q \in Roles : st'[q] # "dial" => InOrder(down[q], last'[q])
    BY <1>1, <1>4, <1>6 DEF NoStaleSdp
  <2>3. \A q \in Roles : st'[q] # "dial" /\ last'[q] = 0 => Fresh(down[q], used[q])
    BY <1>1, <1>4, <1>6 DEF FreshIds
  <2> QED BY <1>2, <1>3, <1>4, <2>1, <2>2, <2>3, StartConnectionStep
<1>8. TypeOK'
  <2>1. connId' \in Nat /\ connId <= connId'
    BY <1>3, <1>7
  <2>2. \A q \in Roles : up'[q] \in Seq(ToRoom) /\ Known(up'[q], connId')
    BY <1>1, <1>2, <1>3, <2>1, BufferTypes, KnownLater
  <2>3. paired' \in 0 .. connId'
    BY <1>2, <1>3, <1>7
  <2>4. last' \in [Roles -> 0 .. connId'] /\ used' \in [Roles -> 0 .. connId']
    BY <1>2, <1>3, <1>4, <1>7, RangeLater
  <2>5. up' = [q \in Roles |-> up'[q]] /\ suspended' \subseteq Roles
    BY <1>2, <1>3
  <2> QED BY <1>2, <1>3, <1>4, <1>7, <2>1, <2>2, <2>3, <2>4, <2>5, TypeFromParts
<1>9. SocketFacts'
  BY <1>1, <1>2, <1>4 DEF SocketFacts
<1>10. Counting'
  <2>1. \A q \in Roles : st[q] = "upgrade" => last[q] = 0
    BY <1>1 DEF Counting
  <2> QED BY <1>1, <1>2, <1>4, <1>5, <2>1 DEF Counting
<1> QED BY <1>7, <1>8, <1>9, <1>10 DEF IInv

\* The message the room has handled leaves the socket.
LEMMA Handled ==
  ASSUME TypeOK, NEW r \in Roles, up[r] # <<>>, up' = [up EXCEPT ![r] = Tail(@)],
         connId' \in Nat, connId <= connId'
  PROVE  /\ up' = [q \in Roles |-> up'[q]]
         /\ \A q \in Roles : up'[q] \in Seq(ToRoom) /\ Known(up'[q], connId')
         /\ \A q \in Roles : up'[q] # <<>> => up[q] # <<>>
         /\ Head(up[r]) \in ToRoom /\ Head(up[r]).id <= connId
<1>1. /\ up \in [Roles -> Seq(ToRoom)] /\ connId \in Nat /\ Tail(up[r]) \in Seq(ToRoom)
      /\ Head(up[r]) \in ToRoom
  BY Read DEF TypeOK
<1>2. Known(Tail(up[r]), connId) /\ Head(up[r]).id <= connId
  BY <1>1, BufferTypes, KnownTail
<1>3. /\ up' \in [Roles -> Seq(ToRoom)] /\ up'[r] = Tail(up[r])
      /\ \A q \in Roles : q # r => up'[q] = up[q]
  BY <1>1, Updated
<1>4. \A q \in Roles : Known(up'[q], connId) /\ up'[q] \in Seq(Message)
  <2>1. ToRoom \subseteq Message
    BY DEF ToRoom, Message
  <2> QED BY <1>2, <1>3, <2>1, BufferTypes, SeqMonotonic
<1>5. \A q \in Roles : Known(up'[q], connId')
  BY <1>1, <1>4, KnownLater
<1> QED BY <1>1, <1>2, <1>3, <1>5, ByRole

\* A restart request that both bridges made, one that comes late, and one of a
\* bridge that is alone.
LEMMA ReceiveRestartStep ==
  ASSUME IInv, NEW r \in Roles, ReceiveRestart(r)
  PROVE  IInv'
<1> DEFINE id == Head(up[r]).id
<1>1. TypeOK /\ SocketFacts /\ Counting /\ FreshIds /\ Hears /\ NoStaleSdp
  BY DEF IInv
<1>2. /\ r \in srv /\ up[r] # <<>> /\ up' = [up EXCEPT ![r] = Tail(@)]
      /\ marked' = marked /\ suspended' = suspended /\ srv' = srv /\ link' = link
      /\ st' = st /\ last' = last /\ used' = used /\ paired' = paired /\ faults' = faults
  BY DEF ReceiveRestart, bridges
<1>3. /\ srv \in SUBSET Roles /\ link \in [Roles -> BOOLEAN] /\ connId \in Nat
      /\ down \in [Roles -> Seq(ToBridge)] /\ up \in [Roles -> Seq(ToRoom)]
      /\ queue \in [Roles -> Seq(QueuedSdp)]
      /\ last \in [Roles -> 0 .. connId] /\ used \in [Roles -> 0 .. connId]
      /\ marked \in BOOLEAN /\ suspended \subseteq Roles
      /\ paired \in 0 .. connId /\ faults \in 0 .. MaxFaults
      /\ st \in [Roles -> BridgeStates]
      /\ \A q \in Roles : Known(down[q], connId) /\ Known(queue[q], connId)
  BY <1>1 DEF TypeOK
<1>4. id \in Nat \ {0} /\ id <= connId
  <2>1. up[r] \in Seq(Message) /\ Known(up[r], connId)
    BY <1>1, BufferTypes
  <2>2. Head(up[r]) \in Message
    BY <1>2, <2>1, Read
  <2>3. id <= connId
    BY <1>2, <1>3, <2>1, KnownTail
  <2> QED BY <2>2, <2>3 DEF Message
<1>5. marked = TRUE
  BY <1>1, <1>3, <1>4 DEF Counting
<1>6. SocketFacts'
  BY <1>1, <1>2 DEF SocketFacts
<1>7. CASE StartConnection(down, link, srv)
  <2>1. \A q \in Roles : link[q] => q \in srv
    BY <1>1 DEF SocketFacts
  <2>2. \A q \in Roles : st'[q] # "dial" => InOrder(down[q], last'[q])
    BY <1>1, <1>2 DEF NoStaleSdp
  <2>3. \A q \in Roles : st'[q] # "dial" /\ last'[q] = 0 => Fresh(down[q], used[q])
    BY <1>1, <1>2 DEF FreshIds
  <2>4. /\ NoStaleSdp' /\ FreshIds' /\ Hears'
        /\ connId' = connId + 1
        /\ down' = [q \in Roles |-> down'[q]] /\ queue' = [q \in Roles |-> queue'[q]]
        /\ \A q \in Roles : /\ down'[q] \in Seq(ToBridge) /\ Known(down'[q], connId')
                            /\ queue'[q] \in Seq(QueuedSdp) /\ Known(queue'[q], connId')
    BY <1>2, <1>3, <1>7, <2>1, <2>2, <2>3, StartConnectionStep
  <2>5. connId' \in Nat /\ connId <= connId'
    BY <1>3, <2>4
  <2>6. /\ up' = [q \in Roles |-> up'[q]]
        /\ \A q \in Roles : up'[q] \in Seq(ToRoom) /\ Known(up'[q], connId')
        /\ \A q \in Roles : up'[q] # <<>> => up[q] # <<>>
    BY <1>1, <1>2, <2>5, Handled
  <2>7. paired' \in 0 .. connId'
    BY <1>2, <1>3, <2>4
  <2>8. last' \in [Roles -> 0 .. connId'] /\ used' \in [Roles -> 0 .. connId']
    BY <1>2, <1>3, <2>4, RangeLater
  <2>9. TypeOK'
    BY <1>2, <1>3, <2>4, <2>5, <2>6, <2>7, <2>8, TypeFromParts
  <2>10. Counting'
    BY <1>1, <1>2, <1>5, <2>6 DEF Counting
  <2> QED BY <1>6, <2>4, <2>9, <2>10 DEF IInv
<1>8. CASE /\ connId' = connId /\ queue' = queue
           /\ \/ down' = down
              \/ id < connId /\ down' = Sent(down, r, Ready(connId))
  <2>1. /\ up' = [q \in Roles |-> up'[q]]
        /\ \A q \in Roles : up'[q] \in Seq(ToRoom) /\ Known(up'[q], connId')
        /\ \A q \in Roles : up'[q] # <<>> => up[q] # <<>>
    <3>1. connId' \in Nat /\ connId <= connId'
      BY <1>3, <1>8
    <3> QED BY <1>1, <1>2, <3>1, Handled
  <2>2. connId \in Nat \ {0} /\ Ready(connId) \in ToBridge /\ Ready(connId) \in Message
        /\ Ready(connId).id = connId
    BY <1>3, <1>4 DEF Ready, ToBridge, Message
  <2>3. \/ down' = down
        \/ link[r] /\ down' = [down EXCEPT ![r] = Append(down[r], Ready(connId))]
    BY <1>8 DEF Sent
  <2>4. down' \in [Roles -> Seq(ToBridge)]
        /\ \A q \in Roles : \/ down'[q] = down[q]
                            \/ /\ link[q] /\ q = r
                               /\ down'[q] = Append(down[q], Ready(connId))
    <3>1. Append(down[r], Ready(connId)) \in Seq(ToBridge)
      BY <1>3, <2>2, Appended
    <3>2. CASE down' = down
      BY <1>3, <3>2
    <3>3. CASE link[r] /\ down' = [down EXCEPT ![r] = Append(down[r], Ready(connId))]
      BY <1>3, <3>1, <3>3, Updated
    <3> QED BY <2>3, <3>2, <3>3
  <2>5. ASSUME NEW q \in Roles PROVE Known(down'[q], connId)
    <3>1. down[q] \in Seq(Message) /\ Known(down[q], connId)
      BY <1>1, BufferTypes
    <3>2. Known(Append(down[q], Ready(connId)), connId)
      BY <1>3, <2>2, <3>1, KnownAppend
    <3> QED BY <2>4, <3>1, <3>2
  <2>6. TypeOK'
    BY <1>2, <1>3, <1>8, <2>1, <2>4, <2>5, ByRole, TypeFromParts
  <2>7. Counting'
    BY <1>1, <1>2, <1>8, <2>1 DEF Counting
  <2>8. link[r] => last[r] > 0
    BY <1>1, <1>2 DEF Counting
  <2>9. FreshIds'
    <3> SUFFICES ASSUME NEW q \in Roles, st[q] # "dial", last[q] = 0
                 PROVE  Fresh(down'[q], used[q])
      BY <1>2 DEF FreshIds
    <3>1. down'[q] = down[q]
      BY <2>4, <2>8
    <3> QED BY <1>1, <3>1 DEF FreshIds
  <2>10. NoStaleSdp'
    <3> SUFFICES ASSUME NEW q \in Roles, st[q] # "dial"
                 PROVE  InOrder(down'[q], last[q])
      BY <1>2 DEF NoStaleSdp
    <3>1. InOrder(down[q], last[q]) /\ last[q] \in Nat
      BY <1>1, Values DEF NoStaleSdp
    <3> QED BY <1>1, <2>2, <2>4, <3>1, BufferTypes, InOrderReady
  <2>11. Hears'
    <3> SUFFICES ASSUME NEW q \in Roles, Online(q), last[q] < connId
                 PROVE  \/ Holds(down'[q], Ready(connId))
                        \/ /\ last[q] = 0 /\ PeerRole(q) \notin srv
                           /\ Fresh(down'[q], connId)
      BY <1>2, <1>8 DEF Hears, Online
    <3>1. CASE down'[q] = down[q]
      BY <1>1, <3>1 DEF Hears
    <3>2. CASE down'[q] = Append(down[q], Ready(connId))
      BY <1>1, <2>2, <3>2, BufferTypes, HoldsAppend
    <3> QED BY <2>4, <3>1, <3>2
  <2> QED BY <1>6, <2>6, <2>7, <2>9, <2>10, <2>11 DEF IInv
<1> QED BY <1>7, <1>8 DEF ReceiveRestart

\* An SDP of the current connection goes behind everything announced so far, or
\* into the queue.
LEMMA ReceiveSdpStep ==
  ASSUME IInv, NEW r \in Roles, ReceiveSdp(r)
  PROVE  IInv'
<1> DEFINE m == Head(up[r])
           t == PeerRole(r)
<1>1. TypeOK /\ SocketFacts /\ Counting /\ FreshIds /\ Hears /\ NoStaleSdp
  BY DEF IInv
<1>2. /\ r \in srv /\ up[r] # <<>> /\ m.type = "sdp"
      /\ up' = [up EXCEPT ![r] = Tail(@)]
      /\ connId' = connId /\ marked' = marked /\ suspended' = suspended /\ srv' = srv
      /\ link' = link /\ st' = st /\ last' = last /\ used' = used /\ paired' = paired
      /\ faults' = faults
      /\ \/ down' = down /\ queue' = queue
         \/ m.id = connId /\ down' = Sent(down, t, m) /\ queue' = queue
         \/ m.id = connId /\ queue' = [queue EXCEPT ![t] = Append(@, m)] /\ down' = down
  BY DEF ReceiveSdp, bridges, SdpCurrent
<1>3. /\ srv \in SUBSET Roles /\ link \in [Roles -> BOOLEAN] /\ connId \in Nat
      /\ down \in [Roles -> Seq(ToBridge)] /\ up \in [Roles -> Seq(ToRoom)]
      /\ queue \in [Roles -> Seq(QueuedSdp)]
      /\ last \in [Roles -> 0 .. connId] /\ used \in [Roles -> 0 .. connId]
      /\ marked \in BOOLEAN /\ suspended \subseteq Roles
      /\ paired \in 0 .. connId /\ faults \in 0 .. MaxFaults
      /\ st \in [Roles -> BridgeStates]
      /\ \A q \in Roles : Known(down[q], connId) /\ Known(queue[q], connId)
                          /\ Known(up[q], connId)
  BY <1>1 DEF TypeOK
<1>4. t \in Roles
  BY DEF PeerRole, Roles
<1>5. /\ up' = [q \in Roles |-> up'[q]]
      /\ \A q \in Roles : up'[q] \in Seq(ToRoom) /\ Known(up'[q], connId')
      /\ \A q \in Roles : up'[q] # <<>> => up[q] # <<>>
      /\ m \in ToRoom /\ m.id <= connId
  <2>1. connId' \in Nat /\ connId <= connId'
    BY <1>2, <1>3
  <2> HIDE DEF m
  <2> QED BY <1>1, <1>2, <2>1, Handled DEF m
<1>6. m \in Message /\ m \in ToBridge /\ m \in QueuedSdp
  BY <1>2, <1>5 DEF ToRoom, Message, ToBridge, QueuedSdp
<1> HIDE DEF m, t
<1>7. /\ queue' \in [Roles -> Seq(QueuedSdp)]
      /\ \A q \in Roles : Known(queue'[q], connId)
  <2>1. CASE queue' = queue
    BY <1>3, <2>1
  <2>2. CASE m.id = connId /\ queue' = [queue EXCEPT ![t] = Append(@, m)]
    <3>1. Append(queue[t], m) \in Seq(QueuedSdp)
      BY <1>3, <1>4, <1>6, Appended
    <3>2. queue[t] \in Seq(Message) /\ Known(queue[t], connId) /\ m.id <= connId
      BY <1>1, <1>3, <1>4, <2>2, BufferTypes
    <3>3. Known(Append(queue[t], m), connId)
      BY <1>3, <1>6, <3>2, KnownAppend
    <3> QED BY <1>3, <1>4, <2>2, <3>1, <3>3, Updated
  <2> QED BY <1>2, <2>1, <2>2
<1>8. /\ down' \in [Roles -> Seq(ToBridge)]
      /\ \A q \in Roles : \/ down'[q] = down[q]
                          \/ m.id = connId /\ down'[q] = Append(down[q], m)
  <2>1. CASE down' = down
    BY <1>3, <2>1
  <2>2. CASE m.id = connId /\ down' = [down EXCEPT ![t] = Append(@, m)]
    <3>1. Append(down[t], m) \in Seq(ToBridge)
      BY <1>3, <1>4, <1>6, Appended
    <3> QED BY <1>3, <1>4, <2>2, <3>1, Updated
  <2> QED BY <1>2, <2>1, <2>2 DEF Sent
<1>9. ASSUME NEW q \in Roles
      PROVE  /\ Known(down'[q], connId)
             /\ InOrder(down[q], last[q]) => InOrder(down'[q], last[q])
             /\ Holds(down[q], Ready(connId)) => Holds(down'[q], Ready(connId))
             /\ \A id \in Nat : Fresh(down[q], id) => Fresh(down'[q], id)
  <2>1. CASE down'[q] = down[q]
    BY <1>3, <2>1
  <2>2. CASE m.id = connId /\ down'[q] = Append(down[q], m)
    <3>1. down[q] \in Seq(Message) /\ Known(down[q], m.id)
      BY <1>1, <2>2, BufferTypes
    <3>2. last[q] \in Nat /\ last[q] <= m.id /\ m.id \in Nat /\ m.id <= connId
      BY <1>3, <2>2
    <3>3. Known(down'[q], connId)
      BY <1>3, <1>6, <2>2, <3>1, <3>2, KnownAppend
    <3>4. InOrder(down[q], last[q]) => InOrder(down'[q], last[q])
      BY <1>6, <2>2, <3>1, <3>2, InOrderSdp
    <3>5. Holds(down[q], Ready(connId)) => Holds(down'[q], Ready(connId))
      BY <1>6, <2>2, <3>1, HoldsAppend
    <3>6. \A id \in Nat : Fresh(down[q], id) => Fresh(down'[q], id)
      BY <1>2, <1>6, <2>2, <3>1, FreshAppend
    <3> QED BY <3>3, <3>4, <3>5, <3>6
  <2> QED BY <1>8, <2>1, <2>2
<1>10. TypeOK'
  BY <1>2, <1>3, <1>5, <1>7, <1>8, <1>9, ByRole, TypeFromParts
<1>11. SocketFacts'
  BY <1>1, <1>2 DEF SocketFacts
<1>12. Counting'
  BY <1>1, <1>2, <1>5 DEF Counting
<1>13. FreshIds'
  BY <1>1, <1>2, <1>9, Values DEF FreshIds
<1>14. Hears'
  BY <1>1, <1>2, <1>3, <1>9 DEF Hears, Online
<1>15. NoStaleSdp'
  BY <1>1, <1>2, <1>9 DEF NoStaleSdp
<1> QED BY <1>10, <1>11, <1>12, <1>13, <1>14, <1>15 DEF IInv

\* The room forgets a socket that no longer works.
LEMMA SocketClosedStep ==
  ASSUME IInv, NEW r \in Roles, SocketClosed(r)
  PROVE  IInv'
<1>1. TypeOK /\ SocketFacts /\ Counting /\ FreshIds /\ Hears /\ NoStaleSdp
  BY DEF IInv
<1>2. /\ r \in srv /\ ~link[r] /\ srv' = srv \ {r}
      /\ connId' = connId /\ queue' = queue /\ marked' = marked
      /\ suspended' = suspended /\ link' = link /\ up' = up /\ down' = down
      /\ st' = st /\ last' = last /\ used' = used /\ paired' = paired
      /\ faults' = faults
  BY DEF SocketClosed, bridges
<1>3. TypeOK'
  BY <1>1, <1>2 DEF TypeOK
<1>4. SocketFacts'
  BY <1>1, <1>2 DEF SocketFacts
<1>5. Counting' /\ FreshIds' /\ NoStaleSdp'
  BY <1>1, <1>2 DEF Counting, FreshIds, NoStaleSdp
<1>6. Hears'
  BY <1>1, <1>2 DEF Hears, Online
<1> QED BY <1>3, <1>4, <1>5, <1>6 DEF IInv

-----------------------------------------------------------------------------
(* The bridges *)

\* What a bridge reads leaves its socket.
LEMMA ReadStep ==
  ASSUME TypeOK, NEW r \in Roles, down[r] # <<>>,
         down' = [down EXCEPT ![r] = Tail(@)]
  PROVE  /\ down' = [q \in Roles |-> down'[q]] /\ down'[r] = Tail(down[r])
         /\ \A q \in Roles : q # r => down'[q] = down[q]
         /\ \A q \in Roles : down'[q] \in Seq(ToBridge) /\ Known(down'[q], connId)
         /\ Head(down[r]) \in ToBridge /\ Head(down[r]).id <= connId
         /\ down[r] \in Seq(Message)
<1>1. /\ down \in [Roles -> Seq(ToBridge)] /\ connId \in Nat
      /\ Tail(down[r]) \in Seq(ToBridge) /\ Head(down[r]) \in ToBridge
  BY Read DEF TypeOK
<1>2. Known(Tail(down[r]), connId) /\ Head(down[r]).id <= connId /\ down[r] \in Seq(Message)
  BY <1>1, BufferTypes, KnownTail
<1>3. /\ down' \in [Roles -> Seq(ToBridge)] /\ down'[r] = Tail(down[r])
      /\ \A q \in Roles : q # r => down'[q] = down[q]
  BY <1>1, Updated
<1>4. \A q \in Roles : Known(down'[q], connId)
  BY <1>2, <1>3, BufferTypes
<1> QED BY <1>1, <1>2, <1>3, <1>4, ByRole

\* What a bridge sends is in its socket, if it works.
LEMMA SentUp ==
  ASSUME TypeOK, NEW r \in Roles, NEW m \in ToRoom, m.id <= connId,
         up' = up \/ up' = Sent(up, r, m)
  PROVE  /\ up' = [q \in Roles |-> up'[q]]
         /\ \A q \in Roles : up'[q] \in Seq(ToRoom) /\ Known(up'[q], connId)
         /\ \A q \in Roles : q # r => up'[q] = up[q]
<1>1. up \in [Roles -> Seq(ToRoom)] /\ connId \in Nat /\ m \in Message
  BY DEF TypeOK, ToRoom, Message
<1>2. \A q \in Roles : Known(up[q], connId)
  BY DEF TypeOK
<1>3. CASE up' = up
  BY <1>1, <1>2, <1>3, ByRole
<1>4. CASE up' = [up EXCEPT ![r] = Append(@, m)]
  <2>1. Append(up[r], m) \in Seq(ToRoom)
    BY <1>1, Appended
  <2>2. up[r] \in Seq(Message)
    BY BufferTypes
  <2>3. Known(Append(up[r], m), connId)
    BY <1>1, <1>2, <2>2, KnownAppend
  <2>4. /\ up' \in [Roles -> Seq(ToRoom)] /\ up'[r] = Append(up[r], m)
        /\ \A q \in Roles : q # r => up'[q] = up[q]
    BY <1>1, <1>4, <2>1, Updated
  <2> QED BY <1>2, <2>3, <2>4, ByRole
<1> QED BY <1>3, <1>4 DEF Sent

\* A newer id is newer than every id the bridge has negotiated.
LEMMA NewerIsFresh ==
  ASSUME IInv, NEW r \in Roles, ReadReady(r)
  PROVE  Head(down[r]).id > used[r]
<1>1. TypeOK /\ SocketFacts /\ Counting /\ FreshIds /\ Hears /\ NoStaleSdp
  BY DEF IInv
<1>2. /\ st[r] \in {"ready", "sdp", "tunnel"} /\ down[r] # <<>>
      /\ Head(down[r]).type = "ready-for-offer" /\ Head(down[r]).id > last[r]
  BY DEF ReadReady, Newer
<1>3. down[r] \in Seq(Message) /\ used[r] \in Nat
  BY <1>1, BufferTypes, Values
<1>4. CASE last[r] = used[r]
  BY <1>2, <1>4
<1>5. CASE last[r] = 0
  <2>1. Fresh(down[r], used[r])
    BY <1>1, <1>2, <1>5 DEF FreshIds
  <2> QED BY <1>2, <1>3, <2>1, FreshTail
<1> QED BY <1>1, <1>2, <1>4, <1>5 DEF Counting

\* Following an announcement.
LEMMA ReadReadyStep ==
  ASSUME IInv, NEW r \in Roles, ReadReady(r)
  PROVE  IInv'
<1> DEFINE id == Head(down[r]).id
<1>1. TypeOK /\ SocketFacts /\ Counting /\ FreshIds /\ Hears /\ NoStaleSdp
  BY DEF IInv
<1>2. /\ st[r] \in {"ready", "sdp", "tunnel"} /\ down[r] # <<>>
      /\ Head(down[r]).type = "ready-for-offer" /\ id > last[r]
      /\ down' = [down EXCEPT ![r] = Tail(@)]
      /\ st' = [st EXCEPT ![r] = "sdp"] /\ last' = [last EXCEPT ![r] = id]
      /\ used' = [used EXCEPT ![r] = id]
      /\ (up' = up \/ up' = Sent(up, r, Sdp(id)))
      /\ connId' = connId /\ queue' = queue /\ marked' = marked
      /\ suspended' = suspended /\ srv' = srv /\ link' = link /\ paired' = paired
      /\ faults' = faults
  BY DEF ReadReady, Newer, Negotiate, room
<1>3. /\ srv \in SUBSET Roles /\ link \in [Roles -> BOOLEAN] /\ connId \in Nat
      /\ down \in [Roles -> Seq(ToBridge)] /\ up \in [Roles -> Seq(ToRoom)]
      /\ queue \in [Roles -> Seq(QueuedSdp)]
      /\ last \in [Roles -> 0 .. connId] /\ used \in [Roles -> 0 .. connId]
      /\ marked \in BOOLEAN /\ suspended \subseteq Roles
      /\ paired \in 0 .. connId /\ faults \in 0 .. MaxFaults
      /\ st \in [Roles -> BridgeStates]
      /\ \A q \in Roles : Known(down[q], connId) /\ Known(queue[q], connId)
                          /\ Known(up[q], connId)
  BY <1>1 DEF TypeOK
<1>4. /\ down' = [q \in Roles |-> down'[q]] /\ down'[r] = Tail(down[r])
      /\ \A q \in Roles : q # r => down'[q] = down[q]
      /\ \A q \in Roles : down'[q] \in Seq(ToBridge) /\ Known(down'[q], connId)
      /\ Head(down[r]) \in ToBridge /\ id <= connId
      /\ down[r] \in Seq(Message)
  BY <1>1, <1>2, ReadStep
<1>5. id \in Nat \ {0} /\ id \in 0 .. connId /\ Sdp(id) \in ToRoom /\ Sdp(id).id = id
  BY <1>3, <1>4 DEF ToBridge, ToRoom, Sdp
<1>6. /\ up' = [q \in Roles |-> up'[q]]
      /\ \A q \in Roles : up'[q] \in Seq(ToRoom) /\ Known(up'[q], connId)
      /\ \A q \in Roles : q # r => up'[q] = up[q]
  BY <1>1, <1>2, <1>4, <1>5, SentUp
<1> HIDE DEF id
<1>7. /\ st'[r] = "sdp" /\ last'[r] = id /\ used'[r] = id
      /\ \A q \in Roles : q # r => st'[q] = st[q] /\ last'[q] = last[q] /\ used'[q] = used[q]
      /\ last' \in [Roles -> 0 .. connId] /\ used' \in [Roles -> 0 .. connId]
      /\ st' \in [Roles -> BridgeStates]
  BY <1>2, <1>3, <1>5 DEF BridgeStates
<1>8. TypeOK'
  BY <1>2, <1>3, <1>4, <1>6, <1>7, ByRole, TypeFromParts
<1>9. SocketFacts'
  BY <1>1, <1>2, <1>7 DEF SocketFacts
<1>10. Counting'
  BY <1>1, <1>2, <1>5, <1>6, <1>7 DEF Counting
<1>11. FreshIds'
  BY <1>1, <1>4, <1>5, <1>7 DEF FreshIds
<1>12. NoStaleSdp'
  <2>1. InOrder(down[r], last[r]) /\ last[r] \in Nat
    BY <1>1, <1>2, <1>3 DEF NoStaleSdp
  <2>2. InOrder(Tail(down[r]), id)
    BY <1>2, <1>4, <2>1, InOrderAfterReady DEF id
  <2> QED BY <1>1, <1>4, <1>7, <2>2 DEF NoStaleSdp
<1>13. Hears'
  <2>1. ASSUME Online(r), id < connId
        PROVE  Holds(Tail(down[r]), Ready(connId))
    <3>1. last[r] < connId
      BY <1>2, <1>3, <1>5, <2>1
    <3>2. ~Fresh(down[r], connId)
      <4> SUFFICES ASSUME Fresh(down[r], connId) PROVE FALSE
        OBVIOUS
      <4>1. id > connId
        BY <1>2, <1>3, <1>4, FreshTail DEF id
      <4> QED BY <1>3, <1>5, <2>1, <4>1
    <3>3. Holds(down[r], Ready(connId))
      BY <1>1, <2>1, <3>1, <3>2 DEF Hears
    <3>4. Head(down[r]) # Ready(connId)
      BY <1>3, <1>5, <2>1 DEF Ready, id
    <3> QED BY <1>2, <1>4, <3>3, <3>4, HoldsTail
  <2>2. Online(r)' => Online(r)
    BY <1>2 DEF Online
  <2> QED BY <1>1, <1>2, <1>4, <1>7, <2>1, <2>2 DEF Hears, Online
<1> QED BY <1>8, <1>9, <1>10, <1>11, <1>12, <1>13 DEF IInv

\* A message that announces nothing newer leaves the socket; the bridge goes on
\* in a negotiation at most, and may answer.
LEMMA ReadSteadily ==
  ASSUME IInv, NEW r \in Roles, down[r] # <<>>,
         ~Newer(Head(down[r]), last[r]), down' = [down EXCEPT ![r] = Tail(@)],
         connId' = connId, queue' = queue, marked' = marked, suspended' = suspended,
         srv' = srv, link' = link, last' = last, used' = used, faults' = faults,
         paired' \in 0 .. connId,
         up' = up \/ (last[r] > 0 /\ up' = Sent(up, r, Sdp(last[r]))),
         st' = st \/ (st[r] = "sdp" /\ st' = [st EXCEPT ![r] = "connecting"])
  PROVE  IInv'
<1>1. TypeOK /\ SocketFacts /\ Counting /\ FreshIds /\ Hears /\ NoStaleSdp
  BY DEF IInv
<1>2. /\ last[r] \in Nat /\ used[r] \in Nat
      /\ st' \in [Roles -> BridgeStates]
      /\ \A q \in Roles : \/ st'[q] = st[q]
                          \/ st[q] = "sdp" /\ st'[q] = "connecting"
  <2>1. st \in [Roles -> BridgeStates]
    BY <1>1 DEF TypeOK
  <2>2. CASE st' = st
    BY <1>1, <2>1, <2>2, Values
  <2>3. CASE st[r] = "sdp" /\ st' = [st EXCEPT ![r] = "connecting"]
    BY <1>1, <2>1, <2>3, Values DEF BridgeStates
  <2> QED BY <2>2, <2>3
<1>3. /\ srv \in SUBSET Roles /\ link \in [Roles -> BOOLEAN] /\ connId \in Nat
      /\ down \in [Roles -> Seq(ToBridge)] /\ up \in [Roles -> Seq(ToRoom)]
      /\ queue \in [Roles -> Seq(QueuedSdp)]
      /\ last \in [Roles -> 0 .. connId] /\ used \in [Roles -> 0 .. connId]
      /\ marked \in BOOLEAN /\ suspended \subseteq Roles
      /\ paired \in 0 .. connId /\ faults \in 0 .. MaxFaults
      /\ st \in [Roles -> BridgeStates]
      /\ \A q \in Roles : Known(down[q], connId) /\ Known(queue[q], connId)
                          /\ Known(up[q], connId)
  BY <1>1 DEF TypeOK
<1>4. /\ down' = [q \in Roles |-> down'[q]] /\ down'[r] = Tail(down[r])
      /\ \A q \in Roles : q # r => down'[q] = down[q]
      /\ \A q \in Roles : down'[q] \in Seq(ToBridge) /\ Known(down'[q], connId)
      /\ Head(down[r]) \in ToBridge
      /\ down[r] \in Seq(Message)
  BY <1>1, ReadStep
<1>5. /\ up' = [q \in Roles |-> up'[q]]
      /\ \A q \in Roles : up'[q] \in Seq(ToRoom) /\ Known(up'[q], connId)
      /\ \A q \in Roles : up'[q] = up[q] \/ last[q] > 0
  <2>1. CASE up' = up
    BY <1>3, <2>1
  <2>2. CASE last[r] > 0 /\ up' = Sent(up, r, Sdp(last[r]))
    <3>1. Sdp(last[r]) \in ToRoom /\ Sdp(last[r]).id <= connId
      BY <1>2, <1>3, <2>2 DEF Sdp, ToRoom
    <3> QED BY <1>1, <2>2, <3>1, SentUp
  <2> QED BY <2>1, <2>2
<1>6. TypeOK'
  BY <1>2, <1>3, <1>4, <1>5, TypeFromParts
<1>7. SocketFacts'
  BY <1>1, <1>2 DEF SocketFacts
<1>8. Counting'
  BY <1>1, <1>2, <1>5 DEF Counting
<1>9. \A q \in Roles : st'[q] # "dial" => st[q] # "dial"
  BY <1>2
<1>10. FreshIds'
  <2>1. Fresh(down[r], used[r]) => Fresh(down'[r], used[r])
    BY <1>2, <1>4, FreshTail
  <2> QED BY <1>1, <1>4, <1>9, <2>1 DEF FreshIds
<1>11. NoStaleSdp'
  <2>1. InOrder(down[r], last[r]) => InOrder(down'[r], last[r])
    BY <1>2, <1>4, InOrderTail
  <2> QED BY <1>1, <1>4, <1>9, <2>1 DEF NoStaleSdp
<1>12. Hears'
  <2>1. last[r] < connId => Head(down[r]) # Ready(connId)
    BY DEF Newer, Ready
  <2>2. last[r] < connId /\ Holds(down[r], Ready(connId))
            => Holds(down'[r], Ready(connId))
    BY <1>4, <2>1, HoldsTail
  <2>3. Fresh(down[r], connId) => Fresh(down'[r], connId)
    BY <1>3, <1>4, FreshTail
  <2>4. \A q \in Roles : Online(q)' => Online(q)
    BY <1>2 DEF Online
  <2> QED BY <1>1, <1>4, <2>2, <2>3, <2>4 DEF Hears
<1> QED BY <1>6, <1>7, <1>8, <1>10, <1>11, <1>12 DEF IInv

\* The description a bridge waits for is no announcement.
LEMMA ReadSdpStep ==
  ASSUME IInv, NEW r \in Roles, ReadSdp(r)
  PROVE  IInv'
<1>1. /\ down[r] # <<>> /\ st[r] = "sdp" /\ Head(down[r]).type = "sdp"
      /\ down' = [down EXCEPT ![r] = Tail(@)]
      /\ connId' = connId /\ queue' = queue /\ marked' = marked /\ suspended' = suspended
      /\ srv' = srv /\ link' = link /\ last' = last /\ used' = used /\ faults' = faults
      /\ st' = [st EXCEPT ![r] = "connecting"]
      /\ (up' = up \/ up' = Sent(up, r, Sdp(last[r])))
      /\ (paired' = paired \/ paired' = last[r])
  BY DEF ReadSdp, AwaitedSdp, room
<1>2. last[r] > 0
  BY <1>1 DEF IInv, Counting
<1>3. paired' \in 0 .. connId
  BY <1>1 DEF IInv, TypeOK
<1>4. ~Newer(Head(down[r]), last[r])
  BY <1>1 DEF Newer
<1> QED BY <1>1, <1>2, <1>3, <1>4, ReadSteadily

\* Everything else a bridge reads changes nothing.
LEMMA ReadOtherStep ==
  ASSUME IInv, NEW r \in Roles, ReadOther(r)
  PROVE  IInv'
<1>1. paired' \in 0 .. connId
  BY DEF IInv, TypeOK, ReadOther, bridges
<1> QED BY <1>1, ReadSteadily DEF ReadOther, room, bridges

\* The count of the faults stays within its bound.
LEMMA FaultCounted ==
  ASSUME TypeOK, Fault \/ faults' = faults
  PROVE  faults' \in 0 .. MaxFaults
BY SignalAssumption DEF TypeOK, Fault

\* A bridge goes to another state of its loop, keeping its id and its socket,
\* on which it may ask for a new connection.
LEMMA LoopStep ==
  ASSUME IInv, NEW r \in Roles, NEW next \in {"ready", "tunnel"},
         st[r] \in {"sdp", "connecting", "tunnel"},
         st' = [st EXCEPT ![r] = next],
         up' = up \/ up' = Sent(up, r, Restart(last[r])),
         Fault \/ faults' = faults,
         connId' = connId, queue' = queue, marked' = marked, suspended' = suspended,
         srv' = srv, link' = link, down' = down, last' = last, used' = used,
         paired' = paired
  PROVE  IInv'
<1>1. TypeOK /\ SocketFacts /\ Counting /\ FreshIds /\ Hears /\ NoStaleSdp
  BY DEF IInv
<1>2. last[r] > 0
  BY <1>1 DEF Counting
<1>3. /\ srv \in SUBSET Roles /\ link \in [Roles -> BOOLEAN] /\ connId \in Nat
      /\ down \in [Roles -> Seq(ToBridge)] /\ up \in [Roles -> Seq(ToRoom)]
      /\ queue \in [Roles -> Seq(QueuedSdp)]
      /\ last \in [Roles -> 0 .. connId] /\ used \in [Roles -> 0 .. connId]
      /\ marked \in BOOLEAN /\ suspended \subseteq Roles
      /\ paired \in 0 .. connId /\ faults \in 0 .. MaxFaults
      /\ st \in [Roles -> BridgeStates]
      /\ \A q \in Roles : Known(down[q], connId) /\ Known(queue[q], connId)
                          /\ Known(up[q], connId)
  BY <1>1 DEF TypeOK
<1>4. /\ st' \in [Roles -> BridgeStates]
      /\ st'[r] = next /\ \A q \in Roles : q # r => st'[q] = st[q]
  BY <1>3 DEF BridgeStates
<1>5. /\ up' = [q \in Roles |-> up'[q]]
      /\ \A q \in Roles : up'[q] \in Seq(ToRoom) /\ Known(up'[q], connId)
      /\ \A q \in Roles : q # r => up'[q] = up[q]
  <2>1. Restart(last[r]) \in ToRoom /\ Restart(last[r]).id <= connId
    BY <1>2, <1>3 DEF Restart, ToRoom
  <2> QED BY <1>1, <2>1, SentUp
<1>6. TypeOK'
  BY <1>1, <1>3, <1>4, <1>5, FaultCounted, ByRole, TypeFromParts
<1>7. SocketFacts'
  BY <1>1, <1>4 DEF SocketFacts
<1>8. Counting'
  BY <1>1, <1>2, <1>4, <1>5 DEF Counting
<1>9. FreshIds' /\ NoStaleSdp'
  <2>1. \A q \in Roles : st'[q] # "dial" => st[q] # "dial"
    BY <1>4
  <2> QED BY <1>1, <2>1 DEF FreshIds, NoStaleSdp
<1>10. Hears'
  <2>1. \A q \in Roles : Online(q)' => Online(q)
    BY <1>4 DEF Online
  <2> QED BY <1>1, <2>1 DEF Hears
<1> QED BY <1>6, <1>7, <1>8, <1>9, <1>10 DEF IInv

\* A socket breaks, and the bridge may have noticed, or its process has ended:
\* what is under way arrives or is lost.
LEMMA BrokenStep ==
  ASSUME IInv, NEW r \in Roles, link' = [link EXCEPT ![r] = FALSE],
         NEW u \in {<<>>, up[r]}, up' = [up EXCEPT ![r] = u],
         NEW d \in {<<>>, down[r]}, down' = [down EXCEPT ![r] = d],
         \/ st' = st
         \/ st' = [st EXCEPT ![r] = "dial"]
         \/ st' = [st EXCEPT ![r] = "exited"] /\ d = <<>>,
         Fault \/ faults' = faults,
         connId' = connId, queue' = queue, marked' = marked, suspended' = suspended,
         srv' = srv, last' = last, used' = used, paired' = paired
  PROVE  IInv'
<1>1. TypeOK /\ SocketFacts /\ Counting /\ FreshIds /\ Hears /\ NoStaleSdp
  BY DEF IInv
<1>2. /\ link' \in [Roles -> BOOLEAN] /\ link'[r] = FALSE
      /\ \A q \in Roles : q # r => link'[q] = link[q]
  <2>1. link \in [Roles -> BOOLEAN]
    BY <1>1 DEF TypeOK
  <2> QED BY <2>1, Updated
<1>3. /\ srv \in SUBSET Roles /\ link \in [Roles -> BOOLEAN] /\ connId \in Nat
      /\ down \in [Roles -> Seq(ToBridge)] /\ up \in [Roles -> Seq(ToRoom)]
      /\ queue \in [Roles -> Seq(QueuedSdp)]
      /\ last \in [Roles -> 0 .. connId] /\ used \in [Roles -> 0 .. connId]
      /\ marked \in BOOLEAN /\ suspended \subseteq Roles
      /\ paired \in 0 .. connId /\ faults \in 0 .. MaxFaults
      /\ st \in [Roles -> BridgeStates]
      /\ \A q \in Roles : Known(down[q], connId) /\ Known(queue[q], connId)
                          /\ Known(up[q], connId)
  BY <1>1 DEF TypeOK
<1>4. /\ st' \in [Roles -> BridgeStates]
      /\ (st'[r] \in {st[r], "dial"} \/ (st'[r] = "exited" /\ d = <<>>)) /\ \A q \in Roles : q # r => st'[q] = st[q]
  <2>1. CASE st' = st
    BY <1>3, <2>1
  <2>2. CASE st' = [st EXCEPT ![r] = "dial"]
    BY <1>3, <2>2 DEF BridgeStates
  <2>3. CASE st' = [st EXCEPT ![r] = "exited"] /\ d = <<>>
    BY <1>3, <2>3 DEF BridgeStates
  <2> QED BY <2>1, <2>2, <2>3
<1>5. /\ up' = [q \in Roles |-> up'[q]]
      /\ \A q \in Roles : up'[q] \in Seq(ToRoom) /\ Known(up'[q], connId)
      /\ \A q \in Roles : q # r => up'[q] = up[q]
  <2>1. u \in Seq(ToRoom) /\ Known(u, connId)
    <3>1. up[r] \in Seq(ToRoom) /\ Known(up[r], connId)
      BY <1>1, BufferTypes
    <3>2. <<>> \in Seq(ToRoom) /\ Known(<<>>, connId)
      BY EmptyBuffer
    <3> QED BY <3>1, <3>2
  <2>2. /\ up' \in [Roles -> Seq(ToRoom)] /\ up'[r] = u
        /\ \A q \in Roles : q # r => up'[q] = up[q]
    BY <1>3, <2>1, Updated
  <2> QED BY <1>3, <2>1, <2>2, ByRole
<1>6. /\ down' = [q \in Roles |-> down'[q]] /\ down'[r] = d
      /\ \A q \in Roles : down'[q] \in Seq(ToBridge) /\ Known(down'[q], connId)
      /\ \A q \in Roles : q # r => down'[q] = down[q]
  <2>1. d \in Seq(ToBridge) /\ Known(d, connId)
    <3>1. down[r] \in Seq(ToBridge) /\ Known(down[r], connId)
      BY <1>1, BufferTypes
    <3>2. <<>> \in Seq(ToBridge) /\ Known(<<>>, connId)
      BY EmptyBuffer
    <3> QED BY <3>1, <3>2
  <2>2. /\ down' \in [Roles -> Seq(ToBridge)] /\ down'[r] = d
        /\ \A q \in Roles : q # r => down'[q] = down[q]
    BY <1>3, <2>1, Updated
  <2> QED BY <1>3, <2>1, <2>2, ByRole
<1>7. TypeOK'
  BY <1>1, <1>2, <1>3, <1>4, <1>5, <1>6, FaultCounted, ByRole, TypeFromParts
<1>8. SocketFacts'
  BY <1>1, <1>2, <1>4 DEF SocketFacts
<1>9. Counting'
  BY <1>1, <1>2, <1>4, <1>5 DEF Counting
<1>10. FreshIds'
  <2>1. Fresh(down[r], used[r]) => Fresh(d, used[r])
    BY EmptyBuffer
  <2>2. d = <<>> => Fresh(d, used[r])
    BY EmptyBuffer
  <2> QED BY <1>1, <1>4, <1>6, <2>1, <2>2 DEF FreshIds
<1>11. NoStaleSdp'
  <2>1. InOrder(down[r], last[r]) => InOrder(d, last[r])
    BY EmptyBuffer
  <2>2. d = <<>> => InOrder(d, last[r])
    BY EmptyBuffer
  <2> QED BY <1>1, <1>4, <1>6, <2>1, <2>2 DEF NoStaleSdp
<1>12. Hears'
  BY <1>1, <1>2, <1>4, <1>6 DEF Hears, Online
<1> QED BY <1>7, <1>8, <1>9, <1>10, <1>11, <1>12 DEF IInv

-----------------------------------------------------------------------------
(* The theorems *)

\* Every step keeps the invariant.
LEMMA NextIInv == IInv /\ [Next]_vars => IInv'
<1> SUFFICES ASSUME IInv, [Next]_vars PROVE IInv'
  OBVIOUS
<1>1. CASE UNCHANGED vars
  <2>1. /\ connId' = connId /\ queue' = queue /\ marked' = marked /\ suspended' = suspended
        /\ srv' = srv /\ link' = link /\ up' = up /\ down' = down /\ st' = st
        /\ last' = last /\ used' = used /\ paired' = paired /\ faults' = faults
    BY <1>1 DEF vars, room, bridges
  <2> QED BY <2>1 DEF IInv, TypeOK, SocketFacts, Counting, FreshIds, Hears, Online,
                      NoStaleSdp
<1>2. CASE Next
  <2>1. PICK r \in Roles :
        \/ Fetch(r) \/ FetchResumes(r) \/ ReceiveRestart(r) \/ ReceiveSdp(r)
        \/ SocketClosed(r)
        \/ ReadReady(r) \/ ReadSdp(r) \/ ReadOther(r) \/ Connected(r)
        \/ TunnelEnds(r) \/ TunnelBreaks(r) \/ NegotiationTimesOut(r)
        \/ NegotiationFails(r) \/ SocketLost(r) \/ DeadlineExceeded(r)
        \/ SocketBreaks(r)
    BY <1>2 DEF Next
  <2>2. CASE Fetch(r)
    BY <2>2, FetchStep
  <2>3. CASE FetchResumes(r)
    BY <2>3, FetchResumesStep
  <2>4. CASE ReceiveRestart(r)
    BY <2>4, ReceiveRestartStep
  <2>5. CASE ReceiveSdp(r)
    BY <2>5, ReceiveSdpStep
  <2>6. CASE SocketClosed(r)
    BY <2>6, SocketClosedStep
  <2>7. CASE ReadReady(r)
    BY <2>7, ReadReadyStep
  <2>8. CASE ReadSdp(r)
    BY <2>8, ReadSdpStep
  <2>9. CASE ReadOther(r)
    BY <2>9, ReadOtherStep
  <2>10. CASE Connected(r)
    BY <2>10, LoopStep DEF Connected, room
  <2>11. CASE TunnelEnds(r) \/ TunnelBreaks(r) \/ NegotiationTimesOut(r)
    <3>1. /\ st[r] \in {"sdp", "connecting", "tunnel"}
          /\ Fault \/ faults' = faults
          /\ RequestRestart(r)
      BY <2>11 DEF TunnelEnds, TunnelBreaks, NegotiationTimesOut
    <3> QED BY <3>1, LoopStep DEF RequestRestart, room
  <2>12. CASE NegotiationFails(r) \/ SocketLost(r) \/ DeadlineExceeded(r)
    <3>1. (Fault \/ faults' = faults) /\ (Drop(r, "dial") \/ Drop(r, "exited"))
      BY <2>12 DEF NegotiationFails, SocketLost, DeadlineExceeded
    <3>2. PICK kept \in {<<>>, up[r]} : up' = [up EXCEPT ![r] = kept]
      BY <3>1 DEF Drop
    <3>3. <<>> \in {<<>>, down[r]}
      OBVIOUS
    <3> QED BY <3>1, <3>2, <3>3, BrokenStep DEF Drop, room
  <2>13. CASE SocketBreaks(r)
    <3>1. PICK u \in {<<>>, up[r]}, d \in {<<>>, down[r]} :
              up' = [up EXCEPT ![r] = u] /\ down' = [down EXCEPT ![r] = d]
      BY <2>13 DEF SocketBreaks
    <3> QED BY <2>13, <3>1, BrokenStep DEF SocketBreaks, room, bridges
  <2> QED BY <2>1, <2>2, <2>3, <2>4, <2>5, <2>6, <2>7, <2>8, <2>9, <2>10, <2>11,
             <2>12, <2>13
<1> QED BY <1>1, <1>2

\* The invariant holds in every reachable state.
THEOREM Invariance == Spec => []IInv
BY InitIInv, NextIInv, PTL DEF Spec

\* The room and the bridges keep their shape, and neither a bridge nor anything
\* that is under way names an id the room has not stored.
THEOREM TypeCorrect == Spec => []TypeOK
<1>1. IInv => TypeOK
  BY DEF IInv
<1> QED BY <1>1, Invariance, PTL

\* No socket delivers an SDP after the announcement of a newer connection
\* (webSocketMessage, dropRecoverySdp).
THEOREM NoStaleSdpTheorem == Spec => []NoStaleSdp
<1>1. IInv => NoStaleSdp
  BY DEF IInv
<1> QED BY <1>1, Invariance, PTL

\* A bridge whose connection was superseded has the announcement of a newer one
\* in its socket (startConnection, the reply to a late restart).
THEOREM SupersededHearsTheorem == Spec => []SupersededHears
<1>1. IInv => SupersededHears
  <2> SUFFICES ASSUME IInv, NEW r \in Roles, Online(r), last[r] < connId
               PROVE  \/ \E j \in DOMAIN down[r] : Newer(down[r][j], last[r])
                      \/ last[r] = 0 /\ PeerRole(r) \notin srv
    BY DEF SupersededHears, Online
  <2>1. Newer(Ready(connId), last[r])
    BY DEF Newer, Ready, IInv, TypeOK
  <2> QED BY <2>1 DEF IInv, Hears, Holds
<1> QED BY <1>1, Invariance, PTL

\* A bridge never negotiates an id again, over a new signaling socket either
\* (last_id, wait_ready, monitor_signal).
THEOREM FreshConnectionTheorem == Spec => FreshConnection
<1> DEFINE P == \A r \in Roles :
              st'[r] = "sdp" /\ <<st[r], last[r]>>' # <<st[r], last[r]>>
                  => last'[r] > used[r]
<1>1. IInv /\ [Next]_vars => [P]_vars
  <2> SUFFICES ASSUME IInv, Next, NEW q \in Roles,
                      st'[q] = "sdp", <<st[q], last[q]>>' # <<st[q], last[q]>>
               PROVE  last'[q] > used[q]
    BY DEF vars
  <2>1. DOMAIN st = Roles /\ DOMAIN last = Roles
    BY Values DEF IInv
  <2>2. PICK r \in Roles :
        \/ Fetch(r) \/ FetchResumes(r) \/ ReadReady(r) \/ ReadSdp(r) \/ Connected(r)
        \/ RequestRestart(r) \/ Drop(r, "dial") \/ Drop(r, "exited")
        \/ UNCHANGED <<st, last>>
    BY DEF Next, ReceiveRestart, ReceiveSdp, SocketClosed, ReadOther, TunnelEnds,
           TunnelBreaks, NegotiationTimesOut, NegotiationFails, SocketLost,
           DeadlineExceeded, SocketBreaks, bridges
  <2>3. CASE Fetch(r)
    BY <2>1, <2>3 DEF Fetch, Upgraded
  <2>4. CASE FetchResumes(r)
    BY <2>1, <2>4 DEF FetchResumes, Upgraded
  <2>5. CASE ReadReady(r)
    <3>1. /\ st' = [st EXCEPT ![r] = "sdp"]
          /\ last' = [last EXCEPT ![r] = Head(down[r]).id]
      BY <2>5 DEF ReadReady, Negotiate
    <3>2. q = r
      BY <2>1, <3>1
    <3>3. last'[q] = Head(down[r]).id
      BY <2>1, <3>1, <3>2
    <3> QED BY <2>5, <3>2, <3>3, NewerIsFresh
  <2>6. CASE ReadSdp(r)
    BY <2>1, <2>6 DEF ReadSdp
  <2>7. CASE Connected(r)
    BY <2>1, <2>7 DEF Connected
  <2>8. CASE RequestRestart(r)
    BY <2>1, <2>8 DEF RequestRestart
  <2>9. CASE Drop(r, "dial") \/ Drop(r, "exited")
    BY <2>1, <2>9 DEF Drop
  <2> QED BY <2>2, <2>3, <2>4, <2>5, <2>6, <2>7, <2>8, <2>9
<1> QED BY <1>1, Invariance, PTL DEF Spec, FreshConnection
=============================================================================
