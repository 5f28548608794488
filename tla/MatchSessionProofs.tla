-------------------------- MODULE MatchSessionProofs --------------------------
(***************************************************************************)
(* Proofs about module MatchSession, for any number of matches, timeouts,  *)
(* lost connections and restarted processes, with and without pump thread. *)
(***************************************************************************)
EXTENDS MatchSession, SequenceTheorems, TLAPS

(* The inductive invariant *)

\* The packets of a queue.
Elems(s) == {s[k] : k \in 1 .. Len(s)}

PacketsOK ==
    /\ queue \in [Peers -> Seq(Packets)]
    /\ resume \in [Peers -> Packets \cup {None}]
    /\ \A p \in Peers : resume[p] # None => resume[p].kind = "resume"

\* Which sides of the connection exist, and what may be under way.
LinkShape(p, q) ==
    /\ link = "up" => connected[p]
    /\ link = "half" => (connected[p] <=> p = "client")
    /\ link = "down" => ~connected[p]
    /\ link = "broken" => (connected[p] <=> ~connected[q])
    /\ connected[p] => Running(p) /\ once[p]
    /\ ~connected[p] /\ link # "half" => queue[p] = <<>> /\ resume[p] = None
    /\ link = "half" /\ p = "client" => queue[p] = <<>> /\ resume[p] = None
    /\ link = "half" /\ p = "host" => \A m \in Elems(queue[p]) : m.kind # "inputs"

\* A process that p has met before, in place of which there is another one now, ...
Known(p) == remoteNonce[p] # None
Stranger(p, q) == remoteNonce[p] # None /\ remoteNonce[p] # nonce[q]
\* ... or not.
Acquainted(p, q) == remoteNonce[p] = nonce[q]

\* p has started the match of its generation, whether it still runs or not.
Began(p) == partner[p] # None

\* What is under way to p is from a process that has been replaced.
Old(p, q) == link = "broken" /\ ~once[q]

\* x is at most n, or nothing.
AtMost(x, n) == x # None => x <= n

\* A peer that has never had a Resume has had nothing.
Unmet(p) ==
    /\ ~once[p] => remoteNonce[p] = None /\ validated[p]
    /\ remoteNonce[p] = None =>
           /\ remote[p] = None /\ seen[p] = None /\ ~match[p] /\ ~after[p]
           /\ ~gotInput[p] /\ partner[p] = None /\ gen[p] = 0

\* The Resume comes first.
ResumeFirst(p) ==
    remoteNonce[p] = None \/ ~connected[p] =>
        /\ queue[p] # <<>> => queue[p][1].kind = "resume"
        /\ (link = "half" /\ p = "host") \/ link = "up" => queue[p] # <<>>

\* How far the handshake of p is.
Handshake(p) ==
    /\ pc[p] \in {"mark", "wait", "play", "result"} => local[p] = tick[p]
    /\ match[p] \/ seen[p] # None => remote[p] # None
    /\ pc[p] \in {"play", "result"} => Began(p)
    /\ Began(p) => /\ partner[p] = remoteNonce[p] /\ remote[p] # None
                   /\ pc[p] \notin {"run", "mark", "wait"}
    /\ pc[p] = "result" => gotInput[p]

\* A Resume names the process that sent it.
Resumptions(p, q) ==
    /\ Known(p) => remoteNonce[p] <= nonce[q]
    /\ Acquainted(p, q) => once[q]
    /\ \A m \in Elems(queue[p]) \cup {resume[p]} : m # None /\ m.kind = "resume" =>
           /\ m.value <= nonce[q]
           /\ m.value = nonce[q] => once[q]
           /\ ~Old(p, q) => m.value = nonce[q]

\* Those under way to a peer are all from one process.
OneSender(p) ==
    \A m, n \in Elems(queue[p]) \cup {resume[p]} :
        m # None /\ n # None /\ m.kind = "resume" /\ n.kind = "resume" => m.value = n.value

\* A Resume under way will end the process.
Doomed(p) ==
    \E m \in Elems(queue[p]) : m.kind = "resume" /\ Known(p) /\ m.value # remoteNonce[p]

\* A peer takes a connection to a replaced process for usable only until it has
\* learnt that it is broken.
Strange(p, q) ==
    /\ Stranger(p, q) /\ connected[p] /\ validated[p] => link = "broken" /\ ~once[q]
    /\ Stranger(p, q) => ~Stranger(q, p)
    /\ link = "half" /\ p = "client" /\ validated[p] => ~Known(p)
    /\ connected[p] /\ validated[p] => ~Doomed(p)

\* A peer that is connected to a process in place of another one will learn of it.
DoomSeen(p, q) ==
    /\ Stranger(p, q)
    /\ \/ connected[p] /\ once[q] /\ link # "half"
       \/ link = "half" /\ p = "host"
    => Doomed(p)

\* Generation and tick a description of the other peer's state may have.
Described(p, q, g, t) ==
    \/ g < gen[q]
    \/ g = gen[q] /\ local[q] # None /\ t <= tick[q]

\* Inputs of generation g show that the other peer has started that match.
Showing(p, q, g) ==
    /\ Acquainted(q, p)
    /\ g < gen[q] \/ (g = gen[q] /\ Began(q))

UnderWay(p, q) ==
    /\ ~Old(p, q) => \A m \in Elems(queue[p]) :
                      /\ m.kind = "ready" => Described(p, q, m.gen, m.value)
                      /\ m.kind = "inputs" => Showing(p, q, m.gen)
    /\ \A m \in Elems(queue[p]) : m.kind = "inputs" => m.gen <= gen[p]

\* The verdict is about the state the game is in.
Agreed(p) ==
    \/ Began(p)
    \/ match[p] /\ (pc[p] = "wait" \/ (pc[p] = "mark" /\ seen[p] = None))

\* What a peer knows of the process it knows.
Knowledge(p, q) ==
    Acquainted(p, q) =>
        /\ remote[p] # None => Described(p, q, gen[p], remote[p])
        /\ seen[p] # None => Described(p, q, gen[p], seen[p])
        /\ Agreed(p) /\ gen[q] = gen[p] => tick[p] <= tick[q]
        /\ gotInput[p] => Showing(p, q, gen[p])
        /\ gen[p] > gen[q] => gen[p] = gen[q] + 1 /\ Began(q)

Deciding(p) == pc[p] \in {"run", "mark", "wait"}

\* A peer that has inputs and has not started is not behind the state they belong to.
Capped(p, q) ==
    /\ Deciding(p) /\ gotInput[p] => AtMost(remote[p], tick[p]) /\ AtMost(seen[p], tick[p])
    /\ Old(p, q) /\ connected[p] /\ Deciding(p) /\ ~Doomed(p)
       /\ (gotInput[p] \/ \E m \in Elems(queue[p]) : m.kind = "inputs" /\ m.gen = gen[p])
       => /\ AtMost(remote[p], tick[p]) /\ AtMost(seen[p], tick[p])
          /\ \A m \in Elems(queue[p]) :
                 m.kind = "ready" /\ m.gen = gen[p] => m.value <= tick[p]

\* All that p has described on this connection is the state it is in ...
SaysTick(p, q) ==
    \A m \in Elems(queue[q]) : m.kind = "ready" /\ m.gen = gen[p] => m.value = tick[p]

\* ... and all the other peer knows.
HeardTick(p, q) ==
    gen[q] = gen[p] =>
        /\ remote[q] # None => remote[q] = tick[p]
        /\ seen[q] # None => seen[q] = tick[p]
        /\ Agreed(q) => tick[q] = tick[p]

\* p will not accept any more.
Hopeless(p) ==
    /\ ~Began(p) /\ ~after[p] /\ ~(connected[p] /\ validated[p])
    /\ gotInput[p] => /\ AtMost(remote[p], tick[p] - 1) /\ AtMost(seen[p], tick[p] - 1)
                      /\ pc[p] = "wait" => ~match[p]
    /\ pc[p] = "mark" => seen[p] = remote[p]

\* A peer that has met a process that was replaced.
Replaced(p, q) ==
    /\ Stranger(p, q) => (SaysTick(p, q) /\ HeardTick(p, q)) \/ Hopeless(p)
    /\ Known(p) /\ link = "half" /\ p = "client" => SaysTick(p, q) \/ Hopeless(p)

\* What holds for each peer.
Good(p, q) ==
    /\ LinkShape(p, q) /\ Unmet(p) /\ ResumeFirst(p) /\ Handshake(p)
    /\ Resumptions(p, q) /\ OneSender(p) /\ Strange(p, q) /\ DoomSeen(p, q)
    /\ UnderWay(p, q) /\ Knowledge(p, q) /\ Capped(p, q) /\ Replaced(p, q)

\* All of it.
IInv == TypeOK /\ PacketsOK /\ \A p \in Peers : Good(p, Other(p))

-----------------------------------------------------------------------------
(* Peers, packets and queues *)

\* The peers x and y are the two peers.
Pair(x, y) ==
    /\ x \in Peers /\ y \in Peers /\ x # y /\ Other(x) = y /\ Other(y) = x
    /\ \A p \in Peers : p = x \/ p = y
    /\ (x = "host" /\ y = "client") \/ (x = "client" /\ y = "host")

\* There are two peers.
LEMMA TwoPeers ==
  ASSUME NEW x \in Peers
  PROVE  Pair(x, Other(x))
<1>1. CASE x = "host"
  BY <1>1 DEF Peers, Other, Pair
<1>2. CASE x = "client"
  BY <1>2 DEF Peers, Other, Pair
<1> QED  BY <1>1, <1>2 DEF Peers

\* What holds for both holds for each.
LEMMA BothPeers ==
  ASSUME NEW x, NEW y, Pair(x, y), TypeOK', PacketsOK', Good(x, y)', Good(y, x)'
  PROVE  IInv'
<1>1. \A p \in Peers : Good(p, Other(p))'
  BY DEF Pair
<1> QED  BY <1>1 DEF IInv

\* The fields of a packet.
LEMMA PacketFields ==
  ASSUME NEW m \in Packets
  PROVE  /\ m.gen \in 0 .. LastGeneration
         /\ \/ m.kind = "ready" /\ m.value \in Ticks
            \/ m.kind = "inputs"
            \/ m.kind = "resume" /\ m.value \in Nonces
<1>1. CASE m \in {Ready(g, t) : g \in 0 .. LastGeneration, t \in Ticks}
  BY <1>1 DEF Ready
<1>2. CASE m \in {Inputs(g) : g \in 0 .. LastGeneration}
  BY <1>2 DEF Inputs
<1>3. CASE m \in {Resume(g, n) : g \in 0 .. LastGeneration, n \in Nonces}
  BY <1>3 DEF Resume
<1> QED  BY <1>1, <1>2, <1>3 DEF Packets

\* The packets that are made.
LEMMA NewPackets ==
  ASSUME NEW g \in 0 .. LastGeneration
  PROVE  /\ \A t \in Ticks : Ready(g, t) \in Packets
         /\ \A t : /\ Ready(g, t).kind = "ready" /\ Ready(g, t).gen = g
                   /\ Ready(g, t).value = t
         /\ Inputs(g) \in Packets /\ Inputs(g).kind = "inputs" /\ Inputs(g).gen = g
         /\ \A n \in Nonces : Resume(g, n) \in Packets
         /\ \A n : /\ Resume(g, n).kind = "resume" /\ Resume(g, n).gen = g
                   /\ Resume(g, n).value = n
<1>1. \A t \in Ticks : Ready(g, t) \in Packets
  BY DEF Packets
<1>2. Inputs(g) \in Packets
  BY DEF Packets
<1>3. \A n \in Nonces : Resume(g, n) \in Packets
  BY DEF Packets
<1>4. \A t : Ready(g, t).kind = "ready" /\ Ready(g, t).gen = g /\ Ready(g, t).value = t
  BY DEF Ready
<1>5. Inputs(g).kind = "inputs" /\ Inputs(g).gen = g
  BY DEF Inputs
<1>6. \A n : /\ Resume(g, n).kind = "resume" /\ Resume(g, n).gen = g
             /\ Resume(g, n).value = n
  BY DEF Resume
<1> QED  BY <1>1, <1>2, <1>3, <1>4, <1>5, <1>6

\* Nothing is in an empty queue.
LEMMA ElemsEmpty == Elems(<< >>) = {}
<1>1. Len(<< >>) = 0 /\ 1 .. 0 = {}
  OBVIOUS
<1> QED  BY <1>1 DEF Elems

\* What is in a queue is a packet.
LEMMA ElemsPackets ==
  ASSUME NEW s \in Seq(Packets)
  PROVE  Elems(s) \subseteq Packets
<1>1. \A k \in 1 .. Len(s) : s[k] \in Packets
  OBVIOUS
<1> QED  BY <1>1 DEF Elems

\* A packet added to a queue comes last.
LEMMA ElemsAdded ==
  ASSUME NEW s \in Seq(Packets), NEW m \in Packets
  PROVE  /\ s \o <<m>> \in Seq(Packets) /\ s \o <<m>> # << >>
         /\ Elems(s \o <<m>>) = Elems(s) \cup {m}
         /\ s # << >> => (s \o <<m>>)[1] = s[1]
         /\ s = << >> => (s \o <<m>>)[1] = m
<1>1. /\ <<m>> \in Seq(Packets) /\ Len(<<m>>) = 1 /\ <<m>>[1] = m
  OBVIOUS
<1> DEFINE t == <<m>>
<1>2. t \in Seq(Packets) /\ Len(t) = 1 /\ t[1] = m
  BY <1>1
<1> HIDE DEF t
<1>3. /\ s \o t \in Seq(Packets) /\ Len(s \o t) = Len(s) + Len(t) /\ Len(s) \in Nat
      /\ \A i \in 1 .. Len(s) : (s \o t)[i] = s[i]
      /\ \A i \in 1 .. Len(t) : (s \o t)[Len(s) + i] = t[i]
  <2>1. Len(s) \in Nat
    BY LenProperties
  <2>2. s \o t \in Seq(Packets) /\ Len(s \o t) = Len(s) + Len(t)
    BY <1>2, ConcatProperties, Zenon
  <2>3. \A i \in 1 .. Len(s) + Len(t) :
            (s \o t)[i] = IF i <= Len(s) THEN s[i] ELSE t[i - Len(s)]
    BY <1>2, ConcatProperties, Zenon
  <2> HIDE DEF t
  <2> DEFINE u == s \o t
             n == Len(s)
  <2>4. \A i \in 1 .. n + Len(t) : u[i] = IF i <= n THEN s[i] ELSE t[i - n]
    BY <2>3
  <2>5. n \in Nat
    BY <2>1
  <2> HIDE DEF u, n
  <2>6. \A i \in 1 .. n : i \in 1 .. n + Len(t) /\ i <= n
    BY <1>2, <2>5
  <2>7. \A i \in 1 .. Len(t) : n + i \in 1 .. n + Len(t) /\ ~(n + i <= n) /\ (n + i) - n = i
    BY <1>2, <2>5
  <2>8. \A i \in 1 .. n : u[i] = s[i]
    BY <2>4, <2>6
  <2>9. \A i \in 1 .. Len(t) : u[n + i] = t[i]
    BY <2>4, <2>7
  <2> QED  BY <2>1, <2>2, <2>8, <2>9 DEF u, n
<1>4. Len(s \o t) = Len(s) + 1 /\ (s \o t)[Len(s) + 1] = m
  BY <1>2, <1>3
<1>5. \A k : k \in 1 .. (Len(s) + 1) <=> k \in 1 .. Len(s) \/ k = Len(s) + 1
  BY <1>3
<1>6. Elems(s \o t) = Elems(s) \cup {m}
  BY <1>3, <1>4, <1>5 DEF Elems
<1>7. s # << >> => Len(s) >= 1
  BY <1>3, EmptySeq
<1>8. s = << >> => Len(s) = 0
  OBVIOUS
<1>9. /\ s \o t # << >>
      /\ s # << >> => (s \o t)[1] = s[1]
      /\ s = << >> => (s \o t)[1] = m
  BY <1>3, <1>4, <1>7, <1>8
<1> QED  BY <1>3, <1>6, <1>9 DEF t

\* Nothing is added.
LEMMA NothingAdded ==
  ASSUME NEW s \in Seq(Packets)
  PROVE  s \o << >> = s
  BY ConcatEmptySeq

\* The first packet is taken.
LEMMA ElemsTaken ==
  ASSUME NEW s \in Seq(Packets), s # << >>
  PROVE  /\ Head(s) = s[1] /\ Head(s) \in Packets /\ Head(s) \in Elems(s)
         /\ Tail(s) \in Seq(Packets) /\ Elems(Tail(s)) \subseteq Elems(s)
         /\ \A m \in Elems(s) : m = Head(s) \/ m \in Elems(Tail(s))
<1>1. /\ Head(s) \in Packets /\ Tail(s) \in Seq(Packets) /\ Len(Tail(s)) = Len(s) - 1
      /\ Head(s) = s[1] /\ Len(s) \in Nat /\ Len(s) >= 1
      /\ \A i \in 1 .. Len(Tail(s)) : Tail(s)[i] = s[i + 1]
  BY HeadTailProperties, LenProperties, EmptySeq
<1>2. \A k \in 1 .. Len(Tail(s)) : k + 1 \in 1 .. Len(s)
  BY <1>1
<1>3. Elems(Tail(s)) \subseteq Elems(s)
  BY <1>1, <1>2 DEF Elems
<1>4. ASSUME NEW k \in 1 .. Len(s), k # 1
      PROVE  \E j \in 1 .. Len(Tail(s)) : Tail(s)[j] = s[k]
  <2>1. k - 1 \in 1 .. Len(Tail(s)) /\ (k - 1) + 1 = k
    BY <1>1, <1>4
  <2> QED  BY <1>1, <2>1
<1>5. \A m \in Elems(s) : m = Head(s) \/ m \in Elems(Tail(s))
  BY <1>1, <1>4 DEF Elems
<1>6. 1 \in 1 .. Len(s)
  BY <1>1
<1>7. Head(s) \in Elems(s)
  BY <1>1, <1>6 DEF Elems
<1> QED  BY <1>1, <1>3, <1>5, <1>7

\* The queue t is the queue s with m added.
Extended(s, t, m) ==
    /\ t \in Seq(Packets) /\ t # << >> /\ Elems(t) = Elems(s) \cup {m}
    /\ s # << >> => t[1] = s[1]
    /\ s = << >> => t[1] = m

\* A packet that is sent is added to the queue of the other peer, or lost.
LEMMA SentOne ==
  ASSUME NEW r \in [Peers -> Seq(Packets)], NEW x, NEW y, Pair(x, y), NEW m \in Packets
  PROVE  /\ Sent(r, x, <<m>>) \in [Peers -> Seq(Packets)]
         /\ Sent(r, x, <<m>>)[x] = r[x]
         /\ link \in {"half", "up"} => Extended(r[y], Sent(r, x, <<m>>)[y], m)
         /\ link \notin {"half", "up"} => Sent(r, x, <<m>>) = r
<1>1. r[y] \in Seq(Packets) /\ x # y /\ y \in Peers /\ Other(x) = y
  BY DEF Pair
<1>2. Extended(r[y], r[y] \o <<m>>, m)
  BY <1>1, ElemsAdded DEF Extended
<1> DEFINE t == r[y] \o <<m>>
<1>3. t \in Seq(Packets) /\ Extended(r[y], t, m)
  BY <1>2 DEF Extended
<1>4. Sent(r, x, <<m>>) = IF link \in {"half", "up"} THEN [r EXCEPT ![y] = t] ELSE r
  BY <1>1, Zenon DEF Sent
<1> HIDE DEF t
<1>5. /\ [r EXCEPT ![y] = t] \in [Peers -> Seq(Packets)]
      /\ [r EXCEPT ![y] = t][x] = r[x] /\ [r EXCEPT ![y] = t][y] = t
  BY <1>1, <1>3 DEF Pair
<1> QED  BY <1>3, <1>4, <1>5

\* Nothing is sent.
LEMMA SentNothing ==
  ASSUME NEW r \in [Peers -> Seq(Packets)], NEW x, NEW y, Pair(x, y)
  PROVE  Sent(r, x, << >>) = r
<1>1. r[y] \in Seq(Packets) /\ y \in Peers /\ Other(x) = y
  BY DEF Pair
<1>2. r[y] \o << >> = r[y]
  BY <1>1, NothingAdded
<1>3. [r EXCEPT ![y] = r[y]] = r
  BY <1>1
<1>4. Sent(r, x, << >>) =
          IF link \in {"half", "up"} THEN [r EXCEPT ![y] = r[y] \o << >>] ELSE r
  BY <1>1, Zenon DEF Sent
<1> QED  BY <1>2, <1>3, <1>4

-----------------------------------------------------------------------------
(* Types *)

\* The types of the Boolean functions, one by one.
Flags ==
    /\ ready \in [Peers -> BOOLEAN] /\ after \in [Peers -> BOOLEAN]
    /\ sent \in [Peers -> BOOLEAN] /\ match \in [Peers -> BOOLEAN]
    /\ epochKnown \in [Peers -> BOOLEAN] /\ gotInput \in [Peers -> BOOLEAN]
    /\ connected \in [Peers -> BOOLEAN] /\ once \in [Peers -> BOOLEAN]
    /\ validated \in [Peers -> BOOLEAN] /\ recovering \in [Peers -> BOOLEAN]

\* The types of everything else.
Fields ==
    /\ pc \in [Peers -> {"run", "mark", "wait", "play", "result", "exit70", "exit72"}]
    /\ gen \in [Peers -> 0 .. LastGeneration] /\ tick \in [Peers -> Ticks]
    /\ local \in [Peers -> Ticks \cup {None}] /\ remote \in [Peers -> Ticks \cup {None}]
    /\ seen \in [Peers -> Ticks \cup {None}]
    /\ nonce \in [Peers -> Nonces] /\ remoteNonce \in [Peers -> Nonces \cup {None}]
    /\ partner \in [Peers -> Nonces \cup {None}]
    /\ link \in {"down", "half", "up", "broken"} /\ breaks \in 0 .. MaxFaults

\* Together they are the type invariant.
LEMMA TypesApart == TypeOK <=> Flags /\ Fields
<1>1. TypeOK => Flags /\ Fields
  BY Zenon DEF TypeOK, Flags, Fields
<1>2. Flags /\ Fields => TypeOK
  BY Zenon DEF TypeOK, Flags, Fields
<1> QED  BY <1>1, <1>2

\* The same in the next state.
LEMMA TypesApartLater == TypeOK' <=> Flags' /\ Fields'
  BY TypesApart, PTL

\* A function of the peers changed at one of them.
LEMMA Changed ==
  ASSUME NEW S, NEW f \in [Peers -> S], NEW x, NEW y, Pair(x, y), NEW v \in S
  PROVE  /\ [f EXCEPT ![x] = v] \in [Peers -> S]
         /\ [f EXCEPT ![x] = v][x] = v /\ [f EXCEPT ![x] = v][y] = f[y]
  BY DEF Pair

\* A function of the peers given by a set of values.
LEMMA Unchanged ==
  ASSUME NEW S, NEW f \in [Peers -> S], NEW x, NEW y, Pair(x, y)
  PROVE  f[x] \in S /\ f[y] \in S
  BY DEF Pair

\* The types of what concerns one peer.
Typed(p) ==
    /\ pc[p] \in {"run", "mark", "wait", "play", "result", "exit70", "exit72"}
    /\ gen[p] \in 0 .. LastGeneration /\ tick[p] \in Ticks
    /\ local[p] \in Ticks \cup {None} /\ remote[p] \in Ticks \cup {None}
    /\ seen[p] \in Ticks \cup {None}
    /\ nonce[p] \in Nonces /\ remoteNonce[p] \in Nonces \cup {None}
    /\ partner[p] \in Nonces \cup {None}
    /\ ready[p] \in BOOLEAN /\ after[p] \in BOOLEAN /\ sent[p] \in BOOLEAN
    /\ match[p] \in BOOLEAN /\ epochKnown[p] \in BOOLEAN /\ gotInput[p] \in BOOLEAN
    /\ connected[p] \in BOOLEAN /\ once[p] \in BOOLEAN
    /\ validated[p] \in BOOLEAN /\ recovering[p] \in BOOLEAN
    /\ queue[p] \in Seq(Packets) /\ resume[p] \in Packets \cup {None}

\* Both peers are typed.
LEMMA TypedPeers ==
  ASSUME TypeOK, PacketsOK, NEW x, NEW y, Pair(x, y)
  PROVE  Typed(x) /\ Typed(y) /\ link \in {"down", "half", "up", "broken"}
<1>1. x \in Peers /\ y \in Peers
  BY DEF Pair
<1>2. Flags /\ Fields
  BY TypesApart
<1> QED  BY <1>1, <1>2, Zenon DEF Flags, Fields, PacketsOK, Typed

\* What arithmetic needs to know of it.
Whole(p) ==
    /\ gen[p] \in Nat /\ tick[p] \in Nat /\ nonce[p] \in Nat
    /\ tick[p] # None /\ nonce[p] # None
    /\ remote[p] # None => remote[p] \in Nat
    /\ seen[p] # None => seen[p] \in Nat
    /\ remoteNonce[p] # None => remoteNonce[p] \in Nat

\* Ticks, generations and nonces are natural numbers.
LEMMA WholeNumbers ==
  ASSUME NEW p, Typed(p)
  PROVE  Whole(p)
<1>1. \A n \in Ticks \cup Nonces : n \in Nat /\ n # None
  BY SessionAssumption, NoneAssumption DEF Ticks, Nonces
<1>2. \A n \in 0 .. LastGeneration : n \in Nat
  BY SessionAssumption
<1> QED  BY <1>1, <1>2, Zenon DEF Typed, Whole

\* The numbers in the packets under way to a peer.
Numbered(p) ==
    \A m \in Elems(queue[p]) :
        /\ m.gen \in Nat
        /\ m.kind = "ready" => m.value \in Nat /\ m.value # None
        /\ m.kind = "resume" => m.value \in Nat /\ m.value # None

\* They are natural numbers.
LEMMA NumberedPackets ==
  ASSUME NEW p, Typed(p)
  PROVE  Numbered(p)
<1>1. \A n \in Ticks \cup Nonces : n \in Nat /\ n # None
  BY SessionAssumption, NoneAssumption DEF Ticks, Nonces
<1>2. \A n \in 0 .. LastGeneration : n \in Nat
  BY SessionAssumption
<1> SUFFICES ASSUME NEW m \in Elems(queue[p])
             PROVE  /\ m.gen \in Nat
                    /\ m.kind = "ready" => m.value \in Nat /\ m.value # None
                    /\ m.kind = "resume" => m.value \in Nat /\ m.value # None
  BY DEF Numbered
<1>3. queue[p] \in Seq(Packets)
  BY DEF Typed
<1>4. m \in Packets
  BY <1>3, ElemsPackets
<1> QED  BY <1>1, <1>2, <1>4, PacketFields

\* The invariant for two peers.
LEMMA Unfold ==
  ASSUME IInv, NEW x, NEW y, Pair(x, y)
  PROVE  /\ TypeOK /\ PacketsOK /\ Good(x, y) /\ Good(y, x)
         /\ Typed(x) /\ Typed(y) /\ link \in {"down", "half", "up", "broken"}
         /\ Whole(x) /\ Whole(y) /\ Numbered(x) /\ Numbered(y)
<1>1. TypeOK /\ PacketsOK
  BY DEF IInv
<1>2. Good(x, y) /\ Good(y, x)
  BY DEF IInv, Pair
<1> QED  BY <1>1, <1>2, TypedPeers, WholeNumbers, NumberedPackets

\* A function of the peers is not changed by the value it has.
LEMMA NotChanged ==
  ASSUME NEW S, NEW f \in [Peers -> S], NEW x \in Peers, NEW v, f[x] = v
  PROVE  [f EXCEPT ![x] = v] = f
  OBVIOUS

\* A peer's side of the connection does not depend on how far its game is.
LEMMA NetworkSame ==
  ASSUME NEW p, NEW q, Good(p, q), Running(p)' <=> Running(p),
         link' = link, queue' = queue, resume' = resume, connected' = connected,
         once' = once, validated' = validated, nonce' = nonce, remoteNonce' = remoteNonce
  PROVE  /\ LinkShape(p, q)' /\ ResumeFirst(p)' /\ Resumptions(p, q)'
         /\ OneSender(p)' /\ Strange(p, q)' /\ DoomSeen(p, q)'
<1>1. LinkShape(p, q)'
  BY DEF Good, LinkShape
<1>2. ResumeFirst(p)'
  BY DEF Good, ResumeFirst
<1>3. Resumptions(p, q)'
  BY DEF Good, Resumptions, Known, Acquainted, Old
<1>4. OneSender(p)'
  BY DEF Good, OneSender
<1>5. Strange(p, q)'
  BY DEF Good, Strange, Stranger, Known, Doomed
<1>6. DoomSeen(p, q)'
  BY DEF Good, DoomSeen, Stranger, Known, Doomed
<1> QED  BY <1>1, <1>2, <1>3, <1>4, <1>5, <1>6

-----------------------------------------------------------------------------
(* The steps of the handshake *)

\* The game can start.
LEMMA BecomeReadyStep ==
  ASSUME IInv, NEW x, NEW y, Pair(x, y), BecomeReady(x)
  PROVE  IInv'
<1>1. /\ TypeOK /\ PacketsOK /\ Good(x, y) /\ Good(y, x)
      /\ Typed(x) /\ Typed(y) /\ link \in {"down", "half", "up", "broken"}
      /\ Whole(x) /\ Whole(y) /\ Numbered(x) /\ Numbered(y)
  BY Unfold
<1>2. Flags /\ Fields
  BY <1>1, TypesApart
<1>3. /\ pc[x] = "run" /\ pc' = [pc EXCEPT ![x] = "mark"]
      /\ local' = [local EXCEPT ![x] = tick[x]] /\ after' = [after EXCEPT ![x] = FALSE]
      /\ seen' = [seen EXCEPT ![x] = remote[x]] /\ ready' = [ready EXCEPT ![x] = TRUE]
  BY Zenon DEF BecomeReady
<1>4. /\ gen' = gen /\ tick' = tick /\ remote' = remote /\ sent' = sent
      /\ match' = match /\ epochKnown' = epochKnown /\ gotInput' = gotInput
      /\ partner' = partner /\ connected' = connected /\ once' = once
      /\ validated' = validated /\ recovering' = recovering /\ nonce' = nonce
      /\ remoteNonce' = remoteNonce /\ link' = link /\ queue' = queue
      /\ resume' = resume /\ breaks' = breaks
  BY Zenon DEF BecomeReady, handshake, session, network
<1>5. pc[x] = "run"
  BY <1>3
<1>6. /\ pc'[x] = "mark" /\ pc'[y] = pc[y]
      /\ local'[x] = tick[x] /\ tick[x] # None /\ local'[y] = local[y]
      /\ seen'[x] = remote[x] /\ seen'[y] = seen[y]
      /\ after'[x] = FALSE /\ after'[y] = after[y]
  BY <1>1, <1>2, <1>3 DEF Flags, Fields, Pair, Whole
<1>7. TypeOK'
  <2>1. Flags'
    BY <1>1, <1>2, <1>3, <1>4, <1>6, Changed DEF Flags, Pair, Typed
  <2>2. Fields'
    BY <1>1, <1>2, <1>3, <1>4, <1>6, Changed DEF Fields, Pair, Typed
  <2> QED  BY <2>1, <2>2, TypesApartLater
<1>8. PacketsOK'
  BY <1>1, <1>4 DEF PacketsOK
<1>9. Good(x, y)'
  <2>1. /\ LinkShape(x, y)' /\ ResumeFirst(x)' /\ Resumptions(x, y)'
        /\ OneSender(x)' /\ Strange(x, y)' /\ DoomSeen(x, y)'
    BY <1>1, <1>4, <1>5, <1>6, NetworkSame DEF Good, Running
  <2>2. Unmet(x)'
    BY <1>1, <1>4, <1>5, <1>6 DEF Good, Unmet
  <2>3. Handshake(x)'
    BY <1>1, <1>4, <1>5, <1>6 DEF Good, Handshake, Began
  <2>4. UnderWay(x, y)'
    BY <1>1, <1>4, <1>5, <1>6 DEF Good, UnderWay, Described, Showing,
      Acquainted, Old, Began
  <2>5. Knowledge(x, y)'
    BY <1>1, <1>4, <1>5, <1>6 DEF Good, Knowledge, Described, Showing,
      Acquainted, Agreed, Began, Handshake, Whole
  <2>6. Capped(x, y)'
    BY <1>1, <1>4, <1>5, <1>6 DEF Good, Capped, Old, Deciding, Doomed, AtMost,
      Known
  <2>7. Replaced(x, y)'
    BY <1>1, <1>4, <1>5, <1>6 DEF Good, Replaced, Stranger, SaysTick, HeardTick,
      Hopeless, Known, Agreed, Began, AtMost, Handshake
  <2> QED
    BY <2>1, <2>2, <2>3, <2>4, <2>5, <2>6, <2>7 DEF Good
<1>10. Good(y, x)'
  <2>1. /\ LinkShape(y, x)' /\ ResumeFirst(y)' /\ Resumptions(y, x)'
        /\ OneSender(y)' /\ Strange(y, x)' /\ DoomSeen(y, x)'
    BY <1>1, <1>4, <1>5, <1>6, NetworkSame DEF Good, Running
  <2>2. Unmet(y)'
    BY <1>1, <1>4, <1>5, <1>6 DEF Good, Unmet
  <2>3. Handshake(y)'
    BY <1>1, <1>4, <1>5, <1>6 DEF Good, Handshake, Began
  <2>4. UnderWay(y, x)'
    BY <1>1, <1>4, <1>5, <1>6 DEF Good, UnderWay, Described, Showing,
      Acquainted, Old, Began
  <2>5. Knowledge(y, x)'
    BY <1>1, <1>4, <1>5, <1>6 DEF Good, Knowledge, Described, Showing,
      Acquainted, Agreed, Began, Handshake, Whole
  <2>6. Capped(y, x)'
    BY <1>1, <1>4, <1>5, <1>6 DEF Good, Capped, Old, Deciding, Doomed, AtMost,
      Known
  <2>7. Replaced(y, x)'
    BY <1>1, <1>4, <1>5, <1>6 DEF Good, Replaced, Stranger, SaysTick, HeardTick,
      Hopeless, Known, Agreed, Began, AtMost, Handshake
  <2> QED
    BY <2>1, <2>2, <2>3, <2>4, <2>5, <2>6, <2>7 DEF Good
<1> QED  BY <1>7, <1>8, <1>9, <1>10, BothPeers

\* A description that was read is judged.
LEMMA MarkValidationStep ==
  ASSUME IInv, NEW x, NEW y, Pair(x, y), MarkValidation(x)
  PROVE  IInv'
<1>1. /\ TypeOK /\ PacketsOK /\ Good(x, y) /\ Good(y, x)
      /\ Typed(x) /\ Typed(y) /\ link \in {"down", "half", "up", "broken"}
      /\ Whole(x) /\ Whole(y) /\ Numbered(x) /\ Numbered(y)
  BY Unfold
<1>2. Flags /\ Fields
  BY <1>1, TypesApart
<1>3. /\ pc[x] = "mark" /\ pc' = [pc EXCEPT ![x] = "wait"]
      /\ seen' = [seen EXCEPT ![x] = None]
      /\ match' = IF seen[x] = None THEN match
                 ELSE [match EXCEPT ![x] = tick[x] = seen[x]]
  BY Zenon DEF MarkValidation, ValidateStartReady
<1>4. /\ gen' = gen /\ tick' = tick /\ local' = local /\ ready' = ready
      /\ remote' = remote /\ after' = after /\ sent' = sent
      /\ epochKnown' = epochKnown /\ gotInput' = gotInput /\ partner' = partner
      /\ connected' = connected /\ once' = once /\ validated' = validated
      /\ recovering' = recovering /\ nonce' = nonce /\ remoteNonce' = remoteNonce
      /\ link' = link /\ queue' = queue /\ resume' = resume /\ breaks' = breaks
  BY Zenon DEF MarkValidation, ValidateStartReady, handshake, session, network
<1>5. pc[x] = "mark"
  BY <1>3
<1>6. /\ pc'[x] = "wait" /\ pc'[y] = pc[y]
      /\ seen'[x] = None /\ seen'[y] = seen[y]
      /\ seen[x] = None => match'[x] = match[x]
      /\ seen[x] # None => (match'[x] <=> tick[x] = seen[x])
      /\ match'[y] = match[y]
  BY <1>1, <1>2, <1>3 DEF Flags, Fields, Pair, Whole
<1>7. TypeOK'
  <2>1. Flags'
    BY <1>1, <1>2, <1>3, <1>4, <1>6, Changed DEF Flags, Pair, Typed
  <2>2. Fields'
    BY <1>1, <1>2, <1>3, <1>4, <1>6, Changed DEF Fields, Pair, Typed
  <2> QED  BY <2>1, <2>2, TypesApartLater
<1>8. PacketsOK'
  BY <1>1, <1>4 DEF PacketsOK
<1>9. Good(x, y)'
  <2>1. /\ LinkShape(x, y)' /\ ResumeFirst(x)' /\ Resumptions(x, y)'
        /\ OneSender(x)' /\ Strange(x, y)' /\ DoomSeen(x, y)'
    BY <1>1, <1>4, <1>5, <1>6, NetworkSame DEF Good, Running
  <2>2. Unmet(x)'
    BY <1>1, <1>4, <1>5, <1>6 DEF Good, Unmet
  <2>3. Handshake(x)'
    BY <1>1, <1>4, <1>5, <1>6 DEF Good, Handshake, Began
  <2>4. UnderWay(x, y)'
    BY <1>1, <1>4, <1>5, <1>6 DEF Good, UnderWay, Described, Showing,
      Acquainted, Old, Began
  <2>5. Knowledge(x, y)'
    BY <1>1, <1>4, <1>5, <1>6 DEF Good, Knowledge, Described, Showing,
      Acquainted, Agreed, Began, Handshake, Whole
  <2>6. Capped(x, y)'
    BY <1>1, <1>4, <1>5, <1>6 DEF Good, Capped, Old, Deciding, Doomed, AtMost,
      Known
  <2>7. Replaced(x, y)'
    BY <1>1, <1>4, <1>5, <1>6 DEF Good, Replaced, Stranger, SaysTick, HeardTick,
      Hopeless, Known, Agreed, Began, AtMost, Handshake, Whole
  <2> QED
    BY <2>1, <2>2, <2>3, <2>4, <2>5, <2>6, <2>7 DEF Good
<1>10. Good(y, x)'
  <2>1. /\ LinkShape(y, x)' /\ ResumeFirst(y)' /\ Resumptions(y, x)'
        /\ OneSender(y)' /\ Strange(y, x)' /\ DoomSeen(y, x)'
    BY <1>1, <1>4, <1>5, <1>6, NetworkSame DEF Good, Running
  <2>2. Unmet(y)'
    BY <1>1, <1>4, <1>5, <1>6 DEF Good, Unmet
  <2>3. Handshake(y)'
    BY <1>1, <1>4, <1>5, <1>6 DEF Good, Handshake, Began
  <2>4. UnderWay(y, x)'
    BY <1>1, <1>4, <1>5, <1>6 DEF Good, UnderWay, Described, Showing,
      Acquainted, Old, Began
  <2>5. Knowledge(y, x)'
    BY <1>1, <1>4, <1>5, <1>6 DEF Good, Knowledge, Described, Showing,
      Acquainted, Agreed, Began
  <2>6. Capped(y, x)'
    BY <1>1, <1>4, <1>5, <1>6 DEF Good, Capped, Old, Deciding, Doomed, AtMost,
      Known
  <2>7. Replaced(y, x)'
    BY <1>1, <1>4, <1>5, <1>6 DEF Good, Replaced, Stranger, SaysTick, HeardTick,
      Hopeless, Known, Agreed, Began, AtMost, Handshake, Whole
  <2> QED
    BY <2>1, <2>2, <2>3, <2>4, <2>5, <2>6, <2>7 DEF Good
<1> QED  BY <1>7, <1>8, <1>9, <1>10, BothPeers

\* The own description is sent.
LEMMA SendStartReadyStep ==
  ASSUME IInv, NEW x, NEW y, Pair(x, y), SendStartReady(x)
  PROVE  IInv'
<1>1. /\ TypeOK /\ PacketsOK /\ Good(x, y) /\ Good(y, x)
      /\ Typed(x) /\ Typed(y) /\ link \in {"down", "half", "up", "broken"}
      /\ Whole(x) /\ Whole(y) /\ Numbered(x) /\ Numbered(y)
  BY Unfold
<1>2. Flags /\ Fields
  BY <1>1, TypesApart
<1>3. /\ pc[x] = "wait" /\ connected[x] /\ local[x] # None
      /\ queue' = Sent(queue, x, <<Ready(gen[x], local[x])>>)
      /\ sent' = [sent EXCEPT ![x] = TRUE]
  BY Zenon DEF SendStartReady, CanSendStartReady
<1>4. /\ pc' = pc /\ gen' = gen /\ tick' = tick /\ local' = local
      /\ ready' = ready /\ remote' = remote /\ seen' = seen /\ after' = after
      /\ match' = match /\ epochKnown' = epochKnown /\ gotInput' = gotInput
      /\ partner' = partner /\ connected' = connected /\ once' = once
      /\ validated' = validated /\ recovering' = recovering /\ nonce' = nonce
      /\ remoteNonce' = remoteNonce /\ link' = link /\ resume' = resume
      /\ breaks' = breaks
  BY Zenon DEF SendStartReady, CanSendStartReady, handshake, session, network
<1> DEFINE m == Ready(gen[x], local[x])
<1>5. m \in Packets /\ m.kind = "ready" /\ m.gen = gen[x] /\ m.value = tick[x]
  BY <1>1, <1>3, NewPackets DEF Good, Handshake, Typed
<1>6. queue' = Sent(queue, x, <<m>>)
  BY <1>3
<1> HIDE DEF m
<1>7. pc[x] = "wait" /\ connected[x] /\ local[x] # None
  BY <1>3
<1>8. /\ queue'[x] = queue[x]
      /\ link \in {"half", "up"} => Extended(queue[y], queue'[y], m)
      /\ link \notin {"half", "up"} => queue'[y] = queue[y]
  BY <1>1, <1>5, <1>6, SentOne DEF PacketsOK
<1>9. TypeOK'
  <2>1. Flags'
    BY <1>1, <1>2, <1>3, <1>4, <1>8, Changed DEF Flags, Pair, Typed
  <2>2. Fields'
    BY <1>1, <1>2, <1>3, <1>4, <1>8, Changed DEF Fields, Pair, Typed
  <2> QED  BY <2>1, <2>2, TypesApartLater
<1>10. PacketsOK'
  BY <1>1, <1>4, <1>5, <1>6, SentOne DEF PacketsOK
<1>11. Good(x, y)'
  <2>1. LinkShape(x, y)'
    BY <1>1, <1>4, <1>5, <1>7, <1>8 DEF Good, LinkShape, Running, Extended, Pair
  <2>2. Unmet(x)'
    BY <1>1, <1>4, <1>7, <1>8 DEF Good, Unmet
  <2>3. ResumeFirst(x)'
    BY <1>1, <1>4, <1>5, <1>7, <1>8 DEF Good, ResumeFirst, Extended, Pair,
      LinkShape
  <2>4. Handshake(x)'
    BY <1>1, <1>4, <1>7, <1>8 DEF Good, Handshake, Began
  <2>5. Resumptions(x, y)'
    BY <1>1, <1>4, <1>5, <1>7, <1>8 DEF Good, Resumptions, Known, Acquainted,
      Old, Extended, Pair, LinkShape
  <2>6. OneSender(x)'
    BY <1>1, <1>4, <1>5, <1>7, <1>8 DEF Good, OneSender, Extended, Pair,
      LinkShape
  <2>7. Strange(x, y)'
    BY <1>1, <1>4, <1>5, <1>7, <1>8 DEF Good, Strange, Stranger, Known, Doomed,
      Extended, Pair, LinkShape
  <2>8. DoomSeen(x, y)'
    BY <1>1, <1>4, <1>5, <1>7, <1>8 DEF Good, DoomSeen, Stranger, Known, Doomed,
      Extended, Pair, LinkShape
  <2>9. UnderWay(x, y)'
    BY <1>1, <1>4, <1>7, <1>8 DEF Good, UnderWay, Described, Showing,
      Acquainted, Old, Began
  <2>10. Knowledge(x, y)'
    BY <1>1, <1>4, <1>7, <1>8 DEF Good, Knowledge, Described, Showing,
      Acquainted, Agreed, Began
  <2>11. Capped(x, y)'
    BY <1>1, <1>4, <1>5, <1>7, <1>8 DEF Good, Capped, Old, Deciding, Doomed,
      AtMost, Known, Extended, Pair, LinkShape
  <2>12. Replaced(x, y)'
    BY <1>1, <1>4, <1>5, <1>7, <1>8 DEF Good, Replaced, Stranger, SaysTick,
      HeardTick, Hopeless, Known, Agreed, Began, AtMost, Extended, Pair,
      LinkShape
  <2> QED
    BY <2>1, <2>2, <2>3, <2>4, <2>5, <2>6, <2>7, <2>8, <2>9, <2>10, <2>11, <2>12
       DEF Good
<1>12. Good(y, x)'
  <2>1. LinkShape(y, x)'
    BY <1>1, <1>4, <1>5, <1>7, <1>8 DEF Good, LinkShape, Running, Extended, Pair
  <2>2. Unmet(y)'
    BY <1>1, <1>4, <1>7, <1>8 DEF Good, Unmet
  <2>3. ResumeFirst(y)'
    BY <1>1, <1>4, <1>5, <1>7, <1>8 DEF Good, ResumeFirst, Extended, Pair,
      LinkShape
  <2>4. Handshake(y)'
    BY <1>1, <1>4, <1>7, <1>8 DEF Good, Handshake, Began
  <2>5. Resumptions(y, x)'
    BY <1>1, <1>4, <1>5, <1>7, <1>8 DEF Good, Resumptions, Known, Acquainted,
      Old, Extended, Pair, LinkShape
  <2>6. OneSender(y)'
    BY <1>1, <1>4, <1>5, <1>7, <1>8 DEF Good, OneSender, Extended, Pair,
      LinkShape
  <2>7. Strange(y, x)'
    BY <1>1, <1>4, <1>5, <1>7, <1>8 DEF Good, Strange, Stranger, Known, Doomed,
      Extended, Pair, LinkShape
  <2>8. DoomSeen(y, x)'
    BY <1>1, <1>4, <1>5, <1>7, <1>8 DEF Good, DoomSeen, Stranger, Known, Doomed,
      Extended, Pair, LinkShape
  <2>9. UnderWay(y, x)'
    <3>1. /\ \A g, t : Described(y, x, g, t)' <=> Described(y, x, g, t)
          /\ \A g : Showing(y, x, g)' <=> Showing(y, x, g)
          /\ Old(y, x)' <=> Old(y, x)
      BY <1>4 DEF Described, Showing, Acquainted, Began, Old
    <3>2. Described(y, x, gen[x], tick[x])
      BY <1>1, <1>7 DEF Described, Whole
    <3>3. Elems(queue'[y]) = Elems(queue[y]) \/ Elems(queue'[y]) = Elems(queue[y]) \cup {m}
      BY <1>8 DEF Extended
    <3> QED  BY <1>1, <1>4, <1>5, <3>1, <3>2, <3>3 DEF Good, UnderWay
  <2>10. Knowledge(y, x)'
    BY <1>1, <1>4, <1>7, <1>8 DEF Good, Knowledge, Described, Showing,
      Acquainted, Agreed, Began
  <2>11. Capped(y, x)'
    BY <1>1, <1>4, <1>5, <1>7, <1>8 DEF Good, Capped, Old, Deciding, Doomed,
      AtMost, Known, Extended, Pair, LinkShape
  <2>12. Replaced(y, x)'
    BY <1>1, <1>4, <1>5, <1>7, <1>8 DEF Good, Replaced, Stranger, SaysTick,
      HeardTick, Hopeless, Known, Agreed, Began, AtMost, Extended, Pair,
      LinkShape
  <2> QED
    BY <2>1, <2>2, <2>3, <2>4, <2>5, <2>6, <2>7, <2>8, <2>9, <2>10, <2>11, <2>12
       DEF Good
<1> QED  BY <1>9, <1>10, <1>11, <1>12, BothPeers

\* It is sent again.
LEMMA ResendStartReadyStep ==
  ASSUME IInv, NEW x, NEW y, Pair(x, y), ResendStartReady(x)
  PROVE  IInv'
<1>1. /\ TypeOK /\ PacketsOK /\ Good(x, y) /\ Good(y, x)
      /\ Typed(x) /\ Typed(y) /\ link \in {"down", "half", "up", "broken"}
      /\ Whole(x) /\ Whole(y) /\ Numbered(x) /\ Numbered(y)
  BY Unfold
<1>2. Flags /\ Fields
  BY <1>1, TypesApart
<1>3. /\ pc[x] \in {"wait", "play"} /\ connected[x] /\ local[x] # None
      /\ queue' = Sent(queue, x, <<Ready(gen[x], local[x])>>)
  BY Zenon DEF ResendStartReady, ShouldResendStartReady, CanSendStartReady
<1>4. /\ pc' = pc /\ gen' = gen /\ tick' = tick /\ local' = local
      /\ ready' = ready /\ remote' = remote /\ seen' = seen /\ after' = after
      /\ sent' = sent /\ match' = match /\ epochKnown' = epochKnown
      /\ gotInput' = gotInput /\ partner' = partner /\ connected' = connected
      /\ once' = once /\ validated' = validated /\ recovering' = recovering
      /\ nonce' = nonce /\ remoteNonce' = remoteNonce /\ link' = link
      /\ resume' = resume /\ breaks' = breaks
  BY Zenon
     DEF ResendStartReady, ShouldResendStartReady, CanSendStartReady, handshake,
         session, network
<1> DEFINE m == Ready(gen[x], local[x])
<1>5. m \in Packets /\ m.kind = "ready" /\ m.gen = gen[x] /\ m.value = tick[x]
  BY <1>1, <1>3, NewPackets DEF Good, Handshake, Typed
<1>6. queue' = Sent(queue, x, <<m>>)
  BY <1>3
<1> HIDE DEF m
<1>7. pc[x] \in {"wait", "play"} /\ connected[x] /\ local[x] # None
  BY <1>3
<1>8. /\ queue'[x] = queue[x]
      /\ link \in {"half", "up"} => Extended(queue[y], queue'[y], m)
      /\ link \notin {"half", "up"} => queue'[y] = queue[y]
  BY <1>1, <1>5, <1>6, SentOne DEF PacketsOK
<1>9. TypeOK'
  <2>1. Flags'
    BY <1>1, <1>2, <1>3, <1>4, <1>8, Changed DEF Flags, Pair, Typed
  <2>2. Fields'
    BY <1>1, <1>2, <1>3, <1>4, <1>8, Changed DEF Fields, Pair, Typed
  <2> QED  BY <2>1, <2>2, TypesApartLater
<1>10. PacketsOK'
  BY <1>1, <1>4, <1>5, <1>6, SentOne DEF PacketsOK
<1>11. Good(x, y)'
  <2>1. LinkShape(x, y)'
    BY <1>1, <1>4, <1>5, <1>7, <1>8 DEF Good, LinkShape, Running, Extended, Pair
  <2>2. Unmet(x)'
    BY <1>1, <1>4, <1>7, <1>8 DEF Good, Unmet
  <2>3. ResumeFirst(x)'
    BY <1>1, <1>4, <1>5, <1>7, <1>8 DEF Good, ResumeFirst, Extended, Pair,
      LinkShape
  <2>4. Handshake(x)'
    BY <1>1, <1>4, <1>7, <1>8 DEF Good, Handshake, Began
  <2>5. Resumptions(x, y)'
    BY <1>1, <1>4, <1>5, <1>7, <1>8 DEF Good, Resumptions, Known, Acquainted,
      Old, Extended, Pair, LinkShape
  <2>6. OneSender(x)'
    BY <1>1, <1>4, <1>5, <1>7, <1>8 DEF Good, OneSender, Extended, Pair,
      LinkShape
  <2>7. Strange(x, y)'
    BY <1>1, <1>4, <1>5, <1>7, <1>8 DEF Good, Strange, Stranger, Known, Doomed,
      Extended, Pair, LinkShape
  <2>8. DoomSeen(x, y)'
    BY <1>1, <1>4, <1>5, <1>7, <1>8 DEF Good, DoomSeen, Stranger, Known, Doomed,
      Extended, Pair, LinkShape
  <2>9. UnderWay(x, y)'
    BY <1>1, <1>4, <1>7, <1>8 DEF Good, UnderWay, Described, Showing,
      Acquainted, Old, Began
  <2>10. Knowledge(x, y)'
    BY <1>1, <1>4, <1>7, <1>8 DEF Good, Knowledge, Described, Showing,
      Acquainted, Agreed, Began
  <2>11. Capped(x, y)'
    BY <1>1, <1>4, <1>5, <1>7, <1>8 DEF Good, Capped, Old, Deciding, Doomed,
      AtMost, Known, Extended, Pair, LinkShape
  <2>12. Replaced(x, y)'
    BY <1>1, <1>4, <1>5, <1>7, <1>8 DEF Good, Replaced, Stranger, SaysTick,
      HeardTick, Hopeless, Known, Agreed, Began, AtMost, Extended, Pair,
      LinkShape
  <2> QED
    BY <2>1, <2>2, <2>3, <2>4, <2>5, <2>6, <2>7, <2>8, <2>9, <2>10, <2>11, <2>12
       DEF Good
<1>12. Good(y, x)'
  <2>1. LinkShape(y, x)'
    BY <1>1, <1>4, <1>5, <1>7, <1>8 DEF Good, LinkShape, Running, Extended, Pair
  <2>2. Unmet(y)'
    BY <1>1, <1>4, <1>7, <1>8 DEF Good, Unmet
  <2>3. ResumeFirst(y)'
    BY <1>1, <1>4, <1>5, <1>7, <1>8 DEF Good, ResumeFirst, Extended, Pair,
      LinkShape
  <2>4. Handshake(y)'
    BY <1>1, <1>4, <1>7, <1>8 DEF Good, Handshake, Began
  <2>5. Resumptions(y, x)'
    BY <1>1, <1>4, <1>5, <1>7, <1>8 DEF Good, Resumptions, Known, Acquainted,
      Old, Extended, Pair, LinkShape
  <2>6. OneSender(y)'
    BY <1>1, <1>4, <1>5, <1>7, <1>8 DEF Good, OneSender, Extended, Pair,
      LinkShape
  <2>7. Strange(y, x)'
    BY <1>1, <1>4, <1>5, <1>7, <1>8 DEF Good, Strange, Stranger, Known, Doomed,
      Extended, Pair, LinkShape
  <2>8. DoomSeen(y, x)'
    BY <1>1, <1>4, <1>5, <1>7, <1>8 DEF Good, DoomSeen, Stranger, Known, Doomed,
      Extended, Pair, LinkShape
  <2>9. UnderWay(y, x)'
    <3>1. /\ \A g, t : Described(y, x, g, t)' <=> Described(y, x, g, t)
          /\ \A g : Showing(y, x, g)' <=> Showing(y, x, g)
          /\ Old(y, x)' <=> Old(y, x)
      BY <1>4 DEF Described, Showing, Acquainted, Began, Old
    <3>2. Described(y, x, gen[x], tick[x])
      BY <1>1, <1>7 DEF Described, Whole
    <3>3. Elems(queue'[y]) = Elems(queue[y]) \/ Elems(queue'[y]) = Elems(queue[y]) \cup {m}
      BY <1>8 DEF Extended
    <3> QED  BY <1>1, <1>4, <1>5, <3>1, <3>2, <3>3 DEF Good, UnderWay
  <2>10. Knowledge(y, x)'
    BY <1>1, <1>4, <1>7, <1>8 DEF Good, Knowledge, Described, Showing,
      Acquainted, Agreed, Began
  <2>11. Capped(y, x)'
    BY <1>1, <1>4, <1>5, <1>7, <1>8 DEF Good, Capped, Old, Deciding, Doomed,
      AtMost, Known, Extended, Pair, LinkShape
  <2>12. Replaced(y, x)'
    BY <1>1, <1>4, <1>5, <1>7, <1>8 DEF Good, Replaced, Stranger, SaysTick,
      HeardTick, Hopeless, Known, Agreed, Began, AtMost, Extended, Pair,
      LinkShape
  <2> QED
    BY <2>1, <2>2, <2>3, <2>4, <2>5, <2>6, <2>7, <2>8, <2>9, <2>10, <2>11, <2>12
       DEF Good
<1> QED  BY <1>9, <1>10, <1>11, <1>12, BothPeers

\* The wait times out.
LEMMA TimeOutStep ==
  ASSUME IInv, NEW x, NEW y, Pair(x, y), TimeOut(x)
  PROVE  IInv'
<1>1. /\ TypeOK /\ PacketsOK /\ Good(x, y) /\ Good(y, x)
      /\ Typed(x) /\ Typed(y) /\ link \in {"down", "half", "up", "broken"}
      /\ Whole(x) /\ Whole(y) /\ Numbered(x) /\ Numbered(y)
  BY Unfold
<1>2. Flags /\ Fields
  BY <1>1, TypesApart
<1>3. /\ pc[x] = "wait" /\ pc' = [pc EXCEPT ![x] = "run"]
      /\ tick[x] < MaxTimeouts /\ tick' = [tick EXCEPT ![x] = tick[x] + 1]
      /\ ready' = [ready EXCEPT ![x] = FALSE] /\ after' = [after EXCEPT ![x] = FALSE]
      /\ sent' = [sent EXCEPT ![x] = FALSE]
  BY Zenon DEF TimeOut, Looks
<1>4. /\ gen' = gen /\ local' = local /\ remote' = remote /\ seen' = seen
      /\ match' = match /\ epochKnown' = epochKnown /\ gotInput' = gotInput
      /\ partner' = partner /\ connected' = connected /\ once' = once
      /\ validated' = validated /\ recovering' = recovering /\ nonce' = nonce
      /\ remoteNonce' = remoteNonce /\ link' = link /\ queue' = queue
      /\ resume' = resume /\ breaks' = breaks
  BY Zenon DEF TimeOut, Looks, handshake, session, network
<1>5. tick[x] + 1 \in Ticks
  <2>1. tick[x] \in Ticks /\ tick[x] < MaxTimeouts
    BY <1>1, <1>3 DEF Typed
  <2> QED  BY <2>1, SessionAssumption DEF Ticks
<1>6. pc[x] = "wait"
  BY <1>3
<1>7. /\ pc'[x] = "run" /\ pc'[y] = pc[y]
      /\ tick'[x] = tick[x] + 1 /\ tick'[y] = tick[y]
      /\ after'[x] = FALSE /\ after'[y] = after[y]
      /\ tick[x] + 1 \in Ticks
  BY <1>1, <1>2, <1>3, <1>5 DEF Flags, Fields, Pair
<1>8. TypeOK'
  <2>1. Flags'
    BY <1>1, <1>2, <1>3, <1>4, <1>7, Changed DEF Flags, Pair, Typed
  <2>2. Fields'
    BY <1>1, <1>2, <1>3, <1>4, <1>7, Changed DEF Fields, Pair, Typed
  <2> QED  BY <2>1, <2>2, TypesApartLater
<1>9. PacketsOK'
  BY <1>1, <1>4 DEF PacketsOK
<1>10. Good(x, y)'
  <2>1. /\ LinkShape(x, y)' /\ ResumeFirst(x)' /\ Resumptions(x, y)'
        /\ OneSender(x)' /\ Strange(x, y)' /\ DoomSeen(x, y)'
    BY <1>1, <1>4, <1>6, <1>7, NetworkSame DEF Good, Running
  <2>2. Unmet(x)'
    BY <1>1, <1>4, <1>6, <1>7 DEF Good, Unmet
  <2>3. Handshake(x)'
    BY <1>1, <1>4, <1>6, <1>7 DEF Good, Handshake, Began
  <2>4. UnderWay(x, y)'
    BY <1>1, <1>4, <1>6, <1>7 DEF Good, UnderWay, Described, Showing,
      Acquainted, Old, Began
  <2>5. Knowledge(x, y)'
    BY <1>1, <1>4, <1>6, <1>7 DEF Good, Knowledge, Described, Showing,
      Acquainted, Agreed, Began, Handshake, Whole
  <2>6. Capped(x, y)'
    BY <1>1, <1>4, <1>6, <1>7 DEF Good, Capped, Old, Deciding, Doomed, AtMost,
      Known, Whole, Numbered
  <2>7. Replaced(x, y)'
    <3>1. /\ Stranger(x, y)' <=> Stranger(x, y)
          /\ Known(x)' <=> Known(x)
          /\ Deciding(x) /\ ~Began(x) /\ partner' = partner
      BY <1>1, <1>4, <1>6 DEF Good, Stranger, Known, Handshake, Deciding, Began
    <3>2. ~(connected[x] /\ validated[x]) => Hopeless(x)'
      BY <1>1, <1>4, <1>7, <3>1 DEF Good, Capped, Hopeless, AtMost, Began, Whole
    <3>3. Stranger(x, y) /\ connected[x] /\ validated[x] =>
              ~once[y] /\ ~connected[y] /\ link = "broken"
      BY <1>1 DEF Good, Strange, LinkShape
    <3>4. ~once[y] /\ ~connected[y] /\ link = "broken" => SaysTick(x, y)' /\ HeardTick(x, y)'
      <4>1. ~once[y] => remote[y] = None /\ seen[y] = None /\ ~Agreed(y)
        BY <1>1 DEF Good, Unmet, Agreed, Began
      <4>2. ~connected[y] /\ link = "broken" => queue[y] = << >>
        BY <1>1 DEF Good, LinkShape
      <4>3. Agreed(y)' <=> Agreed(y)
        BY <1>4, <1>7 DEF Agreed, Began
      <4> QED  BY <1>4, <4>1, <4>2, <4>3, ElemsEmpty DEF SaysTick, HeardTick
    <3>5. link = "half" /\ x = "client" /\ Known(x) => ~(connected[x] /\ validated[x])
      BY <1>1 DEF Good, Strange
    <3> QED  BY <1>4, <3>1, <3>2, <3>3, <3>4, <3>5 DEF Replaced
  <2> QED
    BY <2>1, <2>2, <2>3, <2>4, <2>5, <2>6, <2>7 DEF Good
<1>11. Good(y, x)'
  <2>1. /\ LinkShape(y, x)' /\ ResumeFirst(y)' /\ Resumptions(y, x)'
        /\ OneSender(y)' /\ Strange(y, x)' /\ DoomSeen(y, x)'
    BY <1>1, <1>4, <1>6, <1>7, NetworkSame DEF Good, Running
  <2>2. Unmet(y)'
    BY <1>1, <1>4, <1>6, <1>7 DEF Good, Unmet
  <2>3. Handshake(y)'
    BY <1>1, <1>4, <1>6, <1>7 DEF Good, Handshake, Began
  <2>4. UnderWay(y, x)'
    BY <1>1, <1>4, <1>6, <1>7 DEF Good, UnderWay, Described, Showing,
      Acquainted, Old, Began, Whole, Numbered
  <2>5. Knowledge(y, x)'
    BY <1>1, <1>4, <1>6, <1>7 DEF Good, Knowledge, Described, Showing,
      Acquainted, Agreed, Began, Handshake, Whole
  <2>6. Capped(y, x)'
    BY <1>1, <1>4, <1>6, <1>7 DEF Good, Capped, Old, Deciding, Doomed, AtMost,
      Known, Whole, Numbered
  <2>7. Replaced(y, x)'
    BY <1>1, <1>4, <1>6, <1>7 DEF Good, Replaced, Stranger, SaysTick, HeardTick,
      Hopeless, Known, Agreed, Began, AtMost, Handshake
  <2> QED
    BY <2>1, <2>2, <2>3, <2>4, <2>5, <2>6, <2>7 DEF Good
<1> QED  BY <1>8, <1>9, <1>10, <1>11, BothPeers

\* The match ends.
LEMMA FinishMatchStep ==
  ASSUME IInv, NEW x, NEW y, Pair(x, y), FinishMatch(x)
  PROVE  IInv'
<1>1. /\ TypeOK /\ PacketsOK /\ Good(x, y) /\ Good(y, x)
      /\ Typed(x) /\ Typed(y) /\ link \in {"down", "half", "up", "broken"}
      /\ Whole(x) /\ Whole(y) /\ Numbered(x) /\ Numbered(y)
  BY Unfold
<1>2. Flags /\ Fields
  BY <1>1, TypesApart
<1>3. /\ pc[x] = "play" /\ pc' = [pc EXCEPT ![x] = "result"] /\ gotInput[x]
      /\ recovering' = [recovering EXCEPT ![x] = FALSE]
  BY Zenon DEF FinishMatch
<1>4. /\ gen' = gen /\ tick' = tick /\ local' = local /\ ready' = ready
      /\ remote' = remote /\ seen' = seen /\ after' = after /\ sent' = sent
      /\ match' = match /\ epochKnown' = epochKnown /\ gotInput' = gotInput
      /\ partner' = partner /\ connected' = connected /\ once' = once
      /\ validated' = validated /\ nonce' = nonce /\ remoteNonce' = remoteNonce
      /\ link' = link /\ queue' = queue /\ resume' = resume /\ breaks' = breaks
  BY Zenon DEF FinishMatch, handshake, session, network
<1>5. pc[x] = "play" /\ gotInput[x]
  BY <1>3
<1>6. /\ pc'[x] = "result" /\ pc'[y] = pc[y]
  BY <1>1, <1>2, <1>3 DEF Flags, Fields, Pair, Whole
<1>7. TypeOK'
  <2>1. Flags'
    BY <1>1, <1>2, <1>3, <1>4, <1>6, Changed DEF Flags, Pair, Typed
  <2>2. Fields'
    BY <1>1, <1>2, <1>3, <1>4, <1>6, Changed DEF Fields, Pair, Typed
  <2> QED  BY <2>1, <2>2, TypesApartLater
<1>8. PacketsOK'
  BY <1>1, <1>4 DEF PacketsOK
<1>9. Good(x, y)'
  <2>1. /\ LinkShape(x, y)' /\ ResumeFirst(x)' /\ Resumptions(x, y)'
        /\ OneSender(x)' /\ Strange(x, y)' /\ DoomSeen(x, y)'
    BY <1>1, <1>4, <1>5, <1>6, NetworkSame DEF Good, Running
  <2>2. Unmet(x)'
    BY <1>1, <1>4, <1>5, <1>6 DEF Good, Unmet
  <2>3. Handshake(x)'
    BY <1>1, <1>4, <1>5, <1>6 DEF Good, Handshake, Began
  <2>4. UnderWay(x, y)'
    BY <1>1, <1>4, <1>5, <1>6 DEF Good, UnderWay, Described, Showing,
      Acquainted, Old, Began
  <2>5. Knowledge(x, y)'
    BY <1>1, <1>4, <1>5, <1>6 DEF Good, Knowledge, Described, Showing,
      Acquainted, Agreed, Began
  <2>6. Capped(x, y)'
    BY <1>1, <1>4, <1>5, <1>6 DEF Good, Capped, Old, Deciding, Doomed, AtMost,
      Known
  <2>7. Replaced(x, y)'
    BY <1>1, <1>4, <1>5, <1>6 DEF Good, Replaced, Stranger, SaysTick, HeardTick,
      Hopeless, Known, Agreed, Began, AtMost
  <2> QED
    BY <2>1, <2>2, <2>3, <2>4, <2>5, <2>6, <2>7 DEF Good
<1>10. Good(y, x)'
  <2>1. /\ LinkShape(y, x)' /\ ResumeFirst(y)' /\ Resumptions(y, x)'
        /\ OneSender(y)' /\ Strange(y, x)' /\ DoomSeen(y, x)'
    BY <1>1, <1>4, <1>5, <1>6, NetworkSame DEF Good, Running
  <2>2. Unmet(y)'
    BY <1>1, <1>4, <1>5, <1>6 DEF Good, Unmet
  <2>3. Handshake(y)'
    BY <1>1, <1>4, <1>5, <1>6 DEF Good, Handshake, Began
  <2>4. UnderWay(y, x)'
    BY <1>1, <1>4, <1>5, <1>6 DEF Good, UnderWay, Described, Showing,
      Acquainted, Old, Began
  <2>5. Knowledge(y, x)'
    BY <1>1, <1>4, <1>5, <1>6 DEF Good, Knowledge, Described, Showing,
      Acquainted, Agreed, Began
  <2>6. Capped(y, x)'
    BY <1>1, <1>4, <1>5, <1>6 DEF Good, Capped, Old, Deciding, Doomed, AtMost,
      Known
  <2>7. Replaced(y, x)'
    BY <1>1, <1>4, <1>5, <1>6 DEF Good, Replaced, Stranger, SaysTick, HeardTick,
      Hopeless, Known, Agreed, Began, AtMost
  <2> QED
    BY <2>1, <2>2, <2>3, <2>4, <2>5, <2>6, <2>7 DEF Good
<1> QED  BY <1>7, <1>8, <1>9, <1>10, BothPeers

\* The next match.
LEMMA RestartAfterResultStep ==
  ASSUME IInv, NEW x, NEW y, Pair(x, y), RestartAfterResult(x)
  PROVE  IInv'
<1>1. /\ TypeOK /\ PacketsOK /\ Good(x, y) /\ Good(y, x)
      /\ Typed(x) /\ Typed(y) /\ link \in {"down", "half", "up", "broken"}
      /\ Whole(x) /\ Whole(y) /\ Numbered(x) /\ Numbered(y)
  BY Unfold
<1>2. Flags /\ Fields
  BY <1>1, TypesApart
<1>3. /\ pc[x] = "result" /\ gen[x] < LastGeneration
      /\ gen' = [gen EXCEPT ![x] = gen[x] + 1] /\ tick' = [tick EXCEPT ![x] = 0]
      /\ local' = [local EXCEPT ![x] = None] /\ ready' = [ready EXCEPT ![x] = FALSE]
      /\ remote' = [remote EXCEPT ![x] = None] /\ seen' = [seen EXCEPT ![x] = None]
      /\ after' = [after EXCEPT ![x] = FALSE] /\ sent' = [sent EXCEPT ![x] = FALSE]
      /\ match' = [match EXCEPT ![x] = FALSE]
      /\ epochKnown' = [epochKnown EXCEPT ![x] = x = "host"]
      /\ gotInput' = [gotInput EXCEPT ![x] = FALSE]
      /\ partner' = [partner EXCEPT ![x] = None]
      /\ pc' = [pc EXCEPT ![x] = "run"]
  BY Zenon DEF RestartAfterResult, BeginGeneration, RestartCount
<1>4. /\ connected' = connected /\ once' = once /\ validated' = validated
      /\ recovering' = recovering /\ nonce' = nonce /\ remoteNonce' = remoteNonce
      /\ link' = link /\ queue' = queue /\ resume' = resume /\ breaks' = breaks
  BY Zenon
     DEF RestartAfterResult, BeginGeneration, RestartCount, handshake, session,
         network
<1>5. gen[x] + 1 \in 0 .. LastGeneration /\ 0 \in Ticks
  <2>1. gen[x] \in 0 .. LastGeneration /\ gen[x] < LastGeneration
    BY <1>1, <1>3 DEF Typed
  <2> QED  BY <2>1, SessionAssumption DEF Ticks
<1>6. /\ gen'[x] = gen[x] + 1 /\ gen'[y] = gen[y] /\ tick'[x] = 0 /\ tick'[y] = tick[y]
      /\ local'[x] = None /\ local'[y] = local[y]
      /\ remote'[x] = None /\ remote'[y] = remote[y]
      /\ seen'[x] = None /\ seen'[y] = seen[y]
      /\ partner'[x] = None /\ partner'[y] = partner[y]
      /\ pc'[x] = "run" /\ pc'[y] = pc[y]
  BY <1>2, <1>3 DEF Fields, Pair
<1>7. /\ after'[x] = FALSE /\ after'[y] = after[y] /\ match'[x] = FALSE
      /\ match'[y] = match[y]
      /\ gotInput'[x] = FALSE /\ gotInput'[y] = gotInput[y]
  BY <1>2, <1>3 DEF Flags, Pair
<1>8. pc[x] = "result"
  BY <1>3
<1>9. TypeOK'
  <2>1. Flags'
    BY <1>1, <1>2, <1>3, <1>4, <1>5, <1>6, <1>7, Changed DEF Flags, Pair, Typed
  <2>2. Fields'
    BY <1>1, <1>2, <1>3, <1>4, <1>5, <1>6, <1>7, Changed DEF Fields, Pair, Typed
  <2> QED  BY <2>1, <2>2, TypesApartLater
<1>10. PacketsOK'
  BY <1>1, <1>4 DEF PacketsOK
<1>11. Good(x, y)'
  <2>1. /\ LinkShape(x, y)' /\ ResumeFirst(x)' /\ Resumptions(x, y)'
        /\ OneSender(x)' /\ Strange(x, y)' /\ DoomSeen(x, y)'
    BY <1>1, <1>4, <1>5, <1>6, <1>7, <1>8, NetworkSame DEF Good, Running
  <2>2. Unmet(x)'
    BY <1>1, <1>4, <1>5, <1>6, <1>7, <1>8 DEF Good, Unmet, Handshake, Began, Whole
  <2>3. Handshake(x)'
    BY <1>1, <1>4, <1>5, <1>6, <1>7, <1>8 DEF Good, Handshake, Began
  <2>4. UnderWay(x, y)'
    BY <1>1, <1>4, <1>5, <1>6, <1>7, <1>8 DEF Good, UnderWay, Described, Showing,
      Acquainted, Old, Began, Whole, Numbered
  <2>5. Knowledge(x, y)'
    BY <1>1, <1>4, <1>5, <1>6, <1>7, <1>8 DEF Good, Knowledge, Described, Showing,
      Acquainted, Agreed, Began, Handshake, Whole
  <2>6. Capped(x, y)'
    BY <1>1, <1>4, <1>5, <1>6, <1>7, <1>8
       DEF Good, Capped, Old, Deciding, Doomed, AtMost,
      Known, Whole, Numbered, UnderWay, Handshake
  <2>7. Replaced(x, y)'
    <3>1. remoteNonce[x] # None /\ once[x]
      BY <1>1, <1>8 DEF Good, Handshake, Began, Unmet
    <3>2. SaysTick(x, y)'
      <4>1. ~Old(y, x)
        BY <3>1 DEF Old
      <4>2. \A m \in Elems(queue[y]) : m.kind = "ready" => m.gen <= gen[x]
        BY <1>1, <4>1 DEF Good, UnderWay, Described, Whole, Numbered
      <4> QED  BY <1>1, <1>4, <1>5, <1>6, <1>7, <4>2 DEF SaysTick, Whole, Numbered
    <3>3. Stranger(x, y) /\ gen[y] = gen[x] + 1 =>
              remote[y] = None /\ seen[y] = None /\ ~Agreed(y)
      <4>1. Stranger(x, y) /\ gen[y] = gen[x] + 1 => Acquainted(y, x)
        BY <1>1 DEF Good, Strange, Stranger, Acquainted, Unmet, Whole
      <4>2. Acquainted(y, x) /\ gen[y] = gen[x] + 1 => remote[y] = None /\ seen[y] = None
        BY <1>1 DEF Good, Knowledge, Described, Whole
      <4>3. remote[y] = None => ~Agreed(y)
        BY <1>1 DEF Good, Handshake, Agreed
      <4> QED  BY <4>1, <4>2, <4>3
    <3>4. Stranger(x, y)' => HeardTick(x, y)'
      BY <1>4, <1>5, <1>6, <1>7, <3>3 DEF Stranger, HeardTick, Agreed, Began
    <3> QED  BY <3>2, <3>4 DEF Replaced
  <2> QED
    BY <2>1, <2>2, <2>3, <2>4, <2>5, <2>6, <2>7 DEF Good
<1>12. Good(y, x)'
  <2>1. /\ LinkShape(y, x)' /\ ResumeFirst(y)' /\ Resumptions(y, x)'
        /\ OneSender(y)' /\ Strange(y, x)' /\ DoomSeen(y, x)'
    BY <1>1, <1>4, <1>5, <1>6, <1>7, <1>8, NetworkSame DEF Good, Running
  <2>2. Unmet(y)'
    BY <1>1, <1>4, <1>5, <1>6, <1>7, <1>8 DEF Good, Unmet, Handshake, Began, Whole
  <2>3. Handshake(y)'
    BY <1>1, <1>4, <1>5, <1>6, <1>7, <1>8 DEF Good, Handshake, Began
  <2>4. UnderWay(y, x)'
    BY <1>1, <1>4, <1>5, <1>6, <1>7, <1>8 DEF Good, UnderWay, Described, Showing,
      Acquainted, Old, Began, Whole, Numbered
  <2>5. Knowledge(y, x)'
    BY <1>1, <1>4, <1>5, <1>6, <1>7, <1>8 DEF Good, Knowledge, Described, Showing,
      Acquainted, Agreed, Began, Handshake, Whole
  <2>6. Capped(y, x)'
    BY <1>1, <1>4, <1>5, <1>6, <1>7, <1>8
       DEF Good, Capped, Old, Deciding, Doomed, AtMost,
      Known, Whole, Numbered, UnderWay, Handshake
  <2>7. Replaced(y, x)'
    BY <1>1, <1>4, <1>5, <1>6, <1>7, <1>8
       DEF Good, Replaced, Stranger, SaysTick, HeardTick,
      Hopeless, Known, Agreed, Began, AtMost
  <2> QED
    BY <2>1, <2>2, <2>3, <2>4, <2>5, <2>6, <2>7 DEF Good
<1> QED  BY <1>9, <1>10, <1>11, <1>12, BothPeers

-----------------------------------------------------------------------------
(* The steps of the connection *)

\* What is left when a peer drops its side of the connection.
LEMMA DropValues ==
  ASSUME Flags, PacketsOK, NEW x, NEW y, Pair(x, y), DropSide(x)
  PROVE  /\ connected' \in [Peers -> BOOLEAN] /\ PacketsOK'
         /\ connected'[x] = FALSE /\ connected'[y] = connected[y]
         /\ queue'[x] = << >> /\ resume'[x] = None
         /\ connected[y] => /\ link' = "broken" /\ queue'[y] = queue[y]
                            /\ resume'[y] = resume[y]
         /\ ~connected[y] => /\ link' = "down" /\ queue'[y] = << >>
                             /\ resume'[y] = None
<1>1. /\ connected' = [connected EXCEPT ![x] = FALSE]
      /\ link' = IF connected[Other(x)] THEN "broken" ELSE "down"
      /\ queue' = [q \in Peers |-> IF q = x \/ ~connected[q] THEN << >> ELSE queue[q]]
      /\ resume' = [q \in Peers |-> IF q = x \/ ~connected[q] THEN None ELSE resume[q]]
  BY Zenon DEF DropSide
<1>2. x \in Peers /\ y \in Peers /\ x # y /\ Other(x) = y
  BY DEF Pair
<1>3. connected' \in [Peers -> BOOLEAN] /\ connected'[x] = FALSE /\ connected'[y] = connected[y]
  BY <1>1, <1>2 DEF Flags
<1>4. /\ queue'[x] = << >> /\ resume'[x] = None
      /\ queue'[y] = IF ~connected[y] THEN << >> ELSE queue[y]
      /\ resume'[y] = IF ~connected[y] THEN None ELSE resume[y]
  BY <1>1, <1>2
<1>5. queue' \in [Peers -> Seq(Packets)]
  BY <1>1 DEF PacketsOK
<1>6. resume' \in [Peers -> Packets \cup {None}]
  BY <1>1 DEF PacketsOK
<1>7. \A p \in Peers : resume'[p] # None => resume'[p].kind = "resume"
  BY <1>1 DEF PacketsOK
<1>8. PacketsOK'
  BY <1>5, <1>6, <1>7 DEF PacketsOK
<1> QED  BY <1>1, <1>2, <1>3, <1>4, <1>8

\* The process ends.
LEMMA ExitStep ==
  ASSUME IInv, NEW x, NEW y, Pair(x, y), Running(x),
         NEW code \in {"exit70", "exit72"}, Exit(x, code),
         UNCHANGED <<gen, tick, handshake, gotInput, partner, once, validated,
                     recovering, remoteNonce, nonce, breaks>>
  PROVE  IInv'
<1>1. /\ TypeOK /\ PacketsOK /\ Good(x, y) /\ Good(y, x)
      /\ Typed(x) /\ Typed(y) /\ link \in {"down", "half", "up", "broken"}
      /\ Whole(x) /\ Whole(y) /\ Numbered(x) /\ Numbered(y)
  BY Unfold
<1>2. Flags /\ Fields
  BY <1>1, TypesApart
<1>3. /\ Running(x) /\ pc' = [pc EXCEPT ![x] = code]
      /\ connected[x] => DropSide(x)
      /\ ~connected[x] => connected' = connected /\ link' = link /\ queue' = queue /\ resume' = resume
  BY Zenon DEF Exit
<1>4. /\ gen' = gen /\ tick' = tick /\ local' = local /\ ready' = ready
      /\ remote' = remote /\ seen' = seen /\ after' = after /\ sent' = sent
      /\ match' = match /\ epochKnown' = epochKnown /\ gotInput' = gotInput
      /\ partner' = partner /\ once' = once /\ validated' = validated
      /\ recovering' = recovering /\ nonce' = nonce /\ remoteNonce' = remoteNonce
      /\ breaks' = breaks
  BY Zenon DEF Exit, handshake, session, network
<1>5. /\ connected' \in [Peers -> BOOLEAN] /\ PacketsOK'
      /\ link' \in {"down", "half", "up", "broken"}
      /\ connected'[x] = FALSE /\ connected'[y] = connected[y]
      /\ connected[x] => queue'[x] = << >> /\ resume'[x] = None
      /\ connected[x] /\ connected[y] =>
             link' = "broken" /\ queue'[y] = queue[y] /\ resume'[y] = resume[y]
      /\ connected[x] /\ ~connected[y] =>
             link' = "down" /\ queue'[y] = << >> /\ resume'[y] = None
      /\ ~connected[x] => link' = link /\ queue' = queue /\ resume' = resume /\ connected' = connected
  <2>1. CASE connected[x]
    BY <1>1, <1>2, <1>3, <2>1, DropValues DEF Typed
  <2>2. CASE ~connected[x]
    BY <1>1, <1>2, <1>3, <1>4, <2>2 DEF Typed, Flags, PacketsOK
  <2> QED  BY <1>1, <2>1, <2>2 DEF Typed
<1>6. pc[x] \notin {"exit70", "exit72"} /\ pc'[x] \in {"exit70", "exit72"} /\ pc'[y] = pc[y]
  BY <1>2, <1>3 DEF Fields, Pair, Running
<1>7. TypeOK'
  <2>1. Flags'
    BY <1>1, <1>2, <1>3, <1>4, <1>5, <1>6, Changed DEF Flags, Pair, Typed
  <2>2. Fields'
    BY <1>1, <1>2, <1>3, <1>4, <1>5, <1>6, Changed DEF Fields, Pair, Typed
  <2> QED  BY <2>1, <2>2, TypesApartLater
<1>8. PacketsOK'
  BY <1>5
<1>9. Good(x, y)'
  <2>1. LinkShape(x, y)'
    BY <1>1, <1>4, <1>5, <1>6, ElemsEmpty DEF Good, LinkShape, Running, Pair
  <2>2. Unmet(x)'
    BY <1>1, <1>4, <1>5, <1>6 DEF Good, Unmet
  <2>3. ResumeFirst(x)'
    BY <1>1, <1>4, <1>5, <1>6, ElemsEmpty DEF Good, ResumeFirst, Pair, LinkShape
  <2>4. Handshake(x)'
    BY <1>1, <1>4, <1>5, <1>6 DEF Good, Handshake, Began
  <2>5. Resumptions(x, y)'
    BY <1>1, <1>4, <1>5, <1>6, ElemsEmpty DEF Good, Resumptions, Known, Acquainted,
      Old, Pair, LinkShape
  <2>6. OneSender(x)'
    BY <1>1, <1>4, <1>5, <1>6, ElemsEmpty DEF Good, OneSender, Pair, LinkShape
  <2>7. Strange(x, y)'
    BY <1>1, <1>4, <1>5, <1>6, ElemsEmpty DEF Good, Strange, Stranger, Known, Doomed,
      Pair, LinkShape
  <2>8. DoomSeen(x, y)'
    BY <1>1, <1>4, <1>5, <1>6, ElemsEmpty DEF Good, DoomSeen, Stranger, Known, Doomed,
      Pair, LinkShape
  <2>9. UnderWay(x, y)'
    BY <1>1, <1>4, <1>5, <1>6, ElemsEmpty DEF Good, UnderWay, Described, Showing,
      Acquainted, Old, Began, Pair, LinkShape
  <2>10. Knowledge(x, y)'
    BY <1>1, <1>4, <1>5, <1>6 DEF Good, Knowledge, Described, Showing, Acquainted,
      Agreed, Began
  <2>11. Capped(x, y)'
    BY <1>1, <1>4, <1>5, <1>6, ElemsEmpty DEF Good, Capped, Old, Deciding, Doomed,
      AtMost, Known, Pair, LinkShape
  <2>12. Replaced(x, y)'
    BY <1>1, <1>4, <1>5, <1>6, ElemsEmpty DEF Good, Replaced, Stranger, SaysTick,
      HeardTick, Hopeless, Known, Agreed, Began, AtMost, Pair, LinkShape
  <2> QED
    BY <2>1, <2>2, <2>3, <2>4, <2>5, <2>6, <2>7, <2>8, <2>9, <2>10, <2>11, <2>12
       DEF Good
<1>10. Good(y, x)'
  <2>1. LinkShape(y, x)'
    BY <1>1, <1>4, <1>5, <1>6, ElemsEmpty DEF Good, LinkShape, Running, Pair
  <2>2. Unmet(y)'
    BY <1>1, <1>4, <1>5, <1>6 DEF Good, Unmet
  <2>3. ResumeFirst(y)'
    BY <1>1, <1>4, <1>5, <1>6, ElemsEmpty DEF Good, ResumeFirst, Pair, LinkShape
  <2>4. Handshake(y)'
    BY <1>1, <1>4, <1>5, <1>6 DEF Good, Handshake, Began
  <2>5. Resumptions(y, x)'
    BY <1>1, <1>4, <1>5, <1>6, ElemsEmpty DEF Good, Resumptions, Known, Acquainted,
      Old, Pair, LinkShape
  <2>6. OneSender(y)'
    BY <1>1, <1>4, <1>5, <1>6, ElemsEmpty DEF Good, OneSender, Pair, LinkShape
  <2>7. Strange(y, x)'
    BY <1>1, <1>4, <1>5, <1>6, ElemsEmpty DEF Good, Strange, Stranger, Known, Doomed,
      Pair, LinkShape
  <2>8. DoomSeen(y, x)'
    BY <1>1, <1>4, <1>5, <1>6, ElemsEmpty DEF Good, DoomSeen, Stranger, Known, Doomed,
      Pair, LinkShape
  <2>9. UnderWay(y, x)'
    BY <1>1, <1>4, <1>5, <1>6, ElemsEmpty DEF Good, UnderWay, Described, Showing,
      Acquainted, Old, Began, Pair, LinkShape
  <2>10. Knowledge(y, x)'
    BY <1>1, <1>4, <1>5, <1>6 DEF Good, Knowledge, Described, Showing, Acquainted,
      Agreed, Began
  <2>11. Capped(y, x)'
    BY <1>1, <1>4, <1>5, <1>6, ElemsEmpty DEF Good, Capped, Old, Deciding, Doomed,
      AtMost, Known, Pair, LinkShape
  <2>12. Replaced(y, x)'
    BY <1>1, <1>4, <1>5, <1>6, ElemsEmpty DEF Good, Replaced, Stranger, SaysTick,
      HeardTick, Hopeless, Known, Agreed, Began, AtMost, Pair, LinkShape
  <2> QED
    BY <2>1, <2>2, <2>3, <2>4, <2>5, <2>6, <2>7, <2>8, <2>9, <2>10, <2>11, <2>12
       DEF Good
<1> QED  BY <1>7, <1>8, <1>9, <1>10, BothPeers

\* A description is refused.
LEMMA RefuseStartReadyStep ==
  ASSUME IInv, NEW x, NEW y, Pair(x, y), RefuseStartReady(x)
  PROVE  IInv'
<1>1. pc[x] = "wait" /\ Exit(x, "exit72")
  BY Zenon DEF RefuseStartReady, Looks
<1>2. UNCHANGED <<gen, tick, handshake, gotInput, partner, once, validated, recovering,
                  remoteNonce, nonce, breaks>>
  BY Zenon DEF RefuseStartReady
<1> QED  BY <1>1, <1>2, ExitStep DEF Running

\* A peer gives up.
LEMMA GiveUpStep ==
  ASSUME IInv, NEW x, NEW y, Pair(x, y), GiveUp(x)
  PROVE  IInv'
<1>1. Running(x) /\ Exit(x, "exit70")
  BY Zenon DEF GiveUp
<1>2. UNCHANGED <<gen, tick, handshake, gotInput, partner, once, validated, recovering,
                  remoteNonce, nonce, breaks>>
  BY Zenon DEF GiveUp
<1> QED  BY <1>1, <1>2, ExitStep

\* A connection is lost, or the loss is noticed.
LEMMA DisconnectStep ==
  ASSUME IInv, NEW x, NEW y, Pair(x, y), Disconnect(x)
  PROVE  IInv'
<1>1. /\ TypeOK /\ PacketsOK /\ Good(x, y) /\ Good(y, x)
      /\ Typed(x) /\ Typed(y) /\ link \in {"down", "half", "up", "broken"}
      /\ Whole(x) /\ Whole(y) /\ Numbered(x) /\ Numbered(y)
  BY Unfold
<1>2. Flags /\ Fields
  BY <1>1, TypesApart
<1>3. /\ connected[x] /\ DropSide(x)
      /\ validated' = [validated EXCEPT ![x] = FALSE]
      /\ recovering' = [recovering EXCEPT ![x] = TRUE]
      /\ breaks' = breaks \/ (Faults < MaxFaults /\ breaks' = breaks + 1)
  BY Zenon DEF Disconnect
<1>4. /\ pc' = pc /\ gen' = gen /\ tick' = tick /\ local' = local
      /\ ready' = ready /\ remote' = remote /\ seen' = seen /\ after' = after
      /\ sent' = sent /\ match' = match /\ epochKnown' = epochKnown
      /\ gotInput' = gotInput /\ partner' = partner /\ once' = once
      /\ nonce' = nonce /\ remoteNonce' = remoteNonce
  BY Zenon DEF Disconnect, handshake, session, network
<1>5. /\ connected' \in [Peers -> BOOLEAN] /\ PacketsOK'
      /\ link' \in {"down", "half", "up", "broken"}
      /\ connected'[x] = FALSE /\ connected'[y] = connected[y]
      /\ connected[x] => queue'[x] = << >> /\ resume'[x] = None
      /\ connected[x] /\ connected[y] =>
             link' = "broken" /\ queue'[y] = queue[y] /\ resume'[y] = resume[y]
      /\ connected[x] /\ ~connected[y] =>
             link' = "down" /\ queue'[y] = << >> /\ resume'[y] = None
      /\ ~connected[x] => link' = link /\ queue' = queue /\ resume' = resume /\ connected' = connected
  BY <1>1, <1>2, <1>3, DropValues DEF Typed
<1>6. validated'[x] = FALSE /\ validated'[y] = validated[y]
  BY <1>2, <1>3 DEF Flags, Pair
<1>7. breaks' \in 0 .. MaxFaults
  <2>1. nonce["host"] \in Nonces /\ nonce["client"] \in Nonces
    BY <1>2 DEF Fields, Peers
  <2> QED  BY <1>2, <1>3, <2>1, SessionAssumption DEF Fields, Nonces, Faults
<1>8. connected[x]
  BY <1>3
<1>9. TypeOK'
  <2>1. Flags'
    BY <1>1, <1>2, <1>3, <1>4, <1>5, <1>6, <1>7, Changed DEF Flags, Pair, Typed
  <2>2. Fields'
    BY <1>1, <1>2, <1>3, <1>4, <1>5, <1>6, <1>7, Changed DEF Fields, Pair, Typed
  <2> QED  BY <2>1, <2>2, TypesApartLater
<1>10. PacketsOK'
  BY <1>5
<1>11. Good(x, y)'
  <2>1. LinkShape(x, y)'
    BY <1>1, <1>4, <1>5, <1>6, <1>8, ElemsEmpty DEF Good, LinkShape, Running, Pair
  <2>2. Unmet(x)'
    BY <1>1, <1>4, <1>5, <1>6, <1>8 DEF Good, Unmet, LinkShape
  <2>3. ResumeFirst(x)'
    BY <1>1, <1>4, <1>5, <1>6, <1>8, ElemsEmpty DEF Good, ResumeFirst, Pair, LinkShape
  <2>4. Handshake(x)'
    BY <1>1, <1>4, <1>5, <1>6, <1>8 DEF Good, Handshake, Began
  <2>5. Resumptions(x, y)'
    BY <1>1, <1>4, <1>5, <1>6, <1>8, ElemsEmpty DEF Good, Resumptions, Known,
      Acquainted, Old, Pair, LinkShape
  <2>6. OneSender(x)'
    BY <1>1, <1>4, <1>5, <1>6, <1>8, ElemsEmpty DEF Good, OneSender, Pair, LinkShape
  <2>7. Strange(x, y)'
    BY <1>1, <1>4, <1>5, <1>6, <1>8, ElemsEmpty DEF Good, Strange, Stranger, Known,
      Doomed, Pair, LinkShape
  <2>8. DoomSeen(x, y)'
    BY <1>1, <1>4, <1>5, <1>6, <1>8, ElemsEmpty DEF Good, DoomSeen, Stranger, Known,
      Doomed, Pair, LinkShape
  <2>9. UnderWay(x, y)'
    BY <1>1, <1>4, <1>5, <1>6, <1>8, ElemsEmpty DEF Good, UnderWay, Described,
      Showing, Acquainted, Old, Began, Pair, LinkShape
  <2>10. Knowledge(x, y)'
    BY <1>1, <1>4, <1>5, <1>6, <1>8 DEF Good, Knowledge, Described, Showing,
      Acquainted, Agreed, Began
  <2>11. Capped(x, y)'
    BY <1>1, <1>4, <1>5, <1>6, <1>8, ElemsEmpty DEF Good, Capped, Old, Deciding,
      Doomed, AtMost, Known, Pair, LinkShape
  <2>12. Replaced(x, y)'
    BY <1>1, <1>4, <1>5, <1>6, <1>8, ElemsEmpty DEF Good, Replaced, Stranger,
      SaysTick, HeardTick, Hopeless, Known, Agreed, Began, AtMost, Pair,
      LinkShape
  <2> QED
    BY <2>1, <2>2, <2>3, <2>4, <2>5, <2>6, <2>7, <2>8, <2>9, <2>10, <2>11, <2>12
       DEF Good
<1>12. Good(y, x)'
  <2>1. LinkShape(y, x)'
    BY <1>1, <1>4, <1>5, <1>6, <1>8, ElemsEmpty DEF Good, LinkShape, Running, Pair
  <2>2. Unmet(y)'
    BY <1>1, <1>4, <1>5, <1>6, <1>8 DEF Good, Unmet
  <2>3. ResumeFirst(y)'
    BY <1>1, <1>4, <1>5, <1>6, <1>8, ElemsEmpty DEF Good, ResumeFirst, Pair, LinkShape
  <2>4. Handshake(y)'
    BY <1>1, <1>4, <1>5, <1>6, <1>8 DEF Good, Handshake, Began
  <2>5. Resumptions(y, x)'
    BY <1>1, <1>4, <1>5, <1>6, <1>8, ElemsEmpty DEF Good, Resumptions, Known,
      Acquainted, Old, Pair, LinkShape
  <2>6. OneSender(y)'
    BY <1>1, <1>4, <1>5, <1>6, <1>8, ElemsEmpty DEF Good, OneSender, Pair, LinkShape
  <2>7. Strange(y, x)'
    BY <1>1, <1>4, <1>5, <1>6, <1>8, ElemsEmpty DEF Good, Strange, Stranger, Known,
      Doomed, Pair, LinkShape
  <2>8. DoomSeen(y, x)'
    BY <1>1, <1>4, <1>5, <1>6, <1>8, ElemsEmpty DEF Good, DoomSeen, Stranger, Known,
      Doomed, Pair, LinkShape
  <2>9. UnderWay(y, x)'
    BY <1>1, <1>4, <1>5, <1>6, <1>8, ElemsEmpty DEF Good, UnderWay, Described,
      Showing, Acquainted, Old, Began, Pair, LinkShape
  <2>10. Knowledge(y, x)'
    BY <1>1, <1>4, <1>5, <1>6, <1>8 DEF Good, Knowledge, Described, Showing,
      Acquainted, Agreed, Began
  <2>11. Capped(y, x)'
    BY <1>1, <1>4, <1>5, <1>6, <1>8, ElemsEmpty DEF Good, Capped, Old, Deciding,
      Doomed, AtMost, Known, Pair, LinkShape
  <2>12. Replaced(y, x)'
    BY <1>1, <1>4, <1>5, <1>6, <1>8, ElemsEmpty DEF Good, Replaced, Stranger,
      SaysTick, HeardTick, Hopeless, Known, Agreed, Began, AtMost, Pair,
      LinkShape
  <2> QED
    BY <2>1, <2>2, <2>3, <2>4, <2>5, <2>6, <2>7, <2>8, <2>9, <2>10, <2>11, <2>12
       DEF Good
<1> QED  BY <1>9, <1>10, <1>11, <1>12, BothPeers

\* The periodic Resume is sent.
LEMMA SendResumeStep ==
  ASSUME IInv, NEW x, NEW y, Pair(x, y), SendResume(x)
  PROVE  IInv'
<1>1. /\ TypeOK /\ PacketsOK /\ Good(x, y) /\ Good(y, x)
      /\ Typed(x) /\ Typed(y) /\ link \in {"down", "half", "up", "broken"}
      /\ Whole(x) /\ Whole(y) /\ Numbered(x) /\ Numbered(y)
  BY Unfold
<1>2. Flags /\ Fields
  BY <1>1, TypesApart
<1>3. /\ connected[x] /\ link \in {"half", "up"}
      /\ resume' = [resume EXCEPT ![y] = Resume(gen[x], nonce[x])]
  BY DEF SendResume, Pair
<1>4. /\ pc' = pc /\ gen' = gen /\ tick' = tick /\ local' = local
      /\ ready' = ready /\ remote' = remote /\ seen' = seen /\ after' = after
      /\ sent' = sent /\ match' = match /\ epochKnown' = epochKnown
      /\ gotInput' = gotInput /\ partner' = partner /\ connected' = connected
      /\ once' = once /\ validated' = validated /\ recovering' = recovering
      /\ nonce' = nonce /\ remoteNonce' = remoteNonce /\ link' = link
      /\ queue' = queue /\ breaks' = breaks
  BY Zenon DEF SendResume, handshake, session, network
<1> DEFINE m == Resume(gen[x], nonce[x])
<1>5. m \in Packets /\ m.kind = "resume" /\ m.gen = gen[x] /\ m.value = nonce[x]
  BY <1>1, NewPackets DEF Typed
<1>6. resume' = [resume EXCEPT ![y] = m]
  BY <1>3
<1> HIDE DEF m
<1>7. connected[x] /\ link \in {"half", "up"}
  BY <1>3
<1>8. /\ resume'[x] = resume[x] /\ resume'[y] = m
  BY <1>1, <1>6 DEF PacketsOK, Pair
<1>9. TypeOK'
  <2>1. Flags'
    BY <1>1, <1>2, <1>3, <1>4, <1>8, Changed DEF Flags, Pair, Typed
  <2>2. Fields'
    BY <1>1, <1>2, <1>3, <1>4, <1>8, Changed DEF Fields, Pair, Typed
  <2> QED  BY <2>1, <2>2, TypesApartLater
<1>10. PacketsOK'
  BY <1>1, <1>4, <1>5, <1>6 DEF PacketsOK, Pair
<1>11. Good(x, y)'
  <2>1. LinkShape(x, y)'
    BY <1>1, <1>4, <1>5, <1>7, <1>8 DEF Good, LinkShape, Running, Pair
  <2>2. Unmet(x)'
    BY <1>1, <1>4, <1>7, <1>8 DEF Good, Unmet
  <2>3. ResumeFirst(x)'
    BY <1>1, <1>4, <1>5, <1>7, <1>8 DEF Good, ResumeFirst, Pair, LinkShape
  <2>4. Handshake(x)'
    BY <1>1, <1>4, <1>7, <1>8 DEF Good, Handshake, Began
  <2>5. Resumptions(x, y)'
    BY <1>1, <1>4, <1>5, <1>7, <1>8 DEF Good, Resumptions, Known, Acquainted,
      Old, Pair, LinkShape
  <2>6. OneSender(x)'
    BY <1>1, <1>4, <1>5, <1>7, <1>8 DEF Good, OneSender, Pair, LinkShape
  <2>7. Strange(x, y)'
    BY <1>1, <1>4, <1>5, <1>7, <1>8 DEF Good, Strange, Stranger, Known, Doomed,
      Pair, LinkShape
  <2>8. DoomSeen(x, y)'
    BY <1>1, <1>4, <1>5, <1>7, <1>8 DEF Good, DoomSeen, Stranger, Known, Doomed,
      Pair, LinkShape
  <2>9. UnderWay(x, y)'
    BY <1>1, <1>4, <1>5, <1>7, <1>8 DEF Good, UnderWay, Described, Showing,
      Acquainted, Old, Began, Pair, LinkShape
  <2>10. Knowledge(x, y)'
    BY <1>1, <1>4, <1>7, <1>8 DEF Good, Knowledge, Described, Showing,
      Acquainted, Agreed, Began
  <2>11. Capped(x, y)'
    BY <1>1, <1>4, <1>5, <1>7, <1>8 DEF Good, Capped, Old, Deciding, Doomed,
      AtMost, Known, Pair, LinkShape
  <2>12. Replaced(x, y)'
    BY <1>1, <1>4, <1>5, <1>7, <1>8 DEF Good, Replaced, Stranger, SaysTick,
      HeardTick, Hopeless, Known, Agreed, Began, AtMost, Pair, LinkShape
  <2> QED
    BY <2>1, <2>2, <2>3, <2>4, <2>5, <2>6, <2>7, <2>8, <2>9, <2>10, <2>11, <2>12
       DEF Good
<1>12. Good(y, x)'
  <2>1. LinkShape(y, x)'
    BY <1>1, <1>4, <1>5, <1>7, <1>8 DEF Good, LinkShape, Running, Pair
  <2>2. Unmet(y)'
    BY <1>1, <1>4, <1>7, <1>8 DEF Good, Unmet
  <2>3. ResumeFirst(y)'
    BY <1>1, <1>4, <1>5, <1>7, <1>8 DEF Good, ResumeFirst, Pair, LinkShape
  <2>4. Handshake(y)'
    BY <1>1, <1>4, <1>7, <1>8 DEF Good, Handshake, Began
  <2>5. Resumptions(y, x)'
    BY <1>1, <1>4, <1>5, <1>7, <1>8 DEF Good, Resumptions, Known, Acquainted,
      Old, Whole, LinkShape, Pair
  <2>6. OneSender(y)'
    BY <1>1, <1>4, <1>5, <1>7, <1>8 DEF Good, OneSender, Resumptions, Old
  <2>7. Strange(y, x)'
    BY <1>1, <1>4, <1>5, <1>7, <1>8 DEF Good, Strange, Stranger, Known, Doomed,
      Pair, LinkShape
  <2>8. DoomSeen(y, x)'
    BY <1>1, <1>4, <1>5, <1>7, <1>8 DEF Good, DoomSeen, Stranger, Known, Doomed,
      Pair, LinkShape
  <2>9. UnderWay(y, x)'
    BY <1>1, <1>4, <1>5, <1>7, <1>8 DEF Good, UnderWay, Described, Showing,
      Acquainted, Old, Began, Pair, LinkShape
  <2>10. Knowledge(y, x)'
    BY <1>1, <1>4, <1>7, <1>8 DEF Good, Knowledge, Described, Showing,
      Acquainted, Agreed, Began
  <2>11. Capped(y, x)'
    BY <1>1, <1>4, <1>5, <1>7, <1>8 DEF Good, Capped, Old, Deciding, Doomed,
      AtMost, Known, Pair, LinkShape
  <2>12. Replaced(y, x)'
    BY <1>1, <1>4, <1>5, <1>7, <1>8 DEF Good, Replaced, Stranger, SaysTick,
      HeardTick, Hopeless, Known, Agreed, Began, AtMost, Pair, LinkShape
  <2> QED
    BY <2>1, <2>2, <2>3, <2>4, <2>5, <2>6, <2>7, <2>8, <2>9, <2>10, <2>11, <2>12
       DEF Good
<1> QED  BY <1>9, <1>10, <1>11, <1>12, BothPeers

\* The match starts.
LEMMA AcceptStartReadyStep ==
  ASSUME IInv, NEW x, NEW y, Pair(x, y), AcceptStartReady(x)
  PROVE  IInv'
<1>1. /\ TypeOK /\ PacketsOK /\ Good(x, y) /\ Good(y, x)
      /\ Typed(x) /\ Typed(y) /\ link \in {"down", "half", "up", "broken"}
      /\ Whole(x) /\ Whole(y) /\ Numbered(x) /\ Numbered(y)
  BY Unfold
<1>2. Flags /\ Fields
  BY <1>1, TypesApart
<1>3. /\ pc[x] = "wait" /\ pc' = [pc EXCEPT ![x] = "play"]
      /\ remote[x] # None /\ match[x] /\ (after[x] \/ gotInput[x])
      /\ partner' = [partner EXCEPT ![x] = remoteNonce[x]]
      /\ queue' = IF connected[x] /\ validated[x] THEN Sent(queue, x, <<Inputs(gen[x])>>)
                ELSE queue
  BY Zenon DEF AcceptStartReady, Looks, Acceptable, Usable
<1>4. /\ gen' = gen /\ tick' = tick /\ local' = local /\ ready' = ready
      /\ remote' = remote /\ seen' = seen /\ after' = after /\ sent' = sent
      /\ match' = match /\ epochKnown' = epochKnown /\ gotInput' = gotInput
      /\ connected' = connected /\ once' = once /\ validated' = validated
      /\ recovering' = recovering /\ nonce' = nonce /\ remoteNonce' = remoteNonce
      /\ link' = link /\ resume' = resume /\ breaks' = breaks
  BY Zenon DEF AcceptStartReady, Looks, Acceptable, Usable, handshake, session, network
<1> DEFINE m == Inputs(gen[x])
<1>5. m \in Packets /\ m.kind = "inputs" /\ m.gen = gen[x]
  BY <1>1, NewPackets DEF Typed
<1>6. queue' = IF connected[x] /\ validated[x] THEN Sent(queue, x, <<m>>) ELSE queue
  BY <1>3
<1> HIDE DEF m
<1>7. remoteNonce[x] # None
  BY <1>1, <1>3 DEF Good, Unmet
<1>8. connected[x] /\ validated[x] /\ link # "broken" => link = "up" /\ Acquainted(x, y)
  BY <1>1, <1>7 DEF Good, Strange, Stranger, Acquainted, Known, LinkShape, Pair
<1>9. Acquainted(x, y) => gen[x] <= gen[y]
  BY <1>1, <1>3 DEF Good, Knowledge, Described, Whole
<1>10. /\ queue'[x] = queue[x] /\ queue' \in [Peers -> Seq(Packets)]
       /\ \/ queue'[y] = queue[y]
          \/ link = "up" /\ Acquainted(x, y) /\ Extended(queue[y], queue'[y], m)
  BY <1>1, <1>5, <1>6, <1>8, SentOne DEF PacketsOK
<1>11. pc'[x] = "play" /\ pc'[y] = pc[y]
  BY <1>2, <1>3 DEF Fields, Pair
<1>12. partner'[x] = remoteNonce[x] /\ partner'[y] = partner[y]
  BY <1>2, <1>3 DEF Fields, Pair
<1>13. pc[x] = "wait" /\ remote[x] # None /\ match[x] /\ (after[x] \/ gotInput[x])
  BY <1>3
<1>14. TypeOK'
  <2>1. Flags'
    BY <1>1, <1>2, <1>3, <1>4, <1>10, <1>11, <1>12, Changed DEF Flags, Pair, Typed
  <2>2. Fields'
    BY <1>1, <1>2, <1>3, <1>4, <1>10, <1>11, <1>12, Changed DEF Fields, Pair, Typed
  <2> QED  BY <2>1, <2>2, TypesApartLater
<1>15. PacketsOK'
  BY <1>1, <1>4, <1>10, <1>11, <1>12 DEF PacketsOK
<1>16. Good(x, y)'
  <2>1. LinkShape(x, y)'
    BY <1>1, <1>4, <1>5, <1>7, <1>10, <1>11, <1>12, <1>13 DEF Good, LinkShape, Running,
      Extended, Pair
  <2>2. Unmet(x)'
    BY <1>1, <1>4, <1>10, <1>11, <1>12, <1>13 DEF Good, Unmet
  <2>3. ResumeFirst(x)'
    BY <1>1, <1>4, <1>5, <1>7, <1>10, <1>11, <1>12, <1>13
       DEF Good, ResumeFirst, Extended, Pair,
      LinkShape
  <2>4. Handshake(x)'
    BY <1>1, <1>4, <1>7, <1>10, <1>11, <1>12, <1>13 DEF Good, Handshake, Began
  <2>5. Resumptions(x, y)'
    BY <1>1, <1>4, <1>5, <1>7, <1>10, <1>11, <1>12, <1>13 DEF Good, Resumptions, Known,
      Acquainted, Old, Extended, Pair, LinkShape
  <2>6. OneSender(x)'
    BY <1>1, <1>4, <1>5, <1>7, <1>10, <1>11, <1>12, <1>13
       DEF Good, OneSender, Extended, Pair,
      LinkShape
  <2>7. Strange(x, y)'
    BY <1>1, <1>4, <1>5, <1>7, <1>10, <1>11, <1>12, <1>13
       DEF Good, Strange, Stranger, Known,
      Doomed, Extended, Pair, LinkShape
  <2>8. DoomSeen(x, y)'
    BY <1>1, <1>4, <1>5, <1>7, <1>10, <1>11, <1>12, <1>13
       DEF Good, DoomSeen, Stranger, Known,
      Doomed, Extended, Pair, LinkShape
  <2>9. UnderWay(x, y)'
    BY <1>1, <1>4, <1>5, <1>10, <1>11, <1>12, <1>13
       DEF Good, UnderWay, Described, Showing,
      Acquainted, Old, Began
  <2>10. Knowledge(x, y)'
    BY <1>1, <1>4, <1>7, <1>10, <1>11, <1>12, <1>13
       DEF Good, Knowledge, Described, Showing,
      Acquainted, Agreed, Began, Handshake
  <2>11. Capped(x, y)'
    BY <1>1, <1>4, <1>5, <1>7, <1>10, <1>11, <1>12, <1>13
       DEF Good, Capped, Old, Deciding,
      Doomed, AtMost, Known, Extended, Pair, LinkShape
  <2>12. Replaced(x, y)'
    BY <1>1, <1>4, <1>5, <1>7, <1>10, <1>11, <1>12, <1>13 DEF Good, Replaced, Stranger,
      SaysTick, HeardTick, Hopeless, Known, Agreed, Began, AtMost, Extended
  <2> QED
    BY <2>1, <2>2, <2>3, <2>4, <2>5, <2>6, <2>7, <2>8, <2>9, <2>10, <2>11, <2>12
       DEF Good
<1>17. Good(y, x)'
  <2>1. LinkShape(y, x)'
    BY <1>1, <1>4, <1>5, <1>7, <1>10, <1>11, <1>12, <1>13 DEF Good, LinkShape, Running,
      Extended, Pair
  <2>2. Unmet(y)'
    BY <1>1, <1>4, <1>10, <1>11, <1>12, <1>13 DEF Good, Unmet
  <2>3. ResumeFirst(y)'
    BY <1>1, <1>4, <1>5, <1>7, <1>10, <1>11, <1>12, <1>13
       DEF Good, ResumeFirst, Extended, Pair,
      LinkShape
  <2>4. Handshake(y)'
    BY <1>1, <1>4, <1>10, <1>11, <1>12, <1>13 DEF Good, Handshake, Began
  <2>5. Resumptions(y, x)'
    BY <1>1, <1>4, <1>5, <1>7, <1>10, <1>11, <1>12, <1>13 DEF Good, Resumptions, Known,
      Acquainted, Old, Extended, Pair, LinkShape
  <2>6. OneSender(y)'
    BY <1>1, <1>4, <1>5, <1>7, <1>10, <1>11, <1>12, <1>13
       DEF Good, OneSender, Extended, Pair,
      LinkShape
  <2>7. Strange(y, x)'
    BY <1>1, <1>4, <1>5, <1>7, <1>10, <1>11, <1>12, <1>13
       DEF Good, Strange, Stranger, Known,
      Doomed, Extended, Pair, LinkShape
  <2>8. DoomSeen(y, x)'
    BY <1>1, <1>4, <1>5, <1>7, <1>10, <1>11, <1>12, <1>13
       DEF Good, DoomSeen, Stranger, Known,
      Doomed, Extended, Pair, LinkShape
  <2>9. UnderWay(y, x)'
    BY <1>1, <1>4, <1>5, <1>7, <1>9, <1>10, <1>11, <1>12, <1>13
       DEF Good, UnderWay, Described,
      Showing, Acquainted, Old, Began, Extended, Whole
  <2>10. Knowledge(y, x)'
    BY <1>1, <1>4, <1>7, <1>10, <1>11, <1>12, <1>13
       DEF Good, Knowledge, Described, Showing,
      Acquainted, Agreed, Began, Handshake
  <2>11. Capped(y, x)'
    BY <1>1, <1>4, <1>5, <1>7, <1>10, <1>11, <1>12, <1>13
       DEF Good, Capped, Old, Deciding,
      Doomed, AtMost, Known, Extended, Pair, LinkShape
  <2>12. Replaced(y, x)'
    BY <1>1, <1>4, <1>10, <1>11, <1>12, <1>13
       DEF Good, Replaced, Stranger, SaysTick, HeardTick,
      Hopeless, Known, Agreed, Began, AtMost, Handshake
  <2> QED
    BY <2>1, <2>2, <2>3, <2>4, <2>5, <2>6, <2>7, <2>8, <2>9, <2>10, <2>11, <2>12
       DEF Good
<1> QED  BY <1>14, <1>15, <1>16, <1>17, BothPeers

\* A connection is made.
LEMMA ConnectStep ==
  ASSUME IInv, NEW x, NEW y, Pair(x, y), Connect(x)
  PROVE  IInv'
<1>1. /\ TypeOK /\ PacketsOK /\ Good(x, y) /\ Good(y, x)
      /\ Typed(x) /\ Typed(y) /\ link \in {"down", "half", "up", "broken"}
      /\ Whole(x) /\ Whole(y) /\ Numbered(x) /\ Numbered(y)
  BY Unfold
<1>2. Flags /\ Fields
  BY <1>1, TypesApart
<1>3. /\ Running(x) /\ ~connected[x]
      /\ \/ x = "client" /\ link = "down" /\ link' = "half"
         \/ x = "host" /\ link = "half" /\ link' = "up"
      /\ connected' = [connected EXCEPT ![x] = TRUE]
      /\ once' = [once EXCEPT ![x] = TRUE]
      /\ once[x] => /\ recovering' = [recovering EXCEPT ![x] = TRUE]
                    /\ validated' = [validated EXCEPT ![x] = FALSE]
                    /\ sent' = sent /\ remote' = remote /\ after' = after
      /\ ~once[x] => /\ sent' = [sent EXCEPT ![x] = FALSE]
                     /\ remote' = [remote EXCEPT ![x] = None]
                     /\ after' = [after EXCEPT ![x] = FALSE]
                     /\ recovering' = recovering /\ validated' = validated
      /\ queue' = [queue EXCEPT ![y] = Append(queue[y], Resume(gen[x], nonce[x]))]
  BY DEF Connect, Pair, handshake
<1>4. /\ pc' = pc /\ gen' = gen /\ tick' = tick /\ local' = local
      /\ ready' = ready /\ seen' = seen /\ match' = match
      /\ epochKnown' = epochKnown /\ gotInput' = gotInput /\ partner' = partner
      /\ nonce' = nonce /\ remoteNonce' = remoteNonce /\ resume' = resume
      /\ breaks' = breaks
  BY Zenon DEF Connect, handshake, session, network
<1> DEFINE m == Resume(gen[x], nonce[x])
<1>5. m \in Packets /\ m.kind = "resume" /\ m.gen = gen[x] /\ m.value = nonce[x]
  BY <1>1, NewPackets DEF Typed
<1>6. queue' = [queue EXCEPT ![y] = Append(queue[y], m)]
  BY <1>3
<1> HIDE DEF m
<1>7. ~once[x] => remote[x] = None /\ after[x] = FALSE /\ validated[x] = TRUE
  BY <1>1 DEF Good, Unmet, Typed
<1>8. remote' = remote /\ after' = after
  <2>1. remote \in [Peers -> Ticks \cup {None}] /\ after \in [Peers -> BOOLEAN] /\ x \in Peers
    BY <1>2 DEF Flags, Fields, Pair
  <2>2. remote[x] = None => [remote EXCEPT ![x] = None] = remote
    BY <2>1, NotChanged
  <2>3. after[x] = FALSE => [after EXCEPT ![x] = FALSE] = after
    BY <2>1, NotChanged
  <2> QED  BY <1>3, <1>7, <2>2, <2>3, Zenon
<1>9. /\ connected'[x] = TRUE /\ connected'[y] = connected[y]
      /\ once'[x] = TRUE /\ once'[y] = once[y]
      /\ validated'[x] = ~once[x] /\ validated'[y] = validated[y]
  BY <1>1, <1>2, <1>3, <1>7 DEF Flags, Pair, Typed
<1>10. Append(queue[y], m) = queue[y] \o <<m>>
  BY <1>1, <1>5, AppendIsConcat DEF Typed
<1>11. /\ queue'[x] = queue[x] /\ Extended(queue[y], queue'[y], m)
       /\ queue' \in [Peers -> Seq(Packets)]
  <2>1. Extended(queue[y], queue[y] \o <<m>>, m)
    BY <1>1, <1>5, ElemsAdded DEF Typed, Extended
  <2> DEFINE t == Append(queue[y], m)
  <2>2. t \in Seq(Packets) /\ Extended(queue[y], t, m) /\ queue' = [queue EXCEPT ![y] = t]
    BY <1>6, <1>10, <2>1 DEF Extended
  <2> HIDE DEF t
  <2> QED  BY <1>1, <2>2 DEF PacketsOK, Pair
<1>12. /\ ~connected[x] /\ pc[x] \notin {"exit70", "exit72"}
       /\ \/ x = "client" /\ link = "down" /\ link' = "half"
          \/ x = "host" /\ link = "half" /\ link' = "up"
  BY <1>3 DEF Running
<1>13. TypeOK'
  <2>1. Flags'
    <3>1. /\ connected' \in [Peers -> BOOLEAN] /\ once' \in [Peers -> BOOLEAN]
          /\ after' \in [Peers -> BOOLEAN]
      BY <1>2, <1>3, <1>8 DEF Flags, Pair
    <3>2. recovering' \in [Peers -> BOOLEAN]
      BY <1>2, <1>3 DEF Flags, Pair
    <3>3. validated' \in [Peers -> BOOLEAN]
      BY <1>2, <1>3 DEF Flags, Pair
    <3>4. sent' \in [Peers -> BOOLEAN]
      BY <1>2, <1>3 DEF Flags, Pair
    <3> QED  BY <1>2, <1>4, <3>1, <3>2, <3>3, <3>4 DEF Flags
  <2>2. Fields'
    BY <1>1, <1>2, <1>3, <1>4, <1>8, <1>9, <1>11, Changed DEF Fields, Pair, Typed
  <2> QED  BY <2>1, <2>2, TypesApartLater
<1>14. PacketsOK'
  BY <1>1, <1>4, <1>11 DEF PacketsOK
<1>15. Good(x, y)'
  <2>1. LinkShape(x, y)'
    BY <1>1, <1>4, <1>5, <1>8, <1>9, <1>11, <1>12, ElemsEmpty
       DEF Good, LinkShape, Running,
      Extended, Pair, Unmet
  <2>2. Unmet(x)'
    BY <1>1, <1>4, <1>8, <1>9, <1>11, <1>12 DEF Good, Unmet
  <2>3. ResumeFirst(x)'
    BY <1>1, <1>4, <1>5, <1>8, <1>9, <1>11, <1>12, ElemsEmpty
       DEF Good, ResumeFirst, Extended,
      Pair, Unmet, LinkShape
  <2>4. Handshake(x)'
    BY <1>1, <1>4, <1>8, <1>9, <1>11, <1>12 DEF Good, Handshake, Began
  <2>5. Resumptions(x, y)'
    BY <1>1, <1>4, <1>5, <1>8, <1>9, <1>11, <1>12, ElemsEmpty
       DEF Good, Resumptions, Known,
      Acquainted, Old, Extended, Pair, Unmet, LinkShape
  <2>6. OneSender(x)'
    BY <1>1, <1>4, <1>5, <1>8, <1>9, <1>11, <1>12, ElemsEmpty
       DEF Good, OneSender, Extended,
      Pair, Unmet, LinkShape
  <2>7. Strange(x, y)'
    BY <1>1, <1>4, <1>5, <1>8, <1>9, <1>11, <1>12, ElemsEmpty
       DEF Good, Strange, Stranger,
      Known, Doomed, Extended, Pair, Unmet, LinkShape
  <2>8. DoomSeen(x, y)'
    BY <1>1, <1>4, <1>5, <1>8, <1>9, <1>11, <1>12, ElemsEmpty
       DEF Good, DoomSeen, Stranger,
      Known, Doomed, Extended, Pair, Unmet, LinkShape
  <2>9. UnderWay(x, y)'
    BY <1>1, <1>4, <1>5, <1>8, <1>9, <1>11, <1>12, ElemsEmpty
       DEF Good, UnderWay, Described,
      Showing, Acquainted, Old, Began, Extended, Pair, Unmet, LinkShape
  <2>10. Knowledge(x, y)'
    BY <1>1, <1>4, <1>8, <1>9, <1>11, <1>12 DEF Good, Knowledge, Described, Showing,
      Acquainted, Agreed, Began
  <2>11. Capped(x, y)'
    BY <1>1, <1>4, <1>5, <1>8, <1>9, <1>11, <1>12, ElemsEmpty
       DEF Good, Capped, Old, Deciding,
      Doomed, AtMost, Known, Extended, Pair, Unmet, LinkShape
  <2>12. Replaced(x, y)'
    BY <1>1, <1>4, <1>5, <1>8, <1>9, <1>11, <1>12, ElemsEmpty
       DEF Good, Replaced, Stranger,
      SaysTick, HeardTick, Hopeless, Known, Agreed, Began, AtMost, Extended,
      Pair, Unmet, LinkShape
  <2> QED
    BY <2>1, <2>2, <2>3, <2>4, <2>5, <2>6, <2>7, <2>8, <2>9, <2>10, <2>11, <2>12
       DEF Good
<1>16. Good(y, x)'
  <2>1. LinkShape(y, x)'
    BY <1>1, <1>4, <1>5, <1>8, <1>9, <1>11, <1>12, ElemsEmpty
       DEF Good, LinkShape, Running,
      Extended, Pair, Unmet
  <2>2. Unmet(y)'
    BY <1>1, <1>4, <1>8, <1>9, <1>11, <1>12 DEF Good, Unmet
  <2>3. ResumeFirst(y)'
    BY <1>1, <1>4, <1>5, <1>8, <1>9, <1>11, <1>12, ElemsEmpty
       DEF Good, ResumeFirst, Extended,
      Pair, Unmet, LinkShape
  <2>4. Handshake(y)'
    BY <1>1, <1>4, <1>8, <1>9, <1>11, <1>12 DEF Good, Handshake, Began
  <2>5. Resumptions(y, x)'
    <3>1. link # "broken" /\ link' # "broken"
      BY <1>12
    <3>2. \A n \in Elems(queue'[y]) \cup {resume'[y]} : n # None /\ n.kind = "resume" =>
              n.value = nonce[x]
      BY <1>1, <1>4, <1>5, <1>11, <3>1 DEF Good, Resumptions, Old, Extended
    <3>3. Known(y)' => remoteNonce'[y] <= nonce'[x]
      BY <1>1, <1>4 DEF Good, Resumptions, Known
    <3>4. once'[x] /\ nonce' = nonce /\ nonce[x] <= nonce[x]
      BY <1>1, <1>4, <1>9 DEF Whole
    <3> QED  BY <3>2, <3>3, <3>4 DEF Resumptions
  <2>6. OneSender(y)'
    BY <1>1, <1>4, <1>5, <1>8, <1>9, <1>11, <1>12, ElemsEmpty
       DEF Good, OneSender, Extended,
      Pair, LinkShape, Resumptions, Old
  <2>7. Strange(y, x)'
    BY <1>1, <1>4, <1>5, <1>8, <1>9, <1>11, <1>12, ElemsEmpty
       DEF Good, Strange, Stranger,
      Known, Doomed, Extended, Pair, Unmet, LinkShape
  <2>8. DoomSeen(y, x)'
    BY <1>1, <1>4, <1>5, <1>8, <1>9, <1>11, <1>12, ElemsEmpty
       DEF Good, DoomSeen, Stranger,
      Known, Doomed, Extended, Pair, Unmet, LinkShape
  <2>9. UnderWay(y, x)'
    BY <1>1, <1>4, <1>5, <1>8, <1>9, <1>11, <1>12, ElemsEmpty
       DEF Good, UnderWay, Described,
      Showing, Acquainted, Old, Began, Extended, Pair, Unmet, LinkShape
  <2>10. Knowledge(y, x)'
    BY <1>1, <1>4, <1>8, <1>9, <1>11, <1>12 DEF Good, Knowledge, Described, Showing,
      Acquainted, Agreed, Began
  <2>11. Capped(y, x)'
    BY <1>1, <1>4, <1>5, <1>8, <1>9, <1>11, <1>12, ElemsEmpty
       DEF Good, Capped, Old, Deciding,
      Doomed, AtMost, Known, Extended, Pair, Unmet, LinkShape
  <2>12. Replaced(y, x)'
    BY <1>1, <1>4, <1>5, <1>8, <1>9, <1>11, <1>12, ElemsEmpty
       DEF Good, Replaced, Stranger,
      SaysTick, HeardTick, Hopeless, Known, Agreed, Began, AtMost, Extended,
      Pair, Unmet, LinkShape
  <2> QED
    BY <2>1, <2>2, <2>3, <2>4, <2>5, <2>6, <2>7, <2>8, <2>9, <2>10, <2>11, <2>12
       DEF Good
<1> QED  BY <1>13, <1>14, <1>15, <1>16, BothPeers

-----------------------------------------------------------------------------
(* The steps of the pump *)

\* Who has seen inputs of a match it has not started is not behind their sender.
LEMMA NotBehind ==
  ASSUME NEW x, NEW y, Good(x, y), Good(y, x), Whole(x), Whole(y),
         Showing(x, y, gen[x]), Deciding(x)
  PROVE  gen[y] = gen[x] /\ tick[y] <= tick[x] /\ Acquainted(y, x)
<1>1. ~Began(x)
  BY DEF Good, Handshake, Deciding
<1>2. Acquainted(y, x) /\ (gen[x] < gen[y] \/ (gen[x] = gen[y] /\ Began(y)))
  BY DEF Showing
<1>3. gen[y] = gen[x] /\ Began(y)
  BY <1>1, <1>2 DEF Good, Knowledge, Whole
<1> QED  BY <1>2, <1>3 DEF Good, Knowledge, Agreed

\* A packet is dropped.
LEMMA DroppedStep ==
  ASSUME IInv, NEW x, NEW y, Pair(x, y), connected[x], queue[x] # << >>,
         Head(queue[x]).kind # "resume", queue' = [queue EXCEPT ![x] = Tail(@)],
         UNCHANGED <<pc, gen, tick, handshake, gotInput, partner, session, nonce, link,
                     resume, breaks>>
  PROVE  IInv'
<1>1. /\ TypeOK /\ PacketsOK /\ Good(x, y) /\ Good(y, x)
      /\ Typed(x) /\ Typed(y) /\ link \in {"down", "half", "up", "broken"}
      /\ Whole(x) /\ Whole(y) /\ Numbered(x) /\ Numbered(y)
  BY Unfold
<1>2. Flags /\ Fields
  BY <1>1, TypesApart
<1>3. /\ connected[x] /\ queue[x] # << >> /\ Head(queue[x]).kind # "resume"
      /\ queue' = [queue EXCEPT ![x] = Tail(queue[x])]
  BY Zenon
<1>4. /\ pc' = pc /\ gen' = gen /\ tick' = tick /\ local' = local
      /\ ready' = ready /\ remote' = remote /\ seen' = seen /\ after' = after
      /\ sent' = sent /\ match' = match /\ epochKnown' = epochKnown
      /\ gotInput' = gotInput /\ partner' = partner /\ connected' = connected
      /\ once' = once /\ validated' = validated /\ recovering' = recovering
      /\ nonce' = nonce /\ remoteNonce' = remoteNonce /\ link' = link
      /\ resume' = resume /\ breaks' = breaks
  BY Zenon DEF handshake, handshake, session, network
<1> DEFINE m == Head(queue[x])
<1>5. /\ m \in Elems(queue[x]) /\ m = queue[x][1] /\ m.kind # "resume"
      /\ queue' \in [Peers -> Seq(Packets)] /\ queue'[y] = queue[y]
      /\ Elems(queue'[x]) \subseteq Elems(queue[x])
      /\ \A n \in Elems(queue[x]) : n = m \/ n \in Elems(queue'[x])
  <2>1. queue[x] \in Seq(Packets) /\ queue[x] # << >>
    BY <1>1, <1>3 DEF Typed
  <2>2. queue'[x] = Tail(queue[x]) /\ queue'[y] = queue[y]
    BY <1>1, <1>3 DEF PacketsOK, Pair
  <2>3. queue' \in [Peers -> Seq(Packets)]
    BY <1>1, <1>3, <2>1, ElemsTaken DEF PacketsOK
  <2> QED  BY <1>3, <2>1, <2>2, <2>3, ElemsTaken
<1>6. link \in {"up", "broken"} /\ remoteNonce[x] # None
  BY <1>1, <1>3, <1>5 DEF Good, LinkShape, ResumeFirst, Pair
<1>7. connected[x]
  BY <1>3
<1>8. TypeOK'
  <2>1. Flags'
    BY <1>1, <1>2, <1>3, <1>4, <1>5, Changed DEF Flags, Pair, Typed
  <2>2. Fields'
    BY <1>1, <1>2, <1>3, <1>4, <1>5, Changed DEF Fields, Pair, Typed
  <2> QED  BY <2>1, <2>2, TypesApartLater
<1>9. PacketsOK'
  BY <1>1, <1>4, <1>5 DEF PacketsOK
<1>10. Good(x, y)'
  <2>1. LinkShape(x, y)'
    BY <1>1, <1>4, <1>5, <1>6, <1>7 DEF Good, LinkShape, Running, Pair
  <2>2. Unmet(x)'
    BY <1>1, <1>4, <1>5, <1>7 DEF Good, Unmet
  <2>3. ResumeFirst(x)'
    BY <1>1, <1>4, <1>5, <1>6, <1>7 DEF Good, ResumeFirst, Pair, LinkShape
  <2>4. Handshake(x)'
    BY <1>1, <1>4, <1>5, <1>7 DEF Good, Handshake, Began
  <2>5. Resumptions(x, y)'
    BY <1>1, <1>4, <1>5 DEF Good, Resumptions, Known, Acquainted, Old
  <2>6. OneSender(x)'
    BY <1>1, <1>4, <1>5, <1>6, <1>7 DEF Good, OneSender, Pair
  <2>7. Strange(x, y)'
    BY <1>1, <1>4, <1>5, <1>6, <1>7 DEF Good, Strange, Stranger, Known,
      Doomed, Pair
  <2>8. DoomSeen(x, y)'
    BY <1>1, <1>4, <1>5, <1>6, <1>7 DEF Good, DoomSeen, Stranger, Known,
      Doomed, Pair
  <2>9. UnderWay(x, y)'
    BY <1>1, <1>4, <1>5, <1>6, <1>7 DEF Good, UnderWay, Described,
      Showing, Acquainted, Old, Began, Pair
  <2>10. Knowledge(x, y)'
    BY <1>1, <1>4, <1>5, <1>7 DEF Good, Knowledge, Described, Showing,
      Acquainted, Agreed, Began
  <2>11. Capped(x, y)'
    BY <1>1, <1>4, <1>5, <1>6, <1>7 DEF Good, Capped, Old, Deciding,
      Doomed, AtMost, Known, Pair
  <2>12. Replaced(x, y)'
    BY <1>1, <1>4, <1>5, <1>6, <1>7 DEF Good, Replaced, Stranger,
      SaysTick, HeardTick, Hopeless, Known, Agreed, Began, AtMost, Pair
  <2> QED
    BY <2>1, <2>2, <2>3, <2>4, <2>5, <2>6, <2>7, <2>8, <2>9, <2>10, <2>11, <2>12
       DEF Good
<1>11. Good(y, x)'
  <2>1. LinkShape(y, x)'
    BY <1>1, <1>4, <1>5, <1>6, <1>7 DEF Good, LinkShape, Running, Pair
  <2>2. Unmet(y)'
    BY <1>1, <1>4, <1>5, <1>7 DEF Good, Unmet
  <2>3. ResumeFirst(y)'
    BY <1>1, <1>4, <1>5, <1>6, <1>7 DEF Good, ResumeFirst, Pair, LinkShape
  <2>4. Handshake(y)'
    BY <1>1, <1>4, <1>5, <1>7 DEF Good, Handshake, Began
  <2>5. Resumptions(y, x)'
    BY <1>1, <1>4, <1>5 DEF Good, Resumptions, Known, Acquainted, Old
  <2>6. OneSender(y)'
    BY <1>1, <1>4, <1>5, <1>6, <1>7 DEF Good, OneSender, Pair
  <2>7. Strange(y, x)'
    BY <1>1, <1>4, <1>5, <1>6, <1>7 DEF Good, Strange, Stranger, Known,
      Doomed, Pair
  <2>8. DoomSeen(y, x)'
    BY <1>1, <1>4, <1>5, <1>6, <1>7 DEF Good, DoomSeen, Stranger, Known,
      Doomed, Pair
  <2>9. UnderWay(y, x)'
    BY <1>1, <1>4, <1>5, <1>6, <1>7 DEF Good, UnderWay, Described,
      Showing, Acquainted, Old, Began, Pair
  <2>10. Knowledge(y, x)'
    BY <1>1, <1>4, <1>5, <1>7 DEF Good, Knowledge, Described, Showing,
      Acquainted, Agreed, Began
  <2>11. Capped(y, x)'
    BY <1>1, <1>4, <1>5, <1>6, <1>7 DEF Good, Capped, Old, Deciding,
      Doomed, AtMost, Known, Pair
  <2>12. Replaced(y, x)'
    BY <1>1, <1>4, <1>5, <1>6, <1>7 DEF Good, Replaced, Stranger,
      SaysTick, HeardTick, Hopeless, Known, Agreed, Began, AtMost, Pair
  <2> QED
    BY <2>1, <2>2, <2>3, <2>4, <2>5, <2>6, <2>7, <2>8, <2>9, <2>10, <2>11, <2>12
       DEF Good
<1> QED  BY <1>8, <1>9, <1>10, <1>11, BothPeers

\* The description of the other peer's state arrives.
LEMMA StartReadyTakenStep ==
  ASSUME IInv, NEW x, NEW y, Pair(x, y), connected[x], queue[x] # << >>,
         Head(queue[x]).kind # "resume", queue' = [queue EXCEPT ![x] = Tail(@)],
         validated[x], IsCurrentGeneration(x, Head(queue[x])), Head(queue[x]).kind = "ready",
         ReceiveStartReady(x, Head(queue[x])),
         UNCHANGED <<pc, gen, tick, partner, session, nonce, link, resume, breaks>>
  PROVE  IInv'
<1>1. /\ TypeOK /\ PacketsOK /\ Good(x, y) /\ Good(y, x)
      /\ Typed(x) /\ Typed(y) /\ link \in {"down", "half", "up", "broken"}
      /\ Whole(x) /\ Whole(y) /\ Numbered(x) /\ Numbered(y)
  BY Unfold
<1>2. Flags /\ Fields
  BY <1>1, TypesApart
<1>3. /\ connected[x] /\ queue[x] # << >> /\ Head(queue[x]).kind # "resume"
      /\ queue' = [queue EXCEPT ![x] = Tail(queue[x])]
      /\ validated[x] /\ Head(queue[x]).gen = gen[x] /\ Head(queue[x]).kind = "ready"
      /\ epochKnown' = [epochKnown EXCEPT ![x] = TRUE]
      /\ remote' = [remote EXCEPT ![x] = Head(queue[x]).value]
      /\ after' = [after EXCEPT ![x] = after[x] \/ ready[x]]
      /\ match' = IF local[x] = None THEN match
                 ELSE [match EXCEPT ![x] = local[x] = Head(queue[x]).value]
  BY Zenon DEF ReceiveStartReady, IsCurrentGeneration, ValidateStartReady
<1>4. /\ pc' = pc /\ gen' = gen /\ tick' = tick /\ local' = local
      /\ ready' = ready /\ seen' = seen /\ sent' = sent /\ gotInput' = gotInput
      /\ partner' = partner /\ connected' = connected /\ once' = once
      /\ validated' = validated /\ recovering' = recovering /\ nonce' = nonce
      /\ remoteNonce' = remoteNonce /\ link' = link /\ resume' = resume
      /\ breaks' = breaks
  BY Zenon
     DEF ReceiveStartReady, IsCurrentGeneration, ValidateStartReady, handshake,
         session, network
<1> DEFINE m == Head(queue[x])
<1>5. /\ m \in Elems(queue[x]) /\ m = queue[x][1] /\ m.kind # "resume"
      /\ queue' \in [Peers -> Seq(Packets)] /\ queue'[y] = queue[y]
      /\ Elems(queue'[x]) \subseteq Elems(queue[x])
      /\ \A n \in Elems(queue[x]) : n = m \/ n \in Elems(queue'[x])
  <2>1. queue[x] \in Seq(Packets) /\ queue[x] # << >>
    BY <1>1, <1>3 DEF Typed
  <2>2. queue'[x] = Tail(queue[x]) /\ queue'[y] = queue[y]
    BY <1>1, <1>3 DEF PacketsOK, Pair
  <2>3. queue' \in [Peers -> Seq(Packets)]
    BY <1>1, <1>3, <2>1, ElemsTaken DEF PacketsOK
  <2> QED  BY <1>3, <2>1, <2>2, <2>3, ElemsTaken
<1>6. link \in {"up", "broken"} /\ remoteNonce[x] # None
  BY <1>1, <1>3, <1>5 DEF Good, LinkShape, ResumeFirst, Pair
<1>7. /\ m.gen = gen[x] /\ m.kind = "ready" /\ m.value \in Nat /\ m.value # None
      /\ m.value \in Ticks
  <2>1. m \in Packets
    BY <1>1, <1>5, ElemsPackets DEF Typed
  <2> QED  BY <1>1, <1>3, <1>5, <2>1, PacketFields DEF Numbered
<1>8. /\ remote' = [remote EXCEPT ![x] = m.value]
      /\ match' = IF local[x] = None THEN match ELSE [match EXCEPT ![x] = local[x] = m.value]
  BY <1>3
<1> HIDE DEF m
<1>9. remote'[x] = m.value /\ remote'[y] = remote[y]
  BY <1>2, <1>8 DEF Fields, Pair
<1>10. /\ after'[y] = after[y] /\ match'[y] = match[y]
       /\ local[x] # None => (match'[x] <=> local[x] = m.value)
       /\ local[x] = None => match'[x] = match[x]
  BY <1>2, <1>3, <1>8 DEF Flags, Pair
<1>11. /\ ~Old(x, y) => Acquainted(x, y)
       /\ Acquainted(x, y) => ~Old(x, y)
       /\ ~Doomed(x)
  BY <1>1, <1>3, <1>6 DEF Good, Strange, Stranger, Acquainted, Resumptions, Old
<1>12. ~Old(x, y) => Described(x, y, gen[x], m.value)
  BY <1>1, <1>5, <1>7 DEF Good, UnderWay
<1>13. ~Old(x, y) /\ Deciding(x) /\ gotInput[x] => m.value <= tick[x]
  <2> SUFFICES ASSUME ~Old(x, y), Deciding(x), gotInput[x]
               PROVE  m.value <= tick[x]
    OBVIOUS
  <2>1. Showing(x, y, gen[x])
    BY <1>1, <1>11 DEF Good, Knowledge
  <2>2. gen[y] = gen[x] /\ tick[y] <= tick[x]
    BY <1>1, <2>1, NotBehind
  <2> QED  BY <1>1, <1>7, <1>12, <2>2 DEF Described, Whole
<1>14. connected[x] /\ validated[x]
  BY <1>3
<1>15. TypeOK'
  <2>1. Flags'
    BY <1>1, <1>2, <1>3, <1>4, <1>5, <1>7, <1>8, <1>9, <1>10, Changed
       DEF Flags, Pair, Typed
  <2>2. Fields'
    BY <1>1, <1>2, <1>3, <1>4, <1>5, <1>7, <1>8, <1>9, <1>10, Changed
       DEF Fields, Pair, Typed
  <2> QED  BY <2>1, <2>2, TypesApartLater
<1>16. PacketsOK'
  BY <1>1, <1>4, <1>5 DEF PacketsOK
<1>17. Good(x, y)'
  <2>1. LinkShape(x, y)'
    BY <1>1, <1>4, <1>5, <1>6, <1>7, <1>9, <1>10, <1>14
       DEF Good, LinkShape, Running, Pair
  <2>2. Unmet(x)'
    BY <1>1, <1>4, <1>5, <1>6, <1>7, <1>9, <1>10, <1>14 DEF Good, Unmet
  <2>3. ResumeFirst(x)'
    BY <1>1, <1>4, <1>5, <1>6, <1>7, <1>9, <1>10, <1>14
       DEF Good, ResumeFirst, Pair, LinkShape
  <2>4. Handshake(x)'
    BY <1>1, <1>4, <1>5, <1>7, <1>9, <1>10, <1>14 DEF Good, Handshake, Began
  <2>5. Resumptions(x, y)'
    BY <1>1, <1>4, <1>5, <1>7, <1>9, <1>10 DEF Good, Resumptions, Known, Acquainted, Old
  <2>6. OneSender(x)'
    BY <1>1, <1>4, <1>5, <1>6, <1>7, <1>9, <1>10, <1>14 DEF Good, OneSender, Pair
  <2>7. Strange(x, y)'
    BY <1>1, <1>4, <1>5, <1>6, <1>7, <1>9, <1>10, <1>14
       DEF Good, Strange, Stranger, Known,
      Doomed, Pair
  <2>8. DoomSeen(x, y)'
    BY <1>1, <1>4, <1>5, <1>6, <1>7, <1>9, <1>10, <1>14
       DEF Good, DoomSeen, Stranger, Known,
      Doomed, Pair
  <2>9. UnderWay(x, y)'
    BY <1>1, <1>4, <1>5, <1>6, <1>7, <1>9, <1>10, <1>14 DEF Good, UnderWay, Described,
      Showing, Acquainted, Old, Began, Pair
  <2>10. Knowledge(x, y)'
    <3>1. UNCHANGED <<remoteNonce, nonce, gen, tick, local, pc, seen, partner, gotInput>>
      BY <1>4
    <3>2. Agreed(x)' => Agreed(x) \/ tick[x] = m.value
      BY <1>1, <1>4, <1>5, <1>7, <1>9, <1>10 DEF Good, Agreed, Began, Handshake, Whole
    <3> QED
      BY <1>1, <1>4, <1>5, <1>7, <1>9, <1>10, <1>11, <1>12, <3>2
         DEF Good, Knowledge, Described, Showing, Acquainted, Began, Whole
  <2>11. Capped(x, y)'
    <3>1. /\ Old(x, y)' <=> Old(x, y)
          /\ Deciding(x)' <=> Deciding(x)
          /\ Doomed(x)' <=> Doomed(x)
      BY <1>4, <1>5, <1>7, <1>9, <1>10 DEF Old, Deciding, Doomed, Known
    <3>2. CASE Old(x, y)
      BY <1>1, <1>3, <1>4, <1>5, <1>7, <1>9, <1>10, <1>11, <3>1, <3>2
         DEF Good, Capped, AtMost
    <3>3. CASE ~Old(x, y)
      BY <1>1, <1>3, <1>4, <1>5, <1>7, <1>9, <1>10, <1>13, <3>1, <3>3
         DEF Good, Capped, AtMost
    <3> QED  BY <3>2, <3>3
  <2>12. Replaced(x, y)'
    BY <1>1, <1>4, <1>5, <1>6, <1>7, <1>9, <1>10, <1>14 DEF Good, Replaced, Stranger,
      SaysTick, HeardTick, Hopeless, Known, Agreed, Began, AtMost, Pair
  <2> QED
    BY <2>1, <2>2, <2>3, <2>4, <2>5, <2>6, <2>7, <2>8, <2>9, <2>10, <2>11, <2>12
       DEF Good
<1>18. Good(y, x)'
  <2>1. LinkShape(y, x)'
    BY <1>1, <1>4, <1>5, <1>6, <1>7, <1>9, <1>10, <1>14
       DEF Good, LinkShape, Running, Pair
  <2>2. Unmet(y)'
    BY <1>1, <1>4, <1>5, <1>7, <1>9, <1>10, <1>14 DEF Good, Unmet
  <2>3. ResumeFirst(y)'
    BY <1>1, <1>4, <1>5, <1>6, <1>7, <1>9, <1>10, <1>14
       DEF Good, ResumeFirst, Pair, LinkShape
  <2>4. Handshake(y)'
    BY <1>1, <1>4, <1>5, <1>7, <1>9, <1>10, <1>14 DEF Good, Handshake, Began
  <2>5. Resumptions(y, x)'
    BY <1>1, <1>4, <1>5, <1>7, <1>9, <1>10 DEF Good, Resumptions, Known, Acquainted, Old
  <2>6. OneSender(y)'
    BY <1>1, <1>4, <1>5, <1>6, <1>7, <1>9, <1>10, <1>14 DEF Good, OneSender, Pair
  <2>7. Strange(y, x)'
    BY <1>1, <1>4, <1>5, <1>6, <1>7, <1>9, <1>10, <1>14
       DEF Good, Strange, Stranger, Known,
      Doomed, Pair
  <2>8. DoomSeen(y, x)'
    BY <1>1, <1>4, <1>5, <1>6, <1>7, <1>9, <1>10, <1>14
       DEF Good, DoomSeen, Stranger, Known,
      Doomed, Pair
  <2>9. UnderWay(y, x)'
    BY <1>1, <1>4, <1>5, <1>6, <1>7, <1>9, <1>10, <1>14 DEF Good, UnderWay, Described,
      Showing, Acquainted, Old, Began, Pair
  <2>10. Knowledge(y, x)'
    BY <1>1, <1>4, <1>5, <1>7, <1>9, <1>10, <1>14
       DEF Good, Knowledge, Described, Showing,
      Acquainted, Agreed, Began
  <2>11. Capped(y, x)'
    BY <1>1, <1>4, <1>5, <1>6, <1>7, <1>9, <1>10, <1>14 DEF Good, Capped, Old, Deciding,
      Doomed, AtMost, Known, Pair
  <2>12. Replaced(y, x)'
    <3>1. /\ Stranger(y, x)' <=> Stranger(y, x)
          /\ Hopeless(y)' <=> Hopeless(y)
          /\ SaysTick(y, x) => SaysTick(y, x)'
      BY <1>4, <1>5, <1>7, <1>9, <1>10 DEF Stranger, Hopeless, SaysTick, Began, AtMost
    <3>2. SaysTick(y, x) /\ HeardTick(y, x) => HeardTick(y, x)'
      <4>1. SaysTick(y, x) /\ gen[x] = gen[y] => m.value = tick[y]
        BY <1>5, <1>7, <1>9, <1>10 DEF SaysTick
      <4>2. Agreed(x)' => Agreed(x) \/ tick[x] = m.value
        BY <1>1, <1>4, <1>5, <1>7, <1>9, <1>10 DEF Good, Agreed, Began, Handshake, Whole
      <4> QED  BY <1>4, <1>5, <1>7, <1>9, <1>10, <4>1, <4>2 DEF HeardTick
    <3>3. link' = link /\ Known(y)' = Known(y)
      BY <1>4 DEF Known
    <3> QED  BY <1>1, <3>1, <3>2, <3>3 DEF Good, Replaced
  <2> QED
    BY <2>1, <2>2, <2>3, <2>4, <2>5, <2>6, <2>7, <2>8, <2>9, <2>10, <2>11, <2>12
       DEF Good
<1> QED  BY <1>15, <1>16, <1>17, <1>18, BothPeers

\* The inputs of the other peer arrive.
LEMMA InputsTakenStep ==
  ASSUME IInv, NEW x, NEW y, Pair(x, y), connected[x], queue[x] # << >>,
         Head(queue[x]).kind # "resume", queue' = [queue EXCEPT ![x] = Tail(@)],
         validated[x], IsCurrentGeneration(x, Head(queue[x])), Head(queue[x]).kind = "inputs",
         gotInput' = [gotInput EXCEPT ![x] = TRUE],
         UNCHANGED <<pc, gen, tick, handshake, partner, session, nonce, link, resume,
                     breaks>>
  PROVE  IInv'
<1>1. /\ TypeOK /\ PacketsOK /\ Good(x, y) /\ Good(y, x)
      /\ Typed(x) /\ Typed(y) /\ link \in {"down", "half", "up", "broken"}
      /\ Whole(x) /\ Whole(y) /\ Numbered(x) /\ Numbered(y)
  BY Unfold
<1>2. Flags /\ Fields
  BY <1>1, TypesApart
<1>3. /\ connected[x] /\ queue[x] # << >> /\ Head(queue[x]).kind # "resume"
      /\ queue' = [queue EXCEPT ![x] = Tail(queue[x])]
      /\ validated[x] /\ Head(queue[x]).gen = gen[x] /\ Head(queue[x]).kind = "inputs"
      /\ gotInput' = [gotInput EXCEPT ![x] = TRUE]
  BY Zenon DEF IsCurrentGeneration, handshake
<1>4. /\ pc' = pc /\ gen' = gen /\ tick' = tick /\ local' = local
      /\ ready' = ready /\ remote' = remote /\ seen' = seen /\ after' = after
      /\ sent' = sent /\ match' = match /\ epochKnown' = epochKnown
      /\ partner' = partner /\ connected' = connected /\ once' = once
      /\ validated' = validated /\ recovering' = recovering /\ nonce' = nonce
      /\ remoteNonce' = remoteNonce /\ link' = link /\ resume' = resume
      /\ breaks' = breaks
  BY Zenon DEF IsCurrentGeneration, handshake, handshake, session, network
<1> DEFINE m == Head(queue[x])
<1>5. /\ m \in Elems(queue[x]) /\ m = queue[x][1] /\ m.kind # "resume"
      /\ queue' \in [Peers -> Seq(Packets)] /\ queue'[y] = queue[y]
      /\ Elems(queue'[x]) \subseteq Elems(queue[x])
      /\ \A n \in Elems(queue[x]) : n = m \/ n \in Elems(queue'[x])
  <2>1. queue[x] \in Seq(Packets) /\ queue[x] # << >>
    BY <1>1, <1>3 DEF Typed
  <2>2. queue'[x] = Tail(queue[x]) /\ queue'[y] = queue[y]
    BY <1>1, <1>3 DEF PacketsOK, Pair
  <2>3. queue' \in [Peers -> Seq(Packets)]
    BY <1>1, <1>3, <2>1, ElemsTaken DEF PacketsOK
  <2> QED  BY <1>3, <2>1, <2>2, <2>3, ElemsTaken
<1>6. link \in {"up", "broken"} /\ remoteNonce[x] # None
  BY <1>1, <1>3, <1>5 DEF Good, LinkShape, ResumeFirst, Pair
<1>7. m.gen = gen[x] /\ m.kind = "inputs"
  BY <1>3
<1> HIDE DEF m
<1>8. gotInput'[x] = TRUE /\ gotInput'[y] = gotInput[y]
  BY <1>2, <1>3 DEF Flags, Pair
<1>9. /\ ~Old(x, y) => Acquainted(x, y)
      /\ Acquainted(x, y) => ~Old(x, y)
      /\ ~Doomed(x)
  BY <1>1, <1>3, <1>6 DEF Good, Strange, Stranger, Acquainted, Resumptions, Old
<1>10. ~Old(x, y) => Showing(x, y, gen[x])
  BY <1>1, <1>5, <1>7 DEF Good, UnderWay
<1>11. ~Old(x, y) /\ Deciding(x) => AtMost(remote[x], tick[x]) /\ AtMost(seen[x], tick[x])
  <2> SUFFICES ASSUME ~Old(x, y), Deciding(x)
               PROVE  AtMost(remote[x], tick[x]) /\ AtMost(seen[x], tick[x])
    OBVIOUS
  <2>1. gen[y] = gen[x] /\ tick[y] <= tick[x]
    BY <1>1, <1>10, NotBehind
  <2> QED  BY <1>1, <1>9, <2>1 DEF Good, Knowledge, Described, Whole, AtMost
<1>12. connected[x] /\ validated[x]
  BY <1>3
<1>13. TypeOK'
  <2>1. Flags'
    BY <1>1, <1>2, <1>3, <1>4, <1>5, <1>7, <1>8, Changed DEF Flags, Pair, Typed
  <2>2. Fields'
    BY <1>1, <1>2, <1>3, <1>4, <1>5, <1>7, <1>8, Changed DEF Fields, Pair, Typed
  <2> QED  BY <2>1, <2>2, TypesApartLater
<1>14. PacketsOK'
  BY <1>1, <1>4, <1>5 DEF PacketsOK
<1>15. Good(x, y)'
  <2>1. LinkShape(x, y)'
    BY <1>1, <1>4, <1>5, <1>6, <1>7, <1>8, <1>12 DEF Good, LinkShape, Running, Pair
  <2>2. Unmet(x)'
    BY <1>1, <1>4, <1>5, <1>6, <1>7, <1>8, <1>12 DEF Good, Unmet
  <2>3. ResumeFirst(x)'
    BY <1>1, <1>4, <1>5, <1>6, <1>7, <1>8, <1>12 DEF Good, ResumeFirst, Pair, LinkShape
  <2>4. Handshake(x)'
    BY <1>1, <1>4, <1>5, <1>7, <1>8, <1>12 DEF Good, Handshake, Began
  <2>5. Resumptions(x, y)'
    BY <1>1, <1>4, <1>5, <1>7, <1>8 DEF Good, Resumptions, Known, Acquainted, Old
  <2>6. OneSender(x)'
    BY <1>1, <1>4, <1>5, <1>6, <1>7, <1>8, <1>12 DEF Good, OneSender, Pair
  <2>7. Strange(x, y)'
    BY <1>1, <1>4, <1>5, <1>6, <1>7, <1>8, <1>12 DEF Good, Strange, Stranger, Known,
      Doomed, Pair
  <2>8. DoomSeen(x, y)'
    BY <1>1, <1>4, <1>5, <1>6, <1>7, <1>8, <1>12 DEF Good, DoomSeen, Stranger, Known,
      Doomed, Pair
  <2>9. UnderWay(x, y)'
    BY <1>1, <1>4, <1>5, <1>6, <1>7, <1>8, <1>12 DEF Good, UnderWay, Described,
      Showing, Acquainted, Old, Began, Pair
  <2>10. Knowledge(x, y)'
    BY <1>1, <1>4, <1>5, <1>7, <1>8, <1>9, <1>10, <1>12 DEF Good, Knowledge, Described,
      Showing, Acquainted, Agreed, Began
  <2>11. Capped(x, y)'
    <3>1. /\ Old(x, y)' <=> Old(x, y)
          /\ Deciding(x)' <=> Deciding(x)
          /\ Doomed(x)' <=> Doomed(x)
      BY <1>4, <1>5, <1>7, <1>8 DEF Old, Deciding, Doomed, Known
    <3>2. CASE Old(x, y)
      BY <1>1, <1>3, <1>4, <1>5, <1>7, <1>8, <1>9, <3>1, <3>2 DEF Good, Capped, AtMost
    <3>3. CASE ~Old(x, y)
      BY <1>1, <1>3, <1>4, <1>5, <1>7, <1>8, <1>11, <3>1, <3>3 DEF Good, Capped, AtMost
    <3> QED  BY <3>2, <3>3
  <2>12. Replaced(x, y)'
    BY <1>1, <1>4, <1>5, <1>6, <1>7, <1>8, <1>12 DEF Good, Replaced, Stranger,
      SaysTick, HeardTick, Hopeless, Known, Agreed, Began, AtMost, Pair
  <2> QED
    BY <2>1, <2>2, <2>3, <2>4, <2>5, <2>6, <2>7, <2>8, <2>9, <2>10, <2>11, <2>12
       DEF Good
<1>16. Good(y, x)'
  <2>1. LinkShape(y, x)'
    BY <1>1, <1>4, <1>5, <1>6, <1>7, <1>8, <1>12 DEF Good, LinkShape, Running, Pair
  <2>2. Unmet(y)'
    BY <1>1, <1>4, <1>5, <1>7, <1>8, <1>12 DEF Good, Unmet
  <2>3. ResumeFirst(y)'
    BY <1>1, <1>4, <1>5, <1>6, <1>7, <1>8, <1>12 DEF Good, ResumeFirst, Pair, LinkShape
  <2>4. Handshake(y)'
    BY <1>1, <1>4, <1>5, <1>7, <1>8, <1>12 DEF Good, Handshake, Began
  <2>5. Resumptions(y, x)'
    BY <1>1, <1>4, <1>5, <1>7, <1>8 DEF Good, Resumptions, Known, Acquainted, Old
  <2>6. OneSender(y)'
    BY <1>1, <1>4, <1>5, <1>6, <1>7, <1>8, <1>12 DEF Good, OneSender, Pair
  <2>7. Strange(y, x)'
    BY <1>1, <1>4, <1>5, <1>6, <1>7, <1>8, <1>12 DEF Good, Strange, Stranger, Known,
      Doomed, Pair
  <2>8. DoomSeen(y, x)'
    BY <1>1, <1>4, <1>5, <1>6, <1>7, <1>8, <1>12 DEF Good, DoomSeen, Stranger, Known,
      Doomed, Pair
  <2>9. UnderWay(y, x)'
    BY <1>1, <1>4, <1>5, <1>6, <1>7, <1>8, <1>12 DEF Good, UnderWay, Described,
      Showing, Acquainted, Old, Began, Pair
  <2>10. Knowledge(y, x)'
    BY <1>1, <1>4, <1>5, <1>7, <1>8, <1>12 DEF Good, Knowledge, Described, Showing,
      Acquainted, Agreed, Began
  <2>11. Capped(y, x)'
    BY <1>1, <1>4, <1>5, <1>6, <1>7, <1>8, <1>12 DEF Good, Capped, Old, Deciding,
      Doomed, AtMost, Known, Pair
  <2>12. Replaced(y, x)'
    BY <1>1, <1>4, <1>5, <1>6, <1>7, <1>8, <1>12 DEF Good, Replaced, Stranger,
      SaysTick, HeardTick, Hopeless, Known, Agreed, Began, AtMost, Pair
  <2> QED
    BY <2>1, <2>2, <2>3, <2>4, <2>5, <2>6, <2>7, <2>8, <2>9, <2>10, <2>11, <2>12
       DEF Good
<1> QED  BY <1>13, <1>14, <1>15, <1>16, BothPeers

\* Nothing is no packet.
LEMMA NoneNotPacket == None \notin Packets
  BY NoneAssumption

\* A Resume of the process a peer knows, or of the first one it meets, is handled.
LEMMA ResumeTakenStep ==
  ASSUME IInv, NEW x, NEW y, Pair(x, y), connected[x], NEW m \in Packets,
         m.kind = "resume", m \in Elems(queue[x]) \cup {resume[x]},
         NEW rest \in [Peers -> Seq(Packets)], rest[y] = queue[y],
         Elems(rest[x]) \subseteq Elems(queue[x]),
         \A n \in Elems(queue[x]) : n = m \/ n \in Elems(rest[x]),
         ~DifferentPeerSession(x, m), ReceiveResume(x, m, rest),
         UNCHANGED <<gen, tick, handshake, gotInput, partner, once, recovering, nonce,
                     breaks>>
  PROVE  IInv'
<1>1. /\ TypeOK /\ PacketsOK /\ Good(x, y) /\ Good(y, x)
      /\ Typed(x) /\ Typed(y) /\ link \in {"down", "half", "up", "broken"}
      /\ Whole(x) /\ Whole(y) /\ Numbered(x) /\ Numbered(y)
  BY Unfold
<1>2. Flags /\ Fields
  BY <1>1, TypesApart
<1>3. /\ connected[x] /\ (remoteNonce[x] = None \/ remoteNonce[x] = m.value)
      /\ remoteNonce' = [remoteNonce EXCEPT ![x] = m.value]
      /\ validated' = [validated EXCEPT ![x] = validated[x] \/ Resumes(x, m)]
      /\ queue' = Sent(rest, x, Replay(x, m))
      /\ resume' = [resume EXCEPT ![x] = IF m = resume[x] THEN None ELSE resume[x]]
  BY Zenon DEF ReceiveResume, DifferentPeerSession
<1>4. /\ pc' = pc /\ gen' = gen /\ tick' = tick /\ local' = local
      /\ ready' = ready /\ remote' = remote /\ seen' = seen /\ after' = after
      /\ sent' = sent /\ match' = match /\ epochKnown' = epochKnown
      /\ gotInput' = gotInput /\ partner' = partner /\ connected' = connected
      /\ once' = once /\ recovering' = recovering /\ nonce' = nonce
      /\ link' = link /\ breaks' = breaks
  BY Zenon DEF ReceiveResume, DifferentPeerSession, handshake, session, network
<1>5. link \in {"up", "broken"} /\ once[x]
  BY <1>1, <1>3, ElemsEmpty, NoneNotPacket DEF Good, LinkShape, Pair
<1>6. m # None /\ m.kind = "resume" /\ m.value \in Nat /\ m.value # None /\ m.value \in Nonces
  BY NoneNotPacket, PacketFields, SessionAssumption, NoneAssumption DEF Nonces
<1>7. /\ m.value <= nonce[y] /\ (~Old(x, y) => m.value = nonce[y])
      /\ Old(x, y) => m.value # nonce[y] /\ ~once[y]
  BY <1>1, <1>6 DEF Good, Resumptions, Old
<1> DEFINE i == Inputs(gen[x])
<1>8. i \in Packets /\ i.kind = "inputs" /\ i.gen = gen[x]
  BY <1>1, NewPackets DEF Typed
<1>9. Replay(x, m) = << >> \/ (Replay(x, m) = <<i>> /\ pc[x] \in {"play", "result"})
  BY Zenon DEF Replay
<1> HIDE DEF i
<1>10. pc[x] \in {"play", "result"} => Began(x) /\ remoteNonce[x] # None
  BY <1>1 DEF Good, Handshake, Unmet, Began
<1>11. /\ queue' \in [Peers -> Seq(Packets)] /\ queue'[x] = rest[x]
       /\ Elems(queue'[x]) \subseteq Elems(queue[x])
       /\ \A n \in Elems(queue[x]) : n = m \/ n \in Elems(queue'[x])
       /\ \/ queue'[y] = queue[y]
          \/ link = "up" /\ Began(x) /\ Extended(queue[y], queue'[y], i)
  <2>1. CASE Replay(x, m) = << >>
    BY <1>3, <2>1, SentNothing
  <2>2. CASE Replay(x, m) = <<i>> /\ pc[x] \in {"play", "result"}
    <3>1. queue' = Sent(rest, x, <<i>>)
      BY <1>3, <2>2
    <3>2. /\ queue' \in [Peers -> Seq(Packets)] /\ queue'[x] = rest[x]
          /\ link \in {"half", "up"} => Extended(rest[y], queue'[y], i)
          /\ link \notin {"half", "up"} => queue' = rest
      BY <1>8, <3>1, SentOne
    <3> QED  BY <1>5, <1>10, <2>2, <3>2
  <2> QED  BY <1>9, <2>1, <2>2
<1>12. /\ remoteNonce'[x] = m.value /\ remoteNonce'[y] = remoteNonce[y]
       /\ resume'[y] = resume[y] /\ resume'[x] \in {resume[x], None}
  BY <1>1, <1>2, <1>3, <1>6 DEF Fields, PacketsOK, Pair
<1>13. validated'[y] = validated[y]
  BY <1>2, <1>3 DEF Flags, Pair
<1>14. Began(x) /\ ~Old(x, y) => Acquainted(x, y) /\ gen[x] <= gen[y]
  BY <1>1, <1>3, <1>7
     DEF Good, Handshake, Unmet, Began, Knowledge, Described, Acquainted, Whole
<1>15. connected[x] /\ (remoteNonce[x] = None \/ remoteNonce[x] = m.value)
  BY <1>3
<1>16. TypeOK'
  <2>1. Flags'
    <3>1. validated' \in [Peers -> BOOLEAN]
      BY <1>1, <1>2, <1>3 DEF Flags, Pair, Typed, Resumes
    <3> QED  BY <1>2, <1>4, <3>1 DEF Flags
  <2>2. Fields'
    BY <1>1, <1>2, <1>3, <1>4, <1>6, <1>11, <1>12, <1>13, Changed
       DEF Fields, Pair, Typed
  <2> QED  BY <2>1, <2>2, TypesApartLater
<1>17. PacketsOK'
  <2>1. resume' \in [Peers -> Packets \cup {None}]
    BY <1>1, <1>3 DEF PacketsOK, Pair
  <2>2. \A p \in Peers : resume'[p] # None => resume'[p].kind = "resume"
    <3>1. \A p \in Peers : p = x \/ p = y
      BY DEF Pair
    <3>2. x \in Peers /\ y \in Peers
      BY DEF Pair
    <3> QED  BY <1>1, <1>12, <3>1, <3>2 DEF PacketsOK
  <2> QED  BY <1>11, <2>1, <2>2 DEF PacketsOK
<1>18. Good(x, y)'
  <2>1. LinkShape(x, y)'
    BY <1>1, <1>4, <1>5, <1>6, <1>7, <1>11, <1>12, <1>13, <1>15
       DEF Good, LinkShape, Running,
      Extended, Pair
  <2>2. Unmet(x)'
    BY <1>1, <1>4, <1>5, <1>6, <1>7, <1>11, <1>12, <1>13, <1>15
       DEF Good, Unmet, Extended, Pair
  <2>3. ResumeFirst(x)'
    BY <1>1, <1>4, <1>5, <1>6, <1>7, <1>11, <1>12, <1>13, <1>15
       DEF Good, ResumeFirst, Extended,
      Pair
  <2>4. Handshake(x)'
    BY <1>1, <1>4, <1>5, <1>6, <1>7, <1>11, <1>12, <1>13, <1>15
       DEF Good, Handshake, Began,
      Unmet
  <2>5. Resumptions(x, y)'
    BY <1>1, <1>4, <1>5, <1>6, <1>7, <1>11, <1>12, <1>13, <1>15
       DEF Good, Resumptions, Known,
      Acquainted, Old, Whole
  <2>6. OneSender(x)'
    BY <1>1, <1>4, <1>5, <1>6, <1>7, <1>11, <1>12, <1>13, <1>15
       DEF Good, OneSender, Extended,
      Pair
  <2>7. Strange(x, y)'
    <3>1. Stranger(x, y)' => Old(x, y)
      BY <1>4, <1>7, <1>11, <1>12, <1>13 DEF Stranger
    <3>2. Old(x, y) => remoteNonce[y] = None
      BY <1>1, <1>7 DEF Good, Unmet
    <3>3. Elems(queue[x]) \subseteq Packets
      BY <1>1, ElemsPackets DEF Typed
    <3>4. \A n \in Elems(queue[x]) : n.kind = "resume" => n.value = m.value
      BY <1>1, <1>6, <3>3, NoneNotPacket DEF Good, OneSender
    <3>5. ~Doomed(x)'
      BY <1>11, <1>12, <1>13, <3>4 DEF Doomed
    <3> QED  BY <1>4, <1>5, <1>11, <1>12, <1>13, <3>1, <3>2, <3>5 DEF Strange, Old, Stranger
  <2>8. DoomSeen(x, y)'
    BY <1>1, <1>4, <1>5, <1>6, <1>7, <1>11, <1>12, <1>13, <1>15
       DEF Good, DoomSeen, Stranger,
      Known, Doomed, Old, LinkShape
  <2>9. UnderWay(x, y)'
    BY <1>1, <1>4, <1>5, <1>6, <1>7, <1>11, <1>12, <1>13, <1>15
       DEF Good, UnderWay, Described,
      Showing, Acquainted, Old, Began, Extended, Pair
  <2>10. Knowledge(x, y)'
    BY <1>1, <1>4, <1>5, <1>6, <1>7, <1>11, <1>12, <1>13, <1>15
       DEF Good, Knowledge, Described,
      Showing, Acquainted, Agreed, Began, Unmet, Whole
  <2>11. Capped(x, y)'
    BY <1>1, <1>4, <1>5, <1>6, <1>7, <1>11, <1>12, <1>13, <1>15
       DEF Good, Capped, Old, Deciding,
      Doomed, AtMost, Known, Unmet
  <2>12. Replaced(x, y)'
    BY <1>1, <1>4, <1>5, <1>6, <1>7, <1>11, <1>12, <1>13, <1>15, ElemsEmpty, <1>8
       DEF Good,
      Replaced, Stranger, SaysTick, HeardTick, Hopeless, Known, Agreed, Began,
      AtMost, Unmet, Old, LinkShape, Extended, Pair
  <2> QED
    BY <2>1, <2>2, <2>3, <2>4, <2>5, <2>6, <2>7, <2>8, <2>9, <2>10, <2>11, <2>12
       DEF Good
<1>19. Good(y, x)'
  <2>1. LinkShape(y, x)'
    BY <1>1, <1>4, <1>5, <1>6, <1>7, <1>8, <1>11, <1>12, <1>13, <1>15
       DEF Good, LinkShape,
      Running, Extended, Pair
  <2>2. Unmet(y)'
    BY <1>1, <1>4, <1>5, <1>6, <1>7, <1>11, <1>12, <1>13, <1>15
       DEF Good, Unmet, Extended, Pair
  <2>3. ResumeFirst(y)'
    BY <1>1, <1>4, <1>5, <1>6, <1>7, <1>8, <1>11, <1>12, <1>13, <1>15
       DEF Good, ResumeFirst,
      Extended, LinkShape, Pair
  <2>4. Handshake(y)'
    BY <1>1, <1>4, <1>5, <1>6, <1>7, <1>11, <1>12, <1>13, <1>15
       DEF Good, Handshake, Began,
      Extended, Pair
  <2>5. Resumptions(y, x)'
    BY <1>1, <1>4, <1>5, <1>6, <1>7, <1>8, <1>11, <1>12, <1>13, <1>15
       DEF Good, Resumptions,
      Known, Acquainted, Old, Extended, Pair
  <2>6. OneSender(y)'
    BY <1>1, <1>4, <1>5, <1>6, <1>7, <1>8, <1>11, <1>12, <1>13, <1>15
       DEF Good, OneSender,
      Extended, Pair
  <2>7. Strange(y, x)'
    <3>1. Stranger(x, y)' => Old(x, y)
      BY <1>4, <1>7, <1>11, <1>12, <1>13 DEF Stranger
    <3>2. Old(x, y) => remoteNonce[y] = None
      BY <1>1, <1>7 DEF Good, Unmet
    <3>3. Stranger(y, x)' => Stranger(y, x) /\ ~Stranger(x, y)'
      BY <1>4, <1>11, <1>12, <1>13, <3>1, <3>2 DEF Stranger
    <3>4. connected[y] /\ validated[y] => ~Doomed(y)'
      BY <1>1, <1>4, <1>8, <1>11, <1>12, <1>13
         DEF Good, Strange, Doomed, Known, Extended
    <3> QED  BY <1>1, <1>4, <1>5, <1>11, <1>12, <1>13, <3>3, <3>4 DEF Good, Strange
  <2>8. DoomSeen(y, x)'
    BY <1>1, <1>4, <1>5, <1>6, <1>7, <1>8, <1>11, <1>12, <1>13, <1>15
       DEF Good, DoomSeen,
      Stranger, Known, Doomed, Extended, Pair
  <2>9. UnderWay(y, x)'
    <3>1. Acquainted(x, y) => Acquainted(x, y)'
      BY <1>1, <1>4, <1>11, <1>12, <1>13, <1>15 DEF Acquainted, Whole
    <3>2. /\ \A g, t : Described(y, x, g, t)' <=> Described(y, x, g, t)
          /\ \A g : Showing(y, x, g) => Showing(y, x, g)'
      BY <1>4, <3>1 DEF Described, Showing, Began
    <3>3. Old(y, x)' <=> Old(y, x)
      BY <1>4 DEF Old
    <3>4. link = "up" /\ Began(x) => Showing(y, x, gen[x])' /\ gen[x] <= gen[y]
      <4>1. link = "up" => ~Old(x, y)
        BY DEF Old
      <4> QED  BY <1>4, <1>14, <3>1, <4>1 DEF Showing, Began
    <3> QED  BY <1>1, <1>4, <1>8, <1>11, <1>12, <1>13, <3>2, <3>3, <3>4 DEF Good, UnderWay, Extended
  <2>10. Knowledge(y, x)'
    <3>1. Acquainted(x, y) => Acquainted(x, y)'
      BY <1>1, <1>4, <1>11, <1>12, <1>13, <1>15 DEF Acquainted, Whole
    <3>2. /\ \A g, t : Described(y, x, g, t)' <=> Described(y, x, g, t)
          /\ \A g : Showing(y, x, g) => Showing(y, x, g)'
      BY <1>4, <3>1 DEF Described, Showing, Began
    <3>3. (Acquainted(y, x)' <=> Acquainted(y, x)) /\ (Agreed(y)' <=> Agreed(y))
      BY <1>4, <1>11, <1>12, <1>13 DEF Acquainted, Agreed, Began
    <3> QED  BY <1>1, <1>4, <3>2, <3>3 DEF Good, Knowledge, Began
  <2>11. Capped(y, x)'
    BY <1>1, <1>4, <1>5, <1>6, <1>7, <1>8, <1>11, <1>12, <1>13, <1>15
       DEF Good, Capped, Old,
      Deciding, Doomed, AtMost, Known, Extended, Pair
  <2>12. Replaced(y, x)'
    BY <1>1, <1>4, <1>5, <1>6, <1>7, <1>11, <1>12, <1>13, <1>15
       DEF Good, Replaced, Stranger,
      SaysTick, HeardTick, Hopeless, Known, Agreed, Began, AtMost, Extended,
      Pair
  <2> QED
    BY <2>1, <2>2, <2>3, <2>4, <2>5, <2>6, <2>7, <2>8, <2>9, <2>10, <2>11, <2>12
       DEF Good
<1> QED  BY <1>16, <1>17, <1>18, <1>19, BothPeers

\* A reliable packet is handled.
LEMMA ReceiveReliableStep ==
  ASSUME IInv, NEW x, NEW y, Pair(x, y), ReceiveReliable(x)
  PROVE  IInv'
<1>1. PacketsOK /\ Typed(x)
  BY Unfold
<1> DEFINE m == Head(queue[x])
           rest == [queue EXCEPT ![x] = Tail(@)]
<1>2. /\ Running(x) /\ connected[x] /\ queue[x] # << >>
      /\ UNCHANGED <<gen, tick, partner, once, recovering, nonce, breaks>>
  BY Zenon DEF ReceiveReliable, Pumps
<1>3. queue[x] \in Seq(Packets)
  BY <1>1 DEF Typed
<1>4. /\ m \in Packets /\ m \in Elems(queue[x])
      /\ Tail(queue[x]) \in Seq(Packets)
      /\ Elems(Tail(queue[x])) \subseteq Elems(queue[x])
      /\ \A n \in Elems(queue[x]) : n = m \/ n \in Elems(Tail(queue[x]))
  BY <1>2, <1>3, ElemsTaken
<1>5. rest \in [Peers -> Seq(Packets)] /\ rest[x] = Tail(queue[x]) /\ rest[y] = queue[y]
  BY <1>1, <1>4 DEF PacketsOK, Pair
<1>6. CASE m.kind = "resume"
  <2>1. ReceiveResume(x, m, rest) /\ UNCHANGED <<handshake, gotInput>>
    BY <1>6, Zenon DEF ReceiveReliable
  <2>2. CASE DifferentPeerSession(x, m)
    <3>1. Exit(x, "exit70") /\ UNCHANGED <<validated, remoteNonce>>
      BY <2>1, <2>2, Zenon DEF ReceiveResume
    <3>2. UNCHANGED <<gen, tick, handshake, gotInput, partner, once, validated, recovering,
                      remoteNonce, nonce, breaks>>
      BY <1>2, <2>1, <3>1
    <3> QED  BY <1>2, <3>1, <3>2, ExitStep
  <2>3. CASE ~DifferentPeerSession(x, m)
    <3>1. UNCHANGED <<gen, tick, handshake, gotInput, partner, once, recovering, nonce,
                      breaks>>
      BY <1>2, <2>1
    <3> HIDE DEF m, rest
    <3>2. Elems(rest[x]) \subseteq Elems(queue[x]) /\ m \in Elems(queue[x]) \cup {resume[x]}
      BY <1>4, <1>5
    <3>3. \A n \in Elems(queue[x]) : n = m \/ n \in Elems(rest[x])
      BY <1>4, <1>5
    <3> QED  BY <1>2, <1>4, <1>5, <1>6, <2>1, <2>3, <3>1, <3>2, <3>3, ResumeTakenStep
  <2> QED  BY <2>2, <2>3
<1>7. CASE m.kind # "resume"
  <2>1. /\ ReceiveOther(x, m) /\ queue' = rest
        /\ UNCHANGED <<pc, connected, link, resume, validated, remoteNonce>>
    BY <1>7, Zenon DEF ReceiveReliable
  <2>2. CASE ~(validated[x] /\ IsCurrentGeneration(x, m))
    <3>1. UNCHANGED <<handshake, gotInput>>
      BY <2>1, <2>2, Zenon DEF ReceiveOther
    <3>2. UNCHANGED <<pc, gen, tick, handshake, gotInput, partner, session, nonce, link,
                      resume, breaks>>
      BY <1>2, <2>1, <3>1 DEF session
    <3> QED  BY <1>2, <1>7, <2>1, <3>2, DroppedStep
  <2>3. CASE validated[x] /\ IsCurrentGeneration(x, m) /\ m.kind = "ready"
    <3>1. ReceiveStartReady(x, m)
      BY <2>1, <2>3, Zenon DEF ReceiveOther
    <3>2. gotInput' = gotInput
      BY <3>1, Zenon DEF ReceiveStartReady
    <3>3. UNCHANGED <<pc, gen, tick, partner, session, nonce, link, resume, breaks>>
      BY <1>2, <2>1 DEF session
    <3> QED  BY <1>2, <1>7, <2>1, <2>3, <3>1, <3>2, <3>3, StartReadyTakenStep
  <2>4. CASE validated[x] /\ IsCurrentGeneration(x, m) /\ m.kind # "ready"
    <3>1. /\ m.kind = "inputs" /\ gotInput' = [gotInput EXCEPT ![x] = TRUE]
          /\ UNCHANGED handshake
      BY <2>1, <2>4, Zenon DEF ReceiveOther
    <3>2. UNCHANGED <<pc, gen, tick, handshake, partner, session, nonce, link, resume,
                      breaks>>
      BY <1>2, <2>1, <3>1 DEF session
    <3> QED  BY <1>2, <1>7, <2>1, <2>4, <3>1, <3>2, InputsTakenStep
  <2> QED  BY <2>2, <2>3, <2>4
<1> QED  BY <1>6, <1>7

\* A periodic Resume is handled.
LEMMA ReceivePeriodicResumeStep ==
  ASSUME IInv, NEW x, NEW y, Pair(x, y), ReceivePeriodicResume(x)
  PROVE  IInv'
<1>1. PacketsOK /\ Typed(x) /\ x \in Peers
  BY Unfold DEF Pair
<1>2. /\ Running(x) /\ connected[x] /\ resume[x] # None
      /\ ReceiveResume(x, resume[x], queue)
      /\ UNCHANGED <<gen, tick, handshake, gotInput, partner, once, recovering, nonce,
                     breaks>>
  BY Zenon DEF ReceivePeriodicResume, Pumps
<1>3. /\ resume[x] \in Packets /\ resume[x].kind = "resume"
      /\ queue \in [Peers -> Seq(Packets)]
  BY <1>1, <1>2 DEF PacketsOK
<1>4. CASE DifferentPeerSession(x, resume[x])
  <2>1. Exit(x, "exit70") /\ UNCHANGED <<validated, remoteNonce>>
    BY <1>2, <1>4, Zenon DEF ReceiveResume
  <2>2. UNCHANGED <<gen, tick, handshake, gotInput, partner, once, validated, recovering,
                    remoteNonce, nonce, breaks>>
    BY <1>2, <2>1
  <2> QED  BY <1>2, <2>1, <2>2, ExitStep
<1>5. CASE ~DifferentPeerSession(x, resume[x])
  <2>1. resume[x] \in Elems(queue[x]) \cup {resume[x]}
    OBVIOUS
  <2>2. Elems(queue[x]) \subseteq Elems(queue[x])
    OBVIOUS
  <2>3. \A n \in Elems(queue[x]) : n = resume[x] \/ n \in Elems(queue[x])
    OBVIOUS
  <2> QED  BY <1>2, <1>3, <1>5, <2>1, <2>2, <2>3, ResumeTakenStep
<1> QED  BY <1>4, <1>5

-----------------------------------------------------------------------------
(* A process starts again *)

\* The process starts again.
LEMMA RestartProcessStep ==
  ASSUME IInv, NEW x, NEW y, Pair(x, y), RestartProcess(x)
  PROVE  IInv'
<1>1. /\ TypeOK /\ PacketsOK /\ Good(x, y) /\ Good(y, x)
      /\ Typed(x) /\ Typed(y) /\ link \in {"down", "half", "up", "broken"}
      /\ Whole(x) /\ Whole(y) /\ Numbered(x) /\ Numbered(y)
  BY Unfold
<1>2. Flags /\ Fields
  BY <1>1, TypesApart
<1>3. /\ Running(x) /\ Faults < MaxFaults /\ nonce' = [nonce EXCEPT ![x] = nonce[x] + 1]
      /\ gen' = [gen EXCEPT ![x] = 0] /\ tick' = [tick EXCEPT ![x] = 0]
      /\ local' = [local EXCEPT ![x] = None] /\ ready' = [ready EXCEPT ![x] = FALSE]
      /\ remote' = [remote EXCEPT ![x] = None] /\ seen' = [seen EXCEPT ![x] = None]
      /\ after' = [after EXCEPT ![x] = FALSE] /\ sent' = [sent EXCEPT ![x] = FALSE]
      /\ match' = [match EXCEPT ![x] = FALSE]
      /\ epochKnown' = [epochKnown EXCEPT ![x] = x = "host"]
      /\ gotInput' = [gotInput EXCEPT ![x] = FALSE]
      /\ partner' = [partner EXCEPT ![x] = None]
      /\ pc' = [pc EXCEPT ![x] = "run"]
      /\ connected[x] => DropSide(x)
      /\ ~connected[x] => connected' = connected /\ link' = link /\ queue' = queue /\ resume' = resume
      /\ once' = [once EXCEPT ![x] = FALSE]
      /\ validated' = [validated EXCEPT ![x] = TRUE]
      /\ recovering' = [recovering EXCEPT ![x] = FALSE]
      /\ remoteNonce' = [remoteNonce EXCEPT ![x] = None]
  BY Zenon DEF RestartProcess, BeginGeneration
<1>4. /\ breaks' = breaks
  BY Zenon DEF RestartProcess, BeginGeneration, handshake, session, network
<1>5. /\ connected' \in [Peers -> BOOLEAN] /\ PacketsOK'
      /\ link' \in {"down", "half", "up", "broken"}
      /\ connected'[x] = FALSE /\ connected'[y] = connected[y]
      /\ connected[x] => queue'[x] = << >> /\ resume'[x] = None
      /\ connected[x] /\ connected[y] =>
             link' = "broken" /\ queue'[y] = queue[y] /\ resume'[y] = resume[y]
      /\ connected[x] /\ ~connected[y] =>
             link' = "down" /\ queue'[y] = << >> /\ resume'[y] = None
      /\ ~connected[x] => link' = link /\ queue' = queue /\ resume' = resume /\ connected' = connected
  <2>1. CASE connected[x]
    BY <1>1, <1>2, <1>3, <2>1, DropValues DEF Typed
  <2>2. CASE ~connected[x]
    BY <1>1, <1>2, <1>3, <1>4, <2>2 DEF Typed, Flags, PacketsOK
  <2> QED  BY <1>1, <2>1, <2>2 DEF Typed
<1>6. nonce[x] + 1 \in Nonces /\ 0 \in 0 .. LastGeneration /\ 0 \in Ticks
  <2>1. nonce["host"] \in Nonces /\ nonce["client"] \in Nonces /\ breaks \in 0 .. MaxFaults
    BY <1>2 DEF Fields, Peers
  <2>2. x = "host" \/ x = "client"
    BY DEF Pair
  <2> QED  BY <1>3, <2>1, <2>2, SessionAssumption DEF Nonces, Ticks, Faults
<1>7. /\ gen'[x] = 0 /\ gen'[y] = gen[y] /\ tick'[x] = 0 /\ tick'[y] = tick[y]
      /\ local'[x] = None /\ local'[y] = local[y] /\ remote'[x] = None
      /\ remote'[y] = remote[y]
      /\ seen'[x] = None /\ seen'[y] = seen[y]
      /\ partner'[x] = None /\ partner'[y] = partner[y] /\ pc'[x] = "run"
      /\ pc'[y] = pc[y]
      /\ nonce'[x] = nonce[x] + 1 /\ nonce'[y] = nonce[y]
      /\ remoteNonce'[x] = None /\ remoteNonce'[y] = remoteNonce[y]
  BY <1>2, <1>3, <1>6 DEF Fields, Pair
<1>8. /\ after'[x] = FALSE /\ after'[y] = after[y] /\ match'[x] = FALSE
      /\ match'[y] = match[y]
      /\ gotInput'[x] = FALSE /\ gotInput'[y] = gotInput[y]
      /\ once'[x] = FALSE /\ once'[y] = once[y]
      /\ validated'[x] = TRUE /\ validated'[y] = validated[y]
  BY <1>2, <1>3 DEF Flags, Pair
<1>9. TypeOK'
  <2>1. Flags'
    BY <1>1, <1>2, <1>3, <1>4, <1>5, <1>6, <1>7, <1>8, Changed DEF Flags, Pair, Typed
  <2>2. Fields'
    BY <1>1, <1>2, <1>3, <1>4, <1>5, <1>6, <1>7, <1>8, Changed DEF Fields, Pair, Typed
  <2> QED  BY <2>1, <2>2, TypesApartLater
<1>10. PacketsOK'
  BY <1>5
<1>11. Good(x, y)'
  <2>1. LinkShape(x, y)'
    BY <1>1, <1>4, <1>5, <1>7, <1>8, ElemsEmpty
       DEF Good, LinkShape, Running, Pair, Whole
  <2>2. Unmet(x)'
    BY <1>1, <1>4, <1>5, <1>7, <1>8 DEF Good, Unmet
  <2>3. ResumeFirst(x)'
    BY <1>1, <1>4, <1>5, <1>7, <1>8, ElemsEmpty DEF Good, ResumeFirst, Pair, Whole,
      LinkShape
  <2>4. Handshake(x)'
    BY <1>1, <1>4, <1>5, <1>7, <1>8 DEF Good, Handshake, Began
  <2>5. Resumptions(x, y)'
    BY <1>1, <1>4, <1>5, <1>7, <1>8, ElemsEmpty
       DEF Good, Resumptions, Known, Acquainted,
      Old, Pair, Whole, LinkShape
  <2>6. OneSender(x)'
    BY <1>1, <1>4, <1>5, <1>7, <1>8, ElemsEmpty
       DEF Good, OneSender, Pair, Whole, LinkShape
  <2>7. Strange(x, y)'
    BY <1>1, <1>4, <1>5, <1>7, <1>8, ElemsEmpty
       DEF Good, Strange, Stranger, Known, Doomed,
      Pair, Whole, LinkShape
  <2>8. DoomSeen(x, y)'
    BY <1>1, <1>4, <1>5, <1>7, <1>8, ElemsEmpty
       DEF Good, DoomSeen, Stranger, Known, Doomed,
      Pair, Whole, LinkShape
  <2>9. UnderWay(x, y)'
    <3>1. queue'[x] = << >> \/ (queue'[x] = queue[x] /\ link = "half" /\ link' = "half" /\ x = "host")
      BY <1>1, <1>5, <1>7, <1>8 DEF Good, LinkShape, Pair, Typed
    <3>2. CASE queue'[x] = << >>
      BY <3>2, ElemsEmpty DEF UnderWay
    <3>3. CASE queue'[x] = queue[x] /\ link = "half" /\ x = "host"
      <4>1. \A m \in Elems(queue[x]) : m.kind # "inputs"
        BY <1>1, <3>3 DEF Good, LinkShape
      <4>2. \A g, t : Described(x, y, g, t)' <=> Described(x, y, g, t)
        BY <1>5, <1>7, <1>8 DEF Described
      <4> QED  BY <1>1, <3>3, <4>1, <4>2 DEF Good, UnderWay, Old
    <3> QED  BY <3>1, <3>2, <3>3
  <2>10. Knowledge(x, y)'
    BY <1>1, <1>4, <1>5, <1>7, <1>8, ElemsEmpty DEF Good, Knowledge, Described, Showing,
      Acquainted, Agreed, Began, Pair, Whole, LinkShape
  <2>11. Capped(x, y)'
    BY <1>1, <1>4, <1>5, <1>7, <1>8, ElemsEmpty DEF Good, Capped, Old, Deciding, Doomed,
      AtMost, Known, Pair, Whole, LinkShape
  <2>12. Replaced(x, y)'
    BY <1>1, <1>4, <1>5, <1>7, <1>8, ElemsEmpty DEF Good, Replaced, Stranger, SaysTick,
      HeardTick, Hopeless, Known, Agreed, Began, AtMost, Pair, Whole, LinkShape
  <2> QED
    BY <2>1, <2>2, <2>3, <2>4, <2>5, <2>6, <2>7, <2>8, <2>9, <2>10, <2>11, <2>12
       DEF Good
<1>12. Good(y, x)'
  <2>1. LinkShape(y, x)'
    BY <1>1, <1>4, <1>5, <1>7, <1>8, ElemsEmpty
       DEF Good, LinkShape, Running, Pair, Whole
  <2>2. Unmet(y)'
    BY <1>1, <1>4, <1>5, <1>7, <1>8 DEF Good, Unmet
  <2>3. ResumeFirst(y)'
    BY <1>1, <1>4, <1>5, <1>7, <1>8, ElemsEmpty DEF Good, ResumeFirst, Pair, Whole,
      LinkShape
  <2>4. Handshake(y)'
    BY <1>1, <1>4, <1>5, <1>7, <1>8 DEF Good, Handshake, Began
  <2>5. Resumptions(y, x)'
    <3>1. ~Acquainted(y, x)'
      <4>1. remoteNonce[y] = None \/ remoteNonce[y] <= nonce[x]
        BY <1>1 DEF Good, Resumptions, Known
      <4>2. nonce[x] \in Nat /\ nonce[x] + 1 # None /\ (remoteNonce[y] # None => remoteNonce[y] \in Nat)
        BY <1>1, <1>6, NoneAssumption DEF Whole
      <4> QED  BY <1>5, <1>7, <1>8, <4>1, <4>2 DEF Acquainted
    <3>2. \/ queue'[y] = << >> /\ resume'[y] = None
          \/ queue'[y] = queue[y] /\ resume'[y] = resume[y] /\ Old(y, x)'
      BY <1>1, <1>5, <1>7, <1>8, Zenon DEF Good, LinkShape, Old, Pair, Typed
    <3>3. Known(y)' => remoteNonce'[y] <= nonce'[x]
      BY <1>1, <1>5, <1>7, <1>8 DEF Good, Resumptions, Known, Whole
    <3>4. \A m \in Elems(queue[y]) \cup {resume[y]} : m # None /\ m.kind = "resume" =>
              m.value \in Nat /\ m.value <= nonce[x]
      <4>1. resume[y] # None => resume[y] \in Packets
        BY <1>1 DEF Typed
      <4>2. resume[y] # None /\ resume[y].kind = "resume" => resume[y].value \in Nat
        BY <4>1, PacketFields, SessionAssumption DEF Nonces
      <4> QED  BY <1>1, <4>2 DEF Good, Resumptions, Numbered
    <3>5. nonce[x] \in Nat /\ nonce'[x] = nonce[x] + 1
      BY <1>1, <1>5, <1>7, <1>8 DEF Whole
    <3>6. CASE queue'[y] = << >> /\ resume'[y] = None
      BY <3>1, <3>3, <3>6, ElemsEmpty DEF Resumptions
    <3>7. CASE queue'[y] = queue[y] /\ resume'[y] = resume[y] /\ Old(y, x)'
      <4>1. \A m \in Elems(queue'[y]) \cup {resume'[y]} : m # None /\ m.kind = "resume" =>
                m.value <= nonce'[x] /\ m.value # nonce'[x]
        BY <3>4, <3>5, <3>7
      <4> QED  BY <3>1, <3>3, <3>7, <4>1 DEF Resumptions
    <3> QED  BY <3>2, <3>6, <3>7
  <2>6. OneSender(y)'
    BY <1>1, <1>4, <1>5, <1>7, <1>8, ElemsEmpty
       DEF Good, OneSender, Pair, Whole, LinkShape
  <2>7. Strange(y, x)'
    BY <1>1, <1>4, <1>5, <1>7, <1>8, ElemsEmpty
       DEF Good, Strange, Stranger, Known, Doomed,
      Pair, Whole, LinkShape
  <2>8. DoomSeen(y, x)'
    BY <1>1, <1>4, <1>5, <1>7, <1>8, ElemsEmpty
       DEF Good, DoomSeen, Stranger, Known, Doomed,
      Pair, Whole, LinkShape
  <2>9. UnderWay(y, x)'
    BY <1>1, <1>4, <1>5, <1>7, <1>8, ElemsEmpty DEF Good, UnderWay, Described, Showing,
      Acquainted, Old, Began, Pair, Whole, LinkShape
  <2>10. Knowledge(y, x)'
    <3>1. ~Acquainted(y, x)'
      <4>1. remoteNonce[y] = None \/ remoteNonce[y] <= nonce[x]
        BY <1>1 DEF Good, Resumptions, Known
      <4>2. nonce[x] \in Nat /\ nonce[x] + 1 # None /\ (remoteNonce[y] # None => remoteNonce[y] \in Nat)
        BY <1>1, <1>6, NoneAssumption DEF Whole
      <4> QED  BY <1>5, <1>7, <1>8, <4>1, <4>2 DEF Acquainted
    <3> QED  BY <3>1 DEF Knowledge
  <2>11. Capped(y, x)'
    <3>1. /\ Deciding(y)' <=> Deciding(y)
          /\ connected'[y] /\ Old(y, x)' => queue'[y] = queue[y] /\ (link = "up" \/ link = "broken")
      BY <1>1, <1>4, <1>5, <1>7, <1>8 DEF Deciding, Old, Good, LinkShape, Typed
    <3>2. connected'[y] /\ Old(y, x)' => (Doomed(y)' <=> Doomed(y))
      BY <1>4, <1>5, <1>7, <1>8, <3>1 DEF Doomed, Known
    <3>3. ASSUME connected[y], Deciding(y), ~Doomed(y), ~Old(y, x), link \in {"up", "broken"},
                 gotInput[y] \/ \E m \in Elems(queue[y]) : m.kind = "inputs" /\ m.gen = gen[y]
          PROVE  /\ AtMost(remote[y], tick[y]) /\ AtMost(seen[y], tick[y])
                 /\ \A m \in Elems(queue[y]) :
                        m.kind = "ready" /\ m.gen = gen[y] => m.value <= tick[y]
      <4>1. Acquainted(y, x) \/ remoteNonce[y] = None
        BY <1>1, <3>3 DEF Good, DoomSeen, Stranger, Acquainted, LinkShape, Old
      <4>2. Showing(y, x, gen[y])
        BY <1>1, <3>3, <4>1 DEF Good, UnderWay, Knowledge, Unmet
      <4>3. gen[x] = gen[y] /\ tick[x] <= tick[y]
        BY <1>1, <3>3, <4>2, NotBehind
      <4>4. \A m \in Elems(queue[y]) :
                m.kind = "ready" /\ m.gen = gen[y] => m.value <= tick[y]
        BY <1>1, <3>3, <4>3 DEF Good, UnderWay, Described, Whole, Numbered
      <4>5. AtMost(remote[y], tick[y]) /\ AtMost(seen[y], tick[y])
        BY <1>1, <4>1, <4>3 DEF Good, Unmet, Knowledge, Described, Whole, AtMost
      <4> QED  BY <4>4, <4>5
    <3>4. /\ gotInput'[y] = gotInput[y] /\ remote'[y] = remote[y] /\ seen'[y] = seen[y]
          /\ tick'[y] = tick[y] /\ gen'[y] = gen[y] /\ connected'[y] = connected[y]
      BY <1>5, <1>7, <1>8
    <3> QED  BY <1>1, <3>1, <3>2, <3>3, <3>4 DEF Good, Capped
  <2>12. Replaced(y, x)'
    BY <1>1, <1>4, <1>5, <1>7, <1>8, ElemsEmpty DEF Good, Replaced, Stranger, SaysTick,
      HeardTick, Hopeless, Known, Agreed, Began, AtMost, Pair, LinkShape
  <2> QED
    BY <2>1, <2>2, <2>3, <2>4, <2>5, <2>6, <2>7, <2>8, <2>9, <2>10, <2>11, <2>12
       DEF Good
<1> QED  BY <1>9, <1>10, <1>11, <1>12, BothPeers

-----------------------------------------------------------------------------
(* All steps *)

\* Two processes that have just started.
LEMMA InitIInv == Init => IInv
<1> SUFFICES ASSUME Init
             PROVE  IInv
  OBVIOUS
<1>1. Flags
  BY DEF Init, Flags
<1>2. Fields
  BY SessionAssumption DEF Init, Fields, Ticks, Nonces
<1>3. PacketsOK
  BY DEF Init, PacketsOK
<1>4. ASSUME NEW p \in Peers, NEW q \in Peers
      PROVE  Good(p, q)
  <2>1. /\ pc[p] = "run" /\ gen[p] = 0 /\ gen[q] = 0 /\ local[p] = None /\ remote[p] = None
        /\ seen[p] = None /\ partner[p] = None /\ nonce[q] = 0 /\ remoteNonce[p] = None
        /\ queue[p] = << >> /\ resume[p] = None /\ link = "down"
    BY <1>4 DEF Init
  <2>2. /\ ~after[p] /\ ~match[p] /\ ~gotInput[p] /\ ~connected[p] /\ ~connected[q]
        /\ ~once[p] /\ validated[p]
    BY <1>4 DEF Init
  <2>3. Elems(queue[p]) = {} /\ nonce[q] # None
    BY <2>1, ElemsEmpty, NoneAssumption, SessionAssumption DEF Nonces
  <2>4. LinkShape(p, q) /\ Unmet(p) /\ ResumeFirst(p) /\ Handshake(p)
    BY <2>1, <2>2, <2>3 DEF LinkShape, Unmet, ResumeFirst, Handshake, Began
  <2>5. Resumptions(p, q) /\ OneSender(p) /\ Strange(p, q) /\ DoomSeen(p, q)
    BY <2>1, <2>2, <2>3
       DEF Resumptions, OneSender, Strange, DoomSeen, Known, Acquainted, Stranger, Doomed
  <2>6. UnderWay(p, q) /\ Knowledge(p, q) /\ Capped(p, q) /\ Replaced(p, q)
    BY <2>1, <2>2, <2>3
       DEF UnderWay, Knowledge, Capped, Replaced, Known, Acquainted, Stranger, Old
  <2> QED  BY <2>4, <2>5, <2>6 DEF Good
<1>5. \A p \in Peers : Other(p) \in Peers
  BY DEF Peers, Other
<1> QED  BY <1>1, <1>2, <1>3, <1>4, <1>5, TypesApart DEF IInv

\* A step that changes nothing.
LEMMA StutterStep ==
  ASSUME IInv, UNCHANGED vars
  PROVE  IInv'
<1>1. /\ pc' = pc /\ gen' = gen /\ tick' = tick /\ local' = local /\ ready' = ready
      /\ remote' = remote /\ seen' = seen /\ after' = after /\ sent' = sent
      /\ match' = match /\ epochKnown' = epochKnown /\ gotInput' = gotInput
      /\ partner' = partner /\ connected' = connected /\ once' = once
      /\ validated' = validated /\ recovering' = recovering /\ nonce' = nonce
      /\ remoteNonce' = remoteNonce /\ link' = link /\ queue' = queue
      /\ resume' = resume /\ breaks' = breaks
  BY DEF vars, handshake, session, network
<1>2. TypeOK' /\ PacketsOK'
  BY <1>1, Zenon DEF IInv, TypeOK, PacketsOK
<1>3. ASSUME NEW p \in Peers
      PROVE  Good(p, Other(p))'
  <2> DEFINE q == Other(p)
  <2>1. Good(p, q)
    BY DEF IInv
  <2> HIDE DEF q
  <2>2. LinkShape(p, q)' /\ Unmet(p)' /\ ResumeFirst(p)' /\ Handshake(p)'
    BY <1>1, <2>1 DEF Good, LinkShape, Running, Unmet, ResumeFirst, Handshake, Began
  <2>3. Resumptions(p, q)' /\ OneSender(p)' /\ Strange(p, q)' /\ DoomSeen(p, q)'
    BY <1>1, <2>1
       DEF Good, Resumptions, OneSender, Strange, DoomSeen, Known, Acquainted, Stranger,
           Doomed, Old
  <2>4. UnderWay(p, q)' /\ Knowledge(p, q)'
    BY <1>1, <2>1
       DEF Good, UnderWay, Knowledge, Described, Showing, Acquainted, Agreed, Began, Old
  <2>5. Capped(p, q)'
    BY <1>1, <2>1 DEF Good, Capped, Old, Deciding, Doomed, Known
  <2>6. Replaced(p, q)'
    BY <1>1, <2>1
       DEF Good, Replaced, Known, Stranger, SaysTick, HeardTick, Hopeless, Agreed, Began
  <2> QED  BY <2>2, <2>3, <2>4, <2>5, <2>6 DEF Good, q
<1> QED  BY <1>2, <1>3 DEF IInv

\* Every step keeps the invariant.
LEMMA NextIInv == IInv /\ [Next]_vars => IInv'
<1> SUFFICES ASSUME IInv, [Next]_vars
             PROVE  IInv'
  OBVIOUS
<1>1. CASE UNCHANGED vars
  BY <1>1, StutterStep
<1>2. ASSUME NEW x \in Peers, Step(x)
      PROVE  IInv'
  <2>1. Pair(x, Other(x))
    BY TwoPeers
  <2>2. CASE BecomeReady(x)
    BY <2>1, <2>2, BecomeReadyStep
  <2>3. CASE MarkValidation(x)
    BY <2>1, <2>3, MarkValidationStep
  <2>4. CASE SendStartReady(x)
    BY <2>1, <2>4, SendStartReadyStep
  <2>5. CASE ResendStartReady(x)
    BY <2>1, <2>5, ResendStartReadyStep
  <2>6. CASE AcceptStartReady(x)
    BY <2>1, <2>6, AcceptStartReadyStep
  <2>7. CASE RefuseStartReady(x)
    BY <2>1, <2>7, RefuseStartReadyStep
  <2>8. CASE TimeOut(x)
    BY <2>1, <2>8, TimeOutStep
  <2>9. CASE FinishMatch(x)
    BY <2>1, <2>9, FinishMatchStep
  <2>10. CASE RestartAfterResult(x)
    BY <2>1, <2>10, RestartAfterResultStep
  <2>11. CASE ReceiveReliable(x)
    BY <2>1, <2>11, ReceiveReliableStep
  <2>12. CASE SendResume(x)
    BY <2>1, <2>12, SendResumeStep
  <2>13. CASE ReceivePeriodicResume(x)
    BY <2>1, <2>13, ReceivePeriodicResumeStep
  <2>14. CASE Disconnect(x)
    BY <2>1, <2>14, DisconnectStep
  <2>15. CASE Connect(x)
    BY <2>1, <2>15, ConnectStep
  <2>16. CASE GiveUp(x)
    BY <2>1, <2>16, GiveUpStep
  <2>17. CASE RestartProcess(x)
    BY <2>1, <2>17, RestartProcessStep
  <2> QED
    BY <1>2, <2>2, <2>3, <2>4, <2>5, <2>6, <2>7, <2>8, <2>9, <2>10, <2>11, <2>12, <2>13,
       <2>14, <2>15, <2>16, <2>17 DEF Step
<1> QED  BY <1>1, <1>2 DEF Next

-----------------------------------------------------------------------------
(* Theorems *)

\* The invariant holds in every state of a session.
THEOREM SessionInvariance == Spec => []IInv
  BY InitIInv, NextIInv, PTL DEF Spec

\* The state of a session stays within its types: a generation is never beyond the
\* last one, a nonce never beyond the restarts there were.
THEOREM TypeCorrect == Spec => []TypeOK
<1>1. IInv => TypeOK
  BY DEF IInv
<1> QED  BY <1>1, SessionInvariance, PTL

\* Two peers that play a match of one generation have started it from the same state
\* (AcceptStartReady), whatever timed out, was lost, resent or restarted.
THEOREM OneStart == Spec => []SameStart
<1>1. IInv => SameStart
  <2> SUFFICES ASSUME IInv, NEW p \in Peers, Started(p), Started(Other(p)),
                      gen[p] = gen[Other(p)]
               PROVE  tick[p] = tick[Other(p)]
    BY DEF SameStart
  <2> DEFINE q == Other(p)
  <2>1. Pair(p, q)
    BY TwoPeers
  <2>2. Good(p, q) /\ Good(q, p) /\ Whole(p) /\ Whole(q)
    BY <2>1, Unfold
  <2> HIDE DEF q
  <2>3. Started(p) /\ Started(q) /\ gen[p] = gen[q]
    BY DEF q
  <2>4. Began(p) /\ Began(q) /\ remoteNonce[p] # None /\ remoteNonce[q] # None
    BY <2>2, <2>3 DEF Good, Handshake, Unmet, Started, Began
  <2>5. CASE Acquainted(p, q) /\ Acquainted(q, p)
    <3>1. tick[p] <= tick[q] /\ tick[q] <= tick[p]
      BY <2>2, <2>3, <2>4, <2>5 DEF Good, Knowledge, Agreed
    <3> QED  BY <2>2, <3>1 DEF Whole, q
  <2>6. CASE Stranger(p, q)
    <3>1. HeardTick(p, q)
      BY <2>2, <2>4, <2>6 DEF Good, Replaced, Hopeless
    <3> QED  BY <2>3, <2>4, <3>1 DEF HeardTick, Agreed, q
  <2>7. CASE Stranger(q, p)
    <3>1. HeardTick(q, p)
      BY <2>2, <2>4, <2>7 DEF Good, Replaced, Hopeless
    <3> QED  BY <2>3, <2>4, <3>1 DEF HeardTick, Agreed, q
  <2> QED  BY <2>4, <2>5, <2>6, <2>7 DEF Acquainted, Stranger
<1> QED  BY <1>1, SessionInvariance, PTL

\* Nobody starts alone: the process whose StartReady was accepted is ready for this
\* match, or already in a later one.
THEOREM NoLonelyStart == Spec => []NobodyStartsAlone
<1>1. IInv => NobodyStartsAlone
  <2> SUFFICES ASSUME IInv, NEW p \in Peers, Started(p), nonce[Other(p)] = partner[p]
               PROVE  \/ gen[Other(p)] > gen[p]
                      \/ gen[Other(p)] = gen[p] /\ local[Other(p)] # None
    BY DEF NobodyStartsAlone
  <2>1. Pair(p, Other(p))
    BY TwoPeers
  <2>2. Good(p, Other(p)) /\ Whole(p) /\ Whole(Other(p))
    BY <2>1, Unfold
  <2>3. Acquainted(p, Other(p)) /\ remote[p] # None
    BY <2>2 DEF Good, Handshake, Started, Began, Acquainted
  <2>4. Described(p, Other(p), gen[p], remote[p])
    BY <2>2, <2>3 DEF Good, Knowledge
  <2> QED  BY <2>2, <2>4 DEF Described, Whole
<1> QED  BY <1>1, SessionInvariance, PTL

\* A connection that a peer takes for usable in a match leads to the process it
\* started the match with (DifferentPeerSession), not to one in its place.
THEOREM NoStrangerInMatch == Spec => []NoStranger
<1>1. IInv => NoStranger
  <2> SUFFICES ASSUME IInv, NEW p \in Peers, pc[p] = "play", Usable(p), link = "up"
               PROVE  nonce[Other(p)] = partner[p]
    BY DEF NoStranger
  <2>1. Pair(p, Other(p))
    BY TwoPeers
  <2>2. Good(p, Other(p))
    BY <2>1, Unfold
  <2>3. partner[p] = remoteNonce[p] /\ remoteNonce[p] # None
    BY <2>2 DEF Good, Handshake, Began
  <2> QED  BY <2>2, <2>3 DEF Good, Strange, Stranger, Usable
<1> QED  BY <1>1, SessionInvariance, PTL
=============================================================================
