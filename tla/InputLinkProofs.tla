--------------------------- MODULE InputLinkProofs ---------------------------
(***************************************************************************)
(* Proofs about module InputLink, for every epoch, delay, horizon, bundle  *)
(* size and number of lost connections.                                    *)
(***************************************************************************)
EXTENDS InputLink, Extrema, SequenceTheorems, FiniteSetTheorems

(* The inductive invariant *)

\* What a peer records for frame f: the primed neutral input, then what the
\* player presses.
Want(f) == IF f < Epoch + Delay THEN Neutral ELSE PlayerInput(f)

\* The last frame a peer has recorded an input for.
Top(p) == IF local[p][frame[p] + Delay] = None THEN frame[p] + Delay - 1
          ELSE frame[p] + Delay

\* What a message may acknowledge.
Acks == InputFrames \cup {NoFrame}

\* A map is filled with recorded inputs up to frame t.
Filled(inputs, t) ==
    \A f \in InputFrames : inputs[f] = IF f <= t THEN Want(f) ELSE None

\* LocalInputs is filled up to the frame being run, ...
LocalFilled ==
    \A p \in Peers :
        /\ Filled(local[p], Top(p))
        /\ pc[p] = "send" => Top(p) = frame[p] + Delay - 1
        /\ pc[p] \in {"gate", "result"} => Top(p) = frame[p] + Delay

\* ... and RemoteInputs up to the frontier, which is behind what the other peer
\* has recorded.
RemoteFilled ==
    \A p \in Peers :
        /\ Filled(remote[p], contig[p])
        /\ Epoch - 1 <= contig[p] /\ contig[p] <= Top(Other(p))

\* Nothing is acknowledged that has not arrived, nothing is resent that was
\* not recorded.
Acknowledged ==
    \A p \in Peers : ack[p] <= contig[Other(p)] /\ lastSent[p] <= Top(p)

\* The recorded inputs from frame a to frame b.
Recorded(a, b) == [g \in a .. b |-> Want(g)]

\* A bundle to a peer with frontier c starts at the latest after the frontier; its
\* sender has recorded inputs up to frame t and has the frontier o.
SoundBundle(m, c, o, t) ==
    \E a, b \in InputFrames, r \in Acks :
        /\ m = Bundle(Recorded(a, b), r)
        /\ a <= c + 1 /\ b <= t /\ r <= o

\* A Resume claims no more than its sender has.
SoundResume(m, o) == \E r \in Acks : m = Resume(r) /\ r <= o

\* A reliable packet with a recorded input.
History(g) == Input(g, Want(g))

\* It is one its sender has recorded.
SoundInput(m, t) == \E g \in InputFrames : m = History(g) /\ g <= t

\* Reliable packets: the history follows the frontier without a gap.
SoundQueue(s, c, o, t) ==
    \A k \in 1 .. Len(s) :
        /\ SoundInput(s[k], t) \/ SoundResume(s[k], o)
        /\ \A g \in InputFrames :
               s[k] = History(g) =>
                   g <= c + 1 \/ \E j \in 1 .. (k - 1) : s[j] = History(g - 1)

\* Everything the peers can send each other.
Packets ==
    {Bundle(Recorded(a, b), r) : a \in InputFrames, b \in InputFrames, r \in Acks}
    \cup {Resume(r) : r \in Acks} \cup {History(g) : g \in InputFrames}

\* What is under way unreliably.
DatagramsSound ==
    /\ datagrams \in [Peers -> SUBSET Packets]
    /\ \A q \in Peers : \A m \in datagrams[q] :
           \/ SoundBundle(m, contig[q], contig[Other(q)], Top(Other(q)))
           \/ SoundResume(m, contig[Other(q)])

\* What is under way reliably.
ReliableSound ==
    /\ reliable \in [Peers -> Seq(Packets)]
    /\ \A q \in Peers :
           SoundQueue(reliable[q], contig[q], contig[Other(q)], Top(Other(q)))

\* There is a Resume among the first k packets.
ResumeWithin(s, k) == \E j \in 1 .. k : s[j].kind = "resume"

\* Every packet of the history comes after a Resume.
ResumeBefore(s) ==
    \A k \in 1 .. Len(s) : s[k].kind = "input" => ResumeWithin(s, k - 1)

\* A peer that would drop the history handles a Resume before it.
ResumeFirst ==
    \A q \in Peers : ~validated[q] =>
        /\ ResumeBefore(reliable[q])
        /\ link \in {"half", "up"} /\ connected[Other(q)] =>
               ResumeWithin(reliable[q], Len(reliable[q]))

\* Which sides of the connection exist.
LinkShape ==
    /\ link = "up" => connected["host"] /\ connected["client"]
    /\ link = "half" => connected["client"] /\ ~connected["host"]
    /\ link = "down" => ~connected["client"] /\ ~connected["host"]
    /\ link = "broken" => connected["client"] # connected["host"]
    /\ \A p \in Peers : Running(p) /\ ~connected[p] => ~validated[p]

\* All of it.
IInv ==
    /\ TypeOK /\ LocalFilled /\ RemoteFilled /\ Acknowledged
    /\ DatagramsSound /\ ReliableSound /\ ResumeFirst /\ LinkShape
    /\ ResumeAccepted /\ LeadBounded

-----------------------------------------------------------------------------
(* Frames and peers *)

\* The frames of the epoch are numbers above NoFrame.
LEMMA FrameNumbers ==
    /\ Epoch \in Int /\ Epoch >= 1 /\ LastFrame \in Int /\ Epoch <= LastFrame
    /\ Delay \in Int /\ Delay >= 0 /\ Horizon \in Int /\ Horizon >= 1
    /\ MaxEntries \in Int /\ MaxEntries >= 1
    /\ NoFrame = 0
    /\ InputFrames \subseteq Int /\ Acks \subseteq Int
    /\ \A f \in Int : f \in InputFrames <=> Epoch <= f /\ f <= LastFrame + Delay
    /\ \A f \in Acks : f = 0 \/ f \in InputFrames
    /\ \A f \in InputFrames : f \in Acks
    /\ 0 \in Acks
  BY LinkAssumption DEF InputFrames, Acks, NoFrame

\* There are two peers.
LEMMA TwoPeers ==
  ASSUME NEW p \in Peers
  PROVE  /\ Other(p) \in Peers /\ Other(p) # p /\ Other(Other(p)) = p
         /\ \A q \in Peers : q = p \/ q = Other(p)
  BY DEF Peers, Other

\* A recorded input is an input.
LEMMA WantIsInput ==
  ASSUME NEW f \in InputFrames
  PROVE  Want(f) # None /\ Want(f) \in MaybeInputs
  BY InputAssumption DEF Want, PlayerInput, MaybeInputs

\* The last frame recorded is the one being run, or the one before it, moved by
\* the delay.
LEMMA TopRange ==
  ASSUME TypeOK, NEW p \in Peers
  PROVE  /\ Top(p) \in Int /\ frame[p] \in Int
         /\ Epoch <= frame[p] /\ frame[p] <= LastFrame
         /\ frame[p] + Delay - 1 <= Top(p) /\ Top(p) <= frame[p] + Delay
         /\ Epoch - 1 <= Top(p) /\ Top(p) <= LastFrame + Delay
<1>1. frame[p] \in Int /\ Epoch <= frame[p] /\ frame[p] <= LastFrame
  BY FrameNumbers DEF TypeOK
<1>2. Top(p) = frame[p] + Delay - 1 \/ Top(p) = frame[p] + Delay
  BY DEF Top
<1> QED  BY <1>1, <1>2, FrameNumbers

\* The frontier, the acknowledgement and the last frame sent are numbers.
LEMMA Frontiers ==
  ASSUME TypeOK, NEW p \in Peers
  PROVE  /\ contig[p] \in Int /\ Epoch - 1 <= contig[p] /\ contig[p] <= LastFrame + Delay
         /\ ack[p] \in Acks /\ lastSent[p] \in Acks
         /\ ack[p] \in Int /\ lastSent[p] \in Int
<1>1. contig[p] \in Int /\ Epoch - 1 <= contig[p] /\ contig[p] <= LastFrame + Delay
  BY FrameNumbers DEF TypeOK
<1>2. ack[p] \in Acks /\ lastSent[p] \in Acks
  BY DEF TypeOK, Acks
<1> QED  BY <1>1, <1>2, FrameNumbers

\* They still are after a step.
LEMMA NumbersLater ==
  ASSUME TypeOK', NEW p \in Peers
  PROVE  contig'[p] \in Int /\ Top(p)' \in Int
<1>1. contig' \in [Peers -> Int]
  BY FrameNumbers DEF TypeOK
<1>2. Top(p)' \in Int
  BY FrameNumbers DEF TypeOK, Top
<1> QED  BY <1>1, <1>2

-----------------------------------------------------------------------------
(* Packets *)

\* The fields of a bundle.
LEMMA BundleFields ==
  ASSUME NEW e, NEW r
  PROVE  Bundle(e, r).kind = "bundle" /\ Bundle(e, r).entries = e /\ Bundle(e, r).frame = r
  BY DEF Bundle

\* The fields of a Resume.
LEMMA ResumeFields ==
  ASSUME NEW r
  PROVE  Resume(r).kind = "resume" /\ Resume(r).frame = r
  BY DEF Resume

\* The fields of a packet of the history, which carries one frame.
LEMMA HistoryFields ==
  ASSUME NEW g
  PROVE  /\ History(g).kind = "input" /\ History(g).frame = NoFrame
         /\ History(g).entries = [f \in {g} |-> Want(g)]
         /\ DOMAIN History(g).entries = {g}
         /\ \A h : History(g) = History(h) => g = h
<1>1. \A h : /\ History(h).kind = "input" /\ History(h).frame = NoFrame
             /\ History(h).entries = [f \in {h} |-> Want(h)]
             /\ DOMAIN History(h).entries = {h}
  BY DEF History, Input
<1>2. ASSUME NEW h, History(g) = History(h) PROVE g = h
  <2>1. {g} = {h}
    BY <1>1, <1>2
  <2> QED  BY <2>1
<1> QED  BY <1>1, <1>2

\* What is sent is a packet.
LEMMA PacketKinds ==
    /\ \A a, b \in InputFrames, r \in Acks : Bundle(Recorded(a, b), r) \in Packets
    /\ \A r \in Acks : Resume(r) \in Packets
    /\ \A g \in InputFrames : History(g) \in Packets
<1>1. ASSUME NEW a \in InputFrames, NEW b \in InputFrames, NEW r \in Acks
      PROVE  Bundle(Recorded(a, b), r) \in Packets
  BY <1>1 DEF Packets
<1>2. ASSUME NEW r \in Acks PROVE Resume(r) \in Packets
  BY <1>2 DEF Packets
<1>3. ASSUME NEW g \in InputFrames PROVE History(g) \in Packets
  BY <1>3 DEF Packets
<1> QED  BY <1>1, <1>2, <1>3

\* A packet stays sound while frontiers and recorded inputs grow.
LEMMA SoundLater ==
  ASSUME NEW m, NEW c \in Int, NEW c1 \in Int, c <= c1, NEW o \in Int, NEW o1 \in Int, o <= o1,
         NEW t \in Int, NEW t1 \in Int, t <= t1
  PROVE  /\ SoundBundle(m, c, o, t) => SoundBundle(m, c1, o1, t1)
         /\ SoundResume(m, o) => SoundResume(m, o1)
         /\ SoundInput(m, t) => SoundInput(m, t1)
<1>1. SoundBundle(m, c, o, t) => SoundBundle(m, c1, o1, t1)
  <2> SUFFICES ASSUME SoundBundle(m, c, o, t) PROVE SoundBundle(m, c1, o1, t1)
    OBVIOUS
  <2>1. PICK a \in InputFrames, b \in InputFrames, r \in Acks :
          m = Bundle(Recorded(a, b), r) /\ a <= c + 1 /\ b <= t /\ r <= o
    BY DEF SoundBundle
  <2>2. a <= c1 + 1 /\ b <= t1 /\ r <= o1
    BY <2>1, FrameNumbers
  <2> QED  BY <2>1, <2>2 DEF SoundBundle
<1>2. SoundResume(m, o) => SoundResume(m, o1)
  BY FrameNumbers DEF SoundResume
<1>3. SoundInput(m, t) => SoundInput(m, t1)
  BY FrameNumbers DEF SoundInput
<1> QED  BY <1>1, <1>2, <1>3

\* So does a queue of reliable packets ...
LEMMA QueueLater ==
  ASSUME NEW s, NEW c \in Int, NEW c1 \in Int, c <= c1, NEW o \in Int, NEW o1 \in Int, o <= o1,
         NEW t \in Int, NEW t1 \in Int, t <= t1, SoundQueue(s, c, o, t)
  PROVE  SoundQueue(s, c1, o1, t1)
<1> SUFFICES ASSUME NEW k \in 1 .. Len(s)
             PROVE  /\ SoundInput(s[k], t1) \/ SoundResume(s[k], o1)
                    /\ \A g \in InputFrames : s[k] = History(g) =>
                          g <= c1 + 1 \/ \E j \in 1 .. (k - 1) : s[j] = History(g - 1)
  BY DEF SoundQueue
<1>1. SoundInput(s[k], t1) \/ SoundResume(s[k], o1)
  BY SoundLater DEF SoundQueue
<1>2. ASSUME NEW g \in InputFrames, s[k] = History(g)
      PROVE  g <= c1 + 1 \/ \E j \in 1 .. (k - 1) : s[j] = History(g - 1)
  <2>1. g <= c + 1 \/ \E j \in 1 .. (k - 1) : s[j] = History(g - 1)
    BY <1>2 DEF SoundQueue
  <2> QED  BY <2>1, FrameNumbers
<1> QED  BY <1>1, <1>2

\* ... to which a sound one is appended ...
LEMMA QueueAppended ==
  ASSUME NEW s \in Seq(Packets), NEW s1 \in Seq(Packets), NEW c, NEW o, NEW t,
         SoundQueue(s, c, o, t), SoundQueue(s1, c, o, t)
  PROVE  SoundQueue(s \o s1, c, o, t)
<1> SUFFICES ASSUME NEW k \in 1 .. Len(s \o s1)
             PROVE  /\ SoundInput((s \o s1)[k], t) \/ SoundResume((s \o s1)[k], o)
                    /\ \A g \in InputFrames : (s \o s1)[k] = History(g) =>
                          \/ g <= c + 1
                          \/ \E j \in 1 .. (k - 1) : (s \o s1)[j] = History(g - 1)
  BY DEF SoundQueue
<1>1. /\ Len(s \o s1) = Len(s) + Len(s1) /\ Len(s) \in Nat /\ Len(s1) \in Nat
      /\ \A i \in 1 .. Len(s) : (s \o s1)[i] = s[i]
      /\ \A i \in 1 .. Len(s1) : (s \o s1)[Len(s) + i] = s1[i]
  BY ConcatProperties, LenProperties
<1>2. CASE k <= Len(s)
  <2>1. (s \o s1)[k] = s[k] /\ k \in 1 .. Len(s)
    BY <1>1, <1>2
  <2>2. \A j \in 1 .. (k - 1) : (s \o s1)[j] = s[j]
    BY <1>1, <1>2
  <2> QED  BY <2>1, <2>2 DEF SoundQueue
<1>3. CASE k > Len(s)
  <2> DEFINE i == k - Len(s)
  <2>1. i \in 1 .. Len(s1) /\ (s \o s1)[k] = s1[i]
    BY <1>1, <1>3
  <2>2. \A j \in 1 .. (i - 1) :
            (s \o s1)[Len(s) + j] = s1[j] /\ Len(s) + j \in 1 .. (k - 1)
    BY <1>1, <1>3
  <2> HIDE DEF i
  <2>3. SoundInput((s \o s1)[k], t) \/ SoundResume((s \o s1)[k], o)
    BY <2>1 DEF SoundQueue
  <2>4. ASSUME NEW g \in InputFrames, (s \o s1)[k] = History(g), ~ (g <= c + 1)
        PROVE  \E j \in 1 .. (k - 1) : (s \o s1)[j] = History(g - 1)
    <3>1. PICK j \in 1 .. (i - 1) : s1[j] = History(g - 1)
      BY <2>1, <2>4 DEF SoundQueue
    <3> QED  BY <2>2, <3>1
  <2> QED  BY <2>3, <2>4
<1>4. k <= Len(s) \/ k > Len(s)
  BY <1>1
<1> QED  BY <1>2, <1>3, <1>4, Zenon

\* ... and from which the first packet is taken, once the frontier has reached
\* its frame.
LEMMA QueueTail ==
  ASSUME NEW s \in Seq(Packets), s # << >>, NEW c \in Int, NEW o, NEW t, SoundQueue(s, c, o, t),
         \A g \in InputFrames : Head(s) = History(g) => g <= c
  PROVE  SoundQueue(Tail(s), c, o, t)
<1> SUFFICES ASSUME NEW k \in 1 .. Len(Tail(s))
             PROVE  /\ SoundInput(Tail(s)[k], t) \/ SoundResume(Tail(s)[k], o)
                    /\ \A g \in InputFrames : Tail(s)[k] = History(g) =>
                          \/ g <= c + 1
                          \/ \E j \in 1 .. (k - 1) : Tail(s)[j] = History(g - 1)
  BY DEF SoundQueue
<1>1. /\ Len(s) \in Nat /\ Len(s) >= 1 /\ Len(Tail(s)) = Len(s) - 1 /\ Head(s) = s[1]
      /\ \A i \in 1 .. Len(Tail(s)) : Tail(s)[i] = s[i + 1]
  BY HeadTailProperties, EmptySeq, LenProperties
<1>2. k + 1 \in 1 .. Len(s) /\ Tail(s)[k] = s[k + 1]
  BY <1>1
<1>3. SoundInput(Tail(s)[k], t) \/ SoundResume(Tail(s)[k], o)
  BY <1>2 DEF SoundQueue
<1>4. ASSUME NEW g \in InputFrames, Tail(s)[k] = History(g), ~(g <= c + 1)
      PROVE  \E j \in 1 .. (k - 1) : Tail(s)[j] = History(g - 1)
  <2>1. PICK j \in 1 .. ((k + 1) - 1) : s[j] = History(g - 1)
    BY <1>2, <1>4 DEF SoundQueue
  <2>2. j # 1
    <3> SUFFICES ASSUME j = 1 PROVE FALSE
      OBVIOUS
    <3>1. g - 1 \in InputFrames
      <4>1. s[1] = History(g - 1) /\ 1 \in 1 .. Len(s)
        BY <1>1, <2>1
      <4>2. SoundInput(s[1], t) \/ SoundResume(s[1], o)
        BY <4>1 DEF SoundQueue
      <4>3. SoundInput(s[1], t)
        BY <4>1, <4>2, HistoryFields, ResumeFields DEF SoundResume
      <4> QED  BY <4>1, <4>3, HistoryFields DEF SoundInput
    <3> QED  BY <1>1, <1>4, <2>1, <3>1, FrameNumbers
  <2>3. j - 1 \in 1 .. (k - 1) /\ Tail(s)[j - 1] = s[j]
    BY <1>1, <1>2, <2>2
  <2> QED  BY <2>1, <2>3
<1> QED  BY <1>3, <1>4

\* A Resume among the first packets stays when packets are appended, and so does
\* one before the history.
LEMMA ResumeAppended ==
  ASSUME NEW s \in Seq(Packets), NEW s1 \in Seq(Packets)
  PROVE  /\ ResumeWithin(s, Len(s)) =>
               ResumeWithin(s \o s1, Len(s \o s1)) /\ (ResumeBefore(s) => ResumeBefore(s \o s1))
         /\ ResumeBefore(s) /\ (\A k \in 1 .. Len(s1) : s1[k].kind # "input") =>
               ResumeBefore(s \o s1)
<1>1. /\ Len(s \o s1) = Len(s) + Len(s1) /\ Len(s) \in Nat /\ Len(s1) \in Nat
      /\ \A i \in 1 .. Len(s) : (s \o s1)[i] = s[i]
      /\ \A i \in 1 .. Len(s1) : (s \o s1)[Len(s) + i] = s1[i]
  BY ConcatProperties, LenProperties
<1>2. ASSUME NEW k \in 1 .. Len(s) PROVE ResumeWithin(s, k - 1) => ResumeWithin(s \o s1, k - 1)
  BY <1>1 DEF ResumeWithin
<1>3. ASSUME ResumeWithin(s, Len(s)), NEW k \in Int, k >= Len(s)
      PROVE  ResumeWithin(s \o s1, k)
  BY <1>1, <1>3 DEF ResumeWithin
<1>4. ASSUME ResumeBefore(s), NEW k \in 1 .. Len(s \o s1), (s \o s1)[k].kind = "input",
             k <= Len(s)
      PROVE  ResumeWithin(s \o s1, k - 1)
  <2>1. k \in 1 .. Len(s) /\ s[k].kind = "input"
    BY <1>1, <1>4
  <2> QED  BY <1>2, <1>4, <2>1 DEF ResumeBefore
<1>5. ASSUME ResumeWithin(s, Len(s)), ResumeBefore(s) PROVE ResumeBefore(s \o s1)
  <2> SUFFICES ASSUME NEW k \in 1 .. Len(s \o s1), (s \o s1)[k].kind = "input"
               PROVE  ResumeWithin(s \o s1, k - 1)
    BY DEF ResumeBefore
  <2>1. CASE k <= Len(s)
    BY <1>4, <1>5, <2>1
  <2>2. CASE k > Len(s)
    BY <1>1, <1>3, <1>5, <2>2
  <2> QED  BY <1>1, <2>1, <2>2
<1>6. ASSUME ResumeBefore(s), \A k \in 1 .. Len(s1) : s1[k].kind # "input"
      PROVE  ResumeBefore(s \o s1)
  <2> SUFFICES ASSUME NEW k \in 1 .. Len(s \o s1), (s \o s1)[k].kind = "input"
               PROVE  ResumeWithin(s \o s1, k - 1)
    BY DEF ResumeBefore
  <2>1. CASE k <= Len(s)
    BY <1>4, <1>6, <2>1
  <2>2. CASE k > Len(s)
    <3>1. k - Len(s) \in 1 .. Len(s1) /\ (s \o s1)[Len(s) + (k - Len(s))] = s1[k - Len(s)]
      BY <1>1, <2>2
    <3>2. Len(s) + (k - Len(s)) = k
      BY <1>1
    <3> QED  BY <1>6, <3>1, <3>2
  <2> QED  BY <1>1, <2>1, <2>2
<1>7. Len(s \o s1) \in Int /\ Len(s \o s1) >= Len(s)
  BY <1>1
<1> QED  BY <1>3, <1>5, <1>6, <1>7

-----------------------------------------------------------------------------
(* The operators of the model *)

\* Of two numbers Min is the smaller ...
LEMMA MinOfTwo ==
  ASSUME NEW a \in Int, NEW b \in Int
  PROVE  /\ Min({a, b}) \in {a, b}
         /\ Min({a, b}) <= a /\ Min({a, b}) <= b
<1> DEFINE l == IF a <= b THEN a ELSE b
           u == IF a <= b THEN b ELSE a
<1>1. {a, b} \in SUBSET (l .. u) /\ {a, b} # {} /\ l \in Int /\ u \in Int
  OBVIOUS
<1> HIDE DEF l, u
<1>2. Min({a, b}) \in {a, b} /\ \A k \in {a, b} : Min({a, b}) <= k
  BY <1>1, MinOfInterval
<1> QED  BY <1>2

\* ... and Max the larger.
LEMMA MaxOfTwo ==
  ASSUME NEW a \in Int, NEW b \in Int
  PROVE  /\ Max({a, b}) \in {a, b}
         /\ a <= Max({a, b}) /\ b <= Max({a, b})
<1> DEFINE l == IF a <= b THEN a ELSE b
           u == IF a <= b THEN b ELSE a
<1>1. {a, b} \in SUBSET (l .. u) /\ {a, b} # {} /\ l \in Int /\ u \in Int
  OBVIOUS
<1> HIDE DEF l, u
<1>2. Max({a, b}) \in {a, b} /\ \A k \in {a, b} : k <= Max({a, b})
  BY <1>1, MaxOfInterval
<1> QED  BY <1>2

\* The inputs of a map that is filled up to frame t.
LEMMA KnownUpTo ==
  ASSUME NEW t \in Int, t <= LastFrame + Delay, NEW inputs,
         Filled(inputs, t)
  PROVE  Known(inputs) = Epoch .. t
<1>1. \A f \in InputFrames : inputs[f] # None <=> f <= t
  BY WantIsInput DEF Filled
<1>2. Known(inputs) = {f \in InputFrames : f <= t}
  BY <1>1 DEF Known
<1>3. \A f \in Epoch .. t : f \in InputFrames /\ f <= t
  BY FrameNumbers
<1>4. \A f \in InputFrames : f <= t => f \in Epoch .. t
  BY FrameNumbers
<1> QED  BY <1>2, <1>3, <1>4

\* The frontier advances to the last frame before the first gap.
LEMMA AdvanceTo ==
  ASSUME NEW r, NEW c \in Int, NEW e \in Int, c <= e,
         Epoch - 1 <= e, e <= LastFrame + Delay,
         \A f \in InputFrames : r[f] = None <=> f > e
  PROVE  AdvanceContiguousRemoteFrame(r, c) = e
<1> DEFINE gaps == {f \in InputFrames : f > c /\ r[f] = None}
<1>1. gaps = {f \in InputFrames : f > e}
  <2>1. \A f \in InputFrames : f > c /\ r[f] = None <=> f > e
    BY FrameNumbers
  <2> QED  BY <2>1
<1>2. CASE e = LastFrame + Delay
  <2>1. gaps = {}
    <3>1. \A f \in InputFrames : ~(f > e)
      BY <1>2, FrameNumbers
    <3> QED  BY <1>1, <3>1
  <2> QED  BY <1>2, <2>1 DEF AdvanceContiguousRemoteFrame
<1>3. CASE e < LastFrame + Delay
  <2>1. e + 1 \in gaps /\ \A f \in gaps : e + 1 <= f
    BY <1>1, <1>3, FrameNumbers
  <2>2. gaps \in SUBSET (Epoch .. (LastFrame + Delay))
    BY DEF InputFrames
  <2> HIDE DEF gaps
  <2>3. Min(gaps) \in gaps /\ \A f \in gaps : Min(gaps) <= f
    <3>1. gaps # {} /\ Epoch \in Int /\ LastFrame + Delay \in Int
      BY <2>1, FrameNumbers
    <3> QED  BY <2>2, <3>1, MinOfInterval
  <2>4. Min(gaps) = e + 1 /\ gaps # {}
    <3>1. Min(gaps) \in Int
      <4>1. Min(gaps) \in Epoch .. (LastFrame + Delay)
        BY <2>2, <2>3
      <4> QED  BY <4>1
    <3> QED  BY <2>1, <2>3, <3>1
  <2>5. AdvanceContiguousRemoteFrame(r, c) = Min(gaps) - 1
    BY <2>4 DEF AdvanceContiguousRemoteFrame, gaps
  <2> QED  BY <2>4, <2>5
<1> QED  BY <1>2, <1>3, FrameNumbers

\* A bundle starts at the latest after the acknowledged frame and carries
\* recorded inputs only.
LEMMA BundleShape ==
  ASSUME NEW t \in Int, Epoch <= t, t <= LastFrame + Delay, NEW inputs,
         Filled(inputs, t),
         NEW k \in Acks, NEW f \in InputFrames, f <= t
  PROVE  \E a, b \in InputFrames :
            /\ [g \in UnackedFrames(inputs, k, f) |-> EntryInput(inputs, f, g)] = Recorded(a, b)
            /\ a <= k + 1 \/ a = Epoch
            /\ b <= t
<1> DEFINE first == Min(Known(inputs))
           from == FirstUnacked(inputs, k, f)
           to == Min({f, from + MaxEntries - 1})
<1>1. first = Epoch
  <2>1. Known(inputs) = Epoch .. t
    BY KnownUpTo
  <2>2. Known(inputs) \in SUBSET (Epoch .. t) /\ Known(inputs) # {}
    <3>1. Epoch \in Epoch .. t
      BY FrameNumbers
    <3> QED  BY <2>1, <3>1
  <2>3. first \in Epoch .. t /\ \A g \in Epoch .. t : first <= g
    <3>1. Epoch \in Int
      BY FrameNumbers
    <3>2. /\ Min(Known(inputs)) \in Known(inputs)
          /\ \A g \in Known(inputs) : Min(Known(inputs)) <= g
      BY <2>2, <3>1, MinOfInterval
    <3> QED  BY <2>1, <3>2
  <2> QED  BY <2>3, FrameNumbers
<1>2. from \in Int /\ Epoch <= from /\ from <= f /\ (from <= k + 1 \/ from = Epoch)
  <2>1. CASE k = NoFrame
    BY <1>1, <2>1, FrameNumbers DEF FirstUnacked
  <2>2. CASE k # NoFrame
    <3>1. from = Max({Epoch, Min({k + 1, f})})
      BY <1>1, <2>2 DEF FirstUnacked
    <3> DEFINE l == Min({k + 1, f})
    <3>2. k \in Int /\ k + 1 \in Int /\ f \in Int /\ Epoch \in Int /\ Epoch <= f
      BY FrameNumbers
    <3>3. l \in {k + 1, f} /\ l <= k + 1 /\ l <= f
      BY <3>2, MinOfTwo
    <3> HIDE DEF l
    <3>4. l \in Int
      BY <3>2, <3>3
    <3>5. Max({Epoch, l}) \in {Epoch, l} /\ Epoch <= Max({Epoch, l})
      BY <3>2, <3>4, MaxOfTwo
    <3> QED  BY <3>1, <3>2, <3>3, <3>4, <3>5 DEF l
  <2> QED  BY <2>1, <2>2
<1> HIDE DEF from
<1>3. to \in Int /\ to <= f /\ from <= to
  <2>1. f \in Int /\ from + MaxEntries - 1 \in Int
    BY <1>2, FrameNumbers
  <2>2. to \in {f, from + MaxEntries - 1} /\ to <= f
    BY <2>1, MinOfTwo
  <2> HIDE DEF to
  <2> QED  BY <1>2, <2>1, <2>2, FrameNumbers
<1> HIDE DEF to
<1>4. UnackedFrames(inputs, k, f) = from .. to
  BY DEF UnackedFrames, from, to
<1>5. \A g \in from .. to : EntryInput(inputs, f, g) = Want(g)
  <2> SUFFICES ASSUME NEW g \in from .. to PROVE EntryInput(inputs, f, g) = Want(g)
    OBVIOUS
  <2>1. g \in InputFrames /\ g <= t
    BY <1>2, <1>3, FrameNumbers
  <2> QED  BY <2>1, WantIsInput DEF EntryInput, Filled
<1>6. [g \in UnackedFrames(inputs, k, f) |-> EntryInput(inputs, f, g)] = Recorded(from, to)
  BY <1>4, <1>5 DEF Recorded
<1>7. from \in InputFrames /\ to \in InputFrames /\ to <= t
  BY <1>2, <1>3, FrameNumbers
<1> QED  BY <1>2, <1>6, <1>7

\* The k-th frame of an interval.
LEMMA KthFrame ==
  ASSUME NEW s \in Int, NEW t \in Int, NEW k \in 1 .. (t - s + 1)
  PROVE  (CHOOSE g \in s .. t : Cardinality({h \in s .. t : h < g}) = k - 1) = s + k - 1
<1>1. ASSUME NEW g \in s .. t PROVE Cardinality({h \in s .. t : h < g}) = g - s
  <2>1. \A h : h \in {i \in s .. t : i < g} <=> h \in s .. (g - 1)
    BY <1>1
  <2>2. {h \in s .. t : h < g} = s .. (g - 1)
    BY <2>1
  <2>3. Cardinality(s .. (g - 1)) = IF s > g - 1 THEN 0 ELSE (g - 1) - s + 1
    BY <1>1, FS_Interval
  <2>4. Cardinality({h \in s .. t : h < g}) = Cardinality(s .. (g - 1))
    BY <2>2, Zenon
  <2> QED  BY <1>1, <2>3, <2>4
<1>2. s + k - 1 \in s .. t
  OBVIOUS
<1>3. \A g \in s .. t : Cardinality({h \in s .. t : h < g}) = k - 1 <=> g = s + k - 1
  BY <1>1
<1> QED  BY <1>2, <1>3

\* The history a peer resends: every recorded frame from the one after the
\* Resume's on, in order.
LEMMA HistoryShape ==
  ASSUME NEW p \in Peers, NEW t \in Int, Epoch - 1 <= t, t <= LastFrame + Delay,
         Filled(local[p], t),
         NEW f \in Acks, f <= t, NEW s, s = IF f = 0 THEN Epoch ELSE f + 1
  PROVE  /\ s \in Int /\ Epoch <= s /\ s <= t + 1 /\ (f # 0 => s = f + 1)
         /\ InputsAfter(p, f) = [k \in 1 .. (t - s + 1) |-> History(s + k - 1)]
<1> DEFINE frames == {g \in Known(local[p]) : g > f}
           kth(k) == CHOOSE g \in frames : Cardinality({h \in frames : h < g}) = k - 1
<1>1. s \in Int /\ Epoch <= s /\ s <= t + 1 /\ (f # 0 => s = f + 1)
  BY FrameNumbers
<1>2. frames = s .. t
  <2>1. frames = {g \in Epoch .. t : g > f}
    BY KnownUpTo
  <2>2. \A g : g \in {h \in Epoch .. t : h > f} <=> g \in s .. t
    BY <1>1, FrameNumbers
  <2> QED  BY <2>1, <2>2
<1>3. Cardinality(frames) = t - s + 1
  <2>1. Cardinality(s .. t) = IF s > t THEN 0 ELSE t - s + 1
    BY <1>1, FS_Interval
  <2>2. Cardinality(frames) = Cardinality(s .. t)
    BY <1>2, Zenon
  <2> QED  BY <1>1, <2>1, <2>2
<1>4. ASSUME NEW k \in 1 .. (t - s + 1) PROVE kth(k) = s + k - 1
  <2>1. (CHOOSE g \in s .. t : Cardinality({h \in s .. t : h < g}) = k - 1) = s + k - 1
    BY <1>1, KthFrame
  <2> HIDE DEF frames
  <2> QED  BY <1>2, <2>1, Zenon
<1>5. ASSUME NEW k \in 1 .. (t - s + 1)
      PROVE  Input(kth(k), local[p][kth(k)]) = History(s + k - 1)
  <2>1. s + k - 1 \in InputFrames /\ s + k - 1 <= t
    BY <1>1, FrameNumbers
  <2>2. local[p][s + k - 1] = Want(s + k - 1)
    BY <2>1 DEF Filled
  <2> QED  BY <1>4, <2>2 DEF History
<1>6. InputsAfter(p, f) = [k \in 1 .. Cardinality(frames) |-> Input(kth(k), local[p][kth(k)])]
  BY DEF InputsAfter
<1> HIDE DEF frames, kth
<1>7. InputsAfter(p, f) = [k \in 1 .. (t - s + 1) |-> Input(kth(k), local[p][kth(k)])]
  BY <1>3, <1>6
<1> QED  BY <1>1, <1>5, <1>7

-----------------------------------------------------------------------------
(* What is kept while other things change *)

\* Frontiers and recorded inputs only grow.
Growing == \A p \in Peers : contig[p] <= contig'[p] /\ Top(p) <= Top(p)'

\* Nothing recorded or received changes; at most a process ends.
LEMMA TimelineKept ==
  ASSUME IInv, UNCHANGED <<frame, timeline>>,
         \A p \in Peers : pc'[p] = pc[p] \/ pc'[p] = "deadline-exceeded"
  PROVE  /\ LocalFilled' /\ RemoteFilled' /\ Acknowledged' /\ LeadBounded' /\ ResumeAccepted'
         /\ Growing
<1> USE DEF IInv, timeline
<1>1. \A p \in Peers : Top(p)' = Top(p)
  BY DEF Top
<1>2. LocalFilled'
  BY <1>1 DEF LocalFilled
<1>3. RemoteFilled'
  BY <1>1, TwoPeers DEF RemoteFilled
<1>4. Acknowledged'
  BY <1>1 DEF Acknowledged
<1>5. LeadBounded' /\ ResumeAccepted'
  BY DEF LeadBounded, ResumeAccepted
<1>6. Growing
  BY <1>1, TopRange, Frontiers DEF Growing
<1> QED  BY <1>2, <1>3, <1>4, <1>5, <1>6

\* The numbers the soundness of what is under way to q depends on.
LEMMA GrowingNumbers ==
  ASSUME TypeOK, TypeOK', Growing, NEW q \in Peers
  PROVE  /\ contig[q] \in Int /\ contig'[q] \in Int /\ contig[q] <= contig'[q]
         /\ contig[Other(q)] \in Int /\ contig'[Other(q)] \in Int
         /\ contig[Other(q)] <= contig'[Other(q)]
         /\ Top(Other(q)) \in Int /\ Top(Other(q))' \in Int /\ Top(Other(q)) <= Top(Other(q))'
<1>1. Other(q) \in Peers
  BY TwoPeers
<1> QED  BY <1>1, TopRange, Frontiers, NumbersLater DEF Growing

\* What is under way unreliably stays sound when something sound is added.
LEMMA DatagramsLater ==
  ASSUME IInv, TypeOK', Growing, datagrams' \in [Peers -> SUBSET Packets],
         \A q \in Peers : \A m \in datagrams'[q] :
             \/ m \in datagrams[q]
             \/ SoundBundle(m, contig'[q], contig'[Other(q)], Top(Other(q))')
             \/ SoundResume(m, contig'[Other(q)])
  PROVE  DatagramsSound'
<1> SUFFICES ASSUME NEW q \in Peers, NEW m \in datagrams'[q], m \in datagrams[q]
             PROVE  \/ SoundBundle(m, contig'[q], contig'[Other(q)], Top(Other(q))')
                    \/ SoundResume(m, contig'[Other(q)])
  BY DEF DatagramsSound
<1>1. \/ SoundBundle(m, contig[q], contig[Other(q)], Top(Other(q)))
      \/ SoundResume(m, contig[Other(q)])
  BY DEF IInv, DatagramsSound
<1> QED  BY <1>1, SoundLater, GrowingNumbers DEF IInv

\* What is under way reliably stays sound, where it is not dropped.
LEMMA ReliableLater ==
  ASSUME IInv, TypeOK', Growing, reliable' \in [Peers -> Seq(Packets)],
         \A q \in Peers : reliable'[q] = reliable[q] \/ reliable'[q] = << >>
  PROVE  ReliableSound'
<1> SUFFICES ASSUME NEW q \in Peers
             PROVE  SoundQueue(reliable'[q], contig'[q], contig'[Other(q)], Top(Other(q))')
  BY DEF ReliableSound
<1>1. CASE reliable'[q] = reliable[q]
  <2>1. SoundQueue(reliable[q], contig[q], contig[Other(q)], Top(Other(q)))
    BY DEF IInv, ReliableSound
  <2>2. SoundQueue(reliable[q], contig'[q], contig'[Other(q)], Top(Other(q))')
    BY <2>1, QueueLater, GrowingNumbers DEF IInv
  <2> QED  BY <1>1, <2>2
<1>2. CASE reliable'[q] = << >>
  BY <1>2 DEF SoundQueue
<1> QED  BY <1>1, <1>2

\* A datagram is added or lost.
LEMMA DatagramAdded ==
  ASSUME datagrams \in [Peers -> SUBSET Packets], NEW q \in Peers, NEW m \in Packets,
         datagrams' = Datagram(q, m)
  PROVE  /\ datagrams' \in [Peers -> SUBSET Packets]
         /\ \A r \in Peers : \A n \in datagrams'[r] : n \in datagrams[r] \/ (r = q /\ n = m)
<1>1. datagrams' = datagrams \/ datagrams' = [datagrams EXCEPT ![q] = @ \cup {m}]
  BY DEF Datagram
<1> QED  BY <1>1

\* The other parts of the invariant do not depend on datagrams.
LEMMA SessionKept ==
  ASSUME IInv, UNCHANGED <<pc, connected, validated, link, reliable>>
  PROVE  ResumeFirst' /\ LinkShape'
<1>1. ResumeFirst'
  BY DEF IInv, ResumeFirst
<1>2. LinkShape'
  BY DEF IInv, LinkShape, Running
<1> QED  BY <1>1, <1>2

-----------------------------------------------------------------------------
(* The steps *)

\* The invariant holds when the epoch has been primed.
LEMMA InitIInv == Init => IInv
<1> SUFFICES ASSUME Init PROVE IInv
  OBVIOUS
<1>1. TypeOK
  <2>1. [f \in InputFrames |-> IF f < Epoch + Delay THEN Neutral ELSE None]
          \in [InputFrames -> MaybeInputs]
    BY DEF MaybeInputs
  <2>2. frame \in [Peers -> Epoch .. LastFrame]
    BY FrameNumbers DEF Init
  <2>3. contig \in [Peers -> (Epoch - 1) .. (LastFrame + Delay)]
    BY FrameNumbers DEF Init
  <2>4. breaks \in 0 .. MaxBreaks
    BY LinkAssumption DEF Init
  <2> QED  BY <2>1, <2>2, <2>3, <2>4 DEF Init, TypeOK
<1>2. \A p \in Peers : Top(p) = Epoch + Delay - 1 /\ frame[p] = Epoch
  <2>1. Epoch + Delay \in InputFrames
    BY FrameNumbers
  <2> QED  BY <2>1, FrameNumbers DEF Init, Top
<1>3. LocalFilled
  BY <1>2, FrameNumbers DEF Init, LocalFilled, Filled, Want
<1>4. RemoteFilled
  BY <1>2, TwoPeers, FrameNumbers DEF Init, RemoteFilled, Filled, Want
<1>5. Acknowledged
  BY <1>2, TwoPeers, FrameNumbers DEF Init, Acknowledged
<1>6. DatagramsSound
  BY DEF Init, DatagramsSound
<1>7. ReliableSound
  BY DEF Init, ReliableSound, SoundQueue
<1>8. ResumeFirst /\ LinkShape
  BY DEF Init, ResumeFirst, LinkShape, Running, Peers
<1>9. ResumeAccepted
  BY DEF Init, ResumeAccepted
<1>10. LeadBounded
  BY TwoPeers, FrameNumbers DEF Init, LeadBounded
<1> QED  BY <1>1, <1>3, <1>4, <1>5, <1>6, <1>7, <1>8, <1>9, <1>10 DEF IInv

\* A bundle of what has been recorded is sound.
LEMMA SentBundle ==
  ASSUME IInv, NEW p \in Peers, NEW t \in Int, Epoch <= t, t <= LastFrame + Delay,
         NEW inputs, Filled(inputs, t),
         NEW f \in InputFrames, f <= t
  PROVE  \E a, b \in InputFrames, r \in Acks :
            /\ InputBundle(p, inputs, f) = Bundle(Recorded(a, b), r)
            /\ a <= contig[Other(p)] + 1 /\ b <= t /\ r <= contig[p]
<1> USE DEF IInv
<1>1. ack[p] \in Acks /\ ack[p] <= contig[Other(p)] /\ Other(p) \in Peers
  BY Frontiers, TwoPeers DEF Acknowledged
<1>2. PICK a \in InputFrames, b \in InputFrames :
          /\ [g \in UnackedFrames(inputs, ack[p], f) |-> EntryInput(inputs, f, g)] = Recorded(a, b)
          /\ a <= ack[p] + 1 \/ a = Epoch
          /\ b <= t
  BY <1>1, BundleShape
<1>3. a <= contig[Other(p)] + 1
  <2>1. /\ contig[Other(p)] \in Int /\ Epoch - 1 <= contig[Other(p)] /\ ack[p] \in Int
        /\ a \in Int
    BY <1>1, Frontiers, FrameNumbers
  <2> QED  BY <1>1, <1>2, <2>1, FrameNumbers
<1>4. AckToSend(p) \in Acks /\ AckToSend(p) <= contig[p]
  BY Frontiers, FrameNumbers DEF AckToSend
<1> QED  BY <1>2, <1>3, <1>4 DEF InputBundle

\* MaybeResendLatestInputForFrameLead keeps the invariant.
LEMMA ResendStep ==
  ASSUME IInv, NEW p \in Peers, ResendInput(p)
  PROVE  IInv'
<1> USE DEF IInv
<1>1. UNCHANGED <<pc, frame, timeline, session, link, reliable, breaks>>
  BY DEF ResendInput
<1>2. TypeOK'
  BY <1>1 DEF TypeOK, timeline, session
<1>3. /\ LocalFilled' /\ RemoteFilled' /\ Acknowledged' /\ LeadBounded' /\ ResumeAccepted'
      /\ Growing
  BY <1>1, TimelineKept
<1>4. ReliableSound'
  BY <1>1, <1>2, <1>3, ReliableLater DEF ReliableSound
<1>5. ResumeFirst' /\ LinkShape'
  BY <1>1, SessionKept DEF session
<1>6. DatagramsSound'
  <2> DEFINE m == InputBundle(p, local[p], lastSent[p])
  <2>1. lastSent[p] \in InputFrames /\ lastSent[p] <= Top(p)
    BY Frontiers, FrameNumbers DEF ResendInput, Acknowledged
  <2>2. Top(p) \in Int /\ Epoch <= Top(p) /\ Top(p) <= LastFrame + Delay
    <3>1. /\ Top(p) \in Int /\ Top(p) <= LastFrame + Delay
          /\ lastSent[p] \in Int /\ Epoch <= lastSent[p]
      BY <2>1, TopRange, FrameNumbers
    <3> QED  BY <2>1, <3>1, FrameNumbers
  <2>3. Filled(local[p], Top(p))
    BY DEF LocalFilled
  <2>4. PICK a \in InputFrames, b \in InputFrames, r \in Acks :
            /\ m = Bundle(Recorded(a, b), r)
            /\ a <= contig[Other(p)] + 1 /\ b <= Top(p) /\ r <= contig[p]
    BY <2>1, <2>2, <2>3, SentBundle
  <2>5. m \in Packets
    BY <2>4, PacketKinds
  <2>6. Other(p) \in Peers /\ Other(Other(p)) = p
    BY TwoPeers
  <2>7. datagrams' = Datagram(Other(p), m)
    BY DEF ResendInput
  <2> HIDE DEF m
  <2>8. /\ datagrams' \in [Peers -> SUBSET Packets]
        /\ \A r1 \in Peers : \A n \in datagrams'[r1] :
               n \in datagrams[r1] \/ (r1 = Other(p) /\ n = m)
    BY <2>5, <2>6, <2>7, DatagramAdded DEF DatagramsSound
  <2>9. contig' = contig /\ Top(p) <= Top(p)' /\ Top(p)' \in Int /\ b \in Int
    BY <1>1, <1>2, <1>3, NumbersLater, FrameNumbers DEF timeline, Growing
  <2>10. SoundBundle(m, contig'[Other(p)], contig'[p], Top(p)')
    BY <2>2, <2>4, <2>9 DEF SoundBundle
  <2> QED  BY <1>2, <1>3, <2>6, <2>8, <2>10, DatagramsLater
<1> QED  BY <1>2, <1>3, <1>4, <1>5, <1>6

\* The Resume a peer sends is sound.
LEMMA SentResume ==
  ASSUME IInv, NEW p \in Peers
  PROVE  /\ ResumeFrame(p) \in Acks /\ ResumeFrame(p) <= contig[p]
         /\ Resume(ResumeFrame(p)) \in Packets
         /\ SoundResume(Resume(ResumeFrame(p)), contig[p])
<1>1. ResumeFrame(p) \in Acks /\ ResumeFrame(p) <= contig[p]
  BY Frontiers, FrameNumbers DEF ResumeFrame, IInv
<1> QED  BY <1>1, PacketKinds DEF SoundResume

\* The periodic Resume keeps the invariant.
LEMMA SendResumeStep ==
  ASSUME IInv, NEW p \in Peers, SendResume(p)
  PROVE  IInv'
<1> USE DEF IInv
<1>1. UNCHANGED <<pc, frame, timeline, session, link, reliable, breaks>>
  BY DEF SendResume
<1>2. TypeOK'
  BY <1>1 DEF TypeOK, timeline, session
<1>3. /\ LocalFilled' /\ RemoteFilled' /\ Acknowledged' /\ LeadBounded' /\ ResumeAccepted'
      /\ Growing
  BY <1>1, TimelineKept
<1>4. ReliableSound'
  BY <1>1, <1>2, <1>3, ReliableLater DEF ReliableSound
<1>5. ResumeFirst' /\ LinkShape'
  BY <1>1, SessionKept DEF session
<1>6. DatagramsSound'
  <2> DEFINE m == Resume(ResumeFrame(p))
  <2>1. Other(p) \in Peers /\ Other(Other(p)) = p
    BY TwoPeers
  <2>2. m \in Packets /\ SoundResume(m, contig[p])
    BY SentResume
  <2>3. datagrams' = Datagram(Other(p), m)
    BY DEF SendResume
  <2> HIDE DEF m
  <2>4. /\ datagrams' \in [Peers -> SUBSET Packets]
        /\ \A q \in Peers : \A n \in datagrams'[q] :
               n \in datagrams[q] \/ (q = Other(p) /\ n = m)
    BY <2>1, <2>2, <2>3, DatagramAdded DEF DatagramsSound
  <2>5. SoundResume(m, contig'[p])
    BY <1>1, <2>2 DEF timeline
  <2> QED  BY <1>2, <1>3, <2>1, <2>4, <2>5, DatagramsLater
<1> QED  BY <1>2, <1>3, <1>4, <1>5, <1>6

\* A lost datagram and a stall at the gate keep the invariant.
LEMMA QuietStep ==
  ASSUME IInv, NEW p \in Peers, LoseDatagram(p) \/ StallAtGate(p) \/ UNCHANGED vars
  PROVE  IInv'
<1> USE DEF IInv
<1>1. UNCHANGED <<pc, frame, timeline, connected, validated, link, reliable, breaks>>
  BY DEF LoseDatagram, StallAtGate, vars, session, network
<1>2. recovering' \in [Peers -> BOOLEAN]
  <2>1. recovering' = recovering \/ recovering' = [recovering EXCEPT ![p] = TRUE]
    BY DEF LoseDatagram, StallAtGate, vars, session
  <2>2. recovering \in [Peers -> BOOLEAN]
    BY DEF TypeOK
  <2> QED  BY <2>1, <2>2, Zenon
<1>3. TypeOK'
  BY <1>1, <1>2 DEF TypeOK, timeline
<1>4. /\ LocalFilled' /\ RemoteFilled' /\ Acknowledged' /\ LeadBounded' /\ ResumeAccepted'
      /\ Growing
  BY <1>1, TimelineKept
<1>5. ReliableSound'
  BY <1>1, <1>3, <1>4, ReliableLater DEF ReliableSound
<1>6. ResumeFirst' /\ LinkShape'
  BY <1>1, SessionKept
<1>7. DatagramsSound'
  <2>1. /\ datagrams' \in [Peers -> SUBSET Packets]
        /\ \A q \in Peers : \A n \in datagrams'[q] : n \in datagrams[q]
    BY DEF DatagramsSound, LoseDatagram, StallAtGate, vars, network
  <2> QED  BY <1>3, <1>4, <2>1, DatagramsLater
<1> QED  BY <1>3, <1>4, <1>5, <1>6, <1>7

\* Recording and sending the frame's input keeps the invariant.
LEMMA SendInputStep ==
  ASSUME IInv, NEW p \in Peers, SendInput(p)
  PROVE  IInv'
<1> USE DEF IInv
<1> DEFINE f == frame[p] + Delay
           m == InputBundle(p, local'[p], f)
<1>1. /\ pc[p] = "send" /\ pc' = [pc EXCEPT ![p] = "gate"]
      /\ local' = [local EXCEPT ![p][f] = f]
      /\ UNCHANGED <<frame, remote, contig, ack, connected, validated, recovering, link,
                     reliable, breaks>>
  BY DEF SendInput, session, PlayerInput
<1>2. f \in InputFrames /\ f \in Int /\ Epoch <= f /\ f <= LastFrame + Delay /\ f >= Epoch + Delay
  BY TopRange, FrameNumbers
<1>3. \/ UNCHANGED <<lastSent, datagrams>>
      \/ lastSent' = [lastSent EXCEPT ![p] = f] /\ datagrams' = Datagram(Other(p), m)
  BY DEF SendInput
<1> HIDE DEF m
<1>4. TypeOK'
  <2>1. lastSent' \in [Peers -> InputFrames \cup {NoFrame}]
    BY <1>2, <1>3 DEF TypeOK
  <2>2. local' \in [Peers -> [InputFrames -> MaybeInputs]]
    BY <1>1, <1>2 DEF TypeOK, MaybeInputs
  <2>3. pc' \in [Peers -> {"send", "gate", "result", "future-input-ack",
                         "input-history-missing", "deadline-exceeded"}]
    BY <1>1 DEF TypeOK
  <2> QED  BY <1>1, <2>1, <2>2, <2>3 DEF TypeOK
<1>5. /\ Top(p) = f - 1 /\ Top(p)' = f /\ Filled(local'[p], f)
      /\ Top(Other(p))' = Top(Other(p)) /\ local'[Other(p)] = local[Other(p)]
  <2>1. Top(p) = f - 1 /\ Filled(local[p], f - 1)
    <3>1. pc[p] = "send"
      BY <1>1
    <3>2. Filled(local[p], Top(p)) /\ Top(p) = frame[p] + Delay - 1
      BY <3>1 DEF LocalFilled
    <3>3. Top(p) = f - 1
      BY <3>2, TopRange, FrameNumbers
    <3> HIDE DEF f
    <3> QED  BY <3>2, <3>3, Zenon
  <2>2. local'[p] = [local[p] EXCEPT ![f] = f] /\ local[p] \in [InputFrames -> MaybeInputs]
    BY <1>1 DEF TypeOK
  <2>3. local'[p][f] = f /\ f # None
    BY <1>2, <2>2, InputAssumption
  <2>4. Filled(local'[p], f)
    <3> SUFFICES ASSUME NEW g \in InputFrames
                 PROVE  local'[p][g] = IF g <= f THEN Want(g) ELSE None
      BY DEF Filled
    <3>1. CASE g = f
      BY <1>2, <2>3, <3>1, FrameNumbers DEF Want, PlayerInput
    <3>2. CASE g # f
      <4>1. local'[p][g] = local[p][g]
        BY <2>2, <3>2, <1>2
      <4>2. g \in Int /\ (g <= f <=> g <= f - 1)
        BY <3>2, <1>2, FrameNumbers
      <4> QED  BY <2>1, <4>1, <4>2 DEF Filled
    <3> QED  BY <3>1, <3>2
  <2>5. Other(p) \in Peers /\ Other(p) # p
    BY TwoPeers
  <2>6. local'[Other(p)] = local[Other(p)]
    BY <1>1, <2>5 DEF TypeOK
  <2> QED  BY <1>1, <2>1, <2>3, <2>4, <2>5, <2>6 DEF Top
<1>6. Growing
  <2> SUFFICES ASSUME NEW q \in Peers PROVE contig[q] <= contig'[q] /\ Top(q) <= Top(q)'
    BY DEF Growing
  <2>1. contig[q] <= contig'[q]
    BY <1>1, Frontiers
  <2>2. q = p \/ q = Other(p)
    BY TwoPeers
  <2> HIDE DEF f
  <2> QED  BY <1>2, <1>5, <2>1, <2>2, TopRange
<1>7. LocalFilled'
  <2>1. ASSUME NEW q \in Peers, q # p
        PROVE  Filled(local'[q], Top(q)') /\ pc'[q] = pc[q] /\ Top(q)' = Top(q)
    BY <1>1, <1>5, <2>1, TwoPeers DEF LocalFilled, TypeOK
  <2>2. pc'[p] = "gate" /\ Filled(local'[p], Top(p)') /\ Top(p)' = frame'[p] + Delay
    BY <1>1, <1>5 DEF TypeOK
  <2> QED  BY <1>1, <2>1, <2>2 DEF LocalFilled
<1>8. RemoteFilled'
  <2> SUFFICES ASSUME NEW q \in Peers
               PROVE  contig[q] <= Top(Other(q))'
    BY <1>1 DEF RemoteFilled
  <2>1. contig[q] <= Top(Other(q)) /\ Other(q) \in Peers
    BY TwoPeers DEF RemoteFilled
  <2> QED  BY <1>4, <1>6, <2>1, TopRange, NumbersLater, Frontiers DEF Growing
<1>9. Acknowledged'
  <2> SUFFICES ASSUME NEW q \in Peers PROVE lastSent'[q] <= Top(q)'
    BY <1>1 DEF Acknowledged
  <2>1. lastSent[q] <= Top(q)
    BY DEF Acknowledged
  <2>2. lastSent'[q] = lastSent[q] \/ (q = p /\ lastSent'[q] = f)
    BY <1>3 DEF TypeOK
  <2>3. lastSent[q] <= Top(q)'
    BY <1>4, <1>6, <2>1, TopRange, NumbersLater, Frontiers DEF Growing
  <2> QED  BY <1>2, <1>5, <2>2, <2>3
<1>10. LeadBounded' /\ ResumeAccepted'
  BY <1>1 DEF LeadBounded, ResumeAccepted, TypeOK
<1>11. ReliableSound'
  BY <1>1, <1>4, <1>6, ReliableLater DEF ReliableSound
<1>12. ResumeFirst' /\ LinkShape'
  <2>1. ResumeFirst'
    BY <1>1 DEF ResumeFirst
  <2>2. \A q \in Peers : Running(q)' <=> Running(q)
    BY <1>1 DEF Running, TypeOK
  <2> QED  BY <1>1, <2>1, <2>2 DEF LinkShape
<1>13. DatagramsSound'
  <2>1. CASE UNCHANGED datagrams
    BY <1>4, <1>6, <2>1, DatagramsLater DEF DatagramsSound
  <2>2. CASE datagrams' = Datagram(Other(p), m)
    <3>1. PICK a \in InputFrames, b \in InputFrames, r \in Acks :
              /\ m = Bundle(Recorded(a, b), r)
              /\ a <= contig[Other(p)] + 1 /\ b <= f /\ r <= contig[p]
      BY <1>2, <1>5, SentBundle DEF m
    <3>2. m \in Packets
      BY <3>1, PacketKinds
    <3>3. Other(p) \in Peers /\ Other(Other(p)) = p
      BY TwoPeers
    <3>4. /\ datagrams' \in [Peers -> SUBSET Packets]
          /\ \A q \in Peers : \A n \in datagrams'[q] :
                 n \in datagrams[q] \/ (q = Other(p) /\ n = m)
      BY <2>2, <3>2, <3>3, DatagramAdded DEF DatagramsSound
    <3>5. SoundBundle(m, contig'[Other(p)], contig'[p], Top(p)')
      BY <1>1, <1>5, <3>1 DEF SoundBundle
    <3> QED  BY <1>4, <1>6, <3>3, <3>4, <3>5, DatagramsLater
  <2> QED  BY <1>3, <2>1, <2>2
<1> QED  BY <1>4, <1>7, <1>8, <1>9, <1>10, <1>11, <1>12, <1>13

\* Passing the gate keeps the invariant: the horizon limits the lead.
LEMMA PassGateStep ==
  ASSUME IInv, NEW p \in Peers, PassGate(p)
  PROVE  IInv'
<1> USE DEF IInv
<1>1. /\ pc[p] = "gate" /\ GateOpen(p)
      /\ UNCHANGED <<timeline, connected, validated, link, reliable, datagrams, breaks>>
  BY DEF PassGate, network
<1>2. \/ /\ frame[p] < LastFrame /\ frame' = [frame EXCEPT ![p] = @ + 1]
         /\ pc' = [pc EXCEPT ![p] = "send"]
      \/ frame' = frame /\ pc' = [pc EXCEPT ![p] = AfterLastFrame]
  BY DEF PassGate
<1>3. AfterLastFrame \in {"gate", "result"}
  BY DEF AfterLastFrame
<1>4. TypeOK'
  <2>1. recovering' \in [Peers -> BOOLEAN]
    <3>1. recovering' = [recovering EXCEPT ![p] = FALSE]
      BY DEF PassGate, CompleteRecovery
    <3>2. recovering \in [Peers -> BOOLEAN]
      BY DEF TypeOK
    <3> QED  BY <3>1, <3>2, Zenon
  <2>2. frame' \in [Peers -> Epoch .. LastFrame]
    BY <1>2, FrameNumbers DEF TypeOK
  <2>3. pc' \in [Peers -> {"send", "gate", "result", "future-input-ack",
                         "input-history-missing", "deadline-exceeded"}]
    BY <1>2, <1>3 DEF TypeOK
  <2> QED  BY <1>1, <2>1, <2>2, <2>3 DEF TypeOK, timeline
<1>5. Top(p) = frame[p] + Delay
  BY <1>1 DEF LocalFilled
<1>6. ASSUME NEW q \in Peers PROVE Top(q)' = Top(q)
  <2>1. CASE frame'[q] = frame[q]
    BY <1>1, <2>1 DEF Top, timeline
  <2>2. CASE frame'[q] # frame[q]
    <3>1. q = p /\ frame'[p] = frame[p] + 1 /\ frame[p] < LastFrame
      BY <1>2, <2>2 DEF TypeOK
    <3>2. frame[p] + 1 + Delay \in InputFrames /\ ~(frame[p] + 1 + Delay <= Top(p))
      BY <1>5, <3>1, TopRange, FrameNumbers
    <3>3. local'[p][frame'[p] + Delay] = None
      <4>1. local[p][frame[p] + 1 + Delay] = None
        BY <3>2 DEF LocalFilled, Filled
      <4> QED  BY <1>1, <3>1, <4>1 DEF timeline
    <3>4. Top(p)' = frame'[p] + Delay - 1
      BY <3>3 DEF Top
    <3> QED  BY <1>5, <3>1, <3>4, TopRange, FrameNumbers
  <2> QED  BY <2>1, <2>2
<1>7. Growing
  BY <1>1, <1>6, TopRange, Frontiers DEF Growing, timeline
<1>8. LocalFilled'
  <2> SUFFICES ASSUME NEW q \in Peers
               PROVE  /\ Filled(local'[q], Top(q)')
                      /\ pc'[q] = "send" => Top(q)' = frame'[q] + Delay - 1
                      /\ pc'[q] \in {"gate", "result"} => Top(q)' = frame'[q] + Delay
    BY DEF LocalFilled
  <2>1. Filled(local'[q], Top(q)')
    BY <1>1, <1>6 DEF LocalFilled, timeline
  <2>2. CASE q # p
    BY <1>2, <1>6, <2>1, <2>2 DEF LocalFilled, TypeOK
  <2>3. CASE q = p
    <3>1. CASE frame'[p] = frame[p] + 1 /\ pc'[p] = "send"
      BY <1>5, <1>6, <2>1, <2>3, <3>1, TopRange, FrameNumbers
    <3>2. CASE frame'[p] = frame[p] /\ pc'[p] = AfterLastFrame
      BY <1>3, <1>5, <1>6, <2>1, <2>3, <3>2
    <3> QED  BY <1>2, <3>1, <3>2 DEF TypeOK
  <2> QED  BY <2>2, <2>3
<1>9. RemoteFilled' /\ Acknowledged'
  BY <1>1, <1>6, TwoPeers DEF RemoteFilled, Acknowledged, timeline
<1>10. ResumeAccepted'
  BY <1>2, <1>3 DEF ResumeAccepted, TypeOK
<1>11. LeadBounded'
  <2> SUFFICES ASSUME NEW q \in Peers
               PROVE  frame'[q] <= frame'[Other(q)] + Delay + Horizon + 1
    BY DEF LeadBounded
  <2>1. /\ Other(q) \in Peers /\ Other(q) # q
        /\ frame[q] \in Int /\ frame[Other(q)] \in Int
        /\ frame[q] <= frame[Other(q)] + Delay + Horizon + 1
    BY TwoPeers, TopRange DEF LeadBounded
  <2>2. CASE q # p
    <3>1. frame'[q] = frame[q] /\ frame'[Other(q)] \in {frame[Other(q)], frame[Other(q)] + 1}
      BY <1>2, <2>1, <2>2 DEF TypeOK
    <3> QED  BY <2>1, <3>1, FrameNumbers
  <2>3. CASE q = p
    <3>1. frame'[Other(q)] = frame[Other(q)] /\ frame'[q] \in {frame[q], frame[q] + 1}
      BY <1>2, <2>1, <2>3 DEF TypeOK
    <3>2. frame[q] - contig[q] <= Horizon
      BY <1>1, <2>1, <2>3, Frontiers, FrameNumbers
      DEF GateOpen, UnconfirmedRemoteFrameCountThrough
    <3>3. contig[q] <= Top(Other(q)) /\ Top(Other(q)) <= frame[Other(q)] + Delay
      BY <2>1, TopRange DEF RemoteFilled
    <3>4. contig[q] \in Int /\ Top(Other(q)) \in Int
      BY <2>1, TopRange, Frontiers
    <3> QED  BY <2>1, <3>1, <3>2, <3>3, <3>4, FrameNumbers
  <2> QED  BY <2>2, <2>3
<1>12. ReliableSound'
  BY <1>1, <1>4, <1>7, ReliableLater DEF ReliableSound
<1>13. DatagramsSound'
  BY <1>1, <1>4, <1>7, DatagramsLater DEF DatagramsSound
<1>14. ResumeFirst' /\ LinkShape'
  <2>1. ResumeFirst'
    BY <1>1 DEF ResumeFirst
  <2>2. \A q \in Peers : Running(q)' <=> Running(q)
    BY <1>1, <1>2, <1>3 DEF Running, TypeOK
  <2> QED  BY <1>1, <2>1, <2>2 DEF LinkShape
<1> QED  BY <1>4, <1>8, <1>9, <1>10, <1>11, <1>12, <1>13, <1>14

\* One side of the connection goes, because it broke or because its process
\* gives up.
LEMMA DropStep ==
  ASSUME IInv, TypeOK', NEW p \in Peers, DropSide(p), UNCHANGED <<frame, timeline>>,
         \A q \in Peers : pc'[q] = pc[q] \/ pc'[q] = "deadline-exceeded",
         \A q \in Peers : q # p => validated'[q] = validated[q],
         ~Running(p)' \/ ~validated'[p]
  PROVE  IInv'
<1> USE DEF IInv
<1>1. /\ LocalFilled' /\ RemoteFilled' /\ Acknowledged' /\ LeadBounded' /\ ResumeAccepted'
      /\ Growing
  BY TimelineKept
<1>2. DatagramsSound'
  <2>1. /\ datagrams' \in [Peers -> SUBSET Packets]
        /\ \A q \in Peers : \A n \in datagrams'[q] : n \in datagrams[q]
    BY DEF DropSide, DatagramsSound
  <2> QED  BY <1>1, <2>1, DatagramsLater
<1>3. /\ reliable' \in [Peers -> Seq(Packets)]
      /\ \A q \in Peers : reliable'[q] = reliable[q] \/ reliable'[q] = << >>
      /\ reliable'[p] = << >>
  <2>1. << >> \in Seq(Packets)
    BY EmptySeq
  <2> QED  BY <2>1 DEF DropSide, ReliableSound
<1>4. ReliableSound'
  BY <1>1, <1>3, ReliableLater
<1>5. ResumeFirst'
  <2> SUFFICES ASSUME NEW q \in Peers, ~validated'[q] PROVE ResumeBefore(reliable'[q])
    BY DEF ResumeFirst, DropSide
  <2>1. CASE reliable'[q] = << >>
    BY <2>1 DEF ResumeBefore
  <2>2. CASE reliable'[q] # << >>
    BY <1>3, <2>2 DEF ResumeFirst
  <2> QED  BY <2>1, <2>2
<1>6. LinkShape'
  <2>1. /\ connected' = [connected EXCEPT ![p] = FALSE] /\ connected \in [Peers -> BOOLEAN]
        /\ link' = IF connected[Other(p)] THEN "broken" ELSE "down"
    BY DEF DropSide, TypeOK
  <2>2. /\ link' = "up" => connected'["host"] /\ connected'["client"]
        /\ link' = "half" => connected'["client"] /\ ~connected'["host"]
        /\ link' = "down" => ~connected'["client"] /\ ~connected'["host"]
        /\ link' = "broken" => connected'["client"] # connected'["host"]
    BY <2>1 DEF Peers, Other
  <2>3. ASSUME NEW q \in Peers, Running(q)', ~connected'[q] PROVE ~validated'[q]
    <3>1. CASE q = p
      BY <2>3, <3>1
    <3>2. CASE q # p
      <4>1. Running(q) /\ connected'[q] = connected[q]
        BY <2>1, <2>3, <3>2 DEF Running
      <4> QED  BY <2>3, <3>2, <4>1 DEF LinkShape
    <3> QED  BY <3>1, <3>2
  <2> QED  BY <2>2, <2>3 DEF LinkShape
<1> QED  BY <1>1, <1>2, <1>4, <1>5, <1>6

\* A DISCONNECT event keeps the invariant.
LEMMA DisconnectStep ==
  ASSUME IInv, NEW p \in Peers, Disconnect(p)
  PROVE  IInv'
<1>1. /\ DropSide(p) /\ UNCHANGED <<pc, frame, timeline>>
      /\ connected' = [connected EXCEPT ![p] = FALSE]
      /\ validated' = [validated EXCEPT ![p] = FALSE]
      /\ recovering' = [recovering EXCEPT ![p] = TRUE]
      /\ link' \in {"broken", "down"}
      /\ breaks' = breaks \/ (breaks < MaxBreaks /\ breaks' = breaks + 1)
  BY DEF Disconnect, DropSide
<1>2. TypeOK
  BY DEF IInv
<1>3. /\ connected' \in [Peers -> BOOLEAN] /\ validated' \in [Peers -> BOOLEAN]
      /\ recovering' \in [Peers -> BOOLEAN]
  <2>1. /\ connected \in [Peers -> BOOLEAN] /\ validated \in [Peers -> BOOLEAN]
        /\ recovering \in [Peers -> BOOLEAN]
    BY <1>2 DEF TypeOK
  <2> QED  BY <1>1, <2>1, Zenon
<1>4. breaks' \in 0 .. MaxBreaks
  BY <1>1, <1>2, LinkAssumption DEF TypeOK
<1>5. TypeOK'
  BY <1>1, <1>2, <1>3, <1>4 DEF TypeOK, timeline
<1>6. /\ \A q \in Peers : q # p => validated'[q] = validated[q]
      /\ ~validated'[p]
  BY <1>1, <1>2 DEF TypeOK
<1> QED  BY <1>1, <1>5, <1>6, DropStep

\* Giving up a recovery keeps the invariant.
LEMMA GiveUpStep ==
  ASSUME IInv, NEW p \in Peers, GiveUp(p)
  PROVE  IInv'
<1> USE DEF IInv
<1>1. /\ UNCHANGED <<frame, timeline, validated, recovering, breaks>>
      /\ pc' = [pc EXCEPT ![p] = "deadline-exceeded"]
  BY DEF GiveUp
<1>2. /\ \A q \in Peers : pc'[q] = pc[q] \/ pc'[q] = "deadline-exceeded"
      /\ ~Running(p)' /\ \A q \in Peers : q # p => pc'[q] = pc[q]
      /\ pc' \in [Peers -> {"send", "gate", "result", "future-input-ack",
                            "input-history-missing", "deadline-exceeded"}]
  BY <1>1 DEF TypeOK, Running
<1>3. CASE connected[p]
  <2>1. DropSide(p)
    BY <1>3 DEF GiveUp
  <2>2. connected' \in [Peers -> BOOLEAN]
    <3>1. connected' = [connected EXCEPT ![p] = FALSE] /\ connected \in [Peers -> BOOLEAN]
      BY <2>1 DEF DropSide, TypeOK
    <3> QED  BY <3>1, Zenon
  <2>3. link' \in {"broken", "down"}
    BY <2>1 DEF DropSide
  <2>4. TypeOK'
    BY <1>1, <1>2, <2>2, <2>3 DEF TypeOK, timeline
  <2> QED  BY <1>1, <1>2, <2>1, <2>4, DropStep
<1>4. CASE ~connected[p]
  <2>1. UNCHANGED <<connected, link, reliable, datagrams>>
    BY <1>4 DEF GiveUp
  <2>2. TypeOK'
    BY <1>1, <1>2, <2>1 DEF TypeOK, timeline
  <2>3. /\ LocalFilled' /\ RemoteFilled' /\ Acknowledged' /\ LeadBounded' /\ ResumeAccepted'
        /\ Growing
    BY <1>1, <1>2, TimelineKept
  <2>4. ReliableSound'
    BY <2>1, <2>2, <2>3, ReliableLater DEF ReliableSound
  <2>5. DatagramsSound'
    BY <2>1, <2>2, <2>3, DatagramsLater DEF DatagramsSound
  <2>6. ResumeFirst'
    BY <1>1, <2>1 DEF ResumeFirst
  <2>7. LinkShape'
    <3>1. \A q \in Peers : Running(q)' => Running(q)
      BY <1>2 DEF Running
    <3> QED  BY <1>1, <2>1, <3>1 DEF LinkShape
  <2> QED  BY <2>2, <2>3, <2>4, <2>5, <2>6, <2>7
<1> QED  BY <1>3, <1>4

\* A CONNECT event keeps the invariant: the Resume goes first.
LEMMA ConnectStep ==
  ASSUME IInv, NEW p \in Peers, Connect(p)
  PROVE  IInv'
<1> USE DEF IInv
<1> DEFINE q == Other(p)
           m == Resume(ResumeFrame(p))
<1>1. /\ UNCHANGED <<pc, frame, timeline, datagrams, breaks>>
      /\ Running(p) /\ Running(q) /\ ~connected[p]
      /\ connected' = [connected EXCEPT ![p] = TRUE]
      /\ validated' = [validated EXCEPT ![p] = FALSE]
      /\ recovering' = [recovering EXCEPT ![p] = TRUE]
      /\ reliable' = [reliable EXCEPT ![q] = Append(@, m)]
      /\ \/ p = "client" /\ link = "down" /\ link' = "half"
         \/ p = "host" /\ link = "half" /\ link' = "up"
  BY DEF Connect
<1>2. q \in Peers /\ q # p /\ Other(q) = p /\ \A r \in Peers : r = p \/ r = q
  BY TwoPeers
<1>3. TypeOK'
  <2>1. /\ connected' \in [Peers -> BOOLEAN] /\ validated' \in [Peers -> BOOLEAN]
        /\ recovering' \in [Peers -> BOOLEAN]
    <3>1. /\ connected \in [Peers -> BOOLEAN] /\ validated \in [Peers -> BOOLEAN]
          /\ recovering \in [Peers -> BOOLEAN]
      BY DEF TypeOK
    <3> QED  BY <1>1, <3>1, Zenon
  <2> QED  BY <1>1, <2>1 DEF TypeOK, timeline
<1>4. /\ LocalFilled' /\ RemoteFilled' /\ Acknowledged' /\ LeadBounded' /\ ResumeAccepted'
      /\ Growing
  BY <1>1, TimelineKept
<1>5. DatagramsSound'
  BY <1>1, <1>3, <1>4, DatagramsLater DEF DatagramsSound
<1>6. m \in Packets /\ SoundResume(m, contig[p]) /\ m.kind = "resume"
  BY SentResume, ResumeFields
<1> HIDE DEF m, q
<1>7. /\ reliable \in [Peers -> Seq(Packets)] /\ reliable[q] \in Seq(Packets)
      /\ <<m>> \in Seq(Packets) /\ Len(<<m>>) = 1 /\ <<m>>[1] = m
  BY <1>2, <1>6 DEF ReliableSound
<1>8. /\ reliable'[q] = reliable[q] \o <<m>> /\ reliable'[p] = reliable[p]
      /\ reliable' \in [Peers -> Seq(Packets)]
  <2>1. Append(reliable[q], m) = reliable[q] \o <<m>> /\ Append(reliable[q], m) \in Seq(Packets)
    BY <1>6, <1>7, AppendProperties, AppendIsConcat
  <2> QED  BY <1>1, <1>2, <1>7, <2>1
<1>9. ReliableSound'
  <2>1. /\ contig'[q] \in Int /\ contig'[p] \in Int /\ Top(p)' \in Int
        /\ contig' = contig
    BY <1>1, <1>2, <1>3, NumbersLater DEF timeline
  <2>2. SoundQueue(reliable[q], contig'[q], contig'[p], Top(p)')
    BY <1>2, <1>3, <1>4, QueueLater, GrowingNumbers DEF ReliableSound
  <2>3. SoundQueue(<<m>>, contig'[q], contig'[p], Top(p)')
    <3>1. \A g : m # History(g)
      BY <1>6, HistoryFields
    <3> QED  BY <1>6, <1>7, <2>1, <3>1 DEF SoundQueue
  <2>4. SoundQueue(reliable'[q], contig'[q], contig'[p], Top(p)')
    BY <1>7, <1>8, <2>2, <2>3, QueueAppended
  <2>5. SoundQueue(reliable'[p], contig'[p], contig'[q], Top(q)')
    <3>1. SoundQueue(reliable[p], contig[p], contig[q], Top(q))
      BY DEF ReliableSound, q
    <3>2. SoundQueue(reliable[p], contig'[p], contig'[q], Top(q)')
      BY <1>3, <1>4, <3>1, QueueLater, GrowingNumbers DEF q
    <3> QED  BY <1>8, <3>2
  <2> QED  BY <1>2, <1>8, <2>4, <2>5 DEF ReliableSound, q
<1>10. /\ ~connected[p] /\ ~validated[p] /\ ~validated'[p] /\ validated'[q] = validated[q]
       /\ connected'[p] /\ connected'[q] = connected[q]
  BY <1>1, <1>2 DEF LinkShape, TypeOK
<1>11. ResumeFirst'
  <2>1. ASSUME ~validated'[q]
        PROVE  ResumeBefore(reliable'[q]) /\ ResumeWithin(reliable'[q], Len(reliable'[q]))
    <3>1. ResumeBefore(reliable[q])
      BY <1>2, <1>10, <2>1 DEF ResumeFirst
    <3>2. ResumeBefore(reliable'[q])
      <4>1. \A k \in 1 .. Len(<<m>>) : <<m>>[k].kind # "input"
        BY <1>6, <1>7
      <4>2. ResumeBefore(reliable[q] \o <<m>>)
        BY <1>7, <3>1, <4>1, ResumeAppended
      <4> QED  BY <1>8, <4>2
    <3>3. /\ Len(reliable'[q]) = Len(reliable[q]) + 1 /\ Len(reliable[q]) \in Nat
          /\ reliable'[q][Len(reliable[q]) + 1] = m
      BY <1>7, <1>8, ConcatProperties, LenProperties
    <3> QED  BY <1>6, <3>2, <3>3 DEF ResumeWithin
  <2>2. ResumeBefore(reliable'[p])
    BY <1>8, <1>10 DEF ResumeFirst
  <2>3. ASSUME connected'[q] PROVE ResumeWithin(reliable'[p], Len(reliable'[p]))
    <3>1. link = "half"
      BY <1>1, <1>10, <2>3 DEF LinkShape, q, Other
    <3> QED  BY <1>8, <1>10, <2>3, <3>1 DEF ResumeFirst, q
  <2> QED  BY <1>2, <2>1, <2>2, <2>3 DEF ResumeFirst, q
<1>12. LinkShape'
  <2>1. /\ link' = "up" => connected'["host"] /\ connected'["client"]
        /\ link' = "half" => connected'["client"] /\ ~connected'["host"]
        /\ link' = "down" => ~connected'["client"] /\ ~connected'["host"]
        /\ link' = "broken" => connected'["client"] # connected'["host"]
    BY <1>1, <1>10 DEF LinkShape, q, Other
  <2>2. ASSUME NEW r \in Peers, Running(r)', ~connected'[r] PROVE ~validated'[r]
    <3>1. r = q /\ Running(q)
      BY <1>1, <1>2, <1>10, <2>2 DEF Running
    <3> QED  BY <1>2, <1>10, <2>2, <3>1 DEF LinkShape
  <2> QED  BY <2>1, <2>2 DEF LinkShape
<1> QED  BY <1>3, <1>4, <1>5, <1>9, <1>11, <1>12

-----------------------------------------------------------------------------
(* Receiving *)

\* HandleReceivedInputBundle fills RemoteInputs up to the last entry at least and
\* takes over an acknowledgement.
LEMMA InputsReceived ==
  ASSUME IInv, NEW p \in Peers, NEW m, NEW a \in InputFrames, NEW b \in InputFrames, NEW r \in Acks,
         m.entries = Recorded(a, b), m.frame = r,
         a <= contig[p] + 1, b <= Top(Other(p)), r <= contig[Other(p)],
         ReceiveInputs(p, m), UNCHANGED <<frame, connected, recovering, link, breaks>>
  PROVE  /\ TypeOK' /\ LocalFilled' /\ RemoteFilled' /\ Acknowledged' /\ LeadBounded'
         /\ ResumeAccepted' /\ Growing
         /\ b <= contig'[p] /\ UNCHANGED <<pc, local, lastSent, validated>>
<1> USE DEF IInv
<1> DEFINE o == Other(p)
           e == IF contig[p] < b THEN b ELSE contig[p]
           new == [f \in InputFrames |-> IF f \in DOMAIN m.entries THEN m.entries[f]
                                         ELSE remote[p][f]]
<1>1. /\ o \in Peers /\ o # p /\ \A q \in Peers : q = p \/ q = o
      /\ contig[p] \in Int /\ Epoch - 1 <= contig[p] /\ contig[p] <= LastFrame + Delay
      /\ contig[o] \in Int /\ ack[p] \in Acks /\ ack[p] \in Int /\ ack[p] <= contig[o]
      /\ Top(o) \in Int /\ Top(o) <= LastFrame + Delay /\ contig[p] <= Top(o)
      /\ a \in Int /\ Epoch <= a /\ b \in Int /\ r \in Int
  BY TwoPeers, Frontiers, TopRange, FrameNumbers DEF Acknowledged, RemoteFilled
<1>2. /\ UNCHANGED <<pc, local, lastSent, validated>>
      /\ remote' = [remote EXCEPT ![p] = new]
      /\ contig' = [contig EXCEPT ![p] = AdvanceContiguousRemoteFrame(remote'[p], @)]
      /\ ack' = [ack EXCEPT ![p] = RecordRemoteAck(p, r)]
  BY DEF ReceiveInputs
<1>3. e \in Int /\ contig[p] <= e /\ b <= e /\ e <= Top(o) /\ Epoch - 1 <= e /\ e <= LastFrame + Delay
  BY <1>1, FrameNumbers
<1>4. ASSUME NEW f \in InputFrames
      PROVE  new[f] = IF f <= e THEN Want(f) ELSE None
  <2>1. DOMAIN m.entries = a .. b /\ \A g \in a .. b : m.entries[g] = Want(g)
    BY DEF Recorded
  <2>2. remote[p][f] = IF f <= contig[p] THEN Want(f) ELSE None
    BY DEF RemoteFilled, Filled
  <2>3. new[f] = IF f \in a .. b THEN Want(f) ELSE remote[p][f]
    BY <2>1
  <2>4. f \in Int
    BY FrameNumbers
  <2> HIDE DEF new
  <2>5. CASE f <= e
    BY <1>1, <2>2, <2>3, <2>4, <2>5
  <2>6. CASE ~(f <= e)
    BY <1>1, <2>2, <2>3, <2>4, <2>6
  <2> QED  BY <2>5, <2>6
<1> HIDE DEF e, new
<1>5. remote'[p] = new /\ remote'[o] = remote[o]
  BY <1>1, <1>2 DEF TypeOK
<1>6. Filled(remote'[p], e)
  BY <1>4, <1>5 DEF Filled
<1>7. contig'[p] = e /\ contig'[o] = contig[o]
  <2>1. \A f \in InputFrames : remote'[p][f] = None <=> f > e
    <3> SUFFICES ASSUME NEW f \in InputFrames PROVE remote'[p][f] = None <=> f > e
      OBVIOUS
    <3>1. remote'[p][f] = (IF f <= e THEN Want(f) ELSE None) /\ Want(f) # None
      BY <1>4, <1>5, WantIsInput
    <3>2. f \in Int
      BY FrameNumbers
    <3> QED  BY <1>3, <3>1, <3>2
  <2>2. AdvanceContiguousRemoteFrame(remote'[p], contig[p]) = e
    BY <1>1, <1>3, <2>1, AdvanceTo
  <2> QED  BY <1>1, <1>2, <2>2 DEF TypeOK
<1>8. ack'[p] \in Acks /\ ack'[p] <= contig[o] /\ ack'[o] = ack[o]
  <2>1. RecordRemoteAck(p, r) \in Acks /\ RecordRemoteAck(p, r) <= contig[o]
    <3>1. RecordRemoteAck(p, r) = ack[p] \/ RecordRemoteAck(p, r) = Max({ack[p], r})
      BY DEF RecordRemoteAck
    <3>2. Max({ack[p], r}) \in {ack[p], r}
      BY <1>1, MaxOfTwo
    <3> QED  BY <1>1, <3>1, <3>2
  <2> QED  BY <1>1, <1>2, <2>1 DEF TypeOK
<1>9. TypeOK'
  <2>1. new \in [InputFrames -> MaybeInputs]
    <3>1. \A f \in InputFrames : new[f] \in MaybeInputs
      BY <1>4, WantIsInput DEF MaybeInputs
    <3> QED  BY <3>1 DEF new
  <2>2. remote' \in [Peers -> [InputFrames -> MaybeInputs]]
    BY <1>2, <2>1 DEF TypeOK
  <2>3. contig' \in [Peers -> (Epoch - 1) .. (LastFrame + Delay)]
    <3>1. contig' = [contig EXCEPT ![p] = e] /\ e \in (Epoch - 1) .. (LastFrame + Delay)
      BY <1>2, <1>3, <1>7, FrameNumbers DEF TypeOK
    <3> QED  BY <3>1 DEF TypeOK
  <2>4. ack' \in [Peers -> InputFrames \cup {NoFrame}]
    <3>1. ack' = [ack EXCEPT ![p] = ack'[p]]
      BY <1>2 DEF TypeOK
    <3> QED  BY <1>8, <3>1 DEF TypeOK, Acks
  <2> QED  BY <1>2, <2>2, <2>3, <2>4 DEF TypeOK
<1>10. \A q \in Peers : Top(q)' = Top(q)
  BY <1>2 DEF Top
<1>11. LocalFilled'
  BY <1>2, <1>10 DEF LocalFilled
<1>12. RemoteFilled'
  <2>1. Other(o) = p
    BY TwoPeers
  <2>2. /\ Filled(remote'[p], contig'[p]) /\ Epoch - 1 <= contig'[p] /\ contig'[p] <= Top(o)'
    BY <1>1, <1>3, <1>6, <1>7, <1>10
  <2>3. /\ Filled(remote'[o], contig'[o]) /\ Epoch - 1 <= contig'[o] /\ contig'[o] <= Top(p)'
    BY <1>1, <1>5, <1>7, <1>10, <2>1 DEF RemoteFilled
  <2> QED  BY <1>1, <2>1, <2>2, <2>3 DEF RemoteFilled
<1>13. Acknowledged'
  <2>1. Other(o) = p
    BY TwoPeers
  <2>2. ack'[p] <= contig'[o] /\ lastSent'[p] <= Top(p)'
    BY <1>2, <1>7, <1>8, <1>10 DEF Acknowledged
  <2>3. ack[o] <= contig[p] /\ lastSent'[o] <= Top(o)' /\ ack[o] \in Int
    BY <1>1, <1>2, <1>10, <2>1, Frontiers DEF Acknowledged
  <2>4. ack'[o] <= contig'[p]
    BY <1>1, <1>3, <1>7, <1>8, <2>3
  <2> QED  BY <1>1, <2>1, <2>2, <2>3, <2>4 DEF Acknowledged
<1>14. LeadBounded' /\ ResumeAccepted'
  BY <1>2 DEF LeadBounded, ResumeAccepted
<1>15. Growing
  BY <1>1, <1>3, <1>7, <1>10, TopRange DEF Growing
<1>16. b <= contig'[p]
  BY <1>3, <1>7
<1> QED  BY <1>2, <1>9, <1>11, <1>12, <1>13, <1>14, <1>15, <1>16

\* The history a Resume asks for follows the frontier of the peer that asks.
LEMMA HistorySound ==
  ASSUME IInv, NEW p \in Peers, NEW r \in Acks, r <= contig[Other(p)]
  PROVE  /\ InputsAfter(p, r) \in Seq(Packets)
         /\ SoundQueue(InputsAfter(p, r), contig[Other(p)], contig[p], Top(p))
         /\ \A k \in DOMAIN InputsAfter(p, r) :
               \E g \in InputFrames : InputsAfter(p, r)[k] = History(g) /\ g <= Top(p)
         /\ InputsAfter(p, r) # << >> /\ r # 0 => Head(InputsAfter(p, r)) = History(r + 1)
<1> USE DEF IInv
<1> DEFINE s == IF r = 0 THEN Epoch ELSE r + 1
           t == Top(p)
           H == InputsAfter(p, r)
           n == t - s + 1
           c == contig[Other(p)]
<1>1. /\ t \in Int /\ Epoch - 1 <= t /\ t <= LastFrame + Delay /\ Filled(local[p], t)
      /\ c \in Int /\ Epoch - 1 <= c /\ c <= t /\ r \in Int /\ r <= c /\ r <= t
  <2>1. Other(p) \in Peers /\ Other(Other(p)) = p
    BY TwoPeers
  <2>2. c <= t
    BY <2>1 DEF RemoteFilled
  <2> QED  BY <2>1, <2>2, TopRange, Frontiers, FrameNumbers DEF LocalFilled
<1> HIDE DEF t, c
<1>2. /\ s \in Int /\ Epoch <= s /\ s <= t + 1 /\ (r # 0 => s = r + 1)
      /\ H = [k \in 1 .. (t - s + 1) |-> History(s + k - 1)]
  BY <1>1, HistoryShape
<1>3. s <= c + 1
  BY <1>1, FrameNumbers
<1> HIDE DEF s, H
<1>4. n \in Nat /\ H = [k \in 1 .. n |-> History(s + k - 1)]
  BY <1>1, <1>2
<1> HIDE DEF n
<1>5. ASSUME NEW k \in 1 .. n
      PROVE  /\ s + k - 1 \in InputFrames /\ s + k - 1 <= t /\ H[k] = History(s + k - 1)
  BY <1>1, <1>2, <1>4, FrameNumbers DEF n
<1>6. H \in Seq(Packets) /\ Len(H) = n /\ DOMAIN H = 1 .. n
  <2>1. H \in [1 .. n -> Packets]
    BY <1>4, <1>5, PacketKinds
  <2>2. H \in Seq(Packets)
    BY <1>4, <2>1, SeqDef
  <2> QED  BY <1>4, <2>1, <2>2, LenProperties
<1>7. SoundQueue(H, c, contig[p], t)
  <2> SUFFICES ASSUME NEW k \in 1 .. n
               PROVE  /\ SoundInput(H[k], t)
                      /\ \A g \in InputFrames : H[k] = History(g) =>
                            g <= c + 1 \/ \E j \in 1 .. (k - 1) : H[j] = History(g - 1)
    BY <1>6 DEF SoundQueue
  <2>1. SoundInput(H[k], t)
    BY <1>5 DEF SoundInput
  <2>2. ASSUME NEW g \in InputFrames, H[k] = History(g), ~(g <= c + 1)
        PROVE  \E j \in 1 .. (k - 1) : H[j] = History(g - 1)
    <3>1. g = s + k - 1
      BY <1>5, <2>2, HistoryFields
    <3>2. k # 1
      BY <1>1, <1>2, <1>3, <2>2, <3>1
    <3>3. k - 1 \in 1 .. n /\ k - 1 \in 1 .. (k - 1)
      BY <1>4, <3>2
    <3>4. s + (k - 1) - 1 = g - 1
      BY <1>2, <3>1
    <3>5. H[k - 1] = History(s + (k - 1) - 1)
      BY <1>5, <3>3
    <3> QED  BY <3>3, <3>4, <3>5
  <2> QED  BY <2>1, <2>2
<1>8. \A k \in DOMAIN H : \E g \in InputFrames : H[k] = History(g) /\ g <= t
  BY <1>5, <1>6
<1>9. H # << >> /\ r # 0 => Head(H) = History(r + 1)
  <2> SUFFICES ASSUME H # << >>, r # 0 PROVE Head(H) = History(r + 1)
    OBVIOUS
  <2>1. Head(H) = H[1] /\ 1 \in 1 .. n
    BY <1>4, <1>6, EmptySeq, HeadTailProperties
  <2>2. H[1] = History(s + 1 - 1) /\ s + 1 - 1 = r + 1
    BY <1>2, <1>5, <2>1
  <2> QED  BY <2>1, <2>2
<1> QED  BY <1>6, <1>7, <1>8, <1>9 DEF H, t, c

\* ReceiveResume accepts a sound Resume: neither "future-input-ack" nor
\* "input-history-missing".
LEMMA ResumeReceived ==
  ASSUME IInv, NEW p \in Peers, NEW m, NEW r \in Acks, m.frame = r, r <= contig[Other(p)],
         ReceiveResume(p, m), UNCHANGED <<frame, connected, recovering, link, breaks>>
  PROVE  /\ TypeOK' /\ LocalFilled' /\ RemoteFilled' /\ Acknowledged' /\ LeadBounded'
         /\ ResumeAccepted' /\ Growing
         /\ UNCHANGED <<pc, local, remote, contig, ack>>
         /\ validated'[p] /\ \A q \in Peers : q # p => validated'[q] = validated[q]
<1> USE DEF IInv
<1> DEFINE H == InputsAfter(p, r)
           future == Known(local[p]) # {} /\ r > Max(Known(local[p]))
           missing == /\ H # << >> /\ r # 0
                      /\ r + 1 \notin DOMAIN Head(H).entries
<1>1. /\ pc' = [pc EXCEPT ![p] = CASE future -> "future-input-ack"
                                   [] missing -> "input-history-missing"
                                   [] OTHER -> @]
      /\ validated' = [validated EXCEPT ![p] = TRUE]
      /\ lastSent' = IF H = << >> THEN lastSent
                     ELSE [lastSent EXCEPT ![p] = LastFrameOf(H)]
      /\ UNCHANGED <<local, remote, contig, ack>>
  BY DEF ReceiveResume
<1>2. /\ Top(p) \in Int /\ Epoch - 1 <= Top(p) /\ Top(p) <= LastFrame + Delay
      /\ Filled(local[p], Top(p)) /\ r \in Int /\ r <= Top(p)
  <2>1. Other(p) \in Peers /\ Other(Other(p)) = p
    BY TwoPeers
  <2>2. contig[Other(p)] <= Top(p) /\ contig[Other(p)] \in Int
    BY <2>1, Frontiers DEF RemoteFilled
  <2> QED  BY <2>2, TopRange, FrameNumbers DEF LocalFilled
<1>3. ~future
  <2>1. Known(local[p]) = Epoch .. Top(p)
    BY <1>2, KnownUpTo
  <2>2. ASSUME Known(local[p]) # {} PROVE r <= Max(Known(local[p]))
    <3>1. Known(local[p]) \in SUBSET (Epoch .. Top(p)) /\ Epoch \in Int
      BY <2>1, FrameNumbers
    <3>2. /\ Max(Known(local[p])) \in Known(local[p])
          /\ \A k \in Known(local[p]) : k <= Max(Known(local[p]))
      BY <1>2, <2>2, <3>1, MaxOfInterval
    <3>3. Max(Known(local[p])) \in Int /\ Epoch <= Top(p)
      BY <1>2, <2>1, <3>2, FrameNumbers
    <3>4. Top(p) <= Max(Known(local[p]))
      BY <1>2, <2>1, <3>2, <3>3, FrameNumbers
    <3> QED  BY <1>2, <3>3, <3>4
  <2>3. ASSUME Known(local[p]) # {} PROVE Max(Known(local[p])) \in Int
    <3>1. Known(local[p]) \in SUBSET (Epoch .. Top(p)) /\ Epoch \in Int
      BY <2>1, FrameNumbers
    <3>2. Max(Known(local[p])) \in Epoch .. Top(p)
      BY <1>2, <2>3, <3>1, MaxOfInterval
    <3> QED  BY <3>2
  <2> QED  BY <1>2, <2>2, <2>3
<1>4. /\ H \in Seq(Packets)
      /\ \A k \in DOMAIN H : \E g \in InputFrames : H[k] = History(g) /\ g <= Top(p)
      /\ H # << >> /\ r # 0 => Head(H) = History(r + 1)
  BY HistorySound
<1>5. ~missing
  <2>1. r + 1 \in DOMAIN History(r + 1).entries
    BY HistoryFields
  <2> HIDE DEF H
  <2> QED  BY <1>4, <2>1
<1>6. pc' = pc
  <2> HIDE DEF future, missing
  <2> QED  BY <1>1, <1>3, <1>5 DEF TypeOK
<1>7. validated'[p] /\ \A q \in Peers : q # p => validated'[q] = validated[q]
  BY <1>1 DEF TypeOK
<1> HIDE DEF H
<1>8. H # << >> => LastFrameOf(H) \in InputFrames /\ LastFrameOf(H) <= Top(p)
  <2> SUFFICES ASSUME H # << >> PROVE LastFrameOf(H) \in InputFrames /\ LastFrameOf(H) <= Top(p)
    OBVIOUS
  <2> DEFINE U == UNION {DOMAIN H[k].entries : k \in DOMAIN H}
  <2>1. ASSUME NEW u \in U PROVE u \in InputFrames /\ u <= Top(p)
    <3>1. PICK k \in DOMAIN H : u \in DOMAIN H[k].entries
      OBVIOUS
    <3>2. PICK g \in InputFrames : H[k] = History(g) /\ g <= Top(p)
      BY <1>4
    <3>3. DOMAIN H[k].entries = {g}
      BY <3>2, HistoryFields
    <3> QED  BY <3>1, <3>2, <3>3
  <2>2. U # {}
    <3>1. 1 \in DOMAIN H
      BY <1>4, EmptySeq, LenProperties
    <3>2. PICK g \in InputFrames : H[1] = History(g)
      BY <1>4, <3>1
    <3>3. g \in DOMAIN H[1].entries
      BY <3>2, HistoryFields
    <3> QED  BY <3>1, <3>3
  <2> HIDE DEF U
  <2>3. U \in SUBSET (Epoch .. (LastFrame + Delay)) /\ Epoch \in Int /\ LastFrame + Delay \in Int
    BY <2>1, FrameNumbers DEF InputFrames
  <2>4. Max(U) \in U
    BY <2>2, <2>3, MaxOfInterval
  <2>5. LastFrameOf(H) = Max(U)
    BY DEF LastFrameOf, U
  <2> QED  BY <2>1, <2>4, <2>5
<1>9. TypeOK'
  <2>1. lastSent' \in [Peers -> InputFrames \cup {NoFrame}]
    BY <1>1, <1>8 DEF TypeOK
  <2>2. validated' \in [Peers -> BOOLEAN]
    <3>1. validated \in [Peers -> BOOLEAN]
      BY DEF TypeOK
    <3> QED  BY <1>1, <3>1, Zenon
  <2> QED  BY <1>1, <1>6, <2>1, <2>2 DEF TypeOK
<1>10. \A q \in Peers : Top(q)' = Top(q)
  BY <1>1 DEF Top
<1>11. LocalFilled'
  BY <1>1, <1>6, <1>10 DEF LocalFilled
<1>12. RemoteFilled'
  BY <1>1, <1>10, TwoPeers DEF RemoteFilled
<1>13. Acknowledged'
  <2> SUFFICES ASSUME NEW q \in Peers PROVE lastSent'[q] <= Top(q)
    BY <1>1, <1>10 DEF Acknowledged
  <2>1. lastSent'[q] = lastSent[q] \/ (q = p /\ H # << >> /\ lastSent'[q] = LastFrameOf(H))
    BY <1>1 DEF TypeOK
  <2> QED  BY <1>8, <2>1 DEF Acknowledged
<1>14. LeadBounded' /\ ResumeAccepted'
  BY <1>6 DEF LeadBounded, ResumeAccepted
<1>15. Growing
  BY <1>1, <1>10, TopRange, Frontiers DEF Growing
<1> QED  BY <1>1, <1>6, <1>7, <1>9, <1>11, <1>12, <1>13, <1>14, <1>15

\* Nothing is sent in return.
LEMMA NoReply ==
  ASSUME reliable \in [Peers -> Seq(Packets)], NEW q \in Peers
  PROVE  Reliably(q, << >>) = reliable
<1>1. reliable[q] \o << >> = reliable[q]
  BY ConcatEmptySeq
<1>2. [reliable EXCEPT ![q] = @ \o << >>] = reliable
  BY <1>1
<1> QED  BY <1>2 DEF Reliably

\* A packet has been handled, and perhaps answered with a history.
LEMMA Received ==
  ASSUME IInv, TypeOK', Growing, LocalFilled', RemoteFilled', Acknowledged', LeadBounded',
         ResumeAccepted', NEW p \in Peers, connected[p],
         NEW H \in Seq(Packets), SoundQueue(H, contig'[Other(p)], contig'[p], Top(p)'),
         reliable' \in [Peers -> Seq(Packets)],
         reliable'[Other(p)] = Reliably(Other(p), H)[Other(p)],
         SoundQueue(reliable'[p], contig'[p], contig'[Other(p)], Top(Other(p))'),
         ~validated'[p] => reliable'[p] = reliable[p] /\ ~validated[p],
         datagrams' \in [Peers -> SUBSET Packets],
         \A q \in Peers : datagrams'[q] \subseteq datagrams[q],
         validated'[Other(p)] = validated[Other(p)],
         UNCHANGED <<pc, connected, link>>
  PROVE  IInv'
<1> USE DEF IInv
<1> DEFINE o == Other(p)
<1>1. o \in Peers /\ o # p /\ Other(o) = p /\ \A q \in Peers : q = p \/ q = o
  BY TwoPeers
<1>2. DatagramsSound'
  BY DatagramsLater
<1>3. \/ reliable'[o] = reliable[o]
      \/ link \in {"half", "up"} /\ reliable'[o] = reliable[o] \o H
  BY <1>1 DEF Reliably, ReliableSound
<1>4. reliable[o] \in Seq(Packets)
  BY <1>1 DEF ReliableSound
<1> HIDE DEF o
<1>5. ReliableSound'
  <2>1. SoundQueue(reliable[o], contig'[o], contig'[p], Top(p)')
    <3>1. SoundQueue(reliable[o], contig[o], contig[p], Top(p))
      BY <1>1 DEF ReliableSound
    <3> QED  BY <1>1, <3>1, QueueLater, GrowingNumbers
  <2>2. SoundQueue(reliable[o] \o H, contig'[o], contig'[p], Top(p)')
    BY <1>4, <2>1, QueueAppended DEF o
  <2>3. SoundQueue(reliable'[o], contig'[o], contig'[p], Top(p)')
    BY <1>3, <2>1, <2>2
  <2> QED  BY <1>1, <2>3 DEF ReliableSound, o
<1>6. ResumeFirst'
  <2>1. ASSUME ~validated'[o]
        PROVE  /\ ResumeBefore(reliable'[o])
               /\ link \in {"half", "up"} => ResumeWithin(reliable'[o], Len(reliable'[o]))
    <3>1. /\ ResumeBefore(reliable[o])
          /\ link \in {"half", "up"} => ResumeWithin(reliable[o], Len(reliable[o]))
      BY <1>1, <2>1 DEF ResumeFirst, o
    <3>2. CASE reliable'[o] = reliable[o]
      BY <3>1, <3>2
    <3>3. CASE link \in {"half", "up"} /\ reliable'[o] = reliable[o] \o H
      BY <1>4, <3>1, <3>3, ResumeAppended
    <3> QED  BY <1>3, <3>2, <3>3
  <2>2. ASSUME ~validated'[p]
        PROVE  /\ ResumeBefore(reliable'[p])
               /\ link \in {"half", "up"} /\ connected[o] =>
                     ResumeWithin(reliable'[p], Len(reliable'[p]))
    BY <2>2 DEF ResumeFirst, o
  <2> QED  BY <1>1, <2>1, <2>2 DEF ResumeFirst, o
<1>7. LinkShape'
  <2>1. \A q \in Peers : Running(q)' <=> Running(q)
    BY DEF Running
  <2> QED  BY <1>1, <2>1 DEF LinkShape, o
<1> QED  BY <1>2, <1>5, <1>6, <1>7

\* An empty history is sound.
LEMMA EmptyHistory ==
  ASSUME NEW c, NEW o, NEW t
  PROVE  << >> \in Seq(Packets) /\ SoundQueue(<< >>, c, o, t)
  BY DEF SoundQueue

\* A datagram keeps the invariant, in whichever order it arrives.
LEMMA ReceiveDatagramStep ==
  ASSUME IInv, NEW p \in Peers, NEW kind, ReceiveDatagram(p, kind)
  PROVE  IInv'
<1> USE DEF IInv
<1> DEFINE o == Other(p)
<1>1. PICK m \in datagrams[p] :
        /\ Handle(p, m) /\ reliable' = Reliably(o, Replies(p, m))
        /\ datagrams' = [datagrams EXCEPT ![p] = @ \ {m}]
  BY DEF ReceiveDatagram
<1>2. connected[p] /\ UNCHANGED <<frame, connected, recovering, link, breaks>>
  BY DEF ReceiveDatagram
<1>3. o \in Peers /\ o # p /\ Other(o) = p
  BY TwoPeers
<1>4. /\ datagrams' \in [Peers -> SUBSET Packets]
      /\ \A q \in Peers : datagrams'[q] \subseteq datagrams[q]
  BY <1>1 DEF DatagramsSound
<1>5. /\ reliable \in [Peers -> Seq(Packets)]
      /\ SoundQueue(reliable[p], contig[p], contig[o], Top(o))
  BY DEF ReliableSound
<1>6. \/ SoundBundle(m, contig[p], contig[o], Top(o))
      \/ SoundResume(m, contig[o])
  BY DEF DatagramsSound
<1> HIDE DEF o
<1>7. CASE SoundResume(m, contig[o]) /\ ~validated[p]
  <2>1. PICK r \in Acks : m = Resume(r) /\ r <= contig[o]
    BY <1>7 DEF SoundResume
  <2>2. m.kind = "resume" /\ m.frame = r
    BY <2>1, ResumeFields
  <2>3. ReceiveResume(p, m) /\ Replies(p, m) = InputsAfter(p, r)
    BY <1>1, <1>7, <2>2 DEF Handle, Replies
  <2>4. /\ TypeOK' /\ LocalFilled' /\ RemoteFilled' /\ Acknowledged' /\ LeadBounded'
        /\ ResumeAccepted' /\ Growing
        /\ UNCHANGED <<pc, local, remote, contig, ack>>
        /\ validated'[p] /\ \A q \in Peers : q # p => validated'[q] = validated[q]
    BY <1>2, <2>1, <2>2, <2>3, ResumeReceived DEF o
  <2> DEFINE H == InputsAfter(p, r)
  <2>5. H \in Seq(Packets) /\ SoundQueue(H, contig[o], contig[p], Top(p))
    BY <2>1, HistorySound DEF o
  <2> HIDE DEF H
  <2>6. SoundQueue(H, contig'[o], contig'[p], Top(p)')
    BY <1>3, <2>4, <2>5, QueueLater, GrowingNumbers
  <2>7. reliable' = Reliably(o, H)
    BY <1>1, <2>3 DEF H
  <2>8. reliable' \in [Peers -> Seq(Packets)] /\ reliable'[p] = reliable[p]
    <3>1. reliable[o] \o H \in Seq(Packets)
      BY <1>3, <1>5, <2>5, ConcatProperties
    <3> QED  BY <1>3, <1>5, <2>7, <3>1 DEF Reliably
  <2>9. SoundQueue(reliable'[p], contig'[p], contig'[o], Top(o)')
    <3>1. SoundQueue(reliable[p], contig'[p], contig'[o], Top(o)')
      BY <1>5, <2>4, QueueLater, GrowingNumbers DEF o
    <3> QED  BY <2>8, <3>1
  <2> QED  BY <1>2, <1>3, <1>4, <2>4, <2>5, <2>6, <2>7, <2>8, <2>9, Received DEF o
<1>8. CASE ~(SoundResume(m, contig[o]) /\ ~validated[p])
  <2>1. \/ /\ SoundBundle(m, contig[p], contig[o], Top(o)) /\ ReceiveInputs(p, m)
           /\ validated[p]
        \/ UNCHANGED <<pc, timeline, validated>>
    <3>1. CASE SoundBundle(m, contig[p], contig[o], Top(o))
      <4>1. m.kind = "bundle"
        BY <3>1, BundleFields DEF SoundBundle
      <4> QED  BY <1>1, <3>1, <4>1 DEF Handle
    <3>2. CASE SoundResume(m, contig[o]) /\ validated[p]
      <4>1. m.kind = "resume"
        BY <3>2, ResumeFields DEF SoundResume
      <4> QED  BY <1>1, <3>2, <4>1 DEF Handle
    <3> QED  BY <1>6, <1>8, <3>1, <3>2
  <2>2. Replies(p, m) = << >>
    <3>1. m.kind = "resume" => validated[p]
      BY <1>6, <1>8, BundleFields DEF SoundBundle
    <3> QED  BY <3>1 DEF Replies
  <2>3. reliable' = reliable /\ reliable' = Reliably(o, << >>)
    BY <1>1, <1>3, <1>5, <2>2, NoReply
  <2>4. /\ TypeOK' /\ LocalFilled' /\ RemoteFilled' /\ Acknowledged' /\ LeadBounded'
        /\ ResumeAccepted' /\ Growing /\ UNCHANGED <<pc, validated>>
    <3>1. CASE UNCHANGED <<pc, timeline, validated>>
      <4>1. TypeOK'
        BY <1>2, <3>1 DEF TypeOK, timeline
      <4> QED  BY <1>2, <3>1, <4>1, TimelineKept
    <3>2. CASE SoundBundle(m, contig[p], contig[o], Top(o)) /\ ReceiveInputs(p, m)
      <4>1. PICK a \in InputFrames, b \in InputFrames, r \in Acks :
              m = Bundle(Recorded(a, b), r) /\ a <= contig[p] + 1 /\ b <= Top(o) /\ r <= contig[o]
        BY <3>2 DEF SoundBundle
      <4>2. m.entries = Recorded(a, b) /\ m.frame = r
        BY <4>1, BundleFields
      <4> QED  BY <1>2, <3>2, <4>1, <4>2, InputsReceived DEF o
    <3> QED  BY <2>1, <3>1, <3>2
  <2>5. SoundQueue(reliable'[p], contig'[p], contig'[o], Top(o)')
    <3>1. SoundQueue(reliable[p], contig'[p], contig'[o], Top(o)')
      BY <1>5, <2>4, QueueLater, GrowingNumbers DEF o
    <3> QED  BY <2>3, <3>1
  <2>6. /\ << >> \in Seq(Packets) /\ SoundQueue(<< >>, contig'[o], contig'[p], Top(p)')
    BY EmptyHistory
  <2> QED  BY <1>2, <1>4, <1>5, <2>3, <2>4, <2>5, <2>6, Received DEF o
<1> QED  BY <1>7, <1>8

\* A reliable packet keeps the invariant: the history is never dropped, because
\* its receiver has handled a Resume before it.
LEMMA ReceiveReliableStep ==
  ASSUME IInv, NEW p \in Peers, ReceiveReliable(p)
  PROVE  IInv'
<1> USE DEF IInv
<1> DEFINE o == Other(p)
           s == reliable[p]
           m == Head(reliable[p])
<1>1. /\ Handle(p, m) /\ reliable' = [Reliably(o, Replies(p, m)) EXCEPT ![p] = Tail(@)]
      /\ connected[p] /\ s # << >>
      /\ UNCHANGED <<frame, connected, recovering, link, datagrams, breaks>>
  BY DEF ReceiveReliable
<1>2. o \in Peers /\ o # p /\ Other(o) = p
  BY TwoPeers
<1>3. /\ datagrams' \in [Peers -> SUBSET Packets]
      /\ \A q \in Peers : datagrams'[q] \subseteq datagrams[q]
  BY <1>1 DEF DatagramsSound
<1>4. /\ reliable \in [Peers -> Seq(Packets)] /\ s \in Seq(Packets)
      /\ SoundQueue(s, contig[p], contig[o], Top(o))
  BY DEF ReliableSound
<1>5. /\ m = s[1] /\ 1 \in 1 .. Len(s) /\ Tail(s) \in Seq(Packets)
  BY <1>1, <1>4, EmptySeq, HeadTailProperties, LenProperties
<1> HIDE DEF o, m, s
<1>6. SoundInput(m, Top(o)) \/ SoundResume(m, contig[o])
  BY <1>4, <1>5 DEF SoundQueue
<1>7. CASE SoundResume(m, contig[o]) /\ ~validated[p]
  <2>1. PICK r \in Acks : m = Resume(r) /\ r <= contig[o]
    BY <1>7 DEF SoundResume
  <2>2. m.kind = "resume" /\ m.frame = r
    BY <2>1, ResumeFields
  <2>3. ReceiveResume(p, m) /\ Replies(p, m) = InputsAfter(p, r)
    BY <1>1, <1>7, <2>2 DEF Handle, Replies
  <2>4. /\ TypeOK' /\ LocalFilled' /\ RemoteFilled' /\ Acknowledged' /\ LeadBounded'
        /\ ResumeAccepted' /\ Growing
        /\ UNCHANGED <<pc, local, remote, contig, ack>>
        /\ validated'[p] /\ \A q \in Peers : q # p => validated'[q] = validated[q]
    BY <1>1, <2>1, <2>2, <2>3, ResumeReceived DEF o
  <2> DEFINE H == InputsAfter(p, r)
  <2>5. H \in Seq(Packets) /\ SoundQueue(H, contig[o], contig[p], Top(p))
    BY <2>1, HistorySound DEF o
  <2> HIDE DEF H
  <2>6. SoundQueue(H, contig'[o], contig'[p], Top(p)')
    BY <1>2, <2>4, <2>5, QueueLater, GrowingNumbers
  <2>7. reliable' = [Reliably(o, H) EXCEPT ![p] = Tail(@)]
    BY <1>1, <2>3 DEF H
  <2>8. /\ reliable' \in [Peers -> Seq(Packets)] /\ reliable'[p] = Tail(s)
        /\ reliable'[o] = Reliably(o, H)[o]
    <3>1. reliable[o] \o H \in Seq(Packets)
      BY <1>2, <1>4, <2>5, ConcatProperties
    <3>2. Reliably(o, H) \in [Peers -> Seq(Packets)] /\ Reliably(o, H)[p] = s
      BY <1>2, <1>4, <3>1 DEF Reliably, s
    <3> QED  BY <1>2, <1>5, <2>7, <3>2
  <2>9. SoundQueue(reliable'[p], contig'[p], contig'[o], Top(o)')
    <3>1. SoundQueue(s, contig'[p], contig'[o], Top(o)') /\ contig'[p] \in Int
      BY <1>4, <2>4, QueueLater, GrowingNumbers DEF o
    <3>2. \A g \in InputFrames : Head(s) = History(g) => g <= contig'[p]
      BY <2>2, HistoryFields DEF m, s
    <3>3. SoundQueue(Tail(s), contig'[p], contig'[o], Top(o)')
      BY <1>1, <1>4, <3>1, <3>2, QueueTail
    <3> QED  BY <2>8, <3>3
  <2> QED  BY <1>1, <1>2, <1>3, <2>4, <2>5, <2>6, <2>8, <2>9, Received DEF o
<1>8. CASE ~(SoundResume(m, contig[o]) /\ ~validated[p])
  <2>1. validated[p]
    <3> SUFFICES ASSUME ~validated[p] PROVE FALSE
      OBVIOUS
    <3>1. m.kind = "input"
      BY <1>6, <1>8, HistoryFields DEF SoundInput
    <3>2. ResumeWithin(s, 1 - 1)
      BY <1>5, <3>1 DEF ResumeFirst, ResumeBefore, s
    <3> QED  BY <3>2 DEF ResumeWithin
  <2>2. Replies(p, m) = << >>
    BY <2>1 DEF Replies
  <2>3. /\ reliable' \in [Peers -> Seq(Packets)] /\ reliable'[p] = Tail(s)
        /\ reliable'[o] = Reliably(o, << >>)[o]
    <3>1. Reliably(o, << >>) = reliable
      BY <1>2, <1>4, NoReply
    <3>2. reliable' = [reliable EXCEPT ![p] = Tail(@)]
      BY <1>1, <2>2, <3>1
    <3> QED  BY <1>2, <1>4, <1>5, <3>1, <3>2 DEF s
  <2>4. /\ TypeOK' /\ LocalFilled' /\ RemoteFilled' /\ Acknowledged' /\ LeadBounded'
        /\ ResumeAccepted' /\ Growing /\ UNCHANGED <<pc, validated>>
        /\ \A g \in InputFrames : m = History(g) => g <= contig'[p]
    <3>1. CASE SoundResume(m, contig[o])
      <4>1. m.kind = "resume"
        BY <3>1, ResumeFields DEF SoundResume
      <4>2. UNCHANGED <<pc, timeline, validated>>
        BY <1>1, <2>1, <4>1 DEF Handle
      <4>3. TypeOK'
        BY <1>1, <4>2 DEF TypeOK, timeline
      <4>4. \A g : m # History(g)
        BY <4>1, HistoryFields
      <4> QED  BY <1>1, <4>2, <4>3, <4>4, TimelineKept
    <3>2. CASE SoundInput(m, Top(o))
      <4>1. PICK h \in InputFrames : m = History(h) /\ h <= Top(o)
        BY <3>2 DEF SoundInput
      <4>2. m.kind = "input" /\ m.frame = 0 /\ m.entries = [f \in {h} |-> Want(h)]
        BY <4>1, HistoryFields, FrameNumbers
      <4>3. ReceiveInputs(p, m)
        BY <1>1, <2>1, <4>2 DEF Handle
      <4>4. m.entries = Recorded(h, h)
        <5>1. h .. h = {h}
          BY FrameNumbers
        <5> QED  BY <4>2, <5>1 DEF Recorded
      <4>5. h <= contig[p] + 1
        <5>1. m = History(h) => h <= contig[p] + 1 \/ \E j \in 1 .. (1 - 1) : s[j] = History(h - 1)
          BY <1>4, <1>5 DEF SoundQueue
        <5> QED  BY <4>1, <5>1
      <4>6. 0 \in Acks /\ 0 <= contig[o]
        BY <1>2, Frontiers, FrameNumbers
      <4>7. /\ TypeOK' /\ LocalFilled' /\ RemoteFilled' /\ Acknowledged' /\ LeadBounded'
            /\ ResumeAccepted' /\ Growing
            /\ h <= contig'[p] /\ UNCHANGED <<pc, local, lastSent, validated>>
        BY <1>1, <4>1, <4>2, <4>3, <4>4, <4>5, <4>6, InputsReceived DEF o
      <4>8. \A g \in InputFrames : m = History(g) => g = h
        BY <4>1, HistoryFields
      <4> QED  BY <4>7, <4>8
    <3> QED  BY <1>6, <3>1, <3>2
  <2>5. SoundQueue(reliable'[p], contig'[p], contig'[o], Top(o)')
    <3>1. SoundQueue(s, contig'[p], contig'[o], Top(o)') /\ contig'[p] \in Int
      BY <1>4, <2>4, QueueLater, GrowingNumbers DEF o
    <3>2. SoundQueue(Tail(s), contig'[p], contig'[o], Top(o)')
      BY <1>1, <1>4, <2>4, <3>1, QueueTail DEF m, s
    <3> QED  BY <2>3, <3>2
  <2>6. << >> \in Seq(Packets) /\ SoundQueue(<< >>, contig'[o], contig'[p], Top(p)')
    BY EmptyHistory
  <2> QED  BY <1>1, <1>3, <2>1, <2>3, <2>4, <2>5, <2>6, Received DEF o
<1> QED  BY <1>7, <1>8

\* The invariant is inductive.
LEMMA NextIInv == IInv /\ [Next]_vars => IInv'
<1> SUFFICES ASSUME IInv, [Next]_vars PROVE IInv'
  OBVIOUS
<1>1. CASE UNCHANGED vars
  <2>1. "host" \in Peers
    BY DEF Peers
  <2> QED  BY <1>1, <2>1, QuietStep
<1>2. ASSUME NEW p \in Peers, Step(p) PROVE IInv'
  <2>1. CASE SendInput(p)
    BY <2>1, SendInputStep
  <2>2. CASE ResendInput(p)
    BY <2>2, ResendStep
  <2>3. CASE SendResume(p)
    BY <2>3, SendResumeStep
  <2>4. CASE PassGate(p)
    BY <2>4, PassGateStep
  <2>5. CASE LoseDatagram(p) \/ StallAtGate(p)
    BY <2>5, QuietStep
  <2>6. CASE ReceiveReliable(p)
    BY <2>6, ReceiveReliableStep
  <2>7. CASE ReceiveDatagram(p, "bundle") \/ ReceiveDatagram(p, "resume")
    BY <2>7, ReceiveDatagramStep
  <2>8. CASE Disconnect(p)
    BY <2>8, DisconnectStep
  <2>9. CASE Connect(p)
    BY <2>9, ConnectStep
  <2>10. CASE GiveUp(p)
    BY <2>10, GiveUpStep
  <2> QED
    BY <1>2, <2>1, <2>2, <2>3, <2>4, <2>5, <2>6, <2>7, <2>8, <2>9, <2>10 DEF Step
<1> QED  BY <1>1, <1>2 DEF Next

-----------------------------------------------------------------------------
(* The theorems *)

\* The invariant holds as long as the two peers play, whatever is lost, overtaken
\* or cut off.
THEOREM LinkInvariance == Spec => []IInv
<1>1. Init => IInv
  BY InitIInv
<1>2. IInv /\ [Next]_vars => IInv'
  BY NextIInv
<1> QED  BY <1>1, <1>2, PTL DEF Spec

\* The state of the session keeps its types: the frontier, the acknowledgement
\* and the last frame sent are frames of the epoch.
THEOREM TypeCorrect == Spec => []TypeOK
<1>1. IInv => TypeOK
  BY DEF IInv
<1> QED  BY <1>1, LinkInvariance, PTL

\* What a peer holds for a frame is what the other player pressed for it, for
\* any number of losses, resends and reconnections (HandleReceivedInputBundle,
\* ReceiveResume).
THEOREM InputsAgreement == Spec => []InputsAgree
<1>1. IInv => InputsAgree
  <2> SUFFICES ASSUME IInv, NEW p \in Peers, NEW f \in InputFrames, remote[p][f] # None
               PROVE  remote[p][f] = local[Other(p)][f]
    BY DEF InputsAgree
  <2>1. Other(p) \in Peers /\ contig[p] <= Top(Other(p))
    BY TwoPeers DEF IInv, RemoteFilled
  <2>2. remote[p][f] = Want(f) /\ f <= contig[p]
    BY DEF IInv, RemoteFilled, Filled
  <2>3. f <= Top(Other(p))
    BY <2>1, <2>2, TopRange, Frontiers, FrameNumbers DEF IInv
  <2>4. local[Other(p)][f] = Want(f)
    BY <2>1, <2>3 DEF IInv, LocalFilled, Filled
  <2> QED  BY <2>2, <2>4
<1> QED  BY <1>1, LinkInvariance, PTL

\* An acknowledged input, which is never sent again, has arrived with all inputs
\* before it (RecordRemoteAck).
THEOREM AcknowledgementsSound == Spec => []AckSound
<1>1. IInv => AckSound
  BY DEF IInv, Acknowledged, AckSound
<1> QED  BY <1>1, LinkInvariance, PTL

\* What has arrived has no gaps, for every size of the bundles
\* (SelectUnackedInputs, AdvanceContiguousRemoteFrame).
THEOREM FrontierHasNoGaps == Spec => []NoGaps
<1>1. IInv => NoGaps
  <2> SUFFICES ASSUME IInv, NEW p \in Peers PROVE Known(remote[p]) = Epoch .. contig[p]
    BY DEF NoGaps
  <2>1. /\ contig[p] \in Int /\ contig[p] <= LastFrame + Delay
        /\ Filled(remote[p], contig[p])
    BY Frontiers DEF IInv, RemoteFilled
  <2> QED  BY <2>1, KnownUpTo
<1> QED  BY <1>1, LinkInvariance, PTL

\* A Resume of the same peer is never refused: ReceiveResume takes neither
\* "future-input-ack" nor "input-history-missing".
THEOREM ResumesAccepted == Spec => []ResumeAccepted
<1>1. IInv => ResumeAccepted
  BY DEF IInv
<1> QED  BY <1>1, LinkInvariance, PTL

\* The horizon and the delay bound the lead of either peer
\* (UnconfirmedRemoteFrameCountThrough).
THEOREM LeadIsBounded == Spec => []LeadBounded
<1>1. IInv => LeadBounded
  BY DEF IInv
<1> QED  BY <1>1, LinkInvariance, PTL
=============================================================================
