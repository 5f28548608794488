------------------------- MODULE CheckpointRingProofs -------------------------
(***************************************************************************)
(* Proofs about module CheckpointRing, for every capacity of the ring,     *)
(* depth of a correction, delay and number of rematches.                   *)
(***************************************************************************)
EXTENDS CheckpointRing, Extrema

(* The inductive invariant *)

\* The handshake may complete in the frame after the first labelled raw frame,
\* which then has the label of the first logical frame.
Leftover == Epoch + 1 \in ReadyRaw /\ RawStart <= Epoch

\* The slot of the capture of position f in a ring that was empty at position b.
Pos(f, b) == (f - b) % RingCapacity

\* The frame and the era of the capture of position f in generation r: position
\* Epoch - 1, if there is one, is the leftover raw frame.
LabelAt(f) == IF f < Epoch THEN Epoch ELSE f
EraAt(f, r) == IF f < Epoch THEN <<0, FALSE>> ELSE <<r, TRUE>>

\* The ring s holds the captures of positions a to n - 1 and no others.
Holds(s, b, a, n, r) ==
    /\ \A f \in a .. (n - 1) :
           /\ s[Pos(f, b)].valid
           /\ s[Pos(f, b)].frame = LabelAt(f)
           /\ s[Pos(f, b)].image[1] = EraAt(f, r)
    /\ \A k \in Slots : s[k].valid => \E f \in a .. (n - 1) : k = Pos(f, b)

\* The next position to be captured.
NextFrame ==
    CASE pc = "gate"   -> logical
      [] pc = "before" -> logical + 1
      [] OTHER         -> IF replay[2] = replay[1] THEN replay[1] + 1 ELSE replay[2]

\* The oldest position that the ring, which was full up to position h, still holds.
Oldest(b, h) == IF b < h - RingCapacity THEN h - RingCapacity ELSE b

\* A replay recaptures what was captured before it.
Full == IF NextFrame > logical THEN NextFrame ELSE logical

\* The ring was empty at position b.
BaseOK(b) == b = Epoch \/ (b = Epoch - 1 /\ Leftover /\ restarts = 0)

\* In a match the ring holds the newest captures in order.
InOrder(b) ==
    /\ BaseOK(b)
    /\ next = Pos(NextFrame, b)
    /\ Holds(slots, b, Oldest(b, Full), NextFrame, restarts)

MatchOrder == ready => \E b \in {Epoch - 1, Epoch} : InOrder(b)

\* How raw and logical numbers go together.
Numbers ==
    /\ raw <= LastFrame \/ (pc = "before" /\ ready)
    /\ ~ready => pc # "replay" /\ (pc = "gate" => raw < LastFrame)
    /\ ready => /\ active /\ Epoch <= logical
                /\ logical + (IF pc = "before" THEN 1 ELSE 0) <= raw
    /\ ~ready /\ restarts > 0 => active /\ Epoch < logical /\ Epoch < raw
    /\ ~ready /\ restarts = 0 /\ active =>
           /\ Epoch <= logical /\ RawStart <= logical
           /\ raw = logical + (IF pc = "before" THEN 1 ELSE 0)

\* Before the first handshake, right after the first label.
FirstLabel ==
    ~ready /\ restarts = 0 /\ active /\ logical = Epoch =>
        IF pc = "gate"
        THEN next = 0 /\ \A k \in Slots : ~slots[k].valid
        ELSE /\ next = 1 % RingCapacity
             /\ slots[0].valid /\ slots[0].frame = Epoch
             /\ slots[0].image[1] = <<0, FALSE>>
             /\ \A k \in Slots : slots[k].valid => k = 0

\* A replay is at most as long as a correction is deep.
ReplayShape ==
    pc = "replay" =>
        /\ ready /\ Epoch <= replay[1] /\ replay[1] < logical
        /\ logical - replay[1] <= MaxDepth
        /\ replay[1] <= replay[2] /\ replay[2] <= logical + 1

\* All of it.
IInv == TypeOK /\ Numbers /\ FirstLabel /\ ReplayShape /\ MatchOrder

-----------------------------------------------------------------------------
(* Remainders *)

\* The remainder of the successor.
LEMMA ModStep ==
  ASSUME NEW c \in Nat \ {0}, NEW x \in Int
  PROVE  (x + 1) % c = ((x % c) + 1) % c
<1> DEFINE q == x \div c
<1> DEFINE r == x % c
<1>1. q \in Int /\ r \in 0 .. (c - 1) /\ x = c * q + r
  BY Division
<1> HIDE DEF q, r
<1>2. CASE r + 1 < c
  <2>1. r + 1 \in 0 .. (c - 1) /\ x + 1 = c * q + (r + 1) /\ x + 1 \in Int
    BY <1>1, <1>2
  <2>2. (x + 1) % c = r + 1
    BY <1>1, <2>1, Remainder
  <2>3. (r + 1) % c = r + 1
    BY <2>1
  <2> QED  BY <2>2, <2>3 DEF r
<1>3. CASE r + 1 = c
  <2>1. c * (q + 1) = c * q + c
    BY <1>1
  <2>2. 0 \in 0 .. (c - 1) /\ x + 1 = c * (q + 1) + 0 /\ x + 1 \in Int /\ q + 1 \in Int
    BY <1>1, <1>3, <2>1
  <2>3. (x + 1) % c = 0
    BY <2>2, Remainder
  <2>4. 1 \in Int /\ c = c * 1 + 0 /\ c \in Int
    OBVIOUS
  <2>5. c % c = 0
    BY <2>2, <2>4, Remainder
  <2> QED  BY <1>3, <2>3, <2>5 DEF r
<1> QED  BY <1>1, <1>2, <1>3

\* Numbers less than c apart with the same remainder are the same.
LEMMA ModDistinct ==
  ASSUME NEW c \in Nat \ {0}, NEW x \in Int, NEW y \in Int, x % c = y % c, - c < x - y, x - y < c
  PROVE  x = y
<1> DEFINE p == x \div c
<1> DEFINE q == y \div c
<1> DEFINE r == x % c
<1>1. p \in Int /\ q \in Int /\ r \in 0 .. (c - 1) /\ x = c * p + r
  BY Division
<1>5. y = c * q + r
  BY Division
<1> HIDE DEF p, q, r
<1>2. c * (p - q) = c * p - c * q
  BY <1>1
<1>3. c * p - c * q = x - y
  BY <1>1, <1>5
<1>4. p - q = 0
  BY <1>1, <1>2, <1>3, NoMultiple
<1> QED  BY <1>1, <1>5, <1>4

\* Numbers that are c apart have the same remainder.
LEMMA ModFull ==
  ASSUME NEW c \in Nat \ {0}, NEW x \in Int
  PROVE  (x + c) % c = x % c
<1> DEFINE p == x \div c
<1> DEFINE r == x % c
<1>1. p \in Int /\ r \in 0 .. (c - 1) /\ x = c * p + r
  BY Division
<1> HIDE DEF p, r
<1>2. c * (p + 1) = c * p + c
  BY <1>1
<1>3. x + c = c * (p + 1) + r /\ p + 1 \in Int /\ x + c \in Int
  BY <1>1, <1>2
<1>4. (x + c) % c = r
  BY <1>1, <1>3, Remainder
<1> QED  BY <1>4 DEF r

-----------------------------------------------------------------------------
(* The slots *)

\* The constants are numbers.
LEMMA Constants ==
    /\ RingCapacity \in Int /\ RingCapacity >= 1 /\ RingCapacity \in Nat \ {0}
    /\ Epoch \in Int /\ Epoch >= 1 /\ RawStart \in Int /\ RawStart >= 1
    /\ LastFrame \in Int /\ RawStart <= LastFrame
    /\ Delay \in Int /\ Delay >= 0
    /\ MaxDepth \in Int /\ MaxDepth >= 0 /\ MaxDepth < RingCapacity
    /\ MaxRestarts \in Int /\ MaxRestarts >= 0
    /\ \A r \in ReadyRaw : r \in Int /\ r >= Epoch
    /\ Slots \subseteq Int /\ \A k \in Int : k \in Slots <=> 0 <= k /\ k < RingCapacity
    /\ Labels \subseteq Int /\ \A g \in Int : g \in Labels <=> 1 <= g /\ g <= LastFrame
    /\ NoFrame = 0
  BY RingAssumption, RingDriverAssumption DEF Slots, Labels, NoFrame

\* A position has a slot.
LEMMA PosSlot ==
  ASSUME NEW f \in Int, NEW b \in Int
  PROVE  Pos(f, b) \in Slots
<1>1. f - b \in Int
  OBVIOUS
<1>2. (f - b) % RingCapacity \in 0 .. (RingCapacity - 1)
  BY <1>1, Constants, Division
<1> QED  BY <1>2 DEF Pos, Slots

\* Positions that are less than a ring apart have different slots.
LEMMA PosDistinct ==
  ASSUME NEW f \in Int, NEW g \in Int, NEW b \in Int, Pos(f, b) = Pos(g, b),
         - RingCapacity < f - g, f - g < RingCapacity
  PROVE  f = g
<1>1. f - b \in Int /\ g - b \in Int /\ (f - b) - (g - b) = f - g
  OBVIOUS
<1>2. f - b = g - b
  BY <1>1, Constants, ModDistinct DEF Pos
<1> QED  BY <1>2

\* The next position has the next slot, around the end of the ring.
LEMMA PosNext ==
  ASSUME NEW f \in Int, NEW b \in Int
  PROVE  Pos(f + 1, b) = (Pos(f, b) + 1) % RingCapacity
<1>1. f - b \in Int /\ (f + 1) - b = (f - b) + 1
  OBVIOUS
<1> QED  BY <1>1, Constants, ModStep DEF Pos

\* A ring later the slot is the same.
LEMMA PosAround ==
  ASSUME NEW f \in Int, NEW b \in Int
  PROVE  Pos(f + RingCapacity, b) = Pos(f, b)
<1>1. f - b \in Int /\ (f + RingCapacity) - b = (f - b) + RingCapacity
  BY Constants
<1> QED  BY <1>1, Constants, ModFull DEF Pos

\* What a slot can hold.
SlotValues == [valid : BOOLEAN, frame : Nat, image : Images \cup {None}]

\* A capture extends what the ring holds by one position, and pushes the oldest
\* one out of a full ring.
LEMMA CaptureHolds ==
  ASSUME NEW s \in [Slots -> SlotValues], NEW b \in Int, NEW a \in Int, NEW n \in Int,
         NEW r, NEW i \in Images, NEW c \in Int,
         a <= n, n - a <= RingCapacity,
         c = IF n - a = RingCapacity THEN a + 1 ELSE a,
         Epoch <= n, i[1] = <<r, TRUE>>,
         Holds(s, b, a, n, r)
  PROVE  Holds([s EXCEPT ![Pos(n, b)] = [valid |-> TRUE, frame |-> n, image |-> i]],
               b, c, n + 1, r)
<1> DEFINE v == [valid |-> TRUE, frame |-> n, image |-> i]
<1> DEFINE t == [s EXCEPT ![Pos(n, b)] = v]
<1>1. Pos(n, b) \in Slots
  BY PosSlot
<1>2. /\ t[Pos(n, b)].valid /\ t[Pos(n, b)].frame = n /\ t[Pos(n, b)].image = i
      /\ \A k \in Slots : k # Pos(n, b) => t[k] = s[k]
  BY <1>1
<1> HIDE DEF t, v
<1>3. ASSUME NEW f \in c .. n
      PROVE  /\ t[Pos(f, b)].valid
             /\ t[Pos(f, b)].frame = LabelAt(f)
             /\ t[Pos(f, b)].image[1] = EraAt(f, r)
  <2>1. CASE f = n
    <3>1. ~ (n < Epoch)
      BY Constants
    <3>2. LabelAt(n) = n /\ EraAt(n, r) = <<r, TRUE>>
      BY <3>1, Zenon DEF LabelAt, EraAt
    <3> QED  BY <2>1, <1>2, <3>2, Zenon
  <2>2. CASE f # n
    <3>1. f \in Int /\ f \in a .. (n - 1) /\ - RingCapacity < f - n /\ f - n < RingCapacity
      BY <2>2, Constants
    <3>2. Pos(f, b) # Pos(n, b)
      BY <2>2, <3>1, PosDistinct
    <3>3. t[Pos(f, b)] = s[Pos(f, b)]
      BY <1>2, <3>1, <3>2, PosSlot
    <3> QED  BY <3>1, <3>3 DEF Holds
  <2> QED  BY <2>1, <2>2
<1>4. ASSUME NEW k \in Slots, t[k].valid
      PROVE  \E f \in c .. n : k = Pos(f, b)
  <2>1. CASE k = Pos(n, b)
    <3>1. n \in c .. n
      BY Constants
    <3> QED  BY <2>1, <3>1
  <2>2. CASE k # Pos(n, b)
    <3>1. s[k].valid
      BY <1>2, <1>4, <2>2
    <3>2. PICK f \in a .. (n - 1) : k = Pos(f, b)
      BY <3>1 DEF Holds
    <3>3. f \in c .. n
      <4>1. CASE f < c
        <5>1. f = a /\ n = f + RingCapacity /\ f \in Int
          BY <4>1, <3>2, Constants
        <5>2. Pos(n, b) = Pos(f, b)
          BY <5>1, PosAround
        <5> QED  BY <5>2, <3>2, <2>2
      <4> QED  BY <4>1, Constants
    <3> QED  BY <3>2, <3>3
  <2> QED  BY <2>1, <2>2
<1>5. (n + 1) - 1 = n
  OBVIOUS
<1> QED  BY <1>3, <1>4, <1>5 DEF Holds, t, v

\* The frames the slots of a ring of positions a to n - 1 hold.
LEMMA SlotOf ==
  ASSUME NEW s, NEW b \in Int, NEW a \in Int, NEW n \in Int, NEW r,
         Holds(s, b, a, n, r), NEW k \in Slots, s[k].valid
  PROVE  \E f \in a .. (n - 1) :
             /\ k = Pos(f, b) /\ s[k].frame = LabelAt(f) /\ s[k].image[1] = EraAt(f, r)
<1>1. PICK f \in a .. (n - 1) : k = Pos(f, b)
  BY DEF Holds
<1>2. s[k].frame = LabelAt(f) /\ s[k].image[1] = EraAt(f, r)
  BY <1>1 DEF Holds
<1> QED  BY <1>1, <1>2

-----------------------------------------------------------------------------
(* The lookup and the discard *)

\* AtOrBefore and LookupSlot in a ring s.
ValidIn(s) == {k \in Slots : s[k].valid}
Found(s, f) ==
    LET found == {s[k].frame : k \in {j \in ValidIn(s) : s[j].frame <= f}}
    IN  IF found = {} THEN NoFrame ELSE Max(found)
Copied(s, f) == Min({k \in ValidIn(s) : s[k].frame = Found(s, f)})

\* In the ring itself, before and after a step.
LEMMA FoundInRing ==
    /\ \A f : AtOrBefore(f) = Found(slots, f) /\ LookupSlot(f) = Copied(slots, f)
    /\ \A f : AtOrBefore(f)' = Found(slots', f) /\ LookupSlot(f)' = Copied(slots', f)
  BY DEF AtOrBefore, LookupSlot, Found, Copied, ValidIn, ValidSlots

\* A frame of a match that the ring holds is found, exactly.
LEMMA LookupExact ==
  ASSUME NEW s \in [Slots -> SlotValues], NEW b \in Int, NEW a \in Int, NEW n \in Int, NEW r,
         Holds(s, b, a, n, r), Epoch <= n,
         NEW m \in Int, a <= m, m < n, Epoch <= m
  PROVE  Found(s, m) = m
<1> DEFINE found == {s[k].frame : k \in {j \in ValidIn(s) : s[j].frame <= m}}
<1>1. \A k \in ValidIn(s) : k \in Slots /\ s[k].valid /\ s[k].frame \in Nat
  BY DEF ValidIn, SlotValues
<1>2. m \in found
  <2>1. m \in a .. (n - 1) /\ LabelAt(m) = m
    BY Constants DEF LabelAt
  <2>2. s[Pos(m, b)].valid /\ s[Pos(m, b)].frame = m
    BY <2>1 DEF Holds
  <2>3. Pos(m, b) \in ValidIn(s)
    BY <2>2, PosSlot DEF ValidIn
  <2> QED  BY <2>2, <2>3
<1>3. found \in SUBSET (0 .. m)
  BY <1>1
<1>4. \A x \in found : x \in Int /\ x <= m
  BY <1>3
<1> HIDE DEF found
<1>5. Max(found) \in found /\ \A x \in found : x <= Max(found)
  <2>1. 0 \in Int /\ found # {}
    BY <1>2
  <2> QED  BY <1>3, <2>1, MaxOfInterval
<1>6. Max(found) = m
  <2>1. m <= Max(found)
    BY <1>2, <1>5
  <2>2. Max(found) \in Int /\ Max(found) <= m
    BY <1>4, <1>5
  <2> QED  BY <2>1, <2>2
<1> QED  BY <1>2, <1>6 DEF Found, found

\* Where there is no frame of that number, it is not found, unless a raw frame
\* is left over under it.
LEMMA LookupAbsent ==
  ASSUME NEW s \in [Slots -> SlotValues], NEW b \in Int, NEW a \in Int, NEW n \in Int, NEW r,
         NEW m \in Int, Epoch <= m,
         Holds(s, b, a, n, r), Epoch <= a \/ Epoch < m,
         ~ (a <= m /\ m < n)
  PROVE  Found(s, m) # m
<1> DEFINE found == {s[k].frame : k \in {j \in ValidIn(s) : s[j].frame <= m}}
<1>1. \A k \in ValidIn(s) : k \in Slots /\ s[k].valid /\ s[k].frame \in Nat
  BY DEF ValidIn, SlotValues
<1>2. m \notin found
  <2>1. SUFFICES ASSUME NEW k \in ValidIn(s), s[k].frame = m PROVE FALSE
    OBVIOUS
  <2>2. PICK f \in a .. (n - 1) : s[k].frame = LabelAt(f)
    BY <1>1, SlotOf
  <2> QED  BY <2>1, <2>2, Constants DEF LabelAt
<1>3. found \in SUBSET (0 .. m)
  BY <1>1, Constants
<1>4. m \in Int /\ m >= 1
  BY Constants
<1> HIDE DEF found
<1>5. found # {} => Max(found) \in found
  <2>1. 0 \in Int
    OBVIOUS
  <2> QED  BY <1>3, <1>4, <2>1, MaxOfInterval
<1>6. Found(s, m) = IF found = {} THEN NoFrame ELSE Max(found)
  BY DEF Found, found
<1> QED  BY <1>2, <1>4, <1>5, <1>6, Constants

\* The lookup copies the slot of the capture it asks for, unless a raw frame is
\* left over under the same number.
LEMMA LookupFrame ==
  ASSUME NEW s \in [Slots -> SlotValues], NEW b \in Int, NEW a \in Int, NEW n \in Int, NEW r,
         Holds(s, b, a, n, r), Epoch <= n, n - a <= RingCapacity,
         NEW m \in Int, a <= m, m < n, Epoch <= m, Epoch < m \/ Epoch <= a
  PROVE  Copied(s, m) = Pos(m, b)
<1> DEFINE S == {k \in ValidIn(s) : s[k].frame = Found(s, m)}
<1>1. Found(s, m) = m
  BY LookupExact
<1>2. m \in a .. (n - 1) /\ LabelAt(m) = m
  BY Constants DEF LabelAt
<1>3. s[Pos(m, b)].valid /\ s[Pos(m, b)].frame = m /\ Pos(m, b) \in Slots
  BY <1>2, PosSlot DEF Holds
<1>4. Pos(m, b) \in S
  BY <1>1, <1>3 DEF ValidIn
<1>5. ASSUME NEW k \in S PROVE k = Pos(m, b)
  <2>1. k \in Slots /\ s[k].valid /\ s[k].frame = m
    BY <1>1, <1>5 DEF ValidIn
  <2>2. PICK f \in a .. (n - 1) : k = Pos(f, b) /\ s[k].frame = LabelAt(f)
    BY <2>1, SlotOf
  <2>3. f = m
    BY <2>1, <2>2, Constants DEF LabelAt
  <2> QED  BY <2>2, <2>3
<1>6. S \in SUBSET (0 .. (RingCapacity - 1))
  BY DEF ValidIn, Slots
<1> HIDE DEF S
<1>7. Min(S) \in S
  <2>1. S # {} /\ 0 \in Int /\ RingCapacity - 1 \in Int
    BY <1>4, Constants
  <2> QED  BY <1>6, <2>1, MinOfInterval
<1>8. Min(S) = Pos(m, b)
  BY <1>5, <1>7
<1> QED  BY <1>8 DEF Copied, S

\* A correction asks for frames from the delay on.
LEMMA AskedFrames ==
    \A g \in Asked : /\ g \in Int /\ g \in Labels /\ Epoch + Delay <= g
                     /\ Epoch <= g /\ (Delay > 0 => Epoch < g)
  BY Constants DEF Asked

\* What a correction can find in a ring s, by frame.
Content(s) ==
    [g \in Asked |-> IF Found(s, g) = g THEN s[Copied(s, g)].image ELSE None]

\* In a ring in order these are the images of the positions it holds.
LEMMA ContentOf ==
  ASSUME NEW s \in [Slots -> SlotValues], NEW b \in Int, NEW a \in Int, NEW n \in Int,
         NEW r, Holds(s, b, a, n, r), Epoch <= a \/ Delay > 0, n - a <= RingCapacity
  PROVE  Content(s) = [g \in Asked |->
                          IF a <= g /\ g < n THEN s[Pos(g, b)].image ELSE None]
<1> DEFINE image(g) == IF a <= g /\ g < n THEN s[Pos(g, b)].image ELSE None
<1>1. ASSUME NEW g \in Asked
      PROVE  (IF Found(s, g) = g THEN s[Copied(s, g)].image ELSE None) = image(g)
  <2>0. g \in Int /\ Epoch <= g /\ (Epoch < g \/ Epoch <= a)
    BY AskedFrames
  <2>1. CASE a <= g /\ g < n
    <3>1. Epoch <= n
      BY <2>0, <2>1, Constants
    <3>2. Found(s, g) = g /\ Copied(s, g) = Pos(g, b)
      BY <2>0, <2>1, <3>1, LookupExact, LookupFrame
    <3> QED  BY <2>1, <3>2
  <2>2. CASE ~ (a <= g /\ g < n)
    <3>1. Found(s, g) # g
      BY <2>0, <2>2, LookupAbsent
    <3> QED  BY <2>2, <3>1
  <2> QED  BY <2>1, <2>2
<1> HIDE DEF image
<1>2. Content(s) = [g \in Asked |-> image(g)]
  BY <1>1, Zenon DEF Content
<1> QED  BY <1>2 DEF image

\* A discard keeps the captures up to frame m, and the next one goes where the
\* next position belongs.
LEMMA DiscardHolds ==
  ASSUME TypeOK, NEW b \in Int, NEW a \in Int, NEW n \in Int, NEW r,
         Holds(slots, b, a, n, r), n - a <= RingCapacity, next = Pos(n, b),
         NEW m \in Int, a <= m, m < n, Epoch <= m, Discard(m)
  PROVE  /\ Holds(slots', b, a, m + 1, r)
         /\ next' = Pos(m + 1, b)
         /\ slots' \in [Slots -> SlotValues]
         /\ \A f \in a .. m : slots'[Pos(f, b)] = slots[Pos(f, b)]
<1> DEFINE D == {k \in ValidSlots : slots[k].frame > m}
<1>0. slots \in [Slots -> SlotValues]
  BY DEF TypeOK, SlotValues
<1>1. /\ slots' = [k \in Slots |->
                     IF k \in D THEN [slots[k] EXCEPT !.valid = FALSE] ELSE slots[k]]
      /\ next' = IF D = {} THEN next
                 ELSE CHOOSE k \in D : \A j \in D : slots[k].frame <= slots[j].frame
  BY DEF Discard
<1>2. \A k \in Slots : /\ k \in D => ~slots'[k].valid
                       /\ k \notin D => slots'[k] = slots[k]
  BY <1>0, <1>1 DEF SlotValues
<1>3. slots' \in [Slots -> SlotValues]
  BY <1>0, <1>1 DEF SlotValues
<1>4. ASSUME NEW f \in a .. (n - 1)
      PROVE  Pos(f, b) \in D <=> f > m
  <2>1. slots[Pos(f, b)].valid /\ slots[Pos(f, b)].frame = LabelAt(f)
        /\ Pos(f, b) \in Slots
    BY PosSlot DEF Holds
  <2>2. LabelAt(f) > m <=> f > m
    BY Constants DEF LabelAt
  <2> QED  BY <2>1, <2>2 DEF ValidSlots
<1>5. ASSUME NEW k \in D
      PROVE  \E f \in a .. (n - 1) : k = Pos(f, b) /\ f > m /\ slots[k].frame = f
  <2>1. k \in Slots /\ slots[k].valid /\ slots[k].frame > m
    BY <1>5 DEF ValidSlots
  <2>2. PICK f \in a .. (n - 1) : k = Pos(f, b) /\ slots[k].frame = LabelAt(f)
    BY <2>1, SlotOf
  <2>3. f > m /\ LabelAt(f) = f
    BY <2>1, <2>2, Constants DEF LabelAt
  <2> QED  BY <2>2, <2>3
<1>6. \A f \in a .. m : slots'[Pos(f, b)] = slots[Pos(f, b)]
  <2>1. SUFFICES ASSUME NEW f \in a .. m PROVE slots'[Pos(f, b)] = slots[Pos(f, b)]
    OBVIOUS
  <2>2. f \in a .. (n - 1) /\ ~ (f > m)
    OBVIOUS
  <2> QED  BY <1>2, <1>4, <2>2, PosSlot
<1> HIDE DEF D
<1>7. Holds(slots', b, a, m + 1, r)
  <2>1. ASSUME NEW f \in a .. m
        PROVE  /\ slots'[Pos(f, b)].valid
               /\ slots'[Pos(f, b)].frame = LabelAt(f)
               /\ slots'[Pos(f, b)].image[1] = EraAt(f, r)
    <3>1. f \in a .. (n - 1)
      OBVIOUS
    <3> QED  BY <1>6, <3>1 DEF Holds
  <2>2. ASSUME NEW k \in Slots, slots'[k].valid
        PROVE  \E f \in a .. m : k = Pos(f, b)
    <3>1. k \notin D /\ slots[k].valid
      BY <1>2, <2>2
    <3>2. PICK f \in a .. (n - 1) : k = Pos(f, b)
      BY <3>1 DEF Holds
    <3>3. f \in a .. m
      BY <1>4, <3>1, <3>2
    <3> QED  BY <3>2, <3>3
  <2>3. (m + 1) - 1 = m
    OBVIOUS
  <2> QED  BY <2>1, <2>2, <2>3 DEF Holds
<1>8. next' = Pos(m + 1, b)
  <2>1. CASE m + 1 = n
    <3>1. D = {}
      BY <1>5, <2>1
    <3> QED  BY <1>1, <2>1, <3>1
  <2>2. CASE m + 1 # n
    <3>1. m + 1 \in a .. (n - 1) /\ m + 1 > m
      BY <2>2
    <3>2. Pos(m + 1, b) \in D
      BY <1>4, <3>1
    <3>3. slots[Pos(m + 1, b)].frame = m + 1
      <4>1. LabelAt(m + 1) = m + 1
        BY Constants DEF LabelAt
      <4> QED  BY <3>1, <4>1 DEF Holds
    <3>4. \A j \in D : slots[Pos(m + 1, b)].frame <= slots[j].frame
      BY <1>5, <3>3
    <3>5. \E k \in D : \A j \in D : slots[k].frame <= slots[j].frame
      BY <3>2, <3>4
    <3> DEFINE c == CHOOSE k \in D : \A j \in D : slots[k].frame <= slots[j].frame
    <3>6. c \in D /\ \A j \in D : slots[c].frame <= slots[j].frame
      BY <3>5
    <3>7. next' = c
      BY <1>1, <3>2
    <3> HIDE DEF c
    <3>8. PICK f \in a .. (n - 1) : c = Pos(f, b) /\ f > m /\ slots[c].frame = f
      BY <1>5, <3>6
    <3>9. f = m + 1
      BY <3>2, <3>3, <3>6, <3>8
    <3> QED  BY <3>7, <3>8, <3>9
  <2> QED  BY <2>1, <2>2
<1> QED  BY <1>3, <1>6, <1>7, <1>8

-----------------------------------------------------------------------------
(* Labels and captures *)

\* A label that is the first one or goes backwards empties the ring.
LEMMA SetCheckpointFrameStep ==
  ASSUME TypeOK, NEW f \in 0 .. LastFrame, SetCheckpointFrame(f)
  PROVE  /\ slots' \in [Slots -> SlotValues] /\ next' \in Slots
         /\ active' = TRUE /\ logical' = f
         /\ ~active \/ f < logical => next' = 0 /\ \A k \in Slots : ~slots'[k].valid
         /\ active /\ logical <= f => slots' = slots /\ next' = next
<1>1. slots \in [Slots -> SlotValues] /\ next \in Slots /\ logical \in Int /\ f \in Int
  BY Constants DEF TypeOK, SlotValues
<1>2. active' = TRUE /\ logical' = f
  BY DEF SetCheckpointFrame
<1>3. CASE ~active \/ f < logical
  <2>1. slots' = [k \in Slots |-> [slots[k] EXCEPT !.valid = FALSE]] /\ next' = 0
    BY <1>3 DEF SetCheckpointFrame
  <2>2. slots' \in [Slots -> SlotValues] /\ \A k \in Slots : ~slots'[k].valid
    BY <1>1, <2>1 DEF SlotValues
  <2>3. 0 \in Slots
    BY Constants
  <2>4. ~ (active /\ logical <= f)
    BY <1>1, <1>3
  <2> QED  BY <1>2, <2>1, <2>2, <2>3, <2>4
<1>4. CASE ~ (~active \/ f < logical)
  <2>1. slots' = slots /\ next' = next
    BY <1>4 DEF SetCheckpointFrame
  <2> QED  BY <1>1, <1>2, <1>4, <2>1
<1> QED  BY <1>3, <1>4

\* The era of an image is a stretch of frames.
LEMMA EraImage ==
  ASSUME TypeOK, NEW v \in Versions
  PROVE  <<Era, v>> \in Images /\ <<Era, v>>[1] = Era
<1>1. Era \in Eras
  BY DEF TypeOK, Era, Eras
<1> QED  BY <1>1 DEF Images

\* What a capture does to the slots.
LEMMA CaptureStep ==
  ASSUME TypeOK, NEW f \in Nat, NEW v \in Versions, Capture(f, <<Era, v>>)
  PROVE  /\ slots' \in [Slots -> SlotValues] /\ next' \in Slots
         /\ next' = (next + 1) % RingCapacity
         /\ slots' = [slots EXCEPT ![next] =
                         [valid |-> TRUE, frame |-> f, image |-> <<Era, v>>]]
         /\ slots'[next] = [valid |-> TRUE, frame |-> f, image |-> <<Era, v>>]
         /\ \A k \in Slots : k # next => slots'[k] = slots[k]
<1> DEFINE i == <<Era, v>>
<1>1. i \in Images
  BY EraImage
<1>2. slots' = [slots EXCEPT ![next] = [valid |-> TRUE, frame |-> f, image |-> i]]
      /\ next' = (next + 1) % RingCapacity
  BY DEF Capture
<1>3. slots \in [Slots -> SlotValues] /\ next \in Slots /\ next \in Int
  BY Constants DEF TypeOK, SlotValues
<1> HIDE DEF i
<1>4. next + 1 \in Int
  BY <1>3
<1>5. next' \in Slots
  <2>1. (next + 1) % RingCapacity \in 0 .. (RingCapacity - 1)
    BY <1>4, Constants, Division
  <2> QED  BY <1>2, <2>1 DEF Slots
<1>6. [valid |-> TRUE, frame |-> f, image |-> i] \in SlotValues
  BY <1>1 DEF SlotValues
<1>7. /\ slots' \in [Slots -> SlotValues]
      /\ slots'[next] = [valid |-> TRUE, frame |-> f, image |-> i]
      /\ \A k \in Slots : k # next => slots'[k] = slots[k]
  BY <1>2, <1>3, <1>6
<1> QED  BY <1>2, <1>5, <1>7 DEF i

\* In a match a capture keeps the ring in order.
LEMMA MatchCapture ==
  ASSUME TypeOK, NEW b \in Int, NEW n \in Int, NEW h \in Int, NEW l \in Int,
         NEW v \in Versions, ready, Capture(n, <<Era, v>>),
         BaseOK(b), next = Pos(n, b), Holds(slots, b, Oldest(b, h), n, restarts),
         Epoch <= n, n <= h, h - RingCapacity <= n,
         l = IF n = h THEN n + 1 ELSE h
  PROVE  /\ next' = Pos(n + 1, b)
         /\ Holds(slots', b, Oldest(b, l), n + 1, restarts)
         /\ \A f \in Oldest(b, l) .. (n - 1) : slots'[Pos(f, b)] = slots[Pos(f, b)]
         /\ slots'[Pos(n, b)].image = <<Era, v>>
<1>1. b = Epoch \/ b = Epoch - 1
  BY DEF BaseOK
<1> DEFINE a == Oldest(b, h)
<1> DEFINE c == Oldest(b, l)
<1>2. /\ a \in Int /\ c \in Int /\ a <= n /\ n - a <= RingCapacity
      /\ c = IF n - a = RingCapacity THEN a + 1 ELSE a
  BY <1>1, Constants DEF Oldest
<1> HIDE DEF a, c
<1>3. <<Era, v>> \in Images /\ <<Era, v>>[1] = <<restarts, TRUE>>
  <2>1. ready = TRUE
    BY DEF TypeOK
  <2> QED  BY <2>1, EraImage DEF Era
<1>4. n \in Nat
  BY Constants
<1>5. /\ slots' = [slots EXCEPT ![Pos(n, b)] =
                      [valid |-> TRUE, frame |-> n, image |-> <<Era, v>>]]
      /\ slots'[Pos(n, b)] = [valid |-> TRUE, frame |-> n, image |-> <<Era, v>>]
      /\ \A k \in Slots : k # Pos(n, b) => slots'[k] = slots[k]
      /\ next' = (Pos(n, b) + 1) % RingCapacity
  BY <1>4, CaptureStep
<1>6. next' = Pos(n + 1, b)
  BY <1>5, PosNext
<1>7. slots \in [Slots -> SlotValues] /\ Holds(slots, b, a, n, restarts)
  BY DEF TypeOK, SlotValues, a
<1> DEFINE i == <<Era, v>>
<1>8. i \in Images /\ i[1] = <<restarts, TRUE>>
      /\ slots' = [slots EXCEPT ![Pos(n, b)] =
                      [valid |-> TRUE, frame |-> n, image |-> i]]
  BY <1>3, <1>5
<1> HIDE DEF i
<1>9. Holds(slots', b, c, n + 1, restarts)
  BY <1>2, <1>7, <1>8, CaptureHolds
<1>10. ASSUME NEW f \in c .. (n - 1) PROVE slots'[Pos(f, b)] = slots[Pos(f, b)]
  <2>1. f \in Int /\ f # n /\ - RingCapacity < f - n /\ f - n < RingCapacity
    BY <1>2, Constants
  <2>2. Pos(f, b) # Pos(n, b)
    BY <2>1, PosDistinct
  <2> QED  BY <1>5, <2>1, <2>2, PosSlot
<1>11. slots'[Pos(n, b)].image = <<Era, v>>
  BY <1>5
<1> QED  BY <1>6, <1>9, <1>10, <1>11 DEF c

-----------------------------------------------------------------------------
(* The invariant holds initially, and every step preserves it *)

\* The variables are numbers and truth values.
LEMMA Types ==
  ASSUME TypeOK
  PROVE  /\ slots \in [Slots -> SlotValues] /\ next \in Slots /\ next \in Int
         /\ active \in BOOLEAN /\ logical \in Int /\ 0 <= logical /\ logical <= LastFrame
         /\ raw \in Int /\ RawStart <= raw /\ raw <= LastFrame + 1
         /\ ready \in BOOLEAN /\ pc \in {"before", "gate", "replay"}
         /\ replay \in Nat \X Nat /\ replay[1] \in Int /\ replay[2] \in Int
         /\ restarts \in Int /\ 0 <= restarts /\ restarts <= MaxRestarts
         /\ client \in BOOLEAN
  BY Constants DEF TypeOK, SlotValues

\* Initially nothing is captured.
LEMMA InitIInv ==
  ASSUME Init
  PROVE  IInv
<1>1. [valid |-> FALSE, frame |-> 0, image |-> None] \in
          [valid : BOOLEAN, frame : Nat, image : Images \cup {None}]
  OBVIOUS
<1>2. slots \in [Slots -> [valid : BOOLEAN, frame : Nat, image : Images \cup {None}]]
  BY <1>1 DEF Init, Invalid, NoFrame
<1>3. /\ next \in Slots /\ logical \in 0 .. LastFrame
      /\ raw \in RawStart .. (LastFrame + 1) /\ restarts \in 0 .. MaxRestarts
      /\ replay \in Nat \X Nat
  BY Constants DEF Init
<1>4. TypeOK
  <2>1. /\ active \in BOOLEAN /\ ready \in BOOLEAN /\ client \in BOOLEAN
        /\ pc \in {"before", "gate", "replay"}
    BY Zenon DEF Init
  <2> QED  BY <1>2, <1>3, <2>1 DEF TypeOK
<1>5. Numbers
  BY Constants DEF Init, Numbers
<1>6. FirstLabel /\ ReplayShape /\ MatchOrder
  BY DEF Init, FirstLabel, ReplayShape, MatchOrder
<1> QED  BY <1>4, <1>5, <1>6 DEF IInv

\* A raw frame begins.
LEMMA BeginRawFrameStep ==
  ASSUME IInv, BeginRawFrame
  PROVE  IInv'
<1>1. TypeOK /\ Numbers /\ FirstLabel
  BY DEF IInv
<1>2. /\ pc = "before" /\ ~ready /\ raw < LastFrame /\ pc' = "gate"
      /\ UNCHANGED <<raw, ready, replay, restarts, client>>
  BY DEF BeginRawFrame
<1>3. MatchOrder' /\ ReplayShape'
  BY <1>2 DEF MatchOrder, ReplayShape
<1>4. CASE raw >= Epoch /\ ~(client /\ restarts > 0 /\ raw < RematchStart)
  <2>1. raw \in 0 .. LastFrame /\ SetCheckpointFrame(raw)
    BY <1>1, <1>2, <1>4, Types, Constants DEF BeginRawFrame
  <2>2. /\ slots' \in [Slots -> SlotValues] /\ next' \in Slots
        /\ active' = TRUE /\ logical' = raw
        /\ ~active \/ raw < logical => next' = 0 /\ \A k \in Slots : ~slots'[k].valid
    BY <1>1, <2>1, SetCheckpointFrameStep
  <2>3. TypeOK'
    BY <1>1, <1>2, <2>1, <2>2 DEF TypeOK, SlotValues
  <2>4. Numbers'
    BY <1>1, <1>2, <1>4, <2>2, Types, Constants DEF Numbers
  <2>5. FirstLabel'
    <3>1. SUFFICES ASSUME restarts = 0, raw = Epoch
                   PROVE  next' = 0 /\ \A k \in Slots : ~slots'[k].valid
      BY <1>2, <2>2 DEF FirstLabel
    <3>2. ~active
      BY <1>1, <1>2, <3>1, Types, Constants DEF Numbers
    <3> QED  BY <2>2, <3>2
  <2> QED  BY <1>3, <2>3, <2>4, <2>5 DEF IInv
<1>5. CASE ~ (raw >= Epoch /\ ~(client /\ restarts > 0 /\ raw < RematchStart))
  <2>1. UNCHANGED <<slots, next, active, logical>>
    BY <1>5 DEF BeginRawFrame
  <2>2. TypeOK'
    BY <1>1, <1>2, <2>1 DEF TypeOK
  <2>3. restarts = 0 => ~active
    BY <1>1, <1>2, <1>5, Types, Constants DEF Numbers
  <2>4. Numbers'
    BY <1>1, <1>2, <2>1, <2>3, Types, Constants DEF Numbers
  <2>5. FirstLabel'
    BY <1>2, <2>1, <2>3 DEF FirstLabel
  <2> QED  BY <1>3, <2>2, <2>4, <2>5 DEF IInv
<1> QED  BY <1>4, <1>5

\* The position in the ring of the first frame of a match.
LEMMA PosFirst == /\ Pos(Epoch, Epoch) = 0
                  /\ Pos(Epoch, Epoch - 1) = 1 % RingCapacity
                  /\ Pos(Epoch - 1, Epoch - 1) = 0
<1>1. Epoch - Epoch = 0 /\ Epoch - (Epoch - 1) = 1 /\ (Epoch - 1) - (Epoch - 1) = 0
  BY Constants
<1>2. 0 % RingCapacity = 0
  BY Constants
<1> QED  BY <1>1, <1>2 DEF Pos

\* The first logical frame begins: the ring is empty, or holds the raw frame
\* with the same label.
LEMMA BeginReadyFrameStep ==
  ASSUME IInv, BeginReadyFrame
  PROVE  IInv'
<1>1. TypeOK /\ Numbers /\ FirstLabel
  BY DEF IInv
<1>2. /\ pc = "before" /\ ~ready /\ raw \in ReadyRaw /\ pc' = "gate" /\ ready' = TRUE
      /\ UNCHANGED <<raw, replay, restarts, client>>
  BY DEF BeginReadyFrame
<1>3. /\ Epoch \in 0 .. LastFrame /\ SetCheckpointFrame(Epoch) /\ Epoch <= raw
      /\ raw <= LastFrame
  BY <1>1, <1>2, Types, Constants DEF BeginReadyFrame, Numbers
<1>4. /\ slots' \in [Slots -> SlotValues] /\ next' \in Slots
      /\ active' = TRUE /\ logical' = Epoch
      /\ ~active \/ Epoch < logical => next' = 0 /\ \A k \in Slots : ~slots'[k].valid
      /\ active /\ logical <= Epoch => slots' = slots /\ next' = next
  BY <1>1, <1>3, SetCheckpointFrameStep
<1>5. TypeOK'
  BY <1>1, <1>2, <1>3, <1>4 DEF TypeOK, SlotValues
<1>6. Numbers' /\ FirstLabel' /\ ReplayShape'
  BY <1>2, <1>3, <1>4, Types, Constants, <1>1 DEF Numbers, FirstLabel, ReplayShape
<1>7. NextFrame' = Epoch /\ Full' = Epoch
  BY <1>2, <1>4, Constants DEF NextFrame, Full
<1>8. CASE ~active \/ Epoch < logical
  <2>1. next' = Pos(Epoch, Epoch) /\ \A k \in Slots : ~slots'[k].valid
    BY <1>4, <1>8, PosFirst
  <2>2. Oldest(Epoch, Epoch) = Epoch /\ Epoch .. (Epoch - 1) = {}
    BY Constants DEF Oldest
  <2>3. Holds(slots', Epoch, Epoch, Epoch, restarts')
    BY <2>1, <2>2 DEF Holds
  <2>4. InOrder(Epoch)'
    BY <1>7, <2>1, <2>2, <2>3 DEF InOrder, BaseOK
  <2> QED  BY <1>5, <1>6, <2>4 DEF IInv, MatchOrder
<1>9. CASE active /\ ~(Epoch < logical)
  <2>1. restarts = 0 /\ logical = Epoch /\ raw = Epoch + 1
    BY <1>1, <1>2, <1>9, Types, Constants DEF Numbers
  <2>2. /\ next = 1 % RingCapacity
        /\ slots[0].valid /\ slots[0].frame = Epoch
        /\ slots[0].image[1] = <<0, FALSE>>
        /\ \A k \in Slots : slots[k].valid => k = 0
    BY <1>1, <1>2, <1>9, <2>1 DEF FirstLabel
  <2>3. slots' = slots /\ next' = next
    BY <1>4, <1>9, <2>1, Constants
  <2> DEFINE b == Epoch - 1
  <2>4. b \in Int /\ b < Epoch /\ b .. (Epoch - 1) = {b}
    BY Constants
  <2>5. Oldest(b, Epoch) = b
    BY Constants DEF Oldest
  <2>6. Leftover
    <3>1. RawStart <= Epoch
      BY <1>1, <1>2, <1>9, <2>1, Types, Constants DEF Numbers
    <3> QED  BY <1>2, <2>1, <3>1 DEF Leftover
  <2>7. LabelAt(b) = Epoch /\ EraAt(b, restarts) = <<0, FALSE>>
    BY <2>4, Zenon DEF LabelAt, EraAt
  <2>8. Pos(b, b) = 0 /\ Pos(Epoch, b) = 1 % RingCapacity
    BY PosFirst
  <2> HIDE DEF b
  <2>9. Holds(slots', b, b, Epoch, restarts')
    BY <1>2, <2>2, <2>3, <2>4, <2>7, <2>8 DEF Holds
  <2>10. InOrder(b)'
    <3>1. BaseOK(b)'
      BY <1>2, <2>1, <2>6 DEF BaseOK, b
    <3> QED  BY <1>7, <2>2, <2>3, <2>5, <2>8, <2>9, <3>1 DEF InOrder
  <2> QED  BY <1>5, <1>6, <2>10 DEF IInv, MatchOrder, b
<1> QED  BY <1>8, <1>9

\* The next logical frame begins.
LEMMA BeginLogicalFrameStep ==
  ASSUME IInv, BeginLogicalFrame
  PROVE  IInv' /\ slots' = slots /\ next' = next /\ NextFrame' = NextFrame /\ Full' = Full
<1>1. TypeOK /\ Numbers /\ MatchOrder
  BY DEF IInv
<1>2. /\ pc = "before" /\ ready /\ raw <= LastFrame /\ pc' = "gate"
      /\ UNCHANGED <<raw, ready, replay, restarts, client>>
      /\ SetCheckpointFrame(logical + 1)
  BY DEF BeginLogicalFrame
<1>3. active /\ logical <= logical + 1 /\ logical + 1 <= raw /\ logical + 1 \in 0 .. LastFrame
      /\ Epoch <= logical
  BY <1>1, <1>2, Types, Constants DEF Numbers
<1>4. slots' = slots /\ next' = next /\ active' = TRUE /\ logical' = logical + 1
  BY <1>1, <1>2, <1>3, SetCheckpointFrameStep
<1>5. TypeOK'
  BY <1>1, <1>2, <1>3, <1>4 DEF TypeOK
<1>6. Numbers' /\ FirstLabel' /\ ReplayShape'
  BY <1>1, <1>2, <1>3, <1>4, Types, Constants DEF Numbers, FirstLabel, ReplayShape
<1>7. NextFrame' = NextFrame /\ Full' = Full
  BY <1>1, <1>2, <1>4, Types DEF NextFrame, Full
<1>8. PICK b \in {Epoch - 1, Epoch} : InOrder(b)
  BY <1>1, <1>2 DEF MatchOrder
<1>9. InOrder(b)'
  BY <1>2, <1>4, <1>7, <1>8 DEF InOrder, BaseOK
<1> QED  BY <1>4, <1>5, <1>6, <1>7, <1>9 DEF IInv, MatchOrder

\* A rematch begins.
LEMMA BeginGenerationStep ==
  ASSUME IInv, BeginGeneration
  PROVE  IInv'
<1>1. TypeOK /\ Numbers
  BY DEF IInv
<1>2. /\ pc = "before" /\ ready /\ restarts < MaxRestarts /\ logical > Epoch
      /\ raw < LastFrame /\ pc' = "gate" /\ ready' = FALSE /\ restarts' = restarts + 1
      /\ UNCHANGED <<raw, replay, client>>
  BY DEF BeginGeneration
<1>3. active /\ logical + 1 <= raw /\ raw \in 0 .. LastFrame
  BY <1>1, <1>2, Types, Constants DEF Numbers
<1>4. /\ slots' \in [Slots -> SlotValues] /\ next' \in Slots
      /\ active' = TRUE /\ (logical' = logical \/ logical' = raw)
  <2>1. CASE client
    BY <1>1, <1>3, <2>1, Types DEF BeginGeneration
  <2>2. CASE ~client
    <3>1. SetCheckpointFrame(raw)
      BY <2>2 DEF BeginGeneration
    <3> QED  BY <1>1, <1>3, <3>1, SetCheckpointFrameStep
  <2> QED  BY <2>1, <2>2
<1>5. restarts' \in 0 .. MaxRestarts /\ restarts' > 0 /\ logical' \in 0 .. LastFrame
      /\ Epoch < logical' /\ Epoch < raw
  BY <1>1, <1>2, <1>3, <1>4, Types, Constants
<1>6. TypeOK'
  BY <1>1, <1>2, <1>4, <1>5 DEF TypeOK, SlotValues
<1>7. Numbers'
  BY <1>1, <1>2, <1>4, <1>5, Types, Constants DEF Numbers
<1>8. FirstLabel' /\ ReplayShape' /\ MatchOrder'
  BY <1>2, <1>5 DEF FirstLabel, ReplayShape, MatchOrder
<1> QED  BY <1>6, <1>7, <1>8 DEF IInv

\* The gate of a frame without a correction captures.
LEMMA NormalGateStep ==
  ASSUME IInv, NormalGate
  PROVE  IInv'
<1>1. TypeOK /\ Numbers /\ FirstLabel /\ MatchOrder
  BY DEF IInv
<1>2. /\ pc = "gate" /\ pc' = "before" /\ raw' = raw + 1
      /\ UNCHANGED <<active, logical, ready, replay, restarts, client>>
  BY DEF NormalGate
<1>3. PICK v \in Versions : Capture(CaptureFrame, <<Era, v>>)
  BY DEF NormalGate
<1>4. CaptureFrame \in Nat /\ (active => CaptureFrame = logical)
  BY <1>1, Types, Constants DEF CaptureFrame
<1>5. /\ slots' \in [Slots -> SlotValues] /\ next' \in Slots
      /\ next' = (next + 1) % RingCapacity
      /\ slots'[next] = [valid |-> TRUE, frame |-> CaptureFrame, image |-> <<Era, v>>]
      /\ \A k \in Slots : k # next => slots'[k] = slots[k]
  BY <1>1, <1>3, <1>4, CaptureStep
<1>6. raw + 1 \in RawStart .. (LastFrame + 1)
  BY <1>1, <1>2, Types, Constants DEF Numbers
<1>7. TypeOK'
  BY <1>1, <1>2, <1>5, <1>6 DEF TypeOK, SlotValues
<1>8. Numbers' /\ ReplayShape'
  BY <1>1, <1>2, Types, Constants DEF Numbers, ReplayShape
<1>9. FirstLabel'
  <2>1. SUFFICES ASSUME ~ready, restarts = 0, active, logical = Epoch
                 PROVE  /\ next' = 1 % RingCapacity
                        /\ slots'[0].valid /\ slots'[0].frame = Epoch
                        /\ slots'[0].image[1] = <<0, FALSE>>
                        /\ \A k \in Slots : slots'[k].valid => k = 0
    BY <1>2 DEF FirstLabel
  <2>2. next = 0 /\ \A k \in Slots : ~slots[k].valid
    BY <1>1, <1>2, <2>1 DEF FirstLabel
  <2>3. ready = FALSE
    BY <1>1, <2>1, Types
  <2>4. Era = <<0, FALSE>> /\ <<Era, v>>[1] = Era
    BY <2>1, <2>3 DEF Era
  <2>5. /\ slots'[0].valid /\ slots'[0].frame = CaptureFrame
        /\ slots'[0].image = <<Era, v>>
    BY <1>5, <2>2
  <2>6. next' = 1 % RingCapacity
    BY <1>5, <2>2
  <2> QED  BY <1>4, <1>5, <2>1, <2>2, <2>4, <2>5, <2>6
<1>10. MatchOrder'
  <2>1. SUFFICES ASSUME ready PROVE \E b \in {Epoch - 1, Epoch} : InOrder(b)'
    BY <1>2 DEF MatchOrder
  <2>2. PICK b \in {Epoch - 1, Epoch} : InOrder(b)
    BY <1>1, <2>1 DEF MatchOrder
  <2>3. /\ logical \in Int /\ Epoch <= logical /\ CaptureFrame = logical
        /\ NextFrame = logical /\ Full = logical
        /\ NextFrame' = logical + 1 /\ Full' = logical + 1
        /\ b \in Int /\ logical - RingCapacity <= logical
    BY <1>1, <1>2, <1>4, <2>1, Types, Constants DEF Numbers, NextFrame, Full
  <2>4. /\ next' = Pos(logical + 1, b)
        /\ Holds(slots', b, Oldest(b, logical + 1), logical + 1, restarts)
    <3>1. /\ Capture(logical, <<Era, v>>) /\ BaseOK(b) /\ next = Pos(logical, b)
          /\ Holds(slots, b, Oldest(b, logical), logical, restarts)
      BY <1>3, <2>2, <2>3 DEF InOrder
    <3>2. logical + 1 \in Int /\ logical <= logical
      BY <2>3
    <3> QED  BY <1>1, <2>1, <2>3, <3>1, <3>2, MatchCapture
  <2> QED  BY <1>2, <2>2, <2>3, <2>4 DEF InOrder, BaseOK
<1> QED  BY <1>7, <1>8, <1>9, <1>10 DEF IInv

\* The oldest position is not after a frame that can be corrected.
LEMMA OldestBound ==
  ASSUME NEW b \in {Epoch - 1, Epoch}, NEW h \in Int, Epoch <= h
  PROVE  /\ Oldest(b, h) \in Int /\ b <= Oldest(b, h) /\ Oldest(b, h) <= h
         /\ h - Oldest(b, h) <= RingCapacity
         /\ \A m \in Int : Epoch <= m /\ h - m <= RingCapacity => Oldest(b, h) <= m
  BY Constants DEF Oldest

\* A correction finds its frame, and what it discards is the rest of the ring.
LEMMA ArmStep ==
  ASSUME IInv, NEW m \in Labels, Arm(m)
  PROVE  /\ IInv' /\ AtOrBefore(m) = m
         /\ \A b \in {Epoch - 1, Epoch} : InOrder(b) =>
                /\ InOrder(b)' /\ Full' = Full /\ NextFrame' = m + 1
                /\ \A f \in Oldest(b, Full) .. m : slots'[Pos(f, b)] = slots[Pos(f, b)]
<1>1. TypeOK /\ Numbers /\ MatchOrder
  BY DEF IInv
<1>2. /\ pc = "gate" /\ pc' = "replay" /\ ready /\ Epoch + Delay <= m /\ m < logical
      /\ logical - m <= MaxDepth
      /\ Discard(AtOrBefore(m)) /\ replay' = <<AtOrBefore(m), AtOrBefore(m)>>
      /\ UNCHANGED <<active, logical, raw, ready, restarts, client>>
  BY DEF Arm, Correctable
<1>3. /\ m \in Int /\ Epoch <= m /\ logical - m <= RingCapacity /\ logical \in Int
      /\ Epoch <= logical /\ NextFrame = logical /\ Full = logical
  BY <1>1, <1>2, Types, Constants DEF NextFrame, Full, Numbers
<1>4. ASSUME NEW b \in {Epoch - 1, Epoch}, InOrder(b)
      PROVE  /\ AtOrBefore(m) = m
             /\ Holds(slots', b, Oldest(b, logical), m + 1, restarts)
             /\ next' = Pos(m + 1, b) /\ slots' \in [Slots -> SlotValues]
             /\ \A f \in Oldest(b, logical) .. m : slots'[Pos(f, b)] = slots[Pos(f, b)]
  <2> DEFINE a == Oldest(b, logical)
  <2>1. b \in Int /\ a \in Int /\ a <= m /\ a <= logical /\ logical - a <= RingCapacity
    <3>1. /\ a \in Int /\ a <= logical /\ logical - a <= RingCapacity
          /\ \A x \in Int : Epoch <= x /\ logical - x <= RingCapacity => a <= x
      BY <1>3, OldestBound
    <3>2. b \in Int
      BY Constants
    <3> HIDE DEF a
    <3> QED  BY <1>3, <3>1, <3>2
  <2>2. next = Pos(logical, b) /\ Holds(slots, b, a, logical, restarts)
    BY <1>3, <1>4 DEF InOrder
  <2> HIDE DEF a
  <2>3. slots \in [Slots -> SlotValues]
    BY <1>1, Types
  <2>4. AtOrBefore(m) = m
    <3>1. Found(slots, m) = m
      BY <1>2, <1>3, <2>1, <2>2, <2>3, LookupExact
    <3> QED  BY <3>1, FoundInRing
  <2>5. Discard(m)
    BY <1>2, <2>4
  <2>6. /\ Holds(slots', b, a, m + 1, restarts)
        /\ next' = Pos(m + 1, b)
        /\ slots' \in [Slots -> SlotValues]
        /\ \A f \in a .. m : slots'[Pos(f, b)] = slots[Pos(f, b)]
    BY <1>1, <1>2, <1>3, <2>1, <2>2, <2>5, DiscardHolds
  <2> QED  BY <2>4, <2>6 DEF a
<1>5. PICK b \in {Epoch - 1, Epoch} : InOrder(b)
  BY <1>1, <1>2 DEF MatchOrder
<1>6. AtOrBefore(m) = m /\ slots' \in [Slots -> SlotValues] /\ next' = Pos(m + 1, b)
  BY <1>4, <1>5
<1>7. replay' = <<m, m>> /\ replay'[1] = m /\ replay'[2] = m
  BY <1>2, <1>6
<1>8. next' \in Slots
  <2>1. m + 1 \in Int /\ b \in Int
    BY <1>3, Constants
  <2> QED  BY <1>6, <2>1, PosSlot
<1>9. TypeOK'
  <2>1. replay' \in Nat \X Nat
    BY <1>3, <1>7, Constants
  <2> QED  BY <1>1, <1>2, <1>6, <1>8, <2>1 DEF TypeOK, SlotValues
<1>10. Numbers' /\ FirstLabel'
  BY <1>1, <1>2, Types, Constants DEF Numbers, FirstLabel
<1>11. ReplayShape'
  BY <1>2, <1>3, <1>7 DEF ReplayShape
<1>12. NextFrame' = m + 1 /\ Full' = logical
  <2>1. NextFrame' = m + 1
    BY <1>2, <1>7 DEF NextFrame
  <2> QED  BY <1>2, <1>3, <2>1 DEF Full
<1>13. ASSUME NEW c \in {Epoch - 1, Epoch}, InOrder(c)
       PROVE  /\ InOrder(c)' /\ Full' = Full /\ NextFrame' = m + 1
              /\ \A f \in Oldest(c, Full) .. m : slots'[Pos(f, c)] = slots[Pos(f, c)]
  <2>1. BaseOK(c)
    BY <1>13 DEF InOrder
  <2> QED  BY <1>2, <1>3, <1>4, <1>12, <1>13, <2>1 DEF InOrder, BaseOK
<1>14. MatchOrder'
  BY <1>5, <1>13 DEF MatchOrder
<1> QED  BY <1>6, <1>9, <1>10, <1>11, <1>13, <1>14 DEF IInv

\* A replayed gate: the first one changes nothing, the others recapture.
LEMMA ReplayGateStep ==
  ASSUME IInv, ReplayGate
  PROVE  /\ IInv'
         /\ \/ /\ slots' = slots /\ next' = next
               /\ NextFrame' = NextFrame /\ Full' = Full
            \/ /\ NextFrame = replay[2] /\ Full = logical /\ NextFrame' = replay[2] + 1
               /\ replay[2] <= logical
               /\ \E v \in Versions : Capture(replay[2], <<Era, v>>)
<1>1. TypeOK /\ Numbers /\ ReplayShape /\ MatchOrder
  BY DEF IInv
<1>2. /\ pc = "replay" /\ replay[2] <= logical
      /\ replay' = <<replay[1], replay[2] + 1>>
      /\ UNCHANGED <<active, logical, raw, ready, pc, restarts, client>>
  BY DEF ReplayGate
<1>3. /\ replay'[1] = replay[1] /\ replay'[2] = replay[2] + 1
      /\ replay[1] \in Int /\ replay[2] \in Int /\ logical \in Int
      /\ replay' \in Nat \X Nat /\ replay[2] \in Nat
  BY <1>1, <1>2, Types
<1>4. /\ ready /\ Epoch <= replay[1] /\ replay[1] < logical
      /\ logical - replay[1] <= MaxDepth /\ replay[1] <= replay[2]
  BY <1>1, <1>2 DEF ReplayShape
<1>5. Numbers' /\ FirstLabel'
  BY <1>1, <1>2, <1>4 DEF Numbers, FirstLabel
<1>6. ReplayShape'
  BY <1>1, <1>2, <1>3 DEF ReplayShape
<1>7. PICK b \in {Epoch - 1, Epoch} : InOrder(b)
  BY <1>1, <1>4 DEF MatchOrder
<1>8. b \in Int /\ BaseOK(b)
  BY <1>7, Constants DEF InOrder
<1>9. CASE replay[2] = replay[1]
  <2>1. slots' = slots /\ next' = next
    BY <1>9 DEF ReplayGate
  <2>2. TypeOK'
    BY <1>1, <1>2, <1>3, <2>1 DEF TypeOK
  <2>3. NextFrame' = NextFrame
    BY <1>2, <1>3, <1>9 DEF NextFrame
  <2>4. Full' = Full
    BY <1>2, <2>3 DEF Full
  <2>5. InOrder(b)'
    BY <1>2, <1>7, <2>1, <2>3, <2>4 DEF InOrder, BaseOK
  <2> QED  BY <1>5, <1>6, <2>1, <2>2, <2>3, <2>4, <2>5 DEF IInv, MatchOrder
<1>10. CASE replay[2] # replay[1]
  <2>1. PICK v \in Versions : Capture(replay[2], <<Era, v>>)
    BY <1>10 DEF ReplayGate
  <2>2. slots' \in [Slots -> SlotValues] /\ next' \in Slots
    BY <1>1, <1>3, <2>1, CaptureStep
  <2>3. TypeOK'
    BY <1>1, <1>2, <1>3, <2>2 DEF TypeOK, SlotValues
  <2>4. NextFrame = replay[2] /\ Full = logical
    BY <1>2, <1>3, <1>10 DEF NextFrame, Full
  <2>5. NextFrame' = replay[2] + 1
    BY <1>2, <1>3, <1>4 DEF NextFrame
  <2>6. Full' = IF replay[2] = logical THEN replay[2] + 1 ELSE logical
    BY <1>2, <1>3, <2>5 DEF Full
  <2> DEFINE h == IF replay[2] = logical THEN replay[2] + 1 ELSE logical
  <2>7. /\ next' = Pos(replay[2] + 1, b)
        /\ Holds(slots', b, Oldest(b, h), replay[2] + 1, restarts)
    <3>1. h \in Int /\ Epoch <= replay[2] /\ logical - RingCapacity <= replay[2]
      BY <1>3, <1>4, Constants
    <3>2. next = Pos(replay[2], b) /\ Holds(slots, b, Oldest(b, logical), replay[2], restarts)
      BY <1>7, <2>4 DEF InOrder
    <3> QED  BY <1>1, <1>2, <1>3, <1>4, <1>8, <2>1, <3>1, <3>2, MatchCapture
  <2>8. InOrder(b)'
    BY <1>2, <1>8, <2>5, <2>6, <2>7 DEF InOrder, BaseOK
  <2> QED  BY <1>2, <1>5, <1>6, <2>1, <2>3, <2>4, <2>5, <2>8 DEF IInv, MatchOrder
<1> QED  BY <1>9, <1>10

\* The replay ends with the frame it began in.
LEMMA EndReplayStep ==
  ASSUME IInv, EndReplay
  PROVE  IInv' /\ slots' = slots /\ NextFrame' = NextFrame /\ Full' = Full
<1>1. TypeOK /\ Numbers /\ ReplayShape /\ MatchOrder
  BY DEF IInv
<1>2. /\ pc = "replay" /\ replay[2] > logical /\ pc' = "before" /\ raw' = raw + 1
      /\ replay' = <<NoFrame, NoFrame>>
      /\ UNCHANGED <<slots, next, active, logical, ready, restarts, client>>
  BY DEF EndReplay
<1>3. /\ ready /\ replay[1] < logical /\ replay[2] <= logical + 1
      /\ raw <= LastFrame /\ logical <= raw /\ active /\ Epoch <= logical
  BY <1>1, <1>2, Types DEF ReplayShape, Numbers
<1>4. TypeOK'
  <2>1. raw + 1 \in RawStart .. (LastFrame + 1) /\ <<NoFrame, NoFrame>> \in Nat \X Nat
    BY <1>1, <1>3, Types, Constants
  <2> QED  BY <1>1, <1>2, <2>1 DEF TypeOK
<1>5. Numbers' /\ FirstLabel' /\ ReplayShape'
  BY <1>1, <1>2, <1>3, Types, Constants DEF Numbers, FirstLabel, ReplayShape
<1>6. NextFrame = logical + 1 /\ NextFrame' = logical + 1
  BY <1>1, <1>2, <1>3, Types DEF NextFrame
<1>7. Full' = Full
  BY <1>2, <1>6 DEF Full
<1>8. PICK b \in {Epoch - 1, Epoch} : InOrder(b)
  BY <1>1, <1>3 DEF MatchOrder
<1>9. InOrder(b)'
  BY <1>2, <1>6, <1>7, <1>8 DEF InOrder, BaseOK
<1> QED  BY <1>2, <1>4, <1>5, <1>6, <1>7, <1>9 DEF IInv, MatchOrder

\* Nothing changes.
LEMMA StutterStep ==
  ASSUME IInv, UNCHANGED vars
  PROVE  IInv'
<1>1. /\ TypeOK' = TypeOK /\ Numbers' = Numbers /\ FirstLabel' = FirstLabel
      /\ ReplayShape' = ReplayShape
  BY DEF vars, TypeOK, Numbers, FirstLabel, ReplayShape
<1>2. NextFrame' = NextFrame /\ Full' = Full
  BY DEF vars, NextFrame, Full
<1>3. MatchOrder'
  BY <1>2 DEF IInv, MatchOrder, InOrder, BaseOK, vars
<1> QED  BY <1>1, <1>3 DEF IInv

\* Every step.
LEMMA NextIInv ==
  ASSUME IInv, [Next]_vars
  PROVE  IInv'
<1>1. CASE BeginRawFrame
  BY <1>1, BeginRawFrameStep
<1>2. CASE BeginReadyFrame
  BY <1>2, BeginReadyFrameStep
<1>3. CASE BeginLogicalFrame
  BY <1>3, BeginLogicalFrameStep
<1>4. CASE BeginGeneration
  BY <1>4, BeginGenerationStep
<1>5. CASE NormalGate
  BY <1>5, NormalGateStep
<1>6. ASSUME NEW m \in Labels, Arm(m) PROVE IInv'
  BY <1>6, ArmStep
<1>7. CASE ReplayGate
  BY <1>7, ReplayGateStep
<1>8. CASE EndReplay
  BY <1>8, EndReplayStep
<1>9. CASE Stopped \/ UNCHANGED vars
  BY <1>9, StutterStep DEF Stopped
<1> QED  BY <1>1, <1>2, <1>3, <1>4, <1>5, <1>6, <1>7, <1>8, <1>9 DEF Next

-----------------------------------------------------------------------------
(* The theorems *)

\* The invariant holds in every match and between them.
THEOREM RingInvariance == Spec => []IInv
<1>1. Init => IInv
  BY InitIInv
<1>2. IInv /\ [Next]_vars => IInv'
  BY NextIInv
<1> QED  BY <1>1, <1>2, PTL DEF Spec

\* NSMLNextGameRAMCheckpoint stays within the ring, and labels and frame numbers
\* within their bounds.
THEOREM TypeCorrect == Spec => []TypeOK
<1>1. IInv => TypeOK
  BY DEF IInv
<1> QED  BY <1>1, RingInvariance, PTL

\* A correction within the horizon finds the checkpoint of its frame, of this
\* match, for every capacity above the horizon and any number of rematches
\* (CopyNSMLGameRAMCheckpointAtOrBefore).  With an input delay that holds even
\* when the handshake leaves a raw frame in the ring.
THEOREM CorrectionFindsFrame ==
  ASSUME Delay > 0 \/ ~Leftover
  PROVE  Spec => []HorizonRetained
<1>1. ASSUME IInv PROVE HorizonRetained
  <2>1. SUFFICES ASSUME pc = "gate", NEW m \in Labels, Correctable(m)
                 PROVE  AtOrBefore(m) = m /\ slots[LookupSlot(m)].image[1] = Era
    BY DEF HorizonRetained
  <2>2. TypeOK /\ Numbers /\ MatchOrder
    BY <1>1 DEF IInv
  <2>3. /\ ready /\ Epoch + Delay <= m /\ m < logical /\ logical - m <= MaxDepth
        /\ m \in Int /\ logical \in Int /\ slots \in [Slots -> SlotValues]
    BY <2>1, <2>2, Types, Constants DEF Correctable
  <2>4. PICK b \in {Epoch - 1, Epoch} : InOrder(b)
    BY <2>2, <2>3 DEF MatchOrder
  <2>5. NextFrame = logical /\ Full = logical
    BY <2>1, <2>3 DEF NextFrame, Full
  <2> DEFINE a == Oldest(b, logical)
  <2>6. Holds(slots, b, a, logical, restarts)
    BY <2>4, <2>5 DEF InOrder
  <2>7. /\ b \in Int /\ a \in Int /\ a <= m /\ Epoch <= m /\ Epoch <= logical
        /\ b <= a /\ logical - a <= RingCapacity
    <3>1. /\ Epoch <= m /\ Epoch <= logical /\ logical - m <= RingCapacity /\ b \in Int
      BY <2>3, Constants
    <3>2. /\ a \in Int /\ b <= a /\ logical - a <= RingCapacity
          /\ \A x \in Int : Epoch <= x /\ logical - x <= RingCapacity => a <= x
      BY <2>3, <3>1, OldestBound
    <3> HIDE DEF a
    <3> QED  BY <2>3, <3>1, <3>2
  <2>8. Epoch < m \/ Epoch <= a
    BY <2>3, <2>4, <2>7, Constants DEF InOrder, BaseOK
  <2> HIDE DEF a
  <2>9. Found(slots, m) = m /\ Copied(slots, m) = Pos(m, b)
    BY <2>3, <2>6, <2>7, <2>8, LookupExact, LookupFrame
  <2>10. AtOrBefore(m) = m /\ LookupSlot(m) = Pos(m, b)
    BY <2>9, FoundInRing
  <2>11. slots[Pos(m, b)].image[1] = <<restarts, TRUE>>
    <3>1. m \in a .. (logical - 1) /\ ~ (m < Epoch)
      BY <2>3, <2>7, Constants
    <3>2. EraAt(m, restarts) = <<restarts, TRUE>>
      BY <3>1, Zenon DEF EraAt
    <3> QED  BY <2>6, <3>1, <3>2 DEF Holds
  <2>12. Era = <<restarts, TRUE>>
    <3>1. ready = TRUE
      BY <2>2, <2>3, Types
    <3> QED  BY <3>1 DEF Era
  <2> QED  BY <2>10, <2>11, <2>12
<1>2. IInv => HorizonRetained
  BY <1>1
<1> QED  BY <1>2, RingInvariance, PTL

\* After the handshake the ring holds nothing of another timeline, but for the
\* raw checkpoint of the label Epoch in the first match, whenever the handshake
\* completes (SetNSMLGameRAMCheckpointFrame).
THEOREM NoOtherTimeline == Spec => []OnlyThisTimeline
<1>1. ASSUME IInv PROVE OnlyThisTimeline
  <2>1. SUFFICES ASSUME pc = "gate", ready, NEW k \in ValidSlots
                 PROVE  \/ slots[k].image[1] = Era
                        \/ /\ restarts = 0 /\ slots[k].frame = Epoch
                           /\ slots[k].image[1] = <<0, FALSE>>
    BY DEF OnlyThisTimeline
  <2>2. TypeOK /\ Numbers /\ MatchOrder
    BY <1>1 DEF IInv
  <2>3. PICK b \in {Epoch - 1, Epoch} : InOrder(b)
    BY <2>1, <2>2 DEF MatchOrder
  <2>4. b \in Int /\ Epoch \in Int /\ NextFrame = logical /\ Full = logical
        /\ logical \in Int /\ Epoch <= logical
    BY <2>1, <2>2, Types, Constants DEF NextFrame, Full, Numbers
  <2> DEFINE a == Oldest(b, logical)
  <2>5. a \in Int /\ b <= a
    BY <2>4, OldestBound
  <2>6. Holds(slots, b, a, logical, restarts) /\ k \in Slots /\ slots[k].valid
    BY <2>1, <2>3, <2>4 DEF InOrder, ValidSlots
  <2> HIDE DEF a
  <2>7. PICK f \in a .. (logical - 1) :
            slots[k].frame = LabelAt(f) /\ slots[k].image[1] = EraAt(f, restarts)
    BY <2>4, <2>5, <2>6, SlotOf
  <2>8. CASE f < Epoch
    <3>1. restarts = 0
      BY <2>3, <2>4, <2>5, <2>8 DEF InOrder, BaseOK
    <3>2. LabelAt(f) = Epoch /\ EraAt(f, restarts) = <<0, FALSE>>
      BY <2>8, Zenon DEF LabelAt, EraAt
    <3> QED  BY <2>7, <3>1, <3>2
  <2>9. CASE ~ (f < Epoch)
    <3>1. EraAt(f, restarts) = <<restarts, TRUE>>
      BY <2>9, Zenon DEF EraAt
    <3>2. ready = TRUE
      BY <2>1, <2>2, Types
    <3> QED  BY <2>7, <3>1, <3>2 DEF Era
  <2> QED  BY <2>8, <2>9
<1>2. IInv => OnlyThisTimeline
  BY <1>1
<1> QED  BY <1>2, RingInvariance, PTL

-----------------------------------------------------------------------------
(* The refinement *)

\* No raw frame hides a frame that can be corrected: there is an input delay,
\* or the handshake never completes in the raw frame after Epoch.
Unhidden == Delay > 0 \/ ~Leftover

\* The images of positions a to n - 1 of a ring that was empty at position b.
Positions(s, b, a, n) ==
    [g \in Asked |-> IF a <= g /\ g < n THEN s[Pos(g, b)].image ELSE None]

\* The store is empty outside a match, ...
LEMMA StoreOutside ==
    /\ ~ready => RingStore = Store!Empty
    /\ ~ready' => RingStore' = Store!Empty
  BY DEF RingStore, Store!Empty

\* ... and in a match has what the ring holds in order.
LEMMA StoreInside ==
    Unhidden /\ IInv /\ ready =>
        /\ NextFrame \in Int /\ Full \in Int /\ Epoch <= NextFrame /\ NextFrame <= Full
        /\ Full - RingCapacity <= NextFrame
        /\ \A b \in {Epoch - 1, Epoch} : InOrder(b) =>
               RingStore = Positions(slots, b, Oldest(b, Full), NextFrame)
<1> SUFFICES ASSUME Unhidden, IInv, ready
             PROVE  /\ NextFrame \in Int /\ Full \in Int /\ Epoch <= NextFrame
                    /\ NextFrame <= Full /\ Full - RingCapacity <= NextFrame
                    /\ \A b \in {Epoch - 1, Epoch} : InOrder(b) =>
                           RingStore = Positions(slots, b, Oldest(b, Full), NextFrame)
  OBVIOUS
<1>1. RingStore = Content(slots)
  BY FoundInRing, Zenon DEF RingStore, Content
<1>2. TypeOK /\ Numbers /\ ReplayShape
  BY DEF IInv
<1>3. /\ NextFrame \in Int /\ Full \in Int /\ Epoch <= NextFrame /\ NextFrame <= Full
      /\ Full - RingCapacity <= NextFrame
  BY <1>2, Types, Constants DEF Numbers, ReplayShape, NextFrame, Full
<1>4. ASSUME NEW b \in {Epoch - 1, Epoch}, InOrder(b)
      PROVE  RingStore = Positions(slots, b, Oldest(b, Full), NextFrame)
  <2> DEFINE a == Oldest(b, Full)
  <2>1. /\ b \in Int /\ a \in Int /\ b <= a /\ NextFrame - a <= RingCapacity
    <3>1. b \in Int /\ Epoch <= Full /\ RingCapacity \in Int
      BY <1>3, Constants
    <3>2. a \in Int /\ b <= a /\ Full - a <= RingCapacity
      BY <1>3, <3>1, OldestBound
    <3> HIDE DEF a
    <3> QED  BY <1>3, <3>1, <3>2
  <2>2. Holds(slots, b, a, NextFrame, restarts) /\ slots \in [Slots -> SlotValues]
    BY <1>2, <1>4, Types DEF InOrder
  <2> HIDE DEF a
  <2>3. Epoch <= a \/ Delay > 0
    BY <1>4, <2>1, Constants DEF InOrder, BaseOK, Unhidden
  <2>4. Content(slots) = Positions(slots, b, a, NextFrame)
    BY <1>3, <2>1, <2>2, <2>3, ContentOf DEF Positions
  <2> QED  BY <1>1, <2>4 DEF a
<1> QED  BY <1>3, <1>4

\* The same after a step.
LEMMA StoreInsideLater ==
    (Unhidden /\ IInv /\ ready =>
        /\ NextFrame \in Int /\ Full \in Int /\ Epoch <= NextFrame /\ NextFrame <= Full
        /\ Full - RingCapacity <= NextFrame
        /\ \A b \in {Epoch - 1, Epoch} : InOrder(b) =>
               RingStore = Positions(slots, b, Oldest(b, Full), NextFrame))'
  BY StoreInside, PTL

\* A capture of the ring is one of the map, or of a frame nobody asks for.
LEMMA CaptureRefines ==
  ASSUME Unhidden, IInv, IInv', ready, ready', logical' = logical, restarts' = restarts,
         NextFrame <= logical, NextFrame' = NextFrame + 1,
         NEW v \in Versions, Capture(NextFrame, <<Era, v>>)
  PROVE  Store!Capture \/ RingStore' = RingStore
<1> DEFINE n == NextFrame
<1> DEFINE i == <<Era, v>>
<1>1. TypeOK /\ MatchOrder
  BY DEF IInv
<1>0. PICK b \in {Epoch - 1, Epoch} : InOrder(b)
  BY <1>1 DEF MatchOrder
<1>2. logical \in Int /\ n \in Int /\ Epoch <= n /\ n <= logical /\ Full = logical
      /\ logical - RingCapacity <= n /\ b \in Int /\ logical <= LastFrame
  BY <1>1, StoreInside, Types, Constants DEF Full
<1>3. Full' = IF n = logical THEN n + 1 ELSE logical
  BY <1>2 DEF Full
<1> DEFINE a == Oldest(b, logical)
<1> DEFINE h == IF n = logical THEN n + 1 ELSE logical
<1> DEFINE c == Oldest(b, h)
<1>5. /\ a \in Int /\ n - a <= RingCapacity
      /\ c = IF n - a = RingCapacity THEN a + 1 ELSE a
      /\ c \in Int /\ n - c < RingCapacity /\ c <= n
  BY <1>2, Constants DEF Oldest
<1>6. /\ \A f \in c .. (n - 1) : slots'[Pos(f, b)] = slots[Pos(f, b)]
      /\ slots'[Pos(n, b)].image = i
      /\ next' = Pos(n + 1, b) /\ Holds(slots', b, c, n + 1, restarts)
  <2>1. h \in Int /\ BaseOK(b) /\ next = Pos(n, b)
        /\ Holds(slots, b, a, n, restarts)
    BY <1>0, <1>2 DEF InOrder
  <2> QED  BY <1>1, <1>2, <2>1, MatchCapture
<1>7. InOrder(b)'
  BY <1>0, <1>3, <1>6 DEF InOrder, BaseOK
<1>4. RingStore = Positions(slots, b, a, n) /\ RingStore' = Positions(slots', b, c, n + 1)
  BY <1>0, <1>2, <1>3, <1>7, StoreInside, StoreInsideLater
<1>8. i \in Images
  BY <1>1, EraImage
<1>9. n < Epoch + Delay \/ n \in Asked
  BY <1>2, Constants DEF Asked
<1> HIDE DEF n, i, a, c, h
<1>10. ASSUME NEW g \in Asked
      PROVE  Positions(slots', b, c, n + 1)[g] =
                 CASE g = n                 -> i
                   [] g <= n - RingCapacity -> None
                   [] OTHER                 -> Positions(slots, b, a, n)[g]
  <2>1. g \in Int /\ RingCapacity \in Int /\ RingCapacity >= 1
    BY Constants, AskedFrames
  <2>2. /\ Positions(slots', b, c, n + 1)[g] =
               IF c <= g /\ g < n + 1 THEN slots'[Pos(g, b)].image ELSE None
        /\ Positions(slots, b, a, n)[g] =
               IF a <= g /\ g < n THEN slots[Pos(g, b)].image ELSE None
    BY DEF Positions
  <2>3. CASE g = n
    <3>1. c <= g /\ g < n + 1 /\ ~ (g <= n - RingCapacity)
      BY <1>2, <1>5, <2>1, <2>3
    <3>2. Positions(slots', b, c, n + 1)[g] = i
      BY <1>6, <2>2, <2>3, <3>1
    <3> QED  BY <2>3, <3>1, <3>2
  <2>4. CASE g # n /\ g <= n - RingCapacity
    <3>1. ~ (c <= g)
      BY <1>2, <1>5, <2>1, <2>4
    <3> QED  BY <2>2, <2>4, <3>1
  <2>5. CASE g # n /\ ~ (g <= n - RingCapacity)
    <3>1. (c <= g /\ g < n + 1) <=> (a <= g /\ g < n)
      BY <1>2, <1>5, <2>1, <2>5
    <3>2. a <= g /\ g < n => g \in c .. (n - 1)
      BY <1>2, <1>5, <2>1, <3>1
    <3>3. Positions(slots', b, c, n + 1)[g] = Positions(slots, b, a, n)[g]
      BY <1>6, <2>2, <3>1, <3>2
    <3> QED  BY <2>5, <3>3
  <2> QED  BY <2>3, <2>4, <2>5
<1>11. /\ DOMAIN Positions(slots, b, a, n) = Asked
       /\ Positions(slots', b, c, n + 1) = [g \in Asked |-> Positions(slots', b, c, n + 1)[g]]
       /\ Positions(slots, b, a, n) = [g \in Asked |-> Positions(slots, b, a, n)[g]]
  BY DEF Positions
<1>12. CASE n \in Asked
  <2>1. Positions(slots', b, c, n + 1) = Store!CaptureAtGate(Positions(slots, b, a, n), n, i)
    BY <1>10, <1>11 DEF Store!CaptureAtGate
  <2> QED  BY <1>4, <1>8, <1>12, <2>1 DEF Store!Capture
<1>13. CASE n < Epoch + Delay
  <2>1. ASSUME NEW g \in Asked
        PROVE  Positions(slots', b, c, n + 1)[g] = Positions(slots, b, a, n)[g]
    <3>1. g \in Int /\ ~ (g < n + 1) /\ ~ (g < n)
      BY <1>2, <1>13, AskedFrames, Constants
    <3> QED  BY <3>1 DEF Positions
  <2> QED  BY <1>4, <1>11, <2>1
<1> QED  BY <1>9, <1>12, <1>13

\* A correction of the ring discards from the map.
LEMMA ArmRefines ==
  ASSUME Unhidden, IInv, NEW m \in Labels, Arm(m)
  PROVE  Store!Discard
<1>1. ready /\ ready' /\ m < logical /\ Epoch <= m /\ logical - m <= RingCapacity
      /\ NextFrame = logical /\ logical \in Int /\ m \in Int /\ m + 1 \in Int
      /\ m \in Asked
  <2>1. TypeOK
    BY DEF IInv
  <2> QED  BY <2>1, Types, Constants DEF Arm, Correctable, NextFrame, Asked
<1>2. PICK b \in {Epoch - 1, Epoch} : InOrder(b)
  BY <1>1 DEF IInv, MatchOrder
<1> DEFINE a == Oldest(b, Full)
<1>3. /\ IInv' /\ InOrder(b)' /\ Full' = Full /\ NextFrame' = m + 1
      /\ \A f \in a .. m : slots'[Pos(f, b)] = slots[Pos(f, b)]
  BY <1>2, ArmStep
<1>4. RingStore = Positions(slots, b, a, logical) /\ RingStore' = Positions(slots', b, a, m + 1)
  BY <1>1, <1>2, <1>3, StoreInside, StoreInsideLater
<1>5. a \in Int
  <2>1. Full \in Int /\ Epoch <= Full
    BY <1>1, StoreInside, Constants
  <2> QED  BY <1>2, <2>1, OldestBound
<1> HIDE DEF a
<1>6. ASSUME NEW g \in Asked
      PROVE  Positions(slots', b, a, m + 1)[g] =
                 IF g > m THEN None ELSE Positions(slots, b, a, logical)[g]
  <2>1. /\ Positions(slots', b, a, m + 1)[g] =
               IF a <= g /\ g < m + 1 THEN slots'[Pos(g, b)].image ELSE None
        /\ Positions(slots, b, a, logical)[g] =
               IF a <= g /\ g < logical THEN slots[Pos(g, b)].image ELSE None
        /\ g \in Int
    BY AskedFrames DEF Positions
  <2>2. CASE g > m
    <3>1. ~ (g < m + 1)
      BY <1>1, <2>1, <2>2
    <3> QED  BY <2>1, <2>2, <3>1
  <2>3. CASE ~ (g > m)
    <3>1. g < m + 1 /\ g < logical /\ (a <= g => g \in a .. m)
      BY <1>1, <1>5, <2>1, <2>3
    <3> QED  BY <1>3, <2>1, <2>3, <3>1
  <2> QED  BY <2>2, <2>3
<1>7. DOMAIN Positions(slots, b, a, logical) = Asked
      /\ Positions(slots', b, a, m + 1) = [g \in Asked |-> Positions(slots', b, a, m + 1)[g]]
  BY DEF Positions
<1>8. Positions(slots', b, a, m + 1) = Store!DiscardAfter(Positions(slots, b, a, logical), m)
  BY <1>6, <1>7 DEF Store!DiscardAfter
<1> QED  BY <1>1, <1>4, <1>8 DEF Store!Discard

\* Every step of the ring is a step of the map, or none.
LEMMA NextRefines ==
  ASSUME Unhidden, IInv, [Next]_vars
  PROVE  [Store!Next]_RingStore
<1>0. IInv' /\ TypeOK /\ Numbers /\ MatchOrder
  BY NextIInv DEF IInv
<1>1. ASSUME slots' = slots, next' = next, NextFrame' = NextFrame, Full' = Full,
             ready' = ready, restarts' = restarts
      PROVE  RingStore' = RingStore
  <2>1. CASE ready
    <3>1. PICK b \in {Epoch - 1, Epoch} : InOrder(b)
      BY <1>0, <2>1 DEF MatchOrder
    <3>2. InOrder(b)'
      BY <1>1, <3>1 DEF InOrder, BaseOK
    <3> QED  BY <1>0, <1>1, <2>1, <3>1, <3>2, StoreInside, StoreInsideLater
  <2>2. CASE ~ready
    BY <1>1, <2>2, StoreOutside
  <2> QED  BY <2>1, <2>2
<1>2. CASE BeginRawFrame
  BY <1>2, StoreOutside DEF BeginRawFrame
<1>3. CASE BeginReadyFrame
  <2>1. ~ready /\ ready' /\ pc' = "gate" /\ logical' = Epoch
    BY <1>3 DEF BeginReadyFrame, SetCheckpointFrame
  <2>2. NextFrame' = Epoch /\ Full' = Epoch
    BY <2>1, Constants DEF NextFrame, Full
  <2>3. PICK b \in {Epoch - 1, Epoch} : InOrder(b)'
    BY <1>0, <2>1 DEF IInv, MatchOrder
  <2>4. RingStore' = Positions(slots', b, Oldest(b, Epoch), Epoch)
    BY <1>0, <2>1, <2>2, <2>3, StoreInsideLater
  <2>5. \A g \in Asked : ~ (Oldest(b, Epoch) <= g /\ g < Epoch)
    BY AskedFrames, Constants
  <2>6. Positions(slots', b, Oldest(b, Epoch), Epoch) = Store!Empty
    BY <2>5 DEF Positions, Store!Empty
  <2> QED  BY <2>1, <2>4, <2>6, StoreOutside
<1>4. CASE BeginLogicalFrame
  <2>1. ready' = ready /\ restarts' = restarts
    BY <1>4 DEF BeginLogicalFrame
  <2> QED  BY <1>1, <1>4, <2>1, BeginLogicalFrameStep
<1>5. CASE BeginGeneration
  <2>1. ~ready'
    BY <1>5 DEF BeginGeneration
  <2> QED  BY <2>1, StoreOutside DEF Store!Next, Store!Forget
<1>6. CASE NormalGate
  <2>1. /\ pc = "gate" /\ pc' = "before" /\ logical' = logical /\ ready' = ready
        /\ active' = active /\ restarts' = restarts
    BY <1>6 DEF NormalGate
  <2>2. CASE ready
    <3>1. NextFrame = logical /\ NextFrame' = logical + 1 /\ active
      BY <1>0, <2>1, <2>2 DEF NextFrame, Numbers
    <3>2. PICK v \in Versions : Capture(CaptureFrame, <<Era, v>>)
      BY <1>6 DEF NormalGate
    <3>3. CaptureFrame = NextFrame
      BY <3>1 DEF CaptureFrame
    <3>4. logical <= logical
      BY <1>0, Types
    <3> QED  BY <1>0, <2>1, <2>2, <3>1, <3>2, <3>3, <3>4, CaptureRefines DEF Store!Next
  <2>3. CASE ~ready
    BY <2>1, <2>3, StoreOutside
  <2> QED  BY <2>2, <2>3
<1>7. ASSUME NEW m \in Labels, Arm(m) PROVE Store!Discard
  BY <1>7, ArmRefines
<1>8. CASE ReplayGate
  <2>1. ready /\ ready' = ready /\ logical' = logical /\ restarts' = restarts
    BY <1>8 DEF ReplayGate, IInv, ReplayShape
  <2>2. CASE slots' = slots /\ next' = next /\ NextFrame' = NextFrame /\ Full' = Full
    BY <1>1, <2>1, <2>2
  <2>3. CASE /\ NextFrame = replay[2] /\ NextFrame' = replay[2] + 1
             /\ replay[2] <= logical
             /\ \E v \in Versions : Capture(replay[2], <<Era, v>>)
    BY <1>0, <2>1, <2>3, CaptureRefines DEF Store!Next
  <2> QED  BY <1>8, <2>2, <2>3, ReplayGateStep
<1>9. CASE EndReplay
  <2>1. ready' = ready /\ restarts' = restarts /\ next' = next
    BY <1>9 DEF EndReplay
  <2> QED  BY <1>1, <1>9, <2>1, EndReplayStep
<1>10. CASE Stopped \/ UNCHANGED vars
  <2>1. /\ slots' = slots /\ next' = next /\ ready' = ready /\ restarts' = restarts
        /\ NextFrame' = NextFrame /\ Full' = Full
    BY <1>10 DEF Stopped, vars, NextFrame, Full
  <2> QED  BY <1>1, <2>1
<1> QED  BY <1>2, <1>3, <1>4, <1>5, <1>6, <1>7, <1>8, <1>9, <1>10 DEF Next, Store!Next

\* The ring implements the map that the rollback runtime relies on: between
\* handshake and rematch a capture forgets nothing younger than the capacity, a
\* discard exactly the newer frames, and every capture is found under its frame
\* until then, for every capacity and however the ring has wrapped
\* (CaptureNSMLGameRAMCheckpointAtGate, DiscardNSMLGameRAMCheckpointsAfter).
\* Assumed is an input delay, or that the handshake never completes in the raw
\* frame after Epoch: without either the raw checkpoint of the label Epoch can
\* be found in place of the logical one.
THEOREM RingImplementsMap ==
  ASSUME Delay > 0 \/ ~Leftover
  PROVE  Spec => RingImplementsStore
<1>0. Unhidden
  BY DEF Unhidden
<1>1. Init => Store!Init
  BY StoreOutside DEF Init, Store!Init
<1>2. IInv /\ [Next]_vars => [Store!Next]_RingStore
  BY <1>0, NextRefines
<1>3. Spec => Store!Spec
  BY <1>1, <1>2, RingInvariance, PTL DEF Spec, Store!Spec
<1> QED  BY <1>3 DEF RingImplementsStore
=============================================================================
