--------------------------- MODULE DeltaStoreProofs ---------------------------
(***************************************************************************)
(* Proofs about module DeltaStore.                                         *)
(***************************************************************************)
EXTENDS DeltaStore, Extrema, FiniteSetTheorems

(* The inductive invariant *)

\* The configuration does not change.
ConfigOK ==
    /\ mode \in Modes /\ interval \in Intervals /\ skip \in Skips /\ maxResim \in MaxResims
    /\ skip => interval = 1

\* The label of the next checkpoint that may be saved.
NextSave == IF pc = "resim" THEN cursor + 1 ELSE frame

\* A correction runs up to the frame it was found in.
CursorOK == pc = "resim" => cursor \in Frames /\ cursor < frame

\* What is stored for frame g is what was saved last for it, as such or as the
\* difference from or to an earlier frame.
Exact(s, g, sv) ==
    /\ sv[g] \in Images
    /\ \/ s.kind = "full" /\ s.pages = sv[g] /\ mode # "preimage"
       \/ s.kind = "bare" /\ mode = "preimage"
       \/ /\ s.kind = "delta" /\ mode \in {"keyframe", "frame"}
          /\ s.base \in Frames /\ s.base < g /\ sv[s.base] \in Images
          /\ s.pages = Difference(sv[s.base], sv[g])
       \/ /\ s.kind = "preimage" /\ mode = "preimage"
          /\ s.base \in Frames /\ s.base < g /\ sv[s.base] \in Images
          /\ s.pages = Difference(sv[g], sv[s.base])

\* A delta has its base, and no keyframe was due between them: with a delta
\* against the frame before, nothing was.
Linked(st, g) ==
    st[g].kind = "delta" =>
        /\ st[g].base \in DOMAIN st
        /\ g % KeyframeInterval # 0 /\ g # StartFrame
        /\ \A k \in DOMAIN st : st[g].base < k /\ k < g => st[k].kind = "delta"
        /\ mode = "frame" =>
               \A h \in Frames : st[g].base < h /\ h < g => ~ ShouldSaveCheckpoint(h)
        /\ mode = "keyframe" => st[st[g].base].kind = "full"

\* All that is stored, before frame n is saved.
StoreOK(st, sv, n) ==
    /\ DOMAIN st \subseteq Frames
    /\ \A g \in DOMAIN st : /\ g < n /\ ShouldSaveCheckpoint(g)
                            /\ Exact(st[g], g, sv) /\ Linked(st, g)

StatesExact == \A g \in DOMAIN states : Exact(states[g], g, saved)
BasesKept ==
    \A g \in DOMAIN states : states[g].kind = "delta" => states[g].base \in DOMAIN states

\* A shadow with the label of a checkpoint is that checkpoint.
ShadowExact ==
    /\ shadow # None => mode \in {"frame", "preimage"}
    /\ shadow # None /\ shadow.frame \in DOMAIN states => shadow.ram = saved[shadow.frame]

\* It is the latest one.
Latest(sh, st, n) ==
    sh # None /\ sh.frame \in DOMAIN st =>
        \A h \in Frames : sh.frame < h /\ h < n => ~ ShouldSaveCheckpoint(h)

ShadowLatest == (pc = "resim" => ~ skip) => Latest(shadow, states, NextSave)

\* With a checkpoint for every frame all those of the window are there.
WindowKept ==
    interval = 1 /\ ~ skip =>
        \A g \in Frames : KeepFrom(frame - 1) <= g /\ g < NextSave => g \in DOMAIN states

\* Whatever is older than the window is there for a delta within the window.
Needed(st, h, f) ==
    /\ \E g \in DOMAIN st : /\ KeepFrom(f) <= g /\ g <= f
                            /\ \A k \in DOMAIN st : h < k /\ k <= g => st[k].kind = "delta"
    /\ mode = "keyframe" => st[h].kind = "full"

\* The window of the newest state, f.
AllNeeded(st, f) ==
    (\A g \in DOMAIN st : g <= f) =>
        \A h \in DOMAIN st : h < KeepFrom(f) => Needed(st, h, f)

NothingElse == \A f \in DOMAIN states : AllNeeded(states, f)

\* All of it.
IInv ==
    /\ TypeOK /\ ConfigOK /\ CursorOK /\ StoreOK(states, saved, NextSave)
    /\ ShadowExact /\ ShadowLatest /\ WindowKept /\ NothingElse


-----------------------------------------------------------------------------
(* Repeating a step *)

\* The step can be repeated N times from x.
Repeats(X, step, x, N) ==
    \E h \in [0 .. N -> X] : h[0] = x /\ \A n \in 1 .. N : h[n] = step[h[n - 1]]

\* Every function from a set to itself can.
LEMMA Iterates ==
  ASSUME NEW X, NEW step \in [X -> X], NEW x \in X, NEW N \in Nat
  PROVE  Repeats(X, step, x, N)
<1> DEFINE Runs(m, h) == h[0] = x /\ \A n \in 1 .. m : h[n] = step[h[n - 1]]
           Bad == {m \in Nat : ~ \E h \in [0 .. m -> X] : Runs(m, h)}
<1>1. SUFFICES Bad = {}
  BY DEF Repeats
<1>2. SUFFICES ASSUME Bad # {} PROVE FALSE
  OBVIOUS
<1>3. PICK m \in Bad : \A k \in Bad : m <= k
  <2>1. Bad \in SUBSET Nat
    OBVIOUS
  <2> HIDE DEF Bad
  <2> QED  BY <2>1, <1>2, LeastNat
<1>4. CASE m = 0
  <2> DEFINE h == [n \in 0 .. 0 |-> x]
  <2>1. h \in [0 .. 0 -> X] /\ Runs(0, h)
    OBVIOUS
  <2> HIDE DEF h
  <2> QED  BY <2>1, <1>4
<1>5. CASE m # 0
  <2>1. m \in Nat /\ m - 1 \in Nat /\ ~ (m <= m - 1)
    BY <1>5
  <2>2. PICK h \in [0 .. m - 1 -> X] : Runs(m - 1, h)
    BY <2>1, <1>3
  <2> DEFINE e == [n \in 0 .. m |-> IF n = m THEN step[h[m - 1]] ELSE h[n]]
  <2>3. h[m - 1] \in X /\ step[h[m - 1]] \in X
    BY <2>1
  <2>4. e \in [0 .. m -> X]
    BY <2>1, <2>3
  <2>5. \A n \in 0 .. m - 1 : e[n] = h[n]
    BY <2>1
  <2>6. e[m] = step[h[m - 1]]
    BY <2>1
  <2> HIDE DEF e
  <2>7. ASSUME NEW n \in 1 .. m PROVE e[n] = step[e[n - 1]]
    <3>1. CASE n = m
      BY <3>1, <2>1, <2>5, <2>6
    <3>2. CASE n # m
      BY <3>2, <2>1, <2>2, <2>5
    <3> QED  BY <3>1, <3>2
  <2>8. e[0] = x
    BY <2>1, <2>2, <2>5
  <2>9. Runs(m, e)
    BY <2>7, <2>8
  <2> QED  BY <2>4, <2>9, <1>3
<1> QED  BY <1>4, <1>5

-----------------------------------------------------------------------------
(* Pages *)

\* The difference leads from one image to the other.
LEMMA ApplyDifference ==
  ASSUME NEW a \in Images, NEW b \in Images
  PROVE  /\ Difference(a, b) \in Patches
         /\ Apply(a, Difference(a, b)) = b
<1>1. Difference(a, b) \in [Changed(a, b) -> Values] /\ Changed(a, b) \in SUBSET Pages
  BY DEF Difference, Images, Changed
<1>2. Difference(a, b) \in Patches
  BY <1>1 DEF Patches
<1>3. Apply(a, Difference(a, b)) = [p \in Pages |-> b[p]]
  BY DEF Apply, Difference, Images, Changed
<1> QED  BY <1>2, <1>3 DEF Images

\* Pages on top of an image are an image.
LEMMA ApplyImage ==
  ASSUME NEW a \in Images, NEW x \in Patches
  PROVE  Apply(a, x) \in Images
  BY DEF Apply, Images, Patches

\* Pages on top of pages are pages, and come on top of an image in either order.
LEMMA ApplyPatches ==
  ASSUME NEW a \in Images, NEW x \in Patches, NEW y \in Patches
  PROVE  /\ Apply(x, y) \in Patches
         /\ Apply(a, Apply(x, y)) = Apply(Apply(a, x), y)
<1>1. PICK S \in SUBSET Pages : x \in [S -> Values]
  BY DEF Patches
<1>2. PICK T \in SUBSET Pages : y \in [T -> Values]
  BY DEF Patches
<1>3. Apply(x, y) \in [S \cup T -> Values] /\ S \cup T \in SUBSET Pages
  BY <1>1, <1>2 DEF Apply
<1>4. Apply(x, y) \in Patches
  BY <1>3, Zenon DEF Patches
<1>5. Apply(a, Apply(x, y)) = [p \in Pages |-> IF p \in T THEN y[p] ELSE IF p \in S THEN x[p] ELSE a[p]]
  BY <1>1, <1>2 DEF Apply, Images
<1>6. Apply(Apply(a, x), y) = [p \in Pages |-> IF p \in T THEN y[p] ELSE IF p \in S THEN x[p] ELSE a[p]]
  BY <1>1, <1>2 DEF Apply, Images
<1> QED  BY <1>4, <1>5, <1>6

\* No pages change nothing.
LEMMA ApplyNothing ==
  /\ <<>> \in Patches
  /\ \A a \in Images : Apply(a, <<>>) = a
<1>1. <<>> \in [{} -> Values] /\ DOMAIN <<>> = {}
  OBVIOUS
<1>2. <<>> \in Patches
  BY <1>1 DEF Patches
<1>3. ASSUME NEW a \in Images PROVE Apply(a, <<>>) = a
  <2>1. Apply(a, <<>>) = [p \in Pages |-> a[p]]
    BY <1>1 DEF Apply, Images
  <2> QED  BY <2>1 DEF Images
<1> QED  BY <1>2, <1>3

-----------------------------------------------------------------------------
(* Restoring *)

\* The frames are numbers, and there are finitely many.
LEMMA FrameNumbers ==
    /\ StartFrame \in Nat /\ StartFrame > 0 /\ LastFrame \in Nat /\ StartFrame <= LastFrame
    /\ Window \in Nat /\ Window > 0
    /\ KeyframeInterval \in Nat /\ KeyframeInterval > 0
    /\ Frames \subseteq Int
    /\ \A f \in Int : f \in Frames <=> StartFrame <= f /\ f <= LastFrame
    /\ IsFiniteSet(Frames)
<1>1. IsFiniteSet(Frames)
  BY StoreAssumption, FS_Interval DEF Frames
<1> QED  BY <1>1, StoreAssumption DEF Frames

\* The number of stored states.
LEMMA StoreFinite ==
  ASSUME NEW st, DOMAIN st \subseteq Frames
  PROVE  IsFiniteSet(DOMAIN st) /\ Cardinality(DOMAIN st) \in Nat
  BY FrameNumbers, FS_Subset, FS_CardinalityType

\* How many states there are.
Size == Cardinality(DOMAIN states)

\* w is the walk of BuildRestoreChain from frame f.
IsWalk(w, f) ==
    /\ w \in [0 .. Size -> Marks \cup {None}]
    /\ w[0] = [frame |-> f, pages |-> <<>>]
    /\ \A n \in 1 .. Size : w[n] = ToBase(w[n - 1])

\* Where it has come to a whole image.
Hits(w) ==
    {n \in 0 .. Size :
        /\ w[n] # None /\ w[n].frame \in DOMAIN states
        /\ states[w[n].frame].kind = "full"}

\* The step from a delta to its base.
LEMMA ToBaseType ==
  ASSUME TypeOK, StatesExact, NEW at \in Marks \cup {None}
  PROVE  ToBase(at) \in Marks \cup {None}
<1>1. CASE at = None \/ at.frame \notin DOMAIN states
  BY <1>1 DEF ToBase
<1>2. CASE at # None /\ at.frame \in DOMAIN states
  <2> DEFINE s == states[at.frame]
  <2>1. CASE s.kind # "delta"
    BY <1>2, <2>1 DEF ToBase
  <2>2. CASE s.kind = "delta"
    <3>1. at \in Marks /\ at.frame \in Frames /\ at.pages \in Patches
      BY <1>2 DEF Marks
    <3>2. Exact(s, at.frame, saved)
      BY <1>2 DEF StatesExact
    <3>3. /\ s.base \in Frames /\ saved[s.base] \in Images /\ saved[at.frame] \in Images
          /\ s.pages = Difference(saved[s.base], saved[at.frame])
      BY <3>2, <2>2 DEF Exact
    <3>4. s.pages \in Patches
      BY <3>3, ApplyDifference
    <3>5. Apply(s.pages, at.pages) \in Patches
      BY <3>1, <3>3, <3>4, ApplyPatches
    <3>6. ToBase(at) = [frame |-> s.base, pages |-> Apply(s.pages, at.pages)]
      BY <1>2, <2>2 DEF ToBase
    <3> QED  BY <3>3, <3>5, <3>6 DEF Marks
  <2> QED  BY <2>1, <2>2
<1> QED  BY <1>1, <1>2

\* There is such a walk, and what is restored is found along it.
LEMMA ChainWalk ==
  ASSUME TypeOK, StatesExact, NEW f \in DOMAIN states
  PROVE  \E w : /\ IsWalk(w, f)
                /\ ChainImage(f) = IF Hits(w) = {} THEN None
                                   ELSE Apply(states[w[Min(Hits(w))].frame].pages,
                                              w[Min(Hits(w))].pages)
<1> DEFINE X == Marks \cup {None}
           step == [at \in X |-> ToBase(at)]
           start == [frame |-> f, pages |-> <<>>]
<1>1. step \in [X -> X]
  BY ToBaseType
<1>2. f \in Frames /\ start \in X
  BY ApplyNothing DEF TypeOK, Marks
<1>3. Size \in Nat
  BY StoreFinite DEF TypeOK, Size
<1>4. Repeats(X, step, start, Size)
  <2> HIDE DEF X, step, start
  <2> QED  BY <1>1, <1>2, <1>3, Iterates, Zenon
<1>5. PICK h \in [0 .. Size -> X] : h[0] = start /\ \A n \in 1 .. Size : h[n] = step[h[n - 1]]
  BY <1>4, Zenon DEF Repeats
<1>6. \A n \in 0 .. Size : n # 0 => h[n] = ToBase(h[n - 1])
  <2>1. ASSUME NEW n \in 0 .. Size, n # 0 PROVE h[n] = ToBase(h[n - 1])
    <3>1. n \in 1 .. Size /\ n - 1 \in 0 .. Size
      BY <1>3, <2>1
    <3>2. h[n - 1] \in X
      BY <3>1
    <3> QED  BY <3>1, <3>2, <1>5
  <2> QED  BY <2>1
<1>7. h = [n \in 0 .. Size |-> IF n = 0 THEN start ELSE ToBase(h[n - 1])]
  <2> HIDE DEF X, start
  <2> QED  BY <1>3, <1>5, <1>6
<1> DEFINE w == CHOOSE w : w = [n \in 0 .. Size |-> IF n = 0 THEN start ELSE ToBase(w[n - 1])]
<1>8. w = [n \in 0 .. Size |-> IF n = 0 THEN start ELSE ToBase(w[n - 1])]
  BY <1>7, Zenon
<1>9. DOMAIN w = 0 .. Size
  BY <1>8, Zenon
<1>10. ChainImage(f) = IF Hits(w) = {} THEN None
                       ELSE Apply(states[w[Min(Hits(w))].frame].pages,
                                  w[Min(Hits(w))].pages)
  <2>1. Hits(w) = {n \in DOMAIN w :
                    /\ w[n] # None /\ w[n].frame \in DOMAIN states
                    /\ states[w[n].frame].kind = "full"}
    BY <1>9, Zenon DEF Hits
  <2>2. ChainImage(f) =
            LET hits == {n \in DOMAIN w :
                            /\ w[n] # None /\ w[n].frame \in DOMAIN states
                            /\ states[w[n].frame].kind = "full"}
                last == w[Min(hits)]
            IN  IF hits = {} THEN None ELSE Apply(states[last.frame].pages, last.pages)
    BY Zenon DEF ChainImage, Size
  <2> HIDE DEF w
  <2> QED  BY <2>1, <2>2, Zenon
<1>11. w[0] = start /\ \A n \in 1 .. Size : w[n] = ToBase(w[n - 1])
  <2> HIDE DEF start, w
  <2> QED  BY <1>3, <1>8
<1>12. w \in [0 .. Size -> X]
  <2> HIDE DEF w
  <2> DEFINE Bad == {n \in 0 .. Size : w[n] \notin X}
  <2>1. SUFFICES ASSUME Bad # {} PROVE FALSE
    BY <1>8
  <2>2. PICK n \in Bad : \A k \in Bad : n <= k
    <3>1. Bad \in SUBSET Nat
      BY <1>3
    <3> HIDE DEF Bad
    <3> QED  BY <3>1, <2>1, LeastNat
  <2>3. n # 0
    BY <1>2, <1>11
  <2>4. n - 1 \in 0 .. Size /\ n \in 1 .. Size /\ ~ (n <= n - 1)
    BY <1>3, <2>3
  <2>5. w[n - 1] \in X
    BY <2>2, <2>4
  <2> QED  BY <2>4, <2>5, <1>11, ToBaseType
<1> QED
  <2> HIDE DEF w
  <2> QED  BY <1>10, <1>11, <1>12 DEF IsWalk

\* Along the walk the pages found lead from the frame reached to the first one.
LEMMA WalkExact ==
  ASSUME TypeOK, StatesExact, NEW f \in DOMAIN states, NEW w, IsWalk(w, f),
         NEW n \in 0 .. Size, w[n] # None
  PROVE  /\ saved[w[n].frame] \in Images /\ w[n].pages \in Patches
         /\ Apply(saved[w[n].frame], w[n].pages) = saved[f]
<1> DEFINE Right(k) == /\ saved[w[k].frame] \in Images /\ w[k].pages \in Patches
                       /\ Apply(saved[w[k].frame], w[k].pages) = saved[f]
           Bad == {k \in 0 .. Size : w[k] # None /\ ~ Right(k)}
<1>1. Size \in Nat
  BY StoreFinite DEF TypeOK, Size
<1>2. SUFFICES ASSUME Bad # {} PROVE FALSE
  OBVIOUS
<1>3. PICK m \in Bad : \A k \in Bad : m <= k
  <2>1. Bad \in SUBSET Nat
    BY <1>1
  <2> HIDE DEF Bad
  <2> QED  BY <2>1, <1>2, LeastNat
<1>4. m \in 0 .. Size /\ w[m] # None /\ ~ Right(m)
  OBVIOUS
<1>5. m # 0
  <2>1. saved[f] \in Images
    BY DEF StatesExact, Exact
  <2>2. w[0].frame = f /\ w[0].pages = <<>>
    BY DEF IsWalk
  <2>3. Right(0)
    BY <2>1, <2>2, ApplyNothing
  <2> QED  BY <2>3, <1>4
<1>6. m - 1 \in 0 .. Size /\ m \in 1 .. Size /\ ~ (m <= m - 1)
  BY <1>1, <1>4, <1>5
<1> DEFINE at == w[m - 1]
           s == states[at.frame]
<1>7. w[m] = ToBase(at) /\ at \in Marks \cup {None}
  BY <1>6 DEF IsWalk
<1>8. /\ at # None /\ at.frame \in DOMAIN states /\ s.kind = "delta"
      /\ w[m] = [frame |-> s.base, pages |-> Apply(s.pages, at.pages)]
  <2> HIDE DEF at
  <2> QED  BY <1>4, <1>7 DEF ToBase
<1>9. Right(m - 1)
  BY <1>3, <1>6, <1>8
<1>10. Exact(s, at.frame, saved)
  BY <1>8 DEF StatesExact
<1>11. /\ saved[s.base] \in Images /\ saved[at.frame] \in Images
       /\ s.pages = Difference(saved[s.base], saved[at.frame])
  BY <1>8, <1>10 DEF Exact
<1>12. s.pages \in Patches /\ Apply(saved[s.base], s.pages) = saved[at.frame]
  BY <1>11, ApplyDifference
<1>13. /\ Apply(s.pages, at.pages) \in Patches
       /\ Apply(saved[s.base], Apply(s.pages, at.pages)) = saved[f]
  BY <1>9, <1>11, <1>12, ApplyPatches
<1>14. w[m].frame = s.base /\ w[m].pages = Apply(s.pages, at.pages)
  BY <1>8
<1>15. Right(m)
  <2> HIDE DEF at, s
  <2> QED  BY <1>11, <1>13, <1>14
<1> QED  BY <1>4, <1>15

\* What BuildRestoreChain restores was saved.
LEMMA ChainExact ==
  ASSUME TypeOK, StatesExact, NEW f \in DOMAIN states, ChainImage(f) # None
  PROVE  ChainImage(f) = saved[f]
<1>1. PICK w : /\ IsWalk(w, f)
               /\ ChainImage(f) = IF Hits(w) = {} THEN None
                                  ELSE Apply(states[w[Min(Hits(w))].frame].pages,
                                             w[Min(Hits(w))].pages)
  BY ChainWalk
<1>2. Hits(w) # {}
  BY <1>1
<1>3. Min(Hits(w)) \in Hits(w)
  <2>1. 0 \in Int /\ Size \in Int /\ Hits(w) \in SUBSET (0 .. Size)
    BY StoreFinite DEF TypeOK, Size, Hits
  <2> QED  BY <1>2, <2>1, MinOfInterval, Zenon
<1> DEFINE n == Min(Hits(w))
<1>4. /\ n \in 0 .. Size /\ w[n] # None /\ w[n].frame \in DOMAIN states
      /\ states[w[n].frame].kind = "full"
  BY <1>3 DEF Hits
<1>5. states[w[n].frame].pages = saved[w[n].frame]
  BY <1>4 DEF StatesExact, Exact
<1>6. Apply(saved[w[n].frame], w[n].pages) = saved[f]
  BY <1>1, <1>4, WalkExact
<1> QED  BY <1>1, <1>2, <1>5, <1>6

\* The walk goes down: it has used up a state for every step.
LEMMA WalkDown ==
  ASSUME TypeOK, StatesExact, BasesKept, NEW f \in DOMAIN states,
         mode # "preimage", NEW w, IsWalk(w, f), Hits(w) = {}, NEW n \in 0 .. Size
  PROVE  /\ w[n] # None /\ w[n].frame \in DOMAIN states
         /\ Cardinality({g \in DOMAIN states : g < w[n].frame}) <= Size - 1 - n
<1> DEFINE Below(g) == {h \in DOMAIN states : h < g}
           Right(k) == /\ w[k] # None /\ w[k].frame \in DOMAIN states
                       /\ Cardinality(Below(w[k].frame)) <= Size - 1 - k
           Bad == {k \in 0 .. Size : ~ Right(k)}
<1>1. IsFiniteSet(DOMAIN states) /\ Size \in Nat /\ DOMAIN states \subseteq Int
  BY StoreFinite, FrameNumbers DEF TypeOK, Size
<1>2. SUFFICES ASSUME Bad # {} PROVE FALSE
  OBVIOUS
<1>3. PICK m \in Bad : \A k \in Bad : m <= k
  <2>1. Bad \in SUBSET Nat
    BY <1>1
  <2> HIDE DEF Bad
  <2> QED  BY <2>1, <1>2, LeastNat
<1>4. m \in 0 .. Size /\ ~ Right(m)
  OBVIOUS
<1>5. ASSUME NEW S \in SUBSET DOMAIN states, NEW g \in S
      PROVE  /\ IsFiniteSet(S) /\ Cardinality(S) \in Nat
             /\ IsFiniteSet(Below(g)) /\ Cardinality(Below(g)) \in Nat
             /\ Below(g) \subseteq S => Cardinality(Below(g)) <= Cardinality(S) - 1
  <2>1. IsFiniteSet(S)
    BY <1>1, FS_Subset
  <2>2. IsFiniteSet(S \ {g}) /\ Cardinality(S \ {g}) = Cardinality(S) - 1
    BY <2>1, FS_RemoveElement
  <2>3. IsFiniteSet(Below(g)) /\ g \notin Below(g)
    BY <1>1, FS_Subset
  <2>4. Below(g) \subseteq S => Cardinality(Below(g)) <= Cardinality(S \ {g})
    <3>1. Below(g) \subseteq S => Below(g) \subseteq S \ {g}
      BY <2>3
    <3> QED  BY <2>2, <3>1, FS_Subset
  <2> QED  BY <2>1, <2>2, <2>3, <2>4, FS_CardinalityType
<1>6. m # 0
  <2>1. w[0] # None /\ w[0].frame = f
    <3>1. w[0] \in Marks
      BY ApplyNothing DEF IsWalk, Marks, TypeOK
    <3> QED  BY <3>1, NoneAssumption DEF IsWalk
  <2>2. Cardinality(Below(f)) <= Size - 1
    BY <1>5 DEF Size
  <2>3. Right(0)
    BY <2>1, <2>2, <1>1
  <2> QED  BY <2>3, <1>4
<1>7. m - 1 \in 0 .. Size /\ m \in 1 .. Size /\ ~ (m <= m - 1)
  BY <1>1, <1>4, <1>6
<1>8. Right(m - 1)
  BY <1>3, <1>7
<1> DEFINE at == w[m - 1]
           s == states[at.frame]
<1>9. w[m] = ToBase(at)
  BY <1>7 DEF IsWalk
<1>10. at.frame \in DOMAIN states /\ at # None /\ s.kind # "full"
  BY <1>7, <1>8 DEF Hits
<1>11. Exact(s, at.frame, saved)
  BY <1>10 DEF StatesExact
<1>12. s.kind = "delta" /\ s.base < at.frame /\ s.base \in DOMAIN states
  BY <1>10, <1>11 DEF Exact, BasesKept
<1>13. w[m] = [frame |-> s.base, pages |-> Apply(s.pages, at.pages)]
  <2> HIDE DEF at
  <2> QED  BY <1>9, <1>10, <1>12 DEF ToBase
<1>14. w[m].frame = s.base /\ w[m] \in Marks \cup {None}
  BY <1>13, <1>7 DEF IsWalk
<1>15. w[m] # None
  <2>1. at \in Marks
    BY <1>7, <1>10 DEF IsWalk
  <2>2. s.base \in Frames /\ Apply(s.pages, at.pages) \in Patches
    <3>1. /\ s.base \in Frames /\ saved[s.base] \in Images /\ saved[at.frame] \in Images
          /\ s.pages = Difference(saved[s.base], saved[at.frame])
      BY <1>11, <1>12 DEF Exact
    <3> QED  BY <2>1, <3>1, ApplyDifference, ApplyPatches DEF Marks
  <2>3. w[m] \in Marks
    <3> HIDE DEF at, s
    <3> QED  BY <2>2, <1>13 DEF Marks
  <2> QED  BY <2>3, NoneAssumption
<1>16. Cardinality(Below(s.base)) <= Cardinality(Below(at.frame)) - 1
  <2>1. s.base \in Below(at.frame) /\ Below(at.frame) \in SUBSET DOMAIN states
    BY <1>12
  <2>2. Below(s.base) \subseteq Below(at.frame)
    BY <1>1, <1>10, <1>12
  <2> HIDE DEF Below, at, s
  <2> QED  BY <2>1, <2>2, <1>5
<1>17. Cardinality(Below(s.base)) \in Nat /\ Cardinality(Below(at.frame)) \in Nat
  BY <1>5, <1>10, <1>12
<1>18. Cardinality(Below(at.frame)) <= Size - 1 - (m - 1)
  BY <1>8
<1>19. Cardinality(Below(s.base)) <= Size - 1 - m
  <2> HIDE DEF Below, at, s
  <2> QED  BY <1>16, <1>17, <1>18, <1>1, <1>7
<1>20. Right(m)
  <2> HIDE DEF at, s
  <2> QED  BY <1>12, <1>14, <1>15, <1>19
<1> QED  BY <1>4, <1>20

\* A chain with all its bases ends at a whole image.
LEMMA ChainFound ==
  ASSUME TypeOK, StatesExact, BasesKept, NEW f \in DOMAIN states, mode # "preimage"
  PROVE  ChainImage(f) # None
<1>1. PICK w : /\ IsWalk(w, f)
               /\ ChainImage(f) = IF Hits(w) = {} THEN None
                                  ELSE Apply(states[w[Min(Hits(w))].frame].pages,
                                             w[Min(Hits(w))].pages)
  BY ChainWalk
<1>2. Size \in Nat
  BY StoreFinite DEF TypeOK, Size
<1>3. Hits(w) # {}
  <2>1. SUFFICES ASSUME Hits(w) = {} PROVE FALSE
    OBVIOUS
  <2> DEFINE B == {g \in DOMAIN states : g < w[Size].frame}
  <2>2. Cardinality(B) <= Size - 1 - Size
    BY <1>1, <1>2, <2>1, WalkDown
  <2>3. Cardinality(B) \in Nat
    BY StoreFinite, FS_Subset, FS_CardinalityType DEF TypeOK
  <2> HIDE DEF B
  <2> QED  BY <1>2, <2>2, <2>3
<1>4. Min(Hits(w)) \in Hits(w)
  <2>1. 0 \in Int /\ Size \in Int /\ Hits(w) \in SUBSET (0 .. Size)
    BY <1>2 DEF Hits
  <2> QED  BY <1>3, <2>1, MinOfInterval, Zenon
<1> DEFINE n == Min(Hits(w))
<1>5. /\ n \in 0 .. Size /\ w[n] # None /\ w[n].frame \in DOMAIN states
      /\ states[w[n].frame].kind = "full"
  BY <1>4 DEF Hits
<1>6. states[w[n].frame].pages = saved[w[n].frame] /\ saved[w[n].frame] \in Images
  BY <1>5 DEF StatesExact, Exact
<1>7. Apply(saved[w[n].frame], w[n].pages) = saved[f] /\ saved[f] \in Images
  <2>1. saved[f] \in Images
    BY DEF StatesExact, Exact
  <2> QED  BY <2>1, <1>1, <1>5, WalkExact
<1> QED  BY <1>1, <1>3, <1>6, <1>7, NoneAssumption

\* w is the walk of BuildPreimageRestore from the shadow.
IsWalkBack(w) ==
    /\ w \in [0 .. Size -> Shadows \cup {None}]
    /\ w[0] = shadow
    /\ \A n \in 1 .. Size : w[n] = ToPreimage(w[n - 1])

\* Where it has come to frame f.
HitsBack(w, f) == {n \in 0 .. Size : w[n] # None /\ w[n].frame = f}

\* The step from a frame to the one before it.
LEMMA ToPreimageType ==
  ASSUME TypeOK, StatesExact, NEW at \in Shadows \cup {None}
  PROVE  ToPreimage(at) \in Shadows \cup {None}
<1>1. CASE at = None \/ at.frame \notin DOMAIN states
  BY <1>1 DEF ToPreimage
<1>2. CASE at # None /\ at.frame \in DOMAIN states
  <2> DEFINE s == states[at.frame]
  <2>1. CASE s.kind # "preimage" \/ s.base >= at.frame
    BY <1>2, <2>1 DEF ToPreimage
  <2>2. CASE s.kind = "preimage" /\ ~ (s.base >= at.frame)
    <3>1. at \in Shadows /\ at.frame \in Frames /\ at.ram \in Images
      BY <1>2 DEF Shadows
    <3>2. Exact(s, at.frame, saved)
      BY <1>2 DEF StatesExact
    <3>3. /\ s.base \in Frames /\ saved[s.base] \in Images /\ saved[at.frame] \in Images
          /\ s.pages = Difference(saved[at.frame], saved[s.base])
      BY <3>2, <2>2 DEF Exact
    <3>4. Apply(at.ram, s.pages) \in Images
      BY <3>1, <3>3, ApplyDifference, ApplyImage
    <3>5. ToPreimage(at) = [frame |-> s.base, ram |-> Apply(at.ram, s.pages)]
      BY <1>2, <2>2 DEF ToPreimage
    <3> QED  BY <3>3, <3>4, <3>5 DEF Shadows
  <2> QED  BY <2>1, <2>2
<1> QED  BY <1>1, <1>2

\* There is such a walk, and what is restored is found along it.
LEMMA PreimageWalk ==
  ASSUME TypeOK, StatesExact, NEW f \in DOMAIN states
  PROVE  \E w : /\ IsWalkBack(w)
                /\ PreimageImage(f) = IF HitsBack(w, f) = {} THEN None
                                      ELSE w[Min(HitsBack(w, f))].ram
<1> DEFINE X == Shadows \cup {None}
           step == [at \in X |-> ToPreimage(at)]
<1>1. step \in [X -> X]
  BY ToPreimageType
<1>2. shadow \in X
  BY DEF TypeOK
<1>3. Size \in Nat
  BY StoreFinite DEF TypeOK, Size
<1>4. Repeats(X, step, shadow, Size)
  <2> HIDE DEF X, step
  <2> QED  BY <1>1, <1>2, <1>3, Iterates, Zenon
<1>5. PICK h \in [0 .. Size -> X] : h[0] = shadow /\ \A n \in 1 .. Size : h[n] = step[h[n - 1]]
  BY <1>4, Zenon DEF Repeats
<1>6. ASSUME NEW n \in 0 .. Size, n # 0 PROVE h[n] = ToPreimage(h[n - 1])
  <2>1. n \in 1 .. Size /\ n - 1 \in 0 .. Size
    BY <1>3, <1>6
  <2>2. h[n - 1] \in X
    BY <2>1
  <2> QED  BY <2>1, <2>2, <1>5
<1>7. h = [n \in 0 .. Size |-> IF n = 0 THEN shadow ELSE ToPreimage(h[n - 1])]
  <2> HIDE DEF X
  <2> QED  BY <1>3, <1>5, <1>6
<1> DEFINE w == CHOOSE w : w = [n \in 0 .. Size |-> IF n = 0 THEN shadow
                                                    ELSE ToPreimage(w[n - 1])]
<1>8. w = [n \in 0 .. Size |-> IF n = 0 THEN shadow ELSE ToPreimage(w[n - 1])]
  BY <1>7, Zenon
<1>9. DOMAIN w = 0 .. Size
  BY <1>8, Zenon
<1>10. PreimageImage(f) = IF HitsBack(w, f) = {} THEN None ELSE w[Min(HitsBack(w, f))].ram
  <2>1. HitsBack(w, f) = {n \in DOMAIN w : w[n] # None /\ w[n].frame = f}
    BY <1>9, Zenon DEF HitsBack
  <2>2. PreimageImage(f) =
            LET hits == {n \in DOMAIN w : w[n] # None /\ w[n].frame = f}
            IN  IF hits = {} THEN None ELSE w[Min(hits)].ram
    BY Zenon DEF PreimageImage, Size
  <2> HIDE DEF w
  <2> QED  BY <2>1, <2>2, Zenon
<1>11. w[0] = shadow /\ \A n \in 1 .. Size : w[n] = ToPreimage(w[n - 1])
  <2> HIDE DEF w
  <2> QED  BY <1>3, <1>8
<1>12. w \in [0 .. Size -> X]
  <2> HIDE DEF w
  <2> DEFINE Bad == {n \in 0 .. Size : w[n] \notin X}
  <2>1. SUFFICES ASSUME Bad # {} PROVE FALSE
    BY <1>8
  <2>2. PICK n \in Bad : \A k \in Bad : n <= k
    <3>1. Bad \in SUBSET Nat
      BY <1>3
    <3> HIDE DEF Bad
    <3> QED  BY <3>1, <2>1, LeastNat
  <2>3. n # 0
    BY <1>2, <1>11
  <2>4. n - 1 \in 0 .. Size /\ n \in 1 .. Size /\ ~ (n <= n - 1)
    BY <1>3, <2>3
  <2>5. w[n - 1] \in X
    BY <2>2, <2>4
  <2> QED  BY <2>4, <2>5, <1>11, ToPreimageType
<1> QED
  <2> HIDE DEF w
  <2> QED  BY <1>10, <1>11, <1>12 DEF IsWalkBack

\* The walk has the RAM of every checkpoint it comes to.
LEMMA WalkBackExact ==
  ASSUME TypeOK, StatesExact, ShadowExact, NEW w, IsWalkBack(w),
         NEW n \in 0 .. Size, w[n] # None, w[n].frame \in DOMAIN states
  PROVE  w[n].ram = saved[w[n].frame]
<1> DEFINE Right(k) == w[k].frame \in DOMAIN states => w[k].ram = saved[w[k].frame]
           Bad == {k \in 0 .. Size : w[k] # None /\ ~ Right(k)}
<1>1. Size \in Nat
  BY StoreFinite DEF TypeOK, Size
<1>2. SUFFICES ASSUME Bad # {} PROVE FALSE
  OBVIOUS
<1>3. PICK m \in Bad : \A k \in Bad : m <= k
  <2>1. Bad \in SUBSET Nat
    BY <1>1
  <2> HIDE DEF Bad
  <2> QED  BY <2>1, <1>2, LeastNat
<1>4. m \in 0 .. Size /\ w[m] # None /\ ~ Right(m)
  OBVIOUS
<1>5. m # 0
  BY <1>4 DEF IsWalkBack, ShadowExact
<1>6. m - 1 \in 0 .. Size /\ m \in 1 .. Size /\ ~ (m <= m - 1)
  BY <1>1, <1>4, <1>5
<1> DEFINE at == w[m - 1]
           s == states[at.frame]
<1>7. w[m] = ToPreimage(at)
  BY <1>6 DEF IsWalkBack
<1>8. /\ at # None /\ at.frame \in DOMAIN states /\ s.kind = "preimage"
      /\ w[m] = [frame |-> s.base, ram |-> Apply(at.ram, s.pages)]
  <2> HIDE DEF at
  <2> QED  BY <1>4, <1>7 DEF ToPreimage
<1>9. at.ram = saved[at.frame]
  BY <1>3, <1>6, <1>8
<1>10. Exact(s, at.frame, saved)
  BY <1>8 DEF StatesExact
<1>11. /\ saved[s.base] \in Images /\ saved[at.frame] \in Images
       /\ s.pages = Difference(saved[at.frame], saved[s.base])
  BY <1>8, <1>10 DEF Exact
<1>12. Apply(saved[at.frame], s.pages) = saved[s.base]
  BY <1>11, ApplyDifference
<1>13. w[m].frame = s.base /\ w[m].ram = Apply(at.ram, s.pages)
  BY <1>8
<1>14. Right(m)
  <2> HIDE DEF at, s
  <2> QED  BY <1>9, <1>12, <1>13
<1> QED  BY <1>4, <1>14

\* What BuildPreimageRestore restores was saved.
LEMMA PreimageExact ==
  ASSUME TypeOK, StatesExact, ShadowExact, NEW f \in DOMAIN states,
         PreimageImage(f) # None
  PROVE  PreimageImage(f) = saved[f]
<1>1. PICK w : /\ IsWalkBack(w)
               /\ PreimageImage(f) = IF HitsBack(w, f) = {} THEN None
                                     ELSE w[Min(HitsBack(w, f))].ram
  BY PreimageWalk
<1>2. HitsBack(w, f) # {}
  BY <1>1
<1>3. Min(HitsBack(w, f)) \in HitsBack(w, f)
  <2>1. 0 \in Int /\ Size \in Int /\ HitsBack(w, f) \in SUBSET (0 .. Size)
    BY StoreFinite DEF TypeOK, Size, HitsBack
  <2> QED  BY <1>2, <2>1, MinOfInterval, Zenon
<1> DEFINE n == Min(HitsBack(w, f))
<1>4. n \in 0 .. Size /\ w[n] # None /\ w[n].frame = f
  BY <1>3 DEF HitsBack
<1>5. w[n].ram = saved[f]
  BY <1>1, <1>4, WalkBackExact
<1> QED  BY <1>1, <1>2, <1>5

\* Whatever is restored was saved.
LEMMA RestoredExact ==
  ASSUME TypeOK, StatesExact, ShadowExact, NEW f \in DOMAIN states, Restored(f) # None
  PROVE  Restored(f) = saved[f] /\ saved[f] \in Images
<1>1. saved[f] \in Images
  BY DEF StatesExact, Exact
<1>2. Restored(f) = saved[f]
  BY ChainExact, PreimageExact DEF Restored
<1> QED  BY <1>1, <1>2

-----------------------------------------------------------------------------
(* Saving *)

\* Prune keeps the window and all it builds on, and nothing else.
LEMMA PruneKeeps ==
  ASSUME NEW st, NEW sh, NEW f
  PROVE  /\ DOMAIN Prune(st, sh, f) \subseteq DOMAIN st
         /\ \A g \in DOMAIN Prune(st, sh, f) : Prune(st, sh, f)[g] = st[g]
         /\ \A g \in DOMAIN st : g >= KeepFrom(f) => g \in DOMAIN Prune(st, sh, f)
         /\ HasBases(st, DOMAIN Prune(st, sh, f))
         /\ \A S \in SUBSET DOMAIN st :
                /\ \A g \in DOMAIN st : g >= KeepFrom(f) => g \in S
                /\ sh # None /\ sh.frame \in DOMAIN st => sh.frame \in S
                /\ HasBases(st, S)
                => DOMAIN Prune(st, sh, f) \subseteq S
<1> DEFINE inWindow == {g \in DOMAIN st : g >= KeepFrom(f)}
           shadowed == IF sh = None THEN {} ELSE {sh.frame} \cap DOMAIN st
           roots == inWindow \cup shadowed
           req == RequiredFrames(st, roots)
           keep == inWindow \cup req
<1>1. Prune(st, sh, f) = [g \in keep |-> st[g]]
  BY DEF Prune
<1>2. roots \subseteq DOMAIN st /\ inWindow \subseteq roots
  OBVIOUS
<1> HIDE DEF roots
<1>3. req \subseteq DOMAIN st /\ roots \subseteq req
  BY <1>2 DEF RequiredFrames
<1>4. HasBases(st, req)
  <2>1. SUFFICES ASSUME NEW g \in req, st[g].kind = "delta", st[g].base \in DOMAIN st
                 PROVE  st[g].base \in req
    BY DEF HasBases
  <2>2. ASSUME NEW S \in SUBSET DOMAIN st, roots \subseteq S, HasBases(st, S)
        PROVE  st[g].base \in S
    <3>1. g \in S
      BY <2>2 DEF RequiredFrames
    <3> QED  BY <2>1, <2>2, <3>1 DEF HasBases
  <2> QED  BY <2>1, <2>2 DEF RequiredFrames
<1>5. \A S \in SUBSET DOMAIN st : roots \subseteq S /\ HasBases(st, S) => req \subseteq S
  BY DEF RequiredFrames
<1>6. keep = req
  BY <1>2, <1>3
<1>7. DOMAIN Prune(st, sh, f) = req /\ \A g \in req : Prune(st, sh, f)[g] = st[g]
  BY <1>1, <1>6
<1> HIDE DEF req
<1>8. \A g \in DOMAIN st : g >= KeepFrom(f) => g \in req
  BY <1>2, <1>3
<1>9. ASSUME NEW S \in SUBSET DOMAIN st,
             \A g \in DOMAIN st : g >= KeepFrom(f) => g \in S,
             sh # None /\ sh.frame \in DOMAIN st => sh.frame \in S
      PROVE  roots \subseteq S
  BY <1>9 DEF roots
<1> QED  BY <1>3, <1>4, <1>5, <1>7, <1>8, <1>9

\* A pruned store is a store.
LEMMA PruneOK ==
  ASSUME NEW st, NEW sv, NEW n, StoreOK(st, sv, n), NEW sh, NEW f
  PROVE  StoreOK(Prune(st, sh, f), sv, n)
<1> DEFINE new == Prune(st, sh, f)
<1>1. /\ DOMAIN new \subseteq DOMAIN st /\ \A g \in DOMAIN new : new[g] = st[g]
      /\ HasBases(st, DOMAIN new)
  BY PruneKeeps
<1> HIDE DEF new
<1>2. ASSUME NEW g \in DOMAIN new PROVE Linked(new, g)
  <2>1. Linked(st, g) /\ new[g] = st[g] /\ g \in DOMAIN st
    BY <1>1 DEF StoreOK
  <2>2. CASE st[g].kind = "delta"
    <3>1. st[g].base \in DOMAIN st
      BY <2>1, <2>2 DEF Linked
    <3>2. st[g].base \in DOMAIN new /\ new[st[g].base] = st[st[g].base]
      BY <1>1, <2>1, <2>2, <3>1 DEF HasBases
    <3>3. \A k \in DOMAIN new : k \in DOMAIN st /\ new[k] = st[k]
      BY <1>1
    <3> QED  BY <2>1, <2>2, <3>2, <3>3 DEF Linked
  <2> QED  BY <2>1, <2>2 DEF Linked
<1>3. ASSUME NEW g \in DOMAIN new
      PROVE  g < n /\ ShouldSaveCheckpoint(g) /\ Exact(new[g], g, sv)
  BY <1>1 DEF StoreOK
<1> QED  BY <1>1, <1>2, <1>3 DEF StoreOK, new

\* The state s fits the store as the one of frame f.
Prepared(s, f, sv) ==
    /\ Exact(s, f, sv)
    /\ s.kind = "delta" =>
           /\ s.base \in DOMAIN states /\ s.base < f
           /\ f % KeyframeInterval # 0 /\ f # StartFrame
           /\ \A k \in DOMAIN states : s.base < k => states[k].kind = "delta"
           /\ mode = "frame" =>
                  \A h \in Frames : s.base < h /\ h < f => ~ ShouldSaveCheckpoint(h)
           /\ mode = "keyframe" => states[s.base].kind = "full"

\* What PrepareSave prepares does.
LEMMA PrepareSaveOK ==
  ASSUME TypeOK, ConfigOK, ShadowExact, NEW f \in Frames, NEW img \in Images,
         StoreOK(states, saved, f), Latest(shadow, states, f), NEW s,
         s = PrepareSave(states, f, img), NEW sv, sv = [saved EXCEPT ![f] = img]
  PROVE  Prepared(s, f, sv)
<1> USE DEF Prepared
<1>1. sv[f] = img /\ \A g \in Frames : g # f => sv[g] = saved[g]
  BY DEF TypeOK
<1>2. mode \in {"full", "keyframe", "frame", "preimage"}
  BY StoreAssumption DEF ConfigOK
<1>3. \A g \in DOMAIN states : /\ g \in Frames /\ g < f /\ g # f /\ sv[g] = saved[g]
                               /\ saved[g] \in Images /\ ShouldSaveCheckpoint(g)
  <2>1. ASSUME NEW g \in DOMAIN states
        PROVE  /\ g \in Frames /\ g < f /\ saved[g] \in Images /\ ShouldSaveCheckpoint(g)
    BY DEF StoreOK, Exact
  <2>2. \A g \in DOMAIN states : g # f
    BY <2>1, FrameNumbers
  <2> QED  BY <1>1, <2>1, <2>2
<1>4. CASE s = Full(img) /\ mode # "preimage"
  BY <1>1, <1>4 DEF Full, Exact
<1>5. CASE s = Bare /\ mode = "preimage"
  BY <1>1, <1>5 DEF Bare, Exact
<1>6. ASSUME UsableShadow(states)
      PROVE  /\ shadow.frame \in DOMAIN states /\ shadow.ram = saved[shadow.frame]
             /\ \A h \in Frames : shadow.frame < h /\ h < f => ~ ShouldSaveCheckpoint(h)
  BY <1>6 DEF UsableShadow, ShadowExact, Latest
<1>7. CASE mode = "preimage" /\ UsableShadow(states)
  <2> DEFINE b == shadow.frame
  <2>1. s = Preimage(b, shadow.ram, img)
    BY <1>7 DEF PrepareSave
  <2>2. b \in DOMAIN states /\ shadow.ram = saved[b]
    BY <1>6, <1>7
  <2>3. /\ s.kind = "preimage" /\ s.base = b /\ s.pages = Difference(img, saved[b])
    BY <2>1, <2>2 DEF Preimage
  <2>4. b \in Frames /\ b < f /\ sv[b] = saved[b] /\ saved[b] \in Images
    BY <1>3, <2>2
  <2> HIDE DEF b
  <2> QED  BY <2>3, <2>4, <1>1, <1>7 DEF Exact
<1>8. ForceKeyframe(states, f) \/ (f % KeyframeInterval # 0 /\ f # StartFrame)
  BY DEF ForceKeyframe
<1>9. CASE mode = "frame" /\ ~ ForceKeyframe(states, f) /\ UsableShadow(states)
  <2> DEFINE b == shadow.frame
  <2>1. s = Delta(b, shadow.ram, img)
    BY <1>9 DEF PrepareSave
  <2>2. /\ b \in DOMAIN states /\ shadow.ram = saved[b]
        /\ \A h \in Frames : b < h /\ h < f => ~ ShouldSaveCheckpoint(h)
    BY <1>6, <1>9
  <2>3. s.kind = "delta" /\ s.base = b /\ s.pages = Difference(saved[b], img)
    BY <2>1, <2>2 DEF Delta
  <2>4. b \in Frames /\ b < f /\ sv[b] = saved[b] /\ saved[b] \in Images
    BY <1>3, <2>2
  <2> HIDE DEF b
  <2>5. Exact(s, f, sv)
    BY <2>3, <2>4, <1>1, <1>9 DEF Exact
  <2>6. \A k \in DOMAIN states : ~ (b < k)
    BY <1>3, <2>2
  <2> QED  BY <2>2, <2>3, <2>4, <2>5, <2>6, <1>8, <1>9
<1>10. CASE mode = "keyframe" /\ ~ ForceKeyframe(states, f) /\ Keyframes(states, f) # {}
  <2> DEFINE b == Max(Keyframes(states, f))
  <2>1. s = Delta(b, states[b].pages, img)
    BY <1>10 DEF PrepareSave
  <2>2. b \in Keyframes(states, f) /\ \A k \in Keyframes(states, f) : k <= b
    <3>1. Keyframes(states, f) \in SUBSET (StartFrame .. LastFrame)
      BY <1>3 DEF Keyframes, Frames
    <3>2. StartFrame \in Int /\ LastFrame \in Int
      BY FrameNumbers
    <3> QED  BY <1>10, <3>1, <3>2, MaxOfInterval, Zenon
  <2> HIDE DEF b
  <2>3. b \in DOMAIN states /\ states[b].kind = "full"
    BY <2>2 DEF Keyframes
  <2>4. b \in Frames /\ b < f /\ sv[b] = saved[b] /\ saved[b] \in Images
    BY <1>3, <2>3
  <2>5. states[b].pages = saved[b]
    BY <2>3 DEF StoreOK, Exact
  <2>6. s.kind = "delta" /\ s.base = b /\ s.pages = Difference(saved[b], img)
    BY <2>1, <2>5 DEF Delta
  <2>7. Exact(s, f, sv)
    BY <2>4, <2>6, <1>1, <1>10 DEF Exact
  <2>8. ASSUME NEW k \in DOMAIN states, b < k PROVE states[k].kind = "delta"
    <3>1. states[k].kind = "full" \/ states[k].kind = "delta"
      BY <1>10 DEF StoreOK, Exact
    <3>2. k <= f /\ k \in Int /\ b \in Int
      <4>1. k \in Frames /\ k < f
        BY <1>3
      <4>2. k \in Int /\ b \in Int /\ f \in Int
        BY <4>1, <2>4, FrameNumbers, Zenon
      <4> QED  BY <4>1, <4>2
    <3>3. states[k].kind = "full" => k <= b
      BY <2>2, <3>2 DEF Keyframes
    <3> QED  BY <2>8, <3>1, <3>2, <3>3
  <2> QED  BY <2>3, <2>4, <2>6, <2>7, <2>8, <1>8, <1>10
<1> QED  BY <1>2, <1>4, <1>5, <1>7, <1>9, <1>10 DEF PrepareSave

\* A store with the prepared state is a store.
LEMMA PutOK ==
  ASSUME TypeOK, ConfigOK, ShadowExact, NEW f \in Frames, NEW img \in Images,
         ShouldSaveCheckpoint(f), StoreOK(states, saved, f), Latest(shadow, states, f),
         NEW st, st = Put(states, f, PrepareSave(states, f, img)),
         NEW sv, sv = [saved EXCEPT ![f] = img]
  PROVE  /\ DOMAIN st = DOMAIN states \cup {f} /\ f \notin DOMAIN states
         /\ StoreOK(st, sv, f + 1)
<1> DEFINE s == PrepareSave(states, f, img)
<1>1. sv[f] = img /\ \A g \in Frames : g # f => sv[g] = saved[g]
  BY DEF TypeOK
<1>2. ASSUME NEW g \in DOMAIN states
      PROVE  /\ g \in Frames /\ g < f /\ g \in Int /\ g # f /\ sv[g] = saved[g]
             /\ ShouldSaveCheckpoint(g) /\ Exact(states[g], g, saved) /\ Linked(states, g)
  <2>1. /\ g \in Frames /\ g < f /\ ShouldSaveCheckpoint(g)
        /\ Exact(states[g], g, saved) /\ Linked(states, g)
    BY DEF StoreOK
  <2>2. g \in Int /\ f \in Int
    BY <2>1, FrameNumbers, Zenon
  <2> QED  BY <2>1, <2>2, <1>1
<1>3. f \notin DOMAIN states
  BY <1>2
<1>4. DOMAIN st = DOMAIN states \cup {f} /\ st[f] = s /\ \A g \in DOMAIN states : st[g] = states[g]
  BY <1>3 DEF Put
<1>5. Prepared(s, f, sv)
  <2>1. s = PrepareSave(states, f, img)
    OBVIOUS
  <2> HIDE DEF s
  <2> QED  BY <2>1, PrepareSaveOK, Zenon
<1> USE DEF Prepared
<1> HIDE DEF s
<1>6. Linked(st, f)
  <2>1. SUFFICES ASSUME s.kind = "delta" PROVE Linked(st, f)
    BY <1>4 DEF Linked
  <2>2. \A k \in DOMAIN st : s.base < k /\ k < f => st[k].kind = "delta"
    BY <1>4, <1>5, <2>1, FrameNumbers
  <2>3. s.base \in DOMAIN st /\ st[s.base] = states[s.base]
    BY <1>4, <1>5, <2>1
  <2> QED  BY <1>4, <1>5, <2>1, <2>2, <2>3 DEF Linked
<1>7. ASSUME NEW g \in DOMAIN states PROVE Exact(st[g], g, sv) /\ Linked(st, g)
  <2>1. st[g] = states[g] /\ sv[g] = saved[g] /\ g < f /\ g \in Int /\ f \in Int
    <3>1. f \in Int
      BY FrameNumbers, Zenon
    <3> QED  BY <3>1, <1>2, <1>4
  <2>2. Exact(states[g], g, saved) /\ Linked(states, g)
    BY <1>2
  <2>3. ASSUME states[g].base \in Frames, states[g].base < g
        PROVE  sv[states[g].base] = saved[states[g].base]
    <3>1. states[g].base \in Int
      BY <2>3, FrameNumbers, Zenon
    <3>2. states[g].base # f
      BY <2>1, <2>3, <3>1
    <3> QED  BY <1>1, <2>3, <3>2
  <2>4. Exact(st[g], g, sv)
    BY <2>1, <2>2, <2>3 DEF Exact
  <2>5. CASE states[g].kind = "delta"
    <3>1. states[g].base \in DOMAIN states
      BY <2>2, <2>5 DEF Linked
    <3>2. st[states[g].base] = states[states[g].base] /\ states[g].base \in DOMAIN st
      BY <1>4, <3>1
    <3>3. \A k \in DOMAIN st : k < g => k \in DOMAIN states /\ st[k] = states[k]
      BY <1>4, <2>1
    <3>4. \A k \in DOMAIN st : states[g].base < k /\ k < g => st[k].kind = "delta"
      BY <2>2, <2>5, <3>3 DEF Linked
    <3>5. Linked(st, g)
      BY <2>1, <2>2, <2>5, <3>2, <3>4 DEF Linked
    <3> QED  BY <2>4, <3>5
  <2>6. CASE states[g].kind # "delta"
    BY <2>1, <2>4, <2>6 DEF Linked
  <2> QED  BY <2>5, <2>6
<1>8. f < f + 1 /\ \A g \in DOMAIN states : g < f + 1
  <2>1. f \in Int
    BY FrameNumbers, Zenon
  <2> QED  BY <1>2, <2>1
<1>9. ASSUME NEW g \in DOMAIN st
      PROVE  g < f + 1 /\ ShouldSaveCheckpoint(g) /\ Exact(st[g], g, sv) /\ Linked(st, g)
  <2>1. CASE g = f
    BY <2>1, <1>4, <1>5, <1>6, <1>8
  <2>2. CASE g \in DOMAIN states
    BY <2>2, <1>2, <1>7, <1>8
  <2> QED  BY <2>1, <2>2, <1>4
<1>10. DOMAIN st \subseteq Frames
  BY <1>2, <1>4
<1> QED  BY <1>3, <1>4, <1>9, <1>10 DEF StoreOK

\* What Prune leaves behind the window is needed in it.
LEMMA PruneNeeded ==
  ASSUME ConfigOK, NEW f \in Frames, NEW st, NEW sv, StoreOK(st, sv, f + 1),
         NEW sh, sh # None => sh.frame = f
  PROVE  AllNeeded(Prune(st, sh, f), f)
<1> DEFINE new == Prune(st, sh, f)
           Why(h) == /\ \E g \in DOMAIN st :
                            /\ KeepFrom(f) <= g /\ g <= f
                            /\ \A k \in DOMAIN st : h < k /\ k <= g => st[k].kind = "delta"
                     /\ mode = "keyframe" => st[h].kind = "full"
           S == {h \in DOMAIN st : h >= KeepFrom(f) \/ Why(h)}
<1>1. /\ DOMAIN new \subseteq DOMAIN st /\ \A g \in DOMAIN new : new[g] = st[g]
      /\ \A g \in DOMAIN st : g >= KeepFrom(f) => g \in DOMAIN new
      /\ \A R \in SUBSET DOMAIN st :
                /\ \A g \in DOMAIN st : g >= KeepFrom(f) => g \in R
                /\ sh # None /\ sh.frame \in DOMAIN st => sh.frame \in R
                /\ HasBases(st, R)
                => DOMAIN new \subseteq R
  BY PruneKeeps
<1> HIDE DEF new
<1>2. f \in Int /\ KeepFrom(f) \in Int /\ KeepFrom(f) <= f
  <2>1. f \in Int /\ f > 0
    BY FrameNumbers
  <2> QED  BY <2>1, FrameNumbers DEF KeepFrom
<1>3. \A g \in DOMAIN st : g \in Frames /\ g \in Int /\ g <= f
  <2>1. ASSUME NEW g \in DOMAIN st PROVE g \in Frames /\ g < f + 1
    BY DEF StoreOK
  <2>2. \A g \in DOMAIN st : g \in Int
    BY <2>1, FrameNumbers, Zenon
  <2> QED  BY <1>2, <2>1, <2>2
<1>4. ASSUME NEW x \in S, st[x].kind = "delta", st[x].base \in DOMAIN st
      PROVE  st[x].base \in S
  <2> DEFINE b == st[x].base
  <2>1. /\ x \in DOMAIN st /\ Linked(st, x) /\ b < x /\ b \in Int /\ x \in Int /\ x <= f
    <3>1. x \in DOMAIN st /\ Linked(st, x) /\ Exact(st[x], x, sv)
      BY DEF StoreOK
    <3> QED  BY <3>1, <1>3, <1>4 DEF Exact
  <2>2. CASE b >= KeepFrom(f)
    BY <1>4, <2>2
  <2>3. CASE b < KeepFrom(f)
    <3>1. mode = "keyframe" => st[b].kind = "full"
      BY <1>4, <2>1 DEF Linked
    <3>2. \A k \in DOMAIN st : b < k /\ k < x => st[k].kind = "delta"
      BY <1>4, <2>1 DEF Linked
    <3>3. \A k \in DOMAIN st : b < k /\ k <= x => st[k].kind = "delta"
      BY <1>4, <3>2, <1>3, <2>1
    <3>4. CASE x >= KeepFrom(f)
      <4>1. KeepFrom(f) <= x /\ x <= f
        BY <3>4, <2>1, <1>2
      <4>2. Why(b)
        <5> HIDE DEF b
        <5> QED  BY <2>1, <3>1, <3>3, <4>1
      <4> QED  BY <1>4, <4>2
    <3>5. CASE ~ (x >= KeepFrom(f))
      <4>1. PICK g \in DOMAIN st :
                /\ KeepFrom(f) <= g /\ g <= f
                /\ \A k \in DOMAIN st : x < k /\ k <= g => st[k].kind = "delta"
        BY <3>5
      <4>2. \A k \in DOMAIN st : b < k /\ k <= g => st[k].kind = "delta"
        BY <3>3, <4>1, <1>3, <2>1
      <4>3. Why(b)
        <5> HIDE DEF b
        <5> QED  BY <3>1, <4>1, <4>2
      <4> QED  BY <1>4, <4>3
    <3> QED  BY <3>4, <3>5
  <2> QED  BY <2>1, <2>2, <2>3, <1>2
<1>5. HasBases(st, S) /\ S \in SUBSET DOMAIN st
  BY <1>4 DEF HasBases
<1>6. \A g \in DOMAIN st : g >= KeepFrom(f) => g \in S
  OBVIOUS
<1>7. sh # None /\ sh.frame \in DOMAIN st => sh.frame \in S
  BY <1>2
<1>8. DOMAIN new \subseteq S
  <2> HIDE DEF S
  <2> QED  BY <1>1, <1>5, <1>6, <1>7
<1>9. ASSUME NEW h \in DOMAIN new, h < KeepFrom(f) PROVE Needed(new, h, f)
  <2>1. h \in DOMAIN st /\ new[h] = st[h] /\ Why(h)
    <3>1. h \in Int /\ h \in S
      BY <1>1, <1>3, <1>8
    <3> QED  BY <1>1, <1>2, <1>9, <3>1
  <2>2. PICK g \in DOMAIN st :
            /\ KeepFrom(f) <= g /\ g <= f
            /\ \A k \in DOMAIN st : h < k /\ k <= g => st[k].kind = "delta"
    BY <2>1
  <2>3. g \in DOMAIN new
    BY <1>1, <1>2, <1>3, <2>2
  <2>4. \A k \in DOMAIN new : h < k /\ k <= g => new[k].kind = "delta"
    BY <1>1, <2>2
  <2> QED  BY <2>1, <2>2, <2>3, <2>4 DEF Needed
<1> QED  BY <1>9 DEF AllNeeded, new

\* The configuration is the same after a step.
SameConfig == mode' = mode /\ interval' = interval /\ skip' = skip /\ maxResim' = maxResim

\* What holds of the new store under the old configuration holds.
LEMMA StoreCarried ==
  ASSUME SameConfig, StoreOK(states', saved', NextSave')
  PROVE  StoreOK(states, saved, NextSave)'
  BY DEF SameConfig, StoreOK, Exact, Linked, ShouldSaveCheckpoint

\* The same of the shadow, ...
LEMMA ShadowCarried ==
  ASSUME SameConfig, Latest(shadow', states', NextSave')
  PROVE  ShadowLatest'
  BY DEF SameConfig, ShadowLatest, Latest, ShouldSaveCheckpoint

\* ... and of what is needed.
LEMMA NeededCarried ==
  ASSUME SameConfig, \A f \in DOMAIN states' : AllNeeded(states', f)
  PROVE  NothingElse'
  BY DEF SameConfig, NothingElse, AllNeeded, Needed, KeepFrom

\* A checkpoint of frame f has been saved, if one was due.
SavedUpTo(f) ==
    /\ saved' \in [Frames -> Images \cup {None}] /\ shadow' \in Shadows \cup {None}
    /\ StoreOK(states', saved', f + 1)
    /\ shadow' # None => mode \in {"frame", "preimage"}
    /\ shadow' # None /\ shadow'.frame \in DOMAIN states' =>
           shadow'.ram = saved'[shadow'.frame]
    /\ Latest(shadow', states', f + 1)
    /\ \A g \in DOMAIN states' : AllNeeded(states', g)
    /\ interval = 1 =>
           /\ f \in DOMAIN states'
           /\ \A g \in DOMAIN states : g >= KeepFrom(f) => g \in DOMAIN states'

\* SaveCheckpoint keeps all of it.
LEMMA SaveStep ==
  ASSUME TypeOK, ConfigOK, ShadowExact, NothingElse,
         NEW f \in Frames, NEW img \in Images,
         StoreOK(states, saved, f), Latest(shadow, states, f), SaveCheckpoint(f, img)
  PROVE  SavedUpTo(f)
<1>1. f \in Int /\ f > 0
  BY FrameNumbers
<1>2. CASE ShouldSaveCheckpoint(f)
  <2> DEFINE sh == RefreshShadow(f, img)
             st == Put(states, f, PrepareSave(states, f, img))
             sv == [saved EXCEPT ![f] = img]
  <2>1. shadow' = sh /\ states' = Prune(st, sh, f) /\ saved' = sv
    BY <1>2, Zenon DEF SaveCheckpoint
  <2>2. /\ DOMAIN st = DOMAIN states \cup {f} /\ f \notin DOMAIN states
        /\ StoreOK(st, sv, f + 1)
    BY <1>2, PutOK, Zenon
  <2>3. /\ sh \in Shadows \cup {None} /\ (sh # None => sh.frame = f /\ sh.ram = img)
        /\ sh # None => mode \in {"frame", "preimage"}
    BY DEF RefreshShadow, TypeOK, ShadowExact, Shadows
  <2>4. sv \in [Frames -> Images \cup {None}] /\ sv[f] = img
    BY DEF TypeOK
  <2> HIDE DEF sh, st, sv
  <2>5. StoreOK(states', saved', f + 1)
    BY <2>1, <2>2, PruneOK
  <2>6. AllNeeded(states', f)
    BY <2>1, <2>2, <2>3, PruneNeeded
  <2>7. \A g \in DOMAIN st : g >= KeepFrom(f) => g \in DOMAIN states'
    BY <2>1, PruneKeeps
  <2>8. f >= KeepFrom(f)
    BY <1>1, FrameNumbers DEF KeepFrom
  <2>9. f \in DOMAIN states'
    BY <2>2, <2>7, <2>8
  <2>10. \A g \in DOMAIN states' : g \in Int /\ g <= f
    <3>1. \A g \in DOMAIN states' : g \in Frames /\ g < f + 1
      BY <2>5 DEF StoreOK
    <3>2. \A g \in DOMAIN states' : g \in Int
      BY <3>1, FrameNumbers, Zenon
    <3> QED  BY <1>1, <3>1, <3>2
  <2>11. ASSUME NEW g \in DOMAIN states' PROVE AllNeeded(states', g)
    <3>1. CASE g = f
      BY <3>1, <2>6
    <3>2. CASE g # f
      <4>1. ~ (f <= g)
        BY <1>1, <2>10, <3>2
      <4> QED  BY <2>9, <4>1 DEF AllNeeded
    <3> QED  BY <3>1, <3>2
  <2>12. Latest(shadow', states', f + 1)
    <3>1. \A h \in Frames : ~ (f < h /\ h < f + 1)
      BY <1>1, FrameNumbers
    <3> QED  BY <2>1, <2>3, <3>1 DEF Latest
  <2>13. shadow' # None /\ shadow'.frame \in DOMAIN states' =>
             shadow'.ram = saved'[shadow'.frame]
    BY <2>1, <2>3, <2>4
  <2>14. \A g \in DOMAIN states : g >= KeepFrom(f) => g \in DOMAIN states'
    BY <2>2, <2>7
  <2>15. saved' \in [Frames -> Images \cup {None}] /\ shadow' \in Shadows \cup {None}
    BY <2>1, <2>3, <2>4
  <2>16. shadow' # None => mode \in {"frame", "preimage"}
    BY <2>1, <2>3
  <2> QED  BY <2>5, <2>9, <2>11, <2>12, <2>13, <2>14, <2>15, <2>16 DEF SavedUpTo
<1>3. CASE ~ ShouldSaveCheckpoint(f)
  <2>1. shadow' = shadow /\ states' = states /\ saved' = saved
    BY <1>3, Zenon DEF SaveCheckpoint
  <2>2. interval # 1
    BY <1>3 DEF ShouldSaveCheckpoint
  <2>3. \A g \in DOMAIN states : g < f + 1
    <3>1. \A g \in DOMAIN states : g \in Frames /\ g < f
      BY DEF StoreOK
    <3>2. \A g \in DOMAIN states : g \in Int
      BY <3>1, FrameNumbers, Zenon
    <3> QED  BY <1>1, <3>1, <3>2
  <2>4. StoreOK(states, saved, f + 1)
    BY <2>3 DEF StoreOK
  <2>5. \A h \in Frames : h < f + 1 => h < f \/ h = f
    BY <1>1, FrameNumbers
  <2>6. Latest(shadow, states, f + 1)
    BY <1>3, <2>5 DEF Latest
  <2>7. \A g \in DOMAIN states : AllNeeded(states, g)
    BY DEF NothingElse
  <2> QED  BY <2>1, <2>2, <2>4, <2>6, <2>7 DEF SavedUpTo, TypeOK, ShadowExact
<1> QED  BY <1>2, <1>3

-----------------------------------------------------------------------------
(* The steps *)

\* A process starts with an empty store.
LEMMA InitIInv == Init => IInv
<1> SUFFICES ASSUME Init PROVE IInv
  OBVIOUS
<1>1. DOMAIN states = {}
  BY DEF Init
<1>2. TypeOK
  BY <1>1, FrameNumbers DEF Init, TypeOK
<1>3. ConfigOK /\ CursorOK
  BY DEF Init, ConfigOK, CursorOK
<1>4. StoreOK(states, saved, NextSave) /\ NothingElse
  BY <1>1 DEF StoreOK, NothingElse
<1>5. ShadowExact /\ ShadowLatest
  BY DEF Init, ShadowExact, ShadowLatest, Latest
<1>6. WindowKept
  <2>1. \A g \in Frames : ~ (g < NextSave)
    BY FrameNumbers DEF Init, NextSave
  <2> QED  BY <2>1 DEF WindowKept
<1> QED  BY <1>2, <1>3, <1>4, <1>5, <1>6 DEF IInv

\* The checkpoint that a correction of frame m restores.
LEMMA CheckpointBefore ==
  ASSUME IInv, NEW m \in Mismatches, AtOrBefore(ClampMismatch(m)) # {}
  PROVE  LET r == Max(AtOrBefore(ClampMismatch(m)))
         IN  r \in DOMAIN states /\ r \in Frames /\ r \in Int /\ r < frame
<1> DEFINE c == ClampMismatch(m)
           r == Max(AtOrBefore(c))
<1>1. frame \in Int /\ m \in Int /\ m < frame /\ maxResim \in Nat
  BY StoreAssumption, FrameNumbers DEF IInv, TypeOK, ConfigOK, Mismatches
<1>2. c \in Int /\ c < frame
  BY <1>1 DEF ClampMismatch
<1>3. DOMAIN states \subseteq Frames
  BY DEF IInv, TypeOK
<1>4. r \in AtOrBefore(c)
  <2>1. AtOrBefore(c) \in SUBSET (StartFrame .. LastFrame)
    BY <1>3 DEF AtOrBefore, Frames
  <2>2. StartFrame \in Int /\ LastFrame \in Int
    BY FrameNumbers
  <2> HIDE DEF c
  <2> QED  BY <2>1, <2>2, MaxOfInterval, Zenon DEF c
<1>5. r \in DOMAIN states /\ r <= c
  BY <1>4 DEF AtOrBefore
<1>6. r \in Frames /\ r \in Int
  BY <1>3, <1>5, FrameNumbers
<1> HIDE DEF c, r
<1>7. r < frame
  BY <1>1, <1>2, <1>5, <1>6
<1> QED  BY <1>5, <1>6, <1>7 DEF r, c

\* A store without the states after frame r is a store.
LEMMA EraseOK ==
  ASSUME NEW st, NEW sv, NEW n, StoreOK(st, sv, n), NEW r \in Int,
         NEW new, new = [g \in {h \in DOMAIN st : h <= r} |-> st[g]]
  PROVE  StoreOK(new, sv, r + 1)
<1>1. /\ DOMAIN new \subseteq DOMAIN st
      /\ \A g \in DOMAIN new : new[g] = st[g] /\ g <= r
      /\ \A g \in DOMAIN st : g <= r => g \in DOMAIN new
  OBVIOUS
<1>2. \A g \in DOMAIN st : g \in Int
  <2>1. DOMAIN st \subseteq Frames
    BY DEF StoreOK
  <2> QED  BY <2>1, FrameNumbers
<1>3. ASSUME NEW g \in DOMAIN new PROVE Linked(new, g)
  <2>1. /\ Linked(st, g) /\ Exact(st[g], g, sv) /\ new[g] = st[g] /\ g \in DOMAIN st
        /\ g <= r /\ g \in Int
    BY <1>1, <1>2 DEF StoreOK
  <2>2. CASE st[g].kind = "delta"
    <3>1. st[g].base \in DOMAIN st /\ st[g].base < g
      BY <2>1, <2>2 DEF Linked, Exact
    <3>2. st[g].base <= r
      BY <2>1, <3>1, <1>2
    <3>3. st[g].base \in DOMAIN new /\ new[st[g].base] = st[st[g].base]
      BY <1>1, <3>1, <3>2
    <3>4. \A k \in DOMAIN new : k \in DOMAIN st /\ new[k] = st[k]
      BY <1>1
    <3> QED  BY <2>1, <2>2, <3>3, <3>4 DEF Linked
  <2> QED  BY <2>1, <2>2 DEF Linked
<1>4. ASSUME NEW g \in DOMAIN new
      PROVE  g < r + 1 /\ ShouldSaveCheckpoint(g) /\ Exact(new[g], g, sv)
  <2>1. g \in DOMAIN st /\ new[g] = st[g] /\ g <= r /\ g \in Int
    BY <1>1, <1>2
  <2> QED  BY <2>1 DEF StoreOK
<1>5. DOMAIN new \subseteq Frames
  BY <1>1 DEF StoreOK
<1> QED  BY <1>3, <1>4, <1>5 DEF StoreOK

\* What is needed stays needed for a checkpoint that is restored.
LEMMA EraseNeeded ==
  ASSUME NEW st, NEW sv, NEW n, StoreOK(st, sv, n), NEW r \in DOMAIN st,
         \A f \in DOMAIN st : AllNeeded(st, f),
         NEW new, new = [g \in {h \in DOMAIN st : h <= r} |-> st[g]]
  PROVE  \A f \in DOMAIN new : AllNeeded(new, f)
<1>1. /\ DOMAIN new \subseteq DOMAIN st
      /\ \A g \in DOMAIN new : new[g] = st[g] /\ g <= r
      /\ \A g \in DOMAIN st : g <= r => g \in DOMAIN new
  OBVIOUS
<1>2. DOMAIN st \subseteq Frames /\ \A g \in DOMAIN st : g \in Int /\ g > 0
  <2>1. DOMAIN st \subseteq Frames
    BY DEF StoreOK
  <2>2. ASSUME NEW g \in Frames PROVE g \in Int /\ g > 0
    BY FrameNumbers
  <2> QED  BY <2>1, <2>2
<1>3. r \in DOMAIN new /\ \A g \in DOMAIN new : g <= r
  BY <1>1, <1>2
<1>4. SUFFICES ASSUME NEW h \in DOMAIN new, h < KeepFrom(r) PROVE Needed(new, h, r)
  <2>1. ASSUME NEW f \in DOMAIN new, \A g \in DOMAIN new : g <= f PROVE f = r
    BY <2>1, <1>1, <1>2, <1>3
  <2>2. \A h \in DOMAIN new : h < KeepFrom(r) => Needed(new, h, r)
    BY <1>4
  <2> QED  BY <2>1, <2>2 DEF AllNeeded
<1>5. PICK f \in DOMAIN st : \A g \in DOMAIN st : g <= f
  <2>1. DOMAIN st \in SUBSET (StartFrame .. LastFrame) /\ DOMAIN st # {}
    BY <1>2 DEF Frames
  <2>2. StartFrame \in Int /\ LastFrame \in Int
    BY FrameNumbers
  <2> QED  BY <2>1, <2>2, MaxOfInterval, Zenon
<1>6. /\ f \in Int /\ r \in Int /\ h \in Int /\ r <= f /\ h \in DOMAIN st /\ h <= r
      /\ KeepFrom(r) \in Int /\ KeepFrom(f) \in Int /\ KeepFrom(r) <= KeepFrom(f)
      /\ KeepFrom(r) <= r
  <2>1. f \in Int /\ r \in Int /\ h \in Int /\ r <= f /\ h \in DOMAIN st /\ h <= r /\ r > 0
    BY <1>1, <1>2, <1>5
  <2> QED  BY <2>1, FrameNumbers DEF KeepFrom
<1>7. Needed(st, h, f)
  <2>1. h < KeepFrom(f)
    BY <1>4, <1>6
  <2> QED  BY <1>5, <1>6, <2>1 DEF AllNeeded
<1>8. PICK g \in DOMAIN st : /\ KeepFrom(f) <= g /\ g <= f
                             /\ \A k \in DOMAIN st : h < k /\ k <= g => st[k].kind = "delta"
  BY <1>7 DEF Needed
<1>9. mode = "keyframe" => new[h].kind = "full"
  BY <1>1, <1>7 DEF Needed
<1>10. CASE g <= r
  <2>1. g \in DOMAIN new /\ KeepFrom(r) <= g
    BY <1>1, <1>2, <1>6, <1>8, <1>10
  <2>2. \A k \in DOMAIN new : h < k /\ k <= g => new[k].kind = "delta"
    BY <1>1, <1>8
  <2> QED  BY <1>9, <1>10, <2>1, <2>2 DEF Needed
<1>11. CASE ~ (g <= r)
  <2>1. \A k \in DOMAIN new : h < k /\ k <= r => new[k].kind = "delta"
    <3>1. \A k \in DOMAIN new : k \in DOMAIN st /\ k \in Int /\ new[k] = st[k]
      BY <1>1, <1>2
    <3>2. g \in Int
      BY <1>2
    <3> QED  BY <1>6, <1>8, <1>11, <3>1, <3>2
  <2> QED  BY <1>3, <1>6, <1>9, <2>1 DEF Needed
<1> QED  BY <1>10, <1>11

\* A correction restores a checkpoint and erases the later ones.
LEMMA CorrectStep ==
  ASSUME IInv, NEW m \in Frames, Correct(m)
  PROVE  IInv'
<1> DEFINE c == ClampMismatch(m)
           r == Max(AtOrBefore(c))
<1>1. /\ pc = "before" /\ m \in Mismatches /\ AtOrBefore(c) # {} /\ Restored(r) # None
      /\ ram' = Restored(r) /\ states' = [g \in AtOrBefore(r) |-> states[g]]
      /\ shadow' = RefreshShadow(r, ram') /\ cursor' = r /\ pc' = "resim"
      /\ frame' = frame /\ saved' = saved
  BY Zenon DEF Correct, Ready
<1>2. SameConfig
  BY DEF Correct, config, SameConfig
<1>3. r \in DOMAIN states /\ r \in Frames /\ r \in Int /\ r < frame
  BY <1>1, CheckpointBefore
<1> HIDE DEF c, r
<1>4. TypeOK /\ ConfigOK /\ StoreOK(states, saved, NextSave) /\ ShadowExact
  BY DEF IInv
<1>5. StatesExact
  BY <1>4 DEF StoreOK, StatesExact
<1>6. ram' = saved[r] /\ ram' \in Images
  BY <1>1, <1>3, <1>4, <1>5, RestoredExact
<1>7. states' = [g \in {h \in DOMAIN states : h <= r} |-> states[g]]
  BY <1>1 DEF AtOrBefore
<1>8. NextSave' = r + 1
  BY <1>1 DEF NextSave
<1>9. StoreOK(states', saved', r + 1)
  BY <1>1, <1>3, <1>4, <1>7, EraseOK
<1>10. \A f \in DOMAIN states' : AllNeeded(states', f)
  <2>1. \A f \in DOMAIN states : AllNeeded(states, f)
    BY DEF IInv, NothingElse
  <2> QED  BY <1>3, <1>4, <1>7, <2>1, EraseNeeded
<1>11. /\ shadow' \in Shadows \cup {None}
       /\ shadow' # None => shadow'.frame = r /\ shadow'.ram = ram'
       /\ shadow' # None => mode \in {"frame", "preimage"}
  BY <1>1, <1>3, <1>4, <1>6 DEF RefreshShadow, TypeOK, ShadowExact, Shadows
<1>12. TypeOK'
  <2>1. DOMAIN states' \subseteq Frames
    BY <1>9 DEF StoreOK
  <2> QED  BY <2>1, <1>1, <1>3, <1>4, <1>6, <1>11 DEF TypeOK
<1>13. ConfigOK'
  BY <1>2, <1>4 DEF ConfigOK, SameConfig
<1>14. CursorOK'
  BY <1>1, <1>3 DEF CursorOK
<1>15. StoreOK(states, saved, NextSave)'
  BY <1>2, <1>8, <1>9, StoreCarried
<1>16. ShadowExact'
  BY <1>1, <1>2, <1>6, <1>11 DEF ShadowExact, SameConfig
<1>17. ShadowLatest'
  <2>1. \A h \in Frames : ~ (r < h /\ h < r + 1)
    BY <1>3, FrameNumbers
  <2>2. Latest(shadow', states', NextSave')
    BY <1>8, <1>11, <2>1 DEF Latest
  <2> QED  BY <1>2, <2>2, ShadowCarried
<1>18. WindowKept'
  <2>1. SUFFICES ASSUME interval = 1, ~ skip, NEW g \in Frames,
                        KeepFrom(frame - 1) <= g, g < r + 1
                 PROVE  g \in DOMAIN states'
    BY <1>1, <1>2, <1>8 DEF WindowKept, SameConfig
  <2>2. g \in Int /\ g <= r /\ g < frame /\ frame \in Int
    <3>1. g \in Int /\ frame \in Int
      BY <1>4, FrameNumbers DEF TypeOK
    <3> QED  BY <3>1, <1>3, <2>1
  <2>3. g \in DOMAIN states
    BY <1>1, <2>1, <2>2 DEF IInv, WindowKept, NextSave
  <2> QED  BY <1>7, <2>2, <2>3
<1>19. NothingElse'
  BY <1>2, <1>10, NeededCarried
<1> QED  BY <1>12, <1>13, <1>14, <1>15, <1>16, <1>17, <1>18, <1>19 DEF IInv

\* A correction that is given up changes nothing of the store.
LEMMA DropCorrectionStep ==
  ASSUME IInv, NEW m \in Frames, DropCorrection(m)
  PROVE  IInv'
<1>1. /\ pc = "before" /\ pc' = "save"
      /\ frame' = frame /\ ram' = ram /\ cursor' = cursor /\ states' = states
      /\ shadow' = shadow /\ saved' = saved
  BY DEF DropCorrection
<1>2. SameConfig
  BY DEF DropCorrection, config, SameConfig
<1>3. NextSave = frame /\ NextSave' = frame
  BY <1>1 DEF NextSave
<1>4. TypeOK' /\ ConfigOK' /\ CursorOK' /\ ShadowExact'
  BY <1>1, <1>2 DEF IInv, TypeOK, ConfigOK, CursorOK, ShadowExact, SameConfig
<1>5. StoreOK(states, saved, NextSave)'
  BY <1>1, <1>2, <1>3, StoreCarried DEF IInv
<1>6. ShadowLatest'
  BY <1>1, <1>2, <1>3, ShadowCarried DEF IInv, ShadowLatest
<1>7. WindowKept'
  BY <1>1, <1>2, <1>3 DEF IInv, WindowKept, SameConfig
<1>8. NothingElse'
  BY <1>1, <1>2, NeededCarried DEF IInv, NothingElse
<1> QED  BY <1>4, <1>5, <1>6, <1>7, <1>8 DEF IInv

\* The window moves with the frame.
LEMMA KeepFromMonotonic ==
  ASSUME NEW a \in Int, NEW b \in Int, a <= b
  PROVE  KeepFrom(a) \in Int /\ KeepFrom(b) \in Int /\ KeepFrom(a) <= KeepFrom(b)
  BY FrameNumbers DEF KeepFrom

\* The order of the numbers before two numbers.
LEMMA Before ==
  ASSUME NEW a \in Int, NEW b \in Int, a <= b
  PROVE  a - 1 \in Int /\ b - 1 \in Int /\ a - 1 <= b - 1
  OBVIOUS

\* Once frame f is saved the invariant about the store holds for the frame after it.
LEMMA AfterSave ==
  ASSUME IInv, SameConfig, NEW f \in Frames, SavedUpTo(f), f = NextSave,
         NextSave' = f + 1, frame' \in Int, frame <= frame', f <= frame' - 1
  PROVE  /\ StoreOK(states, saved, NextSave)' /\ ShadowExact' /\ ShadowLatest'
         /\ WindowKept' /\ NothingElse'
<1>0. frame' \in Int /\ frame <= frame' /\ f <= frame' - 1
  OBVIOUS
<1>1. StoreOK(states, saved, NextSave)'
  BY StoreCarried DEF SavedUpTo
<1>2. ShadowExact'
  BY DEF SavedUpTo, ShadowExact, SameConfig
<1>3. ShadowLatest'
  BY ShadowCarried DEF SavedUpTo
<1>4. WindowKept'
  <2>1. SUFFICES ASSUME interval = 1, ~ skip, NEW g \in Frames,
                        KeepFrom(frame' - 1) <= g, g < f + 1
                 PROVE  g \in DOMAIN states'
    BY DEF WindowKept, SameConfig
  <2>2. g \in Int /\ f \in Int /\ frame \in Int
    BY FrameNumbers DEF IInv, TypeOK
  <2>3. CASE g = f
    BY <2>1, <2>3 DEF SavedUpTo
  <2>4. CASE g # f
    <3>1. g < f
      BY <2>1, <2>2, <2>4
    <3>2. /\ frame - 1 \in Int /\ frame' - 1 \in Int /\ frame - 1 <= frame' - 1
      BY <1>0, <2>2, Before, Zenon
    <3>3. /\ KeepFrom(frame - 1) \in Int /\ KeepFrom(frame' - 1) \in Int
          /\ KeepFrom(frame - 1) <= KeepFrom(frame' - 1)
          /\ KeepFrom(f) \in Int /\ KeepFrom(f) <= KeepFrom(frame' - 1)
      BY <1>0, <2>2, <3>2, KeepFromMonotonic
    <3>4. KeepFrom(frame - 1) <= g /\ g >= KeepFrom(f)
      BY <2>1, <2>2, <3>3
    <3>5. g \in DOMAIN states
      BY <2>1, <3>1, <3>4 DEF IInv, WindowKept
    <3> QED  BY <2>1, <3>4, <3>5 DEF SavedUpTo
  <2> QED  BY <2>3, <2>4
<1>5. NothingElse'
  BY NeededCarried DEF SavedUpTo
<1> QED  BY <1>1, <1>2, <1>3, <1>4, <1>5

\* The ordinary checkpoint.
LEMMA SaveAndRunStep ==
  ASSUME IInv, SaveAndRun
  PROVE  IInv'
<1>1. /\ pc # "resim" /\ frame < LastFrame /\ SaveCheckpoint(frame, ram)
      /\ ram' \in Images /\ frame' = frame + 1 /\ pc' = "before" /\ cursor' = cursor
  BY DEF SaveAndRun
<1>2. SameConfig
  BY DEF SaveAndRun, config, SameConfig
<1>3. NextSave = frame /\ NextSave' = frame + 1
  BY <1>1 DEF NextSave
<1>4. TypeOK /\ ConfigOK /\ ShadowExact /\ NothingElse /\ StoreOK(states, saved, frame)
  BY <1>3 DEF IInv
<1>5. frame \in Frames /\ ram \in Images /\ frame \in Int /\ frame' \in Frames /\ frame' \in Int
  <2>1. frame \in Frames /\ ram \in Images
    BY <1>4 DEF TypeOK
  <2>2. frame \in Int /\ StartFrame <= frame /\ LastFrame \in Int /\ StartFrame \in Int
    BY <2>1, FrameNumbers
  <2>3. frame' \in Int /\ StartFrame <= frame' /\ frame' <= LastFrame
    BY <1>1, <2>2
  <2> QED  BY <2>1, <2>2, <2>3, FrameNumbers
<1>6. Latest(shadow, states, frame)
  BY <1>1, <1>3 DEF IInv, ShadowLatest
<1>7. SavedUpTo(frame)
  BY <1>1, <1>4, <1>5, <1>6, SaveStep
<1>8. frame <= frame' /\ frame <= frame' - 1
  BY <1>1, <1>5
<1>9. /\ StoreOK(states, saved, NextSave)' /\ ShadowExact' /\ ShadowLatest'
      /\ WindowKept' /\ NothingElse'
  BY <1>2, <1>3, <1>5, <1>7, <1>8, AfterSave
<1>10. TypeOK'
  <2>1. DOMAIN states' \subseteq Frames
    BY <1>7 DEF SavedUpTo, StoreOK
  <2> QED  BY <2>1, <1>1, <1>4, <1>5, <1>7 DEF TypeOK, SavedUpTo
<1>11. ConfigOK' /\ CursorOK'
  BY <1>1, <1>2, <1>4 DEF ConfigOK, CursorOK, SameConfig
<1> QED  BY <1>9, <1>10, <1>11 DEF IInv

\* A frame of the resimulation.
LEMMA ResimulateStep ==
  ASSUME IInv, Resimulate
  PROVE  IInv'
<1>1. PICK img \in Images :
        /\ ram' = img
        /\ IF cursor + 1 < frame
           THEN /\ IF skip THEN UNCHANGED <<states, shadow, saved>>
                   ELSE SaveCheckpoint(cursor + 1, img)
                /\ cursor' = cursor + 1 /\ pc' = pc
           ELSE /\ shadow' = IF shadow = None THEN None ELSE FinalShadow(img)
                /\ cursor' = None /\ pc' = "save"
                /\ UNCHANGED <<states, saved>>
  BY DEF Resimulate
<1>2. pc = "resim" /\ frame' = frame
  BY DEF Resimulate
<1>3. SameConfig
  BY DEF Resimulate, config, SameConfig
<1>4. TypeOK /\ ConfigOK /\ ShadowExact /\ NothingElse /\ StoreOK(states, saved, cursor + 1)
  BY <1>2 DEF IInv, NextSave
<1>5. /\ cursor \in Frames /\ cursor \in Int /\ cursor < frame /\ frame \in Frames
      /\ frame \in Int /\ NextSave = cursor + 1
  BY <1>2, FrameNumbers DEF IInv, TypeOK, CursorOK, NextSave
<1>6. ConfigOK'
  BY <1>3, <1>4 DEF ConfigOK, SameConfig
<1>7. CASE cursor + 1 < frame /\ skip
  <2>1. /\ states' = states /\ shadow' = shadow /\ saved' = saved /\ cursor' = cursor + 1
        /\ pc' = "resim"
    BY <1>1, <1>2, <1>7
  <2>2. NextSave' = cursor + 2 /\ cursor + 1 \in Frames
    <3>1. StartFrame <= cursor /\ frame <= LastFrame /\ StartFrame \in Int /\ LastFrame \in Int
      BY <1>5, FrameNumbers
    <3>2. StartFrame <= cursor + 1 /\ cursor + 1 <= LastFrame /\ cursor + 1 \in Int
      BY <1>5, <1>7, <3>1
    <3> QED  BY <1>5, <2>1, <3>2, FrameNumbers DEF NextSave
  <2>3. \A g \in DOMAIN states : g < cursor + 2
    <3>1. \A g \in DOMAIN states : g \in Frames /\ g < cursor + 1
      BY <1>4 DEF StoreOK
    <3>2. \A g \in DOMAIN states : g \in Int
      BY <3>1, FrameNumbers, Zenon
    <3> QED  BY <1>5, <3>1, <3>2
  <2>4. StoreOK(states', saved', NextSave')
    BY <1>4, <2>1, <2>2, <2>3 DEF StoreOK
  <2>5. StoreOK(states, saved, NextSave)'
    BY <1>3, <2>4, StoreCarried
  <2>6. TypeOK' /\ CursorOK' /\ ShadowExact'
    BY <1>1, <1>2, <1>3, <1>4, <1>7, <2>1, <2>2
       DEF TypeOK, CursorOK, ShadowExact, SameConfig
  <2>7. ShadowLatest' /\ WindowKept'
    BY <1>3, <1>7, <2>1 DEF ShadowLatest, WindowKept, SameConfig
  <2>8. NothingElse'
    BY <1>3, <1>4, <2>1, NeededCarried DEF NothingElse
  <2> QED  BY <1>6, <2>5, <2>6, <2>7, <2>8 DEF IInv
<1>8. CASE cursor + 1 < frame /\ ~ skip
  <2>1. SaveCheckpoint(cursor + 1, img) /\ cursor' = cursor + 1 /\ pc' = "resim"
    BY <1>1, <1>2, <1>8
  <2> DEFINE f == cursor + 1
  <2>2. NextSave' = f + 1 /\ f \in Frames /\ f \in Int
    <3>1. StartFrame <= cursor /\ frame <= LastFrame /\ StartFrame \in Int /\ LastFrame \in Int
      BY <1>5, FrameNumbers
    <3>2. StartFrame <= cursor + 1 /\ cursor + 1 <= LastFrame /\ cursor + 1 \in Int
      BY <1>5, <1>8, <3>1
    <3> QED  BY <1>5, <2>1, <3>2, FrameNumbers DEF NextSave
  <2>3. Latest(shadow, states, f)
    BY <1>5, <1>8 DEF IInv, ShadowLatest
  <2>4. SaveCheckpoint(f, img) /\ StoreOK(states, saved, f) /\ f = NextSave /\ f < frame
        /\ cursor' = f
    BY <1>4, <1>5, <1>8, <2>1
  <2> HIDE DEF f
  <2>5. SavedUpTo(f)
    BY <1>4, <2>2, <2>3, <2>4, SaveStep
  <2>6. frame' \in Int /\ frame <= frame' /\ f <= frame' - 1
    BY <1>2, <1>5, <2>2, <2>4
  <2>7. /\ StoreOK(states, saved, NextSave)' /\ ShadowExact' /\ ShadowLatest'
        /\ WindowKept' /\ NothingElse'
    BY <1>3, <2>2, <2>4, <2>5, <2>6, AfterSave
  <2>8. TypeOK'
    <3>1. DOMAIN states' \subseteq Frames
      BY <2>5 DEF SavedUpTo, StoreOK
    <3> QED  BY <3>1, <1>1, <1>2, <1>4, <2>1, <2>2, <2>4, <2>5 DEF TypeOK, SavedUpTo
  <2>9. CursorOK'
    BY <1>2, <2>1, <2>2, <2>4 DEF CursorOK
  <2> QED  BY <1>6, <2>7, <2>8, <2>9 DEF IInv
<1>9. CASE ~ (cursor + 1 < frame)
  <2>1. /\ states' = states /\ saved' = saved /\ cursor' = None /\ pc' = "save"
        /\ shadow' = IF shadow = None THEN None ELSE FinalShadow(img)
    BY <1>1, <1>9
  <2>2. cursor + 1 = frame /\ NextSave' = cursor + 1
    BY <1>2, <1>5, <1>9, <2>1 DEF NextSave
  <2>3. /\ shadow' \in Shadows \cup {None}
        /\ shadow' # None => mode \in {"frame", "preimage"} /\ shadow'.frame = frame
    <3>1. CASE shadow = None
      BY <2>1, <3>1
    <3>2. CASE shadow # None
      <4>1. mode \in {"frame", "preimage"}
        BY <1>4, <3>2 DEF ShadowExact
      <4>2. shadow' = [frame |-> frame, ram |-> img]
        BY <2>1, <3>2, <4>1 DEF FinalShadow, RefreshShadow
      <4> QED  BY <1>5, <4>1, <4>2 DEF Shadows
    <3> QED  BY <3>1, <3>2
  <2>4. frame \notin DOMAIN states
    <3>1. \A g \in DOMAIN states : g < frame
      BY <1>4, <2>2 DEF StoreOK
    <3> QED  BY <1>5, <3>1
  <2>5. StoreOK(states, saved, NextSave)'
    BY <1>3, <1>4, <2>1, <2>2, StoreCarried
  <2>6. TypeOK' /\ CursorOK'
    BY <1>1, <1>2, <1>4, <2>1, <2>3 DEF TypeOK, CursorOK
  <2>7. ShadowExact'
    BY <1>3, <2>1, <2>3, <2>4 DEF ShadowExact, SameConfig
  <2>8. ShadowLatest'
    <3>1. Latest(shadow', states', NextSave')
      BY <2>1, <2>3, <2>4 DEF Latest
    <3> QED  BY <1>3, <3>1, ShadowCarried
  <2>9. WindowKept'
    BY <1>2, <1>3, <1>5, <2>1, <2>2 DEF IInv, WindowKept, SameConfig
  <2>10. NothingElse'
    BY <1>3, <1>4, <2>1, NeededCarried DEF NothingElse
  <2> QED  BY <1>6, <2>5, <2>6, <2>7, <2>8, <2>9, <2>10 DEF IInv
<1> QED  BY <1>7, <1>8, <1>9

\* Every step keeps the invariant.
LEMMA NextIInv == IInv /\ [Next]_vars => IInv'
<1> SUFFICES ASSUME IInv, [Next]_vars PROVE IInv'
  OBVIOUS
<1>1. CASE UNCHANGED vars
  <2>1. /\ mode' = mode /\ interval' = interval /\ skip' = skip /\ maxResim' = maxResim
        /\ pc' = pc /\ frame' = frame /\ ram' = ram /\ cursor' = cursor
        /\ states' = states /\ shadow' = shadow /\ saved' = saved
    BY <1>1 DEF vars, config
  <2>2. SameConfig /\ NextSave' = NextSave
    BY <2>1 DEF SameConfig, NextSave
  <2>3. TypeOK' /\ ConfigOK' /\ CursorOK' /\ ShadowExact'
    BY <2>1 DEF IInv, TypeOK, ConfigOK, CursorOK, ShadowExact
  <2>4. StoreOK(states, saved, NextSave)'
    BY <2>1, <2>2, StoreCarried DEF IInv
  <2>5. ShadowLatest'
    BY <2>1, <2>2 DEF IInv, ShadowLatest, Latest, ShouldSaveCheckpoint
  <2>6. WindowKept'
    BY <2>1, <2>2 DEF IInv, WindowKept
  <2>7. NothingElse'
    BY <2>1, <2>2, NeededCarried DEF IInv, NothingElse
  <2> QED  BY <2>3, <2>4, <2>5, <2>6, <2>7 DEF IInv
<1>2. ASSUME NEW m \in Frames, Correct(m) PROVE IInv'
  BY <1>2, CorrectStep
<1>3. ASSUME NEW m \in Frames, DropCorrection(m) PROVE IInv'
  BY <1>3, DropCorrectionStep
<1>4. CASE Resimulate
  BY <1>4, ResimulateStep
<1>5. CASE SaveAndRun
  BY <1>5, SaveAndRunStep
<1> QED  BY <1>1, <1>2, <1>3, <1>4, <1>5 DEF Next

-----------------------------------------------------------------------------
(* How much is behind the window *)

\* Deltas against the frame before leave no checkpoint out: with deltas only after
\* frame a, every frame up to g that was due is there.
LEMMA NoneLeftOut ==
  ASSUME NEW sv, NEW n, StoreOK(states, sv, n), mode = "frame",
         NEW a \in DOMAIN states, NEW g \in DOMAIN states,
         \A k \in DOMAIN states : a < k /\ k <= g => states[k].kind = "delta",
         NEW h \in Frames, a < h, h <= g, ShouldSaveCheckpoint(h)
  PROVE  h \in DOMAIN states /\ h % KeyframeInterval # 0
<1> DEFINE S == {y \in DOMAIN states : h <= y /\ y <= g}
           x == Min(S)
<1>1. DOMAIN states \subseteq Frames
  BY DEF StoreOK
<1>2. h \in Int /\ \A y \in DOMAIN states : y \in Int
  BY <1>1, FrameNumbers
<1>3. x \in S /\ \A k \in S : x <= k
  <2>1. S \in SUBSET (StartFrame .. LastFrame)
    BY <1>1 DEF Frames
  <2>2. StartFrame \in Int /\ LastFrame \in Int
    BY FrameNumbers
  <2>3. S # {}
    BY <1>2
  <2> HIDE DEF S
  <2> QED  BY <2>1, <2>2, <2>3, MinOfInterval, Zenon
<1>4. x \in DOMAIN states /\ h <= x /\ x <= g /\ x \in Int
  BY <1>2, <1>3
<1>5. \A k \in DOMAIN states : h <= k => x <= k
  BY <1>2, <1>3, <1>4
<1> HIDE DEF x
<1>6. states[x].kind = "delta"
  BY <1>2, <1>4
<1>7. Linked(states, x) /\ Exact(states[x], x, sv)
  BY <1>4 DEF StoreOK
<1>8. states[x].base \in DOMAIN states /\ states[x].base < x /\ states[x].base \in Int
  BY <1>2, <1>6, <1>7 DEF Linked, Exact
<1>9. states[x].base < h
  BY <1>2, <1>4, <1>5, <1>8
<1>10. ~ (h < x)
  BY <1>6, <1>7, <1>9 DEF Linked
<1>11. h = x
  BY <1>2, <1>4, <1>10
<1> QED  BY <1>4, <1>6, <1>7, <1>11 DEF Linked

\* There are less than a keyframe interval of multiples of i from a to i * q.
FewApart(a, i, q) ==
    a \div i \in Int /\ a \div i < q /\ q - (a \div i) < KeyframeInterval

\* So the distance to a frame of the window is less than the keyframe interval,
\* counted in checkpoints.
LEMMA FewCheckpoints ==
  ASSUME NEW sv, NEW n, StoreOK(states, sv, n), mode = "frame",
         NEW i \in Nat \ {0}, i = interval,
         NEW a \in DOMAIN states, NEW g \in DOMAIN states, a < g,
         \A k \in DOMAIN states : a < k /\ k <= g => states[k].kind = "delta",
         NEW q \in Int, g = i * q
  PROVE  FewApart(a, i, q)
<1> DEFINE p == a \div i
           r == a % i
           K == KeyframeInterval
<1>1. a \in Frames /\ g \in Frames /\ a \in Int /\ g \in Int
  BY FrameNumbers DEF StoreOK
<1>2. p \in Int /\ r \in 0 .. (i - 1) /\ a = i * p + r
  BY <1>1, Division
<1> HIDE DEF p, r
<1>3. p < q
  <2>1. SUFFICES ASSUME q <= p PROVE FALSE
    BY <1>2
  <2>2. p - q \in Nat
    BY <1>2, <2>1
  <2>3. i * (p - q) >= 0 /\ i * (p - q) = i * p - i * q
    BY <1>2, <2>2
  <2>4. i * p \in Int /\ i * q \in Int
    BY <1>2
  <2> QED  BY <1>1, <1>2, <2>3, <2>4
<1>4. q - p < K
  <2>1. SUFFICES ASSUME q - p >= K PROVE FALSE
    BY <1>2, FrameNumbers
  <2>2. K \in Nat \ {0}
    BY FrameNumbers
  <2> HIDE DEF K
  <2> DEFINE d == p \div K
             e == p % K
  <2>3. d \in Int /\ e \in 0 .. (K - 1) /\ p = K * d + e
    BY <1>2, <2>2, Division
  <2> HIDE DEF d, e
  <2> DEFINE j == K * (d + 1)
  <2>4. j \in Int /\ j = K * d + K
    BY <2>2, <2>3
  <2>5. K * d \in Int
    BY <2>2, <2>3
  <2> DEFINE h == i * j
  <2>6. h = K * (i * (d + 1)) /\ i * (d + 1) \in Int
    BY <2>2, <2>3
  <2> HIDE DEF j
  <2>7. p + 1 <= j /\ j <= p + K /\ j <= q
    BY <1>2, <2>1, <2>2, <2>3, <2>4, <2>5
  <2>8. h \in Int /\ h % i = 0
    <3>1. h \in Int /\ h = i * j + 0 /\ 0 \in 0 .. (i - 1)
      BY <2>4
    <3> HIDE DEF h
    <3> QED  BY <2>4, <3>1, Remainder
  <2>9. h <= g
    <3>1. q - j \in Nat
      BY <2>4, <2>7
    <3>2. i * (q - j) >= 0 /\ i * (q - j) = i * q - i * j
      BY <2>4, <3>1
    <3>3. i * q \in Int /\ i * j \in Int
      BY <2>4
    <3> QED  BY <3>2, <3>3
  <2>10. a < h
    <3>1. j - p - 1 \in Nat
      BY <1>2, <2>4, <2>7
    <3>2. i * (j - p - 1) >= 0 /\ i * (j - p - 1) = i * j - i * p - i
      BY <1>2, <2>4, <3>1
    <3>3. i * p \in Int /\ i * j \in Int
      BY <1>2, <2>4
    <3> QED  BY <1>1, <1>2, <3>2, <3>3
  <2>11. h % K = 0
    <3> DEFINE u == i * (d + 1)
    <3>1. h = K * u + 0 /\ u \in Int /\ h \in Int /\ 0 \in 0 .. (K - 1)
      BY <2>2, <2>6, <2>8
    <3> HIDE DEF h, u
    <3> QED  BY <2>2, <3>1, Remainder
  <2> HIDE DEF h
  <2>12. h \in Frames
    <3>1. StartFrame <= a /\ g <= LastFrame /\ StartFrame \in Int /\ LastFrame \in Int
      BY <1>1, FrameNumbers
    <3>2. StartFrame <= h /\ h <= LastFrame
      BY <1>1, <2>8, <2>9, <2>10, <3>1
    <3> QED  BY <2>8, <3>2, FrameNumbers
  <2>13. ShouldSaveCheckpoint(h)
    BY <2>8 DEF ShouldSaveCheckpoint
  <2>14. h % KeyframeInterval # 0
    BY <2>9, <2>10, <2>12, <2>13, NoneLeftOut
  <2> QED  BY <2>11, <2>14 DEF K
<1> QED  BY <1>2, <1>3, <1>4 DEF p, K, FewApart

\* A delta is a multiple of the checkpoint interval.
LEMMA DeltaDue ==
  ASSUME NEW sv, NEW n, StoreOK(states, sv, n), NEW i \in Nat \ {0}, i = interval,
         NEW g \in DOMAIN states, states[g].kind = "delta"
  PROVE  g \div i \in Int /\ g = i * (g \div i) /\ KeyframeInterval > 1
<1>1. g \in Int
  BY FrameNumbers DEF StoreOK
<1>2. ShouldSaveCheckpoint(g) /\ g # StartFrame /\ g % KeyframeInterval # 0
  BY DEF StoreOK, Linked
<1>3. g \div i \in Int /\ g % i \in 0 .. (i - 1) /\ g = i * (g \div i) + (g % i)
  BY <1>1, Division
<1>4. g % i = 0
  BY <1>2, <1>3 DEF ShouldSaveCheckpoint
<1>5. KeyframeInterval # 1
  <2>1. SUFFICES ASSUME KeyframeInterval = 1 PROVE FALSE
    OBVIOUS
  <2>2. 1 \in Nat \ {0} /\ g = 1 * g + 0 /\ 0 \in 0 .. (1 - 1)
    BY <1>1
  <2>3. g % 1 = 0
    BY <1>1, <2>2, Remainder
  <2> QED  BY <1>2, <2>1, <2>3
<1>6. i * (g \div i) \in Int
  BY <1>3
<1> QED  BY <1>3, <1>4, <1>5, <1>6, FrameNumbers

\* Behind the window of the newest state there is one keyframe, or less than a
\* keyframe interval of deltas and what they build on.
LEMMA BehindWindow ==
  ASSUME IInv, NEW f \in DOMAIN states, AtOrBefore(f) = DOMAIN states
  PROVE  Cardinality({g \in DOMAIN states : g < KeepFrom(f)}) < KeyframeInterval
<1> DEFINE B == {h \in DOMAIN states : h < KeepFrom(f)}
<1>1. /\ DOMAIN states \subseteq Frames /\ StoreOK(states, saved, NextSave)
      /\ \A h \in DOMAIN states : h \in Int
  BY FrameNumbers DEF IInv, TypeOK
<1>2. IsFiniteSet(B) /\ Cardinality(B) \in Nat
  BY <1>1, StoreFinite, FS_Subset, FS_CardinalityType
<1>3. KeepFrom(f) \in Int
  BY <1>1, KeepFromMonotonic
<1>4. CASE B = {}
  BY <1>4, FS_EmptySet, FrameNumbers
<1>5. CASE B # {}
  <2> DEFINE a == Min(B)
  <2>1. a \in B /\ \A k \in B : a <= k
    <3>1. B \in SUBSET (StartFrame .. LastFrame)
      BY <1>1 DEF Frames
    <3>2. StartFrame \in Int /\ LastFrame \in Int
      BY FrameNumbers
    <3> HIDE DEF B
    <3> QED  BY <1>5, <3>1, <3>2, MinOfInterval, Zenon
  <2> HIDE DEF a
  <2>2. a \in DOMAIN states /\ a \in Int /\ a < KeepFrom(f)
    BY <1>1, <2>1
  <2>3. \A h \in B : Needed(states, h, f)
    <3>1. \A h \in DOMAIN states : h <= f
      BY DEF AtOrBefore
    <3> QED  BY <3>1 DEF IInv, NothingElse, AllNeeded
  <2>4. PICK g \in DOMAIN states :
            /\ KeepFrom(f) <= g
            /\ \A k \in DOMAIN states : a < k /\ k <= g => states[k].kind = "delta"
    BY <2>1, <2>3 DEF Needed
  <2>5. g \in Int /\ a < g /\ \A h \in B : h \in Int /\ h < g
    BY <1>1, <1>3, <2>2, <2>4
  <2>6. \A h \in B : h # a => states[h].kind = "delta" /\ a < h
    BY <2>1, <2>2, <2>4, <2>5
  <2>7. states[g].kind = "delta"
    BY <2>4, <2>5
  <2>8. mode \in {"keyframe", "frame"}
    BY <1>1, <2>7 DEF StoreOK, Exact
  <2> DEFINE i == interval
  <2>9. i \in Nat \ {0} /\ i = interval
    BY StoreAssumption DEF IInv, ConfigOK
  <2> HIDE DEF i
  <2>10. /\ KeyframeInterval > 1
         /\ \A h \in DOMAIN states : states[h].kind = "delta" =>
                h \div i \in Int /\ h = i * (h \div i)
    BY <1>1, <2>7, <2>9, DeltaDue
  <2>11. /\ IsFiniteSet(B \ {a}) /\ Cardinality(B \ {a}) \in Nat
         /\ Cardinality(B) = Cardinality(B \ {a}) + 1
    <3>1. IsFiniteSet(B \ {a}) /\ Cardinality(B \ {a}) = Cardinality(B) - 1
      BY <1>2, <2>1, FS_RemoveElement
    <3> HIDE DEF B
    <3> QED  BY <1>2, <3>1, FS_CardinalityType
  <2>12. CASE mode = "keyframe"
    <3>1. \A h \in B : states[h].kind = "full"
      BY <2>3, <2>12 DEF Needed
    <3>2. B \ {a} = {}
      BY <2>6, <3>1
    <3>3. Cardinality(B) = 1
      BY <2>11, <3>2, FS_EmptySet
    <3> QED  BY <2>10, <3>3, FrameNumbers
  <2>13. CASE mode = "frame"
    <3> DEFINE p == a \div i
               q == g \div i
               J == (p + 1) .. (q - 1)
               T == {i * j : j \in J}
               F == [j \in J |-> i * j]
    <3>1. q \in Int /\ g = i * q
      BY <2>7, <2>10
    <3> HIDE DEF q
    <3>2. p \in Int /\ p < q /\ q - p < KeyframeInterval
      <4>1. g = i * q /\ q \in Int /\ a < g /\ i \in Nat \ {0} /\ i = interval
        BY <2>5, <2>9, <3>1
      <4>2. FewApart(a, i, q)
        BY <1>1, <2>2, <2>4, <2>13, <4>1, FewCheckpoints, Zenon
      <4> QED  BY <4>2 DEF FewApart
    <3>3. a % i \in 0 .. (i - 1) /\ a = i * p + (a % i)
      BY <2>2, <2>9, Division
    <3> HIDE DEF p
    <3>4. IsFiniteSet(J) /\ Cardinality(J) = q - 1 - p
      <4>1. p + 1 \in Int /\ q - 1 \in Int
        BY <3>1, <3>2
      <4>2. IsFiniteSet(J) /\ Cardinality(J) = IF p + 1 > q - 1 THEN 0
                                               ELSE (q - 1) - (p + 1) + 1
        BY <4>1, FS_Interval
      <4> HIDE DEF J
      <4> QED  BY <3>1, <3>2, <4>2
    <3>5. F \in Surjection(J, T)
      <4> HIDE DEF J
      <4> QED  BY DEF Surjection
    <3>6. IsFiniteSet(T) /\ Cardinality(T) <= Cardinality(J)
      <4> HIDE DEF F, T, J
      <4> QED  BY <3>4, <3>5, FS_Surjection
    <3>7. ASSUME NEW h \in B \ {a} PROVE h \in T
      <4> DEFINE j == h \div i
      <4>1. j \in Int /\ h = i * j /\ a < h /\ h < g /\ h \in Int
        BY <2>5, <2>6, <2>10, <3>7
      <4> HIDE DEF j
      <4>2. j <= q - 1
        <5>1. SUFFICES ASSUME q <= j PROVE FALSE
          BY <3>1, <4>1
        <5>2. j - q \in Nat
          BY <3>1, <4>1, <5>1
        <5>3. i * (j - q) >= 0 /\ i * (j - q) = i * j - i * q
          BY <2>9, <3>1, <4>1, <5>2
        <5>4. i * j \in Int /\ i * q \in Int
          BY <2>9, <3>1, <4>1
        <5> QED  BY <3>1, <4>1, <5>3, <5>4
      <4>3. p + 1 <= j
        <5>1. SUFFICES ASSUME j <= p PROVE FALSE
          BY <3>2, <4>1
        <5>2. p - j \in Nat
          BY <3>2, <4>1, <5>1
        <5>3. i * (p - j) >= 0 /\ i * (p - j) = i * p - i * j
          BY <2>9, <3>2, <4>1, <5>2
        <5>4. i * p \in Int /\ i * j \in Int
          BY <2>9, <3>2, <4>1
        <5> QED  BY <2>2, <3>3, <4>1, <5>3, <5>4
      <4>4. j \in J
        BY <3>1, <3>2, <4>1, <4>2, <4>3
      <4> HIDE DEF J
      <4> QED  BY <4>1, <4>4
    <3>8. Cardinality(B \ {a}) <= Cardinality(T)
      <4>1. B \ {a} \subseteq T
        BY <3>7
      <4> HIDE DEF B, T
      <4> QED  BY <3>6, <4>1, FS_Subset
    <3>9. Cardinality(T) \in Nat
      BY <3>6, FS_CardinalityType
    <3>10. Cardinality(B) < KeyframeInterval
      <4> HIDE DEF B, T, J
      <4> QED  BY <2>11, <3>1, <3>2, <3>4, <3>6, <3>8, <3>9, FrameNumbers
    <3> QED  BY <3>10
  <2> QED  BY <2>8, <2>12, <2>13
<1> QED  BY <1>4, <1>5

-----------------------------------------------------------------------------
(* The theorems *)

\* The invariant holds of every behaviour of the store: all four modes, any
\* checkpoint and keyframe interval, window and limit, any corrections.
THEOREM StoreInvariance == Spec => []IInv
  BY InitIInv, NextIInv, PTL DEF Spec

\* The states, the shadow and the RAM keep their types.
THEOREM TypeCorrect == Spec => []TypeOK
<1>1. IInv => TypeOK
  BY DEF IInv
<1> QED  BY <1>1, StoreInvariance, PTL

\* Whatever RestoreStoredStates or RestorePreimageState rebuilds for a frame is
\* the RAM last saved for it.
THEOREM RestoresAreExact == Spec => []RestoreExact
<1>1. IInv => RestoreExact
  <2>1. SUFFICES ASSUME IInv, NEW f \in DOMAIN states, Restored(f) # None
                 PROVE  Restored(f) = saved[f]
    BY DEF RestoreExact
  <2>2. TypeOK /\ ShadowExact /\ StatesExact
    BY <2>1 DEF IInv, StoreOK, StatesExact
  <2> QED  BY <2>1, <2>2, RestoredExact
<1> QED  BY <1>1, StoreInvariance, PTL

\* With a checkpoint for every frame, a correction always has one, with its whole
\* chain: Prune never takes a base that a kept delta needs.
THEOREM ChainsAreComplete == Spec => []ChainsComplete
<1>1. IInv => ChainsComplete
  <2>1. SUFFICES ASSUME IInv, mode # "preimage", interval = 1, ~ skip, pc = "before",
                        NEW m \in Mismatches
                 PROVE  Ready(m)
    BY DEF ChainsComplete, CorrectionReady
  <2> DEFINE c == ClampMismatch(m)
  <2>2. /\ frame \in Int /\ m \in Int /\ m < frame /\ maxResim \in Nat /\ m \in Frames
        /\ frame \in Frames /\ m + 1 >= KeepFrom(frame)
    BY <2>1, StoreAssumption, FrameNumbers DEF IInv, TypeOK, ConfigOK, Mismatches
  <2>3. c \in Int /\ m <= c /\ c < frame
    BY <2>2 DEF ClampMismatch
  <2> HIDE DEF c
  <2>4. c \in Frames
    <3>1. StartFrame <= m /\ frame <= LastFrame /\ StartFrame \in Int /\ LastFrame \in Int
      BY <2>2, FrameNumbers
    <3>2. StartFrame <= c /\ c <= LastFrame
      BY <2>2, <2>3, <3>1
    <3> QED  BY <2>3, <3>2, FrameNumbers
  <2>5. KeepFrom(frame - 1) <= c
    <3>1. Window \in Nat /\ m > 0
      BY <2>2, FrameNumbers
    <3> QED  BY <2>2, <2>3, <3>1 DEF KeepFrom
  <2>6. c \in DOMAIN states
    BY <2>1, <2>3, <2>4, <2>5 DEF IInv, WindowKept, NextSave
  <2>7. AtOrBefore(c) # {}
    BY <2>3, <2>6 DEF AtOrBefore
  <2>8. Max(AtOrBefore(c)) \in DOMAIN states
    BY <2>1, <2>7, CheckpointBefore DEF c
  <2>9. TypeOK /\ StatesExact /\ BasesKept
    BY <2>1 DEF IInv, StoreOK, StatesExact, BasesKept, Linked
  <2>10. Restored(Max(AtOrBefore(c))) # None
    BY <2>1, <2>8, <2>9, ChainFound DEF Restored
  <2> QED  BY <2>7, <2>10 DEF Ready, c
<1> QED  BY <1>1, StoreInvariance, PTL

\* Prune leaves fewer states behind the window of the newest one than a keyframe
\* interval has frames, however long the match and whatever is corrected.
THEOREM StoreIsBounded == Spec => []StoreBounded
<1>1. IInv => StoreBounded
  <2>1. SUFFICES ASSUME IInv, NEW f \in DOMAIN states, AtOrBefore(f) = DOMAIN states
                 PROVE  Cardinality({g \in DOMAIN states : g < KeepFrom(f)}) < KeyframeInterval
    BY DEF StoreBounded
  <2> QED  BY <2>1, BehindWindow
<1> QED  BY <1>1, StoreInvariance, PTL

=============================================================================
