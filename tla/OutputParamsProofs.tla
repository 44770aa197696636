------------------------- MODULE OutputParamsProofs -------------------------
(***************************************************************************)
(* Proofs about OutputParams, for all descriptions a decoder and a         *)
(* container may give, every kind of decoder and consumer, and every size  *)
(* of the queue and of the counter that OutputParamsAssumption admits.     *)
(***************************************************************************)
EXTENDS OutputParams, FiniteSetTheorems, WellFoundedInduction, TLAPS

-----------------------------------------------------------------------------
(* What merge_output_params does to a stream's parameters.                 *)

LEMMA FieldSets ==
  /\ Pair \subseteq Fields /\ Signal \subseteq Fields
  /\ "channels" \in Pair /\ "channel_layout" \in Pair /\ "range" \in Signal
  /\ \A f \in Pair : f \notin Signal /\ f \notin Kept
  /\ \A f \in Signal : f \notin Pair /\ f \notin Kept
  /\ \A f \in Pair : f = "channels" \/ f = "channel_layout"
BY DEF Fields, Pair, Signal, Kept

IsParams(s) == s = [f \in Fields |-> s[f]]

\* Outside the pair of count and layout, each field is the decoder's if it
\* states it and the stream's own otherwise.
LEMMA MergeIs ==
  ASSUME NEW s, NEW p
  PROVE  /\ IsParams(Merge(s, p))
         /\ \A f \in Fields \ Pair :
              Merge(s, p)[f] = IF f \in Said(p) THEN p[f] ELSE s[f]
<1> DEFINE signal == SignalOver([f \in Signal |-> p[f]], [f \in Signal |-> s[f]])
           taken == [f \in Fields |-> CASE f \in Signal -> signal[f]
                                        [] f \in Kept -> s[f]
                                        [] OTHER -> IF p[f] # Unset THEN p[f] ELSE s[f]]
           fixed == [taken EXCEPT
                      !["channel_layout"] = IF p["channel_layout"] = Unset THEN Unset ELSE @,
                      !["channels"] = IF p["channels"] = Unset
                                        THEN ChannelCount(p["channel_layout"]) ELSE @]
<1>1. Merge(s, p) = taken \/ Merge(s, p) = fixed
  BY DEF Merge
<1>2. \A f \in Signal : signal[f] = IF p[f] # Unset THEN p[f] ELSE s[f]
  BY DEF SignalOver
<1>3. \A f \in Fields : taken[f] = IF f \in Said(p) THEN p[f] ELSE s[f]
  <2> HIDE DEF signal
  <2>1. QED
    BY <1>2, FieldSets DEF Said
<1> HIDE DEF taken
<1>4. IsParams(taken) /\ IsParams(fixed)
  <2>1. IsParams(taken)
    BY DEF IsParams, taken
  <2>2. DOMAIN taken = Fields
    BY DEF taken
  <2>3. QED
    BY <2>1, <2>2 DEF IsParams
<1>5. \A f \in Fields \ Pair : fixed[f] = taken[f]
  <2>1. DOMAIN taken = Fields
    BY DEF taken
  <2>2. QED
    BY <2>1, FieldSets
<1>6. QED
  BY <1>1, <1>3, <1>4, <1>5

\* Of count and layout, one the decoder states is taken, and the result does
\* not contradict itself unless a side already did.
LEMMA MergePair ==
  ASSUME NEW s, NEW p, Consistent(p), Consistent(s)
  PROVE  /\ \A f \in Pair : f \in Said(p) => Merge(s, p)[f] = p[f]
         /\ Consistent(Merge(s, p))
         /\ "channel_layout" \notin Said(p) =>
              Merge(s, p)["channel_layout"] \in {Unset, s["channel_layout"]}
         /\ p["channels"] = Unset /\ p["channel_layout"] = Unset =>
              \A f \in Pair : Merge(s, p)[f] = s[f]
<1> DEFINE signal == SignalOver([f \in Signal |-> p[f]], [f \in Signal |-> s[f]])
           taken == [f \in Fields |-> CASE f \in Signal -> signal[f]
                                        [] f \in Kept -> s[f]
                                        [] OTHER -> IF p[f] # Unset THEN p[f] ELSE s[f]]
           fixed == [taken EXCEPT
                      !["channel_layout"] = IF p["channel_layout"] = Unset THEN Unset ELSE @,
                      !["channels"] = IF p["channels"] = Unset
                                        THEN ChannelCount(p["channel_layout"]) ELSE @]
           c == p["channels"]
           l == p["channel_layout"]
<1>1. Merge(s, p) = IF (c # Unset \/ l # Unset) /\ ~ Consistent(taken) THEN fixed ELSE taken
  BY DEF Merge
<1>2. \A f \in Pair : taken[f] = IF p[f] # Unset THEN p[f] ELSE s[f]
  BY FieldSets
<1>3. DOMAIN taken = Fields
  OBVIOUS
<1>4. \A f \in Pair : f \in Said(p) <=> p[f] # Unset
  BY FieldSets DEF Said
<1> HIDE DEF taken
<1>5. /\ fixed["channel_layout"] = IF l = Unset THEN Unset ELSE taken["channel_layout"]
      /\ fixed["channels"] = IF c = Unset THEN ChannelCount(l) ELSE taken["channels"]
  BY <1>3, FieldSets
<1> HIDE DEF fixed
<1>6. CASE (c # Unset \/ l # Unset) /\ ~ Consistent(taken)
  <2>1. \A f \in Pair : f \in Said(p) => fixed[f] = p[f]
    BY <1>2, <1>4, <1>5, FieldSets
  <2>2. Consistent(fixed)
    BY <1>2, <1>5, <1>6, FieldSets DEF Consistent
  <2>3. "channel_layout" \notin Said(p) => fixed["channel_layout"] = Unset
    BY <1>4, <1>5, FieldSets
  <2>4. QED
    BY <1>1, <1>6, <2>1, <2>2, <2>3
<1>7. CASE c = Unset /\ l = Unset
  <2>1. Consistent(taken)
    BY <1>2, <1>7, FieldSets DEF Consistent
  <2>2. QED
    BY <1>1, <1>2, <1>4, <1>7, <2>1, FieldSets
<1>8. CASE Consistent(taken)
  <2>1. Merge(s, p) = taken
    BY <1>1, <1>8
  <2>2. QED
    BY <1>2, <1>4, <1>8, <2>1, FieldSets
<1>9. QED
  BY <1>6, <1>7, <1>8

\* After a merge the stream says everything the decoder said.
LEMMA MergeCovers ==
  ASSUME NEW s, NEW p, Consistent(p), Consistent(s)
  PROVE  Covers(Merge(s, p), p)
BY MergeIs, MergePair DEF Covers, Said

\* A merge of what the stream already says changes nothing.
LEMMA MergeAgain ==
  ASSUME NEW s, NEW p, IsParams(s), Consistent(s), Covers(s, p)
  PROVE  Merge(s, p) = s
<1> DEFINE signal == SignalOver([f \in Signal |-> p[f]], [f \in Signal |-> s[f]])
           taken == [f \in Fields |-> CASE f \in Signal -> signal[f]
                                        [] f \in Kept -> s[f]
                                        [] OTHER -> IF p[f] # Unset THEN p[f] ELSE s[f]]
<1>1. \A f \in Signal : signal[f] = s[f]
  BY FieldSets DEF SignalOver, Covers, Said
<1>2. \A f \in Fields : taken[f] = s[f]
  <2> HIDE DEF signal
  <2>1. QED
    BY <1>1, FieldSets DEF Covers, Said
<1>3. taken = s
  <2> HIDE DEF signal
  <2>1. taken = [f \in Fields |-> s[f]]
    BY <1>2
  <2>2. QED
    BY <2>1 DEF IsParams
<1>4. QED
  BY <1>3 DEF Merge

\* A count stands for a layout of that many channels.
LEMMA CountOfFromCount ==
  ASSUME NEW n
  PROVE  ChannelCount(FromCount(n)) = n
BY DEF ChannelCount, FromCount

\* So whatever a stream leaves open, asking for the count and asking for the
\* layout gives the same channels.
LEMMA ConsistentResolves ==
  ASSUME NEW s, Consistent(s), ResolvedChannels(s) # Unset
  PROVE  ResolvedChannels(s) = ChannelCount(ResolvedLayout(s))
BY CountOfFromCount DEF ResolvedChannels, ResolvedLayout, Consistent

\* Parameters that cover a description and do not contradict themselves speak of
\* the channels as the description does, if it does.
LEMMA CoversSays ==
  ASSUME NEW s, NEW p, Consistent(s), Consistent(p), Covers(s, p),
         NEW f \in Fields \ Kept, Says(p, f) # Unset
  PROVE  Says(s, f) = Says(p, f)
<1>1. CASE f # "channels"
  BY <1>1 DEF Says, Covers, Said
<1>2. CASE f = "channels"
  <2>1. \A g \in Pair : p[g] # Unset => s[g] = p[g]
    BY FieldSets DEF Covers, Said
  <2>2. ResolvedChannels(p) # Unset
    BY <1>2 DEF Says
  <2>3. ResolvedChannels(s) = ResolvedChannels(p)
    <3>1. CASE p["channels"] # Unset
      BY <2>1, <3>1, FieldSets DEF ResolvedChannels
    <3>2. CASE p["channels"] = Unset
      <4>1. /\ p["channel_layout"] # Unset /\ s["channel_layout"] = p["channel_layout"]
            /\ ResolvedChannels(p) = ChannelCount(p["channel_layout"])
        BY <2>1, <2>2, <3>2, FieldSets DEF ResolvedChannels
      <4>2. QED
        BY <4>1 DEF ResolvedChannels, Consistent
    <3>3. QED
      BY <3>1, <3>2
  <2>4. QED
    BY <1>2, <2>3 DEF Says
<1>3. QED
  BY <1>1, <1>2

\* What s says of each field is what h has of it, but that s may have given up
\* its layout.
Tells(s, h) ==
  /\ \A f \in Fields \ {"channel_layout"} : Says(s, f) = h[f]
  /\ s["channel_layout"] \in {Unset, h["channel_layout"]}

\* A description that the stream covers already adds nothing the stream would
\* not say.
LEMMA CoveredTells ==
  ASSUME NEW s, NEW p, Consistent(s), Consistent(p), Covers(s, p), Tells(s, stated)
  PROVE  Tells(s, Shown(p))
<1>1. ASSUME NEW f \in Fields \ {"channel_layout"} PROVE Says(s, f) = Shown(p)[f]
  <2>1. CASE f \notin Kept /\ Says(p, f) # Unset
    BY <2>1, CoversSays DEF Shown
  <2>2. CASE ~ (f \notin Kept /\ Says(p, f) # Unset)
    BY <2>2 DEF Shown, Tells
  <2>3. QED
    BY <2>1, <2>2
<1>2. s["channel_layout"] \in {Unset, Shown(p)["channel_layout"]}
  BY FieldSets DEF Shown, Tells, Says, Covers, Said
<1>3. QED
  BY <1>1, <1>2 DEF Tells

\* A merge makes the stream say what the description states and leaves it
\* saying what it said otherwise.
LEMMA MergeTells ==
  ASSUME NEW s, NEW p \in Shapes, Consistent(s), Tells(s, stated)
  PROVE  Tells(Merge(s, p), Shown(p))
<1> DEFINE m == Merge(s, p)
<1>1. Consistent(p) /\ Consistent(m) /\ Covers(m, p)
  BY OutputParamsAssumption, MergePair, MergeCovers
<1>2. ASSUME NEW f \in Fields \ {"channel_layout"} PROVE Says(m, f) = Shown(p)[f]
  <2>1. CASE f \notin Kept /\ Says(p, f) # Unset
    <3>1. Shown(p)[f] = Says(p, f)
      BY <2>1 DEF Shown
    <3> HIDE DEF m
    <3>2. QED
      BY <1>1, <2>1, <3>1, CoversSays
  <2>2. CASE ~ (f \notin Kept /\ Says(p, f) # Unset)
    <3>1. Shown(p)[f] = stated[f] /\ Says(s, f) = stated[f]
      BY <2>2 DEF Shown, Tells
    <3>2. CASE f = "channels"
      <4>1. p["channels"] = Unset /\ p["channel_layout"] = Unset
        BY <2>2, <3>2, FieldSets, OutputParamsAssumption DEF Says, ResolvedChannels
      <4>2. m["channels"] = s["channels"] /\ m["channel_layout"] = s["channel_layout"]
        BY <1>1, <4>1, MergePair, FieldSets
      <4>3. ResolvedChannels(m) = ResolvedChannels(s)
        <5> HIDE DEF m
        <5>1. QED
          BY <4>2 DEF ResolvedChannels
      <4>4. QED
        BY <3>1, <3>2, <4>3 DEF Says
    <3>3. CASE f # "channels"
      <4>1. f \in Fields \ Pair /\ f \notin Said(p)
        BY <2>2, <3>3, FieldSets DEF Says, Said
      <4>2. m[f] = s[f]
        BY <4>1, MergeIs
      <4>3. QED
        BY <3>1, <3>3, <4>2 DEF Says
    <3>4. QED
      BY <3>2, <3>3
  <2>3. QED
    BY <2>1, <2>2
<1>3. m["channel_layout"] \in {Unset, Shown(p)["channel_layout"]}
  <2>1. "channel_layout" \in Fields \ Kept /\ Says(p, "channel_layout") = p["channel_layout"]
    BY FieldSets DEF Says
  <2>2. CASE p["channel_layout"] # Unset
    BY <1>1, <2>1, <2>2, FieldSets DEF Shown, Covers, Said
  <2>3. CASE p["channel_layout"] = Unset
    <3>1. Shown(p)["channel_layout"] = stated["channel_layout"]
      BY <2>1, <2>3 DEF Shown
    <3>2. m["channel_layout"] \in {Unset, s["channel_layout"]}
      BY <1>1, <2>3, MergePair DEF Said
    <3>3. QED
      BY <3>1, <3>2 DEF Tells
  <2>4. QED
    BY <2>2, <2>3
<1> HIDE DEF m
<1>4. Tells(m, Shown(p))
  BY <1>2, <1>3 DEF Tells
<1>5. QED
  BY <1>4 DEF m

-----------------------------------------------------------------------------
(***************************************************************************)
(* The inductive invariant.                                                *)
(***************************************************************************)
TypeOK ==
  /\ setup \in Setups
  /\ queue \in Seq(Shapes) /\ Len(queue) <= MaxQueued
  /\ current \in Shapes \union {None}
  /\ generation \in 0 .. (GenMod - 1)
  /\ item \in Items \union {None}
  /\ seen \in (0 .. (GenMod - 1)) \union {None}
  /\ last \in Shapes \union {None}
  /\ resets \in 0 .. MaxResets

\* The description is that of the item in the consumer's hands, and an event
\* stays in front of the frame it is about.
Announced ==
  /\ started => current # None
  /\ item # None => started /\ current = item.shape
  /\ item # None /\ item.kind = "event" => queue # <<>> /\ current = Head(queue)

\* The consumer's watch has read the counter once it has looked at an item.
Looked ==
  /\ seen = None <=> last = None
  /\ last # None => started

\* The stream's count and layout agree.
StreamOK == IsParams(stream) /\ Consistent(stream)

\* How far the counter has moved since the consumer read it, and the change it
\* may have seen without reading it: an item not yet looked at, or an event
\* that was skipped and whose frame is still to come.
Behind(g, s) == IF g >= s THEN g - s ELSE g + GenMod - s
Lag == Behind(generation, seen)
Owed == IF item # None \/ (queue # <<>> /\ current = Head(queue)) THEN 1 ELSE 0

\* The counter never comes full circle, so that a consumer who finds it where
\* it was has a stream that describes what the decoder describes.
CounterTells ==
  setup.mode # "event" /\ seen # None =>
    /\ Lag <= MaxQueued * resets + Owed
    /\ Lag = 0 => Covers(stream, current)

\* The kinds of setup whose consumer learns of every change: a consumer of
\* events needs a decoder that emits them and whose reset forgets none.
Served == setup.mode = "event" => setup.emits /\ setup.reset # "default"

\* A consumer of events has been told of all but an event in its hands.
EventsTell ==
  setup.mode = "event" /\ Served /\ last # None /\ (item # None => item.kind = "media")
    => current = last

Described == Served /\ last # None => Covers(stream, last)

\* The stream says what was last said.
Accounted == Served => Tells(stream, stated)

ParamsInv ==
  /\ TypeOK /\ Announced /\ Looked /\ StreamOK
  /\ CounterTells /\ EventsTell /\ Described /\ Accounted

-----------------------------------------------------------------------------
(* The counter and the changes a drained queue goes through.               *)

\* A set of numbers has a least one: the intervals up to its elements are
\* finite sets, which are well-founded under inclusion.
LEMMA LeastOf ==
  ASSUME NEW D \in SUBSET Nat, D # {}
  PROVE  \E m \in D : \A k \in D : m <= k
<1> DEFINE T == {0 .. k : k \in D}
           R == StrictSubsetOrdering(Nat)
<1>1. T # {} /\ T \subseteq FiniteSubsetsOf(Nat)
  <2>1. \A k \in D : IsFiniteSet(0 .. k) /\ 0 .. k \in SUBSET Nat
    BY FS_Interval
  <2>2. QED
    BY <2>1 DEF FiniteSubsetsOf
<1>2. IsWellFoundedOn(R, FiniteSubsetsOf(Nat))
  BY FS_StrictSubsetOrderingWellFounded
<1>3. PICK X \in T : \A Y \in T : ~ (<<Y, X>> \in R)
  <2> HIDE DEF T, R
  <2>1. QED
    BY <1>1, <1>2, WFMin
<1>4. PICK m \in D : X = 0 .. m
  OBVIOUS
<1>5. ASSUME NEW k \in D, k < m PROVE FALSE
  <2>1. /\ 0 .. k \in SUBSET Nat /\ 0 .. m \in SUBSET Nat
        /\ 0 .. k \subseteq 0 .. m /\ m \in 0 .. m /\ m \notin 0 .. k
    BY <1>5
  <2>2. <<0 .. k, 0 .. m>> \in R
    BY <2>1 DEF StrictSubsetOrdering
  <2>3. QED
    BY <1>3, <1>4, <2>2
<1>6. QED
  BY <1>5

\* As long as it does not come full circle, the counter is as far ahead as
\* the number of steps it took.
LEMMA BehindMoves ==
  ASSUME NEW g \in 0 .. (GenMod - 1), NEW s \in 0 .. (GenMod - 1), NEW k \in Nat,
         Behind(g, s) + k < GenMod
  PROVE  /\ (g + k) % GenMod \in 0 .. (GenMod - 1)
         /\ Behind((g + k) % GenMod, s) = Behind(g, s) + k
<1> GenMod \in Nat
  BY OutputParamsAssumption
<1>1. Behind(g, s) \in Nat
  BY DEF Behind
<1>2. k < GenMod
  BY <1>1
<1>3. (g + k) % GenMod = IF g + k < GenMod THEN g + k ELSE g + k - GenMod
  BY <1>2
<1>4. QED
  BY <1>1, <1>2, <1>3 DEF Behind

\* What MaxResets resets can hide from a consumer is less than a full circle.
LEMMA BoundGrows ==
  ASSUME NEW r \in 0 .. MaxResets
  PROVE  /\ MaxQueued * r \in Nat
         /\ MaxQueued * r + 1 < GenMod
         /\ MaxQueued * (r + 1) = MaxQueued * r + MaxQueued
<1> MaxQueued \in Nat /\ MaxResets \in Nat /\ GenMod \in Nat
    /\ MaxQueued * MaxResets + 1 < GenMod
  BY OutputParamsAssumption
<1>1. MaxQueued * (MaxResets - r) \in Nat
  <2>1. \A x, y \in Nat : x * y \in Nat
    OBVIOUS
  <2>2. QED
    BY <2>1
<1>2. MaxQueued * r + MaxQueued * (MaxResets - r) = MaxQueued * MaxResets
  OBVIOUS
<1>3. MaxQueued * r \in Nat
  <2>1. \A x, y \in Nat : x * y \in Nat
    OBVIOUS
  <2>2. QED
    BY <2>1
<1>4. QED
  BY <1>1, <1>2, <1>3

LEMMA ChangesType ==
  ASSUME queue \in Seq(Shapes)
  PROVE  Changes \in Nat
<1> DEFINE m == Len(Path) - 1
           S == {i \in 1 .. m : Path[i] # Path[i + 1]}
<1>1. m \in Int
  BY DEF Path
<1>2. IsFiniteSet(1 .. m)
  <2> HIDE DEF m
  <2>1. QED
    BY <1>1, FS_Interval
<1>3. S \in SUBSET (1 .. m)
  OBVIOUS
<1>4. IsFiniteSet(S) /\ Cardinality(S) \in Nat
  <2> HIDE DEF S
  <2>1. QED
    BY <1>2, <1>3, FS_Subset, FS_CardinalityType
<1>5. QED
  BY <1>4 DEF Changes

\* A queue makes at most as many changes as it has frames, one less if it
\* starts with the shape already described, and none only if it ends there.
LEMMA ChangesBound ==
  ASSUME queue \in Seq(Shapes), started
  PROVE  /\ Changes \in Nat
         /\ Changes <= Len(queue)
         /\ queue # <<>> /\ current = Head(queue) => Changes <= Len(queue) - 1
         /\ queue # <<>> /\ Changes = 0 => queue[Len(queue)] = current
<1> DEFINE n == Len(queue)
           S == {i \in 1 .. n : Path[i] # Path[i + 1]}
<1>1. /\ n \in Nat
      /\ Len(Path) = n + 1
      /\ Path[1] = current
      /\ \A i \in 1 .. n : Path[i + 1] = queue[i]
  BY DEF Path
<1>2. Changes = Cardinality(S)
  BY <1>1 DEF Changes
<1>3. IsFiniteSet(S) /\ Cardinality(S) \in Nat /\ Cardinality(S) <= n
  <2>1. IsFiniteSet(1 .. n) /\ Cardinality(1 .. n) = n
    <3>1. IsFiniteSet(1 .. n) /\ Cardinality(1 .. n) = IF 1 > n THEN 0 ELSE n - 1 + 1
      BY <1>1, FS_Interval
    <3>2. QED
      BY <1>1, <3>1
  <2>2. S \in SUBSET (1 .. n)
    OBVIOUS
  <2>3. QED
    BY <2>1, <2>2, FS_Subset, FS_CardinalityType
<1>4. ASSUME queue # <<>>, current = Head(queue) PROVE Cardinality(S) <= n - 1
  <2>1. n >= 1 /\ Head(queue) = queue[1]
    BY <1>4
  <2>2. S \in SUBSET (2 .. n)
    BY <1>1, <1>4, <2>1
  <2>3. IsFiniteSet(2 .. n) /\ Cardinality(2 .. n) = n - 1
    BY <1>1, <2>1, FS_Interval
  <2>4. QED
    BY <2>2, <2>3, FS_Subset
<1>5. ASSUME queue # <<>>, Cardinality(S) = 0 PROVE queue[n] = current
  <2>1. S = {}
    BY <1>3, <1>5, FS_EmptySet
  <2>2. n \in 1 .. n
    BY <1>1, <1>5
  <2> DEFINE D == {i \in 1 .. n : queue[i] # current}
  <2>3. SUFFICES ASSUME D # {} PROVE FALSE
    BY <2>2
  <2>4. PICK m \in D : \A k \in D : m <= k
    BY <2>3, LeastOf, D \in SUBSET Nat
  <2>5. m \in 1 .. n /\ queue[m] # current /\ Path[m] = Path[m + 1]
    BY <2>1, <2>4
  <2>6. CASE m = 1
    BY <1>1, <2>5, <2>6
  <2>7. CASE m # 1
    <3>1. m - 1 \in 1 .. n /\ m - 1 \notin D
      BY <1>1, <2>4, <2>5, <2>7
    <3>2. queue[m - 1] = current /\ Path[(m - 1) + 1] = queue[m - 1] /\ (m - 1) + 1 = m
      BY <1>1, <3>1
    <3>3. QED
      BY <1>1, <2>5, <3>2
  <2>8. QED
    BY <2>6, <2>7
<1>6. QED
  BY <1>2, <1>3, <1>4, <1>5
-----------------------------------------------------------------------------
(* The initial states, and the steps of the decoder.                       *)

\* None is not a description, a number or an item.
LEMMA NoneIsNone ==
  /\ \A p \in Shapes : p # None
  /\ \A n \in Int : n # None
  /\ \A i \in Items : i # None
BY OutputParamsAssumption

LEMMA LagType ==
  ASSUME TypeOK
  PROVE  /\ MaxQueued * resets \in Nat
         /\ seen # None => seen \in 0 .. (GenMod - 1) /\ Lag \in 0 .. (GenMod - 1)
<1>1. GenMod \in Nat
  BY OutputParamsAssumption
<1>2. MaxQueued * resets \in Nat
  BY BoundGrows DEF TypeOK
<1>3. ASSUME seen # None
      PROVE  seen \in 0 .. (GenMod - 1) /\ Lag \in 0 .. (GenMod - 1)
  <2>1. seen \in 0 .. (GenMod - 1) /\ generation \in 0 .. (GenMod - 1)
    BY <1>3 DEF TypeOK
  <2>2. QED
    BY <1>1, <2>1 DEF Lag, Behind
<1>4. QED
  BY <1>2, <1>3

LEMMA ParamsInit == Init => ParamsInv
<1> SUFFICES ASSUME Init PROVE ParamsInv
  OBVIOUS
<1>1. TypeOK
  <2>1. GenMod \in Nat /\ 0 < GenMod
    <3>1. 0 \in 0 .. MaxResets
      BY OutputParamsAssumption
    <3>2. QED
      BY <3>1, BoundGrows, OutputParamsAssumption
  <2>2. queue \in Seq(Shapes) /\ Len(queue) <= MaxQueued
    BY OutputParamsAssumption DEF Init
  <2>3. QED
    BY <2>1, <2>2, OutputParamsAssumption DEF Init, TypeOK, ShapesOf
<1>2. Announced
  BY DEF Init, Announced
<1>3. Looked
  BY DEF Init, Looked
<1>4. StreamOK
  BY OutputParamsAssumption DEF Init, StreamOK, IsParams
<1>5. CounterTells /\ EventsTell /\ Described
  BY DEF Init, CounterTells, EventsTell, Described
<1>6. Accounted
  <2>1. stream = origin /\ stated = [f \in Fields |-> Says(origin, f)]
    BY DEF Init
  <2>2. QED
    BY <2>1, FieldSets DEF Accounted, Tells, Says
<1>7. QED
  BY <1>1, <1>2, <1>3, <1>4, <1>5, <1>6 DEF ParamsInv

\* The decoder takes a packet.
LEMMA SendStep ==
  ASSUME ParamsInv, NEW p \in Shapes, Send(p)
  PROVE  ParamsInv'
<1> USE DEF ParamsInv
<1>1. queue' = Append(queue, p) /\ Len(queue) < MaxQueued
  BY DEF Send
<1>2. /\ queue' \in Seq(Shapes) /\ Len(queue') = Len(queue) + 1 /\ queue' # <<>>
      /\ queue # <<>> => Head(queue') = Head(queue)
  BY <1>1 DEF TypeOK
<1>3. UNCHANGED <<setup, current, generation, started, stream, stated, origin, seen, item,
                  last, resets>>
  BY DEF Send, consumer
<1>4. TypeOK'
  BY <1>1, <1>2, <1>3, OutputParamsAssumption DEF TypeOK
<1>5. Announced' /\ Looked'
  BY <1>2, <1>3 DEF Announced, Looked
<1>6. StreamOK'
  BY <1>3 DEF StreamOK
<1>7. CounterTells'
  <2>1. Owed \in {0, 1} /\ Owed' \in {0, 1} /\ Owed <= Owed'
    BY <1>2, <1>3 DEF Owed
  <2>2. Lag' = Lag
    BY <1>3 DEF Lag, Behind
  <2>3. ASSUME setup.mode # "event", seen # None PROVE Lag <= MaxQueued * resets + Owed'
    BY <2>1, <2>3, LagType DEF CounterTells
  <2>4. QED
    BY <1>3, <2>2, <2>3 DEF CounterTells
<1>8. EventsTell' /\ Described'
  BY <1>3 DEF EventsTell, Described, Served
<1>9. Accounted'
  BY <1>3 DEF Accounted, Served
<1>10. QED
  BY <1>4, <1>5, <1>6, <1>7, <1>8, <1>9
\* Publishing the shape at the head of the queue moves the counter by at most
\* the one change the new item stands for.
LEMMA PublishCounts ==
  ASSUME ParamsInv, item = None, queue # <<>>, Publish(Head(queue)), item' # None,
         UNCHANGED <<setup, seen, stream, last, resets>>
  PROVE  /\ current' = Head(queue) /\ Head(queue) \in Shapes
         /\ generation' \in 0 .. (GenMod - 1)
         /\ CounterTells'
<1> USE DEF ParamsInv
<1>1. current' = Head(queue) /\ Head(queue) \in Shapes
  BY DEF Publish, TypeOK
<1>2. GenMod \in Nat /\ generation \in 0 .. (GenMod - 1)
  BY OutputParamsAssumption DEF TypeOK
<1>3. generation' \in 0 .. (GenMod - 1)
  BY <1>2 DEF Publish
<1>4. ASSUME setup.mode # "event", seen # None
      PROVE  Lag' <= MaxQueued * resets + 1 /\ (Lag' = 0 => Covers(stream, current'))
  <2>1. started
    BY <1>4 DEF Looked
  <2>2. Lag <= MaxQueued * resets + Owed /\ (Lag = 0 => Covers(stream, current))
    BY <1>4 DEF CounterTells
  <2>3. /\ MaxQueued * resets \in Nat /\ MaxQueued * resets + 1 < GenMod
        /\ seen \in 0 .. (GenMod - 1) /\ Lag \in 0 .. (GenMod - 1)
    BY <1>4, LagType, BoundGrows DEF TypeOK
  <2>4. CASE current = Head(queue)
    <3>1. generation' = generation
      BY <2>4 DEF Publish
    <3>2. Lag' = Lag
      BY <3>1 DEF Lag
    <3>3. Owed = 1
      BY <2>4 DEF Owed
    <3>4. QED
      BY <1>1, <2>2, <2>4, <3>2, <3>3
  <2>5. CASE current # Head(queue)
    <3>1. generation' = (generation + 1) % GenMod
      BY <2>1, <2>5 DEF Publish
    <3>2. Owed = 0
      BY <2>5 DEF Owed
    <3>3. Behind(generation, seen) + 1 < GenMod
      <4>1. Lag + 1 < GenMod
        BY <1>2, <2>2, <2>3, <3>2
      <4>2. QED
        BY <4>1 DEF Lag
    <3>4. Behind(generation', seen) = Behind(generation, seen) + 1
      BY <1>2, <2>3, <3>1, <3>3, BehindMoves
    <3>5. Lag' = Lag + 1
      BY <3>4 DEF Lag
    <3>6. QED
      BY <2>2, <2>3, <3>2, <3>5
  <2>6. QED
    BY <2>4, <2>5
<1>5. CounterTells'
  <2>1. Owed' = 1
    BY DEF Owed
  <2>2. QED
    BY <1>4, <2>1 DEF CounterTells
<1>6. QED
  BY <1>1, <1>3, <1>5

\* receive_frame returns an event, and the frame it announces stays in front.
LEMMA EventStep ==
  ASSUME ParamsInv, ReceiveEvent
  PROVE  ParamsInv'
<1> USE DEF ParamsInv
<1>1. /\ item' = [kind |-> "event", shape |-> Head(queue)]
      /\ item = None /\ queue # <<>> /\ started /\ Publish(Head(queue))
      /\ UNCHANGED <<setup, queue, started, stream, stated, origin, seen, last, resets>>
  BY DEF ReceiveEvent, Announces, consumer
<1>2. Head(queue) \in Shapes
  BY <1>1 DEF TypeOK
<1>3. item' \in Items /\ item' # None /\ item'.kind = "event" /\ item'.shape = Head(queue)
  BY <1>1, <1>2, NoneIsNone DEF Items
<1>4. current' = Head(queue) /\ generation' \in 0 .. (GenMod - 1) /\ CounterTells'
  BY <1>1, <1>3, PublishCounts
<1>5. TypeOK'
  BY <1>1, <1>2, <1>3, <1>4 DEF TypeOK
<1>6. Announced'
  BY <1>1, <1>2, <1>3, <1>4, NoneIsNone DEF Announced
<1>7. Looked' /\ StreamOK'
  BY <1>1 DEF Looked, StreamOK
<1>8. EventsTell' /\ Described'
  BY <1>1, <1>3 DEF EventsTell, Described, Served
<1>9. Accounted'
  BY <1>1 DEF Accounted, Served
<1>10. QED
  BY <1>4, <1>5, <1>6, <1>7, <1>8, <1>9

\* It returns a media frame: a consumer of events has had the event in front.
LEMMA MediaStep ==
  ASSUME ParamsInv, ReceiveMedia
  PROVE  ParamsInv'
<1> USE DEF ParamsInv
<1>1. /\ item' = [kind |-> "media", shape |-> Head(queue)]
      /\ item = None /\ queue # <<>> /\ Publish(Head(queue))
      /\ queue' = Tail(queue)
      /\ UNCHANGED <<setup, stream, stated, origin, seen, last, resets>>
  BY DEF ReceiveMedia, consumer
<1>2. /\ Head(queue) \in Shapes
      /\ queue' \in Seq(Shapes) /\ Len(queue') <= MaxQueued
  BY <1>1, OutputParamsAssumption DEF TypeOK
<1>3. item' \in Items /\ item' # None /\ item'.kind = "media" /\ item'.shape = Head(queue)
  BY <1>1, <1>2, NoneIsNone DEF Items
<1>4. current' = Head(queue) /\ generation' \in 0 .. (GenMod - 1) /\ CounterTells'
  BY <1>1, <1>3, PublishCounts
<1>5. TypeOK'
  BY <1>1, <1>2, <1>3, <1>4 DEF TypeOK
<1>6. started'
  BY DEF ReceiveMedia
<1>7. Announced'
  BY <1>2, <1>3, <1>4, <1>6, NoneIsNone DEF Announced
<1>8. Looked'
  BY <1>1, <1>6 DEF Looked
<1>9. StreamOK'
  BY <1>1 DEF StreamOK
<1>10. EventsTell'
  <2>1. SUFFICES ASSUME setup.mode = "event", Served, last # None
                 PROVE  current' = last
    BY <1>1 DEF EventsTell, Served
  <2>2. started /\ setup.emits
    BY <2>1 DEF Looked, Served
  <2>3. current = Head(queue)
    BY <2>1, <2>2 DEF ReceiveMedia, Announces
  <2>4. QED
    BY <1>1, <1>4, <2>1, <2>3 DEF EventsTell
<1>11. Described' /\ Accounted'
  BY <1>1 DEF Described, Accounted, Served
<1>12. QED
  BY <1>4, <1>5, <1>7, <1>8, <1>9, <1>10, <1>11

-----------------------------------------------------------------------------
(* The steps of the consumer.                                              *)

\* A merge keeps the stream in order.
LEMMA MergeKeepsStreamOK ==
  ASSUME NEW s, NEW p \in Shapes, IsParams(s), Consistent(s)
  PROVE  /\ IsParams(Merge(s, p)) /\ Consistent(Merge(s, p))
         /\ Covers(Merge(s, p), p)
<1>1. Consistent(p)
  BY OutputParamsAssumption
<1>2. QED
  BY <1>1, MergeIs, MergePair, MergeCovers

\* prime merges the description before the first item is looked at.
LEMMA PrimeStep ==
  ASSUME ParamsInv, Prime
  PROVE  ParamsInv'
<1> USE DEF ParamsInv
<1>1. /\ item = None /\ last = None /\ current # None
      /\ stream' = Merge(stream, current) /\ stated' = Shown(current)
      /\ UNCHANGED <<setup, queue, current, generation, started, origin, seen, item, last,
                     resets>>
  BY DEF Prime, decoder
<1>2. current \in Shapes
  BY <1>1 DEF TypeOK
<1>3. TypeOK' /\ Announced' /\ Looked'
  BY <1>1 DEF TypeOK, Announced, Looked
<1>4. StreamOK'
  BY <1>1, <1>2, MergeKeepsStreamOK DEF StreamOK
<1>5. seen = None
  BY <1>1 DEF Looked
<1>6. CounterTells' /\ EventsTell' /\ Described'
  BY <1>1, <1>5 DEF CounterTells, EventsTell, Described
<1>7. Accounted'
  <2>1. Served => Tells(Merge(stream, current), Shown(current))
    BY <1>2, MergeTells DEF StreamOK, Accounted
  <2>2. QED
    BY <1>1, <2>1 DEF Accounted, Served
<1>8. QED
  BY <1>3, <1>4, <1>6, <1>7

\* What the consumer has told itself of an item, before it reads the counter.
Told == IF CallsObserveFrame /\ item.kind = "event" THEN Merge(stream, item.shape) ELSE stream

LEMMA ToldOK ==
  ASSUME ParamsInv, item # None
  PROVE  /\ item.shape \in Shapes /\ item.shape = current
         /\ IsParams(Told) /\ Consistent(Told)
         /\ CallsObserveFrame /\ item.kind = "event" =>
              /\ Covers(Told, current)
              /\ Served => Tells(Told, Shown(current))
         /\ ~ (CallsObserveFrame /\ item.kind = "event") => Told = stream
<1> USE DEF ParamsInv
<1>1. item.shape \in Shapes /\ item.shape = current
  BY DEF TypeOK, Announced, Items
<1>2. IsParams(stream) /\ Consistent(stream)
  BY DEF StreamOK
<1>3. CASE CallsObserveFrame /\ item.kind = "event"
  <2>1. Told = Merge(stream, current) /\ current \in Shapes
    BY <1>1, <1>3 DEF Told
  <2>2. Served => Tells(Merge(stream, current), Shown(current))
    BY <1>2, <2>1, MergeTells DEF Accounted
  <2>3. QED
    BY <1>1, <1>2, <1>3, <2>1, <2>2, MergeKeepsStreamOK
<1>4. CASE ~ (CallsObserveFrame /\ item.kind = "event")
  BY <1>1, <1>2, <1>4 DEF Told
<1>5. QED
  BY <1>3, <1>4

\* A consumer who reads the counter knows the item's shape from it, whether it
\* moved or not.
LEMMA ObservedCovers ==
  ASSUME ParamsInv, Look, CallsObserve
  PROVE  /\ Covers(stream', current)
         /\ seen' = generation
<1> USE DEF ParamsInv
<1>1. item # None /\ current # None /\ item.shape = current /\ current \in Shapes
  BY ToldOK DEF Look, Announced
<1>2. CASE seen # generation
  <2>1. Reads
    BY <1>1, <1>2 DEF Reads
  <2>2. stream' = Merge(Told, current) /\ seen' = generation
    BY <2>1 DEF Look, Told
  <2>3. Consistent(Told) /\ Consistent(current)
    BY <1>1, ToldOK, OutputParamsAssumption
  <2>4. QED
    BY <2>2, <2>3, MergeCovers
<1>3. CASE seen = generation
  <2>1. ~ Reads
    BY <1>3 DEF Reads
  <2>2. stream' = Told /\ seen' = seen
    BY <2>1 DEF Look, Told
  <2>3. seen # None /\ last # None
    BY <1>3, NoneIsNone DEF TypeOK, Looked
  <2>4. setup.mode # "event"
    BY <2>3 DEF CallsObserve
  <2>5. Lag = 0
    BY <1>3, LagType, <2>3 DEF Lag, Behind
  <2>6. Covers(stream, current)
    BY <2>3, <2>4, <2>5 DEF CounterTells
  <2>7. Covers(Told, current)
    BY <1>1, <2>6, ToldOK
  <2>8. QED
    BY <1>3, <2>2, <2>7
<1>4. QED
  BY <1>2, <1>3

\* Whether it learnt of the item now, from an event before the counter, or
\* earlier, its stream says what the item's description states.
LEMMA ObservedTells ==
  ASSUME ParamsInv, Look, CallsObserve, Served
  PROVE  Tells(stream', stated')
<1> USE DEF ParamsInv
<1>1. item # None /\ item.shape = current /\ current \in Shapes /\ stated' = Shown(current)
  BY ToldOK DEF Look
<1>2. /\ IsParams(Told) /\ Consistent(Told) /\ Consistent(current)
      /\ Consistent(stream) /\ Tells(stream, stated)
  BY <1>1, ToldOK, OutputParamsAssumption DEF StreamOK, Accounted
<1>3. stream' = IF Reads THEN Merge(Told, current) ELSE Told
  BY DEF Look, Told
<1>4. CASE CallsObserveFrame /\ item.kind = "event"
  <2>1. Covers(Told, current) /\ Tells(Told, Shown(current))
    BY <1>1, <1>4, ToldOK
  <2>2. Merge(Told, current) = Told
    BY <1>2, <2>1, MergeAgain
  <2>3. QED
    BY <1>1, <1>3, <2>1, <2>2
<1>5. CASE ~ (CallsObserveFrame /\ item.kind = "event")
  <2>1. Told = stream
    BY <1>1, <1>5, ToldOK
  <2>2. CASE Reads
    BY <1>1, <1>2, <1>3, <2>1, <2>2, MergeTells
  <2>3. CASE ~ Reads
    <3>1. stream' = stream
      BY <1>3, <2>1, <2>3
    <3>2. Covers(stream, current)
      BY <3>1, ObservedCovers
    <3>3. QED
      BY <1>1, <1>2, <3>1, <3>2, CoveredTells
  <2>4. QED
    BY <2>2, <2>3
<1>6. QED
  BY <1>4, <1>5

\* A consumer who does not read it has been told by events, or skips the item.
LEMMA UnobservedLook ==
  ASSUME ParamsInv, Look, ~ CallsObserve
  PROVE  /\ stream' = Told /\ seen' = seen
         /\ \/ CallsObserveFrame /\ setup.mode = "event" /\ last # None /\ last' = current
            \/ /\ ~ CallsObserveFrame /\ stream' = stream /\ last' = last
               /\ resets' = resets /\ setup.mode = "counter-skip" /\ item.kind = "event"
<1> USE DEF ParamsInv
<1>1. item # None /\ item \in Items /\ item.shape = current
  BY ToldOK DEF Look, TypeOK
<1>2. stream' = Told /\ seen' = seen
  BY DEF Look, Told
<1>3. setup.mode \in Modes /\ item.kind \in {"event", "media"}
  BY <1>1, OutputParamsAssumption DEF TypeOK, Items
<1>4. CASE setup.mode = "event"
  <2>1. CallsObserveFrame /\ last # None
    BY <1>4 DEF CallsObserve, CallsObserveFrame
  <2>2. last' = item.shape
    BY <2>1 DEF Look
  <2>3. QED
    BY <1>1, <1>2, <1>4, <2>1, <2>2
<1>5. CASE setup.mode # "event"
  <2>1. setup.mode = "counter-skip" /\ item.kind = "event"
    BY <1>3, <1>5 DEF CallsObserve, Modes
  <2>2. ~ CallsObserveFrame
    BY <2>1 DEF CallsObserveFrame
  <2>3. last' = last /\ resets' = resets /\ stream' = stream
    BY <1>2, <2>2 DEF Look, Told
  <2>4. QED
    BY <1>2, <2>1, <2>2, <2>3
<1>6. QED
  BY <1>4, <1>5

LEMMA LookStep ==
  ASSUME ParamsInv, Look
  PROVE  ParamsInv'
<1> USE DEF ParamsInv
<1>1. /\ item # None /\ item' = None
      /\ UNCHANGED <<setup, queue, current, generation, started, origin>>
  BY DEF Look, decoder
<1>2. /\ item.shape = current /\ current \in Shapes /\ current # None /\ started
      /\ item.kind = "event" => queue # <<>> /\ current = Head(queue)
  BY <1>1, ToldOK, NoneIsNone DEF Announced
<1>3. generation # None
  BY NoneIsNone DEF TypeOK
<1>4. TypeOK'
  <2>1. seen' \in {seen, generation} /\ last' \in {last, current} /\ resets' \in {resets, 0}
    BY <1>2 DEF Look
  <2>2. MaxResets \in Nat
    BY OutputParamsAssumption
  <2>3. seen' \in (0 .. (GenMod - 1)) \union {None} /\ last' \in Shapes \union {None}
    BY <1>2, <2>1 DEF TypeOK
  <2>4. resets' \in 0 .. MaxResets
    BY <2>1, <2>2 DEF TypeOK
  <2>5. QED
    BY <1>1, <2>3, <2>4 DEF TypeOK
<1>5. Announced'
  BY <1>1, <1>2 DEF Announced
<1>6. StreamOK'
  <2>1. stream' = IF CallsObserve /\ Reads THEN Merge(Told, current) ELSE Told
    BY DEF Look, Told
  <2>2. IsParams(Told) /\ Consistent(Told)
    BY <1>1, ToldOK
  <2>3. IsParams(Merge(Told, current)) /\ Consistent(Merge(Told, current))
    BY <1>2, <2>2, MergeKeepsStreamOK
  <2>4. CASE CallsObserve /\ Reads
    <3>1. stream' = Merge(Told, current)
      BY <2>1, <2>4
    <3>2. QED
      BY <2>3, <3>1 DEF StreamOK
  <2>5. CASE ~ (CallsObserve /\ Reads)
    <3>1. stream' = Told
      BY <2>1, <2>5
    <3>2. QED
      BY <2>2, <3>1 DEF StreamOK
  <2>6. QED
    BY <2>4, <2>5
<1>7. CASE CallsObserve
  <2>1. seen' = generation /\ Covers(stream', current)
    BY <1>7, ObservedCovers
  <2>2. last' = current /\ resets' = 0
    BY <1>2, <1>7 DEF Look
  <2>3. Looked'
    BY <1>1, <1>2, <1>3, <2>1, <2>2 DEF Looked
  <2>4. CounterTells'
    <3>1. Lag' = 0
      BY <1>1, <2>1, LagType DEF Lag, Behind, TypeOK
    <3>2. MaxQueued * resets' = 0
      BY <2>2, OutputParamsAssumption
    <3>3. Owed' \in {0, 1}
      BY DEF Owed
    <3>4. QED
      BY <1>1, <2>1, <3>1, <3>2, <3>3 DEF CounterTells
  <2>5. EventsTell' /\ Described'
    BY <1>1, <2>1, <2>2 DEF EventsTell, Described
  <2>6. Accounted'
    BY <1>1, <1>7, ObservedTells DEF Accounted, Served
  <2>7. QED
    BY <1>4, <1>5, <1>6, <2>3, <2>4, <2>5, <2>6
<1>8. CASE ~ CallsObserve
  <2>1. stream' = Told /\ seen' = seen
    BY <1>8, UnobservedLook
  <2>2. CASE CallsObserveFrame /\ setup.mode = "event" /\ last # None /\ last' = current
    <3>1. Looked'
      BY <1>1, <1>2, <2>1, <2>2 DEF Looked
    <3>2. CounterTells' /\ EventsTell'
      BY <1>1, <2>2 DEF CounterTells, EventsTell
    <3>3. Described'
      <4>1. CASE item.kind = "event"
        BY <1>1, <2>1, <2>2, <4>1, ToldOK DEF Described
      <4>2. CASE item.kind # "event"
        <5>1. item.kind = "media" /\ stream' = stream
          BY <1>1, <2>1, <4>2, ToldOK DEF TypeOK, Items
        <5>2. Served => current = last
          BY <2>2, <5>1 DEF EventsTell
        <5>3. QED
          BY <1>1, <2>2, <5>1, <5>2 DEF Described, Served
      <4>3. QED
        BY <4>1, <4>2
    <3>4. Accounted'
      <4>1. stated' = Shown(current)
        BY <1>2, <2>2 DEF Look
      <4>2. CASE item.kind = "event"
        BY <1>1, <2>1, <2>2, <4>1, <4>2, ToldOK DEF Accounted, Served
      <4>3. CASE item.kind # "event"
        <5>1. item.kind = "media" /\ stream' = stream
          BY <1>1, <2>1, <4>3, ToldOK DEF TypeOK, Items
        <5>2. ASSUME Served PROVE Tells(stream, Shown(current))
          <6>1. Covers(stream, current)
            BY <2>2, <5>1, <5>2 DEF EventsTell, Described
          <6>2. Consistent(stream) /\ Consistent(current) /\ Tells(stream, stated)
            BY <1>2, <5>2, OutputParamsAssumption DEF StreamOK, Accounted
          <6>3. QED
            BY <6>1, <6>2, CoveredTells
        <5>3. QED
          BY <1>1, <4>1, <5>1, <5>2 DEF Accounted, Served
      <4>4. QED
        BY <4>2, <4>3
    <3>5. QED
      BY <1>4, <1>5, <1>6, <3>1, <3>2, <3>3, <3>4
  <2>3. CASE /\ ~ CallsObserveFrame /\ stream' = stream /\ last' = last
             /\ resets' = resets /\ setup.mode = "counter-skip" /\ item.kind = "event"
    <3>1. Looked' /\ Described' /\ EventsTell'
      BY <1>1, <2>1, <2>3 DEF Looked, Described, Served, EventsTell
    <3>2. CounterTells'
      <4>1. Owed = 1 /\ Owed' = 1
        BY <1>1, <1>2, <2>3 DEF Owed
      <4>2. Lag' = Lag
        BY <1>1, <2>1 DEF Lag
      <4>3. QED
        BY <1>1, <2>1, <2>3, <4>1, <4>2 DEF CounterTells
    <3>3. Accounted'
      <4>1. stated' = stated
        BY <1>8, <2>3 DEF Look
      <4>2. QED
        BY <1>1, <2>3, <4>1 DEF Accounted, Served
    <3>4. QED
      BY <1>4, <1>5, <1>6, <3>1, <3>2, <3>3
  <2>4. QED
    BY <1>8, <2>2, <2>3, UnobservedLook
<1>9. QED
  BY <1>7, <1>8

-----------------------------------------------------------------------------
(* Resets, and another decoder.                                            *)

\* Pending frames are dropped: the event in front of them stays unread, so one
\* change the counter made may wait for a frame that never comes.
LEMMA ResetOverriddenStep ==
  ASSUME ParamsInv, ResetOverridden
  PROVE  ParamsInv'
<1> USE DEF ParamsInv
<1>1. /\ item = None /\ resets < MaxResets /\ resets' = resets + 1 /\ queue' = <<>>
      /\ UNCHANGED <<setup, current, generation, started, stream, stated, origin, seen, item,
                     last>>
  BY DEF ResetOverridden, consumer
<1>2. TypeOK'
  BY <1>1, OutputParamsAssumption DEF TypeOK
<1>3. Announced' /\ Looked' /\ StreamOK'
  BY <1>1 DEF Announced, Looked, StreamOK
<1>4. CounterTells'
  <2>1. Lag' = Lag
    BY <1>1 DEF Lag
  <2>2. MaxQueued \in Nat /\ resets \in 0 .. MaxResets /\ MaxQueued * resets \in Nat
        /\ MaxQueued * (resets + 1) = MaxQueued * resets + MaxQueued
    BY BoundGrows, OutputParamsAssumption DEF TypeOK
  <2>3. Owed <= MaxQueued
    <3>1. queue # <<>> => Len(queue) >= 1
      BY DEF TypeOK
    <3>2. QED
      BY <1>1, <2>2, <3>1 DEF Owed, TypeOK
  <2>4. Owed' = 0 /\ Owed \in {0, 1}
    BY <1>1 DEF Owed
  <2>5. ASSUME setup.mode # "event", seen # None
        PROVE  /\ Lag <= MaxQueued * (resets + 1) + Owed'
               /\ Lag = 0 => Covers(stream, current)
    BY <2>2, <2>3, <2>4, <2>5, LagType DEF CounterTells
  <2>6. QED
    BY <1>1, <2>1, <2>5 DEF CounterTells
<1>5. EventsTell' /\ Described' /\ Accounted'
  BY <1>1 DEF EventsTell, Described, Accounted, Served
<1>6. QED
  BY <1>2, <1>3, <1>4, <1>5

\* Pending frames are received and forgotten: the counter moves by the changes
\* among them, and if there were none the description is the one it was.
LEMMA ResetDrainedStep ==
  ASSUME ParamsInv, ResetDrained
  PROVE  ParamsInv'
<1> USE DEF ParamsInv
<1>1. /\ item = None /\ resets < MaxResets /\ resets' = resets + 1 /\ queue' = <<>>
      /\ setup.reset = "default"
      /\ current' = (IF queue = <<>> THEN current ELSE queue[Len(queue)])
      /\ generation' = (generation + Changes) % GenMod
      /\ UNCHANGED <<setup, stream, stated, origin, seen, item, last>>
  BY DEF ResetDrained, consumer
<1>2. started' <=> started \/ queue # <<>>
  BY DEF ResetDrained
<1>3. current' \in Shapes \union {None} /\ (queue # <<>> => current' \in Shapes)
  BY <1>1 DEF TypeOK
<1>4. Announced' /\ Looked' /\ StreamOK'
  <2>1. Announced'
    BY <1>1, <1>2, <1>3, NoneIsNone DEF Announced
  <2>2. QED
    BY <1>1, <1>2, <2>1 DEF Looked, StreamOK
<1>5. Changes \in Nat
  BY ChangesType DEF TypeOK
<1>6. TypeOK'
  <2>1. GenMod \in Nat /\ GenMod > 0 /\ generation \in Nat
    BY BoundGrows, OutputParamsAssumption DEF TypeOK
  <2>2. generation' \in 0 .. (GenMod - 1)
    BY <1>1, <1>5, <2>1
  <2>3. QED
    BY <1>1, <1>3, <2>2, OutputParamsAssumption DEF TypeOK
<1>7. CounterTells'
  <2>1. SUFFICES ASSUME setup.mode # "event", seen # None
                 PROVE  /\ Lag' <= MaxQueued * (resets + 1) + Owed'
                        /\ Lag' = 0 => Covers(stream, current')
    BY <1>1 DEF CounterTells
  <2>2. started /\ seen \in 0 .. (GenMod - 1) /\ generation \in 0 .. (GenMod - 1)
        /\ GenMod \in Nat /\ MaxQueued \in Nat
    BY <2>1, LagType, OutputParamsAssumption DEF Looked, TypeOK
  <2>3. /\ Lag \in 0 .. (GenMod - 1) /\ Lag <= MaxQueued * resets + Owed
        /\ Lag = 0 => Covers(stream, current)
    BY <2>1, LagType DEF CounterTells
  <2>4. /\ MaxQueued * resets \in Nat
        /\ MaxQueued * (resets + 1) = MaxQueued * resets + MaxQueued
        /\ MaxQueued * (resets + 1) + 1 < GenMod
    <3>1. resets \in 0 .. MaxResets /\ resets + 1 \in 0 .. MaxResets
      BY <1>1, OutputParamsAssumption DEF TypeOK
    <3>2. QED
      BY <3>1, BoundGrows
  <2>5. Owed + Changes <= MaxQueued
    <3>1. Len(queue) \in Nat /\ Len(queue) <= MaxQueued
      BY DEF TypeOK
    <3>2. Changes <= Len(queue)
          /\ (queue # <<>> /\ current = Head(queue) => Changes <= Len(queue) - 1)
      BY <2>2, ChangesBound DEF TypeOK
    <3>3. QED
      BY <1>1, <1>5, <2>2, <3>1, <3>2 DEF Owed
  <2>6. Owed \in {0, 1}
    BY DEF Owed
  <2>7. Lag + Changes <= MaxQueued * (resets + 1) /\ Lag + Changes < GenMod
    BY <1>5, <2>2, <2>3, <2>4, <2>5, <2>6
  <2>8. Lag' = Lag + Changes
    <3>1. Behind(generation, seen) + Changes < GenMod
      BY <2>7 DEF Lag
    <3>2. Behind((generation + Changes) % GenMod, seen) = Behind(generation, seen) + Changes
      BY <1>5, <2>2, <3>1, BehindMoves
    <3>3. QED
      BY <1>1, <3>2 DEF Lag
  <2>9. ASSUME Lag' = 0 PROVE Covers(stream, current')
    <3>1. Lag = 0 /\ Changes = 0
      BY <1>5, <2>3, <2>8, <2>9
    <3>2. current' = current
      BY <1>1, <2>2, <3>1, ChangesBound DEF TypeOK
    <3>3. QED
      BY <2>3, <3>1, <3>2
  <2>10. Owed' = 0
    BY <1>1 DEF Owed
  <2>11. Lag' <= MaxQueued * (resets + 1) + Owed'
    <3>1. MaxQueued * (resets + 1) \in Nat
      BY <2>2, <2>4
    <3>2. QED
      BY <2>7, <2>8, <2>10, <3>1
  <2>12. QED
    BY <2>9, <2>11
<1>8. EventsTell' /\ Described' /\ Accounted'
  BY <1>1 DEF EventsTell, Described, Accounted, Served
<1>9. QED
  BY <1>4, <1>6, <1>7, <1>8

\* Another decoder: the consumer has looked at nothing of it.
LEMMA SwapStep ==
  ASSUME ParamsInv, NEW c \in Shapes \union {None}, Swap(c)
  PROVE  ParamsInv'
<1> USE DEF ParamsInv
<1>1. /\ item = None /\ queue' = <<>> /\ current' = c /\ generation' = 0
      /\ seen' = None /\ last' = None /\ resets' = 0
      /\ UNCHANGED <<setup, stream, stated, origin, item>>
  BY DEF Swap, consumer
<1>2. ~ started'
  BY DEF Swap
<1>3. TypeOK'
  <2>1. GenMod \in Nat /\ GenMod > 0
    BY BoundGrows, OutputParamsAssumption DEF TypeOK
  <2>2. QED
    BY <1>1, <2>1, OutputParamsAssumption DEF TypeOK
<1>4. Announced' /\ Looked' /\ StreamOK'
  BY <1>1, <1>2 DEF Announced, Looked, StreamOK
<1>5. CounterTells' /\ EventsTell' /\ Described' /\ Accounted'
  BY <1>1 DEF CounterTells, EventsTell, Described, Accounted, Served
<1>6. QED
  BY <1>3, <1>4, <1>5

-----------------------------------------------------------------------------
(* The theorems.                                                           *)

LEMMA ParamsNext == ParamsInv /\ [Next]_vars => ParamsInv'
<1> SUFFICES ASSUME ParamsInv, [Next]_vars PROVE ParamsInv'
  OBVIOUS
<1>1. ASSUME NEW p \in ShapesOf(origin), Send(p) PROVE ParamsInv'
  BY <1>1, SendStep DEF ShapesOf
<1>2. ASSUME NEW c \in ShapesOf(origin) \union {None}, Swap(c) PROVE ParamsInv'
  BY <1>2, SwapStep DEF ShapesOf
<1>3. CASE UNCHANGED vars
  BY <1>3 DEF vars, decoder, consumer, ParamsInv, TypeOK, Announced, Looked, StreamOK,
              CounterTells, Lag, Owed, EventsTell, Served, Described, Accounted
<1>4. QED
  BY <1>1, <1>2, <1>3, EventStep, MediaStep, LookStep, PrimeStep, ResetOverriddenStep,
     ResetDrainedStep DEF Next

\* What a consumer's stream parameters, its watch and the decoder's counter
\* have to do with each other, for every kind of decoder and consumer.
THEOREM ParamsInvariant == Spec => []ParamsInv
<1>1. Init => ParamsInv
  BY ParamsInit
<1>2. ParamsInv /\ [Next]_vars => ParamsInv'
  BY ParamsNext
<1>3. QED
  BY <1>1, <1>2, PTL DEF Spec

\* Once a consumer has looked at an item its stream parameters describe that
\* item, for any queue, any decoder and any way of watching, unless it waits
\* for events that never come or that a default reset has swallowed.
THEOREM StreamDescribes == Spec => [](Served => StreamDescribesFrame)
<1>1. ParamsInv => (Served => StreamDescribesFrame)
  <2>1. SUFFICES ASSUME ParamsInv, Served, item = None, last # None
                 PROVE  /\ Covers(stream, last)
                        /\ "range" \in Said(last) => ResolvedColorRange(stream) = last["range"]
    BY DEF StreamDescribesFrame
  <2>2. Covers(stream, last)
    BY <2>1 DEF ParamsInv, Described
  <2>3. ASSUME "range" \in Said(last) PROVE ResolvedColorRange(stream) = last["range"]
    BY <2>2, <2>3 DEF Covers, Said, ResolvedColorRange
  <2>4. QED
    BY <2>2, <2>3
<1>2. QED
  BY <1>1, ParamsInvariant, PTL

\* A stream's count and its layout never contradict each other.
THEOREM ChannelsAgree == Spec => []LayoutConsistent
<1>1. ParamsInv => LayoutConsistent
  BY ConsistentResolves DEF ParamsInv, StreamOK, LayoutConsistent
<1>2. QED
  BY <1>1, ParamsInvariant, PTL

\* Every field of the stream is what was last said of it: by the last
\* description that stated it among those the consumer was shown, whether it
\* merged that one or not, and by the container if none has; the number of
\* channels may have been said by a layout.
THEOREM FieldsHaveOneSource == Spec => [](Served => FieldsAccountedFor)
<1>1. ParamsInv => (Served => FieldsAccountedFor)
  BY DEF ParamsInv, Accounted, Tells, FieldsAccountedFor
<1>2. QED
  BY <1>1, ParamsInvariant, PTL

\* Looking at an item the stream already describes changes nothing.
THEOREM ReportedOnce == Spec => ChangesReportedOnce
<1> DEFINE A == item # None /\ item' = None /\ Covers(stream, item.shape) => stream' = stream
<1>1. ParamsInv /\ [Next]_vars => [A]_vars
  <2>1. SUFFICES ASSUME ParamsInv, Look, Covers(stream, item.shape)
                 PROVE  stream' = stream
    BY DEF vars, decoder, consumer, Next, Send, ReceiveEvent, ReceiveMedia, Prime,
           ResetOverridden, ResetDrained, Swap
  <2>2. item.shape = current /\ IsParams(stream) /\ Consistent(stream)
    BY <2>1, ToldOK DEF Look, ParamsInv, StreamOK
  <2>3. Merge(stream, item.shape) = stream /\ Merge(stream, current) = stream
    BY <2>1, <2>2, MergeAgain
  <2>4. QED
    BY <2>1, <2>3 DEF Look
<1>2. QED
  BY <1>1, ParamsInvariant, PTL DEF Spec, ChangesReportedOnce
=============================================================================
