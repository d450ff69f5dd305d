---------------------------- MODULE Images_proofs ----------------------------
(***************************************************************************)
(* Theorems about the images of a screen, for every number of images, ids, *)
(* frames, sizes and limits: the images, the cache and the count of the    *)
(* storage agree, and the quota takes only what it must (ImageStore).  And *)
(* for every number of frames and every gap an animation has a current     *)
(* frame, shows it and is not forgotten, and its scan comes to an end      *)
(* (Animation).                                                            *)
(***************************************************************************)
EXTENDS ImageStore, Animation, Sums, TLAPS

(* The store: the images, the entries of the cache and the two counts.     *)
StoreType == [images : [Internal -> Image], cache : SUBSET FrameEntry, total : Nat, used : Nat]

(* The frames of an image are numbered from its counter, no two alike; an  *)
(* image that was not touched has no data; what is placed has been loaded  *)
(* and has a root frame.                                                   *)
ImageWell(im) ==
    /\ im.atime = 0 => ~im.loaded
    /\ im.root \notin im.extra /\ im.root <= im.last /\ im.extra \subseteq 1..im.last
    /\ im.refs # {} => im.loaded
    /\ im.loaded => im.root # 0

(* Every entry of the cache is a frame of an image, and every frame has    *)
(* one entry.                                                              *)
CacheWell(s) ==
    /\ IsFiniteSet(s.cache)
    /\ \A e \in s.cache : e.image \in LiveIn(s) /\ e.frame \in Frames(s.images[e.image])
    /\ \A i \in LiveIn(s) : \A f \in Frames(s.images[i]) :
            \E e \in s.cache : e.image = i /\ e.frame = f
    /\ \A d, e \in s.cache : d.image = e.image /\ d.frame = e.frame => d = e

(* No image is touched between s and t.                                    *)
Untouched(s, t) == \A j \in Internal : t.images[j].atime <= s.images[j].atime

IdsWell(s) ==
    \A i, j \in LiveIn(s) : s.images[i].id # 0 /\ s.images[i].id = s.images[j].id => i = j

(* What the images use is in the count of the storage.                     *)
UsedOf(s) == [i \in Internal |-> s.images[i].used]
Sum(s, D) == Amount(UsedOf(s), D)

Well(s) ==
    /\ s \in StoreType
    /\ \A i \in Internal : ImageWell(s.images[i])
    /\ IdsWell(s)
    /\ CacheWell(s)
    /\ Sum(s, LiveIn(s)) <= s.used
-----------------------------------------------------------------------------
(* Sums over the images.                                                   *)
LEMMA ImagesAreFew ==
    ASSUME NEW D \in SUBSET Internal
    PROVE  IsFiniteSet(D)
<1>1. MaxImages \in Nat
  BY ImageStoreAssumption
<1>2. IsFiniteSet(Internal)
  BY <1>1, FS_Interval DEF Internal
<1> QED BY <1>2, FS_Subset

LEMMA UsedAreWeights ==
    ASSUME NEW s, s.images \in [Internal -> Image], NEW D \in SUBSET Internal
    PROVE  Weights(UsedOf(s), D)
  BY DEF Weights, UsedOf, Image

LEMMA SumUsedIsSum ==
    ASSUME NEW s, s.images \in [Internal -> Image], NEW D \in SUBSET Internal
    PROVE  SumUsed(s, D) = Sum(s, D) /\ Sum(s, D) \in Nat
<1> DEFINE w == UsedOf(s)
           P(it) == it = [t \in SUBSET D |-> IF t = {} THEN 0 ELSE
                        s.images[CHOOSE x \in t : TRUE].used + it[t \ {CHOOSE x \in t : TRUE}]]
<1>1. SumUsed(s, D) = (CHOOSE it : P(it))[D]
  BY Zenon DEF SumUsed, MapThenSumSet, MapThenFoldSet
<1>2. Weights(w, D) /\ IsFiniteSet(D)
  BY UsedAreWeights, ImagesAreFew
<1>3. ASSUME NEW t \in SUBSET D, t # {}
      PROVE  s.images[CHOOSE x \in t : TRUE].used = w[OneOf(t)]
  <2>1. OneOf(t) \in Internal /\ OneOf(t) = CHOOSE x \in t : TRUE
    BY <1>3, OneIsIn DEF OneOf
  <2> QED BY <2>1 DEF UsedOf
<1>4. ASSUME NEW it PROVE P(it) <=> SumsOf(it, w, D)
  <2>1. [t \in SUBSET D |-> IF t = {} THEN 0 ELSE
            s.images[CHOOSE x \in t : TRUE].used + it[t \ {CHOOSE x \in t : TRUE}]]
        = [t \in SUBSET D |-> IF t = {} THEN 0 ELSE w[OneOf(t)] + it[t \ {OneOf(t)}]]
    <3> HIDE DEF w
    <3>1. ASSUME NEW t \in SUBSET D
          PROVE  (IF t = {} THEN 0 ELSE s.images[CHOOSE x \in t : TRUE].used + it[t \ {CHOOSE x \in t : TRUE}])
                 = (IF t = {} THEN 0 ELSE w[OneOf(t)] + it[t \ {OneOf(t)}])
      <4>1. CASE t = {}
        BY <4>1, Zenon
      <4>2. CASE t # {}
        <5>1. s.images[CHOOSE x \in t : TRUE].used = w[OneOf(t)]
          BY <1>3, <4>2
        <5>2. OneOf(t) = CHOOSE x \in t : TRUE
          BY Zenon DEF OneOf
        <5> QED BY <4>2, <5>1, <5>2, Zenon
      <4> QED BY <4>1, <4>2
    <3> QED BY <3>1, Zenon
  <2> QED BY <2>1, Zenon DEF SumsOf
<1> HIDE DEF P, w
<1>5. \E it : P(it)
  BY <1>2, <1>4, AmountsAreSums
<1>6. P(CHOOSE it : P(it))
  BY <1>5, Zenon
<1>7. (CHOOSE it : P(it))[D] = Amount(w, D)
  BY <1>2, <1>4, <1>6, SumsAreAmounts
<1>8. Amount(w, D) \in Nat
  BY <1>2, AmountIsNat
<1> QED BY <1>1, <1>7, <1>8 DEF Sum, w

(* The sizes of entries that leave the cache.                              *)
LEMMA SizesSumIsNat ==
    ASSUME NEW D \in SUBSET FrameEntry, IsFiniteSet(D)
    PROVE  MapThenSumSet(LAMBDA e : e.size, D) \in Nat
<1> DEFINE w == [e \in D |-> e.size]
           P(it) == it = [t \in SUBSET D |-> IF t = {} THEN 0 ELSE
                        (CHOOSE x \in t : TRUE).size + it[t \ {CHOOSE x \in t : TRUE}]]
<1>1. MapThenSumSet(LAMBDA e : e.size, D) = (CHOOSE it : P(it))[D]
  BY Zenon DEF MapThenSumSet, MapThenFoldSet
<1>2. Weights(w, D) /\ IsFiniteSet(D)
  BY DEF Weights, FrameEntry
<1>3. ASSUME NEW t \in SUBSET D, t # {}
      PROVE  (CHOOSE x \in t : TRUE).size = w[OneOf(t)]
  <2>1. OneOf(t) \in D /\ OneOf(t) = CHOOSE x \in t : TRUE
    BY <1>3, OneIsIn DEF OneOf
  <2>2. w[OneOf(t)] = OneOf(t).size
    BY <2>1
  <2> QED BY <2>1, <2>2, Zenon
<1>4. ASSUME NEW it PROVE P(it) <=> SumsOf(it, w, D)
  <2>1. [t \in SUBSET D |-> IF t = {} THEN 0 ELSE
            (CHOOSE x \in t : TRUE).size + it[t \ {CHOOSE x \in t : TRUE}]]
        = [t \in SUBSET D |-> IF t = {} THEN 0 ELSE w[OneOf(t)] + it[t \ {OneOf(t)}]]
    <3> HIDE DEF w
    <3>1. ASSUME NEW t \in SUBSET D
          PROVE  (IF t = {} THEN 0 ELSE (CHOOSE x \in t : TRUE).size + it[t \ {CHOOSE x \in t : TRUE}])
                 = (IF t = {} THEN 0 ELSE w[OneOf(t)] + it[t \ {OneOf(t)}])
      <4>1. CASE t = {}
        BY <4>1, Zenon
      <4>2. CASE t # {}
        <5>1. (CHOOSE x \in t : TRUE).size = w[OneOf(t)]
          BY <1>3, <4>2
        <5>2. OneOf(t) = CHOOSE x \in t : TRUE
          BY Zenon DEF OneOf
        <5> QED BY <4>2, <5>1, <5>2, Zenon
      <4> QED BY <4>1, <4>2
    <3> QED BY <3>1, Zenon
  <2> QED BY <2>1, Zenon DEF SumsOf
<1> HIDE DEF P, w
<1>5. \E it : P(it)
  BY <1>2, <1>4, AmountsAreSums
<1>6. P(CHOOSE it : P(it))
  BY <1>5, Zenon
<1>7. (CHOOSE it : P(it))[D] = Amount(w, D)
  BY <1>2, <1>4, <1>6, SumsAreAmounts
<1>8. Amount(w, D) \in Nat
  BY <1>2, AmountIsNat
<1> QED BY <1>1, <1>7, <1>8

LEMMA MaxIsNat ==
    ASSUME NEW a \in Nat, NEW b \in Int
    PROVE  Max({a, b}) \in Nat
<1>1. \E x \in {a, b} : \A y \in {a, b} : x >= y
  <2>1. a >= b \/ b >= a
    OBVIOUS
  <2> QED BY <2>1
<1>2. Max({a, b}) \in {a, b} /\ \A y \in {a, b} : Max({a, b}) >= y
  BY <1>1 DEF Max
<1> QED BY <1>2
-----------------------------------------------------------------------------
(* What the operations make of the parts of a store.                       *)
LEMMA StoreParts ==
    ASSUME NEW s \in StoreType
    PROVE  /\ s.images \in [Internal -> Image] /\ s.cache \subseteq FrameEntry
           /\ s.total \in Nat /\ s.used \in Nat
           /\ LiveIn(s) \subseteq Internal
           /\ \A i \in Internal : s.images[i] \in Image
  BY DEF StoreType, LiveIn

LEMMA UncachedIs ==
    ASSUME NEW s \in StoreType, NEW E \in SUBSET s.cache, IsFiniteSet(s.cache)
    PROVE  /\ Uncached(s, E) \in StoreType
           /\ Uncached(s, E).images = s.images
           /\ Uncached(s, E).cache = s.cache \ E
           /\ Uncached(s, E).used = s.used
<1> DEFINE m == Max({0, s.total - MapThenSumSet(LAMBDA e : e.size, E)})
<1>1. m \in Nat
  <2>1. IsFiniteSet(E) /\ E \in SUBSET FrameEntry
    BY FS_Subset, StoreParts
  <2>2. MapThenSumSet(LAMBDA e : e.size, E) \in Nat
    BY <2>1, SizesSumIsNat
  <2>3. s.total - MapThenSumSet(LAMBDA e : e.size, E) \in Int
    BY <2>2, StoreParts
  <2> QED BY <2>3, MaxIsNat
<1>2. Uncached(s, E) = [s EXCEPT !.cache = s.cache \ E, !.total = m]
  BY DEF Uncached
<1> HIDE DEF m
<1> QED BY <1>1, <1>2, StoreParts DEF StoreType

LEMMA WithoutIs ==
    ASSUME NEW s \in StoreType, IsFiniteSet(s.cache), NEW D \in SUBSET Internal,
           Sum(s, D) <= s.used
    PROVE  /\ Without(s, D) \in StoreType
           /\ Without(s, D).images = [i \in Internal |-> IF i \in D THEN NoImage ELSE s.images[i]]
           /\ Without(s, D).cache = s.cache \ UNION {EntriesOf(s, i, Frames(s.images[i])) : i \in D}
           /\ Without(s, D).used = s.used - Sum(s, D)
<1> DEFINE E == UNION {EntriesOf(s, i, Frames(s.images[i])) : i \in D}
           f == [i \in Internal |-> IF i \in D THEN NoImage ELSE s.images[i]]
           u == Uncached(s, E)
<1>1. E \in SUBSET s.cache
  BY DEF EntriesOf
<1>2. /\ u \in StoreType /\ u.images = s.images /\ u.cache = s.cache \ E /\ u.used = s.used
  BY <1>1, UncachedIs
<1>3. f \in [Internal -> Image]
  <2>1. NoImage \in Image
    BY ImageStoreAssumption DEF NoImage, Image
  <2> QED BY <2>1, StoreParts
<1>4. Sum(s, D) \in Nat /\ SumUsed(s, D) = Sum(s, D)
  BY StoreParts, SumUsedIsSum
<1>5. s.used - Sum(s, D) \in Nat
  BY <1>4, StoreParts
<1>6. Without(s, D) = [u EXCEPT !.images = f, !.used = s.used - Sum(s, D)]
  <2>1. Without(s, D) = [u EXCEPT !.images = [i \in Internal |-> IF i \in D THEN NoImage ELSE u.images[i]],
                                  !.used = u.used - SumUsed(s, D)]
    BY DEF Without
  <2> HIDE DEF u, E
  <2> QED BY <1>2, <1>4, <2>1
<1> DEFINE w == Without(s, D)
           n == s.used - Sum(s, D)
<1> HIDE DEF u, f, E, w, n
<1>7. w = [u EXCEPT !.images = f, !.used = n]
  BY <1>6 DEF w, n
<1>8. w.images = f /\ w.used = n /\ w.cache = u.cache /\ w \in StoreType
  BY <1>2, <1>3, <1>5, <1>7 DEF StoreType, n
<1> QED BY <1>2, <1>8 DEF w, n, f, E
-----------------------------------------------------------------------------
(* Freeing images.                                                         *)
LEMMA WellParts ==
    ASSUME NEW s, Well(s)
    PROVE  /\ s \in StoreType /\ IsFiniteSet(s.cache) /\ IdsWell(s) /\ CacheWell(s)
           /\ \A i \in Internal : ImageWell(s.images[i])
           /\ LiveIn(s) \in SUBSET Internal /\ IsFiniteSet(LiveIn(s))
           /\ Weights(UsedOf(s), LiveIn(s))
           /\ Sum(s, LiveIn(s)) \in Nat /\ Sum(s, LiveIn(s)) <= s.used
<1>1. s \in StoreType
  BY DEF Well
<1>2. LiveIn(s) \in SUBSET Internal /\ s.images \in [Internal -> Image]
  BY <1>1, StoreParts
<1> QED BY <1>1, <1>2, ImagesAreFew, UsedAreWeights, SumUsedIsSum DEF Well, CacheWell

LEMMA PartIsCounted ==
    ASSUME NEW s, Well(s), NEW D \in SUBSET LiveIn(s)
    PROVE  Sum(s, D) \in Nat /\ Sum(s, D) <= Sum(s, LiveIn(s)) /\ Sum(s, D) <= s.used
<1>1. Sum(s, D) <= Sum(s, LiveIn(s))
  BY WellParts, AmountGrows DEF Sum
<1>2. Sum(s, D) \in Nat
  BY WellParts, StoreParts, SumUsedIsSum
<1> QED BY <1>1, <1>2, WellParts, StoreParts

LEMMA WithoutWell ==
    ASSUME NEW s, Well(s), NEW D \in SUBSET LiveIn(s)
    PROVE  /\ Well(Without(s, D))
           /\ LiveIn(Without(s, D)) = LiveIn(s) \ D
           /\ Without(s, D).images = [i \in Internal |-> IF i \in D THEN NoImage ELSE s.images[i]]
           /\ Without(s, D).used = s.used - Sum(s, D)
           /\ Without(s, D).used <= s.used
<1> DEFINE w == Without(s, D)
           E == UNION {EntriesOf(s, i, Frames(s.images[i])) : i \in D}
<1>0. s \in StoreType /\ D \in SUBSET Internal
  BY WellParts
<1>1. /\ w \in StoreType /\ w.cache = s.cache \ E /\ w.used = s.used - Sum(s, D)
      /\ w.images = [i \in Internal |-> IF i \in D THEN NoImage ELSE s.images[i]]
  BY <1>0, WellParts, PartIsCounted, WithoutIs
<1>2. E = {e \in s.cache : e.image \in D}
  BY WellParts DEF EntriesOf, CacheWell
<1> HIDE DEF w, E
<1>3. LiveIn(w) = LiveIn(s) \ D
  BY <1>0, <1>1 DEF LiveIn, NoImage
<1>4. \A i \in Internal : ImageWell(w.images[i])
  <2>1. ImageWell(NoImage)
    BY DEF ImageWell, NoImage
  <2> QED BY <1>1, <2>1, WellParts
<1>5. \A i \in LiveIn(w) : i \in LiveIn(s) /\ i \in Internal /\ w.images[i] = s.images[i]
  BY <1>0, <1>1, <1>3, WellParts
<1>6. IdsWell(w)
  BY <1>5, WellParts DEF IdsWell
<1>7. CacheWell(w)
  <2>0. w.cache \subseteq s.cache /\ \A e \in s.cache : e \in w.cache <=> e.image \notin D
    BY <1>1, <1>2
  <2>1. IsFiniteSet(w.cache)
    BY <2>0, WellParts, FS_Subset
  <2>2. ASSUME NEW e \in w.cache
        PROVE  e.image \in LiveIn(w) /\ e.frame \in Frames(w.images[e.image])
    <3>1. e.image \in LiveIn(s) /\ e.frame \in Frames(s.images[e.image]) /\ e.image \notin D
      BY <2>0, WellParts DEF CacheWell
    <3> QED BY <3>1, <1>3, <1>5
  <2>3. ASSUME NEW i \in LiveIn(w), NEW f \in Frames(w.images[i])
        PROVE  \E e \in w.cache : e.image = i /\ e.frame = f
    <3>1. i \in LiveIn(s) /\ f \in Frames(s.images[i]) /\ i \notin D
      BY <1>3, <1>5
    <3>2. PICK e \in s.cache : e.image = i /\ e.frame = f
      BY <3>1, WellParts DEF CacheWell
    <3> QED BY <2>0, <3>1, <3>2
  <2>4. \A d, e \in w.cache : d.image = e.image /\ d.frame = e.frame => d = e
    BY <2>0, WellParts DEF CacheWell
  <2> QED BY <2>1, <2>2, <2>3, <2>4 DEF CacheWell
<1>8. Sum(w, LiveIn(w)) = Sum(s, LiveIn(s)) - Sum(s, D)
  <2>1. Sum(s, LiveIn(s)) = Sum(s, D) + Sum(s, LiveIn(s) \ D)
    BY WellParts, AmountParts DEF Sum
  <2>2. \A k \in LiveIn(s) \ D : UsedOf(w)[k] = UsedOf(s)[k]
    BY <1>3, <1>5 DEF UsedOf
  <2>3. Sum(w, LiveIn(w)) = Sum(s, LiveIn(s) \ D)
    BY <2>2, <1>3, AmountAgrees DEF Sum
  <2>4. Sum(s, D) \in Nat /\ Sum(s, LiveIn(s) \ D) \in Nat
    BY PartIsCounted
  <2> QED BY <2>1, <2>3, <2>4
<1>9. s.used \in Nat /\ Sum(s, D) \in Nat /\ Sum(s, LiveIn(s)) \in Nat /\ Sum(s, LiveIn(s)) <= s.used
  BY <1>0, StoreParts, WellParts, PartIsCounted
<1>10. Sum(w, LiveIn(w)) <= w.used /\ w.used <= s.used
  BY <1>1, <1>8, <1>9
<1> QED BY <1>1, <1>3, <1>4, <1>6, <1>7, <1>10 DEF Well, w

(* Changes of images that leave frames and ids alone.                      *)
Retouched(s, f) ==
    /\ f \in [Internal -> Image]
    /\ \A i \in Internal :
        /\ ImageWell(f[i])
        /\ f[i].atime > 0 <=> s.images[i].atime > 0
        /\ f[i].id = s.images[i].id
        /\ f[i].root = s.images[i].root /\ f[i].extra = s.images[i].extra
        /\ f[i].used <= s.images[i].used

LEMMA RetouchedWell ==
    ASSUME NEW s, Well(s), NEW f, Retouched(s, f), NEW t, t = [s EXCEPT !.images = f]
    PROVE  Well(t) /\ LiveIn(t) = LiveIn(s) /\ t.images = f /\ t.used = s.used
<1>1. t \in StoreType /\ t.images = f /\ t.cache = s.cache /\ t.used = s.used
  BY WellParts DEF StoreType, Retouched
<1>2. LiveIn(t) = LiveIn(s)
  BY <1>1 DEF LiveIn, Retouched
<1>3. \A i \in LiveIn(s) : i \in Internal /\ f[i].id = s.images[i].id /\ Frames(f[i]) = Frames(s.images[i])
  BY WellParts DEF Retouched, Frames
<1>4. IdsWell(t)
  BY <1>1, <1>2, <1>3, WellParts DEF IdsWell
<1>5. CacheWell(t)
  BY <1>1, <1>2, <1>3, WellParts DEF CacheWell
<1>6. Sum(t, LiveIn(t)) <= Sum(s, LiveIn(s))
  <2>1. \A i \in LiveIn(s) : UsedOf(t)[i] <= UsedOf(s)[i]
    BY <1>1, WellParts DEF Retouched, UsedOf
  <2>2. Weights(UsedOf(t), LiveIn(s))
    BY <1>1, WellParts, UsedAreWeights DEF Retouched
  <2> QED BY <1>2, <2>1, <2>2, WellParts, AmountOfLess DEF Sum
<1>7. Sum(t, LiveIn(t)) <= t.used
  <2>1. Sum(t, LiveIn(t)) \in Nat
    BY <1>1, <1>2, WellParts, StoreParts, SumUsedIsSum
  <2> QED BY <1>1, <1>6, <2>1, WellParts, StoreParts
<1> QED BY <1>1, <1>2, <1>4, <1>5, <1>7 DEF Well, Retouched
-----------------------------------------------------------------------------
(* The quota.                                                              *)
LEMMA NewestFirstWell ==
    ASSUME NEW s, Well(s)
    PROVE  /\ Well(NewestFirst(s)) /\ LiveIn(NewestFirst(s)) = LiveIn(s)
           /\ NewestFirst(s).used = s.used
           /\ \A i \in Internal : NewestFirst(s).images[i] = [s.images[i] EXCEPT !.at = -s.images[i].atime]
<1> DEFINE f == [i \in Internal |-> [s.images[i] EXCEPT !.at = -s.images[i].atime]]
<1>1. s.images \in [Internal -> Image] /\ \A i \in Internal : ImageWell(s.images[i])
  BY WellParts, StoreParts
<1>2. ASSUME NEW i \in Internal
      PROVE  /\ f[i] \in Image
             /\ ImageWell(f[i])
             /\ f[i].atime > 0 <=> s.images[i].atime > 0
             /\ f[i].id = s.images[i].id
             /\ f[i].root = s.images[i].root /\ f[i].extra = s.images[i].extra
             /\ f[i].used <= s.images[i].used
  <2> DEFINE im == s.images[i]
             g == [im EXCEPT !.at = -im.atime]
  <2>1. im \in Image /\ ImageWell(im) /\ f[i] = g
    BY <1>1
  <2> HIDE DEF im, g, f
  <2>2. -im.atime \in Int /\ im.used \in Nat
    BY <2>1 DEF Image
  <2>3. g \in Image
    BY <2>1, <2>2 DEF g, Image
  <2>4. /\ g.atime = im.atime /\ g.id = im.id /\ g.root = im.root /\ g.extra = im.extra
        /\ g.used = im.used /\ g.last = im.last /\ g.loaded = im.loaded /\ g.refs = im.refs
    BY <2>1 DEF g, Image
  <2>5. ImageWell(g)
    BY <2>1, <2>4 DEF ImageWell
  <2> QED BY <2>1, <2>2, <2>3, <2>4, <2>5 DEF im
<1>3. Retouched(s, f)
  BY <1>2 DEF Retouched
<1>4. NewestFirst(s) = [s EXCEPT !.images = f]
  BY DEF NewestFirst
<1> HIDE DEF f
<1>5. Well(NewestFirst(s)) /\ LiveIn(NewestFirst(s)) = LiveIn(s)
      /\ NewestFirst(s).images = f /\ NewestFirst(s).used = s.used
  BY <1>3, <1>4, RetouchedWell
<1> QED BY <1>5 DEF f

(* Of the images that stay after an eviction one is oldest; all that are   *)
(* older have gone, so the rest is within the limit.                       *)
LEMMA EvictedAreEnough ==
    ASSUME NEW s, Well(s), LiveIn(s) \ Evicted(s) # {}
    PROVE  s.used - Sum(s, Evicted(s)) <= StorageLimit
<1> DEFINE kept == LiveIn(s) \ Evicted(s)
           T == {s.images[i].atime : i \in kept}
<1>0. s \in StoreType /\ LiveIn(s) \subseteq Internal /\ \A i \in Internal : s.images[i].atime \in Nat
  BY WellParts, StoreParts DEF Image
<1>1. T \subseteq Nat /\ T # {}
  BY <1>0
<1>2. PICK n \in T : \A m \in T : n <= m
  BY <1>1, LeastNatural
<1>3. PICK i \in kept : s.images[i].atime = n
  BY <1>2
<1> DEFINE older == {j \in LiveIn(s) : s.images[j].atime < s.images[i].atime}
<1>4. older \subseteq Evicted(s)
  <2> SUFFICES ASSUME NEW j \in older, j \notin Evicted(s)
               PROVE  FALSE
    OBVIOUS
  <2>1. j \in kept /\ s.images[j].atime \in T /\ j \in Internal /\ i \in Internal
    BY <1>0
  <2>2. n <= s.images[j].atime /\ s.images[j].atime < n
    BY <2>1, <1>2, <1>3
  <2> QED BY <2>2, <2>1, <1>0, <1>3
<1>5. ~(s.used - SumUsed(s, older) > StorageLimit)
  BY <1>3 DEF Evicted
<1>6. older \in SUBSET LiveIn(s) /\ Evicted(s) \in SUBSET LiveIn(s) /\ i \in LiveIn(s)
  BY <1>3 DEF Evicted
<1> HIDE DEF older, kept, T
<1>7. SumUsed(s, older) = Sum(s, older)
  BY <1>0, <1>6, StoreParts, SumUsedIsSum
<1>8. Sum(s, older) <= Sum(s, Evicted(s))
  <2>1. IsFiniteSet(Evicted(s)) /\ Weights(UsedOf(s), Evicted(s))
    BY <1>0, <1>6, StoreParts, ImagesAreFew, UsedAreWeights
  <2> QED BY <1>4, <2>1, AmountGrows DEF Sum
<1>9. Sum(s, older) \in Nat /\ Sum(s, Evicted(s)) \in Nat /\ s.used \in Nat /\ StorageLimit \in Nat
  BY <1>0, <1>6, PartIsCounted, StoreParts, ImageStoreAssumption
<1> QED BY <1>5, <1>7, <1>8, <1>9

(* The images of t are the ones s has but for D.                           *)
LEMMA AfterEvictionWell ==
    ASSUME NEW s, Well(s)
    PROVE  /\ Well(AfterEviction(s))
           /\ LiveIn(AfterEviction(s)) = LiveIn(s) \ Evicted(s)
           /\ AfterEviction(s).used <= StorageLimit
           /\ LiveIn(AfterEviction(s)) # {} => AfterEviction(s).used = s.used - Sum(s, Evicted(s))
           /\ AfterEviction(s).images = [i \in Internal |-> IF i \in Evicted(s) THEN NoImage
                                            ELSE NewestFirst(s).images[i]]
<1> DEFINE n == NewestFirst(s)
           t == Without(n, Evicted(s))
<1>0. StorageLimit \in Nat
  BY ImageStoreAssumption
<1>1. Evicted(s) \in SUBSET LiveIn(s)
  BY DEF Evicted
<1>2. Well(n) /\ LiveIn(n) = LiveIn(s) /\ n.used = s.used
  BY NewestFirstWell
<1>3. Sum(n, Evicted(s)) = Sum(s, Evicted(s))
  <2>1. \A i \in Evicted(s) : UsedOf(n)[i] = UsedOf(s)[i]
    <3> SUFFICES ASSUME NEW i \in Evicted(s)
                 PROVE  UsedOf(n)[i] = UsedOf(s)[i]
      OBVIOUS
    <3>1. i \in Internal /\ s.images[i] \in Image
      BY <1>1, WellParts, StoreParts
    <3>2. n.images[i] = [s.images[i] EXCEPT !.at = -s.images[i].atime]
      BY <3>1, NewestFirstWell
    <3> HIDE DEF n
    <3>3. n.images[i].used = s.images[i].used
      BY <3>1, <3>2 DEF Image
    <3> QED BY <3>1, <3>3 DEF UsedOf
  <2> QED BY <2>1, AmountAgrees DEF Sum
<1> HIDE DEF n
<1>4. /\ Well(t) /\ LiveIn(t) = LiveIn(s) \ Evicted(s)
      /\ t.images = [i \in Internal |-> IF i \in Evicted(s) THEN NoImage ELSE n.images[i]]
      /\ t.used = s.used - Sum(s, Evicted(s))
  BY <1>1, <1>2, <1>3, WithoutWell
<1>5. AfterEviction(s) = IF LiveIn(t) = {} THEN [t EXCEPT !.used = 0] ELSE t
  BY DEF AfterEviction, n
<1> DEFINE a == AfterEviction(s)
<1> HIDE DEF t, a
<1>6. CASE LiveIn(t) # {}
  <2>1. a = t
    BY <1>5, <1>6 DEF a
  <2>2. t.used <= StorageLimit
    BY <1>4, <1>6, EvictedAreEnough
  <2> QED BY <2>1, <2>2, <1>4 DEF a, n
<1>7. CASE LiveIn(t) = {}
  <2>1. a = [t EXCEPT !.used = 0]
    BY <1>5, <1>7 DEF a
  <2>2. a \in StoreType /\ a.images = t.images /\ a.cache = t.cache /\ a.used = 0
    BY <2>1, <1>4, WellParts DEF StoreType
  <2>3. LiveIn(a) = LiveIn(t)
    BY <2>2 DEF LiveIn
  <2>4. IdsWell(a) /\ CacheWell(a) /\ \A i \in Internal : ImageWell(a.images[i])
    <3>1. IdsWell(t) /\ CacheWell(t) /\ \A i \in Internal : ImageWell(t.images[i])
      BY <1>4, WellParts
    <3>2. IdsWell(a) /\ \A i \in Internal : ImageWell(a.images[i])
      BY <3>1, <2>2, <2>3 DEF IdsWell
    <3>3. CacheWell(a)
      BY <3>1, <2>2, <2>3 DEF CacheWell
    <3> QED BY <3>2, <3>3
  <2>5. Sum(a, LiveIn(a)) = 0
    BY <2>3, <1>7, AmountOfNone DEF Sum
  <2>6. Well(a) /\ a.used <= StorageLimit
    BY <1>0, <2>2, <2>4, <2>5 DEF Well
  <2>7. LiveIn(a) = {} /\ LiveIn(a) = LiveIn(s) \ Evicted(s)
    BY <1>4, <1>7, <2>3
  <2> QED BY <1>4, <2>2, <2>6, <2>7 DEF a, n
<1> QED BY <1>6, <1>7

LEMMA WithinQuotaWell ==
    ASSUME NEW s, Well(s), NEW added
    PROVE  /\ Well(WithinQuota(s, added))
           /\ LiveIn(WithinQuota(s, added)) \subseteq LiveIn(s)
           /\ WithinQuota(s, added).used <= StorageLimit
<1> DEFINE D == Unplaced(s) \ {added}
           t == Without(s, D)
<1>1. D \in SUBSET LiveIn(s)
  BY DEF Unplaced
<1>2. Well(t) /\ LiveIn(t) \subseteq LiveIn(s)
  <2> HIDE DEF D
  <2>1. Well(t) /\ LiveIn(t) = LiveIn(s) \ D
    BY <1>1, WithoutWell
  <2> QED BY <2>1
<1>3. s.used \in Nat /\ t.used \in Nat /\ StorageLimit \in Nat
  BY <1>2, WellParts, StoreParts, ImageStoreAssumption
<1>4. WithinQuota(s, added) = IF s.used <= StorageLimit THEN s
                              ELSE IF t.used < StorageLimit THEN t ELSE AfterEviction(t)
  BY DEF WithinQuota
<1> HIDE DEF t
<1>5. /\ Well(AfterEviction(t)) /\ AfterEviction(t).used <= StorageLimit
      /\ LiveIn(AfterEviction(t)) \subseteq LiveIn(s)
  BY <1>2, AfterEvictionWell
<1> QED BY <1>2, <1>3, <1>4, <1>5
-----------------------------------------------------------------------------
(* Transmitting.                                                           *)
LEMMA SetImageUpdates ==
    ASSUME NEW s \in StoreType, NEW i \in Internal, NEW im
    PROVE  SetImage(s, i, im) = [s EXCEPT !.images = [s.images EXCEPT ![i] = im]]
  BY DEF SetImage, StoreType

LEMMA SetImageIs ==
    ASSUME NEW s \in StoreType, NEW i \in Internal, NEW im \in Image
    PROVE  /\ SetImage(s, i, im) \in StoreType
           /\ SetImage(s, i, im).images = [s.images EXCEPT ![i] = im]
           /\ \A j \in Internal \ {i} : SetImage(s, i, im).images[j] = s.images[j]
           /\ SetImage(s, i, im).cache = s.cache
           /\ SetImage(s, i, im).used = s.used
<1>1. SetImage(s, i, im) = [s EXCEPT !.images = [s.images EXCEPT ![i] = im]]
  BY SetImageUpdates
<1>2. [s.images EXCEPT ![i] = im] \in [Internal -> Image]
  BY StoreParts
<1> QED BY <1>1, <1>2, StoreParts DEF StoreType

LEMMA SetImageThere ==
    ASSUME NEW s \in StoreType, NEW i \in Internal, NEW im \in Image
    PROVE  SetImage(s, i, im).images[i] = im
<1>1. SetImage(s, i, im) = [s EXCEPT !.images = [s.images EXCEPT ![i] = im]]
  BY SetImageUpdates
<1> QED BY <1>1, StoreParts DEF StoreType

LEMMA OneRetouched ==
    ASSUME NEW s, Well(s), NEW i \in Internal, NEW im \in Image, ImageWell(im),
           im.atime > 0 <=> s.images[i].atime > 0, im.id = s.images[i].id,
           im.root = s.images[i].root, im.extra = s.images[i].extra,
           im.used <= s.images[i].used
    PROVE  /\ Well(SetImage(s, i, im)) /\ LiveIn(SetImage(s, i, im)) = LiveIn(s)
           /\ SetImage(s, i, im).used = s.used
<1> DEFINE f == [s.images EXCEPT ![i] = im]
<1>1. s \in StoreType /\ s.images \in [Internal -> Image]
  BY WellParts, StoreParts
<1>2. SetImage(s, i, im) = [s EXCEPT !.images = f]
  BY <1>1, SetImageUpdates
<1>3. Retouched(s, f)
  <2>1. f \in [Internal -> Image]
    BY <1>1
  <2>2. ASSUME NEW j \in Internal
        PROVE  /\ ImageWell(f[j])
               /\ f[j].atime > 0 <=> s.images[j].atime > 0
               /\ f[j].id = s.images[j].id
               /\ f[j].root = s.images[j].root /\ f[j].extra = s.images[j].extra
               /\ f[j].used <= s.images[j].used
    <3>1. CASE j = i
      BY <1>1, <3>1
    <3>2. CASE j # i
      <4>1. f[j] = s.images[j] /\ s.images[j] \in Image /\ ImageWell(s.images[j])
        BY <1>1, <3>2, WellParts
      <4> QED BY <4>1 DEF Image
    <3> QED BY <3>1, <3>2
  <2> QED BY <2>1, <2>2 DEF Retouched
<1> HIDE DEF f
<1> QED BY <1>2, <1>3, RetouchedWell

LEMMA RestartedWell ==
    ASSUME NEW s, Well(s), NEW i \in LiveIn(s), clock \in Nat, CanTouch
    PROVE  /\ Well(SetImage(s, i, Restarted(s.images[i])))
           /\ LiveIn(SetImage(s, i, Restarted(s.images[i]))) = LiveIn(s)
           /\ SetImage(s, i, Restarted(s.images[i])).images[i] = Restarted(s.images[i])
           /\ Restarted(s.images[i]).last = s.images[i].last
           /\ Restarted(s.images[i]) \in Image /\ Restarted(s.images[i]).atime = clock + 1
<1> DEFINE im == s.images[i]
           g == Restarted(im)
<1>1. i \in Internal /\ s \in StoreType /\ im \in Image /\ ImageWell(im) /\ im.atime > 0
  BY WellParts, StoreParts DEF LiveIn
<1>2. clock + 1 \in 0..MaxTouched /\ clock + 1 > 0 /\ MaxTouched \in Nat
  BY ImageStoreAssumption DEF CanTouch
<1> HIDE DEF im
<1>3. g \in Image
  BY <1>1, <1>2 DEF Restarted, Image
<1>4. /\ g.atime = clock + 1 /\ g.id = im.id /\ g.root = im.root /\ g.extra = im.extra
      /\ g.last = im.last /\ g.used = 0 /\ g.refs = {} /\ ~g.loaded
  BY <1>1 DEF Restarted, Image
<1>5. im.used \in Nat
  BY <1>1 DEF Image
<1> HIDE DEF g
<1>6. ImageWell(g)
  BY <1>1, <1>2, <1>4 DEF ImageWell
<1>7. Well(SetImage(s, i, g)) /\ LiveIn(SetImage(s, i, g)) = LiveIn(s)
  BY <1>1, <1>2, <1>3, <1>4, <1>5, <1>6, OneRetouched DEF im
<1>8. SetImage(s, i, g).images[i] = g
  BY <1>1, <1>3, SetImageThere
<1> QED BY <1>3, <1>4, <1>7, <1>8 DEF g, im

LEMMA PutOnWell ==
    ASSUME NEW s, Well(s), NEW i \in Internal, s.images[i].loaded,
           NEW p \in PlacementIds \cup {0}, clock \in Nat, CanTouch
    PROVE  /\ Well(PutOn(s, i, p)) /\ LiveIn(PutOn(s, i, p)) = LiveIn(s)
           /\ PutOn(s, i, p).used = s.used
<1> DEFINE im == s.images[i]
           q == IF im.id = 0 THEN 0 ELSE p
           g == [im EXCEPT !.atime = clock + 1, !.refs = im.refs \cup {q}]
<1>1. s \in StoreType /\ im \in Image /\ ImageWell(im) /\ im.loaded
  BY WellParts, StoreParts
<1>2. clock + 1 \in 0..MaxTouched /\ clock + 1 > 0 /\ MaxTouched \in Nat
  BY ImageStoreAssumption DEF CanTouch
<1>3. PutOn(s, i, p) = SetImage(s, i, g)
  BY DEF PutOn
<1>4. q \in PlacementIds \cup {0}
  OBVIOUS
<1> HIDE DEF im, q
<1>5. g \in Image
  BY <1>1, <1>2, <1>4 DEF Image
<1>6. /\ g.atime = clock + 1 /\ g.id = im.id /\ g.root = im.root /\ g.extra = im.extra
      /\ g.last = im.last /\ g.used = im.used /\ g.loaded = im.loaded
  BY <1>1 DEF Image
<1>7. im.used \in Nat /\ im.atime \in Nat
  BY <1>1 DEF Image
<1> HIDE DEF g
<1>8. ImageWell(g)
  BY <1>1, <1>2, <1>6 DEF ImageWell
<1>9. im.atime > 0
  BY <1>1, <1>7 DEF ImageWell
<1> QED BY <1>1, <1>2, <1>3, <1>5, <1>6, <1>7, <1>8, <1>9, OneRetouched DEF im

(* A change of one image and of its entries in the cache.                  *)
OneChanges(s, t, i, im) ==
    /\ t \in StoreType /\ IsFiniteSet(t.cache)
    /\ t.images = [s.images EXCEPT ![i] = im]
    /\ im \in Image /\ ImageWell(im) /\ im.atime > 0
    /\ \/ i \in LiveIn(s) /\ im.id = s.images[i].id
       \/ im.id # 0 => Named(s, im.id) = {}
    /\ \A e \in s.cache \cup t.cache : e.image # i => (e \in s.cache <=> e \in t.cache)
    /\ \A e \in t.cache : e.image = i => e.frame \in Frames(im)
    /\ \A f \in Frames(im) : \E e \in t.cache : e.image = i /\ e.frame = f
    /\ \A d, e \in t.cache : d.image = i /\ e.image = i /\ d.frame = e.frame => d = e
    /\ \/ t.used = s.used + im.used
       \/ i \in LiveIn(s) /\ im.used = s.images[i].used /\ t.used = s.used

LEMMA OneChangesWell ==
    ASSUME NEW s, Well(s), NEW i \in Internal, NEW im, NEW t, OneChanges(s, t, i, im)
    PROVE  Well(t) /\ LiveIn(t) = LiveIn(s) \cup {i}
<1>0. s \in StoreType /\ s.images \in [Internal -> Image] /\ LiveIn(s) \subseteq Internal
  BY WellParts, StoreParts
<1>1. t \in StoreType /\ t.images[i] = im /\ \A j \in Internal \ {i} : t.images[j] = s.images[j]
  BY <1>0 DEF OneChanges
<1>2. im \in Image /\ ImageWell(im) /\ im.atime > 0
  BY DEF OneChanges
<1>3. LiveIn(t) = LiveIn(s) \cup {i}
  BY <1>0, <1>1, <1>2 DEF LiveIn
<1>4. \A j \in Internal : ImageWell(t.images[j])
  BY <1>1, <1>2, WellParts
<1>5. IdsWell(t)
  <2> SUFFICES ASSUME NEW j \in LiveIn(t), NEW k \in LiveIn(t), t.images[j].id # 0,
                      t.images[j].id = t.images[k].id
               PROVE  j = k
    BY DEF IdsWell
  <2>1. ASSUME NEW l \in LiveIn(s) \ {i}, im.id # 0, im.id = s.images[l].id
        PROVE  FALSE
    <3>1. CASE i \in LiveIn(s) /\ im.id = s.images[i].id
      BY <2>1, <3>1, WellParts DEF IdsWell
    <3>2. CASE im.id # 0 => Named(s, im.id) = {}
      <4>1. l \in Named(s, im.id)
        BY <2>1 DEF Named
      <4> QED BY <2>1, <3>2, <4>1
    <3> QED BY <3>1, <3>2 DEF OneChanges
  <2>2. CASE j = i \/ k = i
    <3> SUFFICES ASSUME j # k
                 PROVE  FALSE
      OBVIOUS
    <3>1. PICK l \in LiveIn(s) \ {i} : t.images[l].id = im.id /\ l \in Internal
      BY <1>0, <1>1, <1>3, <2>2
    <3>2. im.id # 0
      BY <1>1, <2>2
    <3> QED BY <1>1, <2>1, <3>1, <3>2
  <2>3. CASE j # i /\ k # i
    <3>1. j \in LiveIn(s) /\ k \in LiveIn(s) /\ t.images[j] = s.images[j] /\ t.images[k] = s.images[k]
      BY <1>0, <1>1, <1>3, <2>3
    <3> QED BY <3>1, WellParts DEF IdsWell
  <2> QED BY <2>2, <2>3
<1>6. CacheWell(t)
  <2>0. CacheWell(s)
    BY WellParts
  <2>1. ASSUME NEW e \in t.cache
        PROVE  e.image \in LiveIn(t) /\ e.frame \in Frames(t.images[e.image])
    <3>1. CASE e.image = i
      BY <1>1, <1>3, <3>1 DEF OneChanges
    <3>2. CASE e.image # i
      <4>1. e \in s.cache
        BY <3>2 DEF OneChanges
      <4>2. e.image \in LiveIn(s) /\ e.frame \in Frames(s.images[e.image])
        BY <2>0, <4>1 DEF CacheWell
      <4> QED BY <1>0, <1>1, <1>3, <3>2, <4>2
    <3> QED BY <3>1, <3>2
  <2>2. ASSUME NEW j \in LiveIn(t), NEW f \in Frames(t.images[j])
        PROVE  \E e \in t.cache : e.image = j /\ e.frame = f
    <3>1. CASE j = i
      BY <1>1, <3>1 DEF OneChanges
    <3>2. CASE j # i
      <4>1. j \in LiveIn(s) /\ f \in Frames(s.images[j])
        BY <1>0, <1>1, <1>3, <3>2
      <4>2. PICK e \in s.cache : e.image = j /\ e.frame = f
        BY <2>0, <4>1 DEF CacheWell
      <4>3. e \in t.cache
        BY <3>2, <4>2 DEF OneChanges
      <4> QED BY <4>2, <4>3
    <3> QED BY <3>1, <3>2
  <2>3. ASSUME NEW d \in t.cache, NEW e \in t.cache, d.image = e.image, d.frame = e.frame
        PROVE  d = e
    <3>1. CASE d.image = i
      BY <2>3, <3>1 DEF OneChanges
    <3>2. CASE d.image # i
      <4>1. d \in s.cache /\ e \in s.cache
        BY <2>3, <3>2 DEF OneChanges
      <4> QED BY <2>0, <2>3, <4>1 DEF CacheWell
    <3> QED BY <3>1, <3>2
  <2>4. IsFiniteSet(t.cache)
    BY DEF OneChanges
  <2> QED BY <2>1, <2>2, <2>3, <2>4 DEF CacheWell
<1>7. Sum(t, LiveIn(t)) <= t.used
  <2> DEFINE rest == LiveIn(s) \ {i}
             r == Sum(s, rest)
  <2>1. LiveIn(t) \ {i} = rest /\ i \in LiveIn(t) /\ LiveIn(t) \in SUBSET Internal
    BY <1>0, <1>3
  <2>2. Sum(t, rest) = r
    <3>1. \A k \in rest : UsedOf(t)[k] = UsedOf(s)[k]
      BY <1>0, <1>1 DEF UsedOf
    <3> QED BY <3>1, AmountAgrees DEF Sum
  <2>3. Sum(t, LiveIn(t)) = im.used + r
    <3>1. IsFiniteSet(LiveIn(t)) /\ Weights(UsedOf(t), LiveIn(t))
      BY <1>1, <2>1, StoreParts, ImagesAreFew, UsedAreWeights
    <3>2. Sum(t, LiveIn(t)) = UsedOf(t)[i] + Sum(t, LiveIn(t) \ {i})
      BY <2>1, <3>1, AmountSplit DEF Sum
    <3>3. UsedOf(t)[i] = im.used
      BY <1>1 DEF UsedOf
    <3> QED BY <2>1, <2>2, <3>2, <3>3
  <2>4. r \in Nat /\ im.used \in Nat /\ s.used \in Nat /\ Sum(s, LiveIn(s)) \in Nat
        /\ Sum(s, LiveIn(s)) <= s.used
    BY <1>0, <1>2, PartIsCounted, WellParts, StoreParts DEF Image
  <2>5. r <= Sum(s, LiveIn(s))
    BY PartIsCounted
  <2>6. ASSUME i \in LiveIn(s), im.used = s.images[i].used
        PROVE  Sum(s, LiveIn(s)) = im.used + r
    <3>1. Sum(s, LiveIn(s)) = UsedOf(s)[i] + Sum(s, rest)
      BY <2>6, WellParts, AmountSplit DEF Sum
    <3> QED BY <2>6, <3>1 DEF UsedOf
  <2> HIDE DEF r, rest
  <2>7. CASE t.used = s.used + im.used
    BY <2>3, <2>4, <2>5, <2>7
  <2>8. CASE i \in LiveIn(s) /\ im.used = s.images[i].used /\ t.used = s.used
    BY <2>3, <2>4, <2>6, <2>8
  <2> QED BY <2>7, <2>8 DEF OneChanges
<1> QED BY <1>1, <1>3, <1>4, <1>5, <1>6, <1>7 DEF Well

LEMMA OneUntouched ==
    ASSUME NEW s, Well(s), NEW i \in Internal, NEW im, im.atime = s.images[i].atime,
           NEW t, t.images = [s.images EXCEPT ![i] = im]
    PROVE  Untouched(s, t)
<1>1. s.images \in [Internal -> Image] /\ \A j \in Internal : s.images[j].atime \in Nat
  BY WellParts, StoreParts DEF Image
<1>2. \A j \in Internal : t.images[j].atime = s.images[j].atime
  BY <1>1
<1> QED BY <1>1, <1>2 DEF Untouched

(* get_free_client_id(): there are fewer images than ids.                  *)
LEMMA FreeIdIsFree ==
    ASSUME NEW s
    PROVE  FreeId(s) \in Nat \ {0} /\ Named(s, FreeId(s)) = {}
<1> DEFINE N == 1..(MaxImages + 1)
           T == {n \in N : Named(s, n) = {}}
<1>0. MaxImages \in Nat
  BY ImageStoreAssumption
<1>1. T # {}
  <2> SUFFICES ASSUME T = {}
               PROVE  FALSE
    OBVIOUS
  <2> DEFINE f == [n \in N |-> CHOOSE i \in Named(s, n) : TRUE]
  <2>1. \A n \in N : f[n] \in Named(s, n)
    <3> SUFFICES ASSUME NEW n \in N
                 PROVE  f[n] \in Named(s, n)
      OBVIOUS
    <3>1. Named(s, n) # {}
      OBVIOUS
    <3> QED BY <3>1
  <2>2. f \in [N -> Internal]
    BY <2>1 DEF Named, LiveIn
  <2>3. IsFiniteSet(N) /\ IsFiniteSet(Internal) /\ Cardinality(Internal) < Cardinality(N)
    <3>1. Cardinality(Internal) = MaxImages /\ IsFiniteSet(Internal)
      BY <1>0, FS_Interval DEF Internal
    <3>2. Cardinality(N) = MaxImages + 1 /\ IsFiniteSet(N)
      BY <1>0, FS_Interval
    <3> QED BY <1>0, <3>1, <3>2
  <2>4. PICK x, y \in N : x # y /\ f[x] = f[y]
    <3> HIDE DEF f, N
    <3> QED BY <2>2, <2>3, FS_PigeonHole
  <2>5. s.images[f[x]].id = x /\ s.images[f[y]].id = y
    BY <2>1 DEF Named
  <2> QED BY <2>4, <2>5
<1>2. T \subseteq Nat
  BY <1>0
<1>3. PICK n \in T : \A m \in T : n <= m
  BY <1>1, <1>2, LeastNatural
<1>4. \A m \in 1..(n - 1) : Named(s, m) # {}
  BY <1>0, <1>3
<1>5. \E k \in 1..(MaxImages + 1) : Named(s, k) = {} /\ \A m \in 1..(k - 1) : Named(s, m) # {}
  BY <1>3, <1>4
<1>6. FreeId(s) \in 1..(MaxImages + 1) /\ Named(s, FreeId(s)) = {}
  BY <1>5 DEF FreeId
<1> QED BY <1>0, <1>6

LEMMA NewImageWell ==
    ASSUME NEW s, Well(s), NEW i \in Internal \ LiveIn(s), NEW id \in Nat, NEW num \in Nat,
           id # 0 => Named(s, id) = {}, clock \in Nat, CanTouch
    PROVE  /\ Well(SetImage(s, i, NewImage(id, num)))
           /\ LiveIn(SetImage(s, i, NewImage(id, num))) = LiveIn(s) \cup {i}
           /\ SetImage(s, i, NewImage(id, num)).images[i].last = 0
           /\ NewImage(id, num) \in Image /\ NewImage(id, num).atime = clock + 1
<1> DEFINE g == NewImage(id, num)
           t == SetImage(s, i, g)
<1>1. s \in StoreType /\ s.used \in Nat
  BY WellParts, StoreParts
<1>2. clock + 1 \in 0..MaxTouched /\ clock + 1 > 0 /\ MaxTouched \in Nat /\ MaxFrameIds \in Nat
  BY ImageStoreAssumption DEF CanTouch
<1>3. /\ g.id = id /\ g.atime = clock + 1 /\ ~g.loaded /\ g.root = 0 /\ g.extra = {}
      /\ g.last = 0 /\ g.used = 0 /\ g.refs = {}
  BY DEF NewImage, NoImage
<1>4. g \in Image
  <2>1. NoImage \in Image
    BY <1>2 DEF NoImage, Image
  <2> DEFINE c == clock + 1
  <2>2. g = [NoImage EXCEPT !.id = id, !.num = num, !.atime = c, !.at = c]
    BY DEF NewImage
  <2>3. c \in 0..MaxTouched /\ c \in Int
    BY <1>2
  <2> HIDE DEF c, g
  <2> QED BY <2>1, <2>2, <2>3 DEF Image
<1>5. ImageWell(g) /\ g.atime > 0 /\ g.id = id /\ Frames(g) = {} /\ g.used = 0 /\ g.last = 0
      /\ g.atime = clock + 1
  BY <1>2, <1>3 DEF ImageWell, Frames
<1> HIDE DEF g
<1>6. t \in StoreType /\ t.images = [s.images EXCEPT ![i] = g] /\ t.cache = s.cache /\ t.used = s.used
  BY <1>1, <1>4, SetImageIs
<1>7. t.images[i] = g
  BY <1>1, <1>4, SetImageThere
<1> HIDE DEF t
<1>8. \A e \in s.cache : e.image # i
  BY WellParts DEF CacheWell
<1>9. OneChanges(s, t, i, g)
  BY <1>1, <1>4, <1>5, <1>6, <1>8, WellParts DEF OneChanges
<1> QED BY <1>4, <1>5, <1>7, <1>9, OneChangesWell DEF t, g

(* An entry of the cache that is written.                                  *)
EntryOf(i, f, n) == [image |-> i, frame |-> f, size |-> n]

EntryPut(s, i, f, n) == (s.cache \ EntriesOf(s, i, {f})) \cup {EntryOf(i, f, n)}

LEMMA WithEntryIs ==
    ASSUME NEW s \in StoreType, IsFiniteSet(s.cache), NEW i \in Internal, NEW f \in Nat, NEW n \in Nat
    PROVE  /\ WithEntry(s, i, f, n) \in StoreType
           /\ IsFiniteSet(WithEntry(s, i, f, n).cache)
           /\ WithEntry(s, i, f, n).images = s.images
           /\ WithEntry(s, i, f, n).cache = EntryPut(s, i, f, n)
           /\ WithEntry(s, i, f, n).used = s.used
<1> DEFINE c == EntryPut(s, i, f, n)
           m == IF EntriesOf(s, i, {f}) = {} THEN s.total + n ELSE Max({s.total, n})
<1>1. m \in Nat
  BY StoreParts, MaxIsNat
<1>2. c \in SUBSET FrameEntry
  BY StoreParts DEF FrameEntry, EntryOf, EntryPut
<1>3. IsFiniteSet(c)
  <2>1. IsFiniteSet(s.cache \ EntriesOf(s, i, {f}))
    BY FS_Subset
  <2> QED BY <2>1, FS_AddElement DEF EntryPut
<1>4. WithEntry(s, i, f, n) = [s EXCEPT !.cache = c, !.total = m]
  BY DEF WithEntry, EntryOf, EntryPut
<1> DEFINE w == WithEntry(s, i, f, n)
<1> HIDE DEF c, m, w
<1>5. w = [s EXCEPT !.cache = c, !.total = m]
  BY <1>4 DEF w
<1>6. w \in StoreType /\ w.images = s.images /\ w.cache = c /\ w.used = s.used
  BY <1>1, <1>2, <1>5 DEF StoreType
<1> QED BY <1>3, <1>6 DEF w, c

LEMMA RewrittenWell ==
    ASSUME NEW s, Well(s), NEW i \in LiveIn(s), NEW f \in Frames(s.images[i])
    PROVE  /\ Well(Rewritten(s, i, f)) /\ LiveIn(Rewritten(s, i, f)) = LiveIn(s)
           /\ Rewritten(s, i, f).used = s.used
           /\ Untouched(s, Rewritten(s, i, f))
<1> DEFINE im == s.images[i]
           t == Rewritten(s, i, f)
           x == EntryOf(i, f, im.area)
<1>1. s \in StoreType /\ i \in Internal /\ im \in Image /\ ImageWell(im) /\ IsFiniteSet(s.cache)
  BY WellParts, StoreParts
<1>2. f \in Nat /\ im.area \in Nat
  BY <1>1 DEF Frames, Image
<1>3. /\ t \in StoreType /\ IsFiniteSet(t.cache) /\ t.images = s.images /\ t.used = s.used
      /\ t.cache = (s.cache \ EntriesOf(s, i, {f})) \cup {x}
  <2> DEFINE n == im.area
  <2>1. t = WithEntry(s, i, f, n)
    BY DEF Rewritten
  <2>2. n \in Nat
    BY <1>2
  <2> HIDE DEF t, n
  <2>3. /\ t \in StoreType /\ IsFiniteSet(t.cache) /\ t.images = s.images /\ t.used = s.used
        /\ t.cache = EntryPut(s, i, f, n)
    BY <1>1, <1>2, <2>1, <2>2, WithEntryIs
  <2> QED BY <2>3 DEF n, EntryPut
<1> HIDE DEF t
<1>4. \A e \in s.cache : e \in EntriesOf(s, i, {f}) <=> e.image = i /\ e.frame = f
  BY DEF EntriesOf
<1>5. x.image = i /\ x.frame = f
  BY DEF EntryOf
<1> HIDE DEF x
<1>6. t.images = [s.images EXCEPT ![i] = im]
  BY <1>1, <1>3, StoreParts
<1>7. im.atime > 0 /\ im.id = s.images[i].id /\ im.used = s.images[i].used
  BY DEF LiveIn
<1>8. CacheWell(s)
  BY WellParts
<1>9. \A e \in t.cache : e.image = i => e.frame \in Frames(im)
  BY <1>3, <1>4, <1>5, <1>8 DEF CacheWell
<1>10. ASSUME NEW g \in Frames(im)
       PROVE  \E e \in t.cache : e.image = i /\ e.frame = g
  <2>1. CASE g = f
    BY <1>3, <1>5, <2>1
  <2>2. CASE g # f
    <3>1. PICK e \in s.cache : e.image = i /\ e.frame = g
      BY <1>8 DEF CacheWell
    <3> QED BY <1>3, <1>4, <2>2, <3>1
  <2> QED BY <2>1, <2>2
<1>11. \A d, e \in t.cache : d.image = i /\ e.image = i /\ d.frame = e.frame => d = e
  BY <1>3, <1>4, <1>5, <1>8 DEF CacheWell
<1>12. \A e \in s.cache \cup t.cache : e.image # i => (e \in s.cache <=> e \in t.cache)
  BY <1>3, <1>4, <1>5
<1> HIDE DEF im
<1>13. OneChanges(s, t, i, im)
  BY <1>1, <1>3, <1>6, <1>7, <1>9, <1>10, <1>11, <1>12 DEF OneChanges
<1>14. Well(t) /\ LiveIn(t) = LiveIn(s) \cup {i}
  BY <1>1, <1>13, OneChangesWell
<1>15. Untouched(s, t)
  BY <1>1, <1>6, OneUntouched DEF im
<1> QED BY <1>3, <1>14, <1>15 DEF t

NewRoot(im, size, n) ==
    [im EXCEPT !.loaded = TRUE, !.area = size, !.root = n, !.last = n, !.used = size]

LoadedImage(im, size) == NewRoot(im, size, im.last + 1)

WithRoot(w, i, size, n, z) ==
    [w EXCEPT !.images[i].loaded = TRUE, !.images[i].area = size, !.images[i].root = n,
              !.images[i].last = n, !.images[i].used = size, !.used = z]

WithImage(f, i, im) == [f EXCEPT ![i] = im]

LEMMA LoadedFields ==
    ASSUME NEW w \in StoreType, NEW i \in Internal, NEW n, NEW size, NEW z
    PROVE  /\ WithRoot(w, i, size, n, z).images = WithImage(w.images, i, NewRoot(w.images[i], size, n))
           /\ WithRoot(w, i, size, n, z).cache = w.cache /\ WithRoot(w, i, size, n, z).used = z
           /\ WithRoot(w, i, size, n, z).images \in [Internal -> Image] /\ z \in Nat
                => WithRoot(w, i, size, n, z) \in StoreType
<1>0. PICK t : t = [w EXCEPT !.images[i].loaded = TRUE, !.images[i].area = size, !.images[i].root = n,
                             !.images[i].last = n, !.images[i].used = size, !.used = z]
  OBVIOUS
<1>1. w.images \in [Internal -> Image] /\ w.images[i] \in Image
  BY StoreParts
<1>2. t.used = z
  BY <1>0 DEF StoreType
<1>3. t.cache = w.cache /\ t.total = w.total
  BY <1>0 DEF StoreType
<1>4. t.images = [w.images EXCEPT ![i] =
                [w.images[i] EXCEPT !.loaded = TRUE, !.area = size, !.root = n, !.last = n, !.used = size]]
  BY <1>0, <1>1 DEF StoreType
<1>5. t = [images |-> t.images, cache |-> t.cache, total |-> t.total, used |-> t.used]
  BY <1>0 DEF StoreType
<1>6. t.images \in [Internal -> Image] /\ z \in Nat => t \in StoreType
  BY <1>2, <1>3, <1>5 DEF StoreType
<1>7. WithRoot(w, i, size, n, z) = t
  BY <1>0 DEF WithRoot
<1>8. t.images = WithImage(w.images, i, NewRoot(w.images[i], size, n))
  BY <1>4 DEF WithImage, NewRoot
<1> QED BY <1>2, <1>3, <1>6, <1>7, <1>8

(* The image gets a new root frame; the entry of the old one goes.         *)
LEMMA LoadedIs ==
    ASSUME NEW s \in StoreType, IsFiniteSet(s.cache), NEW i \in Internal, NEW size \in Nat,
           s.images[i].last < MaxFrameIds
    PROVE  /\ Loaded(s, i, size) \in StoreType
           /\ IsFiniteSet(Loaded(s, i, size).cache)
           /\ LoadedImage(s.images[i], size) \in Image
           /\ Loaded(s, i, size).images = WithImage(s.images, i, LoadedImage(s.images[i], size))
           /\ Loaded(s, i, size).cache =
                EntryPut(Uncached(s, EntriesOf(s, i, {s.images[i].root})), i, s.images[i].last + 1, size)
           /\ Loaded(s, i, size).used = s.used + size
<1> DEFINE E == EntriesOf(s, i, {s.images[i].root})
           u == Uncached(s, E)
           im == s.images[i]
           n == im.last + 1
           w == WithEntry(u, i, n, size)
           z == w.used + size
           t == Loaded(s, i, size)
<1>0. im \in Image /\ s.images \in [Internal -> Image] /\ s.used \in Nat
  BY StoreParts
<1>1. u \in StoreType /\ u.images = s.images /\ IsFiniteSet(u.cache) /\ u.used = s.used
  <2>1. E \in SUBSET s.cache
    BY DEF EntriesOf
  <2> HIDE DEF E
  <2>2. u \in StoreType /\ u.images = s.images /\ u.cache = s.cache \ E /\ u.used = s.used
    BY <2>1, UncachedIs
  <2> QED BY <2>2, FS_Subset
<1>2. n \in Nat /\ n \in 0..MaxFrameIds
  BY <1>0, ImageStoreAssumption DEF Image
<1>3. t = WithRoot(w, i, size, n, z)
  BY DEF Loaded, WithRoot
<1> HIDE DEF u, n, im
<1>4. /\ w \in StoreType /\ IsFiniteSet(w.cache) /\ w.images = u.images /\ w.used = u.used
      /\ w.cache = EntryPut(u, i, n, size)
  BY <1>1, <1>2, WithEntryIs
<1>5. z = s.used + size /\ z \in Nat
  BY <1>0, <1>1, <1>4
<1> HIDE DEF w, z, t
<1> DEFINE g == LoadedImage(im, size)
<1>6. g \in Image
  BY <1>0, <1>2 DEF Image, LoadedImage, NewRoot, n
<1>7. NewRoot(w.images[i], size, n) = g
  BY <1>1, <1>4 DEF LoadedImage, n, im
<1> HIDE DEF g
<1>8. t.images = WithImage(s.images, i, g) /\ t.used = z /\ t.cache = w.cache
  BY <1>1, <1>3, <1>4, <1>7, LoadedFields
<1>9. t.images \in [Internal -> Image]
  BY <1>0, <1>6, <1>8 DEF WithImage
<1>10. t \in StoreType
  BY <1>3, <1>4, <1>5, <1>9, LoadedFields
<1> QED BY <1>4, <1>5, <1>6, <1>8, <1>10 DEF t, u, n, im, g

LEMMA FramesAre ==
    ASSUME NEW im \in Image, ImageWell(im)
    PROVE  /\ \A f \in Frames(im) : f \in 1..im.last
           /\ im.last + 1 \notin Frames(im)
           /\ im.root \notin im.extra /\ im.extra \subseteq 1..im.last /\ im.last \in Nat
<1>1. im.last \in Nat /\ im.root \in Nat /\ im.root <= im.last /\ im.extra \subseteq 1..im.last
  BY ImageStoreAssumption DEF Image, ImageWell
<1>2. \A f \in Frames(im) : f \in 1..im.last
  BY <1>1 DEF Frames
<1>3. im.last + 1 \notin Frames(im)
  BY <1>1, <1>2
<1> QED BY <1>1, <1>2, <1>3 DEF ImageWell

LEMMA LoadedWell ==
    ASSUME NEW s, Well(s), NEW i \in LiveIn(s), NEW size \in Nat, s.images[i].last < MaxFrameIds
    PROVE  /\ Well(Loaded(s, i, size)) /\ LiveIn(Loaded(s, i, size)) = LiveIn(s)
           /\ Loaded(s, i, size).images[i].loaded
<1> DEFINE im == s.images[i]
           n == im.last + 1
           g == LoadedImage(im, size)
           t == Loaded(s, i, size)
           E == EntriesOf(s, i, {im.root})
           u == Uncached(s, E)
           x == EntryOf(i, n, size)
<1>1. /\ s \in StoreType /\ i \in Internal /\ im \in Image /\ ImageWell(im) /\ IsFiniteSet(s.cache)
      /\ CacheWell(s) /\ im.atime > 0 /\ s.images \in [Internal -> Image]
  BY WellParts, StoreParts DEF LiveIn
<1>2. /\ t \in StoreType /\ IsFiniteSet(t.cache) /\ g \in Image
      /\ t.images = WithImage(s.images, i, g)
      /\ t.cache = EntryPut(u, i, n, size)
      /\ t.used = s.used + size
  BY <1>1, LoadedIs
<1>3. u.cache = s.cache \ E
  <2>1. E \in SUBSET s.cache
    BY DEF EntriesOf
  <2> HIDE DEF E
  <2> QED BY <1>1, <2>1, UncachedIs
<1> HIDE DEF t, u
<1>4. \A e \in s.cache : e \in E <=> e.image = i /\ e.frame = im.root
  BY DEF EntriesOf
<1> HIDE DEF im, E
<1>5. \A f \in Frames(im) : f \in 1..im.last /\ f # n
  BY <1>1, FramesAre DEF n
<1>6. \A e \in s.cache : e.image = i => e.frame \in Frames(im)
  BY <1>1 DEF CacheWell, im
<1>7. \A e \in t.cache : e = x \/ e \in u.cache
  BY <1>2 DEF EntryPut, x
<1>8. x \in t.cache /\ \A e \in u.cache : (e.image = i /\ e.frame = n) \/ e \in t.cache
  BY <1>2 DEF EntryPut, EntriesOf, x
<1>9. x.image = i /\ x.frame = n
  BY DEF EntryOf
<1> HIDE DEF x
<1>10. \A e \in u.cache : e \in s.cache /\ ~(e.image = i /\ e.frame = im.root) /\ e \in t.cache
  BY <1>3, <1>4, <1>5, <1>6, <1>8
<1>11. /\ g.atime = im.atime /\ g.loaded /\ g.root = n /\ g.last = n /\ g.used = size
       /\ g.extra = im.extra /\ g.refs = im.refs /\ g.id = im.id
  BY <1>1 DEF LoadedImage, NewRoot, Image
<1>12. im.last \in Nat /\ im.extra \subseteq 1..im.last /\ n \in Nat /\ n > 0
  BY <1>1, FramesAre
<1> HIDE DEF g
<1>13. ImageWell(g)
  <2>1. n \notin im.extra /\ im.extra \subseteq 1..n /\ n <= n /\ n # 0
    BY <1>12
  <2> QED BY <1>1, <1>11, <2>1 DEF ImageWell
<1>14. \A f : f \in Frames(g) <=> f \in im.extra \/ f = n
  BY <1>11, <1>12 DEF Frames
<1>15. \A f : f \in Frames(im) /\ f # im.root <=> f \in im.extra
  BY <1>1, FramesAre DEF Frames
<1> HIDE DEF n
<1>16. \A e \in t.cache : e.image = i => e.frame \in Frames(g)
  BY <1>6, <1>7, <1>9, <1>10, <1>14, <1>15
<1>17. ASSUME NEW f \in Frames(g)
       PROVE  \E e \in t.cache : e.image = i /\ e.frame = f
  <2>1. CASE f = n
    BY <1>8, <1>9, <2>1
  <2>2. CASE f # n
    <3>1. f \in Frames(im) /\ f # im.root
      BY <1>14, <1>15, <2>2
    <3>2. PICK e \in s.cache : e.image = i /\ e.frame = f
      BY <1>1, <3>1 DEF CacheWell, im
    <3>3. e \in u.cache
      BY <1>3, <1>4, <3>1, <3>2
    <3> QED BY <1>10, <3>2, <3>3
  <2> QED BY <2>1, <2>2
<1>18. ASSUME NEW d \in t.cache, NEW e \in t.cache, d.image = i, e.image = i, d.frame = e.frame
       PROVE  d = e
  <2>1. CASE d = x /\ e = x
    BY <2>1
  <2>2. CASE d \in u.cache /\ e \in u.cache
    BY <1>1, <1>10, <1>18, <2>2 DEF CacheWell
  <2>3. \A c \in u.cache : c.image = i => c.frame # n
    BY <1>5, <1>6, <1>10
  <2> QED BY <1>7, <1>9, <1>18, <2>1, <2>2, <2>3
<1>19. \A e \in s.cache \cup t.cache : e.image # i => (e \in s.cache <=> e \in t.cache)
  BY <1>3, <1>4, <1>7, <1>9, <1>10
<1>20. im.id = s.images[i].id /\ t.images = [s.images EXCEPT ![i] = g]
  BY <1>2 DEF im, WithImage
<1>21. OneChanges(s, t, i, g)
  BY <1>1, <1>2, <1>11, <1>13, <1>16, <1>17, <1>18, <1>19, <1>20 DEF OneChanges
<1>22. Well(t) /\ LiveIn(t) = LiveIn(s) \cup {i}
  BY <1>1, <1>21, OneChangesWell
<1>23. t.images[i] = g
  BY <1>1, <1>2 DEF WithImage
<1> QED BY <1>11, <1>22, <1>23 DEF t

LEMMA CompleteWell ==
    ASSUME NEW s, Well(s), NEW i \in LiveIn(s), NEW size \in Nat, s.images[i].last < MaxFrameIds,
           NEW verb, NEW p \in PlacementIds \cup {0}, clock \in Nat, verb = "T" => CanTouch
    PROVE  Well(Complete(s, i, verb, size, p)) /\ LiveIn(Complete(s, i, verb, size, p)) = LiveIn(s)
<1> DEFINE t == Loaded(s, i, size)
<1>1. Well(t) /\ LiveIn(t) = LiveIn(s) /\ t.images[i].loaded /\ i \in Internal
  BY LoadedWell, WellParts
<1>2. Complete(s, i, verb, size, p) = IF verb = "T" THEN PutOn(t, i, p) ELSE t
  BY DEF Complete
<1> HIDE DEF t
<1>3. CASE verb = "T"
  BY <1>1, <1>2, <1>3, PutOnWell
<1>4. CASE verb # "T"
  BY <1>1, <1>2, <1>4
<1> QED BY <1>3, <1>4
-----------------------------------------------------------------------------
(* Frames.                                                                 *)
WithFrame(w, i, n) == [w EXCEPT !.images[i].extra = @ \cup {n}, !.images[i].last = n]

OneMore(im, n) == [im EXCEPT !.extra = @ \cup {n}, !.last = n]

LEMMA WithFrameIs ==
    ASSUME NEW w \in StoreType, NEW i \in Internal, NEW n
    PROVE  /\ WithFrame(w, i, n).images = WithImage(w.images, i, OneMore(w.images[i], n))
           /\ WithFrame(w, i, n).cache = w.cache /\ WithFrame(w, i, n).used = w.used
           /\ OneMore(w.images[i], n) \in Image => WithFrame(w, i, n) \in StoreType
<1>0. PICK t : t = [w EXCEPT !.images[i].extra = @ \cup {n}, !.images[i].last = n]
  OBVIOUS
<1>1. w.images \in [Internal -> Image] /\ w.images[i] \in Image
  BY StoreParts
<1>2. t.used = w.used /\ t.cache = w.cache /\ t.total = w.total
  BY <1>0 DEF StoreType
<1>3. t.images = [w.images EXCEPT ![i] = [w.images[i] EXCEPT !.extra = @ \cup {n}, !.last = n]]
  BY <1>0, <1>1 DEF StoreType
<1>4. t = [images |-> t.images, cache |-> t.cache, total |-> t.total, used |-> t.used]
  BY <1>0 DEF StoreType
<1>5. t.images = WithImage(w.images, i, OneMore(w.images[i], n))
  BY <1>3 DEF WithImage, OneMore
<1>6. OneMore(w.images[i], n) \in Image => t.images \in [Internal -> Image]
  BY <1>1, <1>5 DEF WithImage
<1>7. OneMore(w.images[i], n) \in Image => t \in StoreType
  BY <1>2, <1>4, <1>6, StoreParts DEF StoreType
<1>8. WithFrame(w, i, n) = t
  BY <1>0 DEF WithFrame
<1> QED BY <1>2, <1>5, <1>7, <1>8

LEMMA AppendedWell ==
    ASSUME NEW s, Well(s), NEW i \in LiveIn(s), NEW size \in Nat, s.images[i].last < MaxFrameIds
    PROVE  /\ Well(Appended(s, i, size)) /\ LiveIn(Appended(s, i, size)) = LiveIn(s)
           /\ Appended(s, i, size).used = s.used
           /\ Untouched(s, Appended(s, i, size))
<1> DEFINE im == s.images[i]
           n == im.last + 1
           g == OneMore(im, n)
           w == WithEntry(s, i, n, size)
           t == Appended(s, i, size)
           x == EntryOf(i, n, size)
<1>1. /\ s \in StoreType /\ i \in Internal /\ im \in Image /\ ImageWell(im) /\ IsFiniteSet(s.cache)
      /\ CacheWell(s) /\ im.atime > 0 /\ s.images \in [Internal -> Image]
  BY WellParts, StoreParts DEF LiveIn
<1>2. t = WithFrame(w, i, n)
  BY DEF Appended, WithFrame
<1>20. im.last < MaxFrameIds /\ im.id = s.images[i].id /\ im.used = s.images[i].used
  OBVIOUS
<1> HIDE DEF im
<1>3. im.last \in Nat /\ im.extra \subseteq 1..im.last /\ n \in Nat /\ n > 0 /\ n \notin Frames(im)
      /\ n \notin im.extra
  BY <1>1, FramesAre
<1>4. g \in Image
  <2>1. n \in 0..MaxFrameIds /\ im.extra \cup {n} \subseteq 1..MaxFrameIds
    BY <1>3, <1>20, ImageStoreAssumption
  <2> HIDE DEF n
  <2> QED BY <1>1, <2>1 DEF OneMore, Image
<1>5. /\ g.atime = im.atime /\ g.loaded = im.loaded /\ g.root = im.root /\ g.last = n
      /\ g.used = im.used /\ g.extra = im.extra \cup {n} /\ g.refs = im.refs /\ g.id = im.id
  BY <1>1 DEF OneMore, Image
<1> HIDE DEF n, t
<1>6. /\ w \in StoreType /\ IsFiniteSet(w.cache) /\ w.images = s.images /\ w.used = s.used
      /\ w.cache = EntryPut(s, i, n, size)
  BY <1>1, <1>3, WithEntryIs
<1>7. w.images[i] = im
  BY <1>6 DEF im
<1> HIDE DEF w, g
<1>8. /\ t \in StoreType /\ IsFiniteSet(t.cache) /\ t.images = WithImage(s.images, i, g)
      /\ t.cache = EntryPut(s, i, n, size) /\ t.used = s.used
  BY <1>1, <1>2, <1>4, <1>6, <1>7, WithFrameIs DEF g
<1>9. \A e \in s.cache : e.image = i => e.frame \in Frames(im)
  BY <1>1 DEF CacheWell, im
<1>10. x.image = i /\ x.frame = n
  BY DEF EntryOf
<1>11. x \in t.cache /\ (\A e \in s.cache : e \in t.cache) /\ \A e \in t.cache : e = x \/ e \in s.cache
  <2>1. EntriesOf(s, i, {n}) = {}
    BY <1>3, <1>9 DEF EntriesOf
  <2> QED BY <1>8, <2>1 DEF EntryPut, x
<1> HIDE DEF x
<1>12. ImageWell(g)
  <2>1. im.root # n /\ im.root <= n /\ im.extra \cup {n} \subseteq 1..n
    <3>1. im.root \in Nat /\ im.root <= im.last /\ im.extra \subseteq 1..im.last
      BY <1>1 DEF ImageWell, Image
    <3> QED BY <1>3, <3>1 DEF n
  <2> QED BY <1>1, <1>5, <2>1 DEF ImageWell
<1>13. \A f : f \in Frames(g) <=> f \in Frames(im) \/ f = n
  BY <1>5 DEF Frames
<1>14. \A e \in t.cache : e.image = i => e.frame \in Frames(g)
  BY <1>9, <1>10, <1>11, <1>13
<1>15. ASSUME NEW f \in Frames(g)
       PROVE  \E e \in t.cache : e.image = i /\ e.frame = f
  <2>1. CASE f = n
    BY <1>10, <1>11, <2>1
  <2>2. CASE f # n
    <3>1. PICK e \in s.cache : e.image = i /\ e.frame = f
      BY <1>1, <1>13, <2>2 DEF CacheWell, im
    <3> QED BY <1>11, <3>1
  <2> QED BY <2>1, <2>2
<1>16. ASSUME NEW d \in t.cache, NEW e \in t.cache, d.image = i, e.image = i, d.frame = e.frame
       PROVE  d = e
  <2>1. CASE d \in s.cache /\ e \in s.cache
    BY <1>1, <1>16, <2>1 DEF CacheWell
  <2>2. \A c \in s.cache : c.image = i => c.frame # n
    BY <1>3, <1>9
  <2> QED BY <1>10, <1>11, <1>16, <2>1, <2>2
<1>17. \A e \in s.cache \cup t.cache : e.image # i => (e \in s.cache <=> e \in t.cache)
  BY <1>10, <1>11
<1>18. t.images = [s.images EXCEPT ![i] = g]
  BY <1>8 DEF WithImage
<1>19. OneChanges(s, t, i, g)
  BY <1>1, <1>4, <1>5, <1>8, <1>12, <1>14, <1>15, <1>16, <1>17, <1>18, <1>20 DEF OneChanges
<1>21. Well(t) /\ LiveIn(t) = LiveIn(s) \cup {i}
  BY <1>1, <1>19, OneChangesWell
<1>22. Untouched(s, t)
  BY <1>1, <1>5, <1>18, OneUntouched DEF im
<1> QED BY <1>8, <1>21, <1>22 DEF t

(* A new frame, however much room has to be made for it.                   *)
LEMMA AddedFrameWell ==
    ASSUME NEW s, Well(s), NEW i \in LiveIn(s), NEW size \in Nat, s.images[i].last < MaxFrameIds
    PROVE  /\ Well(AddedFrame(s, i, size)) /\ LiveIn(AddedFrame(s, i, size)) \subseteq LiveIn(s)
           /\ AddedFrame(s, i, size).used <= s.used
           /\ Untouched(s, AddedFrame(s, i, size))
           /\ LiveIn(s) \ LiveIn(AddedFrame(s, i, size)) \subseteq Unplaced(s)
           /\ FitsCache(s, size) => LiveIn(AddedFrame(s, i, size)) = LiveIn(s)
<1> DEFINE D == Unplaced(s) \ {i}
           v == Without(s, D)
           t == IF FitsCache(s, size) THEN s ELSE v
<1>1. D \in SUBSET LiveIn(s) /\ i \notin D /\ i \in Internal /\ s.used \in Nat
  BY WellParts, StoreParts DEF Unplaced
<1>2. AddedFrame(s, i, size) = IF FitsCache(t, size) THEN Appended(t, i, size) ELSE t
  BY DEF AddedFrame
<1>7. D \subseteq Unplaced(s)
  OBVIOUS
<1>8. \A j \in Internal : s.images[j].atime \in Nat
  BY WellParts, StoreParts DEF Image
<1> HIDE DEF D
<1>3. /\ Well(v) /\ LiveIn(v) = LiveIn(s) \ D /\ v.used <= s.used
      /\ v.images = [j \in Internal |-> IF j \in D THEN NoImage ELSE s.images[j]]
  BY <1>1, WithoutWell
<1> HIDE DEF v
<1>4. v.images[i] = s.images[i]
  BY <1>1, <1>3
<1>9. Untouched(s, v) /\ Untouched(s, s)
  <2>1. NoImage.atime = 0
    BY DEF NoImage
  <2> QED BY <1>3, <1>8, <2>1 DEF Untouched
<1>5. /\ Well(t) /\ LiveIn(t) \subseteq LiveIn(s) /\ i \in LiveIn(t) /\ t.images[i] = s.images[i]
      /\ t.used <= s.used
  BY <1>1, <1>3, <1>4
<1>10. /\ LiveIn(s) \ LiveIn(t) \subseteq Unplaced(s) /\ Untouched(s, t)
       /\ FitsCache(s, size) => LiveIn(t) = LiveIn(s)
  BY <1>3, <1>7, <1>9
<1> HIDE DEF t
<1>6. /\ Well(Appended(t, i, size)) /\ LiveIn(Appended(t, i, size)) = LiveIn(t)
      /\ Appended(t, i, size).used = t.used /\ Untouched(t, Appended(t, i, size))
  BY <1>5, AppendedWell
<1>11. Untouched(s, Appended(t, i, size))
  <2> DEFINE a == Appended(t, i, size)
  <2>1. \A j \in Internal : a.images[j].atime \in Nat /\ t.images[j].atime \in Nat
    BY <1>5, <1>6, WellParts, StoreParts DEF Image
  <2>2. Untouched(t, a)
    BY <1>6
  <2> HIDE DEF a
  <2>3. Untouched(s, a)
    BY <1>8, <1>10, <2>1, <2>2 DEF Untouched
  <2> QED BY <2>3 DEF a
<1> QED BY <1>2, <1>5, <1>6, <1>10, <1>11

LEMMA FrameDoneWell ==
    ASSUME NEW s, Well(s), NEW i \in LiveIn(s), NEW edit, NEW size \in Nat,
           edit \notin Frames(s.images[i]) => s.images[i].last < MaxFrameIds
    PROVE  /\ Well(FrameDone(s, i, edit, size)) /\ LiveIn(FrameDone(s, i, edit, size)) \subseteq LiveIn(s)
           /\ FrameDone(s, i, edit, size).used <= s.used
           /\ Untouched(s, FrameDone(s, i, edit, size))
           /\ LiveIn(s) \ LiveIn(FrameDone(s, i, edit, size)) \subseteq Unplaced(s)
           /\ FitsCache(s, size) => LiveIn(FrameDone(s, i, edit, size)) = LiveIn(s)
<1>0. s.used \in Nat /\ Untouched(s, s)
  <2>1. \A j \in Internal : s.images[j].atime \in Nat
    BY WellParts, StoreParts DEF Image
  <2> QED BY <2>1, WellParts, StoreParts DEF Untouched
<1>1. CASE size > s.images[i].area
  BY <1>0, <1>1 DEF FrameDone
<1>2. CASE ~(size > s.images[i].area) /\ edit \in Frames(s.images[i])
  <2>1. FrameDone(s, i, edit, size) = Rewritten(s, i, edit)
    BY <1>2 DEF FrameDone
  <2> QED BY <1>0, <1>2, <2>1, RewrittenWell
<1>3. CASE ~(size > s.images[i].area) /\ edit \notin Frames(s.images[i])
  <2>1. FrameDone(s, i, edit, size) = AddedFrame(s, i, size)
    BY <1>3 DEF FrameDone
  <2> QED BY <1>3, <2>1, AddedFrameWell
<1> QED BY <1>1, <1>2, <1>3

LEMMA MinIsIn ==
    ASSUME NEW S \in SUBSET Nat, S # {}
    PROVE  Min(S) \in S
<1>1. \E x \in S : \A y \in S : x <= y
  BY LeastNatural
<1> QED BY <1>1 DEF Min

(* Deleting a frame that is not the only one.                              *)
FrameLess(im, f) ==
    IF f = im.root THEN [im EXCEPT !.root = Min(im.extra), !.extra = @ \ {Min(im.extra)}]
                   ELSE [im EXCEPT !.extra = @ \ {f}]

LEMMA WithoutFrameWell ==
    ASSUME NEW s, Well(s), NEW i \in LiveIn(s), s.images[i].extra # {},
           NEW f \in Frames(s.images[i])
    PROVE  /\ Well(WithoutFrame(s, i, f)) /\ LiveIn(WithoutFrame(s, i, f)) = LiveIn(s)
           /\ WithoutFrame(s, i, f).used = s.used
           /\ Untouched(s, WithoutFrame(s, i, f))
<1> DEFINE im == s.images[i]
           g == FrameLess(im, f)
           E == EntriesOf(s, i, {f})
           u == Uncached(s, E)
           t == WithoutFrame(s, i, f)
           m == Min(im.extra)
<1>1. /\ s \in StoreType /\ i \in Internal /\ im \in Image /\ ImageWell(im) /\ IsFiniteSet(s.cache)
      /\ CacheWell(s) /\ im.atime > 0 /\ s.images \in [Internal -> Image] /\ s.used \in Nat
  BY WellParts, StoreParts DEF LiveIn
<1>2. /\ u \in StoreType /\ u.images = s.images /\ u.cache = s.cache \ E /\ u.used = s.used
  <2>1. E \in SUBSET s.cache
    BY DEF EntriesOf
  <2> HIDE DEF E
  <2> QED BY <1>1, <2>1, UncachedIs
<1>3. t = SetImage(u, i, g)
  BY DEF WithoutFrame, FrameLess
<1>4. \A e \in s.cache : e \in E <=> e.image = i /\ e.frame = f
  BY DEF EntriesOf
<1> HIDE DEF u, E, t
<1>5. im.extra # {} /\ f \in Frames(im) /\ im.id = s.images[i].id /\ im.used = s.images[i].used
      /\ im.extra \in SUBSET (1..MaxFrameIds)
  BY <1>1 DEF Image
<1> HIDE DEF im
<1>6. m \in im.extra
  <2>1. im.extra \in SUBSET Nat
    BY <1>1, FramesAre
  <2> QED BY <1>5, <2>1, MinIsIn
<1> HIDE DEF m
<1>7. m \in 1..MaxFrameIds /\ m \in 1..im.last /\ m # im.root /\ m \in Nat
      /\ im.root \in Nat /\ im.last \in Nat
  BY <1>1, <1>5, <1>6, FramesAre, ImageStoreAssumption DEF Image
<1>8. /\ g.atime = im.atime /\ g.loaded = im.loaded /\ g.last = im.last /\ g.used = im.used
      /\ g.refs = im.refs /\ g.id = im.id /\ g \in Image
      /\ f = im.root => g.root = m /\ g.extra = im.extra \ {m}
      /\ f # im.root => g.root = im.root /\ g.extra = im.extra \ {f}
  <2>1. CASE f = im.root
    <3>1. g = [im EXCEPT !.root = m, !.extra = im.extra \ {m}]
      BY <2>1 DEF FrameLess, m
    <3>2. im.extra \ {m} \in SUBSET (1..MaxFrameIds) /\ m \in Nat
      BY <1>5, <1>7
    <3> DEFINE r == im.extra \ {m}
    <3> HIDE DEF g, r
    <3>3. g = [im EXCEPT !.root = m, !.extra = r] /\ r \in SUBSET (1..MaxFrameIds)
      BY <3>1, <3>2 DEF r
    <3>4. /\ g.atime = im.atime /\ g.loaded = im.loaded /\ g.last = im.last /\ g.used = im.used
          /\ g.refs = im.refs /\ g.id = im.id /\ g.root = m /\ g.extra = r
      BY <1>1, <3>3 DEF Image
    <3>5. g \in Image
      BY <1>1, <3>2, <3>3 DEF Image
    <3> QED BY <2>1, <3>4, <3>5 DEF r
  <2>2. CASE f # im.root
    <3>1. g = [im EXCEPT !.extra = im.extra \ {f}]
      BY <2>2 DEF FrameLess
    <3> DEFINE r == im.extra \ {f}
    <3>2. r \in SUBSET (1..MaxFrameIds)
      BY <1>5
    <3> HIDE DEF g, r
    <3>3. g = [im EXCEPT !.extra = r]
      BY <3>1 DEF r
    <3>4. /\ g.atime = im.atime /\ g.loaded = im.loaded /\ g.last = im.last /\ g.used = im.used
          /\ g.refs = im.refs /\ g.id = im.id /\ g.root = im.root /\ g.extra = r
      BY <1>1, <3>3 DEF Image
    <3>5. g \in Image
      BY <1>1, <3>2, <3>3 DEF Image
    <3> QED BY <2>2, <3>4, <3>5 DEF r
  <2> QED BY <2>1, <2>2
<1> HIDE DEF g
<1>9. ImageWell(g)
  <2>1. g.root \notin g.extra /\ g.root <= im.last /\ g.extra \subseteq 1..im.last
        /\ (im.root # 0 => g.root # 0)
    BY <1>1, <1>7, <1>8 DEF ImageWell
  <2> QED BY <1>1, <1>8, <2>1 DEF ImageWell
<1>10. \A h : h \in Frames(g) <=> h \in Frames(im) /\ h # f
  <2>1. CASE f = im.root
    BY <1>1, <1>5, <1>6, <1>7, <1>8, <2>1 DEF Frames, ImageWell
  <2>2. CASE f # im.root
    BY <1>1, <1>5, <1>6, <1>7, <1>8, <2>2 DEF Frames, ImageWell
  <2> QED BY <2>1, <2>2
<1>11. /\ t \in StoreType /\ t.images = [s.images EXCEPT ![i] = g] /\ t.cache = u.cache /\ t.used = s.used
  BY <1>1, <1>2, <1>3, <1>8, SetImageIs
<1>12. \A e \in s.cache : e \in t.cache <=> ~(e.image = i /\ e.frame = f)
  BY <1>2, <1>4, <1>11
<1>13. t.cache \subseteq s.cache /\ IsFiniteSet(t.cache)
  <2>1. t.cache \subseteq s.cache
    BY <1>2, <1>11
  <2> QED BY <1>1, <2>1, FS_Subset
<1>14. \A e \in t.cache : e.image = i => e.frame \in Frames(g)
  BY <1>1, <1>10, <1>12, <1>13 DEF CacheWell, im
<1>15. ASSUME NEW h \in Frames(g)
       PROVE  \E e \in t.cache : e.image = i /\ e.frame = h
  <2>1. PICK e \in s.cache : e.image = i /\ e.frame = h
    BY <1>1, <1>10 DEF CacheWell, im
  <2> QED BY <1>10, <1>12, <2>1
<1>16. \A d, e \in t.cache : d.image = i /\ e.image = i /\ d.frame = e.frame => d = e
  BY <1>1, <1>13 DEF CacheWell
<1>17. \A e \in s.cache \cup t.cache : e.image # i => (e \in s.cache <=> e \in t.cache)
  BY <1>12, <1>13
<1>18. OneChanges(s, t, i, g)
  BY <1>1, <1>5, <1>8, <1>9, <1>11, <1>13, <1>14, <1>15, <1>16, <1>17 DEF OneChanges
<1>19. Well(t) /\ LiveIn(t) = LiveIn(s) \cup {i}
  BY <1>1, <1>18, OneChangesWell
<1>20. Untouched(s, t)
  BY <1>1, <1>8, <1>11, OneUntouched DEF im
<1> QED BY <1>11, <1>19, <1>20 DEF t
-----------------------------------------------------------------------------
(* No image was touched after b.                                           *)
Aged(s, b) == \A j \in Internal : s.images[j].atime <= b

LEMMA WithoutAged ==
    ASSUME NEW s, Well(s), NEW D \in SUBSET LiveIn(s), NEW b \in Nat, Aged(s, b)
    PROVE  Aged(Without(s, D), b)
<1> DEFINE t == Without(s, D)
<1>1. t.images = [i \in Internal |-> IF i \in D THEN NoImage ELSE s.images[i]]
  BY WithoutWell
<1> HIDE DEF t
<1>2. NoImage.atime <= b
  BY DEF NoImage
<1>3. Aged(t, b)
  BY <1>1, <1>2 DEF Aged
<1> QED BY <1>3 DEF t

LEMMA UntouchedAged ==
    ASSUME NEW s, Well(s), NEW t, Well(t), Untouched(s, t), NEW b \in Nat, Aged(s, b)
    PROVE  Aged(t, b)
<1>1. \A j \in Internal : s.images[j].atime \in Nat /\ t.images[j].atime \in Nat
  BY WellParts, StoreParts DEF Image
<1> QED BY <1>1 DEF Untouched, Aged

LEMMA OneAged ==
    ASSUME NEW s, Well(s), NEW i \in Internal, NEW im, NEW b \in Nat, Aged(s, b), im.atime <= b,
           NEW t, t.images = WithImage(s.images, i, im)
    PROVE  Aged(t, b)
<1>1. s.images \in [Internal -> Image]
  BY WellParts, StoreParts
<1>2. \A j \in Internal : t.images[j] = IF j = i THEN im ELSE s.images[j]
  BY <1>1 DEF WithImage
<1> QED BY <1>2 DEF Aged

LEMMA SetImageAged ==
    ASSUME NEW s, Well(s), NEW i \in Internal, NEW im \in Image, NEW b \in Nat, Aged(s, b), im.atime <= b
    PROVE  Aged(SetImage(s, i, im), b)
<1> DEFINE t == SetImage(s, i, im)
<1>1. t.images = WithImage(s.images, i, im)
  BY WellParts, SetImageIs DEF WithImage
<1> HIDE DEF t
<1>2. Aged(t, b)
  BY <1>1, OneAged
<1> QED BY <1>2 DEF t

LEMMA AfterEvictionAged ==
    ASSUME NEW s, Well(s), NEW b \in Nat, Aged(s, b)
    PROVE  Aged(AfterEviction(s), b)
<1> DEFINE n == NewestFirst(s)
           t == AfterEviction(s)
<1>1. ASSUME NEW i \in Internal
      PROVE  n.images[i].atime <= b
  <2>1. n.images[i] = [s.images[i] EXCEPT !.at = -s.images[i].atime] /\ s.images[i] \in Image
    BY NewestFirstWell, WellParts, StoreParts
  <2> HIDE DEF n
  <2>2. n.images[i].atime = s.images[i].atime
    BY <2>1 DEF Image
  <2> QED BY <2>2 DEF Aged
<1>2. t.images = [i \in Internal |-> IF i \in Evicted(s) THEN NoImage ELSE n.images[i]]
  BY AfterEvictionWell
<1>3. NoImage.atime <= b
  BY DEF NoImage
<1> HIDE DEF n, t
<1>4. Aged(t, b)
  BY <1>1, <1>2, <1>3 DEF Aged
<1> QED BY <1>4 DEF t

LEMMA AfterCommandAged ==
    ASSUME NEW s, Well(s), NEW verb, NEW i, NEW b \in Nat, Aged(s, b)
    PROVE  Aged(AfterCommand(s, verb, i), b)
<1> DEFINE c == IF verb = "q" THEN Trimmed(s) ELSE s
           D == Unplaced(c) \ {i}
           t == Without(c, D)
<1>1. Well(c) /\ Aged(c, b)
  <2>1. Unreachable(s) \in SUBSET LiveIn(s)
    BY DEF Unreachable
  <2> QED BY <2>1, WithoutWell, WithoutAged DEF Trimmed
<1>2. AfterCommand(s, verb, i) = IF c.used <= StorageLimit THEN c
                                 ELSE IF t.used < StorageLimit THEN t ELSE AfterEviction(t)
  BY DEF AfterCommand, WithinQuota
<1> HIDE DEF c
<1>3. D \in SUBSET LiveIn(c)
  BY DEF Unplaced
<1> HIDE DEF D
<1>4. Well(t) /\ Aged(t, b)
  BY <1>1, <1>3, WithoutWell, WithoutAged
<1> HIDE DEF t
<1>5. Aged(AfterEviction(t), b)
  BY <1>4, AfterEvictionAged
<1> QED BY <1>1, <1>2, <1>4, <1>5

LEMMA PutOnAged ==
    ASSUME NEW s, Well(s), NEW i \in Internal, s.images[i].loaded, NEW p \in PlacementIds \cup {0},
           clock \in Nat, CanTouch, Aged(s, clock + 1)
    PROVE  Aged(PutOn(s, i, p), clock + 1)
<1> DEFINE im == s.images[i]
           q == IF im.id = 0 THEN 0 ELSE p
           b == clock + 1
           g == [im EXCEPT !.atime = b, !.refs = im.refs \cup {q}]
<1>1. s \in StoreType /\ im \in Image
  BY WellParts, StoreParts
<1>2. b \in 0..MaxTouched /\ b \in Nat
  BY ImageStoreAssumption DEF CanTouch
<1>3. PutOn(s, i, p) = SetImage(s, i, g)
  BY DEF PutOn
<1>4. q \in PlacementIds \cup {0}
  OBVIOUS
<1>5. Aged(s, b)
  OBVIOUS
<1> HIDE DEF im, q, b
<1>6. g \in Image /\ g.atime = b
  BY <1>1, <1>2, <1>4 DEF Image
<1> HIDE DEF g
<1> QED BY <1>2, <1>3, <1>5, <1>6, SetImageAged DEF b

LEMMA CompleteAged ==
    ASSUME NEW s, Well(s), NEW i \in LiveIn(s), NEW size \in Nat, s.images[i].last < MaxFrameIds,
           NEW verb, NEW p \in PlacementIds \cup {0}, clock \in Nat,
           NEW b \in Nat, Aged(s, b), verb = "T" => CanTouch /\ b = clock + 1
    PROVE  Aged(Complete(s, i, verb, size, p), b)
<1> DEFINE im == s.images[i]
           g == LoadedImage(im, size)
           t == Loaded(s, i, size)
<1>1. s \in StoreType /\ i \in Internal /\ im \in Image /\ IsFiniteSet(s.cache)
  BY WellParts, StoreParts
<1>2. t.images = WithImage(s.images, i, g)
  BY <1>1, LoadedIs
<1>3. g.atime = im.atime /\ im.atime <= b
  BY <1>1 DEF LoadedImage, NewRoot, Image, Aged
<1>4. Well(t) /\ t.images[i].loaded
  BY LoadedWell
<1>5. Complete(s, i, verb, size, p) = IF verb = "T" THEN PutOn(t, i, p) ELSE t
  BY DEF Complete
<1> HIDE DEF t, g, im
<1>6. Aged(t, b)
  BY <1>1, <1>2, <1>3, OneAged
<1>7. CASE verb = "T"
  BY <1>1, <1>4, <1>5, <1>6, <1>7, PutOnAged
<1> QED BY <1>5, <1>6, <1>7
-----------------------------------------------------------------------------
(* The invariant.                                                          *)
StoreInv ==
    /\ loading \in Load \cup {NoLoad}
    /\ made \in 0..MaxImages
    /\ clock \in 0..MaxTouched
    /\ Well(Store)
    /\ used <= StorageLimit
    /\ LiveIn(Store) \subseteq 1..made
    /\ Aged(Store, clock)

LEMMA StoreIsSound ==
    ASSUME StoreInv
    PROVE  ImagesSound
<1> DEFINE s == Store
<1>1. /\ s.images = images /\ s.cache = cache /\ s.total = total /\ s.used = used
  BY DEF Store
<1>2. Well(s)
  BY DEF StoreInv
<1> HIDE DEF s
<1>3. /\ images \in [Internal -> Image] /\ cache \subseteq FrameEntry
      /\ total \in Nat /\ used \in Nat
  BY <1>1, <1>2, WellParts, StoreParts
<1>4. IsTypeOK
  BY <1>3 DEF IsTypeOK, StoreInv
<1>5. IdsAreUnique
  BY <1>1, <1>2, WellParts DEF IdsWell, IdsAreUnique, s
<1>6. PlacedAreLoaded
  BY <1>1, <1>2, WellParts DEF ImageWell, PlacedAreLoaded, s
<1>7. FramesCached
  <2>1. CacheWell(s) /\ LiveIn(s) = LiveIn(Store)
    BY <1>2, WellParts DEF s
  <2>2. {<<e.image, e.frame>> : e \in cache} = UNION {{i} \X Frames(images[i]) : i \in LiveIn(s)}
    <3>1. ASSUME NEW e \in cache
          PROVE  <<e.image, e.frame>> \in UNION {{i} \X Frames(images[i]) : i \in LiveIn(s)}
      BY <1>1, <2>1 DEF CacheWell
    <3>2. ASSUME NEW i \in LiveIn(s), NEW f \in Frames(images[i])
          PROVE  <<i, f>> \in {<<e.image, e.frame>> : e \in cache}
      BY <1>1, <2>1 DEF CacheWell
    <3>3. {<<e.image, e.frame>> : e \in cache} \subseteq UNION {{i} \X Frames(images[i]) : i \in LiveIn(s)}
      BY <3>1
    <3>4. UNION {{i} \X Frames(images[i]) : i \in LiveIn(s)} \subseteq {<<e.image, e.frame>> : e \in cache}
      BY <3>2
    <3> QED BY <3>3, <3>4
  <2>3. \A d, e \in cache : d.image = e.image /\ d.frame = e.frame => d = e
    BY <1>1, <2>1 DEF CacheWell
  <2> QED BY <2>1, <2>2, <2>3 DEF FramesCached
<1>8. StorageCounted
  <2>1. SumUsed(s, LiveIn(s)) <= s.used
    BY <1>2, WellParts, StoreParts, SumUsedIsSum
  <2> QED BY <1>1, <2>1 DEF StorageCounted, StoreInv, s
<1> QED BY <1>4, <1>5, <1>6, <1>7, <1>8 DEF ImagesSound

(* What is left of a step to be shown.                                     *)
LEMMA BecomeSound ==
    ASSUME NEW s, Well(s), Become(s), s.used <= StorageLimit, Aged(s, clock'),
           made' \in 0..MaxImages, clock' \in 0..MaxTouched, LiveIn(s) \subseteq 1..made',
           loading' \in Load \cup {NoLoad}
    PROVE  StoreInv'
<1>1. Store' = s
  <2>1. s \in StoreType
    BY WellParts
  <2> QED BY <2>1 DEF Store, Become, StoreType
<1>2. Well(Store)'
  BY <1>1
<1>3. LiveIn(Store)' \subseteq 1..made' /\ Aged(Store, clock)'
  BY <1>1
<1> QED BY <1>2, <1>3 DEF StoreInv, Become

LEMMA SameSound ==
    ASSUME StoreInv, UNCHANGED <<images, cache, total, used, made>>,
           clock' = clock, loading' \in Load \cup {NoLoad}
    PROVE  StoreInv'
<1>1. Store' = Store /\ made' = made /\ used' = used
  BY DEF Store
<1> QED BY <1>1 DEF StoreInv

(* Chunks and commands.                                                    *)
LEMMA AfterCommandWell ==
    ASSUME NEW s, Well(s), NEW verb, NEW i
    PROVE  /\ Well(AfterCommand(s, verb, i))
           /\ LiveIn(AfterCommand(s, verb, i)) \subseteq LiveIn(s)
           /\ AfterCommand(s, verb, i).used <= StorageLimit
<1> DEFINE t == IF verb = "q" THEN Trimmed(s) ELSE s
<1>1. Unreachable(s) \in SUBSET LiveIn(s)
  BY DEF Unreachable
<1>2. Well(Trimmed(s)) /\ LiveIn(Trimmed(s)) = LiveIn(s) \ Unreachable(s)
  BY <1>1, WithoutWell DEF Trimmed
<1>3. Well(t) /\ LiveIn(t) \subseteq LiveIn(s)
  BY <1>2
<1>4. AfterCommand(s, verb, i) = WithinQuota(t, i)
  BY DEF AfterCommand
<1> HIDE DEF t
<1> QED BY <1>3, <1>4, WithinQuotaWell

LEMMA BeginSound ==
    ASSUME NEW s, Well(s), NEW i \in LiveIn(s), NEW verb \in {"t", "T", "q"}, NEW size \in ImageSizes,
           NEW p \in PlacementIds \cup {0}, NEW outcome, Begin(s, i, verb, size, p, outcome),
           outcome = "ok" => s.images[i].last < MaxFrameIds, CanTouch, clock \in Nat,
           Aged(s, clock + 1), made' \in 0..MaxImages, LiveIn(s) \subseteq 1..made'
    PROVE  StoreInv'
<1> DEFINE c == Complete(s, i, verb, size, p)
           t == IF outcome = "ok" THEN AfterCommand(c, verb, i) ELSE AfterCommand(s, verb, 0)
<1>1. size \in Nat /\ MaxTouched \in Nat
  BY ImageStoreAssumption
<1>2. ASSUME outcome = "ok"
      PROVE  Well(c) /\ LiveIn(c) = LiveIn(s) /\ Aged(c, clock + 1)
  BY <1>1, <1>2, CompleteWell, CompleteAged
<1>3. Become(t)
  BY DEF Begin
<1> HIDE DEF c
<1>4. Well(t) /\ LiveIn(t) \subseteq LiveIn(s) /\ t.used <= StorageLimit /\ Aged(t, clock + 1)
  <2>1. CASE outcome = "ok"
    BY <1>2, <2>1, AfterCommandWell, AfterCommandAged
  <2>2. CASE outcome # "ok"
    BY <2>2, AfterCommandWell, AfterCommandAged
  <2> QED BY <2>1, <2>2
<1> HIDE DEF t
<1>5. loading' \in Load \cup {NoLoad}
  <2>1. i \in Internal
    BY WellParts
  <2> QED BY <2>1 DEF Begin, Load
<1>6. clock' \in 0..MaxTouched
  BY <1>1 DEF Begin, CanTouch
<1> QED BY <1>3, <1>4, <1>5, <1>6, BecomeSound DEF Begin

LEMMA TrimmedStore ==
    ASSUME StoreInv
    PROVE  /\ Well(Trimmed(Store)) /\ LiveIn(Trimmed(Store)) \subseteq LiveIn(Store)
           /\ LiveIn(Store) \subseteq Internal
           /\ \A i \in LiveIn(Trimmed(Store)) : Trimmed(Store).images[i] = images[i]
           /\ Aged(Trimmed(Store), clock + 1)
<1> DEFINE s == Store
           D == Unreachable(s)
           t == Without(s, D)
<1>1. D \in SUBSET LiveIn(s) /\ Trimmed(Store) = t /\ s.images = images
  BY DEF Unreachable, Trimmed, Store
<1>2. Well(s) /\ Aged(s, clock) /\ clock \in Nat
  BY DEF StoreInv
<1>6. Aged(s, clock + 1)
  <2>1. \A j \in Internal : s.images[j].atime \in Nat
    BY <1>2, WellParts, StoreParts DEF Image
  <2> HIDE DEF s
  <2> QED BY <1>2, <2>1 DEF Aged
<1> HIDE DEF s, D
<1>3. /\ Well(t) /\ LiveIn(t) = LiveIn(s) \ D
      /\ t.images = [i \in Internal |-> IF i \in D THEN NoImage ELSE s.images[i]]
  BY <1>1, <1>2, WithoutWell
<1>4. LiveIn(s) \subseteq Internal
  BY <1>2, WellParts
<1>7. Aged(t, clock + 1)
  BY <1>1, <1>2, <1>6, WithoutAged
<1> HIDE DEF t
<1>5. \A i \in LiveIn(t) : t.images[i] = images[i]
  BY <1>1, <1>3, <1>4
<1> QED BY <1>1, <1>3, <1>4, <1>5, <1>7 DEF s

LEMMA TransmitAgainSound ==
    ASSUME StoreInv, NEW verb \in {"t", "T"}, NEW id, NEW size \in ImageSizes,
           NEW p \in PlacementIds \cup {0}, NEW medium, NEW outcome,
           TransmitAgain(verb, id, size, p, medium, outcome)
    PROVE  StoreInv'
<1> DEFINE s == Trimmed(Store)
<1>1. PICK i \in Named(s, id) : /\ outcome = "ok" => CanAddFrame(i)
                                /\ Begin(SetImage(s, i, Restarted(s.images[i])), i, verb, size, p, outcome)
  BY DEF TransmitAgain
<1>2. /\ Well(s) /\ LiveIn(s) \subseteq LiveIn(Store) /\ i \in LiveIn(s) /\ s.images[i] = images[i]
      /\ Aged(s, clock + 1)
  BY TrimmedStore DEF Named
<1> HIDE DEF s
<1> DEFINE t == SetImage(s, i, Restarted(s.images[i]))
<1>3. CanTouch /\ clock \in Nat /\ made' \in 0..MaxImages /\ LiveIn(Store) \subseteq 1..made'
  BY DEF TransmitAgain, StoreInv
<1>4. /\ Well(t) /\ LiveIn(t) = LiveIn(s) /\ t.images[i].last = images[i].last
  BY <1>2, <1>3, RestartedWell
<1>6. Aged(t, clock + 1)
  <2> DEFINE g == Restarted(s.images[i])
             b == clock + 1
  <2>1. g \in Image /\ g.atime = b /\ i \in Internal /\ b \in Nat /\ Aged(s, b)
    BY <1>2, <1>3, RestartedWell, WellParts
  <2> HIDE DEF g, b
  <2>2. Aged(SetImage(s, i, g), b)
    BY <1>2, <2>1, SetImageAged
  <2> QED BY <2>2 DEF g, b
<1> HIDE DEF t
<1>5. Begin(t, i, verb, size, p, outcome) /\ (outcome = "ok" => t.images[i].last < MaxFrameIds)
  BY <1>1, <1>4 DEF t, CanAddFrame
<1> QED BY <1>2, <1>3, <1>4, <1>5, <1>6, BeginSound

LEMMA TransmitSound ==
    ASSUME StoreInv, NEW verb \in {"t", "T", "q"}, NEW id \in Nat, NEW num \in Nat,
           NEW size \in ImageSizes, NEW p \in PlacementIds \cup {0}, NEW medium, NEW outcome,
           Transmit(verb, id, num, size, p, medium, outcome)
    PROVE  StoreInv'
<1> DEFINE s == Trimmed(Store)
           i == made + 1
           name == IF num # 0 THEN FreeId(s) ELSE id
           t == SetImage(s, i, NewImage(name, num))
<1>1. /\ Well(s) /\ LiveIn(s) \subseteq LiveIn(Store) /\ Aged(s, clock + 1)
  BY TrimmedStore
<1>2. /\ Begin(t, i, verb, size, p, outcome) /\ CanTouch /\ made' = made + 1 /\ made < MaxImages
      /\ id # 0 => num = 0 /\ Named(s, id) = {}
  BY DEF Transmit
<1>3. /\ clock \in Nat /\ made \in 0..MaxImages /\ LiveIn(Store) \subseteq 1..made /\ MaxImages \in Nat
  BY ImageStoreAssumption DEF StoreInv
<1> HIDE DEF s, t
<1>4. i \in Internal \ LiveIn(s) /\ made' \in 0..MaxImages
  BY <1>1, <1>2, <1>3 DEF Internal
<1>5. name \in Nat /\ (name # 0 => Named(s, name) = {})
  BY <1>2, FreeIdIsFree
<1> HIDE DEF name, i
<1>6. /\ Well(t) /\ LiveIn(t) = LiveIn(s) \cup {i} /\ t.images[i].last = 0
  BY <1>1, <1>2, <1>3, <1>4, <1>5, NewImageWell DEF t
<1>8. Aged(t, clock + 1)
  <2> DEFINE g == NewImage(name, num)
             b == clock + 1
  <2>1. g \in Image /\ g.atime = b /\ i \in Internal /\ b \in Nat /\ Aged(s, b)
    BY <1>1, <1>2, <1>3, <1>4, <1>5, NewImageWell
  <2> HIDE DEF g, b
  <2>2. Aged(SetImage(s, i, g), b)
    BY <1>1, <2>1, SetImageAged
  <2> QED BY <2>2 DEF g, b, t
<1>7. LiveIn(t) \subseteq 1..made' /\ i \in LiveIn(t)
  BY <1>1, <1>2, <1>3, <1>6 DEF i
<1> QED BY <1>2, <1>3, <1>4, <1>6, <1>7, <1>8, BeginSound, ImageStoreAssumption

LEMMA LoadUnderWay ==
    ASSUME StoreInv, loading.for # 0
    PROVE  /\ loading.for \in Internal /\ loading.size \in ImageSizes /\ loading.size \in Nat
           /\ loading.place \in PlacementIds \cup {0}
<1>1. NoLoad.for = 0
  BY DEF NoLoad
<1>2. loading \in Load
  BY <1>1 DEF StoreInv
<1>3. ImageSizes \subseteq Nat
  BY ImageStoreAssumption
<1> QED BY <1>2, <1>3 DEF Load

LEMMA ChunkSound ==
    ASSUME StoreInv, NEW ok, Chunk(ok)
    PROVE  StoreInv'
<1> DEFINE i == loading.for
<1>1. i \in Internal /\ loading.size \in Nat /\ loading.place \in PlacementIds \cup {0}
  BY LoadUnderWay DEF Chunk
<1>2. clock \in 0..MaxTouched /\ made \in 0..MaxImages /\ clock \in Nat /\ MaxTouched \in Nat
  BY ImageStoreAssumption DEF StoreInv
<1>3. loading' = NoLoad /\ made' = made
  BY DEF Chunk
<1>4. CASE i \in LiveIn(Store) /\ ok
  <2> DEFINE s == Store
             c == Complete(s, i, loading.verb, loading.size, loading.place)
             t == AfterCommand(c, "t", i)
  <2>1. /\ CanAddFrame(i) /\ (loading.verb = "T" => CanTouch) /\ Become(t)
        /\ clock' = IF loading.verb = "T" THEN clock + 1 ELSE clock
    BY <1>4 DEF Chunk
  <2>2. Well(s) /\ i \in LiveIn(s) /\ s.images = images /\ LiveIn(s) \subseteq 1..made
        /\ Aged(s, clock)
    BY <1>4 DEF StoreInv, Store
  <2>5. clock' \in 0..MaxTouched /\ clock' \in Nat
    BY <1>2, <2>1 DEF CanTouch
  <2> HIDE DEF s
  <2>6. Aged(s, clock')
    <3>1. \A j \in Internal : s.images[j].atime \in Nat
      BY <2>2, WellParts, StoreParts DEF Image
    <3> QED BY <1>2, <2>1, <2>2, <3>1 DEF Aged
  <2>3. Well(c) /\ LiveIn(c) = LiveIn(s) /\ Aged(c, clock')
    <3> DEFINE b == clock'
    <3>1. b \in Nat /\ Aged(s, b) /\ (loading.verb = "T" => b = clock + 1)
      BY <2>1, <2>5, <2>6
    <3> HIDE DEF b
    <3>2. Well(c) /\ LiveIn(c) = LiveIn(s)
      BY <1>1, <1>2, <2>1, <2>2, CompleteWell DEF CanAddFrame
    <3>3. Aged(c, b)
      BY <1>1, <1>2, <2>1, <2>2, <3>1, CompleteAged DEF CanAddFrame
    <3> QED BY <3>2, <3>3 DEF b
  <2> HIDE DEF c
  <2>4. Well(t) /\ LiveIn(t) \subseteq LiveIn(s) /\ t.used <= StorageLimit /\ Aged(t, clock')
    BY <2>3, <2>5, AfterCommandWell, AfterCommandAged
  <2> HIDE DEF t
  <2> QED BY <1>2, <1>3, <2>1, <2>2, <2>4, <2>5, BecomeSound
<1>5. CASE ~(i \in LiveIn(Store) /\ ok)
  BY <1>2, <1>3, <1>5, SameSound DEF Chunk
<1> QED BY <1>4, <1>5
-----------------------------------------------------------------------------
(* Commands that use no more storage than there was used.                  *)
LEMMA NoMoreSound ==
    ASSUME StoreInv, NEW s, Well(s), Become(s), s.used <= used, LiveIn(s) \subseteq LiveIn(Store),
           made' = made, clock' \in 0..MaxTouched, Aged(s, clock'), loading' \in Load \cup {NoLoad}
    PROVE  StoreInv'
<1>1. used <= StorageLimit /\ made \in 0..MaxImages /\ LiveIn(Store) \subseteq 1..made
  BY DEF StoreInv
<1>2. used \in Nat /\ s.used \in Nat /\ StorageLimit \in Nat
  <2>1. Store \in StoreType /\ Store.used = used
    BY WellParts DEF StoreInv, Store
  <2> QED BY <2>1, WellParts, StoreParts, ImageStoreAssumption
<1>3. s.used <= StorageLimit
  BY <1>1, <1>2
<1> QED BY <1>1, <1>3, BecomeSound

LEMMA StoreFacts ==
    ASSUME StoreInv
    PROVE  /\ Well(Store) /\ Store.images = images /\ Store.used = used /\ used \in Nat
           /\ LiveIn(Store) \subseteq Internal /\ clock \in 0..MaxTouched
           /\ loading \in Load \cup {NoLoad} /\ clock \in Nat /\ MaxTouched \in Nat
           /\ Aged(Store, clock)
<1>1. Well(Store) /\ Store.images = images /\ Store.used = used
  BY DEF StoreInv, Store
<1> QED BY <1>1, WellParts, StoreParts, ImageStoreAssumption DEF StoreInv

LEMMA FrameDoneSound ==
    ASSUME StoreInv, NEW i \in LiveIn(Store), NEW edit \in Frames(images[i]) \cup {0}, NEW size \in Nat,
           edit = 0 => CanAddFrame(i), Become(FrameDone(Store, i, edit, size)),
           loading' \in Load \cup {NoLoad}, UNCHANGED <<made, clock>>
    PROVE  StoreInv'
<1> DEFINE s == Store
           t == FrameDone(s, i, edit, size)
<1>1. Well(s) /\ s.images = images /\ s.used = used /\ clock \in 0..MaxTouched
      /\ Aged(s, clock) /\ clock \in Nat
  BY StoreFacts
<1> HIDE DEF s
<1>2. i \in LiveIn(s) /\ (edit \notin Frames(s.images[i]) => s.images[i].last < MaxFrameIds)
  BY <1>1 DEF s, CanAddFrame
<1>3. Well(t) /\ LiveIn(t) \subseteq LiveIn(s) /\ t.used <= s.used /\ Untouched(s, t)
  BY <1>1, <1>2, FrameDoneWell
<1>4. Become(t)
  BY DEF s
<1> HIDE DEF t
<1>5. Aged(t, clock)
  BY <1>1, <1>3, UntouchedAged
<1> QED BY <1>1, <1>3, <1>4, <1>5, NoMoreSound DEF s

LEMMA StartFrameSound ==
    ASSUME StoreInv, NEW i \in Internal, NEW edit, NEW size \in ImageSizes, NEW medium, NEW outcome,
           StartFrame(i, edit, size, medium, outcome)
    PROVE  StoreInv'
<1>1. i \in LiveIn(Store)
  BY DEF StartFrame, FrameTarget
<1>2. loading' \in Load \cup {NoLoad} /\ made' = made /\ clock' = clock /\ clock \in 0..MaxTouched
  BY StoreFacts DEF StartFrame, Load
<1>3. size \in Nat
  BY ImageStoreAssumption
<1>4. CASE outcome = "ok"
  BY <1>1, <1>2, <1>3, <1>4, FrameDoneSound DEF StartFrame
<1>5. CASE outcome # "ok"
  BY <1>2, <1>5, SameSound DEF StartFrame
<1> QED BY <1>4, <1>5

LEMMA FrameChunkSound ==
    ASSUME StoreInv, NEW i \in Internal, NEW edit, NEW ok, FrameChunk(i, edit, ok)
    PROVE  StoreInv'
<1>1. i \in LiveIn(Store)
  BY DEF FrameChunk, FrameTarget
<1>2. loading' = NoLoad /\ made' = made /\ clock' = clock /\ clock \in 0..MaxTouched
  BY StoreFacts DEF FrameChunk
<1>3. loading.size \in Nat
  BY LoadUnderWay DEF FrameChunk
<1>4. CASE ok
  <2> DEFINE size == loading.size
  <2>1. Become(FrameDone(Store, i, edit, size)) /\ size \in Nat
    BY <1>3, <1>4 DEF FrameChunk
  <2> HIDE DEF size
  <2> QED BY <1>1, <1>2, <2>1, FrameDoneSound DEF FrameChunk
<1>5. CASE ~ok
  BY <1>2, <1>5, SameSound DEF FrameChunk
<1> QED BY <1>4, <1>5

LEMMA ComposeSound ==
    ASSUME StoreInv, NEW i, NEW dest, Compose(i, dest)
    PROVE  StoreInv'
<1> DEFINE s == Store
           t == Rewritten(s, i, dest)
<1>1. Well(s) /\ s.images = images /\ s.used = used /\ clock \in 0..MaxTouched
      /\ loading \in Load \cup {NoLoad} /\ used \in Nat /\ Aged(s, clock) /\ clock \in Nat
  BY StoreFacts
<1>2. i \in LiveIn(s) /\ dest \in Frames(s.images[i]) /\ Become(t) /\ UNCHANGED <<loading, made, clock>>
  BY <1>1 DEF Compose
<1> HIDE DEF s
<1>3. Well(t) /\ LiveIn(t) = LiveIn(s) /\ t.used = s.used /\ Untouched(s, t)
  BY <1>1, <1>2, RewrittenWell
<1> HIDE DEF t
<1>4. Aged(t, clock)
  BY <1>1, <1>3, UntouchedAged
<1> QED BY <1>1, <1>2, <1>3, <1>4, NoMoreSound DEF s

LEMMA PutSound ==
    ASSUME StoreInv, NEW i \in Internal, NEW p \in PlacementIds \cup {0}, Put(i, p)
    PROVE  StoreInv'
<1> DEFINE s == Store
           t == PutOn(s, i, p)
<1>1. Well(s) /\ s.images = images /\ s.used = used /\ clock \in 0..MaxTouched /\ MaxTouched \in Nat
      /\ loading \in Load \cup {NoLoad} /\ used \in Nat /\ clock \in Nat /\ Aged(s, clock)
  BY StoreFacts
<1>2. s.images[i].loaded /\ Become(t) /\ UNCHANGED <<loading, made>> /\ CanTouch /\ clock' = clock + 1
  BY <1>1 DEF Put
<1> HIDE DEF s
<1>3. Well(t) /\ LiveIn(t) = LiveIn(s) /\ t.used = s.used
  BY <1>1, <1>2, PutOnWell
<1>4. clock' \in 0..MaxTouched
  BY <1>1, <1>2 DEF CanTouch
<1>5. Aged(t, clock + 1)
  <2>1. Aged(s, clock + 1)
    <3>1. \A j \in Internal : s.images[j].atime \in Nat
      BY <1>1, WellParts, StoreParts DEF Image
    <3> QED BY <1>1, <3>1 DEF Aged
  <2> QED BY <1>1, <1>2, <2>1, PutOnAged
<1> HIDE DEF t
<1> QED BY <1>1, <1>2, <1>3, <1>4, <1>5, NoMoreSound DEF s
-----------------------------------------------------------------------------
(* Placements that go.                                                     *)
WithRefs(s, r) == [s EXCEPT !.images = [i \in Internal |-> [s.images[i] EXCEPT !.refs = r[i]]]]

LEMMA FewerRefs ==
    ASSUME NEW s, Well(s), NEW r \in [Internal -> SUBSET (PlacementIds \cup {0})],
           \A i \in Internal : r[i] \subseteq s.images[i].refs
    PROVE  /\ Well(WithRefs(s, r)) /\ LiveIn(WithRefs(s, r)) = LiveIn(s)
           /\ WithRefs(s, r).used = s.used
           /\ Untouched(s, WithRefs(s, r))
<1> DEFINE t == WithRefs(s, r)
           f == [i \in Internal |-> [s.images[i] EXCEPT !.refs = r[i]]]
<1>1. s.images \in [Internal -> Image] /\ \A i \in Internal : ImageWell(s.images[i])
  BY WellParts, StoreParts
<1>2. ASSUME NEW i \in Internal
      PROVE  /\ f[i] \in Image
             /\ ImageWell(f[i])
             /\ f[i].atime > 0 <=> s.images[i].atime > 0
             /\ f[i].id = s.images[i].id
             /\ f[i].root = s.images[i].root /\ f[i].extra = s.images[i].extra
             /\ f[i].used <= s.images[i].used
             /\ f[i].atime <= s.images[i].atime
  <2> DEFINE im == s.images[i]
             g == [im EXCEPT !.refs = r[i]]
  <2>1. im \in Image /\ ImageWell(im) /\ f[i] = g /\ r[i] \subseteq im.refs
        /\ r[i] \in SUBSET (PlacementIds \cup {0})
    BY <1>1
  <2> HIDE DEF im, g, f
  <2>2. im.used \in Nat /\ im.atime \in Nat
    BY <2>1 DEF Image
  <2>3. g \in Image
    BY <2>1 DEF g, Image
  <2>4. /\ g.atime = im.atime /\ g.id = im.id /\ g.root = im.root /\ g.extra = im.extra
        /\ g.used = im.used /\ g.last = im.last /\ g.loaded = im.loaded /\ g.refs = r[i]
    BY <2>1 DEF g, Image
  <2>5. ImageWell(g)
    BY <2>1, <2>4 DEF ImageWell
  <2> QED BY <2>1, <2>2, <2>3, <2>4, <2>5 DEF im
<1>3. Retouched(s, f)
  BY <1>2 DEF Retouched
<1>4. t = [s EXCEPT !.images = f]
  BY DEF WithRefs
<1> HIDE DEF f, t
<1>5. Well(t) /\ LiveIn(t) = LiveIn(s) /\ t.used = s.used /\ t.images = f
  BY <1>3, <1>4, RetouchedWell
<1>6. Untouched(s, t)
  BY <1>2, <1>5 DEF Untouched
<1> QED BY <1>5, <1>6 DEF t

(* All of refs go to r, and then the images in D.                          *)
LEMMA PlacementsGo ==
    ASSUME StoreInv, NEW r \in [Internal -> SUBSET (PlacementIds \cup {0})],
           \A i \in Internal : r[i] \subseteq images[i].refs,
           NEW D \in SUBSET LiveIn(Store), NEW t,
           t = [Store EXCEPT !.images = [i \in Internal |-> [images[i] EXCEPT !.refs = r[i]]]],
           Become(Without(t, D)), UNCHANGED <<loading, made, clock>>
    PROVE  StoreInv'
<1> DEFINE s == Store
           w == Without(t, D)
<1>1. Well(s) /\ s.images = images /\ s.used = used /\ clock \in 0..MaxTouched
      /\ loading \in Load \cup {NoLoad} /\ used \in Nat /\ Aged(s, clock) /\ clock \in Nat
  BY StoreFacts
<1>2. D \in SUBSET LiveIn(s) /\ \A i \in Internal : r[i] \subseteq s.images[i].refs
  BY <1>1
<1>3. t = WithRefs(s, r)
  BY <1>1 DEF WithRefs
<1> HIDE DEF s
<1>4. Well(t) /\ LiveIn(t) = LiveIn(s) /\ t.used = s.used /\ Untouched(s, t)
  <2> DEFINE v == WithRefs(s, r)
  <2>1. \A i \in Internal : r[i] \subseteq s.images[i].refs
    BY <1>2
  <2>2. Well(v) /\ LiveIn(v) = LiveIn(s) /\ v.used = s.used /\ Untouched(s, v)
    BY <1>1, <2>1, FewerRefs
  <2>3. t = v
    BY <1>3
  <2> HIDE DEF v
  <2> QED BY <2>2, <2>3
<1>5. Well(w) /\ LiveIn(w) = LiveIn(t) \ D /\ w.used <= t.used
  BY <1>2, <1>4, WithoutWell
<1>7. Aged(w, clock)
  <2>1. Aged(t, clock)
    BY <1>1, <1>4, UntouchedAged
  <2> QED BY <1>1, <1>2, <1>4, <2>1, WithoutAged
<1> HIDE DEF w
<1>6. Become(w) /\ LiveIn(w) \subseteq LiveIn(Store) /\ w.used <= used
  BY <1>1, <1>4, <1>5 DEF s, w
<1> QED BY <1>1, <1>5, <1>6, <1>7, NoMoreSound

LEMMA RefsTyped ==
    ASSUME StoreInv, NEW i \in Internal
    PROVE  images[i].refs \in SUBSET (PlacementIds \cup {0})
  BY StoreFacts, WellParts, StoreParts DEF Image

LEMMA FilteredSound ==
    ASSUME StoreInv, NEW M, NEW free, NEW past, Become(Filtered(M, free, past)),
           UNCHANGED <<loading, made, clock>>
    PROVE  StoreInv'
<1> DEFINE r == [i \in Internal |-> IF i \in past THEN RefsLeft(i, M) ELSE images[i].refs]
           t == [Store EXCEPT !.images = [i \in Internal |-> [images[i] EXCEPT !.refs = r[i]]]]
           D == {i \in LiveIn(Store) \cap past :
                    t.images[i].refs = {} /\ (free \/ images[i].id = 0)}
<1>1. \A i \in Internal : r[i] \subseteq images[i].refs
  BY DEF RefsLeft
<1>2. r \in [Internal -> SUBSET (PlacementIds \cup {0})]
  BY <1>1, RefsTyped
<1>3. [i \in Internal |-> [images[i] EXCEPT !.refs = IF i \in past THEN RefsLeft(i, M) ELSE @]]
      = [i \in Internal |-> [images[i] EXCEPT !.refs = r[i]]]
  OBVIOUS
<1>4. Filtered(M, free, past) = Without(t, D)
  BY <1>3 DEF Filtered
<1>5. D \in SUBSET LiveIn(Store)
  OBVIOUS
<1> HIDE DEF r, D
<1> QED BY <1>1, <1>2, <1>4, <1>5, PlacementsGo

LEMMA ScrollSound ==
    ASSUME StoreInv, NEW M, Scroll(M)
    PROVE  StoreInv'
<1> DEFINE r == [i \in Internal |-> RefsLeft(i, M)]
           t == [Store EXCEPT !.images = [i \in Internal |-> [images[i] EXCEPT !.refs = r[i]]]]
           D == {i \in LiveIn(Store) :
                    t.images[i].refs = {} /\ images[i].id = 0 /\ images[i].num = 0}
<1>1. \A i \in Internal : r[i] \subseteq images[i].refs
  BY DEF RefsLeft
<1>2. r \in [Internal -> SUBSET (PlacementIds \cup {0})]
  BY <1>1, RefsTyped
<1>3. [i \in Internal |-> [images[i] EXCEPT !.refs = RefsLeft(i, M)]]
      = [i \in Internal |-> [images[i] EXCEPT !.refs = r[i]]]
  OBVIOUS
<1>4. Become(Without(t, D)) /\ UNCHANGED <<loading, made, clock>>
  BY <1>3 DEF Scroll
<1>5. D \in SUBSET LiveIn(Store)
  OBVIOUS
<1> HIDE DEF r, D
<1> QED BY <1>1, <1>2, <1>4, <1>5, PlacementsGo

LEMMA DeleteFrameSound ==
    ASSUME StoreInv, NEW i \in Internal, NEW f, NEW byid, NEW free, DeleteFrame(i, f, byid, free)
    PROVE  StoreInv'
<1> DEFINE s == Store
           t == WithoutFrame(s, i, f)
<1>1. Well(s) /\ s.images = images /\ s.used = used /\ clock \in 0..MaxTouched
      /\ loading \in Load \cup {NoLoad} /\ used \in Nat /\ Aged(s, clock) /\ clock \in Nat
  BY StoreFacts
<1>2. i \in LiveIn(s) /\ UNCHANGED <<loading, made, clock>>
  BY DEF DeleteFrame
<1>3. CASE images[i].extra # {}
  <2>1. f \in Frames(s.images[i]) /\ Become(t) /\ s.images[i].extra # {}
    BY <1>1, <1>3 DEF DeleteFrame
  <2> HIDE DEF s
  <2>2. Well(t) /\ LiveIn(t) = LiveIn(s) /\ t.used = s.used /\ Untouched(s, t)
    BY <1>1, <1>2, <2>1, WithoutFrameWell
  <2> HIDE DEF t
  <2>3. Aged(t, clock)
    BY <1>1, <2>2, UntouchedAged
  <2> QED BY <1>1, <1>2, <2>1, <2>2, <2>3, NoMoreSound DEF s
<1>4. CASE images[i].extra = {}
  <2> DEFINE M == IF byid THEN Matching({i}, 0) ELSE {}
  <2>1. Become(Filtered(M, TRUE, PastFirst(M)))
    BY <1>4 DEF DeleteFrame
  <2> QED BY <1>2, <2>1, FilteredSound
<1> QED BY <1>3, <1>4
-----------------------------------------------------------------------------
LEMMA InitSound ==
    ASSUME IsInit
    PROVE  StoreInv
<1> DEFINE s == Store
<1>0. s.images = [i \in Internal |-> NoImage] /\ s.cache = {} /\ s.total = 0 /\ s.used = 0
  BY DEF IsInit, Store
<1>1. s \in StoreType
  <2>1. NoImage \in Image
    BY ImageStoreAssumption DEF NoImage, Image
  <2> QED BY <2>1 DEF IsInit, Store, StoreType
<1>2. LiveIn(s) = {}
  <2>1. \A i \in Internal : s.images[i].atime = 0
    BY <1>0 DEF NoImage
  <2> HIDE DEF s
  <2> QED BY <2>1 DEF LiveIn
<1> HIDE DEF s
<1>3. \A i \in Internal : ImageWell(s.images[i])
  <2>1. ImageWell(NoImage)
    BY DEF ImageWell, NoImage
  <2> QED BY <1>0, <2>1
<1>4. IdsWell(s) /\ CacheWell(s)
  BY <1>0, <1>2, FS_EmptySet DEF IdsWell, CacheWell
<1>7. Aged(s, 0)
  BY <1>0 DEF Aged, NoImage
<1>5. Sum(s, LiveIn(s)) = 0
  BY <1>2, AmountOfNone DEF Sum
<1>6. Well(s)
  BY <1>0, <1>1, <1>3, <1>4, <1>5 DEF Well
<1> QED BY <1>2, <1>6, <1>7, ImageStoreAssumption DEF StoreInv, IsInit, s

LEMMA StepSound ==
    ASSUME StoreInv, [IsNext]_isvars
    PROVE  StoreInv'
<1>1. ASSUME NEW verb \in {"t", "T"}, NEW id \in ClientIds, NEW size \in ImageSizes,
             NEW p \in PlacementIds \cup {0}, NEW medium \in Media, NEW outcome \in Outcomes,
             TransmitAgain(verb, id, size, p, medium, outcome)
      PROVE  StoreInv'
  BY <1>1, TransmitAgainSound
<1>2. ASSUME NEW verb \in {"t", "T"}, NEW id \in ClientIds \cup {0}, NEW num \in Numbers \cup {0},
             NEW size \in ImageSizes, NEW p \in PlacementIds \cup {0}, NEW medium \in Media,
             NEW outcome \in Outcomes, Transmit(verb, id, num, size, p, medium, outcome)
      PROVE  StoreInv'
  <2>1. id \in Nat /\ num \in Nat /\ verb \in {"t", "T", "q"}
    BY <1>2, ImageStoreAssumption
  <2> QED BY <1>2, <2>1, TransmitSound
<1>3. ASSUME NEW size \in ImageSizes, NEW medium \in Media, NEW outcome \in Outcomes,
             Transmit("q", 0, 0, size, 0, medium, outcome)
      PROVE  StoreInv'
  <2>1. "q" \in {"t", "T", "q"} /\ 0 \in Nat /\ 0 \in PlacementIds \cup {0}
    OBVIOUS
  <2> QED BY <1>3, <2>1, TransmitSound
<1>4. ASSUME NEW ok \in BOOLEAN, Chunk(ok)
      PROVE  StoreInv'
  BY <1>4, ChunkSound
<1>5. ASSUME NEW i \in Internal, NEW edit, NEW size \in ImageSizes, NEW medium \in Media,
             NEW outcome \in Outcomes, StartFrame(i, edit, size, medium, outcome)
      PROVE  StoreInv'
  BY <1>5, StartFrameSound
<1>6. ASSUME NEW i \in Internal, NEW edit, NEW ok \in BOOLEAN, FrameChunk(i, edit, ok)
      PROVE  StoreInv'
  BY <1>6, FrameChunkSound
<1>7. ASSUME NEW i \in Internal, NEW dest, Compose(i, dest)
      PROVE  StoreInv'
  BY <1>7, ComposeSound
<1>8. ASSUME NEW i \in Internal, NEW p \in PlacementIds \cup {0}, Put(i, p)
      PROVE  StoreInv'
  BY <1>8, PutSound
<1>9. ASSUME NEW i \in Internal, NEW f, NEW byid \in BOOLEAN, NEW free \in BOOLEAN,
             DeleteFrame(i, f, byid, free)
      PROVE  StoreInv'
  BY <1>9, DeleteFrameSound
<1>10. ASSUME NEW M \in SUBSET Refs, NEW free \in BOOLEAN, DeletePlacements(M, free)
       PROVE  StoreInv'
  BY <1>10, FilteredSound DEF DeletePlacements
<1>11. ASSUME NEW M \in SUBSET Refs, Scroll(M)
       PROVE  StoreInv'
  BY <1>11, ScrollSound
<1>12. ASSUME NEW id \in ClientIds, NEW p \in PlacementIds \cup {0}, NEW free \in BOOLEAN,
              DeleteById(id, p, free)
       PROVE  StoreInv'
  BY <1>12, FilteredSound DEF DeleteById
<1>13. ASSUME NEW num \in Numbers, NEW p \in PlacementIds \cup {0}, NEW free \in BOOLEAN,
              DeleteByNumber(num, p, free)
       PROVE  StoreInv'
  <2> DEFINE M == Matching({i \in Internal : images[i].num = num}, p)
  <2>1. Become(Filtered(M, free, PastFirst(M))) /\ UNCHANGED <<loading, made, clock>>
    BY <1>13 DEF DeleteByNumber
  <2> QED BY <2>1, FilteredSound
<1>14. CASE UNCHANGED isvars
  BY <1>14, StoreFacts, SameSound DEF isvars
<1> QED BY <1>1, <1>2, <1>3, <1>4, <1>5, <1>6, <1>7, <1>8, <1>9, <1>10, <1>11, <1>12, <1>13, <1>14
        DEF IsNext

(* Whatever programs send and however the text scrolls: every id names one *)
(* image, what is placed has a root frame, the disk cache holds the frames *)
(* of the images and nothing else (free_image() and the handlers that add, *)
(* edit and delete frames), and used_storage counts what they use and is   *)
(* within the limit after each command (apply_storage_quota()).            *)
THEOREM ImagesStaySound == IsSpec => []ImagesSound
<1>1. IsInit => StoreInv
  BY InitSound
<1>2. StoreInv /\ [IsNext]_isvars => StoreInv'
  BY StepSound
<1>3. StoreInv => ImagesSound
  BY StoreIsSound
<1> QED BY <1>1, <1>2, <1>3, PTL DEF IsSpec
-----------------------------------------------------------------------------
(* What the quota makes go: nothing below the limit; what has no placement *)
(* first; then, if that was not enough, whatever is older than all that    *)
(* stay.                                                                   *)
GoesFor(c, t, a, G) ==
    /\ LiveIn(t) = LiveIn(c) \ G
    /\ \A i \in G : t.images[i] = NoImage
    /\ \A i \in Internal \ G : c.images[i] = NoImage => t.images[i] = NoImage
    /\ \A i \in Internal \ G :
            t.images[i].atime = c.images[i].atime /\ t.images[i].refs = c.images[i].refs
    /\ G # {} => t.used + Sum(c, G) > StorageLimit \/ LiveIn(t) = {}
    /\ \A x \in G : x \notin Unplaced(c) \/ x = a =>
            /\ Unplaced(c) \ {a} \subseteq G
            /\ \A y \in LiveIn(c) \ G : c.images[x].atime < c.images[y].atime

LEMMA EvictedAreOldest ==
    ASSUME NEW s, Well(s), NEW x \in Evicted(s), NEW y \in LiveIn(s) \ Evicted(s)
    PROVE  s.images[x].atime < s.images[y].atime
<1> DEFINE older(k) == {j \in LiveIn(s) : s.images[j].atime < s.images[k].atime}
<1>1. /\ s \in StoreType /\ LiveIn(s) \subseteq Internal /\ x \in LiveIn(s) /\ y \in LiveIn(s)
      /\ \A i \in LiveIn(s) : s.images[i].atime \in Nat
  BY WellParts, StoreParts DEF Image, Evicted
<1>2. \A k : older(k) \in SUBSET LiveIn(s)
  OBVIOUS
<1>3. s.used - SumUsed(s, older(x)) > StorageLimit /\ ~(s.used - SumUsed(s, older(y)) > StorageLimit)
  BY DEF Evicted
<1> SUFFICES ASSUME ~(s.images[x].atime < s.images[y].atime)
             PROVE  FALSE
  OBVIOUS
<1>4. older(y) \subseteq older(x)
  BY <1>1
<1> DEFINE X == older(x)
           Y == older(y)
<1>5. X \in SUBSET LiveIn(s) /\ Y \in SUBSET LiveIn(s) /\ Y \subseteq X
  BY <1>2, <1>4
<1>6. s.used - SumUsed(s, X) > StorageLimit /\ ~(s.used - SumUsed(s, Y) > StorageLimit)
  BY <1>3
<1> HIDE DEF older, X, Y
<1>7. SumUsed(s, X) = Sum(s, X) /\ SumUsed(s, Y) = Sum(s, Y) /\ Sum(s, X) \in Nat /\ Sum(s, Y) \in Nat
  BY <1>1, <1>5, StoreParts, SumUsedIsSum
<1>8. Sum(s, Y) <= Sum(s, X)
  <2>1. IsFiniteSet(X) /\ Weights(UsedOf(s), X)
    BY <1>1, <1>5, StoreParts, ImagesAreFew, UsedAreWeights
  <2> QED BY <1>5, <2>1, AmountGrows DEF Sum
<1> QED BY <1>1, <1>6, <1>7, <1>8, StoreParts, ImageStoreAssumption

LEMMA NothingGoes ==
    ASSUME NEW c, Well(c), NEW a, c.used <= StorageLimit
    PROVE  WithinQuota(c, a) = c
  BY DEF WithinQuota

LEMMA UnplacedGo ==
    ASSUME NEW c, Well(c), NEW a, ~(c.used <= StorageLimit),
           Without(c, Unplaced(c) \ {a}).used < StorageLimit
    PROVE  GoesFor(c, WithinQuota(c, a), a, Unplaced(c) \ {a})
<1> DEFINE D == Unplaced(c) \ {a}
           t == Without(c, D)
<1>1. D \in SUBSET LiveIn(c) /\ D \subseteq Unplaced(c) /\ a \notin D
  BY DEF Unplaced
<1>2. WithinQuota(c, a) = t
  BY DEF WithinQuota
<1> HIDE DEF D
<1>3. /\ LiveIn(t) = LiveIn(c) \ D
      /\ t.images = [i \in Internal |-> IF i \in D THEN NoImage ELSE c.images[i]]
      /\ t.used = c.used - Sum(c, D)
  BY <1>1, WithoutWell
<1>4. c.used \in Nat /\ Sum(c, D) \in Nat /\ StorageLimit \in Nat /\ LiveIn(c) \subseteq Internal
  BY <1>1, WellParts, StoreParts, PartIsCounted, ImageStoreAssumption
<1> HIDE DEF t
<1>5. t.used + Sum(c, D) > StorageLimit
  BY <1>3, <1>4
<1>6. GoesFor(c, t, a, D)
  BY <1>1, <1>3, <1>4, <1>5 DEF GoesFor
<1> QED BY <1>2, <1>6 DEF D

LEMMA OldestGo ==
    ASSUME NEW c, Well(c), NEW a, ~(c.used <= StorageLimit),
           ~(Without(c, Unplaced(c) \ {a}).used < StorageLimit)
    PROVE  \E G \in SUBSET LiveIn(c) : GoesFor(c, WithinQuota(c, a), a, G)
<1> DEFINE D == Unplaced(c) \ {a}
           t == Without(c, D)
           u == AfterEviction(t)
           E == Evicted(t)
           G == D \cup E
<1>1. D \in SUBSET LiveIn(c) /\ D \subseteq Unplaced(c) /\ a \notin D /\ E \in SUBSET LiveIn(t)
      /\ Unplaced(c) \ {a} = D
  BY DEF Unplaced, Evicted
<1>2. WithinQuota(c, a) = u
  BY DEF WithinQuota
<1> HIDE DEF D
<1>3. /\ Well(t) /\ LiveIn(t) = LiveIn(c) \ D
      /\ t.images = [i \in Internal |-> IF i \in D THEN NoImage ELSE c.images[i]]
      /\ t.used = c.used - Sum(c, D)
  BY <1>1, WithoutWell
<1> HIDE DEF t
<1>4. /\ Well(u) /\ LiveIn(u) = LiveIn(t) \ E
      /\ u.images = [i \in Internal |-> IF i \in E THEN NoImage ELSE NewestFirst(t).images[i]]
      /\ LiveIn(u) # {} => u.used = t.used - Sum(t, E)
  BY <1>3, AfterEvictionWell
<1>5. \A i \in Internal : NewestFirst(t).images[i] = [t.images[i] EXCEPT !.at = -t.images[i].atime]
  BY <1>3, NewestFirstWell
<1>6. \A x \in E : \A y \in LiveIn(t) \ E : t.images[x].atime < t.images[y].atime
  BY <1>3, EvictedAreOldest
<1> HIDE DEF u, E
<1>7. LiveIn(c) \subseteq Internal /\ LiveIn(t) \subseteq Internal /\ c.used \in Nat /\ t.used \in Nat
      /\ \A i \in Internal : c.images[i] \in Image /\ t.images[i] \in Image
  BY <1>3, WellParts, StoreParts
<1>8. \A i \in Internal \ G :
            u.images[i].atime = c.images[i].atime /\ u.images[i].refs = c.images[i].refs
  <2> SUFFICES ASSUME NEW i \in Internal \ G
               PROVE  u.images[i].atime = c.images[i].atime /\ u.images[i].refs = c.images[i].refs
    OBVIOUS
  <2>1. t.images[i] = c.images[i] /\ t.images[i] \in Image /\ u.images[i] = NewestFirst(t).images[i]
    BY <1>3, <1>4, <1>7
  <2>2. u.images[i] = [t.images[i] EXCEPT !.at = -t.images[i].atime]
    BY <1>5, <2>1
  <2> QED BY <2>1, <2>2 DEF Image
<1>9. \A i \in G : u.images[i] = NoImage
  <2> SUFFICES ASSUME NEW i \in D, i \notin E
               PROVE  u.images[i] = NoImage
    BY <1>1, <1>3, <1>4, <1>7
  <2>1. i \in Internal /\ t.images[i] = NoImage /\ u.images[i] = NewestFirst(t).images[i]
    BY <1>1, <1>3, <1>4, <1>7
  <2>2. u.images[i] = [NoImage EXCEPT !.at = -NoImage.atime]
    BY <1>5, <2>1
  <2> QED BY <2>2 DEF NoImage
<1>10. LiveIn(u) = LiveIn(c) \ G
  BY <1>3, <1>4
<1>11. G # {} => u.used + Sum(c, G) > StorageLimit \/ LiveIn(u) = {}
  <2> SUFFICES ASSUME LiveIn(u) # {}
               PROVE  u.used + Sum(c, G) > StorageLimit
    OBVIOUS
  <2>1. u.used = c.used - Sum(c, D) - Sum(t, E)
    BY <1>3, <1>4
  <2>2. Sum(t, E) = Sum(c, E)
    <3>1. \A i \in E : UsedOf(t)[i] = UsedOf(c)[i]
      BY <1>1, <1>3, <1>7 DEF UsedOf
    <3> QED BY <3>1, AmountAgrees DEF Sum
  <2>3. G \in SUBSET LiveIn(c) /\ E \in SUBSET LiveIn(c) /\ G \ D = E /\ D \in SUBSET G
    BY <1>1, <1>3
  <2>4. Sum(c, G) = Sum(c, D) + Sum(c, E)
    <3>1. IsFiniteSet(G) /\ Weights(UsedOf(c), G)
      BY <1>7, <2>3, ImagesAreFew, UsedAreWeights, WellParts, StoreParts
    <3> HIDE DEF G
    <3> QED BY <2>3, <3>1, AmountParts DEF Sum
  <2>5. Sum(c, D) \in Nat /\ Sum(c, E) \in Nat /\ StorageLimit \in Nat
    BY <1>1, <2>3, PartIsCounted, ImageStoreAssumption
  <2> QED BY <1>7, <2>1, <2>2, <2>4, <2>5
<1>12. ASSUME NEW x \in G, x \notin Unplaced(c) \/ x = a
       PROVE  /\ Unplaced(c) \ {a} \subseteq G
              /\ \A y \in LiveIn(c) \ G : c.images[x].atime < c.images[y].atime
  <2>1. x \in E
    BY <1>1, <1>12
  <2>2. ASSUME NEW y \in LiveIn(c) \ G
        PROVE  c.images[x].atime < c.images[y].atime
    <3>1. y \in LiveIn(t) \ E /\ t.images[y] = c.images[y]
      BY <1>3, <1>7
    <3>2. t.images[x] = c.images[x]
      BY <1>1, <1>3, <1>7, <2>1
    <3> QED BY <1>6, <2>1, <3>1, <3>2
  <2> QED BY <1>1, <2>2
<1>13. G \in SUBSET LiveIn(c)
  BY <1>1, <1>3
<1>15. \A i \in Internal : c.images[i] = NoImage => u.images[i] = NoImage
  <2> SUFFICES ASSUME NEW i \in Internal, c.images[i] = NoImage
               PROVE  u.images[i] = NoImage
    OBVIOUS
  <2>1. t.images[i] = NoImage
    BY <1>3
  <2>2. CASE i \in E
    BY <1>4, <2>2
  <2>3. CASE i \notin E
    <3>1. u.images[i] = [NoImage EXCEPT !.at = -NoImage.atime]
      BY <1>4, <1>5, <2>1, <2>3
    <3> QED BY <3>1 DEF NoImage
  <2> QED BY <2>2, <2>3
<1> HIDE DEF G
<1>14. GoesFor(c, u, a, G)
  BY <1>15, <1>8, <1>9, <1>10, <1>11, <1>12 DEF GoesFor
<1> QED BY <1>2, <1>13, <1>14

LEMMA QuotaShape ==
    ASSUME NEW c, Well(c), NEW a
    PROVE  \E G \in SUBSET LiveIn(c) : GoesFor(c, WithinQuota(c, a), a, G)
<1>1. CASE c.used <= StorageLimit
  <2>1. WithinQuota(c, a) = c
    BY <1>1, NothingGoes
  <2>2. GoesFor(c, c, a, {})
    BY DEF GoesFor
  <2> QED BY <2>1, <2>2
<1>2. CASE ~(c.used <= StorageLimit) /\ Without(c, Unplaced(c) \ {a}).used < StorageLimit
  <2>1. GoesFor(c, WithinQuota(c, a), a, Unplaced(c) \ {a})
    BY <1>2, UnplacedGo
  <2> QED BY <2>1 DEF Unplaced
<1>3. CASE ~(c.used <= StorageLimit) /\ ~(Without(c, Unplaced(c) \ {a}).used < StorageLimit)
  BY <1>3, OldestGo
<1> QED BY <1>1, <1>2, <1>3
-----------------------------------------------------------------------------
(* What a step lets go of.                                                 *)
GoesSound ==
    /\ Gone \ Unreachable(Store) # {} => ForSpace
    /\ UnplacedFirst
    /\ OldestFirst

LEMMA UnreachableUnplaced ==
    ASSUME StoreInv
    PROVE  \A i \in Unplaced(Store) : images[i].refs = {}
<1>1. Well(Store) /\ Store.images = images
  BY StoreFacts
<1>2. Unplaced(Store) \subseteq Internal
  BY DEF Unplaced, LiveIn
<1> DEFINE s == Store
<1> HIDE DEF s
<1>3. \A i \in Unplaced(s) : ~s.images[i].loaded \/ s.images[i].refs = {}
  BY DEF Unplaced
<1> QED BY <1>1, <1>2, <1>3, WellParts DEF ImageWell, s

LEMMA UnreachableAreUnplaced ==
    ASSUME NEW s
    PROVE  Unreachable(s) \subseteq Unplaced(s)
  BY DEF Unreachable, Unplaced

LEMMA OnlyUnplacedGo ==
    ASSUME StoreInv, Gone \subseteq Unplaced(Store), Gone \ Unreachable(Store) # {} => ForSpace
    PROVE  GoesSound
<1>1. PlacedGone = {}
  BY UnreachableUnplaced DEF PlacedGone
<1> QED BY <1>1 DEF GoesSound, UnplacedFirst, OldestFirst

LEMMA OnlyUnreachableGo ==
    ASSUME StoreInv, Gone \subseteq Unreachable(Store)
    PROVE  GoesSound
  BY UnreachableAreUnplaced, OnlyUnplacedGo

LEMMA Became ==
    ASSUME NEW t, Well(t), Become(t)
    PROVE  /\ images' = t.images /\ used' = t.used
           /\ LiveIn(Store)' = LiveIn(t)
           /\ Gone = {i \in LiveIn(Store) : t.images[i] = NoImage}
           /\ \A i \in LiveIn(t) : t.images[i] # NoImage
<1>1. t \in StoreType
  BY WellParts
<1>2. Store' = t
  BY <1>1 DEF Store, Become, StoreType
<1>3. NoImage.atime = 0
  BY DEF NoImage
<1> QED BY <1>2, <1>3 DEF Become, Gone, LiveIn

(* c is what a transmission to image a has made of the images, B what it   *)
(* has trimmed before.                                                     *)
Transmitted(c, a, B) ==
    /\ Well(c)
    /\ B \subseteq Unreachable(Store)
    /\ LiveIn(c) \ {a} = LiveIn(Store) \ (B \cup {a})
    /\ \A k \in B : c.images[k] = NoImage /\ k # a
    /\ \A k \in LiveIn(c) \ {a} : c.images[k] = images[k]
    /\ a \in LiveIn(c)
    /\ a \in LiveIn(Store) => images[a].atime <= c.images[a].atime
    /\ \/ /\ c.images[a].atime = clock'
          /\ \A y \in LiveIn(c) \ {a} : c.images[y].atime < c.images[a].atime
       \/ a = loading.for /\ a \in LiveIn(Store) /\ c.images[a].used = loading.size

LEMMA TransmittedSums ==
    ASSUME StoreInv, NEW c, NEW a, NEW B, Transmitted(c, a, B),
           NEW G \in SUBSET LiveIn(c), NEW X, G \cap LiveIn(Store) \subseteq X, X \subseteq LiveIn(Store),
           a \in G => a = loading.for /\ a \in LiveIn(Store) /\ c.images[a].used = loading.size
    PROVE  Sum(c, G) <= SumUsed(Store, X) + (IF loading.for \in X THEN loading.size ELSE 0)
<1> DEFINE s == Store
           H == G \ {a}
<1>1. /\ Well(s) /\ Well(c) /\ s \in StoreType /\ c \in StoreType /\ LiveIn(c) \subseteq Internal
      /\ LiveIn(s) \subseteq Internal /\ s.images = images
  BY StoreFacts, WellParts, StoreParts DEF Transmitted
<1>2. H \subseteq X /\ H \subseteq Internal /\ X \subseteq Internal /\ X \in SUBSET LiveIn(s)
      /\ \A k \in H : UsedOf(c)[k] = UsedOf(s)[k]
  <2>1. H \subseteq LiveIn(s)
    BY DEF Transmitted
  <2> QED BY <1>1, <2>1 DEF Transmitted, UsedOf
<1>3. SumUsed(s, X) = Sum(s, X) /\ Sum(s, X) \in Nat /\ Sum(s, H) \in Nat /\ Sum(c, G) \in Nat
      /\ G \subseteq Internal /\ Sum(c, H) \in Nat
  BY <1>1, <1>2, StoreParts, SumUsedIsSum
<1> HIDE DEF s
<1>4. Sum(s, H) <= Sum(s, X) /\ Sum(c, H) = Sum(s, H)
  <2>1. IsFiniteSet(X) /\ Weights(UsedOf(s), X)
    BY <1>1, <1>2, StoreParts, ImagesAreFew, UsedAreWeights
  <2>2. Sum(c, H) = Sum(s, H)
    BY <1>2, AmountAgrees DEF Sum
  <2> HIDE DEF H
  <2> QED BY <1>2, <2>1, <2>2, AmountGrows DEF Sum
<1>5. CASE a \notin G
  <2>1. H = G
    BY <1>5
  <2>2. loading.for \in X => loading.size \in Nat
    BY <1>2, LoadUnderWay, ImageStoreAssumption DEF Internal
  <2>3. Sum(c, G) = Sum(c, H)
    BY <2>1
  <2>4. Sum(c, G) <= SumUsed(s, X)
    BY <1>3, <1>4, <2>3
  <2>5. CASE loading.for \in X
    BY <1>3, <2>2, <2>4, <2>5 DEF s
  <2>6. CASE loading.for \notin X
    BY <1>3, <2>4, <2>6 DEF s
  <2> QED BY <2>5, <2>6
<1>6. CASE a \in G
  <2>1. loading.for \in X /\ loading.for # 0
    BY <1>1, <1>6 DEF Internal, s
  <2>2. loading.size \in Nat
    BY <2>1, LoadUnderWay
  <2>3. Sum(c, G) = Sum(c, {a}) + Sum(c, H)
    <3>1. IsFiniteSet(G) /\ Weights(UsedOf(c), G) /\ {a} \in SUBSET G
      BY <1>1, <1>3, <1>6, StoreParts, ImagesAreFew, UsedAreWeights
    <3> QED BY <3>1, AmountParts DEF Sum
  <2>4. Sum(c, {a}) = loading.size
    <3>1. UsedOf(c)[a] = loading.size
      BY <1>3, <1>6 DEF UsedOf
    <3>2. IsFiniteSet({a}) /\ Weights(UsedOf(c), {a})
      BY <1>1, <1>3, <1>6, StoreParts, ImagesAreFew, UsedAreWeights
    <3>3. Amount(UsedOf(c), {a}) = UsedOf(c)[a] + Amount(UsedOf(c), {a} \ {a})
      BY <3>2, AmountSplit
    <3>4. Amount(UsedOf(c), {a} \ {a}) = 0
      BY AmountOfNone
    <3> QED BY <3>1, <3>3, <3>4, <2>2 DEF Sum
  <2> QED BY <1>3, <1>4, <2>1, <2>2, <2>3, <2>4 DEF s
<1> QED BY <1>5, <1>6

(* What is gone for more than being unreachable was taken by the quota.    *)
LEMMA TransmittedGo ==
    ASSUME StoreInv, NEW c, NEW a, NEW B, Transmitted(c, a, B), Become(WithinQuota(c, a))
    PROVE  GoesSound
<1> DEFINE t == WithinQuota(c, a)
<1>1. PICK G \in SUBSET LiveIn(c) : GoesFor(c, t, a, G)
  BY QuotaShape DEF Transmitted
<1>2. Well(t) /\ Well(c) /\ c \in StoreType /\ t \in StoreType /\ LiveIn(c) \subseteq Internal
      /\ LiveIn(Store) \subseteq Internal /\ Store.images = images
  BY WithinQuotaWell, StoreFacts, WellParts, StoreParts DEF Transmitted
<1>3. /\ images' = t.images /\ used' = t.used /\ LiveIn(Store)' = LiveIn(t)
      /\ Gone = {i \in LiveIn(Store) : t.images[i] = NoImage}
      /\ \A i \in LiveIn(t) : t.images[i] # NoImage
  BY <1>2, Became
<1> HIDE DEF t
<1>4. /\ LiveIn(t) = LiveIn(c) \ G
      /\ \A i \in G : t.images[i] = NoImage
      /\ \A i \in Internal \ G : c.images[i] = NoImage => t.images[i] = NoImage
      /\ \A i \in Internal \ G :
            t.images[i].atime = c.images[i].atime /\ t.images[i].refs = c.images[i].refs
      /\ G # {} => t.used + Sum(c, G) > StorageLimit \/ LiveIn(t) = {}
      /\ \A x \in G : x \notin Unplaced(c) \/ x = a =>
            /\ Unplaced(c) \ {a} \subseteq G
            /\ \A y \in LiveIn(c) \ G : c.images[x].atime < c.images[y].atime
  BY <1>1 DEF GoesFor
<1>5. /\ B \subseteq Unreachable(Store) /\ LiveIn(c) \ {a} = LiveIn(Store) \ (B \cup {a})
      /\ \A k \in B : c.images[k] = NoImage /\ k # a
      /\ \A k \in LiveIn(c) \ {a} : c.images[k] = images[k]
      /\ a \in LiveIn(c)
  BY DEF Transmitted
<1>6. a \in LiveIn(Store) => images[a].atime <= c.images[a].atime
  BY DEF Transmitted
<1>7. \/ /\ c.images[a].atime = clock'
         /\ \A y \in LiveIn(c) \ {a} : c.images[y].atime < c.images[a].atime
      \/ a = loading.for /\ a \in LiveIn(Store) /\ c.images[a].used = loading.size
  BY DEF Transmitted
<1>8. \A i \in LiveIn(c) : c.images[i].atime \in Nat
  BY <1>2, WellParts, StoreParts DEF Image
<1>9. Gone = (B \cup G) \cap LiveIn(Store)
  <2>1. \A k \in B : k \in Internal /\ t.images[k] = NoImage
    <3>1. B \subseteq Internal
      BY <1>5 DEF Unreachable, LiveIn
    <3> QED BY <1>4, <1>5, <3>1
  <2>2. \A k \in LiveIn(Store) : k \notin B /\ k \notin G => k \in LiveIn(t)
    BY <1>4, <1>5
  <2> QED BY <1>3, <1>4, <2>1, <2>2
<1>10. \A x \in PlacedGone : /\ x \in G /\ (x \notin Unplaced(c) \/ x = a)
                             /\ images[x].atime <= c.images[x].atime
                             /\ images[x].atime \in Nat
  <2> SUFFICES ASSUME NEW x \in PlacedGone
               PROVE  /\ x \in G /\ (x \notin Unplaced(c) \/ x = a)
                      /\ images[x].atime <= c.images[x].atime
                      /\ images[x].atime \in Nat
    OBVIOUS
  <2>1. x \in Gone /\ x \in LiveIn(Store) /\ images[x].refs # {}
    BY <1>9 DEF PlacedGone
  <2>2. x \notin Unplaced(Store) /\ x \notin B
    BY <1>5, <2>1, UnreachableUnplaced, UnreachableAreUnplaced
  <2>3. x \in G
    BY <1>9, <2>1, <2>2
  <2>4. images[x].loaded /\ images[x].atime \in Nat
    <3> DEFINE s == Store
    <3>1. Well(s) /\ s.images = images /\ x \in LiveIn(s) /\ x \notin Unplaced(s)
      BY <1>2, <2>1, <2>2, StoreFacts
    <3> HIDE DEF s
    <3>2. s.images[x] \in Image
      BY <3>1, WellParts, StoreParts
    <3> QED BY <3>1, <3>2 DEF Unplaced, Image
  <2>5. CASE x = a
    BY <1>6, <2>1, <2>3, <2>4, <2>5
  <2>6. CASE x # a
    <3>1. c.images[x] = images[x]
      BY <1>5, <2>3, <2>6
    <3>2. x \notin Unplaced(c)
      BY <2>1, <2>4, <3>1 DEF Unplaced
    <3> QED BY <2>3, <2>4, <3>1, <3>2
  <2> QED BY <2>5, <2>6
<1>11. \A j \in Kept : /\ j \in LiveIn(c) \ G /\ j \in LiveIn(t)
                       /\ images'[j].atime = c.images[j].atime /\ images'[j].refs = c.images[j].refs
  <2>1. \A j \in Kept : j \in LiveIn(Store) /\ j \notin B /\ j \notin G
    BY <1>9 DEF Kept
  <2> QED BY <1>2, <1>3, <1>4, <1>5, <2>1
<1>12. UnplacedFirst
  <2> SUFFICES ASSUME PlacedGone # {}, NEW j \in Kept \ {loading.for}, images'[j].refs = {}
               PROVE  images'[j].atime = clock'
    BY DEF UnplacedFirst
  <2>1. Unplaced(c) \ {a} \subseteq G
    BY <1>4, <1>10
  <2>2. j \in LiveIn(c) \ G /\ c.images[j].refs = {} /\ images'[j].atime = c.images[j].atime
    BY <1>11
  <2>3. j = a
    BY <2>1, <2>2 DEF Unplaced
  <2> QED BY <1>7, <2>2, <2>3
<1>13. OldestFirst
  <2> SUFFICES ASSUME NEW i \in PlacedGone, NEW j \in Kept
               PROVE  images[i].atime < images'[j].atime
    BY DEF OldestFirst
  <2>1. c.images[i].atime < c.images[j].atime /\ images[i].atime <= c.images[i].atime
        /\ i \in LiveIn(c) /\ images[i].atime \in Nat
    BY <1>4, <1>10, <1>11
  <2> QED BY <1>8, <1>11, <2>1
<1>14. ASSUME Gone \ Unreachable(Store) # {}
       PROVE  ForSpace
  <2> DEFINE came == IF loading.for \in Gone THEN loading.size ELSE 0
  <2> SUFFICES ASSUME LiveIn(t) # {}
               PROVE  used' + SumUsed(Store, Gone) + came > StorageLimit
    BY <1>3 DEF ForSpace
  <2>1. G # {}
    BY <1>5, <1>9, <1>14
  <2>2. used' + Sum(c, G) > StorageLimit
    BY <1>3, <1>4, <2>1
  <2>3. a \in G => a = loading.for /\ a \in LiveIn(Store) /\ c.images[a].used = loading.size
    <3> SUFFICES ASSUME a \in G, c.images[a].atime = clock',
                        \A y \in LiveIn(c) \ {a} : c.images[y].atime < c.images[a].atime
                 PROVE  FALSE
      BY <1>7
    <3>1. PICK y \in LiveIn(t) : y \in LiveIn(c) \ G /\ y # a
      BY <1>4
    <3>2. c.images[a].atime < c.images[y].atime /\ c.images[y].atime < c.images[a].atime
      BY <1>4, <3>1
    <3> QED BY <1>5, <1>8, <3>1, <3>2
  <2>4. Sum(c, G) <= SumUsed(Store, Gone) + came
    <3>1. G \cap LiveIn(Store) \subseteq Gone /\ Gone \subseteq LiveIn(Store)
      BY <1>9
    <3> QED BY <2>3, <3>1, TransmittedSums
  <2>5. /\ Sum(c, G) \in Nat /\ SumUsed(Store, Gone) \in Nat /\ came \in Nat /\ used' \in Nat
        /\ StorageLimit \in Nat
    <3>1. Sum(c, G) \in Nat /\ StorageLimit \in Nat /\ used' \in Nat
      BY <1>2, <1>3, PartIsCounted, StoreParts, ImageStoreAssumption
    <3>2. Gone \in SUBSET LiveIn(Store) /\ Store \in StoreType
      BY <1>9, StoreFacts, WellParts
    <3>3. SumUsed(Store, Gone) \in Nat
      BY <1>2, <3>2, StoreParts, SumUsedIsSum
    <3>4. loading.for \in Gone => loading.size \in Nat
      BY <1>2, <3>2, LoadUnderWay DEF Internal
    <3> QED BY <3>1, <3>3, <3>4
  <2> HIDE DEF came
  <2> QED BY <2>2, <2>4, <2>5 DEF came
<1> QED BY <1>12, <1>13, <1>14 DEF GoesSound
-----------------------------------------------------------------------------
(* What the last data makes of the image it is for, and that it leaves the *)
(* others alone.                                                           *)
LEMMA PutOnIs ==
    ASSUME NEW s \in StoreType, NEW i \in Internal, NEW p \in PlacementIds \cup {0},
           clock \in Nat, CanTouch
    PROVE  /\ PutOn(s, i, p).used = s.used
           /\ \A j \in Internal \ {i} : PutOn(s, i, p).images[j] = s.images[j]
           /\ PutOn(s, i, p).images[i].atime = clock + 1
           /\ PutOn(s, i, p).images[i].used = s.images[i].used
           /\ PutOn(s, i, p).images[i].id = s.images[i].id
<1> DEFINE im == s.images[i]
           q == IF im.id = 0 THEN 0 ELSE p
           g == [im EXCEPT !.atime = clock + 1, !.refs = im.refs \cup {q}]
<1>1. im \in Image
  BY StoreParts
<1>2. clock + 1 \in 0..MaxTouched
  BY ImageStoreAssumption DEF CanTouch
<1>3. PutOn(s, i, p) = SetImage(s, i, g)
  BY DEF PutOn
<1>4. q \in PlacementIds \cup {0}
  OBVIOUS
<1> HIDE DEF im, q
<1>5. g \in Image
  BY <1>1, <1>2, <1>4 DEF Image
<1>6. g.atime = clock + 1 /\ g.id = im.id /\ g.used = im.used
  BY <1>1 DEF Image
<1> HIDE DEF g
<1>7. /\ \A j \in Internal \ {i} : SetImage(s, i, g).images[j] = s.images[j]
      /\ SetImage(s, i, g).used = s.used /\ SetImage(s, i, g).images[i] = g
  <2>1. SetImage(s, i, g).used = s.used /\ \A j \in Internal \ {i} : SetImage(s, i, g).images[j] = s.images[j]
    BY <1>5, SetImageIs
  <2>2. SetImage(s, i, g).images[i] = g
    BY <1>5, SetImageThere
  <2> QED BY <2>1, <2>2
<1> QED BY <1>3, <1>6, <1>7 DEF im

LEMMA CompleteIs ==
    ASSUME NEW s, Well(s), NEW i \in LiveIn(s), NEW size \in Nat, s.images[i].last < MaxFrameIds,
           NEW verb, NEW p \in PlacementIds \cup {0}, clock \in Nat, verb = "T" => CanTouch,
           NEW c, c = Complete(s, i, verb, size, p)
    PROVE  /\ c.used = s.used + size
           /\ \A j \in Internal \ {i} : c.images[j] = s.images[j]
           /\ c.images[i].used = size /\ c.images[i].id = s.images[i].id
           /\ c.images[i].atime = IF verb = "T" THEN clock + 1 ELSE s.images[i].atime
           /\ verb # "T" => c.images[i].refs = s.images[i].refs
<1> DEFINE im == s.images[i]
           g == LoadedImage(im, size)
           t == Loaded(s, i, size)
<1>1. s \in StoreType /\ i \in Internal /\ im \in Image /\ IsFiniteSet(s.cache)
      /\ s.images \in [Internal -> Image]
  BY WellParts, StoreParts
<1>2. t.images = WithImage(s.images, i, g) /\ t.used = s.used + size
  BY <1>1, LoadedIs
<1>3. g.atime = im.atime /\ g.used = size /\ g.id = im.id /\ g.refs = im.refs
  BY <1>1 DEF LoadedImage, NewRoot, Image
<1>4. Well(t) /\ t \in StoreType
  BY LoadedWell, WellParts
<1>5. c = IF verb = "T" THEN PutOn(t, i, p) ELSE t
  BY DEF Complete
<1> HIDE DEF t, g
<1>6. t.images[i] = g /\ \A j \in Internal \ {i} : t.images[j] = s.images[j]
  BY <1>1, <1>2 DEF WithImage
<1>7. CASE verb = "T"
  <2>1. /\ c.used = t.used /\ c.images[i].atime = clock + 1
        /\ c.images[i].used = t.images[i].used /\ c.images[i].id = t.images[i].id
        /\ \A j \in Internal \ {i} : c.images[j] = t.images[j]
    BY <1>1, <1>4, <1>5, <1>7, PutOnIs
  <2> QED BY <1>2, <1>3, <1>6, <1>7, <2>1
<1>8. CASE verb # "T"
  BY <1>2, <1>3, <1>5, <1>6, <1>8
<1> QED BY <1>7, <1>8

LEMMA StoreTrimmed ==
    ASSUME StoreInv
    PROVE  /\ Unreachable(Store) \subseteq LiveIn(Store)
           /\ LiveIn(Trimmed(Store)) = LiveIn(Store) \ Unreachable(Store)
           /\ Trimmed(Store).used <= StorageLimit
           /\ \A k \in Unreachable(Store) : Trimmed(Store).images[k] = NoImage
<1> DEFINE s == Store
           D == Unreachable(s)
           t == Without(s, D)
<1>1. D \in SUBSET LiveIn(s) /\ Trimmed(Store) = t
  BY DEF Unreachable, Trimmed
<1>2. Well(s) /\ s.used = used
  BY StoreFacts
<1> HIDE DEF s, D
<1>3. /\ Well(t) /\ LiveIn(t) = LiveIn(s) \ D /\ t.used <= s.used
      /\ t.images = [i \in Internal |-> IF i \in D THEN NoImage ELSE s.images[i]]
  BY <1>1, <1>2, WithoutWell
<1>4. D \subseteq Internal
  BY <1>1, <1>2, WellParts
<1> HIDE DEF t
<1>5. t.used \in Nat /\ s.used \in Nat /\ StorageLimit \in Nat /\ s.used <= StorageLimit
  BY <1>2, <1>3, WellParts, StoreParts, ImageStoreAssumption DEF StoreInv
<1>6. t.used <= StorageLimit
  BY <1>3, <1>5
<1> QED BY <1>1, <1>3, <1>4, <1>6 DEF s, D

(* A store that has only lost what was trimmed.                            *)
LEMMA OnlyTrimmed ==
    ASSUME StoreInv, NEW t, Well(t), Become(t),
           LiveIn(Store) \ Unreachable(Store) \subseteq LiveIn(t)
    PROVE  GoesSound
  BY Became, OnlyUnreachableGo

LEMMA TrimmedIs ==
    ASSUME NEW s, Well(s)
    PROVE  /\ Unreachable(s) \in SUBSET LiveIn(s)
           /\ Well(Trimmed(s)) /\ LiveIn(Trimmed(s)) = LiveIn(s) \ Unreachable(s)
           /\ Trimmed(s).used = s.used - Sum(s, Unreachable(s)) /\ Trimmed(s).used <= s.used
<1> DEFINE D == Unreachable(s)
<1>1. D \in SUBSET LiveIn(s)
  BY DEF Unreachable
<1>2. Trimmed(s) = Without(s, D)
  BY DEF Trimmed
<1> HIDE DEF D
<1>3. /\ Well(Without(s, D)) /\ LiveIn(Without(s, D)) = LiveIn(s) \ D
      /\ Without(s, D).used = s.used - Sum(s, D) /\ Without(s, D).used <= s.used
  BY <1>1, WithoutWell
<1> QED BY <1>1, <1>2, <1>3 DEF D

(* A command that ends below the quota, trimming or not.                   *)
LEMMA BelowQuotaGoes ==
    ASSUME StoreInv, NEW s, Well(s), NEW verb, NEW i,
           (IF verb = "q" THEN Trimmed(s) ELSE s).used <= StorageLimit,
           LiveIn(Store) \ Unreachable(Store) \subseteq LiveIn(s),
           verb = "q" => \A k \in LiveIn(Store) \ Unreachable(Store) : k \notin Unreachable(s),
           Become(AfterCommand(s, verb, i))
    PROVE  GoesSound
<1> DEFINE t == IF verb = "q" THEN Trimmed(s) ELSE s
<1>1. Well(t) /\ t.used <= StorageLimit /\ LiveIn(Store) \ Unreachable(Store) \subseteq LiveIn(t)
  BY TrimmedIs
<1>2. AfterCommand(s, verb, i) = WithinQuota(t, i)
  BY DEF AfterCommand
<1> HIDE DEF t
<1>3. Become(t)
  BY <1>1, <1>2, NothingGoes
<1> QED BY <1>1, <1>3, OnlyTrimmed

(* A store in which a transmission to image i has begun.                   *)
Begun(t, i) ==
    /\ Well(t) /\ i \in LiveIn(t) /\ t.used <= StorageLimit
    /\ LiveIn(t) \ {i} = LiveIn(Store) \ (Unreachable(Store) \cup {i})
    /\ \A k \in Unreachable(Store) : t.images[k] = NoImage /\ k # i
    /\ \A k \in LiveIn(t) \ {i} : t.images[k] = images[k]
    /\ t.images[i].atime = clock + 1

LEMMA BegunGoes ==
    ASSUME StoreInv, NEW t, NEW i, Begun(t, i), NEW verb \in {"t", "T", "q"}, NEW size \in ImageSizes,
           NEW p \in PlacementIds \cup {0}, NEW outcome, Begin(t, i, verb, size, p, outcome),
           CanTouch, outcome = "ok" => t.images[i].last < MaxFrameIds,
           verb = "q" => t.images[i].id = 0 /\ t.images[i].refs = {} /\ i \notin LiveIn(Store)
    PROVE  GoesSound
<1> DEFINE U == Unreachable(Store)
           c == Complete(t, i, verb, size, p)
<1>1. size \in Nat /\ clock \in Nat /\ Well(Store) /\ Store.images = images /\ Aged(Store, clock)
      /\ LiveIn(Store) \subseteq Internal /\ (\A j \in Internal : images[j].atime \in Nat)
  <2>1. \A j \in Internal : Store.images[j].atime \in Nat
    BY StoreFacts, WellParts, StoreParts DEF Image
  <2> QED BY <2>1, StoreFacts, ImageStoreAssumption
<1>2. /\ Well(t) /\ i \in LiveIn(t) /\ t.used <= StorageLimit /\ i \in Internal
      /\ LiveIn(t) \ {i} = LiveIn(Store) \ (U \cup {i})
      /\ \A k \in U : t.images[k] = NoImage /\ k # i
      /\ \A k \in LiveIn(t) \ {i} : t.images[k] = images[k]
      /\ t.images[i].atime = clock + 1 /\ t \in StoreType /\ LiveIn(t) \subseteq Internal
  BY WellParts DEF Begun
<1>3. LiveIn(Store) \ U \subseteq LiveIn(t)
  BY <1>2
<1>4. U \subseteq LiveIn(Store)
  BY DEF Unreachable
<1>5. \A k \in LiveIn(Store) \ (U \cup {i}) : ~(~images[k].loaded \/ (images[k].id = 0 /\ images[k].refs = {}))
  <2> DEFINE s == Store
  <2>1. s.images = images
    BY <1>1
  <2> HIDE DEF s
  <2> QED BY <2>1 DEF Unreachable, s
<1> HIDE DEF U, c
<1>6. CASE outcome = "ok"
  <2>1. Become(AfterCommand(c, verb, i)) /\ clock' = clock + 1
    BY <1>6 DEF Begin, c
  <2>2. Well(c) /\ LiveIn(c) = LiveIn(t)
    BY <1>1, <1>2, <1>6, CompleteWell DEF c
  <2>3. /\ c.used = t.used + size
        /\ \A j \in Internal \ {i} : c.images[j] = t.images[j]
        /\ c.images[i].used = size /\ c.images[i].id = t.images[i].id
        /\ c.images[i].atime = clock + 1
        /\ verb # "T" => c.images[i].refs = t.images[i].refs
    BY <1>1, <1>2, <1>6, CompleteIs DEF c
  <2>4. CASE verb # "q"
    <3>1. Become(WithinQuota(c, i))
      BY <2>1, <2>4 DEF AfterCommand
    <3>2. i \in LiveIn(Store) => images[i].atime <= c.images[i].atime
      BY <1>1, <1>2, <2>3 DEF Aged
    <3>3. \A y \in LiveIn(c) \ {i} : c.images[y].atime < c.images[i].atime
      <4> SUFFICES ASSUME NEW y \in LiveIn(c) \ {i}
                   PROVE  c.images[y].atime < c.images[i].atime
        OBVIOUS
      <4>1. c.images[y] = images[y] /\ y \in Internal /\ images[y].atime <= clock
        BY <1>1, <1>2, <2>2, <2>3 DEF Aged
      <4> QED BY <1>1, <2>3, <4>1
    <3>4. \A k \in U : c.images[k] = NoImage /\ k # i
      BY <1>1, <1>2, <1>4, <2>3
    <3>5. \A k \in LiveIn(c) \ {i} : c.images[k] = images[k]
      BY <1>2, <2>2, <2>3
    <3>6. Transmitted(c, i, U)
      BY <1>2, <2>1, <2>2, <2>3, <3>2, <3>3, <3>4, <3>5 DEF Transmitted, U
    <3> QED BY <3>1, <3>6, TransmittedGo
  <2>5. CASE verb = "q"
    <3>1. i \in Unreachable(c)
      BY <1>2, <2>2, <2>3, <2>5 DEF Unreachable
    <3>2. Trimmed(c).used <= StorageLimit
      <4> DEFINE D == Unreachable(c)
      <4>1. Trimmed(c).used = c.used - Sum(c, D) /\ D \in SUBSET LiveIn(c) /\ {i} \in SUBSET D
        BY <2>2, <3>1, TrimmedIs
      <4> HIDE DEF D
      <4>2. IsFiniteSet(D) /\ Weights(UsedOf(c), D) /\ IsFiniteSet({i}) /\ Weights(UsedOf(c), {i})
            /\ D \in SUBSET Internal
        <5>1. D \in SUBSET Internal /\ {i} \in SUBSET Internal /\ c.images \in [Internal -> Image]
          BY <2>2, <4>1, WellParts, StoreParts
        <5> QED BY <5>1, ImagesAreFew, UsedAreWeights
      <4>3. Sum(c, {i}) = size
        <5>1. UsedOf(c)[i] = size
          BY <1>2, <2>3 DEF UsedOf
        <5>2. Amount(UsedOf(c), {i}) = UsedOf(c)[i] + Amount(UsedOf(c), {i} \ {i})
          BY <4>2, AmountSplit
        <5>3. Amount(UsedOf(c), {i} \ {i}) = 0
          BY AmountOfNone
        <5> QED BY <1>1, <5>1, <5>2, <5>3 DEF Sum
      <4>4. Sum(c, {i}) <= Sum(c, D)
        BY <4>1, <4>2, AmountGrows DEF Sum
      <4>5. Sum(c, D) \in Nat /\ t.used \in Nat /\ StorageLimit \in Nat
        BY <1>2, <2>2, <4>2, StoreParts, SumUsedIsSum, ImageStoreAssumption, WellParts
      <4> QED BY <1>1, <1>2, <2>3, <4>1, <4>3, <4>4, <4>5
    <3>3. \A k \in LiveIn(Store) \ U : k \notin Unreachable(c)
      <4> SUFFICES ASSUME NEW k \in LiveIn(Store) \ U
                   PROVE  k \notin Unreachable(c)
        OBVIOUS
      <4>1. k # i /\ k \in LiveIn(c) /\ k \in Internal /\ c.images[k] = images[k]
        BY <1>1, <1>2, <2>2, <2>3, <2>5
      <4> QED BY <1>5, <4>1 DEF Unreachable
    <3>4. LiveIn(Store) \ U \subseteq LiveIn(c)
      BY <1>3, <2>2
    <3> QED BY <2>1, <2>2, <2>5, <3>2, <3>3, <3>4, BelowQuotaGoes DEF U
  <2> QED BY <2>4, <2>5
<1>7. CASE outcome # "ok"
  <2>1. Become(AfterCommand(t, verb, 0))
    BY <1>7 DEF Begin
  <2>2. (IF verb = "q" THEN Trimmed(t) ELSE t).used <= StorageLimit
    <3>1. Trimmed(t).used <= t.used /\ Well(Trimmed(t))
      BY <1>2, TrimmedIs
    <3>2. Trimmed(t).used \in Nat /\ t.used \in Nat /\ StorageLimit \in Nat
      BY <1>2, <3>1, WellParts, StoreParts, ImageStoreAssumption
    <3>3. Trimmed(t).used <= StorageLimit
      BY <1>2, <3>1, <3>2
    <3> QED BY <1>2, <3>3
  <2>3. verb = "q" => \A k \in LiveIn(Store) \ U : k \notin Unreachable(t)
    <3> SUFFICES ASSUME verb = "q", NEW k \in LiveIn(Store) \ U
                 PROVE  k \notin Unreachable(t)
      OBVIOUS
    <3>1. k # i /\ t.images[k] = images[k]
      BY <1>2
    <3> QED BY <1>5, <3>1 DEF Unreachable
  <2> QED BY <1>2, <1>3, <2>1, <2>2, <2>3, BelowQuotaGoes DEF U
<1> QED BY <1>6, <1>7

LEMMA TransmitAgainGoes ==
    ASSUME StoreInv, NEW verb \in {"t", "T"}, NEW id, NEW size \in ImageSizes,
           NEW p \in PlacementIds \cup {0}, NEW medium, NEW outcome,
           TransmitAgain(verb, id, size, p, medium, outcome)
    PROVE  GoesSound
<1> DEFINE s == Trimmed(Store)
<1>1. PICK i \in Named(s, id) : /\ outcome = "ok" => CanAddFrame(i)
                                /\ Begin(SetImage(s, i, Restarted(s.images[i])), i, verb, size, p, outcome)
  BY DEF TransmitAgain
<1>2. /\ Well(s) /\ s \in StoreType /\ i \in LiveIn(s) /\ s.images[i] = images[i] /\ i \in Internal
      /\ \A j \in LiveIn(s) : s.images[j] = images[j] /\ j \in Internal
  BY TrimmedStore, WellParts DEF Named
<1>3. CanTouch /\ clock \in Nat
  BY StoreFacts DEF TransmitAgain
<1>4. /\ LiveIn(s) = LiveIn(Store) \ Unreachable(Store) /\ s.used <= StorageLimit
      /\ \A k \in Unreachable(Store) : s.images[k] = NoImage /\ k \in Internal
  BY StoreTrimmed, StoreFacts
<1> HIDE DEF s
<1> DEFINE g == Restarted(s.images[i])
           t == SetImage(s, i, g)
<1>5. /\ Well(t) /\ LiveIn(t) = LiveIn(s) /\ t.images[i] = g /\ g.last = images[i].last
      /\ g.atime = clock + 1 /\ g \in Image
  BY <1>2, <1>3, RestartedWell
<1>6. Begin(t, i, verb, size, p, outcome)
  BY <1>1
<1> HIDE DEF g
<1>7. t.used = s.used /\ \A j \in Internal \ {i} : t.images[j] = s.images[j]
  BY <1>2, <1>5, SetImageIs
<1> HIDE DEF t
<1>8. Begun(t, i)
  <2>1. \A k \in Unreachable(Store) : t.images[k] = NoImage /\ k # i
    BY <1>2, <1>4, <1>7
  <2> QED BY <1>2, <1>4, <1>5, <1>7, <2>1 DEF Begun
<1>9. outcome = "ok" => t.images[i].last < MaxFrameIds
  BY <1>1, <1>5 DEF CanAddFrame
<1> QED BY <1>3, <1>6, <1>8, <1>9, BegunGoes

LEMMA TransmitGoes ==
    ASSUME StoreInv, NEW verb \in {"t", "T", "q"}, NEW id \in Nat, NEW num \in Nat,
           NEW size \in ImageSizes, NEW p \in PlacementIds \cup {0}, NEW medium, NEW outcome,
           Transmit(verb, id, num, size, p, medium, outcome),
           verb = "q" => id = 0 /\ num = 0
    PROVE  GoesSound
<1> DEFINE s == Trimmed(Store)
           i == made + 1
           name == IF num # 0 THEN FreeId(s) ELSE id
           g == NewImage(name, num)
           t == SetImage(s, i, g)
<1>1. /\ Well(s) /\ s \in StoreType
      /\ \A j \in LiveIn(s) : s.images[j] = images[j] /\ j \in Internal
  BY TrimmedStore, WellParts
<1>2. /\ Begin(t, i, verb, size, p, outcome) /\ CanTouch /\ made < MaxImages
      /\ id # 0 => num = 0 /\ Named(s, id) = {}
  BY DEF Transmit
<1>3. /\ clock \in Nat /\ made \in 0..MaxImages /\ LiveIn(Store) \subseteq 1..made
      /\ MaxImages \in Nat /\ MaxFrameIds \in Nat /\ MaxFrameIds > 0
  BY ImageStoreAssumption DEF StoreInv
<1>4. /\ LiveIn(s) = LiveIn(Store) \ Unreachable(Store) /\ s.used <= StorageLimit
      /\ \A k \in Unreachable(Store) : s.images[k] = NoImage /\ k \in Internal /\ k \in LiveIn(Store)
  BY StoreTrimmed, StoreFacts
<1> HIDE DEF s
<1>5. i \in Internal /\ i \notin LiveIn(Store) /\ i \notin LiveIn(s)
  BY <1>2, <1>3, <1>4 DEF Internal
<1>6. name \in Nat /\ (name # 0 => Named(s, name) = {}) /\ (verb = "q" => name = 0)
  BY <1>2, FreeIdIsFree
<1> HIDE DEF name, i
<1>7. /\ Well(t) /\ LiveIn(t) = LiveIn(s) \cup {i} /\ t.images[i].last = 0
      /\ g \in Image /\ g.atime = clock + 1
  BY <1>1, <1>2, <1>3, <1>5, <1>6, NewImageWell
<1>8. g.id = name /\ g.refs = {}
  BY DEF NewImage, NoImage
<1> HIDE DEF g
<1>9. t.used = s.used /\ \A j \in Internal \ {i} : t.images[j] = s.images[j]
  BY <1>1, <1>5, <1>7, SetImageIs
<1>10. t.images[i] = g
  BY <1>1, <1>5, <1>7, SetImageThere
<1> HIDE DEF t
<1>11. Begun(t, i)
  <2>1. \A k \in Unreachable(Store) : t.images[k] = NoImage /\ k # i
    BY <1>4, <1>5, <1>9
  <2>2. \A k \in LiveIn(t) \ {i} : t.images[k] = images[k]
    BY <1>1, <1>7, <1>9
  <2>3. LiveIn(t) \ {i} = LiveIn(Store) \ (Unreachable(Store) \cup {i})
    BY <1>4, <1>5, <1>7
  <2> QED BY <1>4, <1>7, <1>9, <1>10, <2>1, <2>2, <2>3 DEF Begun
<1>12. verb = "q" => t.images[i].id = 0 /\ t.images[i].refs = {} /\ i \notin LiveIn(Store)
  BY <1>5, <1>6, <1>8, <1>10
<1> QED BY <1>2, <1>3, <1>7, <1>11, <1>12, BegunGoes

LEMMA ChunkGoes ==
    ASSUME StoreInv, NEW ok, Chunk(ok)
    PROVE  GoesSound
<1> DEFINE i == loading.for
<1>1. i \in Internal /\ loading.size \in Nat /\ loading.place \in PlacementIds \cup {0}
  BY LoadUnderWay DEF Chunk
<1>2. CASE i \in LiveIn(Store) /\ ok
  <2> DEFINE s == Store
             c == Complete(s, i, loading.verb, loading.size, loading.place)
  <2>1. /\ CanAddFrame(i) /\ (loading.verb = "T" => CanTouch) /\ Become(AfterCommand(c, "t", i))
        /\ clock' = IF loading.verb = "T" THEN clock + 1 ELSE clock
    BY <1>2 DEF Chunk
  <2>2. Well(s) /\ i \in LiveIn(s) /\ s.images = images /\ clock \in Nat /\ Aged(s, clock)
        /\ LiveIn(s) \subseteq Internal /\ (\A j \in Internal : s.images[j].atime \in Nat)
        /\ LiveIn(s) = LiveIn(Store)
    <3>1. \A j \in Internal : s.images[j].atime \in Nat
      BY StoreFacts, WellParts, StoreParts DEF Image
    <3> QED BY <1>2, <3>1, StoreFacts
  <2> HIDE DEF s
  <2>3. Well(c) /\ LiveIn(c) = LiveIn(s)
    BY <1>1, <2>1, <2>2, CompleteWell DEF CanAddFrame
  <2>4. /\ \A j \in Internal \ {i} : c.images[j] = s.images[j]
        /\ c.images[i].used = loading.size
        /\ c.images[i].atime = IF loading.verb = "T" THEN clock + 1 ELSE s.images[i].atime
    BY <1>1, <2>1, <2>2, CompleteIs DEF CanAddFrame
  <2>5. Become(WithinQuota(c, i))
    BY <2>1 DEF AfterCommand
  <2> HIDE DEF c
  <2>6. s.images[i].atime <= c.images[i].atime
    BY <1>1, <2>2, <2>4 DEF Aged
  <2>7. Transmitted(c, i, {})
    BY <1>1, <2>2, <2>3, <2>4, <2>6 DEF Transmitted
  <2> QED BY <2>5, <2>7, TransmittedGo
<1>3. CASE ~(i \in LiveIn(Store) /\ ok)
  <2>1. Become(Store)
    BY <1>3 DEF Chunk, Become, Store
  <2> QED BY <2>1, StoreFacts, OnlyTrimmed
<1> QED BY <1>2, <1>3

(* Frames make only images without placements go, and only for space.      *)
LEMMA FrameDoneGoes ==
    ASSUME StoreInv, NEW i \in LiveIn(Store), NEW edit \in Frames(images[i]) \cup {0},
           NEW size \in ImageSizes, edit = 0 => CanAddFrame(i),
           Become(FrameDone(Store, i, edit, size)), clock' = clock
    PROVE  GoesSound
<1> DEFINE s == Store
           t == FrameDone(s, i, edit, size)
<1>1. Well(s) /\ s.images = images /\ size \in Nat
  BY StoreFacts, ImageStoreAssumption
<1>2. Become(t) /\ i \in LiveIn(s) /\ s = Store
  OBVIOUS
<1> HIDE DEF s
<1>3. edit \notin Frames(s.images[i]) => s.images[i].last < MaxFrameIds
  BY <1>1 DEF CanAddFrame
<1>4. /\ Well(t) /\ LiveIn(s) \ LiveIn(t) \subseteq Unplaced(s)
      /\ FitsCache(s, size) => LiveIn(t) = LiveIn(s)
  BY <1>1, <1>2, <1>3, FrameDoneWell
<1> HIDE DEF t
<1>5. Gone \subseteq LiveIn(s) \ LiveIn(t)
  BY <1>2, <1>4, Became
<1>6. Gone # {} => ~FitsCache(s, size)
  BY <1>4, <1>5
<1>7. Gone \ Unreachable(Store) # {} => ForSpace
  BY <1>2, <1>6 DEF ForSpace
<1> QED BY <1>2, <1>4, <1>5, <1>7, OnlyUnplacedGo

LEMMA NothingGone ==
    ASSUME StoreInv, images' = images
    PROVE  GoesSound
<1>1. Gone = {}
  <2>1. NoImage.atime = 0
    BY DEF NoImage
  <2> QED BY <2>1, StoreFacts DEF Gone, LiveIn
<1> QED BY <1>1, OnlyUnreachableGo

LEMMA StartFrameGoes ==
    ASSUME StoreInv, NEW i \in Internal, NEW edit, NEW size \in ImageSizes, NEW medium, NEW outcome,
           StartFrame(i, edit, size, medium, outcome)
    PROVE  GoesSound
<1>1. i \in LiveIn(Store) /\ clock' = clock
  BY DEF StartFrame, FrameTarget
<1>2. CASE outcome = "ok"
  BY <1>1, <1>2, FrameDoneGoes DEF StartFrame
<1>3. CASE outcome # "ok"
  BY <1>3, NothingGone DEF StartFrame
<1> QED BY <1>2, <1>3

LEMMA FrameChunkGoes ==
    ASSUME StoreInv, NEW i \in Internal, NEW edit, NEW ok, FrameChunk(i, edit, ok)
    PROVE  GoesSound
<1>1. i \in LiveIn(Store) /\ clock' = clock
  BY DEF FrameChunk, FrameTarget
<1>2. loading.size \in ImageSizes
  BY LoadUnderWay DEF FrameChunk
<1>3. CASE ok
  <2> DEFINE size == loading.size
  <2>1. Become(FrameDone(Store, i, edit, size)) /\ size \in ImageSizes
    BY <1>2, <1>3 DEF FrameChunk
  <2> HIDE DEF size
  <2> QED BY <1>1, <2>1, FrameDoneGoes DEF FrameChunk
<1>4. CASE ~ok
  BY <1>4, NothingGone DEF FrameChunk
<1> QED BY <1>3, <1>4

LEMMA PutGoes ==
    ASSUME StoreInv, NEW i \in Internal, NEW p \in PlacementIds \cup {0}, Put(i, p)
    PROVE  GoesSound
<1> DEFINE s == Store
           t == PutOn(s, i, p)
<1>1. Well(s) /\ s.images = images /\ clock \in Nat /\ s = Store
  BY StoreFacts
<1>2. s.images[i].loaded /\ Become(t) /\ CanTouch
  BY <1>1 DEF Put
<1> HIDE DEF s
<1>3. Well(t) /\ LiveIn(t) = LiveIn(s)
  BY <1>1, <1>2, PutOnWell
<1> HIDE DEF t
<1> QED BY <1>1, <1>2, <1>3, OnlyTrimmed

LEMMA StepGoes ==
    ASSUME StoreInv, IsNext, clock' # clock \/ loading' # loading
    PROVE  GoesSound
<1>1. ASSUME NEW verb \in {"t", "T"}, NEW id \in ClientIds, NEW size \in ImageSizes,
             NEW p \in PlacementIds \cup {0}, NEW medium \in Media, NEW outcome \in Outcomes,
             TransmitAgain(verb, id, size, p, medium, outcome)
      PROVE  GoesSound
  BY <1>1, TransmitAgainGoes
<1>2. ASSUME NEW verb \in {"t", "T"}, NEW id \in ClientIds \cup {0}, NEW num \in Numbers \cup {0},
             NEW size \in ImageSizes, NEW p \in PlacementIds \cup {0}, NEW medium \in Media,
             NEW outcome \in Outcomes,
             Transmit(verb, id, num, size, p, medium, outcome)
      PROVE  GoesSound
  <2>1. id \in Nat /\ num \in Nat
    BY <1>2, ImageStoreAssumption
  <2> QED BY <1>2, <2>1, TransmitGoes
<1>3. ASSUME NEW size \in ImageSizes, NEW medium \in Media, NEW outcome \in Outcomes,
             Transmit("q", 0, 0, size, 0, medium, outcome)
      PROVE  GoesSound
  BY <1>3, TransmitGoes
<1>4. ASSUME NEW ok \in BOOLEAN, Chunk(ok)
      PROVE  GoesSound
  BY <1>4, ChunkGoes
<1>5. ASSUME NEW i \in Internal, NEW edit \in 0..MaxFrameIds, NEW size \in ImageSizes,
             NEW medium \in Media, NEW outcome \in Outcomes, StartFrame(i, edit, size, medium, outcome)
      PROVE  GoesSound
  BY <1>5, StartFrameGoes
<1>6. ASSUME NEW i \in Internal, NEW edit \in 0..MaxFrameIds, NEW ok \in BOOLEAN, FrameChunk(i, edit, ok)
      PROVE  GoesSound
  BY <1>6, FrameChunkGoes
<1>7. ASSUME NEW i \in Internal, NEW p \in PlacementIds \cup {0}, Put(i, p)
      PROVE  GoesSound
  BY <1>7, PutGoes
<1>8. ASSUME UNCHANGED <<loading, made, clock>>
      PROVE  GoesSound
  BY <1>8
<1>9. ASSUME NEW i \in Internal, NEW dest \in 1..MaxFrameIds, Compose(i, dest)
      PROVE  GoesSound
  BY <1>8, <1>9 DEF Compose
<1>10. ASSUME NEW i \in Internal, NEW f \in 0..MaxFrameIds, NEW byid \in BOOLEAN, NEW free \in BOOLEAN,
              DeleteFrame(i, f, byid, free)
       PROVE  GoesSound
  BY <1>8, <1>10 DEF DeleteFrame
<1>11. ASSUME NEW M \in SUBSET Refs, (\E free \in BOOLEAN : DeletePlacements(M, free)) \/ Scroll(M)
       PROVE  GoesSound
  BY <1>8, <1>11 DEF DeletePlacements, Scroll
<1>12. ASSUME NEW p \in PlacementIds \cup {0}, NEW free \in BOOLEAN,
              (\E id \in ClientIds : DeleteById(id, p, free)) \/ (\E num \in Numbers : DeleteByNumber(num, p, free))
       PROVE  GoesSound
  BY <1>8, <1>12 DEF DeleteById, DeleteByNumber
<1> QED BY <1>1, <1>2, <1>3, <1>4, <1>5, <1>6, <1>7, <1>9, <1>10, <1>11, <1>12 DEF IsNext

(* A transmission makes an image that can still be used go only for want   *)
(* of space, and takes those without placements, then the oldest: what     *)
(* apply_storage_quota() promises, for every quota, every size of images   *)
(* and every history of placements.                                        *)
THEOREM QuotaTakesTheOldest == IsSpec => GoesOnlyForSpace
<1>1. IsInit => StoreInv
  BY InitSound
<1>2. StoreInv /\ [IsNext]_isvars => StoreInv'
  BY StepSound
<1>3. StoreInv /\ [IsNext]_isvars
        => [clock' # clock \/ loading' # loading =>
                /\ Gone \ Unreachable(Store) # {} => ForSpace
                /\ UnplacedFirst
                /\ OldestFirst]_isvars
  BY StepGoes DEF GoesSound
<1> QED BY <1>1, <1>2, <1>3, PTL DEF IsSpec, GoesOnlyForSpace
-----------------------------------------------------------------------------
(* The animation of one image.                                             *)

(* What RemoveAt() leaves of a sequence.                                   *)
LEMMA RemoveAtShape ==
    ASSUME NEW S, NEW s \in Seq(S), NEW n \in 1..Len(s)
    PROVE  /\ RemoveAt(s, n) \in Seq(S)
           /\ Len(RemoveAt(s, n)) = Len(s) - 1
<1> DEFINE a == SubSeq(s, 1, n - 1)
           b == SubSeq(s, n + 1, Len(s))
<1>1. a \in Seq(S) /\ Len(a) = n - 1
  OBVIOUS
<1>2. b \in Seq(S) /\ Len(b) = Len(s) - n
  OBVIOUS
<1>3. a \o b \in Seq(S) /\ Len(a \o b) = Len(a) + Len(b)
  BY <1>1, <1>2
<1>4. RemoveAt(s, n) = a \o b
  BY DEF RemoveAt
<1>5. Len(s) \in Nat /\ n \in Int
  OBVIOUS
<1> HIDE DEF a, b
<1>6. Len(a \o b) = Len(s) - 1
  BY <1>1, <1>2, <1>3, <1>5
<1> QED BY <1>3, <1>4, <1>6, Zenon
-----------------------------------------------------------------------------
Pic == [id : 1..MaxIds, gap : Gaps \cup {0}]

(* A scan is run only for an image that is looked at.                      *)
ScanWatched == scanning => watched

(* The inductive invariant: watched is not lost between the beginning of a *)
(* scan and its end.                                                       *)
IInv == AnimationSound /\ ScanWatched

(* The types of the variables, one by one.                                 *)
LEMMA Types ==
    ASSUME AnTypeOK
    PROVE  /\ frames \in Seq(Pic) /\ ids \in 1..MaxIds /\ shown \in 1..MaxIds
           /\ duration \in Nat /\ loop \in Nat
           /\ placed \in BOOLEAN /\ isdrawn \in BOOLEAN /\ watched \in BOOLEAN
           /\ scanning \in BOOLEAN /\ stale \in BOOLEAN /\ resent \in BOOLEAN
           /\ late \in BOOLEAN
BY DEF AnTypeOK, Pic

(* Arithmetic that stays within the naturals.                              *)
LEMMA MinusNat == ASSUME NEW a \in Nat, NEW b \in Nat PROVE Minus(a, b) \in Nat
BY DEF Minus

LEMMA CountedNat == ASSUME NEW n \in Nat PROVE Counted(n) \in Nat
BY DEF Counted

(* The next frame is one of the frames.                                    *)
LEMMA NextIsFrame ==
    ASSUME NEW n \in Nat \ {0}, NEW c \in 0..(n - 1)
    PROVE  (c + 1) % n \in 0..(n - 1)
OBVIOUS

(* A frame has an id and a gap.                                            *)
LEMMA FrameTyped ==
    ASSUME AnimationAssumption, AnTypeOK, NEW n \in 1..Len(frames)
    PROVE  frames[n].id \in 1..MaxIds /\ frames[n].gap \in Nat
<1>1. frames[n] \in Pic
  BY Types
<1>2. Gaps \cup {0} \subseteq Nat
  BY DEF AnimationAssumption
<1>3. frames[n].id \in 1..MaxIds /\ frames[n].gap \in Gaps \cup {0}
  BY <1>1 DEF Pic
<1> QED BY <1>2, <1>3

LEMMA InitHolds == ASSUME AnimationAssumption, AnInit PROVE IInv
<1> USE DEF AnInit, AnimationAssumption
<1>1. frames \in Seq(Pic) /\ Len(frames) = 1 /\ frames[1] = Frame(1, 0)
  BY DEF Frame, Pic
<1>a. MaxIds \in Nat \ {0}
  OBVIOUS
<1>b. {placed, isdrawn, watched, scanning, stale, resent, late} \subseteq BOOLEAN
  BY Zenon
<1>2. AnTypeOK
  BY <1>1, <1>a, <1>b DEF AnTypeOK, Pic
<1>3. CurrentFrameExists /\ ShownIsCurrent
  BY <1>1 DEF CurrentFrameExists, Extra, ShownIsCurrent, CurrentFrame, Frame
<1>4. AnimatableIsWatched /\ ScanWatched
  BY DEF AnimatableIsWatched, Animatable, MayMove, ScanWatched
<1> QED BY <1>2, <1>3, <1>4 DEF IInv, AnimationSound
-----------------------------------------------------------------------------
(* Commands.                                                               *)

(* The flags keep their type.                                              *)
Flags == /\ placed \in BOOLEAN /\ isdrawn \in BOOLEAN /\ watched \in BOOLEAN
         /\ scanning \in BOOLEAN /\ stale \in BOOLEAN /\ resent \in BOOLEAN
         /\ late \in BOOLEAN

Data == /\ frames \in Seq(Pic) /\ ids \in 1..MaxIds /\ shown \in 1..MaxIds
        /\ duration \in Nat /\ loop \in Nat
        /\ maxloops \in Loops \cup {0}
        /\ state \in {"stopped", "loading", "running"}

LEMMA TypeParts == AnTypeOK <=> Data /\ Flags
<1>1. {placed, isdrawn, watched, scanning, stale, resent, late} \subseteq BOOLEAN <=> Flags
  BY Zenon DEF Flags
<1> QED BY <1>1 DEF AnTypeOK, Data, Pic

LEMMA NewFrameStep ==
    ASSUME AnimationAssumption, IInv, NEW gap \in Gaps, NewFrame(gap)
    PROVE  IInv'
<1> USE DEF NewFrame, Elsewhere
<1>0. Data /\ Flags /\ gap \in Nat /\ CurrentFrameExists /\ ShownIsCurrent
  BY TypeParts DEF IInv, AnimationSound, AnimationAssumption
<1>1. Frame(ids + 1, gap) \in Pic
  BY <1>0 DEF Frame, Pic, Data, AnimationAssumption
<1>2. /\ frames' \in Seq(Pic) /\ Len(frames') = Len(frames) + 1
      /\ \A k \in 1..Len(frames) : frames'[k] = frames[k]
  BY <1>0, <1>1 DEF Data
<1>3. Data'
  BY <1>0, <1>1, <1>2 DEF Data, AnimationAssumption
<1>4. Flags'
  BY <1>0, Zenon DEF Flags
<1>5. CurrentFrameExists' /\ CurrentFrame' = CurrentFrame
  BY <1>0, <1>2 DEF CurrentFrameExists, Extra, CurrentFrame, Data
<1>6. ShownIsCurrent'
  BY <1>0, <1>5 DEF ShownIsCurrent
<1>7. AnimatableIsWatched'
  <2>1. Extra' = Extra + 1
    BY <1>0, <1>2 DEF Extra, Data
  <2> QED BY <2>1, Zenon DEF AnimatableIsWatched, Animatable, MayMove
<1>8. ScanWatched'
  BY DEF ScanWatched
<1> QED BY <1>3, <1>4, <1>5, <1>6, <1>7, <1>8, TypeParts, PTL DEF IInv, AnimationSound

LEMMA ChangeGapStep ==
    ASSUME AnimationAssumption, IInv, NEW n \in 1..MaxFrames, NEW gap \in Gaps,
           ChangeGap(n, gap)
    PROVE  IInv'
<1> USE DEF ChangeGap, Elsewhere
<1>0. Data /\ Flags /\ CurrentFrameExists /\ ShownIsCurrent /\ AnimatableIsWatched /\ ScanWatched
  BY TypeParts DEF IInv, AnimationSound
<1>a. gap \in Nat /\ frames[n] \in Pic /\ frames[n].gap \in Nat
  BY <1>0, TypeParts, FrameTyped DEF Data, AnimationAssumption
<1>1. /\ frames' \in Seq(Pic) /\ Len(frames') = Len(frames)
      /\ \A k \in 1..Len(frames) : frames'[k].id = frames[k].id
  <2>1. [frames[n] EXCEPT !.gap = gap] \in Pic
    BY <1>a DEF Pic
  <2>2. \A k \in 1..Len(frames) : frames[k] \in Pic
    BY <1>0 DEF Data
  <2> QED BY <1>0, <2>1, <2>2 DEF Data, Pic
<1>2. duration' \in Nat
  BY <1>0, <1>a, MinusNat DEF Data
<1>3. Data'
  BY <1>0, <1>1, <1>2 DEF Data
<1>4. Flags'
  BY <1>0, Zenon DEF Flags
<1>5. CurrentFrameExists' /\ CurrentFrame'.id = CurrentFrame.id
  BY <1>0, <1>1 DEF CurrentFrameExists, Extra, CurrentFrame, Data
<1>6. ShownIsCurrent'
  BY <1>0, <1>5 DEF ShownIsCurrent
<1>7. AnimatableIsWatched'
  <2>1. Extra' = Extra
    BY <1>1 DEF Extra
  <2> QED BY <2>1, Zenon DEF AnimatableIsWatched, Animatable, MayMove
<1>8. ScanWatched'
  BY <1>0 DEF ScanWatched
<1> QED BY <1>3, <1>4, <1>5, <1>6, <1>7, <1>8, TypeParts, PTL DEF IInv, AnimationSound

LEMMA SetCurrentStep ==
    ASSUME AnimationAssumption, IInv, NEW n \in 0..MaxFrames, SetCurrent(n)
    PROVE  IInv'
<1> USE DEF SetCurrent, Elsewhere, Show
<1>0. Data /\ Flags /\ CurrentFrameExists /\ ShownIsCurrent /\ AnimatableIsWatched /\ ScanWatched
  BY TypeParts DEF IInv, AnimationSound
<1>1. n + 1 \in 1..Len(frames) /\ frames[n + 1].id \in 1..MaxIds
  BY <1>0, TypeParts, FrameTyped DEF Data, Extra, CurrentFrameExists
<1>2. Data'
  BY <1>0, <1>1 DEF Data
<1>3. Flags'
  BY <1>0, Zenon DEF Flags
<1>4. CurrentFrameExists' /\ ShownIsCurrent'
  BY DEF CurrentFrameExists, Extra, ShownIsCurrent, CurrentFrame
<1>5. AnimatableIsWatched' /\ ScanWatched'
  BY <1>0, Zenon DEF AnimatableIsWatched, Animatable, MayMove, ScanWatched, Extra
<1> QED BY <1>2, <1>3, <1>4, <1>5, TypeParts, PTL DEF IInv, AnimationSound

LEMMA SetStateStep ==
    ASSUME AnimationAssumption, IInv, NEW s \in {"stopped", "loading", "running"},
           SetState(s)
    PROVE  IInv'
<1> USE DEF SetState, Elsewhere
<1>0. Data /\ Flags /\ CurrentFrameExists /\ ShownIsCurrent /\ AnimatableIsWatched /\ ScanWatched
  BY TypeParts DEF IInv, AnimationSound
<1>1. Data'
  BY <1>0 DEF Data
<1>2. Flags'
  BY <1>0, Zenon DEF Flags
<1>3. CurrentFrameExists' /\ ShownIsCurrent'
  BY <1>0 DEF CurrentFrameExists, Extra, ShownIsCurrent, CurrentFrame
<1>4. AnimatableIsWatched' /\ ScanWatched'
  BY <1>0, Zenon DEF AnimatableIsWatched, Animatable, MayMove, ScanWatched
<1> QED BY <1>1, <1>2, <1>3, <1>4, TypeParts, PTL DEF IInv, AnimationSound

LEMMA SetLoopsStep ==
    ASSUME AnimationAssumption, IInv, NEW n \in Loops, SetLoops(n)
    PROVE  IInv'
<1> USE DEF SetLoops, Elsewhere
<1>0. Data /\ Flags /\ CurrentFrameExists /\ ShownIsCurrent /\ AnimatableIsWatched /\ ScanWatched
  BY TypeParts DEF IInv, AnimationSound
<1>1. Data'
  BY <1>0 DEF Data
<1>2. Flags'
  BY <1>0, Zenon DEF Flags
<1>3. CurrentFrameExists' /\ ShownIsCurrent'
  BY <1>0 DEF CurrentFrameExists, Extra, ShownIsCurrent, CurrentFrame
<1>4. AnimatableIsWatched' /\ ScanWatched'
  BY <1>0, Zenon DEF AnimatableIsWatched, Animatable, MayMove, ScanWatched
<1> QED BY <1>1, <1>2, <1>3, <1>4, TypeParts, PTL DEF IInv, AnimationSound

LEMMA ResendStep ==
    ASSUME AnimationAssumption, IInv, Resend
    PROVE  IInv'
<1> USE DEF Resend
<1>0. Data /\ Flags /\ CurrentFrameExists /\ ShownIsCurrent /\ AnimatableIsWatched /\ ScanWatched
  BY TypeParts DEF IInv, AnimationSound
<1>1. Frame(ids + 1, 0) \in Pic /\ Len(frames) \in Nat \ {0}
  BY <1>0 DEF Frame, Pic, Data, CurrentFrameExists, Extra
<1>2. /\ frames' \in Seq(Pic) /\ Len(frames') = Len(frames)
      /\ frames'[1].id = ids + 1
  BY <1>0, <1>1 DEF Data, Frame
<1>3. Data'
  BY <1>0, <1>2 DEF Data
<1>4. Flags'
  BY <1>0, Zenon DEF Flags
<1>5. CurrentFrameExists'
  BY <1>0, <1>2 DEF CurrentFrameExists, Extra
<1>6. ShownIsCurrent'
  <2>1. CASE current = 0
    BY <2>1, <1>2 DEF ShownIsCurrent, CurrentFrame
  <2>2. CASE current # 0
    BY <2>2, Zenon DEF ShownIsCurrent
  <2> QED BY <2>1, <2>2
<1>7. AnimatableIsWatched' /\ ScanWatched'
  BY <1>0, Zenon DEF AnimatableIsWatched, Animatable, MayMove, ScanWatched
<1> QED BY <1>3, <1>4, <1>5, <1>6, <1>7, TypeParts, PTL DEF IInv, AnimationSound

LEMMA PlaceStep ==
    ASSUME AnimationAssumption, IInv, NEW on \in BOOLEAN, Place(on)
    PROVE  IInv'
<1> USE DEF Place
<1>0. Data /\ Flags /\ CurrentFrameExists /\ ShownIsCurrent /\ AnimatableIsWatched /\ ScanWatched
  BY TypeParts DEF IInv, AnimationSound
<1>1. Data'
  BY <1>0 DEF Data
<1>2. Flags'
  BY <1>0, Zenon DEF Flags
<1>3. CurrentFrameExists' /\ ShownIsCurrent'
  BY <1>0 DEF CurrentFrameExists, Extra, ShownIsCurrent, CurrentFrame
<1>4. AnimatableIsWatched' /\ ScanWatched'
  BY <1>0, Zenon DEF AnimatableIsWatched, Animatable, MayMove, ScanWatched, Extra
<1> QED BY <1>1, <1>2, <1>3, <1>4, TypeParts, PTL DEF IInv, AnimationSound

(* The three cases of a deletion: the index is past the end, it is that of *)
(* the deleted frame in extra_frames, or it is another.                    *)
LEMMA DeleteFrameStep ==
    ASSUME AnimationAssumption, IInv, NEW n \in 0..MaxFrames, DeleteFrameAt(n)
    PROVE  IInv'
<1> DEFINE idx == IF n = 1 THEN 0 ELSE n - 2
           left == RemoveAt(frames, n)
<1> USE DEF Elsewhere
<1>0. Data /\ Flags /\ CurrentFrameExists /\ ShownIsCurrent /\ AnimatableIsWatched /\ ScanWatched
  BY TypeParts DEF IInv, AnimationSound
<1>1. /\ Extra > 0 /\ n \in 1..Len(frames) /\ ~scanning
      /\ frames' = left /\ duration' = Minus(duration, frames[n].gap)
      /\ UNCHANGED <<ids, state, maxloops, loop, isdrawn, watched, late, placed, scanning, resent>>
  BY DEF DeleteFrameAt
<1>2. IF current > Extra - 1
      THEN current' = Extra - 1 /\ Show(left[Extra].id)
      ELSE IF idx = current
      THEN UNCHANGED current /\ Show(left[current + 1].id)
      ELSE /\ current' = IF idx < current THEN current - 1 ELSE current
           /\ stale' = (stale \/ left[current' + 1] # CurrentFrame)
           /\ UNCHANGED shown
  BY DEF DeleteFrameAt
<1>3. left \in Seq(Pic) /\ Len(left) = Len(frames) - 1
  BY <1>0, <1>1, RemoveAtShape DEF Data
<1>4. frames[n].gap \in Nat
  BY <1>0, <1>1, TypeParts, FrameTyped
<1>5. duration' \in Nat /\ (duration' > 0 => duration > 0)
  BY <1>0, <1>1, <1>4 DEF Data, Minus
<1>6. Extra \in Nat /\ Extra' = Extra - 1 /\ Len(left) = Extra /\ current \in 0..Extra
  BY <1>0, <1>1, <1>3 DEF Extra, CurrentFrameExists, Data
<1>8. idx \in Nat /\ idx <= Extra - 1
  BY <1>1 DEF Extra
<1> HIDE DEF left, idx
<1>7. \A k \in 1..Extra : left[k].id \in 1..MaxIds
  <2>1. \A k \in 1..Extra : left[k] \in Pic
    BY <1>3, <1>6
  <2> QED BY <2>1 DEF Pic
<1>9. /\ current' \in 0..(Extra - 1) /\ shown' \in 1..MaxIds /\ stale' \in BOOLEAN
      /\ shown' = left[current' + 1].id \/ stale'
  <2>1. CASE current > Extra - 1
    <3>1. current' = Extra - 1 /\ shown' = left[Extra].id /\ stale' = FALSE
      BY <2>1, <1>2 DEF Show
    <3>2. current' + 1 = Extra /\ current' \in 0..(Extra - 1) /\ Extra \in 1..Extra
      BY <3>1, <1>1, <1>6
    <3>3. stale' \in BOOLEAN
      BY <3>1
    <3> QED BY <3>1, <3>2, <3>3, <1>7, Zenon
  <2>2. CASE ~(current > Extra - 1) /\ idx = current
    <3>1. current' = current /\ shown' = left[current + 1].id /\ stale' = FALSE
      BY <2>2, <1>2 DEF Show
    <3>2. current \in 0..(Extra - 1) /\ current + 1 \in 1..Extra
      BY <2>2, <1>6
    <3> QED BY <3>1, <3>2, <1>7
  <2>3. CASE ~(current > Extra - 1) /\ idx # current
    <3>1. current' \in 0..(Extra - 1)
      BY <2>3, <1>2, <1>6, <1>8
    <3>2. stale' = (stale \/ left[current' + 1] # CurrentFrame) /\ shown' = shown
      BY <2>3, <1>2
    <3>3. shown \in 1..MaxIds /\ (shown = CurrentFrame.id \/ stale)
      BY <1>0, <1>1 DEF Data, ShownIsCurrent
    <3>4. stale' \in BOOLEAN
      BY <3>2, <1>0, Zenon DEF Flags
    <3>5. shown' = left[current' + 1].id \/ stale'
      BY <3>2, <3>3, Zenon
    <3> QED BY <3>1, <3>2, <3>3, <3>4, <3>5
  <2> QED BY <2>1, <2>2, <2>3
<1>10. Data'
  BY <1>0, <1>1, <1>3, <1>5, <1>9 DEF Data
<1>11. Flags'
  BY <1>0, <1>1, <1>9, Zenon DEF Flags
<1>12. CurrentFrameExists' /\ ShownIsCurrent'
  BY <1>1, <1>6, <1>9 DEF CurrentFrameExists, ShownIsCurrent, CurrentFrame
<1>13. AnimatableIsWatched'
  <2>1. Extra' > 0 => Extra > 0
    BY <1>6
  <2> QED BY <2>1, <1>0, <1>1, <1>5, Zenon DEF AnimatableIsWatched, Animatable, MayMove
<1>14. ScanWatched'
  BY <1>1 DEF ScanWatched
<1> QED BY <1>10, <1>11, <1>12, <1>13, <1>14, TypeParts, PTL DEF IInv, AnimationSound
-----------------------------------------------------------------------------
(* The main loop.                                                          *)

LEMMA RenderStep ==
    ASSUME AnimationAssumption, IInv, Render
    PROVE  IInv'
<1> USE DEF Render
<1>0. Data /\ Flags /\ CurrentFrameExists /\ ShownIsCurrent /\ AnimatableIsWatched /\ ScanWatched
  BY TypeParts DEF IInv, AnimationSound
<1>1. Data'
  BY <1>0 DEF Data
<1>2. Flags'
  BY <1>0, Zenon DEF Flags
<1>3. CurrentFrameExists' /\ ShownIsCurrent'
  BY <1>0 DEF CurrentFrameExists, Extra, ShownIsCurrent, CurrentFrame
<1>4. AnimatableIsWatched' /\ ScanWatched'
  BY <1>0, Zenon DEF AnimatableIsWatched, Animatable, MayMove, ScanWatched, Extra
<1> QED BY <1>1, <1>2, <1>3, <1>4, TypeParts, PTL DEF IInv, AnimationSound

LEMMA ScanStep ==
    ASSUME AnimationAssumption, IInv, NEW due \in BOOLEAN, Scan(due)
    PROVE  IInv'
<1> USE DEF Scan
<1>0. Data /\ Flags /\ CurrentFrameExists /\ ShownIsCurrent /\ AnimatableIsWatched /\ ScanWatched
  BY TypeParts DEF IInv, AnimationSound
<1>1. Data'
  BY <1>0 DEF Data
<1>2. Flags'
  BY <1>0, Zenon DEF Flags, Animatable, MayMove
<1>3. CurrentFrameExists' /\ ShownIsCurrent'
  BY <1>0 DEF CurrentFrameExists, Extra, ShownIsCurrent, CurrentFrame
<1>4. AnimatableIsWatched' /\ ScanWatched'
  BY <1>0, Zenon DEF AnimatableIsWatched, Animatable, MayMove, ScanWatched, Extra
<1> QED BY <1>1, <1>2, <1>3, <1>4, TypeParts, PTL DEF IInv, AnimationSound

LEMMA StayAtEndStep ==
    ASSUME AnimationAssumption, IInv, StayAtEnd
    PROVE  IInv'
<1> USE DEF StayAtEnd
<1>0. Data /\ Flags /\ CurrentFrameExists /\ ShownIsCurrent /\ AnimatableIsWatched /\ ScanWatched
  BY TypeParts DEF IInv, AnimationSound
<1>1. Data'
  BY <1>0, CountedNat DEF Data
<1>2. Flags'
  BY <1>0, Zenon DEF Flags
<1>3. CurrentFrameExists'
  BY <1>0 DEF CurrentFrameExists, Extra
<1>4. ShownIsCurrent'
  BY Zenon DEF ShownIsCurrent, CurrentFrame
<1>5. AnimatableIsWatched' /\ ScanWatched'
  BY <1>0, Zenon DEF AnimatableIsWatched, ScanWatched
<1> QED BY <1>1, <1>2, <1>3, <1>4, <1>5, TypeParts, PTL DEF IInv, AnimationSound

LEMMA GoOnStep ==
    ASSUME AnimationAssumption, IInv, GoOn
    PROVE  IInv'
<1> USE DEF GoOn
<1>0. Data /\ Flags /\ CurrentFrameExists /\ ShownIsCurrent /\ AnimatableIsWatched /\ ScanWatched
  BY TypeParts DEF IInv, AnimationSound
<1>1. Next1 \in 0..Extra
  BY <1>0, NextIsFrame DEF Data, Next1, Extra, CurrentFrameExists
<1>2. Next1 + 1 \in 1..Len(frames) /\ frames[Next1 + 1].id \in 1..MaxIds
  BY <1>0, <1>1, TypeParts, FrameTyped DEF Data, Extra
<1>3. Data'
  BY <1>0, <1>2, CountedNat DEF Data, Show
<1>4. Flags'
  BY <1>0, Zenon DEF Flags, Show
<1>5. CurrentFrameExists'
  BY <1>1 DEF CurrentFrameExists, Extra
<1>6. ShownIsCurrent'
  <2>1. CASE frames[Next1 + 1].gap > 0
    BY <2>1 DEF ShownIsCurrent, CurrentFrame, Show
  <2>2. CASE ~(frames[Next1 + 1].gap > 0)
    BY <2>2, Zenon DEF ShownIsCurrent
  <2> QED BY <2>1, <2>2
<1>7. AnimatableIsWatched' /\ ScanWatched'
  BY <1>0, Zenon DEF AnimatableIsWatched, ScanWatched
<1> QED BY <1>3, <1>4, <1>5, <1>6, <1>7, TypeParts, PTL DEF IInv, AnimationSound
-----------------------------------------------------------------------------
LEMMA StepHolds ==
    ASSUME AnimationAssumption, IInv, [AnNext]_anvars
    PROVE  IInv'
<1>1. ASSUME NEW gap \in Gaps, NewFrame(gap) PROVE IInv'
  BY <1>1, NewFrameStep
<1>2. ASSUME NEW gap \in Gaps, NEW n \in 1..MaxFrames, ChangeGap(n, gap) PROVE IInv'
  BY <1>2, ChangeGapStep
<1>3. ASSUME NEW n \in 0..MaxFrames, SetCurrent(n) \/ DeleteFrameAt(n) PROVE IInv'
  BY <1>3, SetCurrentStep, DeleteFrameStep
<1>4. ASSUME NEW s \in {"stopped", "loading", "running"}, SetState(s) PROVE IInv'
  BY <1>4, SetStateStep
<1>5. ASSUME NEW n \in Loops, SetLoops(n) PROVE IInv'
  BY <1>5, SetLoopsStep
<1>6. ASSUME NEW on \in BOOLEAN, Place(on) \/ Scan(on) PROVE IInv'
  BY <1>6, PlaceStep, ScanStep
<1>7. ASSUME Resend \/ Render \/ StayAtEnd \/ GoOn PROVE IInv'
  BY <1>7, ResendStep, RenderStep, StayAtEndStep, GoOnStep
<1>8. ASSUME UNCHANGED anvars PROVE IInv'
  <2> USE <1>8 DEF anvars
  <2>0. Data /\ Flags /\ CurrentFrameExists /\ ShownIsCurrent /\ AnimatableIsWatched /\ ScanWatched
    BY TypeParts DEF IInv, AnimationSound
  <2>1. Data' /\ Flags'
    BY <2>0 DEF Data, Flags
  <2>2. CurrentFrameExists' /\ ShownIsCurrent'
    BY <2>0 DEF CurrentFrameExists, Extra, ShownIsCurrent, CurrentFrame
  <2>3. AnimatableIsWatched' /\ ScanWatched'
    BY <2>0 DEF AnimatableIsWatched, Animatable, MayMove, ScanWatched, Extra
  <2> QED BY <2>1, <2>2, <2>3, TypeParts, PTL DEF IInv, AnimationSound
<1> QED BY <1>1, <1>2, <1>3, <1>4, <1>5, <1>6, <1>7, <1>8 DEF AnNext

(* AnimationSound: whatever commands, frames shown and scans come in what  *)
(* order, current_frame() finds a frame, the texture shows it unless the   *)
(* code is known to leave another, and an animation that can move is       *)
(* looked at by the main loop or was made so by a command that forgets it. *)
THEOREM AnimationStaysSound == AnSpec => []AnimationSound
<1>1. AnInit => IInv
  BY InitHolds, AnimationAssumption
<1>2. IInv /\ [AnNext]_anvars => IInv'
  BY StepHolds, AnimationAssumption
<1>3. IInv => AnimationSound
  BY DEF IInv
<1> QED BY <1>1, <1>2, <1>3, PTL DEF AnSpec
-----------------------------------------------------------------------------
(* animation_duration, as a sum over the frames.                           *)
GapAt(fs) == [n \in DOMAIN fs |-> fs[n].gap]
GapSum(fs) == Amount(GapAt(fs), DOMAIN fs)

LEMMA FramesFinite ==
    ASSUME AnimationAssumption, NEW fs \in Seq(Pic)
    PROVE  /\ DOMAIN fs = 1..Len(fs) /\ Len(fs) \in Nat /\ IsFiniteSet(DOMAIN fs)
           /\ Weights(GapAt(fs), DOMAIN fs)
           /\ \A n \in DOMAIN fs : fs[n].gap \in Nat /\ GapAt(fs)[n] = fs[n].gap
<1>1. DOMAIN fs = 1..Len(fs) /\ Len(fs) \in Nat
  OBVIOUS
<1>2. IsFiniteSet(DOMAIN fs)
  BY <1>1, FS_Interval
<1>3. ASSUME NEW n \in DOMAIN fs PROVE fs[n].gap \in Nat
  <2>1. fs[n] \in Pic
    BY <1>1
  <2>2. Gaps \cup {0} \subseteq Nat
    BY DEF AnimationAssumption
  <2> QED BY <2>1, <2>2 DEF Pic
<1> QED BY <1>1, <1>2, <1>3 DEF Weights, GapAt

(* MapThenSumSet of the gaps.                                              *)
LEMMA GapsAreSummed ==
    ASSUME AnimationAssumption, NEW fs \in Seq(Pic)
    PROVE  GapsOf(fs) = GapSum(fs)
<1> DEFINE D == DOMAIN fs
           w == GapAt(fs)
           P(it) == it = [s \in SUBSET D |-> IF s = {} THEN 0 ELSE
                            fs[CHOOSE x \in s : TRUE].gap + it[s \ {CHOOSE x \in s : TRUE}]]
<1>1. GapsOf(fs) = (CHOOSE it : P(it))[D]
  BY Zenon DEF GapsOf, MapThenSumSet, MapThenFoldSet
<1>2. Weights(w, D) /\ IsFiniteSet(D)
  BY FramesFinite
<1>3. ASSUME NEW s \in SUBSET D, s # {}
      PROVE  fs[CHOOSE x \in s : TRUE].gap = w[OneOf(s)]
  <2>1. OneOf(s) \in D /\ OneOf(s) = CHOOSE x \in s : TRUE
    BY <1>3, OneIsIn DEF OneOf
  <2> QED BY <2>1 DEF GapAt
<1>4. ASSUME NEW it PROVE P(it) <=> SumsOf(it, w, D)
  <2>1. [s \in SUBSET D |-> IF s = {} THEN 0 ELSE
            fs[CHOOSE x \in s : TRUE].gap + it[s \ {CHOOSE x \in s : TRUE}]]
        = [s \in SUBSET D |-> IF s = {} THEN 0 ELSE w[OneOf(s)] + it[s \ {OneOf(s)}]]
    <3> HIDE DEF w, D
    <3>1. ASSUME NEW s \in SUBSET D
          PROVE  (IF s = {} THEN 0 ELSE fs[CHOOSE x \in s : TRUE].gap + it[s \ {CHOOSE x \in s : TRUE}])
                 = (IF s = {} THEN 0 ELSE w[OneOf(s)] + it[s \ {OneOf(s)}])
      <4>1. CASE s = {}
        BY <4>1, Zenon
      <4>2. CASE s # {}
        <5>1. fs[CHOOSE x \in s : TRUE].gap = w[OneOf(s)]
          BY <1>3, <4>2
        <5>2. OneOf(s) = CHOOSE x \in s : TRUE
          BY Zenon DEF OneOf
        <5> QED BY <4>2, <5>1, <5>2, Zenon
      <4> QED BY <4>1, <4>2
    <3> QED BY <3>1, Zenon
  <2> QED BY <2>1, Zenon DEF SumsOf
<1> HIDE DEF P, w, D
<1>5. \E it : P(it)
  BY <1>2, <1>4, AmountsAreSums
<1>6. P(CHOOSE it : P(it))
  BY <1>5, Zenon
<1>7. (CHOOSE it : P(it))[D] = Amount(w, D)
  BY <1>2, <1>4, <1>6, SumsAreAmounts
<1> QED BY <1>1, <1>7 DEF GapSum, w, D

(* One frame more, one frame changed, and one frame less.                  *)
LEMMA GapSumAppend ==
    ASSUME AnimationAssumption, NEW fs \in Seq(Pic), NEW f \in Pic
    PROVE  GapSum(Append(fs, f)) = GapSum(fs) + f.gap
<1> DEFINE gs == Append(fs, f)
           n == Len(fs) + 1
<1>1. gs \in Seq(Pic) /\ Len(gs) = n /\ gs[n] = f /\ \A k \in 1..Len(fs) : gs[k] = fs[k]
  OBVIOUS
<1> HIDE DEF gs
<1>2. DOMAIN gs = 1..n /\ DOMAIN fs = 1..Len(fs) /\ Len(fs) \in Nat /\ n \in 1..n
  BY <1>1, FramesFinite
<1>3. (1..n) \ {n} = 1..Len(fs)
  BY <1>2
<1>4. Weights(GapAt(gs), DOMAIN gs) /\ IsFiniteSet(DOMAIN gs) /\ GapAt(gs)[n] = f.gap /\ f.gap \in Nat
  BY <1>1, <1>2, FramesFinite
<1>5. GapSum(gs) = f.gap + Amount(GapAt(gs), 1..Len(fs))
  <2> DEFINE w == GapAt(gs)
  <2> HIDE DEF w
  <2>1. Weights(w, 1..n) /\ IsFiniteSet(1..n) /\ w[n] = f.gap
    BY <1>2, <1>4 DEF w
  <2>2. Amount(w, 1..n) = w[n] + Amount(w, (1..n) \ {n})
    BY <2>1, <1>2, AmountSplit
  <2> QED BY <2>1, <2>2, <1>2, <1>3 DEF GapSum, w
<1>6. \A k \in 1..Len(fs) : GapAt(gs)[k] = GapAt(fs)[k]
  BY <1>1, <1>2 DEF GapAt
<1>7. Amount(GapAt(gs), 1..Len(fs)) = GapSum(fs)
  BY <1>2, <1>6, AmountAgrees DEF GapSum
<1>8. GapSum(fs) \in Nat
  BY FramesFinite, AmountIsNat DEF GapSum
<1> QED BY <1>4, <1>5, <1>7, <1>8 DEF gs

LEMMA GapSumSplit ==
    ASSUME AnimationAssumption, NEW fs \in Seq(Pic), NEW n \in 1..Len(fs)
    PROVE  /\ GapSum(fs) = fs[n].gap + Amount(GapAt(fs), (1..Len(fs)) \ {n})
           /\ Amount(GapAt(fs), (1..Len(fs)) \ {n}) \in Nat
           /\ IsFiniteSet((1..Len(fs)) \ {n}) /\ Weights(GapAt(fs), (1..Len(fs)) \ {n})
<1> DEFINE w == GapAt(fs)
           D == 1..Len(fs)
<1>1. IsFiniteSet(D) /\ Weights(w, D) /\ w[n] = fs[n].gap /\ DOMAIN fs = D
  BY FramesFinite
<1>2. IsFiniteSet(D \ {n}) /\ Weights(w, D \ {n})
  BY <1>1, FS_Subset DEF Weights
<1> HIDE DEF w, D
<1>3. Amount(w, D) = w[n] + Amount(w, D \ {n})
  BY <1>1, AmountSplit DEF D
<1>4. Amount(w, D \ {n}) \in Nat
  BY <1>2, AmountIsNat
<1> QED BY <1>1, <1>2, <1>3, <1>4 DEF GapSum, w, D

LEMMA GapSumChange ==
    ASSUME AnimationAssumption, NEW fs \in Seq(Pic), NEW gs \in Seq(Pic), NEW n \in 1..Len(fs),
           Len(gs) = Len(fs), \A k \in 1..Len(fs) : k # n => gs[k].gap = fs[k].gap
    PROVE  GapSum(gs) = Minus(GapSum(fs), fs[n].gap) + gs[n].gap
<1> DEFINE others == (1..Len(fs)) \ {n}
<1>1. GapSum(fs) = fs[n].gap + Amount(GapAt(fs), others) /\ Amount(GapAt(fs), others) \in Nat
  BY GapSumSplit
<1>2. GapSum(gs) = gs[n].gap + Amount(GapAt(gs), others) /\ Amount(GapAt(gs), others) \in Nat
  BY GapSumSplit
<1>3. \A k \in others : GapAt(gs)[k] = GapAt(fs)[k]
  BY DEF GapAt
<1>4. Amount(GapAt(gs), others) = Amount(GapAt(fs), others)
  BY <1>3, AmountAgrees
<1>5. fs[n].gap \in Nat /\ gs[n].gap \in Nat
  BY FramesFinite
<1> DEFINE a == Amount(GapAt(fs), others)
<1> HIDE DEF a
<1>6. GapSum(fs) = fs[n].gap + a /\ GapSum(gs) = gs[n].gap + a /\ a \in Nat
  BY <1>1, <1>2, <1>4 DEF a
<1> HIDE DEF others
<1>7. Minus(fs[n].gap + a, fs[n].gap) = a
  BY <1>5, <1>6 DEF Minus
<1> QED BY <1>5, <1>6, <1>7

LEMMA RemoveAtItems ==
    ASSUME NEW S, NEW s \in Seq(S), NEW n \in 1..Len(s), NEW k \in 1..Len(s) - 1
    PROVE  RemoveAt(s, n)[k] = IF k < n THEN s[k] ELSE s[k + 1]
<1> DEFINE a == SubSeq(s, 1, n - 1)
           b == SubSeq(s, n + 1, Len(s))
<1>1. a \in Seq(S) /\ Len(a) = n - 1 /\ \A i \in 1..n - 1 : a[i] = s[i]
  OBVIOUS
<1>2. b \in Seq(S) /\ Len(b) = Len(s) - n /\ \A i \in 1..Len(s) - n : b[i] = s[n + i]
  OBVIOUS
<1>3. RemoveAt(s, n) = a \o b
  BY DEF RemoveAt
<1>4. Len(s) \in Nat /\ n \in Nat /\ k \in Nat
  OBVIOUS
<1> HIDE DEF a, b
<1>5. CASE k < n
  BY <1>1, <1>2, <1>3, <1>4, <1>5
<1>6. CASE ~(k < n)
  <2>1. k - Len(a) \in 1..Len(s) - n /\ n + (k - Len(a)) = k + 1 /\ k > Len(a) /\ k <= Len(a) + Len(b)
    BY <1>1, <1>2, <1>4, <1>6
  <2>2. (a \o b)[k] = b[k - Len(a)]
    BY <1>1, <1>2, <2>1
  <2> QED BY <1>2, <1>3, <1>6, <2>1, <2>2
<1> QED BY <1>5, <1>6

LEMMA GapSumRemove ==
    ASSUME AnimationAssumption, NEW fs \in Seq(Pic), NEW n \in 1..Len(fs)
    PROVE  GapSum(RemoveAt(fs, n)) = Minus(GapSum(fs), fs[n].gap)
<1> DEFINE gs == RemoveAt(fs, n)
           D == (1..Len(fs)) \ {n}
           E == 1..Len(fs) - 1
           b == [k \in D |-> IF k < n THEN k ELSE k - 1]
           v == GapAt(fs)
           w == GapAt(gs)
<1>1. gs \in Seq(Pic) /\ Len(gs) = Len(fs) - 1 /\ \A k \in E : gs[k] = IF k < n THEN fs[k] ELSE fs[k + 1]
  BY RemoveAtShape, RemoveAtItems
<1> HIDE DEF gs
<1>2. /\ GapSum(fs) = fs[n].gap + Amount(v, D) /\ Amount(v, D) \in Nat
      /\ IsFiniteSet(D) /\ Weights(v, D)
  BY GapSumSplit
<1>3. Len(fs) \in Nat /\ DOMAIN fs = 1..Len(fs) /\ DOMAIN gs = E /\ fs[n].gap \in Nat
  BY <1>1, FramesFinite
<1>4. b \in [D -> E]
  BY <1>3
<1>5. \A j, k \in D : b[j] = b[k] => j = k
  BY <1>3
<1>6. ASSUME NEW l \in E PROVE \E k \in D : b[k] = l
  <2>1. CASE l < n
    <3>1. l \in D /\ b[l] = l
      BY <2>1, <1>3
    <3> QED BY <3>1
  <2>2. CASE ~(l < n)
    <3>1. l + 1 \in D /\ b[l + 1] = l
      BY <2>2, <1>3
    <3> QED BY <3>1
  <2> QED BY <2>1, <2>2
<1>7. ASSUME NEW k \in D PROVE w[b[k]] = v[k]
  <2>1. b[k] \in E /\ gs[b[k]] = fs[k]
    <3>1. CASE k < n
      BY <3>1, <1>1, <1>3
    <3>2. CASE ~(k < n)
      <4>1. b[k] = k - 1 /\ b[k] \in E /\ ~(b[k] < n) /\ b[k] + 1 = k
        BY <3>2, <1>3
      <4> HIDE DEF b
      <4> QED BY <4>1, <1>1
    <3> QED BY <3>1, <3>2
  <2> QED BY <2>1, <1>3 DEF GapAt
<1> HIDE DEF D, E, b, v, w
<1>8. Amount(w, E) = Amount(v, D)
  BY <1>2, <1>4, <1>5, <1>6, <1>7, AmountMoved
<1> QED BY <1>2, <1>3, <1>8 DEF GapSum, Minus, w, gs

(* A scan is begun only for an image with a duration, and nothing changes  *)
(* the frames before it ends.                                              *)
Timed ==
    /\ ~resent => duration = GapSum(frames)
    /\ scanning => duration > 0

LEMMA TimedKept ==
    ASSUME Timed, UNCHANGED <<frames, duration, resent>>, scanning' => scanning
    PROVE  Timed'
<1>1. GapSum(frames)' = GapSum(frames)
  BY DEF GapSum, GapAt
<1> QED BY <1>1 DEF Timed

LEMMA TimedStep ==
    ASSUME AnimationAssumption, IInv, Timed, [AnNext]_anvars
    PROVE  Timed'
<1>0. Data /\ Flags
  BY TypeParts DEF IInv, AnimationSound
<1>1. frames \in Seq(Pic) /\ Len(frames) \in Nat \ {0} /\ duration \in Nat
  BY <1>0 DEF Data, IInv, AnimationSound, CurrentFrameExists, Extra
<1>p. GapSum(frames)' = GapSum(frames')
  BY DEF GapSum, GapAt
<1>2. ASSUME NEW gap \in Gaps, NewFrame(gap) PROVE Timed'
  <2>1. /\ frames' = Append(frames, Frame(ids + 1, gap)) /\ duration' = duration + gap
        /\ resent' = resent /\ scanning' = scanning /\ ~scanning
    BY <1>2 DEF NewFrame, Elsewhere
  <2>2. Frame(ids + 1, gap) \in Pic /\ Frame(ids + 1, gap).gap = gap
    BY <1>0, <1>2 DEF NewFrame, Frame, Pic, Data, AnimationAssumption
  <2>3. GapSum(frames') = GapSum(frames) + gap
    BY <1>1, <2>1, <2>2, GapSumAppend
  <2> QED BY <1>p, <2>1, <2>3 DEF Timed
<1>3. ASSUME NEW gap \in Gaps, NEW n \in 1..MaxFrames, ChangeGap(n, gap) PROVE Timed'
  <2>1. /\ frames' = [frames EXCEPT ![n].gap = gap] /\ n \in 1..Len(frames)
        /\ duration' = Minus(duration, frames[n].gap) + gap
        /\ resent' = resent /\ scanning' = scanning /\ ~scanning
    BY <1>3 DEF ChangeGap, Elsewhere
  <2>2. IInv'
    BY <1>3, ChangeGapStep
  <2>3. frames' \in Seq(Pic)
    BY <2>2 DEF IInv, AnimationSound, AnTypeOK, Pic
  <2>4. frames[n] \in Pic
    BY <1>1, <2>1
  <2>5. /\ Len(frames') = Len(frames) /\ frames'[n].gap = gap
        /\ \A k \in 1..Len(frames) : k # n => frames'[k].gap = frames[k].gap
    BY <1>1, <2>1, <2>4 DEF Pic
  <2> DEFINE fs == frames
             gs == frames'
  <2>6. n \in 1..Len(fs) /\ fs \in Seq(Pic) /\ gs \in Seq(Pic) /\ Len(gs) = Len(fs)
    BY <1>1, <2>1, <2>3, <2>5
  <2>7. \A k \in 1..Len(fs) : k # n => gs[k].gap = fs[k].gap
    BY <2>5
  <2> HIDE DEF fs, gs
  <2>8. GapSum(gs) = Minus(GapSum(fs), fs[n].gap) + gs[n].gap
    BY <2>6, <2>7, GapSumChange
  <2> QED BY <1>p, <2>1, <2>5, <2>8 DEF Timed, fs, gs
<1>4. ASSUME NEW n \in 0..MaxFrames, DeleteFrameAt(n) PROVE Timed'
  <2>1. /\ frames' = RemoveAt(frames, n) /\ n \in 1..Len(frames)
        /\ duration' = Minus(duration, frames[n].gap)
        /\ resent' = resent /\ scanning' = scanning /\ ~scanning
    BY <1>4 DEF DeleteFrameAt, Elsewhere
  <2>2. GapSum(frames') = Minus(GapSum(frames), frames[n].gap)
    BY <1>1, <2>1, GapSumRemove
  <2> QED BY <1>p, <2>1, <2>2 DEF Timed
<1>5. ASSUME Resend PROVE Timed'
  <2>1. /\ frames' = [frames EXCEPT ![1] = Frame(ids + 1, 0)] /\ duration' = duration
        /\ resent' = (resent \/ frames[1].gap # 0) /\ scanning' = scanning /\ ~scanning
    BY <1>5 DEF Resend
  <2>2. CASE resent'
    BY <2>1, <2>2 DEF Timed
  <2>3. CASE ~resent'
    <3>1. ~resent /\ frames[1].gap = 0
      BY <2>1, <2>3
    <3>2. IInv'
      BY <1>5, ResendStep
    <3>3. frames' \in Seq(Pic)
      BY <3>2 DEF IInv, AnimationSound, AnTypeOK, Pic
    <3>4. /\ Len(frames') = Len(frames) /\ frames'[1].gap = 0 /\ 1 \in 1..Len(frames)
          /\ \A k \in 1..Len(frames) : k # 1 => frames'[k].gap = frames[k].gap
      BY <1>1, <2>1 DEF Frame
    <3>5. GapSum(frames') = Minus(GapSum(frames), 0) + 0
      BY <1>1, <3>1, <3>3, <3>4, GapSumChange
    <3>6. GapSum(frames) = duration
      BY <3>1 DEF Timed
    <3>7. Minus(duration, 0) + 0 = duration
      BY <1>1 DEF Minus
    <3> QED BY <1>p, <2>1, <3>5, <3>6, <3>7 DEF Timed
  <2> QED BY <2>2, <2>3
<1>6. ASSUME NEW due \in BOOLEAN, Scan(due) PROVE Timed'
  <2>1. UNCHANGED <<frames, duration, resent>> /\ (scanning' => duration > 0)
    BY <1>6, Zenon DEF Scan, Animatable, MayMove
  <2> QED BY <1>p, <2>1 DEF Timed
<1>7. ASSUME NEW n \in 0..MaxFrames, SetCurrent(n) PROVE Timed'
  BY <1>7, TimedKept DEF SetCurrent, Elsewhere
<1>8. ASSUME NEW s \in {"stopped", "loading", "running"}, SetState(s) PROVE Timed'
  BY <1>8, TimedKept DEF SetState, Elsewhere
<1>9. ASSUME NEW n \in Loops, SetLoops(n) PROVE Timed'
  BY <1>9, TimedKept DEF SetLoops, Elsewhere
<1>10. ASSUME NEW on \in BOOLEAN, Place(on) PROVE Timed'
  BY <1>10, TimedKept DEF Place
<1>11. ASSUME Render \/ StayAtEnd PROVE Timed'
  <2>1. UNCHANGED <<frames, duration, resent>> /\ (scanning' => scanning)
    <3>1. CASE Render  BY <3>1, Zenon DEF Render
    <3>2. CASE StayAtEnd  BY <3>2, Zenon DEF StayAtEnd
    <3> QED BY <1>11, <3>1, <3>2
  <2> QED BY <2>1, TimedKept
<1>12. ASSUME GoOn PROVE Timed'
  <2>1. UNCHANGED <<frames, duration, resent>> /\ (scanning' => scanning)
    BY <1>12, Zenon DEF GoOn
  <2> QED BY <2>1, TimedKept
<1>13. ASSUME UNCHANGED anvars PROVE Timed'
  BY <1>13, TimedKept DEF anvars
<1> QED BY <1>2, <1>3, <1>4, <1>5, <1>6, <1>7, <1>8, <1>9, <1>10, <1>11, <1>12, <1>13 DEF AnNext

(* ScansEnd: whatever frames are added, changed, deleted and sent again in *)
(* what order, animation_duration is the sum of the gaps unless a root     *)
(* frame with a gap was sent again; so a scan that has begun on a running  *)
(* animation meets a frame with a gap and does not go round for ever.      *)
THEOREM ScansComeToAnEnd == AnSpec => []ScansEnd
<1>1. AnInit => Timed
  <2> SUFFICES ASSUME AnInit PROVE Timed
    OBVIOUS
  <2>1. frames = <<Frame(1, 0)>> /\ duration = 0 /\ ~scanning
    BY DEF AnInit
  <2>2. DOMAIN frames = {1} /\ frames[1].gap = 0
    BY <2>1 DEF Frame
  <2>3. Weights(GapAt(frames), DOMAIN frames) /\ ~\E n \in DOMAIN frames : GapAt(frames)[n] > 0
    BY <2>2 DEF Weights, GapAt
  <2>4. GapSum(frames) = 0
    BY <2>3, AmountOfSome DEF GapSum
  <2> QED BY <2>1, <2>4 DEF Timed
<1>2. IInv /\ Timed => ScansEnd
  <2> SUFFICES ASSUME IInv, Timed PROVE ScansEnd
    OBVIOUS
  <2>1. frames \in Seq(Pic) /\ duration \in Nat
    BY DEF IInv, AnimationSound, AnTypeOK, Pic
  <2>2. GapsOf(frames) = GapSum(frames)
    BY <2>1, GapsAreSummed, AnimationAssumption
  <2>3. DurationIsSum
    BY <2>2 DEF DurationIsSum, Timed
  <2>4. ASSUME scanning, ~resent PROVE \E n \in 1..Len(frames) : frames[n].gap > 0
    <3>1. GapSum(frames) # 0
      BY <2>1, <2>4 DEF Timed
    <3>2. /\ Weights(GapAt(frames), DOMAIN frames) /\ DOMAIN frames = 1..Len(frames)
          /\ \A n \in DOMAIN frames : GapAt(frames)[n] = frames[n].gap
      BY <2>1, FramesFinite, AnimationAssumption
    <3>3. \E n \in DOMAIN frames : GapAt(frames)[n] > 0
      BY <3>1, <3>2, AmountOfSome DEF GapSum
    <3> QED BY <3>2, <3>3
  <2>5. ScanEnds
    BY <2>4 DEF ScanEnds
  <2> QED BY <2>3, <2>5 DEF ScansEnd
<1>3. AnInit => IInv
  BY InitHolds, AnimationAssumption
<1>4. IInv /\ [AnNext]_anvars => IInv'
  BY StepHolds, AnimationAssumption
<1>5. IInv /\ Timed /\ [AnNext]_anvars => Timed'
  BY TimedStep, AnimationAssumption
<1> QED BY <1>1, <1>2, <1>3, <1>4, <1>5, PTL DEF AnSpec
=============================================================================
