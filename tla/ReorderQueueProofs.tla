------------------------- MODULE ReorderQueueProofs -------------------------
(***************************************************************************)
(* The order in which input leaves the queue, and the timer for what waits *)
(* in it, for any number of sessions, items and calls.                     *)
(***************************************************************************)
EXTENDS ReorderQueue, TLAPS, FiniteSetTheorems, WellFoundedInduction

Buffered == [item : Numbered, at : 1 .. MaxItems]
Emitted  == [item : Numbered \union Plain, at : 1 .. MaxItems, when : 1 .. MaxItems,
             why : Reasons]

(* What InputInOrder says of two items that were put into the channel, the *)
(* second after the first, when the sessions were seen in the order ss.    *)
PlaceIn(ss, session) == CHOOSE i \in DOMAIN ss : ss[i] = session
Good(ss, e, f) ==
  /\ e.item # f.item
  /\ e.item.session = f.item.session /\ e.item.session \in Sessions /\ e.item.seq > f.item.seq
       => f.at > e.when
  /\ {e.item.session, f.item.session} \subseteq ToSet(ss)
     /\ PlaceIn(ss, f.item.session) < PlaceIn(ss, e.item.session)
       => f.why = "old"
Pairwise(ss, es) == \A i, j \in DOMAIN es : i < j => Good(ss, es[i], es[j])

(* Only input of the current session waits, and none that was given up.    *)
BufferOK ==
  /\ IsFiniteSet(buffer)
  /\ buffer # {} => seen # <<>>
  /\ \A x \in buffer :
       /\ x.item \in arrived /\ x.item.session = Current
       /\ x.item.seq >= nextSeqNum /\ x.at <= arrivals
  /\ \A x, y \in buffer : x.item = y.item => x = y

(* What left the queue is older than what may come next.                   *)
EmittedOK ==
  \A i \in DOMAIN emitted :
    /\ emitted[i].item \in arrived
    /\ emitted[i].when <= arrivals
    /\ emitted[i].item.session \in ToSet(seen) \union {NoSession}
    /\ emitted[i].item.session \in Sessions /\ emitted[i].item.session = Current
         => emitted[i].item.seq < nextSeqNum

(* Below nextSeqNum nothing is missing but what the timer gave up.         *)
Covers(es, session, k) ==
  \E j \in DOMAIN es :
    /\ es[j].item.session = session
    /\ \/ es[j].item.seq = k
       \/ es[j].item.seq > k /\ es[j].why = "timeout"
CoveredOK ==
  seen # <<>> => \A k \in 1 .. nextSeqNum - 1 : Covers(emitted, Current, k)

(* The timer in q.timer runs, in time for all that waits, and of those it  *)
(* replaced no more callbacks are left than there were sessions.           *)
TimersOK ==
  /\ IsFiniteSet(timers)
  /\ Cardinality(timers) <= Len(seen) + (IF timer # NoTimer \/ closed THEN 1 ELSE 0)
  /\ \A t \in timers : t.at <= arrivals
  /\ ~closed /\ timer # NoTimer => \E t \in timers : t.id = timer
  /\ ~closed => \A x \in buffer : \E t \in timers : t.id = timer /\ t.at <= x.at

Inv == TypeOK /\ BufferOK /\ EmittedOK /\ CoveredOK /\ TimersOK /\ InputInOrder

-----------------------------------------------------------------------------
(* Numbers, sequences put together and sorted items.                      *)

(* A set of natural numbers has a least one.                               *)
LEMMA LeastNumber ==
  ASSUME NEW T \in SUBSET Nat, T # {}
  PROVE  \E x \in T : \A y \in T : x <= y
<1>1. PICK m \in T : TRUE
  OBVIOUS
<1> DEFINE S == 0 .. m
           Below(n) == 0 .. n - 1
           F == {Below(n) : n \in {k \in T : k <= m}}
           R == StrictSubsetOrdering(S)
<1>2. IsFiniteSet(S)
  BY <1>1, FS_Interval
<1>3. F # {} /\ F \subseteq FiniteSubsetsOf(S)
  <2>1. F # {}
    BY <1>1
  <2>2. ASSUME NEW n \in T, n <= m PROVE Below(n) \subseteq S
    BY <1>1, <2>2
  <2>3. F \subseteq SUBSET S
    BY <2>2
  <2>4. QED
    BY <2>1, <2>3, <1>2, FS_Subset DEF FiniteSubsetsOf
<1>4. PICK X \in F : \A Y \in F : <<Y, X>> \notin R
  <2>1. IsWellFoundedOn(R, FiniteSubsetsOf(S))
    BY FS_StrictSubsetOrderingWellFounded
  <2> HIDE DEF R, F
  <2>2. QED
    BY <2>1, <1>3, WFMin
<1>5. PICK x \in T : x <= m /\ X = Below(x)
  BY <1>4
<1>6. ASSUME NEW y \in T, y < x PROVE FALSE
  <2>1. Below(y) \in F
    BY <1>5, <1>6
  <2>2. Below(y) \subseteq Below(x) /\ Below(y) # Below(x)
    <3>1. y \in Below(x) /\ y \notin Below(y)
      BY <1>6
    <3>2. QED
      BY <3>1, <1>6
  <2>3. Below(x) \subseteq S /\ Below(y) \subseteq S
    BY <1>3, <1>5, <2>1, <2>2 DEF FiniteSubsetsOf
  <2>4. QED
    BY <1>4, <1>5, <2>1, <2>2, <2>3 DEF StrictSubsetOrdering
<1>7. QED
  BY <1>6

(* A set of natural numbers that has a bound has a greatest one.           *)
LEMMA GreatestNumber ==
  ASSUME NEW T \in SUBSET Nat, T # {}, NEW b \in Nat, \A y \in T : y <= b
  PROVE  \E x \in T : \A y \in T : y <= x
<1> DEFINE U == {b - y : y \in T}
<1>1. U \in SUBSET Nat /\ U # {}
  <2>1. ASSUME NEW y \in T PROVE b - y \in Nat
    <3>1. y \in Nat /\ y <= b
      OBVIOUS
    <3>2. QED
      BY <3>1
  <2>2. QED
    BY <2>1
<1>2. PICK u \in U : \A v \in U : u <= v
  <2> HIDE DEF U
  <2>1. QED
    BY <1>1, LeastNumber
<1>3. PICK x \in T : u = b - x
  BY <1>2
<1>4. ASSUME NEW y \in T PROVE y <= x
  <2>1. b - y \in U
    OBVIOUS
  <2>2. b - x <= b - y /\ x \in Nat /\ y \in Nat
    BY <1>2, <1>3, <2>1
  <2>3. QED
    BY <2>2
<1>5. QED
  BY <1>4

(* The place of an index of a sequence put together from two.              *)
LEMMA Together ==
  ASSUME NEW T, NEW s \in Seq(T), NEW r \in Seq(T)
  PROVE  /\ s \o r \in Seq(T) /\ Len(s \o r) = Len(s) + Len(r)
         /\ \A i \in DOMAIN s : i \in DOMAIN (s \o r) /\ (s \o r)[i] = s[i]
         /\ \A i \in DOMAIN r : i + Len(s) \in DOMAIN (s \o r) /\ (s \o r)[i + Len(s)] = r[i]
         /\ \A i \in DOMAIN (s \o r) :
              \/ i \in DOMAIN s /\ (s \o r)[i] = s[i]
              \/ /\ i > Len(s) /\ i - Len(s) \in DOMAIN r
                 /\ (s \o r)[i] = r[i - Len(s)]
<1>1. s \o r \in Seq(T) /\ Len(s \o r) = Len(s) + Len(r)
  OBVIOUS
<1>2. /\ DOMAIN s = 1 .. Len(s) /\ DOMAIN r = 1 .. Len(r)
      /\ DOMAIN (s \o r) = 1 .. Len(s) + Len(r)
      /\ Len(s) \in Nat /\ Len(r) \in Nat
  BY <1>1
<1>3. \A i \in 1 .. Len(s) + Len(r) :
        (s \o r)[i] = IF i <= Len(s) THEN s[i] ELSE r[i - Len(s)]
  OBVIOUS
<1>4. QED
  BY <1>1, <1>2, <1>3

(* What Sorted is asked for: items of one session with different numbers.  *)
OneSession(items) ==
  /\ IsFiniteSet(items) /\ items \subseteq Buffered
  /\ items # {} => seen # <<>>
  /\ \A x \in items : x.item.session = Current
  /\ \A x, y \in items : x.item = y.item => x = y
SeenOK == seen \in Seq(Sessions) /\ IsInjective(seen)
Rising(s) == \A i, j \in DOMAIN s : i < j => s[i].item.seq < s[j].item.seq
Onto(s, items) == \A x \in items : \E i \in DOMAIN s : s[i] = x

(* Where a session is among those seen.                                    *)
LEMMA PositionIs ==
  ASSUME SeenOK, NEW s \in ToSet(seen)
  PROVE  Position(s) \in 1 .. Len(seen) /\ seen[Position(s)] = s
BY DEF SeenOK, ToSet, Position

(* Among items of one session only the number counts.                      *)
LEMMA BeforeIsLess ==
  ASSUME SeenOK, NEW items, OneSession(items), NEW x \in items, NEW y \in items
  PROVE  /\ Before(x, y) <=> x.item.seq < y.item.seq
         /\ x.item.seq \in 1 .. MaxSeqNum /\ y.item.seq \in 1 .. MaxSeqNum
         /\ x # y => x.item.seq # y.item.seq
<1>1. x \in Buffered /\ y \in Buffered
  BY DEF OneSession
<1>2. x.item.session = Current /\ y.item.session = Current
  BY DEF OneSession
<1>3. x.item \in Numbered /\ y.item \in Numbered
  BY <1>1 DEF Buffered
<1>4. x # y => x.item.seq # y.item.seq
  BY <1>2, <1>3 DEF OneSession, Numbered
<1>5. Current \in ToSet(seen)
  BY DEF SeenOK, OneSession, Current, Last, ToSet
<1>6. ~(Position(Current) < Position(Current))
  BY <1>5, PositionIs DEF SeenOK
<1>7. QED
  BY <1>2, <1>3, <1>4, <1>6 DEF Before, Numbered

(* Items of one session can be put in the order of their numbers: take the *)
(* one with the greatest number away, and put it behind the others.        *)
Sorts(s, items) == s \in [1 .. Cardinality(items) -> items] /\ Onto(s, items) /\ Rising(s)

(* What waits of one session can be sorted, so Sorted has a value.         *)
LEMMA CanBeSorted ==
  ASSUME SeenOK, NEW items, OneSession(items)
  PROVE  \E s : Sorts(s, items)
<1> DEFINE Bad == {set \in SUBSET items : ~ \E s : Sorts(s, set)}
           Sizes == {Cardinality(set) : set \in Bad}
<1>1. ASSUME NEW set \in SUBSET items
      PROVE  OneSession(set) /\ Cardinality(set) \in Nat
  BY FS_Subset, FS_CardinalityType DEF OneSession
<1>2. SUFFICES ASSUME Bad # {} PROVE FALSE
  OBVIOUS
<1>3. Sizes \in SUBSET Nat /\ Sizes # {}
  BY <1>1, <1>2
<1>4. PICK n \in Sizes : \A m \in Sizes : n <= m
  <2> HIDE DEF Sizes
  <2>1. QED
    BY <1>3, LeastNumber
<1>5. PICK set \in Bad : n = Cardinality(set)
  BY <1>4
<1>6. set \in SUBSET items /\ OneSession(set) /\ IsFiniteSet(set) /\ n \in Nat
  BY <1>1, <1>5 DEF OneSession
<1>7. set # {}
  <2>1. SUFFICES ASSUME set = {} PROVE FALSE
    OBVIOUS
  <2>2. Cardinality(set) = 0
    BY <2>1, FS_EmptySet
  <2>3. Sorts(<<>>, set)
    BY <2>1, <2>2 DEF Sorts, Onto, Rising
  <2>4. QED
    BY <2>3, <1>5
<1>8. PICK x \in set : \A y \in set : y.item.seq <= x.item.seq
  <2> DEFINE Nums == {y.item.seq : y \in set}
  <2>1. \A y \in set : y.item.seq \in Nat /\ y.item.seq <= MaxSeqNum
    BY <1>6, BeforeIsLess, BoundsAssumption
  <2>2. Nums \in SUBSET Nat /\ Nums # {} /\ \A k \in Nums : k <= MaxSeqNum
    BY <2>1, <1>7
  <2>3. \E k \in Nums : \A l \in Nums : l <= k
    <3> HIDE DEF Nums
    <3>1. QED
      BY <2>2, GreatestNumber, BoundsAssumption
  <2>4. QED
    BY <2>3
<1> DEFINE rest == set \ {x}
<1>9. Cardinality(rest) = n - 1 /\ rest \in SUBSET items
  BY <1>5, <1>6, FS_RemoveElement
<1>10. PICK s : Sorts(s, rest)
  <2>1. Cardinality(rest) \notin Sizes
    BY <1>4, <1>6, <1>9
  <2>2. rest \notin Bad
    BY <2>1
  <2>3. QED
    BY <2>2, <1>9
<1>11. n # 0
  BY <1>5, <1>6, <1>7, FS_EmptySet
<1> DEFINE r == [i \in 1 .. n |-> IF i < n THEN s[i] ELSE x]
<1>12. s \in [1 .. n - 1 -> rest] /\ Onto(s, rest) /\ Rising(s)
  BY <1>9, <1>10 DEF Sorts
<1> HIDE DEF Sizes, Bad
<1>13. r \in [1 .. n -> set]
  <2>1. ASSUME NEW i \in 1 .. n, i < n PROVE s[i] \in rest
    BY <2>1, <1>6, <1>12
  <2>2. QED
    BY <2>1
<1>14. Onto(r, set)
  <2>1. r[n] = x /\ n \in DOMAIN r
    BY <1>6, <1>11
  <2>2. ASSUME NEW y \in set, y # x PROVE \E i \in DOMAIN r : r[i] = y
    <3>1. PICK i \in 1 .. n - 1 : s[i] = y
      BY <2>2, <1>12 DEF Onto
    <3>2. i \in DOMAIN r /\ r[i] = y
      BY <3>1, <1>6
    <3>3. QED
      BY <3>2
  <2>3. QED
    BY <2>1, <2>2 DEF Onto
<1>15. Rising(r)
  <2>1. SUFFICES ASSUME NEW i \in 1 .. n, NEW j \in 1 .. n, i < j
                 PROVE  r[i].item.seq < r[j].item.seq
    BY DEF Rising
  <2>2. i \in 1 .. n - 1 /\ r[i] = s[i] /\ s[i] \in rest
    BY <2>1, <1>6, <1>12
  <2>3. CASE j < n
    BY <2>1, <2>2, <2>3, <1>6, <1>12 DEF Rising
  <2>4. CASE j = n
    <3>1. r[j] = x
      BY <2>4, <1>6
    <3>2. s[i] \in set /\ s[i] # x
      BY <2>2
    <3>3. /\ s[i].item.seq <= x.item.seq
          /\ s[i].item.seq # x.item.seq
          /\ s[i].item.seq \in 1 .. MaxSeqNum /\ x.item.seq \in 1 .. MaxSeqNum
      BY <3>2, <1>6, <1>8, BeforeIsLess
    <3>4. QED
      BY <3>1, <3>3, <2>2, BoundsAssumption
  <2>5. QED
    BY <2>1, <2>3, <2>4, <1>6
<1>16. Sorts(r, set)
  BY <1>5, <1>13, <1>14, <1>15 DEF Sorts
<1>17. QED
  BY <1>5, <1>16 DEF Bad

(* So Sorted gives them out once each, by their numbers.                   *)
LEMMA SortedIs ==
  ASSUME SeenOK, NEW items, OneSession(items)
  PROVE  /\ Sorts(Sorted(items), items)
         /\ Sorted(items) \in Seq(items)
         /\ Len(Sorted(items)) = Cardinality(items)
<1> DEFINE P(s) == /\ \A x \in items : \E i \in DOMAIN s : s[i] = x
                   /\ \A i, j \in DOMAIN s : i < j => Before(s[i], s[j])
           n == Cardinality(items)
<1>1. n \in Nat
  BY FS_CardinalityType DEF OneSession
<1>2. ASSUME NEW s \in [1 .. n -> items] PROVE P(s) <=> Onto(s, items) /\ Rising(s)
  <2>1. \A i, j \in DOMAIN s : Before(s[i], s[j]) <=> s[i].item.seq < s[j].item.seq
    BY BeforeIsLess
  <2>2. QED
    BY <2>1 DEF Onto, Rising
<1>3. \E s \in [1 .. n -> items] : P(s)
  <2>1. PICK s : Sorts(s, items)
    BY CanBeSorted
  <2>2. QED
    BY <2>1, <1>2 DEF Sorts
<1>4. Sorted(items) \in [1 .. n -> items] /\ P(Sorted(items))
  BY <1>3 DEF Sorted
<1>5. Sorts(Sorted(items), items)
  BY <1>2, <1>4 DEF Sorts
<1> HIDE DEF n
<1>6. Sorted(items) \in Seq(items) /\ Len(Sorted(items)) = n
  BY <1>1, <1>4
<1>7. QED
  BY <1>5, <1>6 DEF n

(* What those items are in the channel.                                    *)
LEMMA EmissionsAre ==
  ASSUME SeenOK, NEW items, OneSession(items), NEW when \in 1 .. MaxItems,
         NEW why \in Reasons, NEW es, es = Emissions(Sorted(items), when, why)
  PROVE  /\ es \in Seq(Emitted) /\ Len(es) = Cardinality(items)
         /\ \A j \in DOMAIN es : /\ es[j].when = when /\ es[j].why = why
                                 /\ \E x \in items : es[j].item = x.item /\ es[j].at = x.at
         /\ \A x \in items : \E j \in DOMAIN es : es[j].item = x.item
         /\ Rising(es)
<1> DEFINE s == Sorted(items)
<1>1. /\ Onto(s, items) /\ Rising(s)
      /\ s \in Seq(items) /\ Len(s) = Cardinality(items)
  BY SortedIs DEF Sorts
<1> HIDE DEF s
<1>2. /\ es = [i \in DOMAIN s |-> Emission(s[i], when, why)]
      /\ DOMAIN s = 1 .. Len(s) /\ Len(s) \in Nat
  BY <1>1 DEF Emissions, s
<1>3. ASSUME NEW j \in DOMAIN s
      PROVE  /\ s[j] \in items /\ s[j] \in Buffered /\ es[j] \in Emitted
             /\ es[j].when = when /\ es[j].why = why
             /\ es[j].item = s[j].item /\ es[j].at = s[j].at
  <2>1. s[j] \in items
    BY <1>1
  <2>2. s[j] \in Buffered
    BY <2>1 DEF OneSession
  <2>3. es[j] = Emission(s[j], when, why)
    BY <1>2
  <2>4. QED
    BY <2>1, <2>2, <2>3 DEF Emission, Buffered, Emitted
<1>4. es \in Seq(Emitted) /\ DOMAIN es = DOMAIN s /\ Len(es) = Len(s)
  <2>1. es \in [1 .. Len(s) -> Emitted]
    BY <1>2, <1>3
  <2>2. QED
    BY <1>2, <2>1
<1>5. \A x \in items : \E j \in DOMAIN es : es[j].item = x.item
  BY <1>1, <1>3, <1>4 DEF Onto
<1>6. Rising(es)
  BY <1>1, <1>3, <1>4 DEF Rising
<1>7. QED
  BY <1>1, <1>3, <1>4, <1>5, <1>6

-----------------------------------------------------------------------------
(* What is put into the channel behind the rest.                           *)

(* InputInOrder, item by item.                                             *)
LEMMA OrderIs ==
  ASSUME emitted \in Seq(Emitted)
  PROVE  InputInOrder <=>
           /\ Pairwise(seen, emitted)
           /\ \A x \in buffer, i \in DOMAIN emitted : x.item # emitted[i].item
           /\ GapsWaitedFor
<1>1. DOMAIN emitted \subseteq Nat
  OBVIOUS
<1>2. \A i, j \in DOMAIN emitted : i < j \/ j < i \/ i = j
  BY <1>1
<1>3. (QueuedOnce /\ WithinSession /\ SessionsSeparate) <=>
        /\ Pairwise(seen, emitted)
        /\ \A x \in buffer, i \in DOMAIN emitted : x.item # emitted[i].item
  <2>1. (\A i, j \in DOMAIN emitted : emitted[i].item = emitted[j].item => i = j) <=>
          \A i, j \in DOMAIN emitted : i < j => emitted[i].item # emitted[j].item
    BY <1>1, <1>2
  <2>2. SessionsSeparate <=>
          \A i, j \in DOMAIN emitted : i < j =>
             ({emitted[i].item.session, emitted[j].item.session} \subseteq ToSet(seen)
               /\ PlaceIn(seen, emitted[j].item.session) < PlaceIn(seen, emitted[i].item.session)
               => emitted[j].why = "old")
    BY DEF SessionsSeparate, PlaceIn, Position
  <2>3. WithinSession <=>
          \A i, j \in DOMAIN emitted : i < j =>
             (emitted[i].item.session = emitted[j].item.session
               /\ emitted[i].item.session \in Sessions
               /\ emitted[i].item.seq > emitted[j].item.seq
               => emitted[j].at > emitted[i].when)
    BY DEF WithinSession
  <2>4. QED
    BY <2>1, <2>2, <2>3 DEF QueuedOnce, Pairwise, Good
<1>4. QED
  BY <1>3 DEF InputInOrder

(* The sessions keep their places when another comes last.                 *)
KeepsPlaces(ss, tt) ==
  /\ ToSet(ss) \subseteq ToSet(tt)
  /\ \A s \in ToSet(ss) : PlaceIn(tt, s) = PlaceIn(ss, s)

(* A new session comes after all others, which keep their places.          *)
LEMMA PlacesKept ==
  ASSUME SeenOK, NEW s \in Sessions, s \notin ToSet(seen), NEW tt, tt = Append(seen, s)
  PROVE  /\ KeepsPlaces(seen, tt) /\ IsInjective(tt) /\ tt \in Seq(Sessions)
         /\ PlaceIn(tt, s) = Len(seen) + 1 /\ ToSet(tt) = ToSet(seen) \union {s}
         /\ \A u \in ToSet(seen) : PlaceIn(tt, u) \in 1 .. Len(seen)
<1>1. /\ tt \in Seq(Sessions) /\ Len(tt) = Len(seen) + 1 /\ Len(seen) \in Nat
      /\ DOMAIN tt = 1 .. Len(seen) + 1 /\ DOMAIN seen = 1 .. Len(seen)
      /\ \A i \in 1 .. Len(seen) : tt[i] = seen[i]
      /\ tt[Len(seen) + 1] = s
  BY DEF SeenOK
<1>2. \A i \in 1 .. Len(seen) : seen[i] # s
  BY <1>1 DEF ToSet
<1>3. IsInjective(tt)
  BY <1>1, <1>2 DEF SeenOK, IsInjective
<1>4. ToSet(tt) = ToSet(seen) \union {s}
  BY <1>1 DEF ToSet
<1>5. PlaceIn(tt, s) = Len(seen) + 1
  BY <1>1, <1>2 DEF PlaceIn
<1>6. ASSUME NEW u \in ToSet(seen)
      PROVE  PlaceIn(tt, u) = PlaceIn(seen, u) /\ PlaceIn(seen, u) \in 1 .. Len(seen)
  <2>1. PICK i \in 1 .. Len(seen) : seen[i] = u
    BY <1>1 DEF ToSet
  <2>2. \A j \in DOMAIN seen : seen[j] = u <=> j = i
    BY <2>1, <1>1 DEF SeenOK, IsInjective
  <2>3. \A j \in DOMAIN tt : tt[j] = u <=> j = i
    BY <2>1, <2>2, <1>1, <1>3 DEF IsInjective
  <2>4. PlaceIn(seen, u) = i
    BY <2>1, <2>2, <1>1 DEF PlaceIn
  <2>5. PlaceIn(tt, u) = i
    BY <2>1, <2>3, <1>1 DEF PlaceIn
  <2>6. QED
    BY <2>1, <2>4, <2>5
<1>7. QED
  BY <1>1, <1>3, <1>4, <1>5, <1>6 DEF KeepsPlaces

(* What comes behind items of the channel that keep its order.             *)
LEMMA PairwiseTogether ==
  ASSUME NEW ss, NEW s \in Seq(Emitted), NEW r \in Seq(Emitted), Pairwise(ss, s), Pairwise(ss, r),
         \A i \in DOMAIN s, j \in DOMAIN r : Good(ss, s[i], r[j])
  PROVE  Pairwise(ss, s \o r)
<1> DEFINE both == s \o r
<1>1. SUFFICES ASSUME NEW i \in DOMAIN both, NEW j \in DOMAIN both, i < j
               PROVE  Good(ss, both[i], both[j])
  BY DEF Pairwise
<1>2. \A k \in DOMAIN both :
        \/ k \in DOMAIN s /\ both[k] = s[k]
        \/ k > Len(s) /\ k - Len(s) \in DOMAIN r /\ both[k] = r[k - Len(s)]
  BY Together
<1>3. /\ DOMAIN both \subseteq Nat /\ Len(s) \in Nat
      /\ DOMAIN s = 1 .. Len(s) /\ DOMAIN r = 1 .. Len(r)
  BY Together
<1> HIDE DEF both
<1>4. CASE j \in DOMAIN s /\ both[j] = s[j]
  <2>1. i \in DOMAIN s /\ both[i] = s[i]
    BY <1>1, <1>2, <1>3, <1>4
  <2>2. QED
    BY <2>1, <1>1, <1>4 DEF Pairwise
<1>5. CASE j > Len(s) /\ j - Len(s) \in DOMAIN r /\ both[j] = r[j - Len(s)]
  <2>1. CASE i \in DOMAIN s /\ both[i] = s[i]
    BY <2>1, <1>5
  <2>2. CASE i > Len(s) /\ i - Len(s) \in DOMAIN r /\ both[i] = r[i - Len(s)]
    <3>1. i - Len(s) < j - Len(s)
      BY <1>1, <1>3
    <3>2. QED
      BY <2>2, <3>1, <1>5 DEF Pairwise
  <2>3. QED
    BY <2>1, <2>2, <1>2
<1>6. QED
  BY <1>2, <1>4, <1>5

(* The order survives a step that puts more into the channel, if what it   *)
(* puts there agrees with itself and with everything before.               *)
FillsGaps(es, new) ==
  \A j \in DOMAIN new : new[j].why = "next" =>
    \A k \in 1 .. new[j].item.seq - 1 :
      \/ Covers(es, new[j].item.session, k)
      \/ \E i \in 1 .. j - 1 :
           /\ i \in DOMAIN new
           /\ new[i].item.session = new[j].item.session
           /\ \/ new[i].item.seq = k
              \/ new[i].item.seq > k /\ new[i].why = "timeout"

(* The order is kept when what is put out fits behind what was before.     *)
LEMMA OrderKept ==
  ASSUME Inv, NEW new \in Seq(Emitted), emitted' = emitted \o new,
         KeepsPlaces(seen, seen'), seen' \in Seq(Sessions),
         Pairwise(seen', new),
         \A i \in DOMAIN emitted, j \in DOMAIN new : Good(seen', emitted[i], new[j]),
         \A x \in buffer' : /\ \A i \in DOMAIN emitted : x.item # emitted[i].item
                            /\ \A j \in DOMAIN new : x.item # new[j].item,
         FillsGaps(emitted, new)
  PROVE  InputInOrder'
<1>1. /\ emitted \in Seq(Emitted) /\ InputInOrder /\ EmittedOK
      /\ emitted' \in Seq(Emitted)
  BY Together DEF Inv, TypeOK, Emitted
<1>2. /\ Pairwise(seen, emitted) /\ GapsWaitedFor
      /\ DOMAIN emitted = 1 .. Len(emitted) /\ DOMAIN new = 1 .. Len(new)
      /\ DOMAIN emitted' = 1 .. Len(emitted') /\ Len(emitted) \in Nat /\ Len(new) \in Nat
  BY <1>1, OrderIs
<1>3. /\ \A i \in DOMAIN emitted : i \in DOMAIN emitted' /\ emitted'[i] = emitted[i]
      /\ \A i \in DOMAIN new : /\ i + Len(emitted) \in DOMAIN emitted'
                               /\ emitted'[i + Len(emitted)] = new[i]
      /\ \A i \in DOMAIN emitted' :
           \/ i \in DOMAIN emitted /\ emitted'[i] = emitted[i]
           \/ /\ i > Len(emitted) /\ i - Len(emitted) \in DOMAIN new
              /\ emitted'[i] = new[i - Len(emitted)]
  BY <1>1, Together
<1>4. Pairwise(seen', emitted)
  <2>1. SUFFICES ASSUME NEW i \in DOMAIN emitted, NEW j \in DOMAIN emitted, i < j
                 PROVE  Good(seen', emitted[i], emitted[j])
    BY DEF Pairwise
  <2>2. Good(seen, emitted[i], emitted[j])
    BY <1>2, <2>1 DEF Pairwise
  <2>3. /\ emitted[i].item.session \in ToSet(seen) \union {NoSession}
        /\ emitted[j].item.session \in ToSet(seen) \union {NoSession}
    BY <1>1 DEF EmittedOK
  <2>4. NoSession \notin ToSet(seen')
    BY NoSessionAssumption DEF ToSet
  <2>5. QED
    BY <2>2, <2>3, <2>4 DEF Good, KeepsPlaces
<1>5. Pairwise(seen', emitted')
  BY <1>1, <1>4, PairwiseTogether
<1>6. \A x \in buffer', i \in DOMAIN emitted' : x.item # emitted'[i].item
  BY <1>3
<1>7. QueuedOnce' /\ WithinSession' /\ SessionsSeparate'
  <2>1. \A i, j \in DOMAIN emitted' : i < j \/ j < i \/ i = j
    BY <1>2
  <2>2. QueuedOnce'
    <3>1. \A i, j \in DOMAIN emitted' : i < j => emitted'[i].item # emitted'[j].item
      BY <1>5 DEF Pairwise, Good
    <3>2. \A i, j \in DOMAIN emitted' : emitted'[i].item = emitted'[j].item => i = j
      BY <2>1, <3>1
    <3>3. QED
      BY <3>2, <1>6 DEF QueuedOnce
  <2>3. WithinSession'
    BY <1>5 DEF WithinSession, Pairwise, Good
  <2>4. SessionsSeparate'
    BY <1>5 DEF SessionsSeparate, Pairwise, Good, Position, PlaceIn
  <2>5. QED
    BY <2>2, <2>3, <2>4
<1>8. GapsWaitedFor'
  <2>1. SUFFICES ASSUME NEW i \in DOMAIN emitted', emitted'[i].why = "next",
                        NEW k \in 1 .. emitted'[i].item.seq - 1
                 PROVE  \E j \in 1 .. i - 1 :
                          /\ emitted'[j].item.session = emitted'[i].item.session
                          /\ \/ emitted'[j].item.seq = k
                             \/ emitted'[j].item.seq > k /\ emitted'[j].why = "timeout"
    BY DEF GapsWaitedFor
  <2>2. CASE i \in DOMAIN emitted /\ emitted'[i] = emitted[i]
    <3>1. PICK j \in 1 .. i - 1 :
            /\ emitted[j].item.session = emitted[i].item.session
            /\ \/ emitted[j].item.seq = k
               \/ emitted[j].item.seq > k /\ emitted[j].why = "timeout"
      BY <2>1, <2>2, <1>2 DEF GapsWaitedFor
    <3>2. j \in DOMAIN emitted
      BY <2>2, <1>2
    <3>3. emitted'[j] = emitted[j]
      BY <3>2, <1>3
    <3>4. QED
      BY <3>1, <3>3, <2>2
  <2>3. CASE /\ i > Len(emitted) /\ i - Len(emitted) \in DOMAIN new
             /\ emitted'[i] = new[i - Len(emitted)]
    <3> DEFINE m == i - Len(emitted)
    <3>1. m \in DOMAIN new /\ emitted'[i] = new[m] /\ i = m + Len(emitted) /\ i \in Nat
      BY <2>3, <1>2
    <3> HIDE DEF m
    <3>2. CASE Covers(emitted, new[m].item.session, k)
      <4>1. PICK j \in DOMAIN emitted :
              /\ emitted[j].item.session = new[m].item.session
              /\ \/ emitted[j].item.seq = k
                 \/ emitted[j].item.seq > k /\ emitted[j].why = "timeout"
        BY <3>2 DEF Covers
      <4>2. j \in 1 .. i - 1 /\ emitted'[j] = emitted[j]
        BY <1>2, <1>3, <2>3
      <4>3. QED
        BY <4>1, <4>2, <3>1
    <3>3. CASE \E l \in 1 .. m - 1 :
                 /\ l \in DOMAIN new
                 /\ new[l].item.session = new[m].item.session
                 /\ \/ new[l].item.seq = k
                    \/ new[l].item.seq > k /\ new[l].why = "timeout"
      <4>1. PICK l \in 1 .. m - 1 :
              /\ l \in DOMAIN new
              /\ new[l].item.session = new[m].item.session
              /\ \/ new[l].item.seq = k
                 \/ new[l].item.seq > k /\ new[l].why = "timeout"
        BY <3>3
      <4>2. l + Len(emitted) \in 1 .. i - 1 /\ emitted'[l + Len(emitted)] = new[l]
        BY <4>1, <3>1, <1>2, <1>3
      <4>3. QED
        BY <4>1, <4>2, <3>1
    <3>4. QED
      BY <2>1, <3>1, <3>2, <3>3 DEF FillsGaps
  <2>4. QED
    BY <1>3, <2>2, <2>3
<1>9. QED
  BY <1>7, <1>8 DEF InputInOrder

(* So does what is known of each item that went out.                       *)
LEMMA EmittedKept ==
  ASSUME Inv, NEW new \in Seq(Emitted), emitted' = emitted \o new,
         ToSet(seen) \subseteq ToSet(seen'), arrived \subseteq arrived',
         arrivals' \in Nat, arrivals <= arrivals',
         \A s \in ToSet(seen) \union {NoSession} :
           s \in Sessions /\ s = Current' => s = Current /\ nextSeqNum <= nextSeqNum',
         nextSeqNum' \in Nat,
         \A j \in DOMAIN new :
           /\ new[j].item \in arrived' /\ new[j].when <= arrivals'
           /\ new[j].item.session \in ToSet(seen') \union {NoSession}
           /\ new[j].item.session \in Sessions /\ new[j].item.session = Current'
                => new[j].item.seq < nextSeqNum'
  PROVE  EmittedOK'
<1>1. emitted \in Seq(Emitted) /\ EmittedOK
  BY DEF Inv, TypeOK, Emitted
<1>2. \A i \in DOMAIN emitted' :
        \/ i \in DOMAIN emitted /\ emitted'[i] = emitted[i]
        \/ \E j \in DOMAIN new : emitted'[i] = new[j]
  BY <1>1, Together
<1>3. ASSUME NEW i \in DOMAIN emitted
      PROVE  /\ emitted[i].item \in arrived' /\ emitted[i].when <= arrivals'
             /\ emitted[i].item.session \in ToSet(seen') \union {NoSession}
             /\ emitted[i].item.session \in Sessions /\ emitted[i].item.session = Current'
                  => emitted[i].item.seq < nextSeqNum'
  <2>1. /\ emitted[i].item \in arrived /\ emitted[i].when <= arrivals
        /\ emitted[i].item.session \in ToSet(seen) \union {NoSession}
        /\ emitted[i].item.session \in Sessions /\ emitted[i].item.session = Current
             => emitted[i].item.seq < nextSeqNum
    BY <1>1 DEF EmittedOK
  <2>2. emitted[i] \in Emitted
    BY <1>1
  <2>3. arrivals \in Nat /\ emitted[i].when \in Nat /\ nextSeqNum \in Nat
        /\ emitted[i].item \in Numbered \union Plain
    BY <2>2 DEF Emitted, Inv, TypeOK
  <2>4. emitted[i].item.seq \in Nat
    BY <2>3 DEF Numbered, Plain
  <2>5. QED
    BY <2>1, <2>3, <2>4
<1>4. QED
  BY <1>2, <1>3 DEF EmittedOK

(* And what filled a gap goes on filling it.                               *)
LEMMA CoversKept ==
  ASSUME NEW es \in Seq(Emitted), NEW new \in Seq(Emitted), NEW session, NEW k,
         Covers(es, session, k) \/ Covers(new, session, k)
  PROVE  Covers(es \o new, session, k)
<1>1. CASE Covers(es, session, k)
  <2>1. PICK j \in DOMAIN es :
          /\ es[j].item.session = session
          /\ \/ es[j].item.seq = k
             \/ es[j].item.seq > k /\ es[j].why = "timeout"
    BY <1>1 DEF Covers
  <2>2. j \in DOMAIN (es \o new) /\ (es \o new)[j] = es[j]
    BY Together
  <2>3. QED
    BY <2>1, <2>2 DEF Covers
<1>2. CASE Covers(new, session, k)
  <2>1. PICK j \in DOMAIN new :
          /\ new[j].item.session = session
          /\ \/ new[j].item.seq = k
             \/ new[j].item.seq > k /\ new[j].why = "timeout"
    BY <1>2 DEF Covers
  <2>2. j + Len(es) \in DOMAIN (es \o new) /\ (es \o new)[j + Len(es)] = new[j]
    BY Together
  <2>3. QED
    BY <2>1, <2>2 DEF Covers
<1>3. QED
  BY <1>1, <1>2

-----------------------------------------------------------------------------
(* The parts that steps have in common.                                    *)

(* The state is of its types, with the sets finite.                        *)
LEMMA Shapes ==
  ASSUME Inv
  PROVE  /\ SeenOK /\ Len(seen) \in Nat
         /\ IsFiniteSet(buffer) /\ Cardinality(buffer) \in Nat /\ buffer \subseteq Buffered
         /\ IsFiniteSet(timers) /\ Cardinality(timers) \in Nat
         /\ emitted \in Seq(Emitted) /\ Len(emitted) \in Nat
         /\ taken \in Nat /\ taken <= Len(emitted)
         /\ Cardinality(buffer) + Len(emitted) - taken <= BufSize
         /\ arrivals \in Nat /\ arrivals <= MaxItems /\ MaxItems \in Nat /\ MaxSeqNum \in Nat
         /\ nextSeqNum \in 1 .. MaxSeqNum + 1
         /\ Cardinality(Sessions) \in Nat /\ BufSize \in Nat
<1>1. /\ SeenOK /\ Len(seen) \in Nat
      /\ IsFiniteSet(buffer) /\ buffer \subseteq Buffered /\ IsFiniteSet(timers)
      /\ emitted \in Seq(Emitted)
  BY DEF Inv, TypeOK, BufferOK, TimersOK, SeenOK, Buffered, Emitted
<1>2. /\ Cardinality(buffer) \in Nat /\ Cardinality(timers) \in Nat
      /\ Cardinality(Sessions) \in Nat /\ Len(emitted) \in Nat
  BY BoundsAssumption, <1>1, FS_CardinalityType
<1>3. /\ taken \in Nat /\ taken <= Len(emitted)
      /\ Cardinality(buffer) + Len(emitted) - taken <= BufSize
  <2>1. taken \in 0 .. Len(emitted) /\ NeverOverfull
    BY DEF Inv, TypeOK
  <2>2. QED
    BY <2>1, <1>2 DEF NeverOverfull
<1>4. /\ arrivals \in Nat /\ arrivals <= MaxItems /\ MaxItems \in Nat /\ MaxSeqNum \in Nat
      /\ nextSeqNum \in 1 .. MaxSeqNum + 1 /\ BufSize \in Nat
  BY BufSizeAssumption, BoundsAssumption DEF Inv, TypeOK
<1>5. QED
  BY <1>1, <1>2, <1>3, <1>4

(* What waits may be sorted.                                               *)
LEMMA WaitingIsOne ==
  ASSUME Inv, NEW items, items \subseteq buffer
  PROVE  /\ OneSession(items)
         /\ Cardinality(items) \in Nat
         /\ IsFiniteSet(buffer \ items)
         /\ Cardinality(buffer \ items) = Cardinality(buffer) - Cardinality(items)
<1>1. IsFiniteSet(buffer) /\ buffer \subseteq Buffered
  BY Shapes
<1>2. IsFiniteSet(items) /\ Cardinality(items) \in Nat
  BY <1>1, FS_Subset, FS_CardinalityType
<1>3. /\ IsFiniteSet(buffer \ items)
      /\ Cardinality(buffer \ items) = Cardinality(buffer) - Cardinality(buffer \cap items)
  BY <1>1, FS_Difference
<1>4. buffer \cap items = items
  OBVIOUS
<1>5. OneSession(items)
  BY <1>1, <1>2 DEF OneSession, Inv, BufferOK
<1>6. QED
  BY <1>2, <1>3, <1>4, <1>5

(* An item that arrives is none of those that did.                         *)
LEMMA ArrivingIsNew ==
  ASSUME Inv, NEW item \in Numbered \union Plain, Arrives(item)
  PROVE  /\ item \notin arrived /\ item \in arrived' /\ arrived \subseteq arrived'
         /\ arrived' \subseteq Numbered \union Plain
         /\ arrivals' = arrivals + 1 /\ arrivals' \in 1 .. MaxItems /\ arrivals <= arrivals'
         /\ UNCHANGED <<closed, taken, expired>>
         /\ expired' \in 0 .. arrivals'
         /\ \A x \in buffer : x.item # item
         /\ \A i \in DOMAIN emitted : emitted[i].item # item
         /\ item.seq \in Nat \ {0}
<1>1. item.seq \in Nat \ {0}
  BY BoundsAssumption DEF Numbered, Plain
<1>2. /\ \A x \in buffer : x.item \in arrived
      /\ \A i \in DOMAIN emitted : emitted[i].item \in arrived
  BY DEF Inv, BufferOK, EmittedOK
<1>3. arrivals' = arrivals + 1 /\ arrivals' \in 1 .. MaxItems /\ arrivals <= arrivals'
  BY Shapes DEF Arrives
<1>4. expired' \in 0 .. arrivals'
  BY <1>3 DEF Arrives, Inv, TypeOK
<1>5. QED
  BY <1>1, <1>2, <1>3, <1>4 DEF Arrives, Inv, TypeOK

(* One timer more is one more at most.                                     *)
LEMMA OneMore ==
  ASSUME NEW S, IsFiniteSet(S), NEW x
  PROVE  /\ IsFiniteSet(S \union {x}) /\ Cardinality(S \union {x}) \in Nat
         /\ Cardinality(S \union {x}) <= Cardinality(S) + 1
<1>1. IsFiniteSet(S \union {x}) /\ Cardinality(S) \in Nat
  BY FS_AddElement, FS_CardinalityType
<1>2. Cardinality(S \union {x}) = IF x \in S THEN Cardinality(S) ELSE Cardinality(S) + 1
  BY FS_AddElement
<1>3. QED
  BY <1>1, <1>2

(* How many timer ids there are.                                           *)
LEMMA NumbersUpTo ==
  ASSUME NEW n \in Nat
  PROVE  IsFiniteSet(1 .. n) /\ Cardinality(1 .. n) = n
<1>1. 1 \in Int /\ n \in Int
  OBVIOUS
<1>2. IsFiniteSet(1 .. n) /\ Cardinality(1 .. n) = IF 1 > n THEN 0 ELSE n - 1 + 1
  BY <1>1, FS_Interval
<1>3. QED
  BY <1>2

(* There are no more sessions seen than there are, and a timer is free.    *)
LEMMA SeenBound ==
  ASSUME SeenOK
  PROVE  Len(seen) <= Cardinality(Sessions)
<1>1. Len(seen) \in Nat /\ DOMAIN seen = 1 .. Len(seen) /\ seen \in [1 .. Len(seen) -> Sessions]
  BY DEF SeenOK
<1>2. seen \in Injection(1 .. Len(seen), Sessions)
  BY <1>1 DEF SeenOK, Injection
<1>3. Cardinality(1 .. Len(seen)) <= Cardinality(Sessions)
  BY BoundsAssumption, <1>2, FS_Injection
<1>4. Cardinality(1 .. Len(seen)) = Len(seen)
  BY <1>1, NumbersUpTo
<1>5. QED
  BY <1>3, <1>4

(* An id is free for the timer that is to be started.                      *)
LEMMA FreeId ==
  ASSUME Inv, NEW ts, ts \subseteq timers
  PROVE  \E id \in TimerIds : \A t \in ts : t.id # id
<1> DEFINE used == {t.id : t \in ts}
           f == [t \in ts |-> t.id]
<1>1. IsFiniteSet(ts) /\ Cardinality(ts) \in Nat /\ Cardinality(ts) <= Cardinality(timers)
  BY Shapes, FS_Subset, FS_CardinalityType
<1>2. Cardinality(timers) <= Cardinality(Sessions) + 1
  BY Shapes, SeenBound DEF Inv, TimersOK
<1>3. f \in Surjection(ts, used)
  BY DEF Surjection
<1>4. IsFiniteSet(used) /\ Cardinality(used) <= Cardinality(ts)
  <2> HIDE DEF f, used
  <2>1. QED
    BY <1>1, <1>3, FS_Surjection
<1>5. Cardinality(TimerIds) = Cardinality(Sessions) + 2
  <2>1. Cardinality(Sessions) + 2 \in Nat
    BY Shapes
  <2>2. QED
    BY <2>1, NumbersUpTo DEF TimerIds
<1>6. Cardinality(used) \in Nat
  BY <1>4, FS_CardinalityType
<1>7. ~(TimerIds \subseteq used)
  <2> HIDE DEF used
  <2>1. SUFFICES ASSUME TimerIds \subseteq used PROVE FALSE
    OBVIOUS
  <2>2. Cardinality(TimerIds) <= Cardinality(used)
    BY <2>1, <1>4, FS_Subset
  <2>3. QED
    BY <2>2, <1>1, <1>2, <1>4, <1>5, <1>6, Shapes
<1>8. QED
  BY <1>7

(* What waits arrived before whatever arrives next.                        *)
LEMMA ArrivedBefore ==
  ASSUME Inv, NEW x \in buffer, NEW n \in Nat, arrivals <= n
  PROVE  x.at \in Nat /\ x.at <= n
<1>1. x \in Buffered /\ x.at <= arrivals /\ arrivals \in Nat /\ MaxItems \in Nat
  BY Shapes DEF Inv, BufferOK
<1>2. x.at \in Nat
  BY <1>1 DEF Buffered
<1>3. QED
  BY <1>1, <1>2

(* A step that neither takes input in nor gives any out.                   *)
LEMMA QuietKeeps ==
  ASSUME Inv,
         UNCHANGED <<seen, nextSeqNum, buffer, emitted>>,
         arrived \subseteq arrived', arrivals' \in Nat, arrivals <= arrivals'
  PROVE  BufferOK' /\ EmittedOK' /\ CoveredOK' /\ InputInOrder'
<1>1. BufferOK'
  <2>1. \A x \in buffer : x.at <= arrivals'
    BY ArrivedBefore
  <2>2. QED
    BY <2>1 DEF Inv, BufferOK, Current
<1>2. EmittedOK'
  <2>1. \A i \in DOMAIN emitted : emitted[i].when \in Nat /\ arrivals \in Nat
    <3>1. \A i \in DOMAIN emitted : emitted[i] \in Emitted
      BY Shapes
    <3>2. QED
      BY <3>1, Shapes DEF Emitted
  <2>2. QED
    BY <2>1 DEF Inv, EmittedOK, Current
<1>3. CoveredOK'
  BY DEF Inv, CoveredOK, Current
<1>4. InputInOrder'
  BY DEF Inv, InputInOrder, QueuedOnce, WithinSession, GapsWaitedFor, SessionsSeparate, Position
<1>5. QED
  BY <1>1, <1>2, <1>3, <1>4

-----------------------------------------------------------------------------
(* The steps, one by one.                                                  *)

(* Steps that neither take input into the queue nor give any out.          *)
LEMMA RejectedKeeps ==
  ASSUME Inv, NEW item \in Numbered \union Plain, Rejected(item)
  PROVE  Inv'
<1>1. UNCHANGED <<seen, nextSeqNum, buffer, timers, timer, emitted>> /\ Arrives(item)
  BY DEF Rejected
<1>2. /\ arrived \subseteq arrived' /\ arrived' \subseteq Numbered \union Plain
      /\ arrivals' \in 1 .. MaxItems /\ arrivals <= arrivals' /\ expired' \in 0 .. arrivals'
      /\ UNCHANGED <<closed, taken>>
  BY <1>1, ArrivingIsNew
<1>3. BufferOK' /\ EmittedOK' /\ CoveredOK' /\ InputInOrder'
  BY <1>1, <1>2, QuietKeeps
<1>4. TypeOK'
  BY <1>1, <1>2 DEF Inv, TypeOK, NeverOverfull
<1>5. TimersOK'
  <2>1. \A t \in timers : t.at \in Nat /\ arrivals \in Nat
    BY Shapes DEF Inv, TypeOK
  <2>2. QED
    BY <2>1, <1>1, <1>2 DEF Inv, TimersOK
<1>6. QED
  BY <1>3, <1>4, <1>5 DEF Inv

(* Close empties nothing; it stops the timer.                              *)
LEMMA CloseKeeps ==
  ASSUME Inv, Close
  PROVE  Inv'
<1>1. /\ UNCHANGED <<seen, nextSeqNum, buffer, emitted, taken, arrived, arrivals, expired>>
      /\ closed' = TRUE /\ timer' = NoTimer /\ timers' \subseteq timers
  BY DEF Close, Stopped
<1>2. BufferOK' /\ EmittedOK' /\ CoveredOK' /\ InputInOrder'
  BY <1>1, QuietKeeps, Shapes
<1>3. TypeOK'
  BY <1>1 DEF Inv, TypeOK, NeverOverfull
<1>4. /\ IsFiniteSet(timers') /\ Cardinality(timers') <= Cardinality(timers)
      /\ Cardinality(timers') \in Nat
  BY <1>1, Shapes, FS_Subset, FS_CardinalityType
<1>5. TimersOK'
  BY <1>1, <1>4, Shapes DEF Inv, TimersOK
<1>6. QED
  BY <1>2, <1>3, <1>5 DEF Inv

(* processInputQueue makes room in the channel.                            *)
LEMMA TakeKeeps ==
  ASSUME Inv, Take
  PROVE  Inv'
<1>1. /\ UNCHANGED <<seen, nextSeqNum, buffer, closed, timers, timer, emitted, arrived, arrivals,
                     expired>>
      /\ taken < Len(emitted) /\ taken' = taken + 1
  BY DEF Take
<1>2. BufferOK' /\ EmittedOK' /\ CoveredOK' /\ InputInOrder'
  BY <1>1, QuietKeeps, Shapes
<1>3. NeverOverfull' /\ taken' \in 0 .. Len(emitted')
  <2>1. Cardinality(buffer') = Cardinality(buffer) /\ Len(emitted') = Len(emitted)
    BY <1>1
  <2>2. QED
    BY <2>1, <1>1, Shapes DEF NeverOverfull
<1>4. TypeOK'
  BY <1>1, <1>3 DEF Inv, TypeOK
<1>5. TimersOK'
  BY <1>1 DEF Inv, TimersOK
<1>6. QED
  BY <1>2, <1>4, <1>5 DEF Inv

(* Time only passes.                                                       *)
LEMMA TimePassesKeeps ==
  ASSUME Inv, TimePasses
  PROVE  Inv'
<1>1. /\ UNCHANGED <<seen, nextSeqNum, buffer, closed, timers, timer, emitted, taken, arrived,
                     arrivals>>
      /\ expired < arrivals /\ expired' = expired + 1
  BY DEF TimePasses
<1>2. BufferOK' /\ EmittedOK' /\ CoveredOK' /\ InputInOrder'
  BY <1>1, QuietKeeps, Shapes
<1>3. TypeOK'
  BY <1>1, Shapes DEF Inv, TypeOK, NeverOverfull
<1>4. TimersOK'
  BY <1>1 DEF Inv, TimersOK
<1>5. QED
  BY <1>2, <1>3, <1>4 DEF Inv

(* An item that goes past the buffer: no session, an old one, or a number  *)
(* that was given up.                                                      *)
LEMMA PastTheBuffer ==
  ASSUME Inv,
         NEW item \in Numbered \union Plain, Arrives(item), ~Full,
         emitted' = Append(emitted, Emission([item |-> item, at |-> arrivals'], arrivals', "old")),
         UNCHANGED <<seen, nextSeqNum, buffer, timers, timer>>,
         item.session \in ToSet(seen) \union {NoSession},
         item.session \in Sessions /\ item.session = Current => item.seq < nextSeqNum
  PROVE  Inv'
<1> DEFINE e == Emission([item |-> item, at |-> arrivals'], arrivals', "old")
           new == <<e>>
<1>1. /\ item \notin arrived /\ item \in arrived' /\ arrived \subseteq arrived'
      /\ arrived' \subseteq Numbered \union Plain
      /\ arrivals' = arrivals + 1 /\ arrivals' \in 1 .. MaxItems /\ arrivals <= arrivals'
      /\ UNCHANGED <<closed, taken>> /\ expired' \in 0 .. arrivals'
      /\ \A x \in buffer : x.item # item
      /\ \A i \in DOMAIN emitted : emitted[i].item # item
  BY ArrivingIsNew
<1>2. /\ e \in Emitted /\ e.item = item /\ e.at = arrivals' /\ e.when = arrivals' /\ e.why = "old"
  BY <1>1 DEF Emission, Emitted, Reasons
<1> HIDE DEF e
<1>3. new \in Seq(Emitted) /\ DOMAIN new = {1} /\ new[1] = e
  BY <1>2
<1>4. emitted' = emitted \o new /\ emitted' \in Seq(Emitted) /\ Len(emitted') = Len(emitted) + 1
  BY <1>2, Shapes DEF e
<1>5. KeepsPlaces(seen, seen') /\ seen' \in Seq(Sessions)
  BY Shapes DEF KeepsPlaces, SeenOK
<1>6. \A i \in DOMAIN emitted : Good(seen', emitted[i], e)
  <2>1. SUFFICES ASSUME NEW i \in DOMAIN emitted PROVE Good(seen', emitted[i], e)
    OBVIOUS
  <2>2. emitted[i].when <= arrivals /\ emitted[i] \in Emitted
    BY Shapes DEF Inv, EmittedOK
  <2>3. e.at > emitted[i].when
    BY <2>2, <1>1, <1>2, Shapes DEF Emitted
  <2>4. QED
    BY <2>3, <1>1, <1>2 DEF Good
<1> HIDE DEF new
<1>7. InputInOrder'
  <2>1. Pairwise(seen', new)
    BY <1>3 DEF Pairwise
  <2>2. \A i \in DOMAIN emitted, j \in DOMAIN new : Good(seen', emitted[i], new[j])
    BY <1>3, <1>6
  <2>3. \A x \in buffer' : /\ \A i \in DOMAIN emitted : x.item # emitted[i].item
                           /\ \A j \in DOMAIN new : x.item # new[j].item
    BY <1>1, <1>2, <1>3 DEF Inv, InputInOrder, QueuedOnce
  <2>4. FillsGaps(emitted, new)
    BY <1>2, <1>3 DEF FillsGaps
  <2>5. QED
    BY <2>1, <2>2, <2>3, <2>4, <1>3, <1>4, <1>5, OrderKept
<1>8. EmittedOK'
  <2>1. arrivals' \in Nat /\ nextSeqNum' \in Nat /\ nextSeqNum <= nextSeqNum' /\ arrivals' <= arrivals'
    BY <1>1, Shapes
  <2>2. Current' = Current
    BY DEF Current
  <2>3. \A j \in DOMAIN new :
           /\ new[j].item \in arrived' /\ new[j].when <= arrivals'
           /\ new[j].item.session \in ToSet(seen') \union {NoSession}
           /\ new[j].item.session \in Sessions /\ new[j].item.session = Current'
                => new[j].item.seq < nextSeqNum'
    BY <1>1, <1>2, <1>3, <2>1, <2>2
  <2>4. QED
    BY <2>1, <2>2, <2>3, <1>1, <1>3, <1>4, EmittedKept
<1>9. BufferOK'
  <2>1. \A x \in buffer : x.at <= arrivals'
    BY <1>1, ArrivedBefore
  <2>2. QED
    BY <2>1, <1>1 DEF Inv, BufferOK, Current
<1>10. CoveredOK'
  <2>1. \A k : Covers(emitted, Current, k) => Covers(emitted', Current, k)
    <3>1. ASSUME NEW k, Covers(emitted, Current, k) PROVE Covers(emitted \o new, Current, k)
      BY <3>1, <1>3, Shapes, CoversKept
    <3>2. QED
      BY <3>1, <1>4
  <2>2. QED
    BY <2>1 DEF Inv, CoveredOK, Current
<1>11. TimersOK'
  <2>1. \A t \in timers : t.at \in Nat /\ arrivals \in Nat
    BY Shapes DEF Inv, TypeOK
  <2>2. QED
    BY <2>1, <1>1 DEF Inv, TimersOK
<1>12. TypeOK'
  <2>1. NeverOverfull' /\ taken' \in 0 .. Len(emitted')
    <3>1. /\ Cardinality(buffer') = Cardinality(buffer) /\ taken' = taken
          /\ Cardinality(buffer) + Len(emitted) - taken < BufSize
      BY <1>1, Shapes DEF Full
    <3>2. QED
      BY <3>1, <1>4, Shapes DEF NeverOverfull
  <2>2. QED
    BY <2>1, <1>1, <1>4 DEF Inv, TypeOK, Emitted
<1>13. QED
  BY <1>7, <1>8, <1>9, <1>10, <1>11, <1>12 DEF Inv

(* Input without a session goes past the buffer.                           *)
LEMMA BypassKeeps ==
  ASSUME Inv,
         NEW item \in Numbered \union Plain, Bypass(item)
  PROVE  Inv'
<1>1. item.session = NoSession
  BY DEF Bypass, Plain
<1>2. QED
  BY NoSessionAssumption, <1>1, PastTheBuffer DEF Bypass

(* So does input that comes too late.                                      *)
LEMMA QueueOldKeeps ==
  ASSUME Inv,
         NEW item \in Numbered \union Plain, QueueOld(item)
  PROVE  Inv'
BY PastTheBuffer DEF QueueOld, Old, KnownSession

(* An item of a session that was seen.                                     *)
LEMMA KnownIs ==
  ASSUME Inv,
         NEW item \in Numbered \union Plain, KnownSession(item)
  PROVE  /\ Arrives(item) /\ item \in Numbered /\ seen # <<>>
         /\ ~closed /\ Cardinality(buffer) + Len(emitted) - taken < BufSize
         /\ Current \in Sessions /\ Current \in ToSet(seen)
         /\ Position(Current) = Len(seen)
         /\ \A s \in ToSet(seen) : Position(s) \in 1 .. Len(seen)
<1>1. SeenOK /\ Len(seen) \in Nat /\ DOMAIN seen = 1 .. Len(seen)
  BY Shapes DEF SeenOK
<1>2. item.session \in ToSet(seen) /\ ToSet(seen) \subseteq Sessions
  BY <1>1 DEF KnownSession, ToSet, SeenOK
<1>3. item \in Numbered
  BY NoSessionAssumption, <1>2 DEF Plain
<1>4. seen # <<>>
  BY <1>2 DEF ToSet
<1>5. Len(seen) \in DOMAIN seen /\ Current = seen[Len(seen)]
  BY <1>1, <1>4 DEF Current, Last, SeenOK
<1>6. Current \in ToSet(seen)
  BY <1>5 DEF ToSet
<1>7. Position(Current) = Len(seen)
  <2>1. Position(Current) \in DOMAIN seen /\ seen[Position(Current)] = Current
    BY <1>1, <1>6, PositionIs
  <2>2. QED
    BY <2>1, <1>1, <1>5 DEF SeenOK, IsInjective
<1>8. ~closed /\ Cardinality(buffer) + Len(emitted) - taken < BufSize
  BY Shapes DEF KnownSession, Full
<1>9. QED
  BY <1>1, <1>2, <1>3, <1>4, <1>6, <1>7, <1>8, PositionIs DEF KnownSession

(* Without a timer nothing waits.                                          *)
LEMMA NothingWaits ==
  ASSUME Inv, ~closed, timer = NoTimer
  PROVE  buffer = {}
<1>1. \A t \in timers : t.id # NoTimer
  BY DEF Inv, TypeOK, TimerIds, NoTimer
<1>2. QED
  BY <1>1 DEF Inv, TimersOK

(* An early item waits, for as long as the timer that runs or a new one.   *)
LEMMA QueueEarlyKeeps ==
  ASSUME Inv,
         NEW item \in Numbered \union Plain, QueueEarly(item)
  PROVE  Inv'
<1> DEFINE x == [item |-> item, at |-> arrivals']
<1>1. /\ KnownSession(item) /\ Arrives(item) /\ item \in Numbered /\ seen # <<>>
      /\ ~closed /\ Cardinality(buffer) + Len(emitted) - taken < BufSize
      /\ Current \in Sessions
  BY KnownIs DEF QueueEarly
<1>2. /\ item \notin arrived /\ item \in arrived' /\ arrived \subseteq arrived'
      /\ arrived' \subseteq Numbered \union Plain
      /\ arrivals' = arrivals + 1 /\ arrivals' \in 1 .. MaxItems /\ arrivals <= arrivals'
      /\ UNCHANGED <<closed, taken>> /\ expired' \in 0 .. arrivals'
      /\ \A y \in buffer : y.item # item
      /\ \A i \in DOMAIN emitted : emitted[i].item # item
  BY <1>1, ArrivingIsNew
<1>3. /\ item.session = Current /\ item.seq > nextSeqNum
      /\ buffer' = buffer \union {x} /\ UNCHANGED <<seen, nextSeqNum, emitted>>
  BY DEF QueueEarly
<1>4. x \in Buffered /\ x.item = item /\ x.at = arrivals'
  BY <1>1, <1>2 DEF Buffered
<1> HIDE DEF x
<1>5. BufferOK'
  <2>1. IsFiniteSet(buffer')
    BY <1>3, Shapes, OneMore
  <2>2. item.seq >= nextSeqNum
    BY <1>1, <1>3, Shapes DEF Numbered
  <2>3. \A y \in buffer' : y.at <= arrivals'
    BY <1>2, <1>3, <1>4, ArrivedBefore
  <2>4. QED
    BY <2>1, <2>2, <2>3, <1>1, <1>2, <1>3, <1>4 DEF Inv, BufferOK, Current
<1>6. EmittedOK'
  <2>1. \A i \in DOMAIN emitted : emitted[i].when \in Nat /\ arrivals \in Nat
    <3>1. \A i \in DOMAIN emitted : emitted[i] \in Emitted
      BY Shapes
    <3>2. QED
      BY <3>1, Shapes DEF Emitted
  <2>2. QED
    BY <2>1, <1>2, <1>3 DEF Inv, EmittedOK, Current
<1>7. CoveredOK'
  BY <1>3 DEF Inv, CoveredOK, Current
<1>8. InputInOrder'
  <2>1. QueuedOnce'
    BY <1>2, <1>3, <1>4 DEF Inv, InputInOrder, QueuedOnce
  <2>2. QED
    BY <2>1, <1>3 DEF Inv, InputInOrder, WithinSession, GapsWaitedFor, SessionsSeparate, Position
<1>9. NeverOverfull'
  <2>1. Cardinality(buffer') <= Cardinality(buffer) + 1 /\ Cardinality(buffer') \in Nat
    BY <1>3, Shapes, OneMore
  <2>2. Len(emitted') = Len(emitted) /\ taken' = taken
    BY <1>2, <1>3
  <2>3. QED
    BY <2>1, <2>2, <1>1, Shapes DEF NeverOverfull
<1>10. /\ timers' \subseteq [id : TimerIds, at : 1 .. MaxItems] /\ timer' \in TimerIds
       /\ TimersOK'
  <2>1. CASE timer # NoTimer
    <3>1. UNCHANGED <<timers, timer>>
      BY <2>1 DEF QueueEarly
    <3>2. PICK t \in timers : t.id = timer
      BY <1>1, <2>1 DEF Inv, TimersOK
    <3>3. \A u \in timers : u.at \in Nat /\ u.at <= arrivals /\ u.at <= arrivals'
      BY <1>2, Shapes DEF Inv, TypeOK, TimersOK
    <3>4. \A y \in buffer' : \E u \in timers : u.id = timer /\ u.at <= y.at
      BY <3>2, <3>3, <1>1, <1>3, <1>4 DEF Inv, TimersOK
    <3>5. TimersOK'
      BY <3>1, <3>3, <3>4, <1>1, <1>2, <1>3 DEF Inv, TimersOK
    <3>6. QED
      BY <3>1, <3>5, <2>1 DEF Inv, TypeOK
  <2>2. CASE timer = NoTimer
    <3> DEFINE t == [id |-> FreeTimerId, at |-> arrivals']
    <3>1. timer' = FreeTimerId /\ timers' = timers \union {t}
      BY <2>2 DEF QueueEarly
    <3>2. FreeTimerId \in TimerIds
      BY FreeId DEF FreeTimerId
    <3>3. t.id = FreeTimerId /\ t.at = arrivals' /\ t \in [id : TimerIds, at : 1 .. MaxItems]
      BY <3>2, <1>2
    <3> HIDE DEF t
    <3>4. buffer = {}
      BY <1>1, <2>2, NothingWaits
    <3>5. IsFiniteSet(timers') /\ Cardinality(timers') <= Cardinality(timers) + 1
          /\ Cardinality(timers') \in Nat
      BY <3>1, Shapes, OneMore
    <3>6. Cardinality(timers) <= Len(seen)
      BY <1>1, <2>2, Shapes DEF Inv, TimersOK
    <3>7. FreeTimerId # NoTimer
      BY <3>2 DEF TimerIds, NoTimer
    <3>8. \A u \in timers' : u.at <= arrivals'
      BY <3>1, <3>3, <1>2, Shapes DEF Inv, TypeOK, TimersOK
    <3>9. \A y \in buffer' : y.at = arrivals'
      BY <3>4, <1>3, <1>4
    <3>10. Cardinality(timers') <= Len(seen') + 1
      BY <3>5, <3>6, <1>3, Shapes
    <3>11. \A y \in buffer' : \E u \in timers' : u.id = timer' /\ u.at <= y.at
      BY <3>1, <3>3, <3>9, <1>2
    <3>12. \E u \in timers' : u.id = timer'
      BY <3>1, <3>3
    <3>13. TimersOK'
      BY <3>1, <3>5, <3>7, <3>8, <3>10, <3>11, <3>12 DEF TimersOK
    <3>14. QED
      BY <3>1, <3>2, <3>3, <3>13 DEF Inv, TypeOK
  <2>3. QED
    BY <2>1, <2>2
<1>11. TypeOK'
  <2>1. buffer' \subseteq Buffered
    BY <1>3, <1>4, Shapes
  <2>2. QED
    BY <2>1, <1>2, <1>3, <1>9, <1>10 DEF Inv, TypeOK, Buffered
<1>12. QED
  BY <1>5, <1>6, <1>7, <1>8, <1>10, <1>11 DEF Inv

(* What continues the order after the number that was waited for: numbers  *)
(* without a gap, as many as there are items.                              *)
LEMMA RunIs ==
  ASSUME Inv, NEW n \in Nat, NEW run, run = RunFrom(n)
  PROVE  /\ run \subseteq buffer /\ OneSession(run) /\ Cardinality(run) \in Nat
         /\ \A x \in run : x.item.seq \in n .. n + Cardinality(run) - 1
         /\ \A k \in n .. n + Cardinality(run) - 1 : \E x \in run : x.item.seq = k
         /\ \A x \in buffer \ run : x.item.seq >= n => x.item.seq >= n + Cardinality(run)
         /\ run # {} => n + Cardinality(run) <= MaxSeqNum + 1
<1> DEFINE next == {x \in buffer : x.item.session = Current /\ x.item.seq >= n}
<1>1. run = {x \in next : \A k \in n .. x.item.seq : \E y \in next : y.item.seq = k}
  BY DEF RunFrom
<1>2. next \subseteq buffer /\ run \subseteq buffer
  BY <1>1
<1>3. /\ OneSession(buffer) /\ OneSession(run) /\ Cardinality(run) \in Nat /\ IsFiniteSet(run)
      /\ SeenOK /\ MaxSeqNum \in Nat
  BY <1>2, WaitingIsOne, Shapes DEF OneSession
<1>4. \A x, y \in buffer : /\ x.item.seq \in 1 .. MaxSeqNum
                           /\ x.item.seq = y.item.seq => x = y
  BY <1>3, BeforeIsLess
<1>5. \A x \in buffer : x.item.session = Current
  BY <1>3 DEF OneSession
<1>6. \A x \in buffer : x \in next <=> x.item.seq >= n
  BY <1>5
<1>7. \A x \in next : x \in run <=> \A k \in n .. x.item.seq : \E y \in next : y.item.seq = k
  BY <1>1
<1> HIDE DEF next
<1>8. CASE run = {}
  <2>1. Cardinality(run) = 0
    BY <1>8, FS_EmptySet
  <2>2. \A x \in next : x.item.seq # n
    <3>1. SUFFICES ASSUME NEW x \in next, x.item.seq = n PROVE FALSE
      OBVIOUS
    <3>2. \A k \in n .. x.item.seq : \E y \in next : y.item.seq = k
      BY <3>1
    <3>3. QED
      BY <3>1, <3>2, <1>7, <1>8
  <2>3. \A x \in buffer : x.item.seq >= n => x.item.seq >= n
    OBVIOUS
  <2>4. n + Cardinality(run) - 1 = n - 1 /\ n + Cardinality(run) = n
    BY <2>1
  <2>5. QED
    BY <2>1, <2>3, <2>4, <1>2, <1>3, <1>8
<1>9. CASE run # {}
  <2> DEFINE nums == {x.item.seq : x \in run}
  <2>1. nums \in SUBSET Nat /\ nums # {} /\ \A k \in nums : k <= MaxSeqNum
    BY <1>2, <1>3, <1>4, <1>9
  <2>2. PICK m \in nums : \A k \in nums : k <= m
    <3> HIDE DEF nums
    <3>1. QED
      BY <2>1, <1>3, GreatestNumber
  <2>3. PICK last \in run : last.item.seq = m
    BY <2>2
  <2>4. /\ m \in Nat /\ m >= n /\ m <= MaxSeqNum /\ last \in next
        /\ \A x \in run : x.item.seq <= m /\ x.item.seq >= n /\ x.item.seq \in Nat
    BY <2>1, <2>2, <2>3, <1>1, <1>2, <1>4, <1>6
  <2>5. ASSUME NEW k \in n .. m PROVE \E x \in run : x.item.seq = k
    <3>1. PICK y \in next : y.item.seq = k
      BY <2>3, <2>4, <2>5, <1>7
    <3>2. \A l \in n .. y.item.seq : \E z \in next : z.item.seq = l
      BY <3>1, <2>3, <2>4, <2>5, <1>7
    <3>3. QED
      BY <3>1, <3>2, <1>7
  <2>6. Cardinality(run) = m - n + 1
    <3> DEFINE f == [x \in run |-> x.item.seq]
    <3>1. f \in [run -> n .. m]
      BY <2>4
    <3>2. \A x, y \in run : f[x] = f[y] => x = y
      BY <1>2, <1>4
    <3>3. \A k \in n .. m : \E x \in run : f[x] = k
      BY <2>5
    <3>4. f \in Bijection(run, n .. m)
      BY <3>1, <3>2, <3>3 DEF Bijection, Injection, Surjection, IsInjective
    <3> HIDE DEF f
    <3>5. Cardinality(n .. m) = Cardinality(run)
      BY <3>4, <1>3, FS_Bijection DEF ExistsBijection
    <3>6. n \in Int /\ m \in Int
      BY <2>4
    <3>7. Cardinality(n .. m) = IF n > m THEN 0 ELSE m - n + 1
      BY <3>6, FS_Interval
    <3>8. QED
      BY <3>5, <3>7, <2>4
  <2>7. n + Cardinality(run) = m + 1 /\ n + Cardinality(run) - 1 = m
    BY <2>4, <2>6
  <2>8. ASSUME NEW x \in buffer \ run, x.item.seq >= n PROVE x.item.seq >= m + 1
    <3>1. SUFFICES ASSUME x.item.seq \in n .. m PROVE FALSE
      BY <2>4, <2>8, <1>4
    <3>2. PICK y \in run : y.item.seq = x.item.seq
      BY <3>1, <2>5
    <3>3. y \in buffer /\ x \in buffer
      BY <1>2, <2>8
    <3>4. QED
      BY <3>2, <3>3, <2>8, <1>4
  <2>9. QED
    BY <2>4, <2>5, <2>7, <2>8, <1>2, <1>3
<1>10. QED
  BY <1>8, <1>9

(* The place of what comes first.                                          *)
LEMMA AppendTogether ==
  ASSUME NEW T, NEW s \in Seq(T), NEW e \in T, NEW r \in Seq(T)
  PROVE  /\ Append(s, e) = s \o <<e>>
         /\ Append(s, e) \o r = s \o (<<e>> \o r)
         /\ <<e>> \in Seq(T)
OBVIOUS

(* Where the current session is among those seen, also when another came.  *)
LEMMA CurrentIsLast ==
  ASSUME SeenOK, seen # <<>>, NEW tt, KeepsPlaces(seen, tt)
  PROVE  /\ Current \in ToSet(seen) /\ Current \in Sessions
         /\ PlaceIn(tt, Current) = Len(seen) /\ Len(seen) \in Nat
         /\ \A s \in ToSet(seen) : PlaceIn(tt, s) \in 1 .. Len(seen)
<1>1. Len(seen) \in Nat /\ DOMAIN seen = 1 .. Len(seen) /\ Len(seen) \in DOMAIN seen
  BY DEF SeenOK
<1>2. Current = seen[Len(seen)]
  BY DEF Current, Last
<1>3. Current \in ToSet(seen) /\ Current \in Sessions
  BY <1>1, <1>2 DEF ToSet, SeenOK
<1>4. \A s \in ToSet(seen) : PlaceIn(tt, s) = Position(s)
  BY DEF KeepsPlaces, PlaceIn, Position
<1>5. \A s \in ToSet(seen) : Position(s) \in DOMAIN seen /\ seen[Position(s)] = s
  BY <1>1, PositionIs
<1>6. Position(Current) = Len(seen)
  BY <1>1, <1>2, <1>3, <1>5 DEF SeenOK, IsInjective
<1>7. QED
  BY <1>1, <1>3, <1>4, <1>5, <1>6

(* An item of the current session that was not given up agrees with all    *)
(* that went out before it.                                                *)
LEMMA CurrentGoesBehind ==
  ASSUME Inv, seen # <<>>, NEW tt \in Seq(Sessions), KeepsPlaces(seen, tt),
         NEW i \in DOMAIN emitted, NEW f, f.item # emitted[i].item,
         f.item.session = Current, f.item.seq \in Nat, f.item.seq >= nextSeqNum
  PROVE  Good(tt, emitted[i], f)
<1>1. /\ Current \in ToSet(seen) /\ Current \in Sessions
      /\ PlaceIn(tt, Current) = Len(seen) /\ Len(seen) \in Nat
      /\ \A s \in ToSet(seen) : PlaceIn(tt, s) \in 1 .. Len(seen)
  BY Shapes, CurrentIsLast
<1>2. /\ emitted[i].item.session \in ToSet(seen) \union {NoSession}
      /\ emitted[i].item.session \in Sessions /\ emitted[i].item.session = Current
           => emitted[i].item.seq < nextSeqNum
  BY DEF Inv, EmittedOK
<1>3. emitted[i].item.seq \in Nat
  <2>1. emitted[i] \in Emitted
    BY Shapes
  <2>2. QED
    BY <2>1 DEF Emitted, Numbered, Plain
<1>4. nextSeqNum \in Nat
  BY Shapes
<1>5. emitted[i].item.session \in Sessions /\ emitted[i].item.session = f.item.session
        => ~(emitted[i].item.seq > f.item.seq)
  BY <1>2, <1>3, <1>4
<1>6. NoSession \notin ToSet(tt)
  BY NoSessionAssumption DEF ToSet
<1>7. emitted[i].item.session \in ToSet(tt)
        => ~(PlaceIn(tt, Current) < PlaceIn(tt, emitted[i].item.session))
  <2>1. SUFFICES ASSUME emitted[i].item.session \in ToSet(tt)
                 PROVE  ~(PlaceIn(tt, Current) < PlaceIn(tt, emitted[i].item.session))
    OBVIOUS
  <2>2. emitted[i].item.session \in ToSet(seen)
    BY <2>1, <1>2, <1>6
  <2>3. PlaceIn(tt, emitted[i].item.session) \in 1 .. Len(seen)
    BY <2>2, <1>1
  <2>4. QED
    BY <2>3, <1>1
<1>8. QED
  BY <1>5, <1>7 DEF Good

(* Items of the buffer go out in order, and agree with what went before.   *)
LEMMA GivenOut ==
  ASSUME Inv,
         NEW items, items \subseteq buffer,
         NEW when \in 1 .. MaxItems, NEW why \in Reasons,
         NEW es, es = Emissions(Sorted(items), when, why),
         NEW tt \in Seq(Sessions), KeepsPlaces(seen, tt)
  PROVE  /\ es \in Seq(Emitted) /\ Len(es) = Cardinality(items) /\ Rising(es)
         /\ \A j \in DOMAIN es : /\ es[j].when = when /\ es[j].why = why
                                 /\ \E x \in items : es[j].item = x.item
                                 /\ es[j].item \in arrived
                                 /\ es[j].item.session = Current /\ Current \in ToSet(seen)
                                 /\ es[j].item.seq >= nextSeqNum
                                 /\ es[j].item.seq \in 1 .. MaxSeqNum
         /\ \A x \in items : \E j \in DOMAIN es : es[j].item = x.item
         /\ Pairwise(tt, es)
         /\ \A i \in DOMAIN emitted, j \in DOMAIN es : Good(tt, emitted[i], es[j])
         /\ \A x \in buffer \ items, j \in DOMAIN es : x.item # es[j].item
<1>1. OneSession(items) /\ SeenOK
  BY WaitingIsOne, Shapes
<1>2. /\ es \in Seq(Emitted) /\ Len(es) = Cardinality(items) /\ Rising(es)
      /\ \A j \in DOMAIN es : /\ es[j].when = when /\ es[j].why = why
                              /\ \E x \in items : es[j].item = x.item /\ es[j].at = x.at
      /\ \A x \in items : \E j \in DOMAIN es : es[j].item = x.item
  BY <1>1, EmissionsAre
<1>3. ASSUME NEW x \in buffer
      PROVE  /\ x.item \in arrived /\ x.item.session = Current /\ x.item.seq >= nextSeqNum
             /\ x.item.seq \in 1 .. MaxSeqNum /\ seen # <<>>
             /\ \A i \in DOMAIN emitted : x.item # emitted[i].item
  <2>1. x \in Buffered
    BY Shapes
  <2>2. x.item.seq \in 1 .. MaxSeqNum
    BY <2>1 DEF Buffered, Numbered
  <2>3. QED
    BY <2>2 DEF Inv, BufferOK, InputInOrder, QueuedOnce
<1>4. ASSUME NEW j \in DOMAIN es
      PROVE  /\ es[j].item \in arrived /\ es[j].item.session = Current
             /\ es[j].item.seq >= nextSeqNum /\ es[j].item.seq \in 1 .. MaxSeqNum
             /\ seen # <<>>
             /\ \A i \in DOMAIN emitted : emitted[i].item # es[j].item
  BY <1>2, <1>3
<1>5. ASSUME seen # <<>>
      PROVE  /\ Current \in ToSet(seen) /\ Current \in Sessions
             /\ PlaceIn(tt, Current) = Len(seen) /\ Len(seen) \in Nat
             /\ \A s \in ToSet(seen) : PlaceIn(tt, s) \in 1 .. Len(seen)
  BY <1>1, <1>5, CurrentIsLast
<1>6. DOMAIN es = 1 .. Len(es) /\ Len(es) \in Nat
  BY <1>2
<1>7. Pairwise(tt, es)
  <2>1. SUFFICES ASSUME NEW i \in DOMAIN es, NEW j \in DOMAIN es, i < j
                 PROVE  Good(tt, es[i], es[j])
    BY DEF Pairwise
  <2>2. es[i].item.seq < es[j].item.seq
    BY <1>2, <2>1 DEF Rising
  <2>3. /\ es[i].item.seq \in 1 .. MaxSeqNum /\ es[j].item.seq \in 1 .. MaxSeqNum
        /\ es[i].item.session = Current /\ es[j].item.session = Current
    BY <1>4
  <2>4. ~(PlaceIn(tt, Current) < PlaceIn(tt, Current))
    BY <1>4, <1>5
  <2>5. MaxSeqNum \in Nat
    BY Shapes
  <2>6. es[i].item # es[j].item /\ ~(es[i].item.seq > es[j].item.seq)
    BY <2>2, <2>3, <2>5
  <2>7. QED
    BY <2>3, <2>4, <2>6 DEF Good
<1>8. ASSUME NEW i \in DOMAIN emitted, NEW j \in DOMAIN es
      PROVE  Good(tt, emitted[i], es[j])
  <2>1. es[j].item.seq \in Nat
    BY <1>4, Shapes
  <2>2. QED
    BY <2>1, <1>4, CurrentGoesBehind
<1>9. \A x \in buffer \ items, j \in DOMAIN es : x.item # es[j].item
  <2>1. \A x, y \in buffer : x.item = y.item => x = y
    BY DEF Inv, BufferOK
  <2>2. QED
    BY <2>1, <1>2
<1>10. QED
  BY <1>2, <1>4, <1>5, <1>7, <1>8, <1>9

(* The item that was waited for goes out with all that continues it.       *)
LEMMA QueueNextKeeps ==
  ASSUME Inv, NEW item \in Numbered \union Plain, QueueNext(item)
  PROVE  Inv'
<1> DEFINE e   == Emission([item |-> item, at |-> arrivals'], arrivals', "next")
           run == RunFrom(nextSeqNum + 1)
           es  == Emissions(Sorted(run), arrivals', "next")
           new == <<e>> \o es
<1>1. /\ KnownSession(item) /\ Arrives(item) /\ item \in Numbered /\ seen # <<>>
      /\ ~closed /\ Cardinality(buffer) + Len(emitted) - taken < BufSize
      /\ Current \in Sessions /\ Current \in ToSet(seen)
  BY KnownIs DEF QueueNext
<1>2. /\ item \notin arrived /\ item \in arrived' /\ arrived \subseteq arrived'
      /\ arrived' \subseteq Numbered \union Plain
      /\ arrivals' = arrivals + 1 /\ arrivals' \in 1 .. MaxItems /\ arrivals <= arrivals'
      /\ UNCHANGED <<closed, taken>> /\ expired' \in 0 .. arrivals'
      /\ \A y \in buffer : y.item # item
      /\ \A i \in DOMAIN emitted : emitted[i].item # item
  BY <1>1, ArrivingIsNew
<1>3. /\ item.session = Current /\ item.seq = nextSeqNum
      /\ emitted' = Append(emitted, e) \o es
      /\ nextSeqNum' = nextSeqNum + 1 + Cardinality(run)
      /\ buffer' = buffer \ run
      /\ UNCHANGED <<seen, timers, timer>>
  BY DEF QueueNext, Remaining
<1>4. /\ e \in Emitted /\ e.item = item /\ e.when = arrivals' /\ e.why = "next"
  BY <1>1, <1>2 DEF Emission, Emitted, Reasons
<1>5. /\ nextSeqNum \in Nat \ {0} /\ nextSeqNum + 1 \in Nat /\ item.seq \in 1 .. MaxSeqNum
      /\ MaxSeqNum \in Nat
  BY <1>1, Shapes DEF Numbered
<1>6. /\ run \subseteq buffer /\ Cardinality(run) \in Nat
      /\ \A x \in run : x.item.seq \in nextSeqNum + 1 .. nextSeqNum + Cardinality(run)
      /\ \A k \in nextSeqNum + 1 .. nextSeqNum + Cardinality(run) : \E x \in run : x.item.seq = k
      /\ \A x \in buffer \ run : x.item.seq >= nextSeqNum + 1
                                   => x.item.seq >= nextSeqNum + 1 + Cardinality(run)
      /\ run # {} => nextSeqNum + 1 + Cardinality(run) <= MaxSeqNum + 1
  <2> HIDE DEF run
  <2> DEFINE n == nextSeqNum + 1
  <2>1. run = RunFrom(n) /\ n \in Nat
    BY <1>5 DEF run
  <2> HIDE DEF n
  <2>2. /\ run \subseteq buffer /\ Cardinality(run) \in Nat
        /\ \A x \in run : x.item.seq \in n .. n + Cardinality(run) - 1
        /\ \A k \in n .. n + Cardinality(run) - 1 : \E x \in run : x.item.seq = k
        /\ \A x \in buffer \ run : x.item.seq >= n => x.item.seq >= n + Cardinality(run)
        /\ run # {} => n + Cardinality(run) <= MaxSeqNum + 1
    BY <2>1, RunIs
  <2>3. n + Cardinality(run) - 1 = nextSeqNum + Cardinality(run)
    BY <2>2, <1>5 DEF n
  <2>4. QED
    BY <2>2, <2>3 DEF n
<1>7. seen \in Seq(Sessions) /\ KeepsPlaces(seen, seen)
  BY Shapes DEF SeenOK, KeepsPlaces
<1>8. /\ es \in Seq(Emitted) /\ Len(es) = Cardinality(run) /\ Rising(es)
      /\ \A j \in DOMAIN es : /\ es[j].when = arrivals' /\ es[j].why = "next"
                              /\ \E x \in run : es[j].item = x.item
                              /\ es[j].item \in arrived
                              /\ es[j].item.session = Current
                              /\ es[j].item.seq >= nextSeqNum
                              /\ es[j].item.seq \in 1 .. MaxSeqNum
      /\ \A x \in run : \E j \in DOMAIN es : es[j].item = x.item
      /\ Pairwise(seen, es)
      /\ \A i \in DOMAIN emitted, j \in DOMAIN es : Good(seen, emitted[i], es[j])
      /\ \A x \in buffer \ run, j \in DOMAIN es : x.item # es[j].item
  <2>1. "next" \in Reasons
    BY DEF Reasons
  <2> HIDE DEF run
  <2>2. QED
    BY <2>1, <1>2, <1>6, <1>7, GivenOut
<1> HIDE DEF e, es, run
<1>9. \A j \in DOMAIN es : /\ es[j].item.seq \in nextSeqNum + 1 .. nextSeqNum + Cardinality(run)
                           /\ es[j].item # item
  BY <1>2, <1>6, <1>8
<1>10. /\ new \in Seq(Emitted) /\ Len(new) = 1 + Len(es)
       /\ 1 \in DOMAIN new /\ new[1] = e
       /\ \A j \in DOMAIN es : j + 1 \in DOMAIN new /\ new[j + 1] = es[j]
       /\ \A i \in DOMAIN new :
            \/ i = 1 /\ new[i] = e
            \/ i > 1 /\ i - 1 \in DOMAIN es /\ new[i] = es[i - 1]
  <2>1. <<e>> \in Seq(Emitted) /\ Len(<<e>>) = 1 /\ DOMAIN <<e>> = {1} /\ <<e>>[1] = e
    BY <1>4
  <2>2. DOMAIN es = 1 .. Len(es) /\ Len(es) \in Nat
    BY <1>8
  <2> DEFINE one == <<e>>
  <2> HIDE DEF one
  <2>3. /\ one \o es \in Seq(Emitted) /\ Len(one \o es) = Len(one) + Len(es)
        /\ \A i \in DOMAIN one : i \in DOMAIN (one \o es) /\ (one \o es)[i] = one[i]
        /\ \A i \in DOMAIN es : i + Len(one) \in DOMAIN (one \o es)
                                /\ (one \o es)[i + Len(one)] = es[i]
        /\ \A i \in DOMAIN (one \o es) :
             \/ i \in DOMAIN one /\ (one \o es)[i] = one[i]
             \/ /\ i > Len(one) /\ i - Len(one) \in DOMAIN es
                /\ (one \o es)[i] = es[i - Len(one)]
    BY <2>1, <1>8, Together DEF one
  <2>4. QED
    BY <2>1, <2>3 DEF one
<1>11. emitted' = emitted \o new /\ emitted' \in Seq(Emitted)
       /\ Len(emitted') = Len(emitted) + 1 + Cardinality(run)
  <2>1. emitted' = emitted \o new
    <3>1. emitted \in Seq(Emitted)
      BY Shapes
    <3>2. Append(emitted, e) \o es = emitted \o (<<e>> \o es)
      BY <3>1, <1>4, <1>8, AppendTogether
    <3>3. QED
      BY <3>2, <1>3
  <2> HIDE DEF new
  <2>2. emitted' \in Seq(Emitted) /\ Len(emitted') = Len(emitted) + Len(new)
    BY <2>1, <1>10, Shapes, Together
  <2>3. QED
    BY <2>1, <2>2, <1>6, <1>8, <1>10, Shapes
<1>12. Pairwise(seen, new)
  <2>1. Pairwise(seen, <<e>>) /\ <<e>> \in Seq(Emitted)
    BY <1>4 DEF Pairwise
  <2>2. ASSUME NEW j \in DOMAIN es PROVE Good(seen, e, es[j])
    <3>1. ~(PlaceIn(seen, Current) < PlaceIn(seen, Current))
      BY <1>1, <1>7, Shapes, CurrentIsLast
    <3>2. ~(e.item.seq > es[j].item.seq)
      BY <1>3, <1>4, <1>5, <1>6, <1>9
    <3>3. QED
      BY <3>1, <3>2, <1>3, <1>4, <1>8, <1>9 DEF Good
  <2>3. \A i \in DOMAIN <<e>>, j \in DOMAIN es : Good(seen, <<e>>[i], es[j])
    BY <2>2
  <2>4. QED
    BY <2>1, <2>3, <1>8, PairwiseTogether
<1> HIDE DEF new
<1>13. \A i \in DOMAIN emitted, j \in DOMAIN new : Good(seen, emitted[i], new[j])
  <2>1. ASSUME NEW i \in DOMAIN emitted PROVE Good(seen, emitted[i], e)
    <3>1. /\ e.item.session = Current /\ e.item.seq \in Nat /\ e.item.seq >= nextSeqNum
          /\ e.item # emitted[i].item
      BY <1>2, <1>3, <1>4, <1>5
    <3>2. QED
      BY <3>1, <1>1, <1>7, CurrentGoesBehind
  <2>2. QED
    BY <2>1, <1>8, <1>10
<1>14. FillsGaps(emitted, new)
  <2>1. SUFFICES ASSUME NEW j \in DOMAIN new, NEW k \in 1 .. new[j].item.seq - 1
                 PROVE  \/ Covers(emitted, new[j].item.session, k)
                        \/ \E i \in 1 .. j - 1 :
                             /\ i \in DOMAIN new
                             /\ new[i].item.session = new[j].item.session
                             /\ new[i].item.seq = k
    BY DEF FillsGaps
  <2>2. /\ new[j].item.session = Current /\ k \in Nat /\ k >= 1
        /\ new[j].item.seq \in Nat /\ k < new[j].item.seq
    <3>1. e.item.session = Current /\ e.item.seq \in Nat
      BY <1>3, <1>4, <1>5
    <3>2. \A i \in DOMAIN es : es[i].item.session = Current /\ es[i].item.seq \in Nat
      BY <1>5, <1>8
    <3>3. new[j].item.session = Current /\ new[j].item.seq \in Nat
      BY <3>1, <3>2, <1>10
    <3>4. QED
      BY <2>1, <3>3
  <2>3. CASE k < nextSeqNum
    BY <2>2, <2>3, <1>1, <1>5 DEF Inv, CoveredOK
  <2>4. CASE k >= nextSeqNum
    <3>1. j > 1 /\ j - 1 \in DOMAIN es /\ new[j] = es[j - 1]
      BY <2>1, <2>2, <2>4, <1>3, <1>4, <1>5, <1>10
    <3>2. CASE k = nextSeqNum
      <4>1. 1 \in 1 .. j - 1
        BY <3>1, <1>8
      <4>2. new[1].item.session = new[j].item.session /\ new[1].item.seq = k
        BY <2>2, <3>2, <1>3, <1>4, <1>10
      <4>3. QED
        BY <4>1, <4>2, <1>10
    <3>3. CASE k > nextSeqNum
      <4>1. k \in nextSeqNum + 1 .. nextSeqNum + Cardinality(run)
        BY <2>2, <3>1, <3>3, <1>5, <1>6, <1>9
      <4>2. PICK x \in run : x.item.seq = k
        BY <4>1, <1>6
      <4>3. PICK l \in DOMAIN es : es[l].item = x.item
        BY <1>8
      <4>4. /\ DOMAIN es = 1 .. Len(es) /\ Len(es) \in Nat
            /\ es[l].item.seq = k /\ es[l].item.seq < es[j - 1].item.seq
        BY <2>2, <3>1, <4>2, <4>3, <1>8
      <4>5. ~(j - 1 < l) /\ j - 1 # l
        <5>1. j - 1 < l => es[j - 1].item.seq < es[l].item.seq
          BY <3>1, <1>8 DEF Rising
        <5>2. es[l].item.seq \in Nat /\ es[j - 1].item.seq \in Nat
          BY <2>2, <3>1, <4>4
        <5>3. QED
          BY <4>4, <5>1, <5>2
      <4>6. l + 1 \in 1 .. j - 1
        BY <3>1, <4>4, <4>5
      <4>7. l + 1 \in DOMAIN new /\ new[l + 1] = es[l]
        BY <1>10
      <4>8. QED
        BY <2>2, <4>4, <4>6, <4>7, <1>8
    <3>4. QED
      BY <2>2, <2>4, <3>2, <3>3, <1>5
  <2>5. QED
    BY <2>2, <2>3, <2>4, <1>5
<1>15. \A x \in buffer' : /\ \A i \in DOMAIN emitted : x.item # emitted[i].item
                          /\ \A j \in DOMAIN new : x.item # new[j].item
  <2>1. \A x \in buffer : \A i \in DOMAIN emitted : x.item # emitted[i].item
    BY DEF Inv, InputInOrder, QueuedOnce
  <2>2. ASSUME NEW x \in buffer', NEW j \in DOMAIN new PROVE x.item # new[j].item
    <3>1. x \in buffer \ run
      BY <1>3
    <3>2. x.item # e.item /\ \A i \in DOMAIN es : x.item # es[i].item
      BY <3>1, <1>2, <1>4, <1>8
    <3>3. QED
      BY <3>2, <1>10
  <2>3. QED
    BY <2>1, <2>2, <1>3
<1>16. InputInOrder'
  <2>1. seen' = seen
    BY <1>3
  <2>2. QED
    BY <2>1, <1>7, <1>10, <1>11, <1>12, <1>13, <1>14, <1>15, OrderKept
<1>17. nextSeqNum' \in 1 .. MaxSeqNum + 1 /\ nextSeqNum <= nextSeqNum'
  <2>1. run = {} => Cardinality(run) = 0
    BY FS_EmptySet
  <2>2. QED
    BY <2>1, <1>3, <1>5, <1>6
<1>18. EmittedOK'
  <2>1. Current' = Current /\ ToSet(seen') = ToSet(seen)
    BY <1>3 DEF Current
  <2>2. arrivals' \in Nat /\ nextSeqNum' \in Nat /\ arrivals' <= arrivals'
    BY <1>2, <1>17
  <2>3. \A j \in DOMAIN new :
           /\ new[j].item \in arrived' /\ new[j].when <= arrivals'
           /\ new[j].item.session \in ToSet(seen')
           /\ new[j].item.seq < nextSeqNum'
    <3>1. /\ e.item \in arrived' /\ e.when <= arrivals' /\ e.item.session \in ToSet(seen')
          /\ e.item.seq < nextSeqNum'
      BY <2>1, <2>2, <1>1, <1>2, <1>3, <1>4, <1>5, <1>6
    <3>2. ASSUME NEW j \in DOMAIN es
          PROVE  /\ es[j].item \in arrived' /\ es[j].when <= arrivals'
                 /\ es[j].item.session \in ToSet(seen')
                 /\ es[j].item.seq < nextSeqNum'
      <4>1. es[j].item \in arrived' /\ es[j].when <= arrivals'
        BY <2>2, <1>2, <1>8
      <4>2. es[j].item.session \in ToSet(seen')
        BY <2>1, <1>1, <1>8
      <4>3. es[j].item.seq \in nextSeqNum + 1 .. nextSeqNum + Cardinality(run)
        BY <1>9
      <4>4. es[j].item.seq < nextSeqNum'
        BY <4>3, <1>3, <1>5, <1>6
      <4>5. QED
        BY <4>1, <4>2, <4>4
    <3>3. QED
      BY <3>1, <3>2, <1>10
  <2>4. QED
    BY <2>1, <2>2, <2>3, <1>2, <1>10, <1>11, <1>17, EmittedKept
<1>19. CoveredOK'
  <2>1. SUFFICES ASSUME NEW k \in 1 .. nextSeqNum' - 1
                 PROVE  Covers(emitted, Current, k) \/ Covers(new, Current, k)
    BY <1>3, <1>10, <1>11, Shapes, CoversKept DEF CoveredOK, Current
  <2>2. CASE k < nextSeqNum
    BY <2>1, <2>2, <1>1, <1>5 DEF Inv, CoveredOK
  <2>3. CASE k = nextSeqNum
    BY <2>3, <1>3, <1>4, <1>10 DEF Covers
  <2>4. CASE k > nextSeqNum
    <3>1. k \in nextSeqNum + 1 .. nextSeqNum + Cardinality(run)
      BY <2>1, <2>4, <1>3, <1>5, <1>6
    <3>2. PICK x \in run : x.item.seq = k
      BY <3>1, <1>6
    <3>3. PICK l \in DOMAIN es : es[l].item = x.item
      BY <1>8
    <3>4. l + 1 \in DOMAIN new /\ new[l + 1] = es[l]
      BY <1>10
    <3>5. QED
      BY <3>2, <3>3, <3>4, <1>8 DEF Covers
  <2>5. QED
    BY <2>1, <2>2, <2>3, <2>4, <1>5
<1>20. BufferOK'
  <2>1. IsFiniteSet(buffer') /\ buffer' \subseteq buffer
    BY <1>3, Shapes, FS_Subset
  <2>2. ASSUME NEW x \in buffer' PROVE x.item.seq >= nextSeqNum'
    <3>1. /\ x \in buffer /\ x \notin run /\ x.item.session = Current /\ x.item.seq >= nextSeqNum
          /\ x.item # item
      BY <2>1, <1>2, <1>3 DEF Inv, BufferOK
    <3>2. x.item \in Numbered
      BY <3>1, Shapes DEF Buffered
    <3>3. x.item.seq \in Nat
      BY <3>2, <1>5 DEF Numbered
    <3>4. x.item.seq # nextSeqNum
      <4>1. \A a, b \in Numbered : a.session = b.session /\ a.seq = b.seq => a = b
        BY DEF Numbered
      <4>2. QED
        BY <4>1, <3>1, <3>2, <1>1, <1>3
    <3>5. x.item.seq >= nextSeqNum + 1
      BY <3>1, <3>3, <3>4, <1>5
    <3>6. QED
      BY <3>1, <3>5, <1>3, <1>6
  <2>3. \A y \in buffer' : y.at <= arrivals'
    BY <2>1, <1>2, ArrivedBefore
  <2>4. QED
    BY <2>1, <2>2, <2>3, <1>1, <1>2, <1>3 DEF Inv, BufferOK, Current
<1>21. TimersOK'
  <2>1. \A t \in timers : t.at \in Nat /\ arrivals \in Nat
    BY Shapes DEF Inv, TypeOK
  <2>2. QED
    BY <2>1, <1>2, <1>3 DEF Inv, TimersOK
<1>22. TypeOK'
  <2>1. Cardinality(buffer') = Cardinality(buffer) - Cardinality(run)
    BY <1>3, <1>6, WaitingIsOne
  <2>2. NeverOverfull' /\ taken' \in 0 .. Len(emitted')
    <3>1. /\ Cardinality(buffer) \in Nat /\ Len(emitted) \in Nat /\ taken \in Nat
          /\ taken <= Len(emitted) /\ BufSize \in Nat
      BY Shapes
    <3>2. taken' = taken /\ Cardinality(run) \in Nat
      BY <1>2, <1>6
    <3>3. Cardinality(buffer') + Len(emitted') - taken' <= BufSize
      BY <3>1, <3>2, <2>1, <1>1, <1>11
    <3>4. taken' \in 0 .. Len(emitted')
      BY <3>1, <3>2, <1>11
    <3>5. QED
      BY <3>3, <3>4 DEF NeverOverfull
  <2>3. buffer' \subseteq Buffered
    BY <1>3, Shapes
  <2>4. QED
    BY <2>2, <2>3, <1>2, <1>3, <1>11, <1>17 DEF Inv, TypeOK, Emitted, Buffered
<1>23. QED
  BY <1>16, <1>18, <1>19, <1>20, <1>21, <1>22 DEF Inv

(* The number expected after the timer gave items out.                     *)
LEMMA NextAfterIs ==
  ASSUME Inv, NEW items, items \subseteq buffer, NEW n, n = NextAfter(items)
  PROVE  /\ n \in 1 .. MaxSeqNum + 1 /\ n >= nextSeqNum
         /\ \A x \in items : x.item.seq + 1 <= n
         /\ n # nextSeqNum => \E x \in items : n = x.item.seq + 1
<1> DEFINE current == {x.item.seq + 1 : x \in {y \in items : y.item.session = Current}}
           nums == current \union {nextSeqNum}
<1>1. nextSeqNum \in 1 .. MaxSeqNum + 1 /\ MaxSeqNum \in Nat
  BY Shapes
<1>2. \A x \in items : x.item.session = Current /\ x.item.seq \in 1 .. MaxSeqNum
  <2>1. \A x \in items : x \in buffer /\ x \in Buffered
    BY Shapes
  <2>2. QED
    BY <2>1 DEF Inv, BufferOK, Buffered, Numbered
<1>3. nums \in SUBSET Nat /\ nums # {} /\ \A k \in nums : k <= MaxSeqNum + 1 /\ k >= 1
  BY <1>1, <1>2
<1>4. n = Max(nums)
  BY DEF NextAfter
<1>5. \E k \in nums : \A l \in nums : l <= k
  <2> HIDE DEF nums
  <2>1. MaxSeqNum + 1 \in Nat
    BY <1>1
  <2>2. QED
    BY <2>1, <1>3, GreatestNumber
<1>6. n \in nums /\ \A l \in nums : n >= l
  <2> HIDE DEF nums
  <2>1. \E k \in nums : \A l \in nums : k >= l
    BY <1>3, <1>5
  <2>2. QED
    BY <2>1, <1>4 DEF Max
<1>7. nextSeqNum \in nums /\ \A x \in items : x.item.seq + 1 \in nums
  BY <1>2
<1>8. n # nextSeqNum => \E x \in items : n = x.item.seq + 1
  BY <1>6
<1>9. n \in 1 .. MaxSeqNum + 1 /\ n >= nextSeqNum
  BY <1>1, <1>3, <1>6, <1>7
<1>10. \A x \in items : x.item.seq + 1 <= n
  <2>1. SUFFICES ASSUME NEW x \in items PROVE x.item.seq + 1 <= n
    OBVIOUS
  <2>2. n >= x.item.seq + 1 /\ x.item.seq \in 1 .. MaxSeqNum
    BY <1>2, <1>6, <1>7
  <2>3. QED
    BY <2>2, <1>1, <1>9
<1>11. QED
  BY <1>8, <1>9, <1>10

(* A set of numbers has the least that Rearm takes.                        *)
LEMMA MinIs ==
  ASSUME NEW T \in SUBSET Nat, T # {}
  PROVE  Min(T) \in T /\ \A y \in T : Min(T) <= y
BY LeastNumber DEF Min

(* What the timer gives out, and what stays.                               *)
LEMMA DueIs ==
  ASSUME Inv, NEW out, NEW due, due \subseteq buffer,
         out = {x \in buffer : \E y \in due : x = y \/ Before(x, y)}
  PROVE  /\ out \subseteq buffer
         /\ \A x \in out : \E y \in out : y \in due /\ x.item.seq <= y.item.seq
         /\ \A x \in buffer \ out, y \in out : y.item.seq + 1 <= x.item.seq
<1>1. OneSession(buffer) /\ SeenOK /\ MaxSeqNum \in Nat
  BY WaitingIsOne, Shapes
<1>2. \A x, y \in buffer : /\ Before(x, y) <=> x.item.seq < y.item.seq
                           /\ x.item.seq \in 1 .. MaxSeqNum /\ y.item.seq \in 1 .. MaxSeqNum
                           /\ x # y => x.item.seq # y.item.seq
  BY <1>1, BeforeIsLess
<1>3. due \subseteq out
  OBVIOUS
<1>4. ASSUME NEW x \in out PROVE \E y \in out : y \in due /\ x.item.seq <= y.item.seq
  <2>1. PICK y \in due : x = y \/ Before(x, y)
    OBVIOUS
  <2>2. QED
    BY <2>1, <1>1, <1>2, <1>3
<1>5. ASSUME NEW x \in buffer \ out, NEW y \in out PROVE y.item.seq + 1 <= x.item.seq
  <2>1. PICK z \in due : y.item.seq <= z.item.seq
    BY <1>4
  <2>2. x # z /\ ~(x.item.seq < z.item.seq)
    BY <1>2
  <2>3. z \in buffer /\ x \in buffer /\ y \in buffer
    OBVIOUS
  <2>4. QED
    BY <2>1, <2>2, <2>3, <1>1, <1>2
<1>6. QED
  BY <1>4, <1>5

(* A number below the next one that is not below the last one.             *)
LEMMA Beyond ==
  ASSUME NEW n \in Nat, NEW m \in Nat, NEW k \in 1 .. m - 1, k >= n
  PROVE  m # n /\ k \in Nat /\ k <= m - 1
OBVIOUS

(* A callback gives out what timed out, and starts the next timer.         *)
LEMMA OnTimeoutKeeps ==
  ASSUME Inv, NEW t \in timers, OnTimeout(t)
  PROVE  Inv'
<1> DEFINE due == {x \in buffer : x.at <= expired}
           out == {x \in buffer : \E y \in due : x = y \/ Before(x, y)}
           rest == buffer \ out
           es == Emissions(Sorted(out), arrivals, "timeout")
           others == timers \ {t}
           id == CHOOSE i \in TimerIds : \A u \in others : u.id # i
<1>1. /\ UNCHANGED <<seen, closed, taken, arrived, arrivals, expired>> /\ t.at <= expired
      /\ closed => timers' = others /\ UNCHANGED <<timer, buffer, emitted, nextSeqNum>>
      /\ ~closed => /\ emitted' = emitted \o es
                    /\ nextSeqNum' = NextAfter(out)
                    /\ buffer' = rest
                    /\ timers' = others \union {[id |-> id, at |-> a] : a \in Rearm(rest)}
                    /\ timer' = IF Rearm(rest) = {} THEN NoTimer ELSE id
  BY DEF OnTimeout, Remaining
<1>2. /\ IsFiniteSet(others) /\ Cardinality(others) \in Nat
      /\ Cardinality(others) = Cardinality(timers) - 1
      /\ others \subseteq timers /\ Cardinality(timers) <= Len(seen) + 1
  <2>1. IsFiniteSet(others) /\ Cardinality(others) = Cardinality(timers) - 1
    BY Shapes, FS_RemoveElement
  <2>2. QED
    BY <2>1, Shapes, FS_CardinalityType DEF Inv, TimersOK
<1>3. CASE closed
  <2>1. BufferOK' /\ EmittedOK' /\ CoveredOK' /\ InputInOrder'
    BY <1>1, <1>3, QuietKeeps, Shapes
  <2>2. TypeOK'
    BY <1>1, <1>3 DEF Inv, TypeOK, NeverOverfull
  <2>3. TimersOK'
    <3>1. timers' = others /\ UNCHANGED <<closed, seen, arrivals>>
      BY <1>1, <1>3
    <3> HIDE DEF others
    <3>2. Cardinality(others) <= Len(seen) + 1
      BY <1>2, Shapes
    <3>3. \A u \in others : u.at <= arrivals
      BY <1>2 DEF Inv, TimersOK
    <3>4. QED
      BY <3>1, <3>2, <3>3, <1>2, <1>3 DEF TimersOK
  <2>4. QED
    BY <2>1, <2>2, <2>3 DEF Inv
<1>4. CASE ~closed
  <2>1. arrivals \in 1 .. MaxItems /\ arrivals \in Nat
    <3>1. t.at \in 1 .. MaxItems /\ expired \in 0 .. arrivals
      BY DEF Inv, TypeOK
    <3>2. QED
      BY <3>1, <1>1, Shapes
  <2>2. /\ out \subseteq buffer
        /\ \A x \in out : \E y \in out : y \in due /\ x.item.seq <= y.item.seq
        /\ \A x \in buffer \ out, y \in out : y.item.seq + 1 <= x.item.seq
    <3>1. due \subseteq buffer
      OBVIOUS
    <3> HIDE DEF due
    <3>2. QED
      BY <3>1, DueIs
  <2>3. id \in TimerIds /\ \A u \in others : u.id # id
    <3>1. others \subseteq timers
      BY <1>2
    <3> HIDE DEF others
    <3>2. \E i \in TimerIds : \A u \in others : u.id # i
      BY <3>1, FreeId
    <3>3. QED
      BY <3>2
  <2>15. /\ emitted' = emitted \o es /\ nextSeqNum' = NextAfter(out) /\ buffer' = rest
         /\ timers' = others \union {[id |-> id, at |-> a] : a \in Rearm(rest)}
         /\ timer' = IF Rearm(rest) = {} THEN NoTimer ELSE id
    BY <1>1, <1>4
  <2> HIDE DEF id, out
  <2>4. /\ nextSeqNum' \in 1 .. MaxSeqNum + 1 /\ nextSeqNum' >= nextSeqNum
        /\ \A x \in out : x.item.seq + 1 <= nextSeqNum'
        /\ nextSeqNum' # nextSeqNum => \E x \in out : nextSeqNum' = x.item.seq + 1
    BY <2>15, <1>1, <2>2, NextAfterIs
  <2> HIDE DEF others
  <2>5. nextSeqNum \in Nat /\ nextSeqNum' \in Nat /\ MaxSeqNum \in Nat
    BY <2>4, Shapes
  <2>6. seen \in Seq(Sessions) /\ KeepsPlaces(seen, seen) /\ seen' = seen
    BY <1>1, Shapes DEF SeenOK, KeepsPlaces
  <2>7. /\ es \in Seq(Emitted) /\ Len(es) = Cardinality(out) /\ Rising(es)
        /\ \A j \in DOMAIN es : /\ es[j].when = arrivals /\ es[j].why = "timeout"
                                /\ \E x \in out : es[j].item = x.item
                                /\ es[j].item \in arrived
                                /\ es[j].item.session = Current /\ Current \in ToSet(seen)
                                /\ es[j].item.seq >= nextSeqNum
                                /\ es[j].item.seq \in 1 .. MaxSeqNum
        /\ \A x \in out : \E j \in DOMAIN es : es[j].item = x.item
        /\ Pairwise(seen, es)
        /\ \A i \in DOMAIN emitted, j \in DOMAIN es : Good(seen, emitted[i], es[j])
        /\ \A x \in buffer \ out, j \in DOMAIN es : x.item # es[j].item
    <3>1. "timeout" \in Reasons
      BY DEF Reasons
    <3>2. QED
      BY <3>1, <2>1, <2>2, <2>6, GivenOut
  <2> HIDE DEF es
  <2>8. InputInOrder'
    <3>1. FillsGaps(emitted, es)
      BY <2>7 DEF FillsGaps
    <3>2. \A x \in buffer' : /\ \A i \in DOMAIN emitted : x.item # emitted[i].item
                             /\ \A j \in DOMAIN es : x.item # es[j].item
      BY <2>15, <1>1, <2>7 DEF Inv, InputInOrder, QueuedOnce
    <3>3. /\ emitted' = emitted \o es /\ KeepsPlaces(seen, seen') /\ seen' \in Seq(Sessions)
          /\ Pairwise(seen', es)
          /\ \A i \in DOMAIN emitted, j \in DOMAIN es : Good(seen', emitted[i], es[j])
      BY <2>6, <2>7, <2>15
    <3>4. QED
      BY <3>1, <3>2, <3>3, <2>7, OrderKept
  <2>9. EmittedOK'
    <3>1. Current' = Current /\ ToSet(seen') = ToSet(seen)
      BY <2>6 DEF Current
    <3>2. \A j \in DOMAIN es :
             /\ es[j].item \in arrived' /\ es[j].when <= arrivals'
             /\ es[j].item.session \in ToSet(seen')
             /\ es[j].item.seq < nextSeqNum'
      <4>1. SUFFICES ASSUME NEW j \in DOMAIN es
                     PROVE  es[j].when <= arrivals' /\ es[j].item.seq < nextSeqNum'
        BY <3>1, <1>1, <2>7
      <4>2. PICK x \in out : es[j].item = x.item
        BY <2>7
      <4>3. x.item.seq + 1 <= nextSeqNum' /\ es[j].item.seq \in 1 .. MaxSeqNum
        BY <2>4, <2>7
      <4>4. es[j].item.seq < nextSeqNum'
        <5>1. es[j].item.seq + 1 <= nextSeqNum' /\ es[j].item.seq \in Nat
          BY <4>2, <4>3, <2>5
        <5>2. QED
          BY <5>1, <2>5
      <4>5. es[j].when <= arrivals'
        <5>1. es[j].when = arrivals /\ arrivals' = arrivals
          BY <1>1, <2>7
        <5>2. QED
          BY <5>1, <2>1
      <4>6. QED
        BY <4>4, <4>5
    <3>3. arrivals' \in Nat /\ arrivals <= arrivals' /\ arrived \subseteq arrived'
      BY <1>1, <2>1
    <3>4. nextSeqNum <= nextSeqNum'
      BY <2>4, <2>5
    <3>5. QED
      BY <3>1, <3>2, <3>3, <3>4, <2>15, <1>1, <2>5, <2>7, EmittedKept
  <2>10. CoveredOK'
    <3>1. SUFFICES ASSUME seen # <<>>, NEW k \in 1 .. nextSeqNum' - 1
                   PROVE  Covers(emitted, Current, k) \/ Covers(es, Current, k)
      <4>1. /\ emitted' = emitted \o es /\ emitted \in Seq(Emitted) /\ es \in Seq(Emitted)
            /\ seen' = seen
        BY <2>6, <2>7, <2>15, Shapes
      <4>2. Current' = Current
        BY <4>1 DEF Current
      <4>3. \A k \in 1 .. nextSeqNum' - 1 :
              Covers(emitted, Current, k) \/ Covers(es, Current, k)
                => Covers(emitted \o es, Current, k)
        BY <4>1, CoversKept
      <4>4. QED
        BY <4>1, <4>2, <4>3 DEF CoveredOK
    <3>2. CASE k < nextSeqNum
      BY <3>1, <3>2, <2>5 DEF Inv, CoveredOK
    <3>3. CASE k >= nextSeqNum
      <4>6. nextSeqNum' # nextSeqNum /\ k \in Nat /\ k <= nextSeqNum' - 1
        <5>1. k \in 1 .. nextSeqNum' - 1 /\ k >= nextSeqNum
          BY <3>1, <3>3
        <5>2. QED
          BY <5>1, <2>5, Beyond
      <4>1. PICK x \in out : nextSeqNum' = x.item.seq + 1
        BY <4>6, <2>4
      <4>2. PICK j \in DOMAIN es : es[j].item = x.item
        BY <2>7
      <4>3. es[j].item.seq \in Nat /\ es[j].item.seq >= k
        <5>1. es[j].item.seq \in Nat /\ nextSeqNum' = es[j].item.seq + 1
          <6>1. es[j].item.seq \in 1 .. MaxSeqNum /\ es[j].item.seq = x.item.seq
            BY <4>2, <2>7
          <6>2. QED
            BY <6>1, <4>1, <2>5
        <5>2. QED
          BY <4>6, <5>1
      <4>4. es[j].item.seq = k \/ es[j].item.seq > k
        BY <3>1, <4>3
      <4>5. QED
        BY <4>4, <2>7 DEF Covers
    <3>4. QED
      BY <3>1, <3>2, <3>3, <2>5
  <2>11. BufferOK'
    <3>1. buffer' \subseteq buffer /\ IsFiniteSet(buffer')
      BY <2>15, <1>1, Shapes, FS_Subset
    <3>2. ASSUME NEW x \in buffer' PROVE x.item.seq >= nextSeqNum'
      <4>1. x \in buffer \ out
        BY <2>15, <1>1
      <4>2. x.item.seq >= nextSeqNum
        BY <4>1 DEF Inv, BufferOK
      <4>3. \A y \in out : nextSeqNum' = y.item.seq + 1 => x.item.seq >= nextSeqNum'
        <5>1. x.item.seq \in Nat
          <6>1. x \in Buffered
            BY <4>1, Shapes
          <6>2. QED
            BY <6>1 DEF Buffered, Numbered
        <5>2. QED
          BY <4>1, <5>1, <2>2, <2>5
      <4>4. QED
        BY <4>2, <4>3, <2>4
    <3>3. QED
      BY <3>1, <3>2, <1>1 DEF Inv, BufferOK, Current
  <2>12. /\ TimersOK' /\ timer' \in TimerIds \union {NoTimer}
         /\ timers' \subseteq [id : TimerIds, at : 1 .. MaxItems]
    <3>1. CASE rest = {}
      <4>1. timers' = others /\ timer' = NoTimer /\ buffer' = {}
        BY <3>1, <2>15, <1>1 DEF Rearm
      <4>2. Cardinality(timers') <= Len(seen')
        BY <4>1, <1>2, <2>6, Shapes
      <4>3. Len(seen') + 0 = Len(seen')
        BY <2>6, Shapes
      <4>4. QED
        BY <4>1, <4>2, <4>3, <1>1, <1>2, <1>4 DEF Inv, TypeOK, TimersOK
    <3>2. CASE rest # {}
      <4> DEFINE ats == {x.at : x \in rest}
                 a == Min(ats)
                 u == [id |-> id, at |-> a]
      <4>1. \A x \in rest : x.at \in 1 .. MaxItems /\ x.at <= arrivals
        <5>1. \A x \in rest : x \in buffer /\ x \in Buffered
          BY Shapes
        <5>2. QED
          BY <5>1 DEF Inv, BufferOK, Buffered
      <4>2. a \in ats /\ \A y \in ats : a <= y
        <5>1. ats \in SUBSET Nat /\ ats # {}
          BY <3>2, <4>1, Shapes
        <5> HIDE DEF ats
        <5>2. QED
          BY <5>1, MinIs
      <4>3. Rearm(rest) = {a}
        BY <3>2 DEF Rearm
      <4>4. \A x \in rest : a <= x.at
        BY <4>2
      <4>5. a \in 1 .. MaxItems /\ a <= arrivals
        BY <4>1, <4>2
      <4> HIDE DEF ats, a
      <4>6. u \in [id : TimerIds, at : 1 .. MaxItems] /\ u.id = id /\ u.at = a
        BY <2>3, <4>5
      <4>7. timers' = others \union {u} /\ timer' = id /\ buffer' = rest
        <5>1. {[id |-> id, at |-> b] : b \in {a}} = {u}
          OBVIOUS
        <5>2. {a} # {}
          OBVIOUS
        <5>3. QED
          BY <5>1, <5>2, <4>3, <2>15, <1>1
      <4> HIDE DEF u
      <4>8. id # NoTimer
        BY <2>3 DEF TimerIds, NoTimer
      <4>9. /\ IsFiniteSet(timers') /\ Cardinality(timers') \in Nat
            /\ Cardinality(timers') <= Cardinality(others) + 1
        BY <4>7, <1>2, OneMore
      <4>10. Cardinality(timers') <= Len(seen') + 1
        BY <4>9, <1>2, <2>6, Shapes
      <4>11. \A v \in timers' : v.at <= arrivals'
        BY <4>5, <4>6, <4>7, <1>1, <1>2 DEF Inv, TimersOK
      <4>12. \A x \in buffer' : \E v \in timers' : v.id = timer' /\ v.at <= x.at
        BY <4>4, <4>6, <4>7
      <4>13. \E v \in timers' : v.id = timer'
        BY <4>6, <4>7
      <4>14. TimersOK'
        BY <4>7, <4>8, <4>9, <4>10, <4>11, <4>12, <4>13 DEF TimersOK
      <4>15. QED
        BY <4>6, <4>7, <4>14, <1>2, <2>3 DEF Inv, TypeOK
    <3>3. QED
      BY <3>1, <3>2
  <2>13. TypeOK'
    <3>1. Cardinality(buffer') = Cardinality(buffer) - Cardinality(out) /\ Cardinality(out) \in Nat
      BY <2>15, <1>1, <2>2, WaitingIsOne
    <3>2. emitted' \in Seq(Emitted) /\ Len(emitted') = Len(emitted) + Cardinality(out)
      <4>1. emitted' \in Seq(Emitted) /\ Len(emitted') = Len(emitted) + Len(es)
        <5>1. emitted' = emitted \o es /\ emitted \in Seq(Emitted) /\ es \in Seq(Emitted)
          BY <2>7, <2>15, Shapes
        <5>2. QED
          BY <5>1, Together
      <4>2. QED
        BY <4>1, <2>7
    <3>3. NeverOverfull' /\ taken' \in 0 .. Len(emitted')
      <4>1. /\ Cardinality(buffer) \in Nat /\ Len(emitted) \in Nat /\ taken \in Nat
            /\ taken <= Len(emitted) /\ BufSize \in Nat
            /\ Cardinality(buffer) + Len(emitted) - taken <= BufSize
        BY Shapes
      <4>2. QED
        BY <4>1, <3>1, <3>2, <1>1 DEF NeverOverfull
    <3>4. buffer' \subseteq Buffered
      BY <2>15, <1>1, Shapes
    <3>5. QED
      BY <3>2, <3>3, <3>4, <1>1, <2>4, <2>12 DEF Inv, TypeOK, Emitted, Buffered
  <2>14. QED
    BY <2>8, <2>9, <2>10, <2>11, <2>12, <2>13 DEF Inv
<1>5. QED
  BY <1>3, <1>4

(* The timer after a new session came: stopped, kept or set.               *)
LEMMA NewSessionTimers ==
  ASSUME Inv, NEW item \in Numbered \union Plain, NewSession(item), ~closed, closed' = closed,
         Len(seen') = Len(seen) + 1,
         arrivals' = arrivals + 1, arrivals' \in 1 .. MaxItems
  PROVE  /\ TimersOK' /\ timer' \in TimerIds \union {NoTimer}
         /\ timers' \subseteq [id : TimerIds, at : 1 .. MaxItems]
<1> DEFINE x == [item |-> item, at |-> arrivals']
           kept == IF buffer = {} THEN timers ELSE Stopped(timer)
           id == IF buffer # {} \/ timer = NoTimer THEN FreeTimerId ELSE timer
           u == [id |-> id, at |-> x.at]
<1>1. \/ /\ buffer' = {} /\ timers' = kept
         /\ timer' = IF buffer = {} THEN timer ELSE NoTimer
      \/ /\ buffer' = {x} /\ timer' = id
         /\ timers' = IF id = timer THEN kept ELSE kept \union {u}
  <2>1. buffer \ buffer = {} /\ {} \union {x} = {x}
    OBVIOUS
  <2>2. QED
    BY <2>1 DEF NewSession, Remaining, Flushed
<1>2. kept \subseteq timers
  BY DEF Stopped
<1>3. FreeTimerId \in TimerIds /\ \A t \in timers : t.id # FreeTimerId
  <2>1. \E i \in TimerIds : \A t \in timers : t.id # i
    BY FreeId
  <2>2. QED
    BY <2>1 DEF FreeTimerId
<1>4. timer \in TimerIds \union {NoTimer} /\ FreeTimerId # NoTimer
  BY <1>3 DEF Inv, TypeOK, TimerIds, NoTimer
<1>5. x.at = arrivals' /\ arrivals' \in 1 .. MaxItems
  OBVIOUS
<1>6. /\ timers \subseteq [id : TimerIds, at : 1 .. MaxItems]
      /\ \A t \in timers : t.at \in Nat /\ t.at <= arrivals /\ t.at <= arrivals'
  BY Shapes DEF Inv, TypeOK, TimersOK
<1>7. buffer # {} => timer # NoTimer
  BY NothingWaits
<1>8. timer # NoTimer => \E t \in timers : t.id = timer
  BY DEF Inv, TimersOK
<1>9. /\ IsFiniteSet(timers) /\ Cardinality(timers) \in Nat /\ Len(seen) \in Nat
      /\ Cardinality(timers) <= Len(seen) + 1
      /\ timer = NoTimer => Cardinality(timers) <= Len(seen)
  BY Shapes DEF Inv, TimersOK
<1>10. /\ IsFiniteSet(kept) /\ Cardinality(kept) \in Nat
       /\ Cardinality(kept) <= Cardinality(timers)
  <2> HIDE DEF kept
  <2>1. QED
    BY <1>2, <1>9, FS_Subset, FS_CardinalityType
<1> HIDE DEF x
<1>11. CASE /\ buffer' = {} /\ timers' = kept
            /\ timer' = IF buffer = {} THEN timer ELSE NoTimer
  <2>1. timers' \subseteq timers /\ IsFiniteSet(timers') /\ \A t \in timers' : t.at <= arrivals'
    BY <1>2, <1>6, <1>10, <1>11
  <2>2. timer' # NoTimer => \E t \in timers' : t.id = timer'
    BY <1>8, <1>11
  <2>3. Cardinality(timers') <= Len(seen')
    BY <1>9, <1>10, <1>11
  <2>4. Len(seen') \in Nat
    BY <1>9
  <2>5. Cardinality(timers') <= Len(seen') + (IF timer' # NoTimer \/ closed' THEN 1 ELSE 0)
    <3>1. Cardinality(timers') \in Nat
      BY <1>10, <1>11
    <3>2. QED
      BY <2>3, <2>4, <3>1
  <2>6. TimersOK'
    BY <2>1, <2>2, <2>5, <1>11 DEF TimersOK
  <2>7. timer' \in TimerIds \union {NoTimer}
    BY <1>4, <1>11
  <2>8. QED
    BY <2>1, <2>6, <2>7, <1>6
<1>12. CASE /\ buffer' = {x} /\ timer' = id
            /\ timers' = IF id = timer THEN kept ELSE kept \union {u}
  <2>1. CASE buffer = {} /\ timer # NoTimer
    <3>1. timers' = timers /\ timer' = timer
      BY <2>1, <1>12
    <3>2. \A y \in buffer' : \E t \in timers' : t.id = timer' /\ t.at <= y.at
      BY <3>1, <2>1, <1>5, <1>6, <1>8, <1>12
    <3>3. Cardinality(timers') <= Len(seen') + 1
      BY <3>1, <1>9
    <3>4. TimersOK'
      BY <3>1, <3>2, <3>3, <2>1, <1>6, <1>8, <1>9 DEF TimersOK
    <3>5. QED
      BY <3>1, <3>4, <1>4, <1>6
  <2>2. CASE ~(buffer = {} /\ timer # NoTimer)
    <3>1. id = FreeTimerId /\ id # timer
      BY <2>2, <1>3, <1>4, <1>7, <1>8
    <3>2. timers' = kept \union {u} /\ timer' = id
      BY <3>1, <1>12
    <3>3. u.id = id /\ u.at = arrivals' /\ u \in [id : TimerIds, at : 1 .. MaxItems]
      BY <3>1, <1>3, <1>5
    <3> HIDE DEF kept, u, id
    <3>4. /\ IsFiniteSet(timers') /\ Cardinality(timers') \in Nat
          /\ Cardinality(timers') <= Cardinality(kept) + 1
      BY <3>2, <1>10, OneMore
    <3>5. Cardinality(timers') <= Len(seen') + 1
      BY <3>4, <1>9, <1>10
    <3>6. \A t \in timers' : t.at <= arrivals'
      BY <3>2, <3>3, <1>2, <1>5, <1>6
    <3>7. \A y \in buffer' : y.at = arrivals'
      BY <1>5, <1>12
    <3>8. /\ \E t \in timers' : t.id = timer'
          /\ \A y \in buffer' : \E t \in timers' : t.id = timer' /\ t.at <= y.at
      BY <3>2, <3>3, <3>7, <1>5
    <3>9. timer' # NoTimer /\ timer' \in TimerIds
      BY <3>1, <3>2, <1>3, <1>4
    <3>10. TimersOK'
      BY <3>4, <3>5, <3>6, <3>8, <3>9 DEF TimersOK
    <3>11. QED
      BY <3>2, <3>3, <3>9, <3>10, <1>2, <1>6
  <2>3. QED
    BY <2>1, <2>2
<1>13. QED
  BY <1>1, <1>11, <1>12

(* A new session pushes out what waits, and its first item goes out or     *)
(* waits itself.                                                           *)
LEMMA NewSessionKeeps ==
  ASSUME Inv, NEW item \in Numbered \union Plain, NewSession(item)
  PROVE  Inv'
<1> DEFINE x == [item |-> item, at |-> arrivals']
           e == Emission(x, arrivals', "next")
           es == Emissions(Sorted(buffer), arrivals', "session")
           n == Cardinality(buffer)
<1>1. /\ Arrives(item) /\ ~closed /\ item.session \in Sessions /\ item.session \notin ToSet(seen)
      /\ seen' = Append(seen, item.session)
      /\ n + Len(emitted) - taken < BufSize
  BY Shapes DEF NewSession, Full
<1>2. \/ /\ item.seq = 1 /\ nextSeqNum' = 2 /\ buffer' = {}
         /\ emitted' = Append(emitted \o es, e)
      \/ /\ item.seq > 1 /\ nextSeqNum' = 1 /\ buffer' = {x}
         /\ emitted' = emitted \o es
  <2>1. buffer \ buffer = {} /\ {} \union {x} = {x}
    OBVIOUS
  <2>2. QED
    BY <2>1 DEF NewSession, Remaining, Flushed
<1>3. /\ item \notin arrived /\ item \in arrived' /\ arrived \subseteq arrived'
      /\ arrived' \subseteq Numbered \union Plain
      /\ arrivals' = arrivals + 1 /\ arrivals' \in 1 .. MaxItems /\ arrivals <= arrivals'
      /\ UNCHANGED <<closed, taken>> /\ expired' \in 0 .. arrivals'
      /\ \A y \in buffer : y.item # item
      /\ \A i \in DOMAIN emitted : emitted[i].item # item
  BY <1>1, ArrivingIsNew
<1>4. item \in Numbered /\ item.seq \in 1 .. MaxSeqNum /\ MaxSeqNum \in Nat
  <2>1. item \in Numbered
    BY NoSessionAssumption, <1>1 DEF Plain
  <2>2. QED
    BY <2>1, Shapes DEF Numbered
<1>5. /\ KeepsPlaces(seen, seen') /\ IsInjective(seen') /\ seen' \in Seq(Sessions)
      /\ PlaceIn(seen', item.session) = Len(seen) + 1
      /\ ToSet(seen') = ToSet(seen) \union {item.session}
      /\ \A s \in ToSet(seen) : PlaceIn(seen', s) \in 1 .. Len(seen)
      /\ Len(seen) \in Nat
  BY <1>1, Shapes, PlacesKept
<1>6. Current' = item.session /\ seen' # <<>> /\ Len(seen') = Len(seen) + 1
  <2>1. /\ seen \in Seq(Sessions) /\ Len(seen') = Len(seen) + 1
        /\ seen'[Len(seen) + 1] = item.session
    BY <1>1, Shapes DEF SeenOK
  <2>2. seen' # <<>>
    BY <2>1, <1>5
  <2>3. QED
    BY <2>1, <2>2 DEF Current, Last
<1>7. x \in Buffered /\ x.item = item /\ x.at = arrivals'
  BY <1>3, <1>4 DEF Buffered
<1>8. e \in Emitted /\ e.item = item /\ e.when = arrivals' /\ e.why = "next"
  BY <1>3, <1>4 DEF Emission, Emitted, Reasons
<1>9. /\ es \in Seq(Emitted) /\ Len(es) = n
      /\ \A j \in DOMAIN es : /\ es[j].when = arrivals' /\ es[j].why = "session"
                              /\ \E y \in buffer : es[j].item = y.item
                              /\ es[j].item \in arrived
                              /\ es[j].item.session = Current /\ Current \in ToSet(seen)
      /\ Pairwise(seen', es)
      /\ \A i \in DOMAIN emitted, j \in DOMAIN es : Good(seen', emitted[i], es[j])
  <2>1. "session" \in Reasons
    BY DEF Reasons
  <2>2. QED
    BY <2>1, <1>3, <1>5, GivenOut
<1>10. n \in Nat /\ Len(emitted) \in Nat /\ taken \in Nat /\ taken <= Len(emitted)
       /\ emitted \in Seq(Emitted) /\ BufSize \in Nat
  BY Shapes
<1>11. NoSession \notin ToSet(seen') /\ NoSession # item.session
  BY NoSessionAssumption, <1>1, <1>5 DEF ToSet
<1> HIDE DEF es, e, x, n
<1>12. TimersOK' /\ timer' \in TimerIds \union {NoTimer}
       /\ timers' \subseteq [id : TimerIds, at : 1 .. MaxItems]
  BY <1>1, <1>3, <1>6, NewSessionTimers
<1>13. \A j \in DOMAIN es :
         /\ es[j].item \in arrived' /\ es[j].when <= arrivals'
         /\ es[j].item.session \in ToSet(seen') /\ es[j].item.session # Current'
         /\ es[j].item # item
  <2>1. arrivals' <= arrivals'
    BY <1>3
  <2>2. QED
    BY <2>1, <1>1, <1>3, <1>5, <1>6, <1>9
<1>14. ASSUME NEW new \in Seq(Emitted), emitted' = emitted \o new, nextSeqNum' \in Nat,
              \A j \in DOMAIN new :
                /\ new[j].item \in arrived' /\ new[j].when <= arrivals'
                /\ new[j].item.session \in ToSet(seen')
                /\ new[j].item.session = Current' => new[j].item.seq < nextSeqNum'
       PROVE  EmittedOK'
  <2>1. arrivals' \in Nat
    BY <1>3
  <2>2. \A s \in ToSet(seen) \union {NoSession} : s # Current'
    BY <1>1, <1>6, <1>11
  <2>3. ToSet(seen) \subseteq ToSet(seen')
    BY <1>5
  <2>4. QED
    BY <2>1, <2>2, <2>3, <1>3, <1>14, EmittedKept
<1>15. CASE /\ item.seq > 1 /\ nextSeqNum' = 1 /\ buffer' = {x}
            /\ emitted' = emitted \o es
  <2>1. InputInOrder'
    <3>1. FillsGaps(emitted, es)
      BY <1>9 DEF FillsGaps
    <3>2. \A y \in buffer' : /\ \A i \in DOMAIN emitted : y.item # emitted[i].item
                             /\ \A j \in DOMAIN es : y.item # es[j].item
      BY <1>3, <1>7, <1>13, <1>15
    <3>3. QED
      BY <3>1, <3>2, <1>5, <1>9, <1>15, OrderKept
  <2>2. EmittedOK'
    <3>1. nextSeqNum' \in Nat
      BY <1>15
    <3>2. QED
      BY <3>1, <1>9, <1>13, <1>14, <1>15
  <2>3. CoveredOK'
    BY <1>15 DEF CoveredOK
  <2>4. IsFiniteSet(buffer') /\ Cardinality(buffer') = 1
    BY <1>15, FS_Singleton
  <2>5. BufferOK'
    <3>1. x.at <= arrivals' /\ item.seq >= nextSeqNum'
      BY <1>3, <1>4, <1>7, <1>15
    <3>2. QED
      BY <2>4, <3>1, <1>3, <1>6, <1>7, <1>15 DEF BufferOK
  <2>6. emitted' \in Seq(Emitted) /\ Len(emitted') = Len(emitted) + n
    BY <1>9, <1>10, <1>15, Together
  <2>7. NeverOverfull' /\ taken' \in 0 .. Len(emitted')
    <3>1. taken' = taken
      BY <1>3
    <3>2. Cardinality(buffer') + Len(emitted') - taken' <= BufSize
      BY <2>4, <2>6, <3>1, <1>1, <1>10
    <3>3. QED
      BY <2>6, <3>1, <3>2, <1>10 DEF NeverOverfull
  <2>8. TypeOK'
    <3>1. nextSeqNum' \in 1 .. MaxSeqNum + 1 /\ buffer' \subseteq Buffered
      BY <1>4, <1>7, <1>15
    <3>2. arrivals' \in 0 .. MaxItems /\ closed' \in BOOLEAN
      BY <1>3 DEF Inv, TypeOK
    <3>3. QED
      BY <2>6, <2>7, <3>1, <3>2, <1>3, <1>5, <1>12 DEF TypeOK, Emitted, Buffered
  <2>9. QED
    BY <2>1, <2>2, <2>3, <2>5, <2>8, <1>12 DEF Inv
<1>16. CASE /\ item.seq = 1 /\ nextSeqNum' = 2 /\ buffer' = {}
            /\ emitted' = Append(emitted \o es, e)
  <2> DEFINE one == <<e>>
             new == es \o one
  <2>1. one \in Seq(Emitted) /\ Len(one) = 1 /\ DOMAIN one = {1} /\ one[1] = e
    BY <1>8
  <2>2. emitted' = emitted \o new
    <3>1. \A s, r \in Seq(Emitted) : Append(s \o r, e) = s \o (r \o <<e>>)
      BY <1>8
    <3>2. QED
      BY <3>1, <1>9, <1>10, <1>16
  <2> HIDE DEF one
  <2>3. /\ new \in Seq(Emitted) /\ Len(new) = n + 1
        /\ Len(es) + 1 \in DOMAIN new /\ new[Len(es) + 1] = e
        /\ \A i \in DOMAIN new : new[i] = e \/ \E j \in DOMAIN es : new[i] = es[j]
    <3>1. /\ new \in Seq(Emitted) /\ Len(new) = Len(es) + Len(one)
          /\ \A i \in DOMAIN one : i + Len(es) \in DOMAIN new /\ new[i + Len(es)] = one[i]
          /\ \A i \in DOMAIN new :
               \/ i \in DOMAIN es /\ new[i] = es[i]
               \/ /\ i > Len(es) /\ i - Len(es) \in DOMAIN one
                  /\ new[i] = one[i - Len(es)]
      <4>1. es \in Seq(Emitted) /\ one \in Seq(Emitted)
        BY <2>1, <1>9
      <4>2. /\ es \o one \in Seq(Emitted) /\ Len(es \o one) = Len(es) + Len(one)
            /\ \A i \in DOMAIN es : i \in DOMAIN (es \o one) /\ (es \o one)[i] = es[i]
            /\ \A i \in DOMAIN one : i + Len(es) \in DOMAIN (es \o one)
                                     /\ (es \o one)[i + Len(es)] = one[i]
            /\ \A i \in DOMAIN (es \o one) :
                 \/ i \in DOMAIN es /\ (es \o one)[i] = es[i]
                 \/ /\ i > Len(es) /\ i - Len(es) \in DOMAIN one
                    /\ (es \o one)[i] = one[i - Len(es)]
        BY <4>1, Together
      <4>3. QED
        BY <4>2
    <3>2. 1 + Len(es) = Len(es) + 1
      BY <1>9, <1>10
    <3> HIDE DEF new
    <3>3. QED
      BY <2>1, <3>1, <3>2, <1>9
  <2>4. ASSUME NEW d, d.item.session \in ToSet(seen) \union {NoSession}, d.item # item
        PROVE  Good(seen', d, e)
    <3>1. d.item.session # item.session
      BY <2>4, <1>1, <1>11
    <3>2. d.item.session \in ToSet(seen')
            => ~(PlaceIn(seen', item.session) < PlaceIn(seen', d.item.session))
      BY <2>4, <1>5, <1>11
    <3>3. QED
      BY <2>4, <3>1, <3>2, <1>8 DEF Good
  <2>5. Pairwise(seen', new)
    <3>1. Pairwise(seen', one)
      BY <2>1 DEF Pairwise
    <3>2. \A i \in DOMAIN es, j \in DOMAIN one : Good(seen', es[i], one[j])
      BY <2>1, <2>4, <1>9, <1>13
    <3>3. QED
      BY <2>1, <3>1, <3>2, <1>9, PairwiseTogether
  <2> HIDE DEF new
  <2>6. \A i \in DOMAIN emitted, j \in DOMAIN new : Good(seen', emitted[i], new[j])
    <3>1. \A i \in DOMAIN emitted : /\ emitted[i].item.session \in ToSet(seen) \union {NoSession}
                                    /\ emitted[i].item # item
      BY <1>3 DEF Inv, EmittedOK
    <3>2. \A i \in DOMAIN emitted : Good(seen', emitted[i], e)
      BY <2>4, <3>1
    <3>3. QED
      BY <2>3, <3>2, <1>9
  <2>7. FillsGaps(emitted, new)
    <3>1. \A j \in DOMAIN new : new[j].why = "next" => new[j].item.seq = 1
      BY <2>3, <1>8, <1>9, <1>16
    <3>2. 1 .. 1 - 1 = {}
      OBVIOUS
    <3>3. QED
      BY <3>1, <3>2 DEF FillsGaps
  <2>8. InputInOrder'
    BY <2>2, <2>3, <2>5, <2>6, <2>7, <1>5, <1>16, OrderKept
  <2>9. EmittedOK'
    <3>1. \A j \in DOMAIN new :
            /\ new[j].item \in arrived' /\ new[j].when <= arrivals'
            /\ new[j].item.session \in ToSet(seen')
            /\ new[j].item.session = Current' => new[j].item.seq < nextSeqNum'
      <4>1. /\ e.item \in arrived' /\ e.when <= arrivals' /\ e.item.session \in ToSet(seen')
            /\ e.item.seq < nextSeqNum'
        BY <1>3, <1>5, <1>8, <1>16
      <4>2. QED
        BY <2>3, <4>1, <1>13
    <3>2. nextSeqNum' \in Nat
      BY <1>16
    <3>3. QED
      BY <2>2, <2>3, <3>1, <3>2, <1>14
  <2>10. CoveredOK'
    <3>1. Covers(new, Current', 1)
      BY <2>3, <1>6, <1>8, <1>16 DEF Covers
    <3>2. Covers(emitted', Current', 1)
      BY <2>2, <2>3, <3>1, <1>10, CoversKept
    <3>3. 1 .. nextSeqNum' - 1 = {1}
      BY <1>16
    <3>4. QED
      BY <3>2, <3>3 DEF CoveredOK
  <2>11. IsFiniteSet(buffer') /\ Cardinality(buffer') = 0
    BY <1>16, FS_EmptySet
  <2>12. BufferOK'
    BY <2>11, <1>16 DEF BufferOK
  <2>13. emitted' \in Seq(Emitted) /\ Len(emitted') = Len(emitted) + n + 1
    <3>1. emitted' \in Seq(Emitted) /\ Len(emitted') = Len(emitted) + Len(new)
      BY <2>2, <2>3, <1>10, Together
    <3>2. QED
      BY <2>3, <3>1, <1>10
  <2>14. NeverOverfull' /\ taken' \in 0 .. Len(emitted')
    <3>1. taken' = taken
      BY <1>3
    <3>2. Cardinality(buffer') + Len(emitted') - taken' <= BufSize
      BY <2>11, <2>13, <3>1, <1>1, <1>10
    <3>3. QED
      BY <2>13, <3>1, <3>2, <1>10 DEF NeverOverfull
  <2>15. TypeOK'
    <3>1. nextSeqNum' \in 1 .. MaxSeqNum + 1 /\ buffer' \subseteq Buffered
      BY <1>4, <1>16
    <3>2. arrivals' \in 0 .. MaxItems /\ closed' \in BOOLEAN
      BY <1>3 DEF Inv, TypeOK
    <3>3. QED
      BY <2>13, <2>14, <3>1, <3>2, <1>3, <1>5, <1>12 DEF TypeOK, Emitted, Buffered
  <2>16. QED
    BY <2>8, <2>9, <2>10, <2>12, <2>15, <1>12 DEF Inv
<1>17. QED
  BY <1>2, <1>15, <1>16

-----------------------------------------------------------------------------
(* The theorems.                                                           *)

(* An empty queue.                                                         *)
LEMMA InvInit == Init => Inv
<1> SUFFICES ASSUME Init PROVE Inv
  OBVIOUS
<1>1. /\ seen = <<>> /\ nextSeqNum = 1 /\ buffer = {} /\ closed = FALSE
      /\ timers = {} /\ timer = NoTimer /\ emitted = <<>> /\ taken = 0
      /\ arrived = {} /\ arrivals = 0 /\ expired = 0
  BY DEF Init
<1>2. /\ IsFiniteSet(buffer) /\ Cardinality(buffer) = 0
      /\ IsFiniteSet(timers) /\ Cardinality(timers) = 0
  BY <1>1, FS_EmptySet
<1>3. Len(seen) = 0 /\ Len(emitted) = 0 /\ DOMAIN emitted = {} /\ DOMAIN seen = {}
  BY <1>1
<1>4. BufferOK /\ EmittedOK /\ CoveredOK
  BY <1>1, <1>2, <1>3 DEF BufferOK, EmittedOK, CoveredOK
<1>5. TimersOK
  BY <1>1, <1>2, <1>3 DEF TimersOK
<1>6. InputInOrder
  BY <1>1, <1>3 DEF InputInOrder, QueuedOnce, WithinSession, GapsWaitedFor, SessionsSeparate
<1>7. TypeOK
  <2>1. NeverOverfull
    BY <1>1, <1>2, <1>3, BufSizeAssumption DEF NeverOverfull
  <2>2. seen \in Seq(Sessions) /\ IsInjective(seen)
    BY <1>1, <1>3 DEF IsInjective
  <2>3. nextSeqNum \in 1 .. MaxSeqNum + 1 /\ arrivals \in 0 .. MaxItems /\ expired \in 0 .. arrivals
        /\ taken \in 0 .. Len(emitted)
    BY <1>1, <1>3, BoundsAssumption
  <2>4. emitted \in Seq([item : Numbered \union Plain, at : 1 .. MaxItems,
                         when : 1 .. MaxItems, why : Reasons])
    BY <1>1
  <2>5. QED
    BY <2>1, <2>2, <2>3, <2>4, <1>1 DEF TypeOK
<1>8. QED
  BY <1>4, <1>5, <1>6, <1>7 DEF Inv

(* Whatever branch QueueItem takes, and whichever timer callback or Close  *)
(* comes in between, the invariant stays.                                  *)
LEMMA InvNext ==
  ASSUME Inv, [Next]_vars
  PROVE  Inv'
<1>1. ASSUME NEW item \in Numbered \union Plain, QueueItem(item) PROVE Inv'
  BY <1>1, RejectedKeeps, BypassKeeps, NewSessionKeeps, QueueOldKeeps, QueueNextKeeps,
     QueueEarlyKeeps DEF QueueItem
<1>2. ASSUME NEW t \in timers, OnTimeout(t) PROVE Inv'
  BY <1>2, OnTimeoutKeeps
<1>3. CASE UNCHANGED vars
  <2>1. UNCHANGED <<seen, nextSeqNum, buffer, closed, timers, timer, emitted, taken, arrived,
                    arrivals, expired>>
    BY <1>3 DEF vars
  <2>2. BufferOK' /\ EmittedOK' /\ CoveredOK' /\ InputInOrder'
    BY <2>1, QuietKeeps, Shapes
  <2>3. TypeOK' /\ TimersOK'
    BY <2>1 DEF Inv, TypeOK, NeverOverfull, TimersOK
  <2>4. QED
    BY <2>2, <2>3 DEF Inv
<1>4. QED
  BY <1>1, <1>2, <1>3, CloseKeeps, TakeKeeps, TimePassesKeeps DEF Next

(* The invariant: what waits is of the current session and not older than  *)
(* the next number, what left is older, and the timer runs in time for all *)
(* of it.                                                                  *)
THEOREM InvHolds == Spec => []Inv
BY InvInit, InvNext, PTL DEF Spec

(* The fields of the queue keep their types, the sends to outCh have room  *)
(* so that QueueItem and onTimeout never block with the lock, and there is *)
(* an end to timers whose callbacks wait for it.                           *)
THEOREM TypeCorrect == Spec => []TypeOK
<1>1. Inv => TypeOK
  BY DEF Inv
<1> QED BY <1>1, InvHolds, PTL

(* Whatever arrives in whatever order, input leaves once, in its session's *)
(* order and session after session, and a gap is passed over only when the *)
(* timer gave it up.                                                       *)
THEOREM LeavesInOrder == Spec => []InputInOrder
<1>1. Inv => InputInOrder
  BY DEF Inv
<1> QED BY <1>1, InvHolds, PTL

(* Nothing waits in an open queue without a timer that ends in time.       *)
THEOREM TimerRunsInTime == Spec => []TimerInTime
<1>1. Inv => TimerInTime
  BY DEF Inv, TimersOK, TimerInTime
<1> QED BY <1>1, InvHolds, PTL
=============================================================================
