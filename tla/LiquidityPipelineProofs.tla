----------------------- MODULE LiquidityPipelineProofs -----------------------
(***************************************************************************)
(* Proofs about LiquidityPipeline, for any pools, tick ranges, positions   *)
(* and lengths of a block: the stores are exact, and the consumer has what *)
(* every pool was at the end of each transaction.                          *)
(*                                                                         *)
(* The argument: there is a history of the pools in the block, one state   *)
(* after every event, and e marks in it where each transaction ends.  Each *)
(* store follows the history, event by event, so it comes out where the    *)
(* chain is.  What an event adds to a store is what it adds to a sum over  *)
(* the positions, for which the first part has the lemmas.                 *)
(*                                                                         *)
(* map_protocol_changes then passes over the block four times, for the     *)
(* creations, ticks, liquidity and the rest.  A pass takes the attributes  *)
(* of its turn along the history (Along); an entry of a builder is Good    *)
(* when applying it takes each attribute from what it was before the       *)
(* transaction to where the passes have come.  Every message says truly    *)
(* how its attribute moves, so the entries stay good, whatever the builder *)
(* nets, and end at the end of their transaction.                          *)
(***************************************************************************)
EXTENDS LiquidityPipeline, FiniteSetTheorems, WellFoundedInduction, TLAPS

(* Induction: a set of numbers closed under successor has all of them.     *)
LEMMA SetInduction ==
    ASSUME NEW S \in SUBSET Nat, 0 \in S, \A n \in S : n + 1 \in S
    PROVE  S = Nat
<1> SUFFICES ASSUME S # Nat PROVE FALSE
  OBVIOUS
<1> DEFINE T == Nat \ S
<1>1. T \subseteq Nat /\ T # {}
  OBVIOUS
<1>2. PICK x \in T : \A y \in T : <<y, x>> \notin OpToRel(<, Nat)
  <2> HIDE DEF T
  <2> QED  BY <1>1, NatLessThanWellFounded, WFMin
<1>3. x \in Nat /\ x # 0 /\ x \notin S
  OBVIOUS
<1>4. x - 1 \in Nat /\ x - 1 < x /\ (x - 1) + 1 = x
  BY <1>3
<1>5. x - 1 \notin S
  BY <1>3, <1>4
<1>6. <<x - 1, x>> \in OpToRel(<, Nat)
  BY <1>3, <1>4 DEF OpToRel
<1> QED  BY <1>2, <1>4, <1>5, <1>6

-----------------------------------------------------------------------------
(* Sums over positions                                                     *)

(* The member that a sum takes next.                                       *)
Some(s) == CHOOSE r \in s : TRUE

LEMMA SomeIsIn == \A s : s # {} => Some(s) \in s
BY DEF Some

(* g sums up the positions of the pool in every subset of the ranges.      *)
SumEq(pos, p, ranges, g) ==
    g = [s \in SUBSET ranges |-> IF s = {} THEN 0 ELSE pos[<<p, Some(s)>>] + g[s \ {Some(s)}]]

Summable(pos, p, ranges) ==
    IsFiniteSet(ranges) /\ \A r \in ranges : pos[<<p, r>>] \in Int

LEMMA Smaller ==
    ASSUME NEW s, IsFiniteSet(s), NEW r \in s
    PROVE  /\ IsFiniteSet(s \ {r}) /\ Cardinality(s) \in Nat /\ Cardinality(s) # 0
           /\ Cardinality(s \ {r}) = Cardinality(s) - 1
BY FS_RemoveElement, FS_CardinalityType, FS_EmptySet

(* g does so up to a number of ranges.                                     *)
SumUpTo(pos, p, ranges, n, g) ==
    /\ g \in [{s \in SUBSET ranges : Cardinality(s) <= n} -> Int]
    /\ \A s \in SUBSET ranges : Cardinality(s) <= n =>
           g[s] = IF s = {} THEN 0 ELSE pos[<<p, Some(s)>>] + g[s \ {Some(s)}]

LEMMA SumExists ==
    ASSUME NEW pos, NEW p, NEW ranges, Summable(pos, p, ranges)
    PROVE  \E g : SumEq(pos, p, ranges, g) /\ g \in [SUBSET ranges -> Int]
<1> DEFINE N == {n \in Nat : \E g : SumUpTo(pos, p, ranges, n, g)}
<1>1. \A s \in SUBSET ranges : IsFiniteSet(s) /\ Cardinality(s) \in Nat
  BY FS_Subset, FS_CardinalityType DEF Summable
<1>2. Cardinality({}) = 0 /\ \A s \in SUBSET ranges : Cardinality(s) = 0 <=> s = {}
  BY <1>1, FS_EmptySet
<1>3. \A s \in SUBSET ranges : s # {} =>
          /\ Some(s) \in s /\ s \ {Some(s)} \in SUBSET ranges
          /\ Cardinality(s \ {Some(s)}) = Cardinality(s) - 1
  BY <1>1, SomeIsIn, Smaller
<1>4. 0 \in N
  <2> DEFINE g == [s \in {s \in SUBSET ranges : Cardinality(s) <= 0} |-> 0]
  <2>1. \A s \in SUBSET ranges : Cardinality(s) <= 0 => s = {} /\ g[s] = 0
    BY <1>1, <1>2
  <2>2. g \in [{s \in SUBSET ranges : Cardinality(s) <= 0} -> Int]
    OBVIOUS
  <2> HIDE DEF g
  <2>3. SumUpTo(pos, p, ranges, 0, g)
    BY <2>1, <2>2 DEF SumUpTo
  <2> QED  BY <2>3
<1>5. ASSUME NEW n \in N PROVE n + 1 \in N
  <2>1. n \in Nat /\ n + 1 \in Nat
    OBVIOUS
  <2>2. PICK g : SumUpTo(pos, p, ranges, n, g)
    OBVIOUS
  <2>3. PICK h : h = [s \in {s \in SUBSET ranges : Cardinality(s) <= n + 1} |->
                         IF s = {} THEN 0 ELSE pos[<<p, Some(s)>>] + g[s \ {Some(s)}]]
    OBVIOUS
  <2>4. \A s \in SUBSET ranges : Cardinality(s) <= n + 1 /\ s # {} =>
            /\ pos[<<p, Some(s)>>] \in Int
            /\ Cardinality(s \ {Some(s)}) <= n /\ g[s \ {Some(s)}] \in Int
    BY <1>1, <1>3, <2>1, <2>2 DEF SumUpTo, Summable
  <2>5. h \in [{s \in SUBSET ranges : Cardinality(s) <= n + 1} -> Int]
    <3>1. ASSUME NEW s \in SUBSET ranges, Cardinality(s) <= n + 1
          PROVE  (IF s = {} THEN 0 ELSE pos[<<p, Some(s)>>] + g[s \ {Some(s)}]) \in Int
      <4>1. s # {} => pos[<<p, Some(s)>>] \in Int /\ g[s \ {Some(s)}] \in Int
        BY <2>4, <3>1
      <4> HIDE DEF N
      <4> QED  BY <4>1
    <3> QED  BY <2>3, <3>1
  <2>6. \A s \in SUBSET ranges : Cardinality(s) <= n => h[s] = g[s]
    <3>1. \A s \in SUBSET ranges : Cardinality(s) <= n => Cardinality(s) <= n + 1
      BY <1>1, <2>1
    <3> QED  BY <2>2, <2>3, <3>1 DEF SumUpTo
  <2>7. SumUpTo(pos, p, ranges, n + 1, h)
    <3>1. ASSUME NEW s \in SUBSET ranges, Cardinality(s) <= n + 1
          PROVE  h[s] = IF s = {} THEN 0 ELSE pos[<<p, Some(s)>>] + h[s \ {Some(s)}]
      <4>1. CASE s = {}
        BY <2>3, <3>1, <4>1
      <4>2. CASE s # {}
        <5>1. h[s \ {Some(s)}] = g[s \ {Some(s)}]
          BY <1>3, <2>4, <2>6, <3>1, <4>2
        <5> QED  BY <2>3, <3>1, <4>2, <5>1
      <4> QED  BY <4>1, <4>2
    <3> QED  BY <2>5, <3>1 DEF SumUpTo
  <2> QED  BY <2>1, <2>7
<1>6. N = Nat
  <2>1. N \in SUBSET Nat
    OBVIOUS
  <2> HIDE DEF N
  <2> QED  BY <1>4, <1>5, <2>1, SetInduction
<1>7. PICK n \in Nat : n = Cardinality(ranges)
  BY FS_CardinalityType DEF Summable
<1>8. PICK g : SumUpTo(pos, p, ranges, n, g)
  BY <1>6
<1>9. {s \in SUBSET ranges : Cardinality(s) <= n} = SUBSET ranges
  BY <1>7, FS_Subset DEF Summable
<1>10. g \in [SUBSET ranges -> Int]
  BY <1>8, <1>9 DEF SumUpTo
<1>11. \A s \in SUBSET ranges :
           g[s] = IF s = {} THEN 0 ELSE pos[<<p, Some(s)>>] + g[s \ {Some(s)}]
  BY <1>8, <1>9 DEF SumUpTo
<1>12. SumEq(pos, p, ranges, g)
  BY <1>10, <1>11 DEF SumEq
<1> QED  BY <1>10, <1>12

(* Any two that sum up the same positions agree.                           *)
LEMMA SumsAgree ==
    ASSUME NEW pos1, NEW pos2, NEW p, NEW R1, NEW R2, NEW g1, NEW g2,
           SumEq(pos1, p, R1, g1), SumEq(pos2, p, R2, g2),
           NEW T, IsFiniteSet(T), T \subseteq R1, T \subseteq R2,
           \A r \in T : pos1[<<p, r>>] = pos2[<<p, r>>]
    PROVE  g1[T] = g2[T]
<1> DEFINE N == {n \in Nat : \A s \in SUBSET T : Cardinality(s) = n => g1[s] = g2[s]}
<1>1. \A s \in SUBSET T : IsFiniteSet(s) /\ Cardinality(s) \in Nat
  BY FS_Subset, FS_CardinalityType
<1>2. \A s \in SUBSET T : s # {} =>
          /\ Some(s) \in T /\ s \ {Some(s)} \in SUBSET T
          /\ Cardinality(s) = Cardinality(s \ {Some(s)}) + 1
  <2> SUFFICES ASSUME NEW s \in SUBSET T, s # {}
               PROVE  /\ Some(s) \in T /\ s \ {Some(s)} \in SUBSET T
                      /\ Cardinality(s) = Cardinality(s \ {Some(s)}) + 1
    OBVIOUS
  <2>1. Some(s) \in s
    BY SomeIsIn
  <2>2. /\ Cardinality(s) \in Nat /\ Cardinality(s \ {Some(s)}) = Cardinality(s) - 1
    BY <1>1, <2>1, Smaller
  <2> QED  BY <2>1, <2>2
<1>3. ASSUME NEW s \in SUBSET T
      PROVE  /\ s = {} => g1[s] = g2[s]
             /\ s # {} /\ g1[s \ {Some(s)}] = g2[s \ {Some(s)}] => g1[s] = g2[s]
  <2>1. g1[s] = IF s = {} THEN 0 ELSE pos1[<<p, Some(s)>>] + g1[s \ {Some(s)}]
    BY DEF SumEq
  <2>2. g2[s] = IF s = {} THEN 0 ELSE pos2[<<p, Some(s)>>] + g2[s \ {Some(s)}]
    BY DEF SumEq
  <2>3. s # {} => pos1[<<p, Some(s)>>] = pos2[<<p, Some(s)>>]
    BY <1>2
  <2> QED  BY <2>1, <2>2, <2>3
<1>4. 0 \in N
  <2>1. \A s \in SUBSET T : Cardinality(s) = 0 => s = {}
    BY <1>1, FS_EmptySet
  <2> QED  BY <1>3, <2>1
<1>5. ASSUME NEW n \in N PROVE n + 1 \in N
  <2> SUFFICES ASSUME NEW s \in SUBSET T, Cardinality(s) = n + 1 PROVE g1[s] = g2[s]
    OBVIOUS
  <2>1. n \in Nat /\ n + 1 # 0
    OBVIOUS
  <2>2. s # {}
    BY <2>1, FS_EmptySet
  <2>3. s \ {Some(s)} \in SUBSET T /\ Cardinality(s \ {Some(s)}) = n
    BY <1>1, <1>2, <2>1, <2>2
  <2> QED  BY <1>3, <2>2, <2>3
<1>6. N = Nat
  <2>1. N \in SUBSET Nat
    OBVIOUS
  <2> HIDE DEF N
  <2> QED  BY <1>4, <1>5, <2>1, SetInduction
<1>7. Cardinality(T) \in N
  BY <1>1, <1>6
<1> QED  BY <1>7

(* The model's sum is such a sum.                                          *)
IsSum(pos, p, ranges, g) ==
    /\ SumEq(pos, p, ranges, g) /\ g \in [SUBSET ranges -> Int]
    /\ LiquidityOf(pos, p, ranges) = g[ranges]

LEMMA LiquidityIsSum ==
    ASSUME NEW pos, NEW p, NEW ranges, Summable(pos, p, ranges)
    PROVE  \E g : IsSum(pos, p, ranges, g)
<1>1. PICK g : SumEq(pos, p, ranges, g) /\ g \in [SUBSET ranges -> Int]
  BY SumExists
<1>2. PICK h : h = CHOOSE k : SumEq(pos, p, ranges, k)
  OBVIOUS
<1>3. SumEq(pos, p, ranges, h)
  BY <1>1, <1>2
<1>4. LiquidityOf(pos, p, ranges) = h[ranges]
  BY <1>2 DEF LiquidityOf, MapThenSumSet, MapThenFoldSet, SumEq, Some
<1>5. h[ranges] = g[ranges]
  BY <1>1, <1>3, SumsAgree DEF Summable
<1> QED  BY <1>1, <1>4, <1>5 DEF IsSum

(* What the models' sums over positions come to.                           *)
LEMMA LiquidityType ==
    ASSUME NEW pos, NEW p, NEW ranges, Summable(pos, p, ranges)
    PROVE  LiquidityOf(pos, p, ranges) \in Int
<1>1. PICK g : IsSum(pos, p, ranges, g)
  BY LiquidityIsSum
<1> QED  BY <1>1 DEF IsSum

LEMMA LiquiditySame ==
    ASSUME NEW pos1, NEW pos2, NEW p, NEW ranges, Summable(pos1, p, ranges),
           \A r \in ranges : pos1[<<p, r>>] = pos2[<<p, r>>]
    PROVE  LiquidityOf(pos1, p, ranges) = LiquidityOf(pos2, p, ranges)
<1>1. Summable(pos2, p, ranges)
  BY DEF Summable
<1>2. PICK g1 : IsSum(pos1, p, ranges, g1)
  BY LiquidityIsSum
<1>3. PICK g2 : IsSum(pos2, p, ranges, g2)
  BY <1>1, LiquidityIsSum
<1> QED  BY <1>2, <1>3, SumsAgree DEF Summable, IsSum

(* A sum does not depend on the order of its terms.                        *)
LEMMA LiquidityWithout ==
    ASSUME NEW pos, NEW p, NEW ranges, Summable(pos, p, ranges), NEW x \in ranges
    PROVE  LiquidityOf(pos, p, ranges) = pos[<<p, x>>] + LiquidityOf(pos, p, ranges \ {x})
<1>0. PICK g : IsSum(pos, p, ranges, g)
  BY LiquidityIsSum
<1>1. /\ SumEq(pos, p, ranges, g) /\ g \in [SUBSET ranges -> Int]
      /\ LiquidityOf(pos, p, ranges) = g[ranges]
  BY <1>0 DEF IsSum
<1>2. LiquidityOf(pos, p, ranges \ {x}) = g[ranges \ {x}]
  <2>1. IsFiniteSet(ranges \ {x})
    BY FS_RemoveElement DEF Summable
  <2>2. Summable(pos, p, ranges \ {x})
    BY <2>1 DEF Summable
  <2>3. PICK h : IsSum(pos, p, ranges \ {x}, h)
    BY <2>2, LiquidityIsSum
  <2>4. SumEq(pos, p, ranges \ {x}, h)
    BY <2>3 DEF IsSum
  <2> QED  BY <1>1, <2>1, <2>3, <2>4, SumsAgree DEF IsSum
<1> DEFINE N == {n \in Nat : \A s \in SUBSET ranges : Cardinality(s) = n =>
                                 \A y \in s : g[s] = pos[<<p, y>>] + g[s \ {y}]}
<1>3. \A s \in SUBSET ranges : IsFiniteSet(s) /\ Cardinality(s) \in Nat
  BY FS_Subset, FS_CardinalityType DEF Summable
<1>4. 0 \in N
  <2>1. \A s \in SUBSET ranges : Cardinality(s) = 0 => s = {}
    BY <1>3, FS_EmptySet
  <2> QED  BY <2>1
<1>5. ASSUME NEW n \in N PROVE n + 1 \in N
  <2>1. n \in Nat
    OBVIOUS
  <2>2. \A s \in SUBSET ranges : Cardinality(s) = n =>
            \A y \in s : g[s] = pos[<<p, y>>] + g[s \ {y}]
    OBVIOUS
  <2> HIDE DEF N
  <2>3. ASSUME NEW s \in SUBSET ranges, Cardinality(s) = n + 1, NEW y \in s
        PROVE  g[s] = pos[<<p, y>>] + g[s \ {y}]
    <3>1. PICK c : c = Some(s)
      OBVIOUS
    <3>2. c \in s
      BY <2>3, <3>1, SomeIsIn
    <3>3. g[s] = pos[<<p, c>>] + g[s \ {c}]
      BY <1>1, <2>3, <3>1, <3>2 DEF SumEq
    <3>4. CASE y = c
      BY <3>3, <3>4
    <3>5. CASE y # c
      <4>1. Cardinality(s \ {c}) = n /\ Cardinality(s \ {y}) = n
        BY <1>3, <2>1, <2>3, <3>2, Smaller
      <4>2. g[s \ {c}] = pos[<<p, y>>] + g[(s \ {c}) \ {y}]
        BY <2>2, <2>3, <3>5, <4>1
      <4>3. g[s \ {y}] = pos[<<p, c>>] + g[(s \ {y}) \ {c}]
        BY <2>2, <2>3, <3>2, <3>5, <4>1
      <4>4. (s \ {c}) \ {y} = (s \ {y}) \ {c} /\ (s \ {c}) \ {y} \in SUBSET ranges
        BY <2>3
      <4>5. PICK u \in Int : u = g[(s \ {c}) \ {y}]
        BY <1>1, <4>4
      <4>6. PICK a \in Int, b \in Int : a = pos[<<p, y>>] /\ b = pos[<<p, c>>]
        BY <2>3, <3>2 DEF Summable
      <4>7. g[s] = b + (a + u)
        BY <3>3, <4>2, <4>5, <4>6
      <4>8. g[s \ {y}] = b + u
        BY <4>3, <4>4, <4>5, <4>6
      <4>9. b + (a + u) = a + (b + u)
        OBVIOUS
      <4> QED  BY <4>6, <4>7, <4>8, <4>9
    <3> QED  BY <3>4, <3>5
  <2> QED  BY <2>1, <2>3 DEF N
<1>6. N = Nat
  <2>1. N \in SUBSET Nat
    OBVIOUS
  <2> HIDE DEF N
  <2> QED  BY <1>4, <1>5, <2>1, SetInduction
<1>7. Cardinality(ranges) \in N
  BY <1>3, <1>6
<1>8. g[ranges] = pos[<<p, x>>] + g[ranges \ {x}]
  BY <1>7
<1> QED  BY <1>1, <1>2, <1>8

(* One position changes.                                                   *)
LEMMA LiquidityMoves ==
    ASSUME NEW pos1, NEW pos2, NEW p, NEW ranges,
           Summable(pos1, p, ranges), Summable(pos2, p, ranges),
           NEW x, NEW v \in Int, x \in ranges => pos2[<<p, x>>] = pos1[<<p, x>>] + v,
           \A r \in ranges : r # x => pos2[<<p, r>>] = pos1[<<p, r>>]
    PROVE  /\ x \notin ranges => LiquidityOf(pos2, p, ranges) = LiquidityOf(pos1, p, ranges)
           /\ x \in ranges => LiquidityOf(pos2, p, ranges) = LiquidityOf(pos1, p, ranges) + v
<1>1. CASE x \notin ranges
  BY <1>1, LiquiditySame, LiquidityType
<1>2. CASE x \in ranges
  <2>1. IsFiniteSet(ranges \ {x})
    BY FS_RemoveElement DEF Summable
  <2>2. Summable(pos1, p, ranges \ {x})
    BY <2>1 DEF Summable
  <2>3. LiquidityOf(pos1, p, ranges \ {x}) = LiquidityOf(pos2, p, ranges \ {x})
    BY <2>2, LiquiditySame
  <2>4. PICK l \in Int : l = LiquidityOf(pos1, p, ranges \ {x})
    BY <2>2, LiquidityType
  <2>5. pos1[<<p, x>>] \in Int
    BY <1>2 DEF Summable
  <2>6. LiquidityOf(pos1, p, ranges) = pos1[<<p, x>>] + l
    BY <1>2, <2>4, LiquidityWithout
  <2>7. LiquidityOf(pos2, p, ranges) = (pos1[<<p, x>>] + v) + l
    BY <1>2, <2>3, <2>4, LiquidityWithout
  <2> QED  BY <1>2, <2>5, <2>6, <2>7
<1> QED  BY <1>1, <1>2

(* No positions, no liquidity.                                             *)
LEMMA LiquidityNone ==
    ASSUME NEW pos, NEW p, NEW ranges, IsFiniteSet(ranges),
           \A r \in ranges : pos[<<p, r>>] = 0
    PROVE  LiquidityOf(pos, p, ranges) = 0
<1> DEFINE g == [s \in SUBSET ranges |-> 0]
<1>1. Summable(pos, p, ranges)
  BY DEF Summable
<1>2. SumEq(pos, p, ranges, g)
  <2>1. ASSUME NEW s \in SUBSET ranges
        PROVE  0 = IF s = {} THEN 0 ELSE pos[<<p, Some(s)>>] + g[s \ {Some(s)}]
    <3>1. s # {} => Some(s) \in ranges /\ s \ {Some(s)} \in SUBSET ranges
      BY SomeIsIn
    <3> QED  BY <3>1
  <2> QED  BY <2>1 DEF SumEq
<1>3. PICK h : IsSum(pos, p, ranges, h)
  BY <1>1, LiquidityIsSum
<1>4. h[ranges] = g[ranges]
  <2> HIDE DEF g
  <2> QED  BY <1>2, <1>3, SumsAgree DEF IsSum
<1>5. g[ranges] = 0
  OBVIOUS
<1> QED  BY <1>3, <1>4, <1>5 DEF IsSum

-----------------------------------------------------------------------------
(* What the events do to the sums                                          *)

Positions == [Pool \X TickRange -> 0..MaxPosition]
Ticks == Tick \cup {NoTick}

LEMMA RangeFacts ==
    /\ IsFiniteSet(TickRange)
    /\ \A r \in TickRange : r[1] \in Int /\ r[2] \in Int /\ r[1] < r[2]
    /\ \A R \in SUBSET TickRange, pos \in Positions, p \in Pool : Summable(pos, p, R)
<1>1. IsFiniteSet(TickRange) /\ MaxPosition \in Nat
  BY LiquidityBounds
<1>2. ASSUME NEW r \in TickRange PROVE r[1] \in Int /\ r[2] \in Int /\ r[1] < r[2]
  BY LiquidityBounds
<1>3. ASSUME NEW R \in SUBSET TickRange, NEW pos \in Positions, NEW p \in Pool
      PROVE  Summable(pos, p, R)
  <2>1. IsFiniteSet(R)
    BY <1>1, FS_Subset
  <2>2. ASSUME NEW r \in R PROVE pos[<<p, r>>] \in Int
    <3>1. <<p, r>> \in Pool \X TickRange
      OBVIOUS
    <3> QED  BY <1>1, <3>1 DEF Positions
  <2> QED  BY <2>1, <2>2 DEF Summable
<1> QED  BY <1>1, <1>2, <1>3

(* One position of one pool moves by v.                                    *)
Moved(pos, pos2, q, x, v) ==
    /\ pos2[<<q, x>>] = pos[<<q, x>>] + v
    /\ \A p \in Pool, r \in TickRange :
           <<p, r>> # <<q, x>> => pos2[<<p, r>>] = pos[<<p, r>>]

LEMMA ExceptMoves ==
    ASSUME NEW pos \in Positions, NEW q \in Pool, NEW x \in TickRange, NEW v
    PROVE  Moved(pos, [pos EXCEPT ![<<q, x>>] = @ + v], q, x, v)
<1>1. <<q, x>> \in Pool \X TickRange /\ DOMAIN pos = Pool \X TickRange
  BY DEF Positions
<1> QED  BY <1>1 DEF Moved

LEMMA SumMoves ==
    ASSUME NEW pos \in Positions, NEW q \in Pool, NEW x \in TickRange, NEW v \in Int,
           NEW pos2 \in Positions, Moved(pos, pos2, q, x, v),
           NEW p \in Pool, NEW R \in SUBSET TickRange
    PROVE  /\ LiquidityOf(pos, p, R) \in Int
           /\ p = q /\ x \in R => LiquidityOf(pos2, p, R) = LiquidityOf(pos, p, R) + v
           /\ ~(p = q /\ x \in R) => LiquidityOf(pos2, p, R) = LiquidityOf(pos, p, R)
<1>1. Summable(pos, p, R) /\ Summable(pos2, p, R)
  BY RangeFacts
<1>2. LiquidityOf(pos, p, R) \in Int
  BY <1>1, LiquidityType
<1>3. CASE p # q
  <2>1. \A r \in R : pos[<<p, r>>] = pos2[<<p, r>>]
    BY <1>3 DEF Moved
  <2>2. LiquidityOf(pos, p, R) = LiquidityOf(pos2, p, R)
    BY <1>1, <2>1, LiquiditySame
  <2> QED  BY <1>2, <1>3, <2>2
<1>4. CASE p = q
  <2>1. x \in R => pos2[<<p, x>>] = pos[<<p, x>>] + v
    BY <1>4 DEF Moved
  <2>2. \A r \in R : r # x => pos2[<<p, r>>] = pos[<<p, r>>]
    BY <1>4 DEF Moved
  <2>3. /\ x \notin R => LiquidityOf(pos2, p, R) = LiquidityOf(pos, p, R)
        /\ x \in R => LiquidityOf(pos2, p, R) = LiquidityOf(pos, p, R) + v
    BY <1>1, <2>1, <2>2, LiquidityMoves
  <2> QED  BY <1>2, <1>4, <2>3
<1> QED  BY <1>3, <1>4

LEMMA ActiveType ==
    ASSUME NEW pos \in Positions, NEW p \in Pool, NEW tick
    PROVE  Active(pos, p, tick) \in Int
<1>1. {r \in TickRange : Covers(r, tick)} \in SUBSET TickRange
  OBVIOUS
<1> QED  BY <1>1, RangeFacts, LiquidityType DEF Active

LEMMA ActiveMoves ==
    ASSUME NEW pos \in Positions, NEW q \in Pool, NEW x \in TickRange, NEW v \in Int,
           NEW pos2 \in Positions, Moved(pos, pos2, q, x, v),
           NEW p \in Pool, NEW tick
    PROVE  /\ p = q /\ tick # NoTick /\ Covers(x, tick) =>
                  Active(pos2, p, tick) = Active(pos, p, tick) + v
           /\ ~(p = q /\ tick # NoTick /\ Covers(x, tick)) =>
                  Active(pos2, p, tick) = Active(pos, p, tick)
<1>1. PICK R : R = {r \in TickRange : Covers(r, tick)}
  OBVIOUS
<1>2. R \in SUBSET TickRange /\ (x \in R <=> Covers(x, tick))
  BY <1>1
<1>3. /\ p = q /\ x \in R => LiquidityOf(pos2, p, R) = LiquidityOf(pos, p, R) + v
      /\ ~(p = q /\ x \in R) => LiquidityOf(pos2, p, R) = LiquidityOf(pos, p, R)
  BY <1>2, SumMoves
<1>4. LiquidityOf(pos, p, R) \in Int
  BY <1>2, RangeFacts, LiquidityType
<1>5. CASE tick = NoTick
  BY <1>5 DEF Active
<1>6. CASE tick # NoTick
  <2>1. Active(pos, p, tick) = LiquidityOf(pos, p, R) /\ Active(pos2, p, tick) = LiquidityOf(pos2, p, R)
    BY <1>1, <1>6 DEF Active
  <2> QED  BY <1>2, <1>3, <1>4, <1>6, <2>1
<1> QED  BY <1>5, <1>6

LEMMA NetType ==
    ASSUME NEW pos \in Positions, NEW p \in Pool, NEW t
    PROVE  NetLiquidity(pos, p, t) \in Int
<1>1. /\ {r \in TickRange : r[1] = t} \in SUBSET TickRange
      /\ {r \in TickRange : r[2] = t} \in SUBSET TickRange
  OBVIOUS
<1> QED  BY <1>1, RangeFacts, LiquidityType DEF NetLiquidity

LEMMA NetMoves ==
    ASSUME NEW pos \in Positions, NEW q \in Pool, NEW x \in TickRange, NEW v \in Int,
           NEW pos2 \in Positions, Moved(pos, pos2, q, x, v),
           NEW p \in Pool, NEW t
    PROVE  /\ p = q /\ t = x[1] => NetLiquidity(pos2, p, t) = NetLiquidity(pos, p, t) + v
           /\ p = q /\ t = x[2] => NetLiquidity(pos2, p, t) = NetLiquidity(pos, p, t) - v
           /\ ~(p = q /\ t \in {x[1], x[2]}) => NetLiquidity(pos2, p, t) = NetLiquidity(pos, p, t)
<1>1. PICK R1 : R1 = {r \in TickRange : r[1] = t}
  OBVIOUS
<1>2. PICK R2 : R2 = {r \in TickRange : r[2] = t}
  OBVIOUS
<1>3. /\ R1 \in SUBSET TickRange /\ (x \in R1 <=> x[1] = t)
      /\ R2 \in SUBSET TickRange /\ (x \in R2 <=> x[2] = t)
  BY <1>1, <1>2
<1>4. PICK a \in Int, b \in Int : a = LiquidityOf(pos, p, R1) /\ b = LiquidityOf(pos, p, R2)
  BY <1>3, RangeFacts, LiquidityType
<1>5. /\ p = q /\ x \in R1 => LiquidityOf(pos2, p, R1) = a + v
      /\ ~(p = q /\ x \in R1) => LiquidityOf(pos2, p, R1) = a
  BY <1>3, <1>4, SumMoves
<1>6. /\ p = q /\ x \in R2 => LiquidityOf(pos2, p, R2) = b + v
      /\ ~(p = q /\ x \in R2) => LiquidityOf(pos2, p, R2) = b
  BY <1>3, <1>4, SumMoves
<1>7. NetLiquidity(pos, p, t) = a - b
  BY <1>1, <1>2, <1>4 DEF NetLiquidity
<1>8. NetLiquidity(pos2, p, t) = LiquidityOf(pos2, p, R1) - LiquidityOf(pos2, p, R2)
  BY <1>1, <1>2 DEF NetLiquidity
<1>9. x[1] # x[2]
  BY RangeFacts
<1> QED  BY <1>3, <1>5, <1>6, <1>7, <1>8, <1>9

(* A pool without positions has no liquidity at any tick.                  *)
LEMMA NothingActive ==
    ASSUME NEW pos, NEW p, NEW tick, \A r \in TickRange : pos[<<p, r>>] = 0
    PROVE  Active(pos, p, tick) = 0
<1>1. PICK R : R = {r \in TickRange : Covers(r, tick)}
  OBVIOUS
<1>2. IsFiniteSet(R) /\ \A r \in R : pos[<<p, r>>] = 0
  BY <1>1, RangeFacts, FS_Subset
<1> QED  BY <1>1, <1>2, LiquidityNone DEF Active

LEMMA NothingNet ==
    ASSUME NEW pos, NEW p, NEW t, \A r \in TickRange : pos[<<p, r>>] = 0
    PROVE  NetLiquidity(pos, p, t) = 0
<1>1. PICK R1 : R1 = {r \in TickRange : r[1] = t}
  OBVIOUS
<1>2. PICK R2 : R2 = {r \in TickRange : r[2] = t}
  OBVIOUS
<1>3. IsFiniteSet(R1) /\ \A r \in R1 : pos[<<p, r>>] = 0
  BY <1>1, RangeFacts, FS_Subset
<1>4. IsFiniteSet(R2) /\ \A r \in R2 : pos[<<p, r>>] = 0
  BY <1>2, RangeFacts, FS_Subset
<1>5. LiquidityOf(pos, p, R1) = 0 /\ LiquidityOf(pos, p, R2) = 0
  BY <1>3, <1>4, LiquidityNone
<1> QED  BY <1>1, <1>2, <1>5 DEF NetLiquidity

-----------------------------------------------------------------------------
(* Histories                                                               *)

PoolState == [cur : [Pool -> Ticks], pos : Positions, fee : [Pool -> Fee \cup {0}]]

Event ==
    [type : {"PoolCreated"}, pool : Pool, tx : Txs]
    \cup [type : {"Initialize"}, pool : Pool, tx : Txs, tick : Tick]
    \cup [type : {"Mint", "Burn"}, pool : Pool, tx : Txs, range : TickRange, amount : 0..MaxPosition]
    \cup [type : {"Swap"}, pool : Pool, tx : Txs, tick : Tick, liquidity : Int]
    \cup [type : {"SetFeeProtocol"}, pool : Pool, tx : Txs, fee : Fee]

(* An event takes the pools from s to u.                                   *)
TickSet(s, e, u) ==
    u.cur = [s.cur EXCEPT ![e.pool] = e.tick] /\ u.pos = s.pos /\ u.fee = s.fee

Step(s, e, u) ==
    /\ e.type = "PoolCreated" => u = s /\ s.cur[e.pool] = NoTick
    /\ e.type = "SetFeeProtocol" =>
           u.cur = s.cur /\ u.pos = s.pos /\ u.fee = [s.fee EXCEPT ![e.pool] = e.fee]
    /\ e.type = "Initialize" =>
           /\ TickSet(s, e, u)
           /\ s.cur[e.pool] = NoTick /\ \A r \in TickRange : s.pos[<<e.pool, r>>] = 0
    /\ e.type = "Swap" =>
           /\ TickSet(s, e, u)
           /\ s.cur[e.pool] # NoTick /\ e.liquidity = Active(s.pos, e.pool, e.tick)
    /\ e.type \in {"Mint", "Burn"} =>
           /\ u.cur = s.cur /\ Moved(s.pos, u.pos, e.pool, e.range, SignedAmount(e))
           /\ s.cur[e.pool] # NoTick /\ u.fee = s.fee

History(h, evs) ==
    /\ h \in [0..Len(evs) -> PoolState]
    /\ \A i \in 1..Len(evs) : Step(h[i - 1], evs[i], h[i])

LEMMA EventTypes ==
    ASSUME NEW e \in Event
    PROVE  /\ e.type \in {"PoolCreated", "Initialize", "Mint", "Burn", "Swap", "SetFeeProtocol"}
           /\ e.pool \in Pool /\ e.tx \in Txs
           /\ e.type = "SetFeeProtocol" => e.fee \in Fee
           /\ e.type \in {"Initialize", "Swap"} => e.tick \in Tick
           /\ e.type \in {"Mint", "Burn"} => e.range \in TickRange /\ SignedAmount(e) \in Int
<1>1. MaxPosition \in Nat
  BY LiquidityBounds
<1> QED  BY <1>1 DEF Event, SignedAmount

(* Functions that start alike and go on alike are alike.                   *)
Alike(f, g, M) == f[0] = g[0] /\ \A o \in 1..M : f[o - 1] = g[o - 1] => f[o] = g[o]

LEMMA SameAlong ==
    ASSUME NEW M \in Nat, NEW f, NEW g, Alike(f, g, M)
    PROVE  \A o \in 0..M : f[o] = g[o]
<1> DEFINE S == {n \in Nat : n <= M => f[n] = g[n]}
<1>1. 0 \in S
  BY DEF Alike
<1>2. ASSUME NEW n \in S PROVE n + 1 \in S
  <2>1. n \in Nat /\ (n <= M => f[n] = g[n])
    OBVIOUS
  <2>2. n + 1 <= M => n + 1 \in 1..M /\ (n + 1) - 1 = n /\ n <= M
    BY <2>1
  <2>3. n + 1 <= M => f[n + 1] = g[n + 1]
    BY <2>1, <2>2 DEF Alike
  <2> QED  BY <2>1, <2>3
<1>3. S = Nat
  <2>1. S \in SUBSET Nat
    OBVIOUS
  <2> HIDE DEF S
  <2> QED  BY <1>1, <1>2, <2>1, SetInduction
<1> QED  BY <1>3

-----------------------------------------------------------------------------
(* Every store follows the history.                                        *)

(* All the events are of known pools.                                      *)
AllKnown == \A i \in DOMAIN events : events[i].pool \in pools

(* The state after an ordinal, the last one up to the end of the store.    *)
After(h, o) == IF o <= Len(events) THEN h[o] ELSE h[Len(events)]

TickEq(p, f) ==
    f = [o \in 0..MaxEvents |->
            IF o = 0 THEN currentTick[p][0]
            ELSE IF o \in PoolEvents({"Initialize", "Swap"}) /\ events[o].pool = p
                 THEN events[o].tick
                 ELSE f[o - 1]]

LEMMA TicksAtIs == \A p, f : TickEq(p, f) => TickEq(p, TicksAt(p))
BY DEF TicksAt, TickEq

LEMMA TicksFollow ==
    ASSUME events \in Seq(Event), Len(events) <= MaxEvents, AllKnown,
           NEW h, History(h, events), NEW p \in Pool, currentTick[p][0] = h[0].cur[p]
    PROVE  /\ DOMAIN TicksAt(p) = 0..MaxEvents
           /\ \A o \in 0..MaxEvents : TicksAt(p)[o] = After(h, o).cur[p]
<1>1. MaxEvents \in Nat /\ Len(events) \in Nat /\ DOMAIN events = 1..Len(events)
  BY LiquidityBounds
<1>2. PICK f : f = [o \in 0..MaxEvents |-> After(h, o).cur[p]]
  OBVIOUS
<1>3. ASSUME NEW o \in 1..MaxEvents
      PROVE  After(h, o).cur[p]
                 = IF o \in PoolEvents({"Initialize", "Swap"}) /\ events[o].pool = p
                   THEN events[o].tick
                   ELSE After(h, o - 1).cur[p]
  <2>1. CASE o > Len(events)
    <3>1. o \notin DOMAIN events /\ o - 1 >= Len(events)
      BY <1>1, <2>1
    <3>2. After(h, o) = h[Len(events)] /\ After(h, o - 1) = h[Len(events)]
      BY <1>1, <2>1, <3>1 DEF After
    <3> QED  BY <3>1, <3>2 DEF PoolEvents
  <2>2. CASE o <= Len(events)
    <3>1. o \in 1..Len(events) /\ o - 1 \in 0..Len(events) /\ o \in 0..Len(events)
      BY <1>1, <2>2
    <3>2. After(h, o) = h[o] /\ After(h, o - 1) = h[o - 1]
      BY <1>1, <3>1 DEF After
    <3>3. PICK e \in Event : e = events[o]
      BY <1>1, <3>1
    <3>4. o \in PoolEvents({"Initialize", "Swap"}) <=> e.type \in {"Initialize", "Swap"}
      BY <1>1, <3>1, <3>3 DEF PoolEvents, AllKnown
    <3>5. PICK s \in PoolState, u \in PoolState : s = h[o - 1] /\ u = h[o]
      BY <3>1 DEF History
    <3>6. Step(s, e, u)
      BY <3>1, <3>3, <3>5 DEF History
    <3>7. s.cur \in [Pool -> Ticks]
      BY DEF PoolState
    <3>8. u.cur[p] = IF e.type \in {"Initialize", "Swap"} /\ e.pool = p THEN e.tick ELSE s.cur[p]
      BY <3>6, <3>7, EventTypes DEF Step, TickSet
    <3> QED  BY <3>2, <3>3, <3>4, <3>5, <3>8
  <2> QED  BY <1>1, <2>1, <2>2
<1>4. TickEq(p, f)
  <2>1. After(h, 0) = h[0]
    BY <1>1 DEF After
  <2>2. ASSUME NEW o \in 0..MaxEvents, o # 0 PROVE o \in 1..MaxEvents /\ o - 1 \in 0..MaxEvents
    BY <1>1, <2>2
  <2> QED  BY <1>2, <1>3, <2>1, <2>2 DEF TickEq
<1>5. TickEq(p, TicksAt(p))
  BY <1>4, TicksAtIs
<1>6. PICK g : g = TicksAt(p)
  OBVIOUS
<1>7. f[0] = g[0]
  BY <1>1, <1>4, <1>5, <1>6 DEF TickEq
<1>8. \A o \in 1..MaxEvents : f[o - 1] = g[o - 1] => f[o] = g[o]
  <2>1. \A o \in 1..MaxEvents : o \in 0..MaxEvents /\ o # 0
    BY <1>1
  <2> QED  BY <1>4, <1>5, <1>6, <2>1 DEF TickEq
<1>9. \A o \in 0..MaxEvents : f[o] = g[o]
  <2>1. Alike(f, g, MaxEvents)
    BY <1>7, <1>8 DEF Alike
  <2> QED  BY <1>1, <2>1, SameAlong
<1>10. DOMAIN g = 0..MaxEvents
  BY <1>5, <1>6 DEF TickEq
<1> QED  BY <1>2, <1>6, <1>9, <1>10

(* The store of ticks before the liquidity is mapped.                      *)
TicksKnown(h) == \A p \in Pool, o \in 0..MaxEvents : currentTick[p][o] = After(h, o).cur[p]

LEMMA ChangesAreIn ==
    ASSUME events \in Seq(Event), Len(events) <= MaxEvents, AllKnown,
           NEW h, History(h, events), TicksKnown(h),
           NEW o \in 1..Len(events)
    PROVE  o \in LiquidityChanges <=>
               \/ events[o].type = "Swap"
               \/ /\ events[o].type \in {"Mint", "Burn"}
                  /\ Covers(events[o].range, h[o - 1].cur[events[o].pool])
<1>1. MaxEvents \in Nat /\ Len(events) \in Nat /\ DOMAIN events = 1..Len(events)
  BY LiquidityBounds
<1>2. o \in 0..MaxEvents /\ o <= Len(events) /\ o - 1 \in 0..Len(events) /\ o \in 0..Len(events)
  BY <1>1
<1>3. PICK e \in Event : e = events[o]
  BY <1>1
<1>4. o \in PoolEvents({"Mint", "Burn", "Swap"}) <=> e.type \in {"Mint", "Burn", "Swap"}
  BY <1>1, <1>3 DEF PoolEvents, AllKnown
<1>5. PICK s \in PoolState, u \in PoolState : s = h[o - 1] /\ u = h[o]
  BY <1>2 DEF History
<1>6. Step(s, e, u)
  BY <1>3, <1>5 DEF History
<1>7. currentTick[e.pool][o] = u.cur[e.pool]
  BY <1>2, <1>3, <1>5, EventTypes DEF TicksKnown, After
<1>8. e.type \in {"Mint", "Burn"} => GetAt(e.pool, o) = s.cur[e.pool]
  BY <1>6, <1>7 DEF Step, GetAt
<1>9. o \in LiquidityChanges <=> /\ o \in PoolEvents({"Mint", "Burn", "Swap"})
                                 /\ e.type = "Swap" \/ Covers(e.range, GetAt(e.pool, o))
  BY <1>3 DEF LiquidityChanges
<1> QED  BY <1>3, <1>4, <1>5, <1>8, <1>9

(* What the operation at an ordinal makes of a value.                      *)
LiquidityOp(p, o, v) ==
    IF o \notin LiquidityChanges \/ events[o].pool # p THEN v
    ELSE IF events[o].type = "Swap" THEN events[o].liquidity
    ELSE v + SignedAmount(events[o])

LiquidityEq(p, f) ==
    f = [o \in 0..Len(events) |-> IF o = 0 THEN liquidity[p] ELSE LiquidityOp(p, o, f[o - 1])]

LEMMA LiquidityAtIs == \A p, f : LiquidityEq(p, f) => LiquidityEq(p, LiquidityAt(p))
BY DEF LiquidityAt, LiquidityEq, LiquidityOp

(* The pool's own liquidity.                                               *)
ActiveIn(s, p) == Active(s.pos, p, s.cur[p])

LEMMA LiquiditySteps ==
    ASSUME events \in Seq(Event), Len(events) <= MaxEvents, AllKnown,
           NEW h, History(h, events), TicksKnown(h), NEW p \in Pool, NEW o \in 1..Len(events)
    PROVE  ActiveIn(h[o], p) = LiquidityOp(p, o, ActiveIn(h[o - 1], p))
<1>0. Len(events) \in Nat /\ DOMAIN events = 1..Len(events)
  OBVIOUS
<1>1. o - 1 \in 0..Len(events) /\ o \in 0..Len(events)
  BY <1>0
<1>2. PICK e \in Event : e = events[o]
  BY <1>0
<1>3. PICK s \in PoolState, u \in PoolState : s = h[o - 1] /\ u = h[o]
  BY <1>1 DEF History
<1>4. Step(s, e, u)
  BY <1>2, <1>3 DEF History
<1>5. o \in LiquidityChanges <=> \/ e.type = "Swap"
                                 \/ /\ e.type \in {"Mint", "Burn"}
                                    /\ Covers(e.range, s.cur[e.pool])
  BY <1>2, <1>3, ChangesAreIn
<1>6. s.cur \in [Pool -> Ticks] /\ s.pos \in Positions /\ u.pos \in Positions
  BY DEF PoolState
<1> SUFFICES ActiveIn(u, p)
                 = IF o \notin LiquidityChanges \/ e.pool # p THEN ActiveIn(s, p)
                   ELSE IF e.type = "Swap" THEN e.liquidity
                   ELSE ActiveIn(s, p) + SignedAmount(e)
  BY <1>2, <1>3 DEF LiquidityOp
<1>7. CASE e.type \in {"PoolCreated", "SetFeeProtocol"}
  BY <1>4, <1>5, <1>7 DEF Step, ActiveIn
<1>8. CASE e.type = "Initialize"
  <2>1. e.pool = p => ActiveIn(u, p) = 0 /\ ActiveIn(s, p) = 0
    <3>1. e.pool = p => \A r \in TickRange : s.pos[<<p, r>>] = 0 /\ u.pos[<<p, r>>] = 0
      BY <1>4, <1>8 DEF Step, TickSet
    <3> QED  BY <3>1, NothingActive DEF ActiveIn
  <2>2. e.pool # p => ActiveIn(u, p) = ActiveIn(s, p)
    BY <1>4, <1>6, <1>8 DEF Step, TickSet, ActiveIn
  <2> QED  BY <1>5, <1>8, <2>1, <2>2
<1>9. CASE e.type = "Swap"
  <2>1. e.pool = p => u.cur[p] = e.tick
    BY <1>4, <1>6, <1>9 DEF Step, TickSet
  <2>2. e.pool = p => ActiveIn(u, p) = e.liquidity
    BY <1>4, <1>9, <2>1 DEF Step, TickSet, ActiveIn
  <2>3. e.pool # p => ActiveIn(u, p) = ActiveIn(s, p)
    BY <1>4, <1>6, <1>9 DEF Step, TickSet, ActiveIn
  <2> QED  BY <1>5, <1>9, <2>2, <2>3
<1>10. CASE e.type \in {"Mint", "Burn"}
  <2>1. /\ u.cur = s.cur /\ Moved(s.pos, u.pos, e.pool, e.range, SignedAmount(e))
        /\ s.cur[e.pool] # NoTick
    BY <1>4, <1>10 DEF Step
  <2>2. e.pool \in Pool /\ e.range \in TickRange /\ SignedAmount(e) \in Int
    BY <1>10, EventTypes
  <2>3. PICK tick : tick = s.cur[p]
    OBVIOUS
  <2>4. /\ p = e.pool /\ tick # NoTick /\ Covers(e.range, tick) =>
               Active(u.pos, p, tick) = Active(s.pos, p, tick) + SignedAmount(e)
        /\ ~(p = e.pool /\ tick # NoTick /\ Covers(e.range, tick)) =>
               Active(u.pos, p, tick) = Active(s.pos, p, tick)
    BY <1>6, <2>1, <2>2, ActiveMoves
  <2>5. ActiveIn(s, p) = Active(s.pos, p, tick) /\ ActiveIn(u, p) = Active(u.pos, p, tick)
    BY <2>1, <2>3 DEF ActiveIn
  <2> QED  BY <1>5, <1>10, <2>1, <2>3, <2>4, <2>5
<1> QED  BY <1>7, <1>8, <1>9, <1>10, EventTypes

LEMMA LiquidityFollows ==
    ASSUME events \in Seq(Event), Len(events) <= MaxEvents, AllKnown,
           NEW h, History(h, events), TicksKnown(h),
           NEW p \in Pool, liquidity[p] = ActiveIn(h[0], p)
    PROVE  \A o \in 0..Len(events) : LiquidityAt(p)[o] = ActiveIn(h[o], p)
<1>1. Len(events) \in Nat /\ DOMAIN events = 1..Len(events)
  OBVIOUS
<1>2. PICK f : f = [o \in 0..Len(events) |-> ActiveIn(h[o], p)]
  OBVIOUS
<1>3. ASSUME NEW o \in 1..Len(events)
      PROVE  ActiveIn(h[o], p) = LiquidityOp(p, o, ActiveIn(h[o - 1], p))
  BY LiquiditySteps
<1>4. LiquidityEq(p, f)
  <2>1. ASSUME NEW o \in 0..Len(events), o # 0
        PROVE  o \in 1..Len(events) /\ o - 1 \in 0..Len(events)
    BY <1>1, <2>1
  <2> QED  BY <1>2, <1>3, <2>1 DEF LiquidityEq
<1>5. PICK g : g = LiquidityAt(p)
  OBVIOUS
<1>6. LiquidityEq(p, g)
  BY <1>4, <1>5, LiquidityAtIs
<1>7. Alike(f, g, Len(events))
  <2>1. \A o \in 1..Len(events) : o \in 0..Len(events) /\ o # 0
    BY <1>1
  <2>2. f[0] = g[0]
    BY <1>1, <1>4, <1>6 DEF LiquidityEq
  <2> QED  BY <1>4, <1>6, <2>1, <2>2 DEF LiquidityEq, Alike
<1>8. \A o \in 0..Len(events) : f[o] = g[o]
  BY <1>1, <1>7, SameAlong
<1> QED  BY <1>1, <1>2, <1>5, <1>8

(* The event at an ordinal changes the net liquidity of the pool's tick.   *)
Touches(p, t, o) ==
    /\ o \in PoolEvents({"Mint", "Burn"}) /\ events[o].pool = p
    /\ t \in {events[o].range[1], events[o].range[2]}

Worth(v) == IF v = NoLiquidity THEN 0 ELSE v

(* Nothing has set the net liquidity yet.                                  *)
Fresh(p, t, o) == ticks[<<p, t>>] = NoLiquidity /\ \A j \in 1..o : ~Touches(p, t, j)

NetOp(p, t, o, v) == IF Touches(p, t, o) THEN Worth(v) + DeltaAt(events[o], t) ELSE v

NetEq(p, t, f) ==
    f = [o \in 0..Len(events) |-> IF o = 0 THEN ticks[<<p, t>>] ELSE NetOp(p, t, o, f[o - 1])]

LEMMA NetAtIs == \A p, t, f : NetEq(p, t, f) => NetEq(p, t, NetAt(p, t))
BY DEF NetAt, NetEq, NetOp, Touches, Worth

LEMMA NetSteps ==
    ASSUME events \in Seq(Event), AllKnown, NEW h, History(h, events),
           NEW p \in Pool, NEW t, NEW o \in 1..Len(events)
    PROVE  /\ Touches(p, t, o) =>
                  /\ NetLiquidity(h[o].pos, p, t)
                         = NetLiquidity(h[o - 1].pos, p, t) + DeltaAt(events[o], t)
                  /\ DeltaAt(events[o], t) \in Int
           /\ ~Touches(p, t, o) =>
                  NetLiquidity(h[o].pos, p, t) = NetLiquidity(h[o - 1].pos, p, t)
<1>1. Len(events) \in Nat /\ DOMAIN events = 1..Len(events)
  OBVIOUS
<1>2. o - 1 \in 0..Len(events) /\ o \in 0..Len(events)
  BY <1>1
<1>3. PICK e \in Event : e = events[o]
  BY <1>1
<1>4. PICK s \in PoolState, u \in PoolState : s = h[o - 1] /\ u = h[o]
  BY <1>2 DEF History
<1>5. Step(s, e, u)
  BY <1>3, <1>4 DEF History
<1>6. Touches(p, t, o) <=> /\ e.type \in {"Mint", "Burn"} /\ e.pool = p
                           /\ t \in {e.range[1], e.range[2]}
  BY <1>1, <1>3 DEF Touches, PoolEvents, AllKnown
<1>7. s.pos \in Positions /\ u.pos \in Positions
  BY DEF PoolState
<1>8. CASE e.type \notin {"Mint", "Burn"}
  <2>1. u.pos = s.pos
    BY <1>5, <1>8, EventTypes DEF Step, TickSet
  <2> QED  BY <1>4, <1>6, <1>8, <2>1
<1>9. CASE e.type \in {"Mint", "Burn"}
  <2>1. Moved(s.pos, u.pos, e.pool, e.range, SignedAmount(e))
    BY <1>5, <1>9 DEF Step
  <2>2. e.pool \in Pool /\ e.range \in TickRange
    BY <1>9, EventTypes
  <2>3. PICK v \in Int : v = SignedAmount(e)
    BY <1>9, EventTypes
  <2>4. PICK a \in Int : a = NetLiquidity(s.pos, p, t)
    BY <1>7, NetType
  <2>5. /\ p = e.pool /\ t = e.range[1] => NetLiquidity(u.pos, p, t) = a + v
        /\ p = e.pool /\ t = e.range[2] => NetLiquidity(u.pos, p, t) = a - v
        /\ ~(p = e.pool /\ t \in {e.range[1], e.range[2]}) => NetLiquidity(u.pos, p, t) = a
    BY <1>7, <2>1, <2>2, <2>3, <2>4, NetMoves
  <2>6. DeltaAt(e, t) = IF t = e.range[1] THEN v ELSE -v
    BY <2>3 DEF DeltaAt
  <2> QED  BY <1>3, <1>4, <1>6, <1>9, <2>4, <2>5, <2>6
<1> QED  BY <1>8, <1>9

LEMMA NetsFollow ==
    ASSUME events \in Seq(Event), AllKnown, NEW h, History(h, events),
           NEW p \in Pool, NEW t, ticks[<<p, t>>] \in Int \cup {NoLiquidity},
           Worth(ticks[<<p, t>>]) = NetLiquidity(h[0].pos, p, t)
    PROVE  \A o \in 0..Len(events) :
               /\ NetAt(p, t)[o] \in Int \cup {NoLiquidity}
               /\ Worth(NetAt(p, t)[o]) = NetLiquidity(h[o].pos, p, t)
               /\ o # 0 /\ Touches(p, t, o) => NetAt(p, t)[o] \in Int
<1>1. Len(events) \in Nat /\ NoLiquidity \notin Int
  BY LiquidityBounds
<1>2. PICK n : n = [o \in 0..Len(events) |-> NetLiquidity(h[o].pos, p, t)]
  OBVIOUS
<1>3. \A o \in 0..Len(events) : n[o] = NetLiquidity(h[o].pos, p, t) /\ n[o] \in Int
  <2> SUFFICES ASSUME NEW o \in 0..Len(events) PROVE NetLiquidity(h[o].pos, p, t) \in Int
    BY <1>2
  <2>1. h[o].pos \in Positions
    BY DEF History, PoolState
  <2> QED  BY <2>1, NetType
<1>4. \A o \in 1..Len(events) : o \in 0..Len(events) /\ o - 1 \in 0..Len(events) /\ o # 0
  BY <1>1
<1>5. ASSUME NEW o \in 1..Len(events)
      PROVE  /\ Touches(p, t, o) => /\ n[o] = n[o - 1] + DeltaAt(events[o], t)
                                    /\ DeltaAt(events[o], t) \in Int
             /\ ~Touches(p, t, o) => n[o] = n[o - 1]
  BY <1>3, <1>4, NetSteps
<1>6. /\ Fresh(p, t, 0) <=> ticks[<<p, t>>] = NoLiquidity
      /\ \A o \in 1..Len(events) : Fresh(p, t, o) <=> Fresh(p, t, o - 1) /\ ~Touches(p, t, o)
  <2>1. ASSUME NEW o \in 1..Len(events)
        PROVE  Fresh(p, t, o) <=> Fresh(p, t, o - 1) /\ ~Touches(p, t, o)
    <3>1. 1..o = (1..(o - 1)) \cup {o}
      BY <1>1
    <3> QED  BY <3>1 DEF Fresh
  <2>2. Fresh(p, t, 0) <=> ticks[<<p, t>>] = NoLiquidity
    BY DEF Fresh
  <2> QED  BY <2>1, <2>2
<1>8. \A o \in 0..Len(events) : Fresh(p, t, o) => n[o] = 0
  <2>1. PICK z : z = [o \in 0..Len(events) |-> IF Fresh(p, t, o) THEN n[o] ELSE 0]
    OBVIOUS
  <2>2. PICK c : c = [o \in 0..Len(events) |-> 0]
    OBVIOUS
  <2>3. z[0] = c[0]
    <3>1. Fresh(p, t, 0) => n[0] = 0
      BY <1>1, <1>3, <1>6 DEF Worth
    <3> QED  BY <1>1, <2>1, <2>2, <3>1
  <2>4. ASSUME NEW o \in 1..Len(events), z[o - 1] = c[o - 1] PROVE z[o] = c[o]
    <3>1. Fresh(p, t, o) => Fresh(p, t, o - 1) /\ n[o] = n[o - 1]
      BY <1>5, <1>6
    <3>2. Fresh(p, t, o - 1) => n[o - 1] = 0
      BY <1>4, <2>1, <2>2, <2>4
    <3> QED  BY <1>4, <2>1, <2>2, <3>1, <3>2
  <2>5. Alike(z, c, Len(events))
    BY <2>3, <2>4 DEF Alike
  <2>6. \A o \in 0..Len(events) : z[o] = c[o]
    BY <1>1, <2>5, SameAlong
  <2> QED  BY <2>1, <2>2, <2>6
<1>9. PICK f : f = [o \in 0..Len(events) |-> IF Fresh(p, t, o) THEN NoLiquidity ELSE n[o]]
  OBVIOUS
<1>10. \A o \in 0..Len(events) : f[o] \in Int \cup {NoLiquidity} /\ Worth(f[o]) = n[o]
  <2> SUFFICES ASSUME NEW o \in 0..Len(events)
               PROVE  f[o] \in Int \cup {NoLiquidity} /\ Worth(f[o]) = n[o]
    OBVIOUS
  <2>1. CASE Fresh(p, t, o)
    BY <1>8, <1>9, <2>1 DEF Worth
  <2>2. CASE ~Fresh(p, t, o)
    BY <1>1, <1>3, <1>9, <2>2 DEF Worth
  <2> QED  BY <2>1, <2>2
<1>11. NetEq(p, t, f)
  <2>1. f[0] = ticks[<<p, t>>]
    <3>1. CASE ticks[<<p, t>>] = NoLiquidity
      BY <1>1, <1>6, <1>9, <3>1
    <3>2. CASE ticks[<<p, t>>] # NoLiquidity
      BY <1>1, <1>3, <1>6, <1>9, <3>2 DEF Worth
    <3> QED  BY <3>1, <3>2
  <2>2. ASSUME NEW o \in 1..Len(events) PROVE f[o] = NetOp(p, t, o, f[o - 1])
    <3>1. CASE Touches(p, t, o)
      <4>1. f[o] = n[o - 1] + DeltaAt(events[o], t)
        BY <1>4, <1>5, <1>6, <1>9, <3>1
      <4>2. Worth(f[o - 1]) = n[o - 1]
        BY <1>4, <1>10
      <4> QED  BY <3>1, <4>1, <4>2 DEF NetOp
    <3>2. CASE ~Touches(p, t, o)
      <4>1. n[o] = n[o - 1] /\ (Fresh(p, t, o) <=> Fresh(p, t, o - 1))
        BY <1>5, <1>6, <3>2
      <4>2. f[o] = f[o - 1]
        BY <1>4, <1>9, <4>1
      <4> QED  BY <3>2, <4>2 DEF NetOp
    <3> QED  BY <3>1, <3>2
  <2>3. ASSUME NEW o \in 0..Len(events), o # 0 PROVE o \in 1..Len(events)
    BY <1>1, <2>3
  <2> QED  BY <1>9, <2>1, <2>2, <2>3 DEF NetEq
<1>12. PICK g : g = NetAt(p, t)
  OBVIOUS
<1>13. NetEq(p, t, g)
  BY <1>11, <1>12, NetAtIs
<1>14. Alike(f, g, Len(events))
  <2>1. f[0] = g[0]
    BY <1>1, <1>11, <1>13 DEF NetEq
  <2> QED  BY <1>4, <1>11, <1>13, <2>1 DEF NetEq, Alike
<1>15. \A o \in 0..Len(events) : f[o] = g[o]
  BY <1>1, <1>14, SameAlong
<1>16. ASSUME NEW o \in 0..Len(events), o # 0, Touches(p, t, o) PROVE f[o] \in Int
  <2>1. o \in 1..Len(events)
    BY <1>1, <1>16
  <2>2. ~Fresh(p, t, o)
    BY <1>6, <1>16, <2>1
  <2> QED  BY <1>3, <1>9, <2>2
<1> QED  BY <1>3, <1>10, <1>12, <1>15, <1>16

-----------------------------------------------------------------------------
(* Lists over the events                                                   *)

(* f joins longer and longer prefixes of the lists.                        *)
Joins(lists, n, f) ==
    f[0] = <<>> /\ \A i \in 1..n : f[i] = f[i - 1] \o lists[i]

LEMMA PrefixesExist ==
    ASSUME NEW D, NEW lists \in Seq(Seq(D))
    PROVE  \E f \in [0..Len(lists) -> Seq(D)] : Joins(lists, Len(lists), f)
<1> DEFINE S == {n \in Nat : n <= Len(lists) => \E f \in [0..n -> Seq(D)] : Joins(lists, n, f)}
<1>1. 0 \in S
  <2>1. PICK f : f = [i \in 0..0 |-> <<>>]
    OBVIOUS
  <2>2. f \in [0..0 -> Seq(D)] /\ Joins(lists, 0, f)
    BY <2>1 DEF Joins
  <2> QED  BY <2>2
<1>2. ASSUME NEW n \in S PROVE n + 1 \in S
  <2>1. n \in Nat /\ Len(lists) \in Nat /\ n + 1 \in Nat
    OBVIOUS
  <2>2. CASE n + 1 <= Len(lists)
    <3>1. PICK f \in [0..n -> Seq(D)] : Joins(lists, n, f)
      BY <2>1, <2>2
    <3>2. lists[n + 1] \in Seq(D)
      BY <2>1, <2>2
    <3>3. PICK g : g = [i \in 0..n + 1 |-> IF i <= n THEN f[i] ELSE f[n] \o lists[n + 1]]
      OBVIOUS
    <3> HIDE DEF S
    <3>4. g[n + 1] = f[n] \o lists[n + 1] /\ \A i \in 0..n : g[i] = f[i]
      BY <2>1, <3>3
    <3>5. f[n] \in Seq(D) /\ g[n + 1] \in Seq(D)
      BY <2>1, <3>2, <3>4
    <3>6. g \in [0..n + 1 -> Seq(D)]
      <4>1. \A i \in 0..n + 1 : i \in 0..n \/ i = n + 1
        BY <2>1
      <4>2. \A i \in 0..n + 1 : g[i] \in Seq(D)
        BY <3>4, <3>5, <4>1
      <4> QED  BY <3>3, <4>2
    <3>7. Joins(lists, n + 1, g)
      <4>1. g[0] = <<>>
        BY <2>1, <3>1, <3>4 DEF Joins
      <4>2. ASSUME NEW i \in 1..n PROVE g[i] = g[i - 1] \o lists[i]
        <5>1. i \in 0..n /\ i - 1 \in 0..n
          BY <2>1
        <5> QED  BY <3>1, <3>4, <5>1 DEF Joins
      <4>3. g[n + 1] = g[(n + 1) - 1] \o lists[n + 1]
        <5>1. (n + 1) - 1 = n /\ n \in 0..n
          BY <2>1
        <5> QED  BY <3>4, <5>1
      <4>4. \A i \in 1..n + 1 : i \in 1..n \/ i = n + 1
        BY <2>1
      <4> QED  BY <4>1, <4>2, <4>3, <4>4 DEF Joins
    <3> QED  BY <2>1, <3>6, <3>7 DEF S
  <2>3. CASE ~(n + 1 <= Len(lists))
    BY <2>1, <2>3
  <2> QED  BY <2>2, <2>3
<1>3. S = Nat
  <2>1. S \in SUBSET Nat
    OBVIOUS
  <2> HIDE DEF S
  <2> QED  BY <1>1, <1>2, <2>1, SetInduction
<1>4. Len(lists) \in Nat
  OBVIOUS
<1> QED  BY <1>3, <1>4

FlatEq(lists, f) ==
    f = [i \in 1..Len(lists) |-> IF i = 1 THEN lists[i] ELSE f[i - 1] \o lists[i]]

LEMMA FlattenSeqIs ==
    ASSUME NEW D, NEW lists \in Seq(Seq(D)),
           NEW f \in [0..Len(lists) -> Seq(D)], Joins(lists, Len(lists), f)
    PROVE  FlattenSeq(lists) = f[Len(lists)]
<1>1. PICK n \in Nat : n = Len(lists)
  OBVIOUS
<1>2. CASE n = 0
  <2>1. lists = <<>>
    <3>1. Len(lists) = 0 => lists = <<>>
      OBVIOUS
    <3> QED  BY <1>1, <1>2, <3>1
  <2>2. f[0] = <<>>
    BY DEF Joins
  <2> QED  BY <1>1, <1>2, <2>1, <2>2 DEF FlattenSeq
<1>3. CASE n # 0
  <2>1. PICK g : g = [i \in 1..n |-> f[i]]
    OBVIOUS
  <2>2. ASSUME NEW i \in 1..n
        PROVE  f[i] = IF i = 1 THEN lists[i] ELSE f[i - 1] \o lists[i]
    <3>0. lists[i] \in Seq(D)
      BY <1>1
    <3>1. f[i] = f[i - 1] \o lists[i]
      BY <1>1 DEF Joins
    <3>2. i = 1 => f[i - 1] = <<>> /\ <<>> \o lists[i] = lists[i]
      BY <3>0 DEF Joins
    <3> QED  BY <3>1, <3>2
  <2>3. FlatEq(lists, g)
    <3>1. \A i \in 1..n : i # 1 => i - 1 \in 1..n
      BY <1>1
    <3> QED  BY <1>1, <2>1, <2>2, <3>1 DEF FlatEq
  <2>4. PICK fl : fl = CHOOSE k : FlatEq(lists, k)
    OBVIOUS
  <2>5. FlatEq(lists, fl)
    BY <2>3, <2>4
  <2>6. FlattenSeq(lists) = fl[n]
    BY <1>1, <1>3, <2>4 DEF FlattenSeq, FlatEq
  <2>7. PICK k : k = [i \in 0..n |-> IF i = 0 THEN <<>> ELSE fl[i]]
    OBVIOUS
  <2>8. Alike(f, k, n)
    <3>1. f[0] = k[0]
      BY <1>1, <2>7 DEF Joins
    <3>2. ASSUME NEW o \in 1..n, f[o - 1] = k[o - 1] PROVE f[o] = k[o]
      <4>1. o \in 0..n /\ o # 0 /\ o - 1 \in 0..n /\ (o # 1 => o - 1 # 0)
        BY <1>1
      <4>2. k[o] = fl[o] /\ (o # 1 => k[o - 1] = fl[o - 1])
        BY <2>7, <4>1
      <4>3. fl[o] = IF o = 1 THEN lists[o] ELSE fl[o - 1] \o lists[o]
        BY <1>1, <2>5 DEF FlatEq
      <4> QED  BY <2>2, <3>2, <4>2, <4>3
    <3> QED  BY <3>1, <3>2 DEF Alike
  <2>9. \A o \in 0..n : f[o] = k[o]
    BY <1>1, <2>8, SameAlong
  <2>10. n \in 0..n /\ k[n] = fl[n]
    BY <1>1, <1>3, <2>7
  <2> QED  BY <1>1, <2>6, <2>9, <2>10
<1> QED  BY <1>2, <1>3

(* c counts the members up to a position of the list of lists.             *)
Listing(n, lists, flat, c) ==
    /\ c \in [0..n -> Nat] /\ c[0] = 0 /\ c[n] = Len(flat)
    /\ \A o \in 1..n : c[o] = c[o - 1] + Len(lists[o]) /\ c[o] <= Len(flat)
    /\ \A o \in 1..n, j \in Nat : 1 <= j /\ j <= Len(lists[o]) => flat[c[o - 1] + j] = lists[o][j]

LEMMA FlattenSeqLists ==
    ASSUME NEW D, NEW lists \in Seq(Seq(D))
    PROVE  /\ FlattenSeq(lists) \in Seq(D)
           /\ \E c : Listing(Len(lists), lists, FlattenSeq(lists), c)
<1>1. PICK n \in Nat : n = Len(lists)
  OBVIOUS
<1>2. PICK f \in [0..n -> Seq(D)] : Joins(lists, n, f)
  BY <1>1, PrefixesExist
<1>3. PICK flat : flat = FlattenSeq(lists)
  OBVIOUS
<1>4. flat = f[n] /\ flat \in Seq(D)
  <2>1. n \in 0..n
    BY <1>1
  <2> QED  BY <1>1, <1>2, <1>3, <2>1, FlattenSeqIs
<1>5. PICK c : c = [o \in 0..n |-> Len(f[o])]
  OBVIOUS
<1>6. ASSUME NEW o \in 1..n
      PROVE  /\ o \in 0..n /\ o - 1 \in 0..n
             /\ f[o] = f[o - 1] \o lists[o] /\ f[o - 1] \in Seq(D) /\ lists[o] \in Seq(D)
  <2>1. o \in 0..n /\ o - 1 \in 0..n
    BY <1>1
  <2>2. f[o] = f[o - 1] \o lists[o]
    BY <1>1, <1>2 DEF Joins
  <2>3. lists[o] \in Seq(D)
    BY <1>1
  <2> QED  BY <1>2, <2>1, <2>2, <2>3
<1>7. ASSUME NEW o \in 1..n
      PROVE  /\ Len(f[o]) = Len(f[o - 1]) + Len(lists[o])
             /\ \A j \in 1..Len(f[o - 1]) : f[o][j] = f[o - 1][j]
             /\ \A j \in 1..Len(lists[o]) : f[o][Len(f[o - 1]) + j] = lists[o][j]
  <2>1. PICK a \in Seq(D), b \in Seq(D) : a = f[o - 1] /\ b = lists[o]
    BY <1>6
  <2>2. /\ Len(a \o b) = Len(a) + Len(b)
        /\ \A j \in 1..Len(a) : (a \o b)[j] = a[j]
        /\ \A j \in 1..Len(b) : (a \o b)[Len(a) + j] = b[j]
    OBVIOUS
  <2>3. f[o] = a \o b
    BY <1>6, <2>1
  <2> QED  BY <2>1, <2>2, <2>3
<1>8. ASSUME NEW o \in 0..n
      PROVE  Len(f[o]) <= Len(flat) /\ \A j \in 1..Len(f[o]) : flat[j] = f[o][j]
  <2> DEFINE S == {m \in Nat : o + m <= n =>
                       /\ Len(f[o]) <= Len(f[o + m])
                       /\ \A j \in 1..Len(f[o]) : f[o + m][j] = f[o][j]}
  <2>1. \A i \in 0..n : Len(f[i]) \in Nat
    BY <1>2
  <2>2. 0 \in S
    BY <1>1, <2>1
  <2>3. ASSUME NEW m \in S PROVE m + 1 \in S
    <3>1. m \in Nat /\ m + 1 \in Nat
      OBVIOUS
    <3>2. CASE o + (m + 1) <= n
      <4>1. o + m <= n /\ o + m \in 0..n /\ o + (m + 1) \in 1..n /\ (o + (m + 1)) - 1 = o + m
        BY <1>1, <3>1, <3>2
      <4>2. /\ Len(f[o]) <= Len(f[o + m])
            /\ \A j \in 1..Len(f[o]) : f[o + m][j] = f[o][j]
        BY <3>1, <4>1
      <4> HIDE DEF S
      <4>3. PICK x \in 0..n, y \in 1..n : x = o + m /\ y = o + (m + 1) /\ y - 1 = x
        BY <4>1
      <4>4. /\ Len(f[y]) = Len(f[x]) + Len(lists[y])
            /\ \A j \in 1..Len(f[x]) : f[y][j] = f[x][j]
        <5>1. /\ Len(f[y]) = Len(f[y - 1]) + Len(lists[y])
              /\ \A j \in 1..Len(f[y - 1]) : f[y][j] = f[y - 1][j]
          BY <1>7
        <5> QED  BY <4>3, <5>1
      <4>5. Len(lists[y]) \in Nat /\ Len(f[x]) \in Nat /\ Len(f[o]) \in Nat
        BY <1>6, <2>1
      <4>6. Len(f[o]) <= Len(f[y])
        <5>1. Len(f[o]) <= Len(f[x])
          BY <4>2, <4>3
        <5> QED  BY <4>4, <4>5, <5>1
      <4>7. \A j \in 1..Len(f[o]) : j \in 1..Len(f[x])
        BY <4>2, <4>3, <4>5
      <4>8. \A j \in 1..Len(f[o]) : f[y][j] = f[o][j]
        BY <4>2, <4>3, <4>4, <4>7
      <4> QED  BY <3>1, <4>3, <4>6, <4>8 DEF S
    <3>3. CASE ~(o + (m + 1) <= n)
      BY <3>1, <3>3
    <3> QED  BY <3>2, <3>3
  <2>4. S = Nat
    <3>1. S \in SUBSET Nat
      OBVIOUS
    <3> HIDE DEF S
    <3> QED  BY <2>2, <2>3, <3>1, SetInduction
  <2>5. n - o \in Nat /\ o + (n - o) = n
    BY <1>1
  <2>6. n - o \in S
    BY <2>4, <2>5
  <2> QED  BY <1>4, <2>5, <2>6
<1>9. Listing(n, lists, flat, c)
  <2>1. c \in [0..n -> Nat] /\ c[0] = 0 /\ c[n] = Len(flat)
    BY <1>1, <1>2, <1>4, <1>5 DEF Joins
  <2>2. ASSUME NEW o \in 1..n, NEW j \in Nat, 1 <= j, j <= Len(lists[o])
        PROVE  flat[c[o - 1] + j] = lists[o][j]
    <3>1. c[o - 1] = Len(f[o - 1]) /\ Len(f[o - 1]) \in Nat /\ Len(lists[o]) \in Nat
      BY <1>5, <1>6
    <3>2. j \in 1..Len(lists[o])
      BY <2>2, <3>1
    <3>3. f[o][c[o - 1] + j] = lists[o][j]
      BY <1>7, <3>1, <3>2
    <3>4. c[o - 1] + j \in 1..Len(f[o])
      <4>1. Len(f[o]) = Len(f[o - 1]) + Len(lists[o])
        BY <1>7
      <4>2. PICK a, b, l : a = c[o - 1] /\ b = Len(f[o]) /\ l = Len(lists[o])
        OBVIOUS
      <4>3. a \in Nat /\ l \in Nat /\ b = a + l
        BY <3>1, <4>1, <4>2
      <4>4. j \in 1..l
        BY <3>2, <4>2
      <4>5. a + j \in 1..b
        BY <4>3, <4>4
      <4> QED  BY <4>2, <4>5
    <3> QED  BY <1>6, <1>8, <3>3, <3>4
  <2>3. \A o \in 1..n : c[o] <= Len(flat)
    BY <1>5, <1>6, <1>8
  <2>4. \A o \in 1..n : c[o] = c[o - 1] + Len(lists[o])
    BY <1>5, <1>6, <1>7
  <2> QED  BY <2>1, <2>2, <2>3, <2>4 DEF Listing
<1> QED  BY <1>1, <1>3, <1>4, <1>9

-----------------------------------------------------------------------------
(* The attributes of a pool                                                *)

StateIn(s, p) == State(s.cur, s.pos, s.fee, p)
TickIn(s, p) == IF s.cur[p] = NoTick THEN 0 ELSE s.cur[p]

LEMMA NamesDiffer ==
    /\ <<"liquidity">> \in Name /\ <<"tick">> \in Name /\ <<"protocol_fees">> \in Name
    /\ <<"liquidity">> # <<"tick">> /\ <<"liquidity">> # <<"protocol_fees">>
    /\ <<"tick">> # <<"protocol_fees">>
    /\ \A t : TickName(t) \notin {<<"liquidity">>, <<"tick">>, <<"protocol_fees">>}
<1>1. /\ <<"liquidity">>[1] = "liquidity" /\ <<"tick">>[1] = "tick"
      /\ <<"protocol_fees">>[1] = "protocol_fees" /\ \A t : TickName(t)[1] = "ticks"
  BY DEF TickName
<1>2. /\ <<"liquidity">> # <<"tick">> /\ <<"liquidity">> # <<"protocol_fees">>
      /\ <<"tick">> # <<"protocol_fees">>
  BY <1>1
<1>3. ASSUME NEW t PROVE TickName(t) \notin {<<"liquidity">>, <<"tick">>, <<"protocol_fees">>}
  BY <1>1
<1>4. <<"liquidity">> \in Name /\ <<"tick">> \in Name /\ <<"protocol_fees">> \in Name
  BY DEF Name
<1> QED  BY <1>2, <1>3, <1>4

LEMMA TickNames ==
    /\ \A t, u : TickName(t) = TickName(u) => t = u
    /\ \A t \in Boundary : TickName(t) \in Name
    /\ \A n \in Name \ {<<"liquidity">>, <<"tick">>, <<"protocol_fees">>} :
           \E t \in Boundary : n = TickName(t)
<1>1. \A t : TickName(t)[2] = t
  BY DEF TickName
<1>2. \A t, u : TickName(t) = TickName(u) => t = u
  BY <1>1
<1> QED  BY <1>2 DEF Name

LEMMA StateIs ==
    ASSUME NEW s, NEW p
    PROVE  /\ StateIn(s, p)[<<"liquidity">>] = ActiveIn(s, p)
           /\ StateIn(s, p)[<<"tick">>] = TickIn(s, p)
           /\ StateIn(s, p)[<<"protocol_fees">>] = s.fee[p]
           /\ \A t \in Boundary : StateIn(s, p)[TickName(t)] = NetLiquidity(s.pos, p, t)
<1>1. /\ StateIn(s, p)[<<"liquidity">>] = ActiveIn(s, p)
      /\ StateIn(s, p)[<<"tick">>] = TickIn(s, p)
      /\ StateIn(s, p)[<<"protocol_fees">>] = s.fee[p]
  BY NamesDiffer DEF StateIn, State, ActiveIn, TickIn
<1>2. ASSUME NEW t \in Boundary PROVE StateIn(s, p)[TickName(t)] = NetLiquidity(s.pos, p, t)
  <2>1. TickName(t) \in Name /\ TickName(t)[2] = t
    BY TickNames DEF TickName
  <2>2. /\ TickName(t) # <<"liquidity">> /\ TickName(t) # <<"tick">>
        /\ TickName(t) # <<"protocol_fees">>
    BY NamesDiffer
  <2> QED  BY <2>1, <2>2 DEF StateIn, State
<1> QED  BY <1>1, <1>2

-----------------------------------------------------------------------------
(* Entries of a builder                                                    *)

IsTick(n) == n \notin {<<"liquidity">>, <<"tick">>, <<"protocol_fees">>}

(* What a builder has for a pool, nothing where it has no entry.           *)
Opened(entry) == IF entry = NoEntity THEN Netting!EmptyInterim ELSE entry

(* What a consumer reads that applies the attribute.                       *)
Told(attr) == IF attr.change = "Deletion" THEN 0 ELSE attr.value

(* The entry takes the name from what it was before the transaction to     *)
(* what the messages so far say.                                           *)
NameGood(attr, isCreated, n, before, now) ==
    /\ attr = Unset => now = before
    /\ isCreated => before = 0
    /\ attr # Unset =>
           /\ attr \in Netting!Attribute /\ now = Told(attr)
           /\ IsTick(n) /\ ~isCreated => before # 0
           /\ attr.change = "Deletion" => IsTick(n) /\ ~isCreated

Good(entry, before, now) ==
    /\ Opened(entry) \in Netting!Interim
    /\ \A n \in Name : NameGood(Opened(entry).attributes[n], n \in Opened(entry).created,
                                n, before[n], now[n])

(* The attribute says truly how the name moves.                            *)
Truthful(attr, n, now, next) ==
    /\ attr \in Netting!Attribute /\ next = Told(attr)
    /\ attr.change = "Deletion" => IsTick(n)
    /\ attr.change = "Creation" => now = 0
    /\ IsTick(n) /\ now = 0 => attr.change = "Creation"

(* The name's new attribute and mark after set_attribute.                  *)
NowCreated(old, isCreated, attr) == isCreated \/ (attr.change = "Creation" /\ old = Unset)
NowAttribute(old, isCreated, attr) ==
    IF attr.change = "Deletion" /\ NowCreated(old, isCreated, attr) THEN Unset ELSE attr

LEMMA NameStep ==
    ASSUME NEW old, NEW marked, NEW n, NEW before, NEW now, NEW next, NEW attr,
           NameGood(old, n \in marked, n, before, now), Truthful(attr, n, now, next)
    PROVE  NameGood(NowAttribute(old, n \in marked, attr), NowCreated(old, n \in marked, attr),
                    n, before, next)
<1>1. attr # Unset /\ attr \in Netting!Attribute /\ next = Told(attr)
  BY NettingAssumption DEF Truthful
<1>2. CASE attr.change = "Deletion" /\ NowCreated(old, n \in marked, attr)
  <2>1. n \in marked
    BY <1>2 DEF NowCreated
  <2>2. before = 0 /\ next = 0
    BY <1>1, <1>2, <2>1 DEF NameGood, Told
  <2> QED  BY <1>2, <2>2 DEF NameGood, NowAttribute
<1>3. CASE ~(attr.change = "Deletion" /\ NowCreated(old, n \in marked, attr))
  <2>1. NowAttribute(old, n \in marked, attr) = attr
    BY <1>3 DEF NowAttribute
  <2>2. NowCreated(old, n \in marked, attr) => before = 0
    BY DEF NowCreated, NameGood, Truthful
  <2>3. attr.change = "Deletion" => IsTick(n) /\ ~NowCreated(old, n \in marked, attr)
    BY <1>3 DEF Truthful
  <2>4. IsTick(n) /\ ~NowCreated(old, n \in marked, attr) => before # 0
    <3>1. ASSUME IsTick(n), ~NowCreated(old, n \in marked, attr), before = 0 PROVE FALSE
      <4>1. old = Unset /\ n \notin marked
        <5>1. n \notin marked
          BY <3>1 DEF NowCreated
        <5>2. old # Unset => before # 0
          BY <3>1, <5>1 DEF NameGood
        <5> QED  BY <3>1, <5>1, <5>2
      <4>2. now = 0
        BY <3>1, <4>1 DEF NameGood
      <4>3. attr.change = "Creation"
        BY <3>1, <4>2 DEF Truthful
      <4> QED  BY <3>1, <4>1, <4>3 DEF NowCreated
    <3> QED  BY <3>1
  <2> QED  BY <1>1, <2>1, <2>2, <2>3, <2>4 DEF NameGood
<1> QED  BY <1>2, <1>3

(* Messages name each attribute once.                                      *)
Single(msg) == DOMAIN msg \subseteq Name /\ \A n \in DOMAIN msg : msg[n] = <<msg[n][1]>>

LEMMA ReceivedIs ==
    ASSUME NEW entry, Opened(entry) \in Netting!Interim,
           NEW msg, Single(msg), \A n \in DOMAIN msg : msg[n][1] \in Netting!Attribute
    PROVE  LET r == Received(entry, msg)
               o == Opened(entry)
           IN  /\ r \in Netting!Interim /\ r # NoEntity
               /\ \A n \in Name \ DOMAIN msg :
                      /\ r.attributes[n] = o.attributes[n] /\ (n \in r.created <=> n \in o.created)
               /\ \A n \in DOMAIN msg :
                      /\ r.attributes[n] = NowAttribute(o.attributes[n], n \in o.created, msg[n][1])
                      /\ n \in r.created <=> NowCreated(o.attributes[n], n \in o.created, msg[n][1])
<1> DEFINE r == Received(entry, msg)
           o == Opened(entry)
           A(n) == IF n \in DOMAIN msg
                   THEN NowAttribute(o.attributes[n], n \in o.created, msg[n][1])
                   ELSE o.attributes[n]
           C(n) == IF n \in DOMAIN msg
                   THEN NowCreated(o.attributes[n], n \in o.created, msg[n][1])
                   ELSE n \in o.created
<1>1. ASSUME NEW n \in DOMAIN msg
      PROVE  /\ n \in Name /\ Len(msg[n]) = 1 /\ msg[n][1] \in Netting!Attribute
             /\ DOMAIN msg[n] = {1}
  BY DEF Single
<1>2. r = [attributes |-> [n \in Name |-> A(n)], created |-> {n \in Name : C(n)}]
  <2>1. CASE entry = NoEntity
    <3>1. \A n \in Name : o.attributes[n] = Unset /\ n \notin o.created
      BY <2>1 DEF Opened, Netting!EmptyInterim
    <3>2. ASSUME NEW n \in DOMAIN msg
          PROVE  /\ A(n) = msg[n][Len(msg[n])]
                 /\ C(n) <=> \E i \in DOMAIN msg[n] : msg[n][i].change = "Creation"
      <4>1. C(n) <=> msg[n][1].change = "Creation"
        BY <1>1, <3>1 DEF NowCreated
      <4>2. A(n) = msg[n][1]
        <5>1. ~(msg[n][1].change = "Deletion" /\ NowCreated(o.attributes[n], n \in o.created, msg[n][1]))
          BY <1>1, <3>1 DEF NowCreated
        <5> QED  BY <1>1, <5>1 DEF NowAttribute
      <4> QED  BY <1>1, <4>1, <4>2
    <3>3. [n \in Name |-> IF n \in DOMAIN msg THEN msg[n][Len(msg[n])] ELSE Unset]
              = [n \in Name |-> A(n)]
      <4>1. ASSUME NEW n \in Name
            PROVE  (IF n \in DOMAIN msg THEN msg[n][Len(msg[n])] ELSE Unset) = A(n)
        BY <3>1, <3>2
      <4> HIDE DEF A
      <4> QED  BY <4>1
    <3>4. {n \in DOMAIN msg : \E i \in DOMAIN msg[n] : msg[n][i].change = "Creation"}
              = {n \in Name : C(n)}
      <4>1. ASSUME NEW n \in Name, n \notin DOMAIN msg PROVE ~C(n)
        BY <3>1, <4>1
      <4> HIDE DEF C
      <4> QED  BY <1>1, <3>2, <4>1
    <3>5. r = Netting!First(msg)
      BY <2>1 DEF Received
    <3> HIDE DEF A, C, o, r
    <3> QED  BY <3>3, <3>4, <3>5 DEF Netting!First
  <2>2. CASE entry # NoEntity
    <3>1. o = entry /\ r = Netting!Merged(o, msg)
      BY <2>2 DEF Opened, Received
    <3>2. o.attributes \in [Name -> Netting!Attribute \cup {Unset}] /\ o.created \subseteq Name
      BY DEF Netting!Interim
    <3>3. ASSUME NEW n \in DOMAIN msg
          PROVE  /\ Netting!SetInOrder(o, n, msg[n]).attributes[n] = A(n)
                 /\ n \in Netting!SetInOrder(o, n, msg[n]).created <=> C(n)
      <4>1. Netting!SetInOrder(o, n, msg[n]) = Netting!SetAttribute(o, n, msg[n][1])
        BY <1>1 DEF Netting!SetInOrder
      <4>2. PICK a : a = msg[n][1]
        OBVIOUS
      <4>3. PICK c : c = Netting!CreatedAfter(o, n, a)
        OBVIOUS
      <4>4. n \in c <=> NowCreated(o.attributes[n], n \in o.created, a)
        <5>1. CASE a.change = "Creation" /\ o.attributes[n] = Unset
          BY <4>3, <5>1 DEF Netting!CreatedAfter, NowCreated
        <5>2. CASE ~(a.change = "Creation" /\ o.attributes[n] = Unset)
          <6>1. c = o.created
            BY <4>3, <5>2 DEF Netting!CreatedAfter
          <6> QED  BY <5>2, <6>1, Zenon DEF NowCreated
        <5> QED  BY <5>1, <5>2
      <4>5. Netting!SetAttribute(o, n, a).created = c
        BY <4>3 DEF Netting!SetAttribute
      <4>6. Netting!SetAttribute(o, n, a).attributes
                = [o.attributes EXCEPT ![n] = IF a.change = "Deletion" /\ n \in c THEN Unset ELSE a]
        BY <4>3 DEF Netting!SetAttribute
      <4>7. Netting!SetAttribute(o, n, a).attributes[n]
                = IF a.change = "Deletion" /\ n \in c THEN Unset ELSE a
        BY <1>1, <3>2, <4>6
      <4>8. NowAttribute(o.attributes[n], n \in o.created, a)
                = IF a.change = "Deletion" /\ n \in c THEN Unset ELSE a
        BY <4>4 DEF NowAttribute
      <4> QED  BY <4>1, <4>2, <4>4, <4>5, <4>7, <4>8
    <3>4. [n \in Name |-> IF n \in DOMAIN msg THEN Netting!SetInOrder(o, n, msg[n]).attributes[n]
                                              ELSE o.attributes[n]]
              = [n \in Name |-> A(n)]
      <4>1. ASSUME NEW n \in Name, n \notin DOMAIN msg PROVE A(n) = o.attributes[n]
        BY <4>1
      <4> HIDE DEF A, o
      <4> QED  BY <3>3, <4>1
    <3>5. {n \in Name : IF n \in DOMAIN msg THEN n \in Netting!SetInOrder(o, n, msg[n]).created
                                            ELSE n \in o.created}
              = {n \in Name : C(n)}
      <4>1. ASSUME NEW n \in Name, n \notin DOMAIN msg PROVE C(n) <=> n \in o.created
        BY <4>1
      <4> HIDE DEF C, o
      <4> QED  BY <3>3, <4>1
    <3> HIDE DEF A, C, o, r
    <3> QED  BY <3>1, <3>4, <3>5 DEF Netting!Merged
  <2> QED  BY <2>1, <2>2
<1>3. ASSUME NEW n \in Name PROVE A(n) \in Netting!Attribute \cup {Unset}
  <2>1. o.attributes[n] \in Netting!Attribute \cup {Unset}
    BY DEF Netting!Interim
  <2> QED  BY <1>1, <2>1 DEF NowAttribute
<1>4. r \in Netting!Interim
  <2> HIDE DEF A, C, r, o
  <2> QED  BY <1>2, <1>3 DEF Netting!Interim
<1>5. r # NoEntity
  <2> HIDE DEF r
  <2> QED  BY <1>4, NettingAssumption
<1>6. ASSUME NEW n \in Name PROVE r.attributes[n] = A(n) /\ (n \in r.created <=> C(n))
  <2> HIDE DEF A, C, r, o
  <2> QED  BY <1>2
<1>7. ASSUME NEW n \in Name \ DOMAIN msg
      PROVE  r.attributes[n] = o.attributes[n] /\ (n \in r.created <=> n \in o.created)
  <2>1. n \in Name /\ A(n) = o.attributes[n] /\ (C(n) <=> n \in o.created)
    OBVIOUS
  <2> HIDE DEF A, C, r, o
  <2> QED  BY <1>6, <2>1
<1>8. ASSUME NEW n \in DOMAIN msg
      PROVE  /\ r.attributes[n] = NowAttribute(o.attributes[n], n \in o.created, msg[n][1])
             /\ n \in r.created <=> NowCreated(o.attributes[n], n \in o.created, msg[n][1])
  <2>1. /\ A(n) = NowAttribute(o.attributes[n], n \in o.created, msg[n][1])
        /\ C(n) <=> NowCreated(o.attributes[n], n \in o.created, msg[n][1])
    OBVIOUS
  <2>2. n \in Name
    BY <1>1
  <2> HIDE DEF A, C, r, o
  <2> QED  BY <1>6, <2>1, <2>2
<1> QED  BY <1>4, <1>5, <1>7, <1>8

(* A message that says truly how its names move keeps an entry good.       *)
LEMMA ReceivedGood ==
    ASSUME NEW entry, NEW before, NEW now, NEW next, Good(entry, before, now),
           NEW msg, Single(msg),
           \A n \in DOMAIN msg : Truthful(msg[n][1], n, now[n], next[n]),
           \A n \in Name \ DOMAIN msg : next[n] = now[n]
    PROVE  Good(Received(entry, msg), before, next) /\ Received(entry, msg) # NoEntity
<1>1. Opened(entry) \in Netting!Interim /\ \A n \in DOMAIN msg : msg[n][1] \in Netting!Attribute
  BY DEF Good, Truthful
<1>2. PICK o : o = Opened(entry)
  OBVIOUS
<1>3. PICK r : r = Received(entry, msg)
  OBVIOUS
<1>4. /\ r \in Netting!Interim /\ r # NoEntity
      /\ \A n \in Name \ DOMAIN msg :
             /\ r.attributes[n] = o.attributes[n] /\ (n \in r.created <=> n \in o.created)
      /\ \A n \in DOMAIN msg :
             /\ r.attributes[n] = NowAttribute(o.attributes[n], n \in o.created, msg[n][1])
             /\ n \in r.created <=> NowCreated(o.attributes[n], n \in o.created, msg[n][1])
  BY <1>1, <1>2, <1>3, ReceivedIs
<1>5. ASSUME NEW n \in Name
      PROVE  NameGood(r.attributes[n], n \in r.created, n, before[n], next[n])
  <2>1. NameGood(o.attributes[n], n \in o.created, n, before[n], now[n])
    BY <1>2 DEF Good
  <2>2. CASE n \in DOMAIN msg
    <3>1. NameGood(NowAttribute(o.attributes[n], n \in o.created, msg[n][1]),
                   NowCreated(o.attributes[n], n \in o.created, msg[n][1]), n, before[n], next[n])
      <4>1. Truthful(msg[n][1], n, now[n], next[n])
        BY <2>2
      <4> QED  BY <2>1, <4>1, NameStep
    <3>2. /\ r.attributes[n] = NowAttribute(o.attributes[n], n \in o.created, msg[n][1])
          /\ n \in r.created <=> NowCreated(o.attributes[n], n \in o.created, msg[n][1])
      BY <1>4, <2>2
    <3> QED  BY <3>1, <3>2 DEF NameGood
  <2>3. CASE n \notin DOMAIN msg
    <3>1. r.attributes[n] = o.attributes[n] /\ (n \in r.created <=> n \in o.created)
      BY <1>4, <2>3
    <3>2. next[n] = now[n]
      BY <2>3
    <3> QED  BY <2>1, <3>1, <3>2 DEF NameGood
  <2> QED  BY <2>2, <2>3
<1>6. Opened(r) = r
  BY <1>4 DEF Opened
<1> QED  BY <1>3, <1>4, <1>5, <1>6 DEF Good

-----------------------------------------------------------------------------
(* Loops over messages                                                     *)

Builders == [Txs -> [Pool -> Netting!Interim \cup {NoEntity}]]

Put(bs, m) == [bs EXCEPT ![m.tx][m.pool] = Received(@, m.attributes)]

Puts(bs, ms, n, f) == f = [k \in 0..n |-> IF k = 0 THEN bs ELSE Put(f[k - 1], ms[k])]

LEMMA PutsExist ==
    ASSUME NEW bs, NEW ms, NEW M \in Nat
    PROVE  \E f : Puts(bs, ms, M, f)
<1> DEFINE S == {n \in Nat : \E f : Puts(bs, ms, n, f)}
<1>1. 0 \in S
  <2>1. PICK f : f = [k \in 0..0 |-> bs]
    OBVIOUS
  <2>2. Puts(bs, ms, 0, f)
    <3>1. \A k \in 0..0 : k = 0
      OBVIOUS
    <3> QED  BY <2>1, <3>1 DEF Puts
  <2> QED  BY <2>2
<1>2. ASSUME NEW n \in S PROVE n + 1 \in S
  <2>1. n \in Nat /\ n + 1 \in Nat
    OBVIOUS
  <2>2. PICK f : Puts(bs, ms, n, f)
    OBVIOUS
  <2>3. PICK g : g = [k \in 0..n + 1 |-> IF k <= n THEN f[k] ELSE Put(f[n], ms[n + 1])]
    OBVIOUS
  <2>4. \A k \in 0..n : g[k] = f[k]
    BY <2>1, <2>3
  <2>5. ASSUME NEW k \in 0..n + 1
        PROVE  g[k] = IF k = 0 THEN bs ELSE Put(g[k - 1], ms[k])
    <3>1. CASE k \in 0..n
      <4>1. g[k] = IF k = 0 THEN bs ELSE Put(f[k - 1], ms[k])
        BY <2>2, <2>4, <3>1 DEF Puts
      <4>2. k # 0 => k - 1 \in 0..n
        BY <2>1, <3>1
      <4> QED  BY <2>4, <4>1, <4>2
    <3>2. CASE k \notin 0..n
      <4>1. k = n + 1 /\ k # 0 /\ k - 1 = n /\ n \in 0..n /\ ~(k <= n)
        BY <2>1, <3>2
      <4>2. g[k] = Put(f[n], ms[n + 1])
        BY <2>3, <4>1
      <4>3. g[k - 1] = f[n]
        BY <2>4, <4>1
      <4> QED  BY <4>1, <4>2, <4>3
    <3> QED  BY <3>1, <3>2
  <2>6. g = [k \in 0..n + 1 |-> IF k = 0 THEN bs ELSE Put(g[k - 1], ms[k])]
    BY <2>3, <2>5
  <2>7. Puts(bs, ms, n + 1, g)
    BY <2>6 DEF Puts
  <2> QED  BY <2>1, <2>7
<1>3. S = Nat
  <2>1. S \in SUBSET Nat
    OBVIOUS
  <2> HIDE DEF S
  <2> QED  BY <1>1, <1>2, <2>1, SetInduction
<1> QED  BY <1>3

LEMMA CollectedIs ==
    ASSUME NEW bs, NEW ms, Len(ms) \in Nat
    PROVE  \E f : Puts(bs, ms, Len(ms), f) /\ Collected(bs, ms) = f[Len(ms)]
<1>1. \E f : Puts(bs, ms, Len(ms), f)
  BY PutsExist
<1>2. PICK g : g = CHOOSE f : Puts(bs, ms, Len(ms), f)
  OBVIOUS
<1>3. Puts(bs, ms, Len(ms), g)
  BY <1>1, <1>2
<1>4. Collected(bs, ms) = (CHOOSE f : Puts(bs, ms, Len(ms), f))[Len(ms)]
  BY Zenon DEF Collected, Puts, Put
<1> QED  BY <1>2, <1>3, <1>4

(* At most two messages bring the builders into T.                         *)
Adds(bs, list, T) ==
    \/ Len(list) = 0 /\ bs \in T
    \/ Len(list) = 1 /\ Put(bs, list[1]) \in T
    \/ Len(list) = 2 /\ Put(Put(bs, list[1]), list[2]) \in T

Leads(S, n, lists) == \A o \in 1..n : \A bs \in S[o - 1] : Adds(bs, lists[o], S[o])

(* What the messages of every ordinal do, the loop over all of them does.  *)
LEMMA LoopLeads ==
    ASSUME NEW n \in Nat, NEW lists, NEW ms, NEW c, Len(ms) \in Nat, Listing(n, lists, ms, c),
           NEW S, Leads(S, n, lists), NEW bs \in S[0]
    PROVE  Collected(bs, ms) \in S[n]
<1>1. PICK M \in Nat : M = Len(ms)
  OBVIOUS
<1>2. PICK f : Puts(bs, ms, M, f) /\ Collected(bs, ms) = f[M]
  BY <1>1, CollectedIs
<1>3. f[0] = bs /\ \A k \in 1..M : f[k] = Put(f[k - 1], ms[k])
  <2>1. 0 \in 0..M /\ \A k \in 1..M : k \in 0..M /\ k # 0
    BY <1>1
  <2> QED  BY <1>2, <2>1 DEF Puts
<1>4. /\ c \in [0..n -> Nat] /\ c[0] = 0 /\ c[n] = M
      /\ \A o \in 1..n : c[o] = c[o - 1] + Len(lists[o]) /\ c[o] <= M
      /\ \A o \in 1..n, j \in Nat : 1 <= j /\ j <= Len(lists[o]) => ms[c[o - 1] + j] = lists[o][j]
  BY <1>1 DEF Listing
<1> DEFINE T == {o \in Nat : o <= n => f[c[o]] \in S[o]}
<1>5. 0 \in T
  BY <1>3, <1>4
<1>6. ASSUME NEW o \in T PROVE o + 1 \in T
  <2>1. o \in Nat /\ (o <= n => f[c[o]] \in S[o])
    OBVIOUS
  <2> HIDE DEF T
  <2>2. CASE ~(o + 1 <= n)
    BY <2>1, <2>2 DEF T
  <2>3. CASE o + 1 <= n
    <3>1. PICK i, k : i = o + 1 /\ k = c[o]
      OBVIOUS
    <3>2. i \in 1..n /\ i - 1 = o /\ o \in 0..n /\ i \in 0..n /\ o <= n
      BY <2>1, <2>3, <3>1
    <3>3. k \in Nat /\ c[i] = k + Len(lists[i]) /\ c[i] <= M /\ c[i] \in Nat
      BY <1>4, <3>1, <3>2
    <3>4. f[k] \in S[i - 1]
      BY <2>1, <3>1, <3>2
    <3>5. Adds(f[k], lists[i], S[i])
      BY <3>2, <3>4 DEF Leads
    <3>6. \A j \in Nat : 1 <= j /\ j <= Len(lists[i]) => ms[k + j] = lists[i][j]
      BY <1>4, <3>1, <3>2
    <3>7. CASE Len(lists[i]) = 0 /\ f[k] \in S[i]
      <4>1. c[i] = k
        BY <3>3, <3>7
      <4> QED  BY <2>1, <3>1, <3>7, <4>1 DEF T
    <3>8. CASE Len(lists[i]) = 1 /\ Put(f[k], lists[i][1]) \in S[i]
      <4>1. c[i] = k + 1 /\ k + 1 \in 1..M /\ (k + 1) - 1 = k
        BY <1>1, <3>3, <3>8
      <4>2. ms[k + 1] = lists[i][1]
        BY <3>6, <3>8
      <4>3. f[k + 1] = Put(f[k], lists[i][1])
        BY <1>3, <4>1, <4>2
      <4> QED  BY <2>1, <3>1, <3>8, <4>1, <4>3 DEF T
    <3>9. CASE Len(lists[i]) = 2 /\ Put(Put(f[k], lists[i][1]), lists[i][2]) \in S[i]
      <4>1. c[i] = k + 2 /\ k + 1 \in 1..M /\ (k + 1) - 1 = k /\ k + 2 \in 1..M /\ (k + 2) - 1 = k + 1
        BY <1>1, <3>3, <3>9
      <4>2. ms[k + 1] = lists[i][1] /\ ms[k + 2] = lists[i][2]
        BY <3>6, <3>9
      <4>3. f[k + 1] = Put(f[k], lists[i][1])
        BY <1>3, <4>1, <4>2
      <4>4. f[k + 2] = Put(f[k + 1], lists[i][2])
        BY <1>3, <4>1, <4>2
      <4> QED  BY <2>1, <3>1, <3>9, <4>1, <4>3, <4>4 DEF T
    <3> QED  BY <3>5, <3>7, <3>8, <3>9 DEF Adds
  <2> QED  BY <2>2, <2>3
<1>7. T = Nat
  <2>1. T \in SUBSET Nat
    OBVIOUS
  <2> HIDE DEF T
  <2> QED  BY <1>5, <1>6, <2>1, SetInduction
<1>8. f[c[n]] \in S[n]
  <2>1. n \in T
    BY <1>7
  <2> QED  BY <2>1
<1> QED  BY <1>1, <1>2, <1>4, <1>8

-----------------------------------------------------------------------------
(* Builders whose every entry is good: B before each transaction, X now.   *)
AllGood(bs, B, X) ==
    bs \in Builders /\ \A t \in Txs, p \in Pool : Good(bs[t][p], B[t][p], X[t][p])

(* The message says truly what moves from X to Y.                          *)
Moves(m, X, Y) ==
    /\ m.tx \in Txs /\ m.pool \in Pool /\ Single(m.attributes)
    /\ \A n \in DOMAIN m.attributes :
           Truthful(m.attributes[n][1], n, X[m.tx][m.pool][n], Y[m.tx][m.pool][n])
    /\ \A t \in Txs, p \in Pool, n \in Name :
           ~(t = m.tx /\ p = m.pool /\ n \in DOMAIN m.attributes) => Y[t][p][n] = X[t][p][n]

LEMMA PutIs ==
    ASSUME NEW bs \in Builders, NEW m, m.tx \in Txs, m.pool \in Pool,
           Received(bs[m.tx][m.pool], m.attributes) \in Netting!Interim
    PROVE  /\ Put(bs, m) \in Builders
           /\ Put(bs, m)[m.tx][m.pool] = Received(bs[m.tx][m.pool], m.attributes)
           /\ \A t \in Txs, p \in Pool : ~(t = m.tx /\ p = m.pool) => Put(bs, m)[t][p] = bs[t][p]
<1>1. PICK u, q, r : u = m.tx /\ q = m.pool /\ r = Received(bs[u][q], m.attributes)
  OBVIOUS
<1>2. PICK row : row = [bs[u] EXCEPT ![q] = r]
  OBVIOUS
<1>3. Put(bs, m) = [bs EXCEPT ![u] = row]
  BY <1>1, <1>2, Zenon DEF Put
<1>4. /\ bs \in [Txs -> [Pool -> Netting!Interim \cup {NoEntity}]]
      /\ bs[u] \in [Pool -> Netting!Interim \cup {NoEntity}]
  BY <1>1 DEF Builders
<1>5. /\ row \in [Pool -> Netting!Interim \cup {NoEntity}]
      /\ row[q] = r /\ \A p \in Pool : p # q => row[p] = bs[u][p]
  BY <1>1, <1>2, <1>4
<1>6. Put(bs, m) \in Builders /\ Put(bs, m)[u] = row /\ \A t \in Txs : t # u => Put(bs, m)[t] = bs[t]
  BY <1>1, <1>3, <1>4, <1>5 DEF Builders
<1> QED  BY <1>1, <1>5, <1>6

LEMMA PutGood ==
    ASSUME NEW bs, NEW B, NEW X, NEW Y, AllGood(bs, B, X), NEW m, Moves(m, X, Y)
    PROVE  AllGood(Put(bs, m), B, Y)
<1>1. PICK u, q, r : u = m.tx /\ q = m.pool /\ r = Received(bs[u][q], m.attributes)
  OBVIOUS
<1>2. u \in Txs /\ q \in Pool /\ Single(m.attributes) /\ bs \in Builders /\ Good(bs[u][q], B[u][q], X[u][q])
  BY <1>1 DEF AllGood, Moves
<1>3. /\ \A n \in DOMAIN m.attributes : Truthful(m.attributes[n][1], n, X[u][q][n], Y[u][q][n])
      /\ \A n \in Name \ DOMAIN m.attributes : Y[u][q][n] = X[u][q][n]
  BY <1>1, <1>2 DEF Moves
<1>4. Good(r, B[u][q], Y[u][q]) /\ r # NoEntity
  <2>1. PICK entry, before, now, next, msg :
            /\ entry = bs[u][q] /\ before = B[u][q] /\ now = X[u][q] /\ next = Y[u][q]
            /\ msg = m.attributes
    OBVIOUS
  <2>2. Good(entry, before, now) /\ Single(msg)
    BY <1>2, <2>1
  <2>3. \A n \in DOMAIN msg : Truthful(msg[n][1], n, now[n], next[n])
    BY <1>3, <2>1
  <2>4. \A n \in Name \ DOMAIN msg : next[n] = now[n]
    BY <1>3, <2>1
  <2>5. Good(Received(entry, msg), before, next) /\ Received(entry, msg) # NoEntity
    BY <2>2, <2>3, <2>4, ReceivedGood
  <2> QED  BY <1>1, <2>1, <2>5
<1>5. r \in Netting!Interim
  BY <1>4 DEF Good, Opened
<1>6. /\ Put(bs, m) \in Builders /\ Put(bs, m)[u][q] = r
      /\ \A t \in Txs, p \in Pool : ~(t = u /\ p = q) => Put(bs, m)[t][p] = bs[t][p]
  BY <1>1, <1>2, <1>5, PutIs
<1>7. ASSUME NEW t \in Txs, NEW p \in Pool, ~(t = u /\ p = q)
      PROVE  Good(Put(bs, m)[t][p], B[t][p], Y[t][p])
  <2>1. Good(bs[t][p], B[t][p], X[t][p])
    BY DEF AllGood
  <2>2. \A n \in Name : Y[t][p][n] = X[t][p][n]
    BY <1>1, <1>7 DEF Moves
  <2>3. Put(bs, m)[t][p] = bs[t][p]
    BY <1>6, <1>7
  <2> QED  BY <2>1, <2>2, <2>3 DEF Good
<1> QED  BY <1>4, <1>6, <1>7 DEF AllGood

LEMMA SameGood ==
    ASSUME NEW bs, NEW B, NEW X, NEW Y, AllGood(bs, B, X),
           \A t \in Txs, p \in Pool, n \in Name : Y[t][p][n] = X[t][p][n]
    PROVE  AllGood(bs, B, Y)
<1> SUFFICES ASSUME NEW t \in Txs, NEW p \in Pool PROVE Good(bs[t][p], B[t][p], Y[t][p])
  BY DEF AllGood
<1>1. Good(bs[t][p], B[t][p], X[t][p])
  BY DEF AllGood
<1> QED  BY <1>1 DEF Good

-----------------------------------------------------------------------------
(* Where transactions end in the events of a block                         *)

(* The events up to e[t] are those of the first t transactions.            *)
EndsAt(e) ==
    /\ e \in [0..MaxTxs -> 0..Len(events)]
    /\ \A t \in 0..MaxTxs, i \in 1..Len(events) : events[i].tx <= t <=> i <= e[t]

(* The position that is nearest to i in a transaction.                     *)
Clip(e, t, i) == IF i < e[t - 1] THEN e[t - 1] ELSE IF e[t] < i THEN e[t] ELSE i

LEMMA EndsFacts ==
    ASSUME events \in Seq(Event), NEW e, EndsAt(e), NEW t \in Txs
    PROVE  /\ Len(events) \in Nat /\ e[t - 1] \in 0..Len(events) /\ e[t] \in 0..Len(events)
           /\ e[t - 1] <= e[t]
           /\ \A i \in 1..Len(events) : events[i].tx = t <=> e[t - 1] < i /\ i <= e[t]
<1>1. MaxTxs \in Nat \ {0} /\ t \in 1..MaxTxs
  BY LiquidityBounds DEF Txs
<1>2. t \in 0..MaxTxs /\ t - 1 \in 0..MaxTxs /\ t \in Nat
  BY <1>1
<1>3. PICK n \in Nat : n = Len(events)
  OBVIOUS
<1>4. PICK a, b : a = e[t - 1] /\ b = e[t]
  OBVIOUS
<1>5. a \in 0..n /\ b \in 0..n
  BY <1>2, <1>3, <1>4 DEF EndsAt
<1>6. ASSUME NEW i \in 1..n
      PROVE  /\ events[i].tx \in Int
             /\ events[i].tx <= t <=> i <= b
             /\ events[i].tx <= t - 1 <=> i <= a
  <2>1. events[i].tx \in Txs
    BY <1>3, EventTypes
  <2> QED  BY <1>1, <1>2, <1>3, <1>4, <2>1 DEF EndsAt, Txs
<1>7. a <= b
  <2>1. a = 0 \/ a \in 1..n
    BY <1>3, <1>5
  <2>2. ASSUME a \in 1..n PROVE a <= b
    <3>1. PICK i : i = a
      OBVIOUS
    <3>2. i \in 1..n /\ i <= a
      BY <1>3, <2>2, <3>1
    <3>3. events[i].tx \in Int /\ events[i].tx <= t - 1
      BY <1>6, <3>2
    <3>4. events[i].tx <= t
      BY <1>2, <3>3
    <3> QED  BY <1>6, <3>1, <3>2, <3>4
  <2> QED  BY <1>5, <2>1, <2>2
<1>8. ASSUME NEW i \in 1..n PROVE events[i].tx = t <=> a < i /\ i <= b
  <2>1. events[i].tx = t <=> events[i].tx <= t /\ ~(events[i].tx <= t - 1)
    BY <1>2, <1>6
  <2> QED  BY <1>3, <1>5, <1>6, <2>1
<1> QED  BY <1>3, <1>4, <1>5, <1>7, <1>8

LEMMA ClipFacts ==
    ASSUME events \in Seq(Event), NEW e, EndsAt(e), NEW t \in Txs
    PROVE  /\ Clip(e, t, 0) = e[t - 1] /\ Clip(e, t, Len(events)) = e[t]
           /\ \A i \in 0..Len(events) : Clip(e, t, i) \in 0..Len(events)
           /\ \A o \in 1..Len(events) :
                  /\ events[o].tx = t => Clip(e, t, o) = o /\ Clip(e, t, o - 1) = o - 1
                  /\ events[o].tx # t => Clip(e, t, o) = Clip(e, t, o - 1)
<1>1. PICK n \in Nat : n = Len(events)
  OBVIOUS
<1>2. PICK a, b : a = e[t - 1] /\ b = e[t]
  OBVIOUS
<1>3. /\ a \in 0..n /\ b \in 0..n /\ a <= b
      /\ \A i \in 1..n : events[i].tx = t <=> a < i /\ i <= b
  BY <1>1, <1>2, EndsFacts
<1>4. \A i : Clip(e, t, i) = IF i < a THEN a ELSE IF b < i THEN b ELSE i
  BY <1>2 DEF Clip
<1>5. Clip(e, t, 0) = a /\ Clip(e, t, n) = b
  <2>1. ~(0 < a) => a = 0
    BY <1>1, <1>3
  <2>2. ~(b < 0) /\ ~(n < a) /\ (~(b < n) => b = n)
    BY <1>1, <1>3
  <2> QED  BY <1>4, <2>1, <2>2
<1>6. \A i \in 0..n : Clip(e, t, i) \in 0..n
  BY <1>3, <1>4
<1>7. ASSUME NEW o \in 1..n
      PROVE  /\ events[o].tx = t => Clip(e, t, o) = o /\ Clip(e, t, o - 1) = o - 1
             /\ events[o].tx # t => Clip(e, t, o) = Clip(e, t, o - 1)
  <2>1. o \in Int /\ a \in Int /\ b \in Int
    BY <1>1, <1>3
  <2>2. CASE a < o /\ o <= b
    <3>1. ~(o < a) /\ ~(b < o) /\ ~(o - 1 < a) /\ ~(b < o - 1)
      BY <2>1, <2>2
    <3> QED  BY <1>3, <1>4, <2>2, <3>1
  <2>3. CASE o <= a
    <3>1. ~(a < o) /\ o - 1 < a /\ (~(o < a) => o = a) /\ ~(b < o)
      BY <1>3, <2>1, <2>3
    <3> QED  BY <1>3, <1>4, <3>1
  <2>4. CASE b < o
    <3>1. ~(o <= b) /\ ~(o < a) /\ ~(o - 1 < a) /\ (~(b < o - 1) => o - 1 = b)
      BY <1>3, <2>1, <2>4
    <3> QED  BY <1>3, <1>4, <2>4, <3>1
  <2>5. a < o \/ o <= a
    BY <2>1
  <2>6. o <= b \/ b < o
    BY <2>1
  <2> QED  BY <2>2, <2>3, <2>4, <2>5, <2>6
<1> QED  BY <1>1, <1>2, <1>5, <1>6, <1>7

(* The pass in which a name's messages come, after that of the creations.  *)
Turn(n) == IF IsTick(n) THEN 2 ELSE IF n = <<"liquidity">> THEN 3 ELSE 4

(* How far the messages about a name have come when a pass is at o.        *)
Pos(pass, o, n) == IF Turn(n) < pass THEN Len(events) ELSE IF Turn(n) = pass THEN o ELSE 0

Base(h, e) == [t \in Txs |-> [p \in Pool |-> StateIn(h[e[t - 1]], p)]]

Along(h, e, pass, o) ==
    [t \in Txs |-> [p \in Pool |-> [n \in Name |->
        StateIn(h[Clip(e, t, Pos(pass, o, n))], p)[n]]]]

(* A pass at an ordinal takes the names of its turn from X to Y.           *)
Advances(X, Y, h, o, pass, t, p, n) ==
    /\ t = events[o].tx /\ Turn(n) = pass =>
           X[t][p][n] = StateIn(h[o - 1], p)[n] /\ Y[t][p][n] = StateIn(h[o], p)[n]
    /\ ~(t = events[o].tx /\ Turn(n) = pass) => Y[t][p][n] = X[t][p][n]

LEMMA AlongSteps ==
    ASSUME events \in Seq(Event), NEW h, NEW e, EndsAt(e), NEW pass, NEW o \in 1..Len(events),
           NEW t \in Txs, NEW p \in Pool, NEW n \in Name
    PROVE  Advances(Along(h, e, pass, o - 1), Along(h, e, pass, o), h, o, pass, t, p, n)
<1>1. ASSUME NEW i
      PROVE  Along(h, e, pass, i)[t][p][n] = StateIn(h[Clip(e, t, Pos(pass, i, n))], p)[n]
  BY DEF Along
<1>2. /\ events[o].tx = t => Clip(e, t, o) = o /\ Clip(e, t, o - 1) = o - 1
      /\ events[o].tx # t => Clip(e, t, o) = Clip(e, t, o - 1)
  BY ClipFacts
<1>3. CASE Turn(n) = pass
  <2>1. \A i : Pos(pass, i, n) = i
    <3>1. Turn(n) \in Int
      BY DEF Turn
    <3>2. ~(Turn(n) < pass)
      BY <1>3, <3>1
    <3> QED  BY <1>3, <3>2 DEF Pos
  <2> QED  BY <1>1, <1>2, <1>3, <2>1 DEF Advances
<1>4. CASE Turn(n) # pass
  <2>1. Pos(pass, o, n) = Pos(pass, o - 1, n)
    BY <1>4 DEF Pos
  <2> QED  BY <1>1, <1>4, <2>1 DEF Advances
<1> QED  BY <1>3, <1>4

(* The passes follow each other; the first one starts from what was before *)
(* the transaction, the last one ends with what is after it.               *)
LEMMA PassesFollow ==
    ASSUME events \in Seq(Event), NEW h, NEW e, EndsAt(e),
           NEW t \in Txs, NEW p \in Pool, NEW n \in Name
    PROVE  /\ Along(h, e, 1, 0)[t][p][n] = StateIn(h[e[t - 1]], p)[n]
           /\ \A pass \in 1..3 :
                  Along(h, e, pass + 1, 0)[t][p][n] = Along(h, e, pass, Len(events))[t][p][n]
           /\ Along(h, e, 4, Len(events))[t][p][n] = StateIn(h[e[t]], p)[n]
<1>1. ASSUME NEW i, NEW pass
      PROVE  Along(h, e, pass, i)[t][p][n] = StateIn(h[Clip(e, t, Pos(pass, i, n))], p)[n]
  BY DEF Along
<1>2. Turn(n) \in 2..4
  BY DEF Turn
<1>3. Pos(1, 0, n) = 0
  BY <1>2 DEF Pos
<1>4. Pos(4, Len(events), n) = Len(events)
  BY <1>2 DEF Pos
<1>5. ASSUME NEW pass \in 1..3 PROVE Pos(pass + 1, 0, n) = Pos(pass, Len(events), n)
  BY <1>2 DEF Pos
<1>6. Clip(e, t, 0) = e[t - 1] /\ Clip(e, t, Len(events)) = e[t]
  BY ClipFacts
<1> QED  BY <1>1, <1>3, <1>4, <1>5, <1>6

(* The messages of an ordinal say what moves from X to Y.                  *)
Brings(list, X, Y) ==
    \/ Len(list) = 0 /\ \A t \in Txs, p \in Pool, n \in Name : Y[t][p][n] = X[t][p][n]
    \/ Len(list) = 1 /\ Moves(list[1], X, Y)
    \/ Len(list) = 2 /\ \E Z : Moves(list[1], X, Z) /\ Moves(list[2], Z, Y)

LEMMA PassLeads ==
    ASSUME events \in Seq(Event), NEW h, NEW e, NEW pass, NEW lists,
           \A o \in 1..Len(events) :
               Brings(lists[o], Along(h, e, pass, o - 1), Along(h, e, pass, o)),
           NEW ms, Len(ms) \in Nat, NEW c, Listing(Len(events), lists, ms, c),
           NEW bs, AllGood(bs, Base(h, e), Along(h, e, pass, 0))
    PROVE  AllGood(Collected(bs, ms), Base(h, e), Along(h, e, pass, Len(events)))
<1>1. PICK n \in Nat : n = Len(events)
  OBVIOUS
<1>2. PICK B, X : B = Base(h, e) /\ X = [o \in 0..n |-> Along(h, e, pass, o)]
  OBVIOUS
<1>3. \A o \in 0..n : X[o] = Along(h, e, pass, o)
  BY <1>2
<1>4. PICK S : S = [o \in 0..n |-> {b \in Builders : AllGood(b, B, X[o])}]
  OBVIOUS
<1>5. \A o \in 0..n : \A b : b \in S[o] <=> AllGood(b, B, X[o])
  BY <1>4 DEF AllGood
<1>6. Leads(S, n, lists)
  <2> SUFFICES ASSUME NEW o \in 1..n, NEW b \in S[o - 1] PROVE Adds(b, lists[o], S[o])
    BY DEF Leads
  <2>1. PICK i, j : i = o - 1 /\ j = o
    OBVIOUS
  <2>2. i \in 0..n /\ j \in 0..n
    BY <1>1, <2>1
  <2>3. AllGood(b, B, X[i])
    BY <1>5, <2>1, <2>2
  <2>4. Brings(lists[o], X[i], X[j])
    BY <1>1, <1>3, <2>1, <2>2
  <2>5. CASE /\ Len(lists[o]) = 0
             /\ \A t \in Txs, p \in Pool, m \in Name : X[j][t][p][m] = X[i][t][p][m]
    <3>1. AllGood(b, B, X[j])
      BY <2>3, <2>5, SameGood
    <3> QED  BY <1>5, <2>1, <2>2, <2>5, <3>1 DEF Adds
  <2>6. CASE Len(lists[o]) = 1 /\ Moves(lists[o][1], X[i], X[j])
    <3>1. AllGood(Put(b, lists[o][1]), B, X[j])
      BY <2>3, <2>6, PutGood
    <3> QED  BY <1>5, <2>1, <2>2, <2>6, <3>1 DEF Adds
  <2>7. CASE Len(lists[o]) = 2 /\ \E Z : Moves(lists[o][1], X[i], Z) /\ Moves(lists[o][2], Z, X[j])
    <3>1. PICK Z : Moves(lists[o][1], X[i], Z) /\ Moves(lists[o][2], Z, X[j])
      BY <2>7
    <3>2. AllGood(Put(b, lists[o][1]), B, Z)
      BY <2>3, <3>1, PutGood
    <3>3. AllGood(Put(Put(b, lists[o][1]), lists[o][2]), B, X[j])
      BY <3>1, <3>2, PutGood
    <3> QED  BY <1>5, <2>1, <2>2, <2>7, <3>3 DEF Adds
  <2> QED  BY <2>4, <2>5, <2>6, <2>7 DEF Brings
<1>7. 0 \in 0..n /\ n \in 0..n
  BY <1>1
<1>8. bs \in S[0]
  BY <1>2, <1>3, <1>5, <1>7
<1>9. Collected(bs, ms) \in S[n]
  BY <1>1, <1>6, <1>8, LoopLeads
<1> QED  BY <1>1, <1>2, <1>3, <1>5, <1>7, <1>9

-----------------------------------------------------------------------------
(* What an event changes                                                   *)

(* A block whose events the stores know.                                   *)
Mined(h, e) ==
    /\ events \in Seq(Event) /\ Len(events) <= MaxEvents /\ AllKnown
    /\ History(h, events) /\ TicksKnown(h) /\ EndsAt(e)

Still(h, o, p, n) == StateIn(h[o], p)[n] = StateIn(h[o - 1], p)[n]

LEMMA StateSteps ==
    ASSUME NEW h, NEW e, Mined(h, e), NEW o \in 1..Len(events), NEW p \in Pool
    PROVE  /\ ~(o \in LiquidityChanges /\ events[o].pool = p) => Still(h, o, p, <<"liquidity">>)
           /\ IF events[o].type \in {"Initialize", "Swap"} /\ events[o].pool = p
              THEN StateIn(h[o], p)[<<"tick">>] = events[o].tick
              ELSE Still(h, o, p, <<"tick">>)
           /\ IF events[o].type = "SetFeeProtocol" /\ events[o].pool = p
              THEN StateIn(h[o], p)[<<"protocol_fees">>] = events[o].fee
              ELSE Still(h, o, p, <<"protocol_fees">>)
           /\ \A t \in Boundary : ~Touches(p, t, o) => Still(h, o, p, TickName(t))
<1>0. /\ events \in Seq(Event) /\ Len(events) <= MaxEvents /\ AllKnown
      /\ History(h, events) /\ TicksKnown(h)
  BY DEF Mined
<1>1. PICK n \in Nat : n = Len(events)
  BY <1>0
<1>2. o - 1 \in 0..n /\ o \in 0..n
  BY <1>1
<1>3. PICK ev \in Event : ev = events[o]
  BY <1>0
<1>4. PICK s, u : s = h[o - 1] /\ u = h[o]
  OBVIOUS
<1>5. s \in PoolState /\ u \in PoolState /\ Step(s, ev, u)
  BY <1>0, <1>1, <1>2, <1>3, <1>4 DEF History
<1>6. /\ s.cur \in [Pool -> Ticks] /\ s.fee \in [Pool -> Fee \cup {0}]
      /\ ev.pool \in Pool
      /\ ev.type \in {"PoolCreated", "Initialize", "Mint", "Burn", "Swap", "SetFeeProtocol"}
      /\ ev.type \in {"Initialize", "Swap"} => ev.tick \in Tick
  BY <1>5, EventTypes DEF PoolState
<1>7. ~(o \in LiquidityChanges /\ ev.pool = p) => Still(h, o, p, <<"liquidity">>)
  <2>1. ActiveIn(u, p) = LiquidityOp(p, o, ActiveIn(s, p))
    BY <1>0, <1>4, LiquiditySteps
  <2>2. ~(o \in LiquidityChanges /\ ev.pool = p) => ActiveIn(u, p) = ActiveIn(s, p)
    BY <1>3, <2>1 DEF LiquidityOp
  <2> QED  BY <1>4, <2>2, StateIs DEF Still
<1>8. IF ev.type \in {"Initialize", "Swap"} /\ ev.pool = p
      THEN StateIn(u, p)[<<"tick">>] = ev.tick
      ELSE StateIn(u, p)[<<"tick">>] = StateIn(s, p)[<<"tick">>]
  <2>1. /\ ev.type \in {"Initialize", "Swap"} => u.cur = [s.cur EXCEPT ![ev.pool] = ev.tick]
        /\ ev.type \notin {"Initialize", "Swap"} => u.cur = s.cur
    BY <1>5, <1>6 DEF Step, TickSet
  <2>2. StateIn(u, p)[<<"tick">>] = TickIn(u, p) /\ StateIn(s, p)[<<"tick">>] = TickIn(s, p)
    BY StateIs
  <2>3. CASE ev.type \in {"Initialize", "Swap"} /\ ev.pool = p
    <3>1. u.cur[p] = ev.tick /\ ev.tick # NoTick
      BY <1>6, <2>1, <2>3, LiquidityBounds
    <3> QED  BY <2>2, <2>3, <3>1 DEF TickIn
  <2>4. CASE ~(ev.type \in {"Initialize", "Swap"} /\ ev.pool = p)
    <3>1. u.cur[p] = s.cur[p]
      BY <1>6, <2>1, <2>4
    <3> QED  BY <2>2, <2>4, <3>1 DEF TickIn
  <2> QED  BY <2>3, <2>4
<1>9. IF ev.type = "SetFeeProtocol" /\ ev.pool = p
      THEN StateIn(u, p)[<<"protocol_fees">>] = ev.fee
      ELSE StateIn(u, p)[<<"protocol_fees">>] = StateIn(s, p)[<<"protocol_fees">>]
  <2>1. /\ ev.type = "SetFeeProtocol" => u.fee = [s.fee EXCEPT ![ev.pool] = ev.fee]
        /\ ev.type # "SetFeeProtocol" => u.fee = s.fee
    BY <1>5, <1>6 DEF Step, TickSet
  <2>2. IF ev.type = "SetFeeProtocol" /\ ev.pool = p THEN u.fee[p] = ev.fee ELSE u.fee[p] = s.fee[p]
    BY <1>6, <2>1
  <2> QED  BY <2>2, StateIs
<1>10. ASSUME NEW t \in Boundary, ~Touches(p, t, o) PROVE Still(h, o, p, TickName(t))
  <2>1. NetLiquidity(u.pos, p, t) = NetLiquidity(s.pos, p, t)
    BY <1>0, <1>4, <1>10, NetSteps
  <2> QED  BY <1>4, <2>1, StateIs DEF Still
<1> QED  BY <1>3, <1>4, <1>7, <1>8, <1>9, <1>10 DEF Still

(* The names of a pass that the event leaves alone.                        *)
OthersStill(h, o, pass, changed) ==
    \A p \in Pool, n \in Name :
        Turn(n) = pass /\ ~(p = events[o].pool /\ n \in changed) => Still(h, o, p, n)

(* A message of the event's transaction about a name that it moves.        *)
TrueMessage(h, o, m, n) ==
    /\ n \in Name /\ m.tx = events[o].tx /\ m.pool = events[o].pool
    /\ DOMAIN m.attributes = {n} /\ m.attributes[n] = <<m.attributes[n][1]>>
    /\ Truthful(m.attributes[n][1], n, StateIn(h[o - 1], events[o].pool)[n],
                                       StateIn(h[o], events[o].pool)[n])

LEMMA NothingMoves ==
    ASSUME NEW h, NEW e, Mined(h, e), NEW pass, NEW o \in 1..Len(events),
           OthersStill(h, o, pass, {})
    PROVE  Brings(<<>>, Along(h, e, pass, o - 1), Along(h, e, pass, o))
<1>1. PICK X, Y : X = Along(h, e, pass, o - 1) /\ Y = Along(h, e, pass, o)
  OBVIOUS
<1>2. ASSUME NEW t \in Txs, NEW p \in Pool, NEW n \in Name PROVE Y[t][p][n] = X[t][p][n]
  <2>1. /\ t = events[o].tx /\ Turn(n) = pass =>
               X[t][p][n] = StateIn(h[o - 1], p)[n] /\ Y[t][p][n] = StateIn(h[o], p)[n]
        /\ ~(t = events[o].tx /\ Turn(n) = pass) => Y[t][p][n] = X[t][p][n]
    <3>1. Advances(X, Y, h, o, pass, t, p, n)
      BY <1>1, AlongSteps DEF Mined
    <3> QED  BY <3>1 DEF Advances
  <2> QED  BY <2>1 DEF OthersStill, Still
<1> QED  BY <1>1, <1>2 DEF Brings

LEMMA MessageMoves ==
    ASSUME NEW h, NEW e, Mined(h, e), NEW pass, NEW o \in 1..Len(events),
           NEW m, NEW n, Turn(n) = pass, TrueMessage(h, o, m, n), OthersStill(h, o, pass, {n})
    PROVE  Brings(<<m>>, Along(h, e, pass, o - 1), Along(h, e, pass, o))
<1>1. PICK X, Y : X = Along(h, e, pass, o - 1) /\ Y = Along(h, e, pass, o)
  OBVIOUS
<1>2. ASSUME NEW t \in Txs, NEW p \in Pool, NEW k \in Name
      PROVE  /\ t = events[o].tx /\ Turn(k) = pass =>
                    X[t][p][k] = StateIn(h[o - 1], p)[k] /\ Y[t][p][k] = StateIn(h[o], p)[k]
             /\ ~(t = events[o].tx /\ Turn(k) = pass) => Y[t][p][k] = X[t][p][k]
  <2>1. Advances(X, Y, h, o, pass, t, p, k)
    BY <1>1, AlongSteps DEF Mined
  <2> QED  BY <2>1 DEF Advances
<1>3. m.tx \in Txs /\ m.pool \in Pool /\ Single(m.attributes)
  <2>1. events[o] \in Event
    BY DEF Mined
  <2> QED  BY <2>1, EventTypes DEF TrueMessage, Single
<1>4. Truthful(m.attributes[n][1], n, X[m.tx][m.pool][n], Y[m.tx][m.pool][n])
  BY <1>2, <1>3 DEF TrueMessage
<1>5. ASSUME NEW t \in Txs, NEW p \in Pool, NEW k \in Name,
             ~(t = m.tx /\ p = m.pool /\ k \in DOMAIN m.attributes)
      PROVE  Y[t][p][k] = X[t][p][k]
  BY <1>2, <1>5 DEF TrueMessage, OthersStill, Still
<1>6. Moves(m, X, Y)
  BY <1>3, <1>4, <1>5 DEF Moves, TrueMessage
<1> QED  BY <1>1, <1>6 DEF Brings

LEMMA MessagesMove ==
    ASSUME NEW h, NEW e, Mined(h, e), NEW pass, NEW o \in 1..Len(events),
           NEW m1, NEW n1, Turn(n1) = pass, TrueMessage(h, o, m1, n1),
           NEW m2, NEW n2, Turn(n2) = pass, TrueMessage(h, o, m2, n2),
           n1 # n2, OthersStill(h, o, pass, {n1, n2})
    PROVE  Brings(<<m1, m2>>, Along(h, e, pass, o - 1), Along(h, e, pass, o))
<1>1. PICK X, Y : X = Along(h, e, pass, o - 1) /\ Y = Along(h, e, pass, o)
  OBVIOUS
<1>2. ASSUME NEW t \in Txs, NEW p \in Pool, NEW k \in Name
      PROVE  /\ t = events[o].tx /\ Turn(k) = pass =>
                    X[t][p][k] = StateIn(h[o - 1], p)[k] /\ Y[t][p][k] = StateIn(h[o], p)[k]
             /\ ~(t = events[o].tx /\ Turn(k) = pass) => Y[t][p][k] = X[t][p][k]
  <2>1. Advances(X, Y, h, o, pass, t, p, k)
    BY <1>1, AlongSteps DEF Mined
  <2> QED  BY <2>1 DEF Advances
<1>3. PICK Z : Z = [t \in Txs |-> [p \in Pool |-> [k \in Name |->
                       IF t = m1.tx /\ p = m1.pool /\ k = n1 THEN Y[t][p][k] ELSE X[t][p][k]]]]
  OBVIOUS
<1>4. \A t \in Txs, p \in Pool, k \in Name :
          Z[t][p][k] = IF t = m1.tx /\ p = m1.pool /\ k = n1 THEN Y[t][p][k] ELSE X[t][p][k]
  BY <1>3
<1>5. /\ m1.tx \in Txs /\ m1.pool \in Pool /\ Single(m1.attributes)
      /\ m2.tx \in Txs /\ m2.pool \in Pool /\ Single(m2.attributes)
      /\ m1.tx = m2.tx /\ m1.pool = m2.pool /\ m1.tx = events[o].tx /\ m1.pool = events[o].pool
      /\ DOMAIN m1.attributes = {n1} /\ DOMAIN m2.attributes = {n2} /\ n1 \in Name /\ n2 \in Name
  <2>1. events[o] \in Event
    BY DEF Mined
  <2> QED  BY <2>1, EventTypes DEF TrueMessage, Single
<1>6. Moves(m1, X, Z)
  <2>1. Truthful(m1.attributes[n1][1], n1, X[m1.tx][m1.pool][n1], Y[m1.tx][m1.pool][n1])
    BY <1>2, <1>5 DEF TrueMessage
  <2>2. Z[m1.tx][m1.pool][n1] = Y[m1.tx][m1.pool][n1]
    BY <1>4, <1>5
  <2> QED  BY <1>4, <1>5, <2>1, <2>2 DEF Moves
<1>7. Moves(m2, Z, Y)
  <2>1. Truthful(m2.attributes[n2][1], n2, X[m2.tx][m2.pool][n2], Y[m2.tx][m2.pool][n2])
    BY <1>2, <1>5 DEF TrueMessage
  <2>2. Z[m2.tx][m2.pool][n2] = X[m2.tx][m2.pool][n2]
    BY <1>4, <1>5
  <2>3. ASSUME NEW t \in Txs, NEW p \in Pool, NEW k \in Name,
               ~(t = m2.tx /\ p = m2.pool /\ k \in DOMAIN m2.attributes)
        PROVE  Y[t][p][k] = Z[t][p][k]
    <3>1. CASE t = m1.tx /\ p = m1.pool /\ k = n1
      BY <1>4, <3>1
    <3>2. CASE ~(t = m1.tx /\ p = m1.pool /\ k = n1)
      <4>1. Y[t][p][k] = X[t][p][k]
        BY <1>2, <1>5, <2>3, <3>2 DEF OthersStill, Still
      <4> QED  BY <1>4, <3>2, <4>1
    <3> QED  BY <3>1, <3>2
  <2> QED  BY <1>5, <2>1, <2>2, <2>3 DEF Moves
<1> QED  BY <1>1, <1>6, <1>7 DEF Brings

-----------------------------------------------------------------------------
(* The messages of a block, ordinal by ordinal                             *)

(* Other lists of the same lengths, member by member.                      *)
Carries(n, lists, flat, lists2, flat2) ==
    /\ Len(flat) \in Nat /\ Len(flat2) = Len(flat)
    /\ \A o \in 1..n : Len(lists[o]) \in Nat /\ Len(lists2[o]) = Len(lists[o])
    /\ \A o \in 1..n, j \in Nat, k \in 1..Len(flat) :
           1 <= j /\ j <= Len(lists[o]) /\ flat[k] = lists[o][j] => flat2[k] = lists2[o][j]

LEMMA ListingTo ==
    ASSUME NEW n, n \in Nat, NEW lists, NEW flat, NEW c, Listing(n, lists, flat, c),
           NEW lists2, NEW flat2, Carries(n, lists, flat, lists2, flat2)
    PROVE  Listing(n, lists2, flat2, c)
<1>0. /\ Len(flat) \in Nat /\ Len(flat2) = Len(flat)
      /\ \A o \in 1..n : Len(lists[o]) \in Nat /\ Len(lists2[o]) = Len(lists[o])
      /\ \A o \in 1..n, j \in Nat, k \in 1..Len(flat) :
             1 <= j /\ j <= Len(lists[o]) /\ flat[k] = lists[o][j] => flat2[k] = lists2[o][j]
  BY DEF Carries
<1>1. /\ c \in [0..n -> Nat] /\ c[0] = 0 /\ c[n] = Len(flat)
      /\ \A o \in 1..n : c[o] = c[o - 1] + Len(lists[o]) /\ c[o] <= Len(flat)
      /\ \A o \in 1..n, j \in Nat : 1 <= j /\ j <= Len(lists[o]) => flat[c[o - 1] + j] = lists[o][j]
  BY DEF Listing
<1>2. ASSUME NEW o \in 1..n, NEW j \in Nat, 1 <= j, j <= Len(lists2[o])
      PROVE  flat2[c[o - 1] + j] = lists2[o][j]
  <2>1. o - 1 \in 0..n
    OBVIOUS
  <2>2. PICK a, b, l, M : a = c[o - 1] /\ b = c[o] /\ l = Len(lists[o]) /\ M = Len(flat)
    OBVIOUS
  <2>3. a \in Nat /\ l \in Nat /\ b = a + l /\ b <= M /\ M \in Nat /\ j <= l
    BY <1>0, <1>1, <1>2, <2>1, <2>2
  <2>4. a + j \in 1..M
    BY <1>2, <2>3
  <2>5. flat[a + j] = lists[o][j]
    BY <1>1, <1>2, <2>2, <2>3
  <2>6. flat2[a + j] = lists2[o][j]
    BY <1>0, <1>2, <2>2, <2>3, <2>4, <2>5
  <2> QED  BY <2>2, <2>6
<1> QED  BY <1>0, <1>1, <1>2 DEF Listing

LEMMA InOrderLists ==
    ASSUME events \in Seq(Event), NEW ordinals, ordinals \subseteq 1..Len(events)
    PROVE  /\ InOrder(ordinals) \in Seq(ordinals)
           /\ \E c : Listing(Len(events),
                             [o \in 1..Len(events) |-> IF o \in ordinals THEN <<o>> ELSE <<>>],
                             InOrder(ordinals), c)
<1>1. PICK lists : lists = [o \in 1..Len(events) |-> IF o \in ordinals THEN <<o>> ELSE <<>>]
  OBVIOUS
<1>2. Len(events) \in Nat /\ DOMAIN events = 1..Len(events)
  OBVIOUS
<1>3. lists \in Seq(Seq(ordinals)) /\ Len(lists) = Len(events)
  <2>1. \A o \in 1..Len(events) : lists[o] \in Seq(ordinals)
    BY <1>1
  <2> QED  BY <1>1, <1>2, <2>1
<1>4. InOrder(ordinals) = FlattenSeq(lists)
  BY <1>1, <1>2 DEF InOrder
<1> QED  BY <1>1, <1>3, <1>4, FlattenSeqLists

(* A list of messages, one for each of the ordinals.                       *)
LEMMA OneEach ==
    ASSUME events \in Seq(Event), NEW ordinals, ordinals \subseteq 1..Len(events),
           NEW M, NEW ms, ms = [k \in DOMAIN InOrder(ordinals) |-> M[InOrder(ordinals)[k]]]
    PROVE  /\ Len(ms) \in Nat
           /\ \E c : Listing(Len(events),
                             [o \in 1..Len(events) |-> IF o \in ordinals THEN <<M[o]>> ELSE <<>>],
                             ms, c)
<1>1. PICK os : os = InOrder(ordinals)
  OBVIOUS
<1>2. PICK lists : lists = [o \in 1..Len(events) |-> IF o \in ordinals THEN <<o>> ELSE <<>>]
  OBVIOUS
<1>3. PICK lists2 : lists2 = [o \in 1..Len(events) |-> IF o \in ordinals THEN <<M[o]>> ELSE <<>>]
  OBVIOUS
<1>4. os \in Seq(ordinals) /\ \E c : Listing(Len(events), lists, os, c)
  BY <1>1, <1>2, InOrderLists
<1>5. PICK c : Listing(Len(events), lists, os, c)
  BY <1>4
<1>6. PICK n \in Nat : n = Len(os)
  BY <1>4
<1>7. DOMAIN os = 1..n
  BY <1>4, <1>6
<1>8. ms = [k \in 1..n |-> M[os[k]]]
  BY <1>1, <1>7
<1>9. Len(ms) = n
  BY <1>8
<1>10. ASSUME NEW o \in 1..Len(events)
       PROVE  Len(lists[o]) \in Nat /\ Len(lists2[o]) = Len(lists[o])
  BY <1>2, <1>3
<1>11. ASSUME NEW o \in 1..Len(events), NEW j \in Nat, NEW k \in 1..n,
              1 <= j, j <= Len(lists[o]), os[k] = lists[o][j]
       PROVE  ms[k] = lists2[o][j]
  <2>1. CASE o \in ordinals
    <3>1. lists[o] = <<o>> /\ lists2[o] = <<M[o]>> /\ Len(lists[o]) = 1
      BY <1>2, <1>3, <2>1
    <3>2. j = 1
      BY <1>11, <3>1
    <3>3. os[k] = o
      BY <1>11, <3>1, <3>2
    <3> QED  BY <1>8, <3>1, <3>2, <3>3
  <2>2. CASE o \notin ordinals
    BY <1>2, <1>11, <2>2
  <2> QED  BY <2>1, <2>2
<1>12. Carries(Len(events), lists, os, lists2, ms)
  <2>1. Len(os) \in Nat /\ Len(ms) = Len(os)
    BY <1>6, <1>9
  <2>2. ASSUME NEW o \in 1..Len(events), NEW j \in Nat, NEW k \in 1..Len(os),
               1 <= j /\ j <= Len(lists[o]) /\ os[k] = lists[o][j]
        PROVE  ms[k] = lists2[o][j]
    BY <1>6, <1>11, <2>2
  <2> QED  BY <1>10, <2>1, <2>2 DEF Carries
<1>13. Listing(Len(events), lists2, ms, c)
  <2>1. PICK len : len = Len(events)
    OBVIOUS
  <2>2. len \in Nat
    BY <2>1
  <2> QED  BY <1>5, <1>12, <2>1, <2>2, ListingTo
<1> QED  BY <1>3, <1>9, <1>13

LEMMA PoolEventsIn == ASSUME events \in Seq(Event), NEW types PROVE PoolEvents(types) \subseteq 1..Len(events)
BY DEF PoolEvents

LEMMA Turns ==
    /\ Turn(<<"liquidity">>) = 3 /\ Turn(<<"tick">>) = 4 /\ Turn(<<"protocol_fees">>) = 4
    /\ \A t : Turn(TickName(t)) = 2 /\ IsTick(TickName(t))
    /\ \A n \in Name : /\ Turn(n) \in 2..4
                       /\ Turn(n) = 2 => \E t \in Boundary : n = TickName(t)
                       /\ Turn(n) = 3 => n = <<"liquidity">>
                       /\ Turn(n) = 4 => n \in {<<"tick">>, <<"protocol_fees">>}
<1>1. ~IsTick(<<"liquidity">>) /\ ~IsTick(<<"tick">>) /\ ~IsTick(<<"protocol_fees">>)
  BY DEF IsTick
<1>2. \A t : IsTick(TickName(t))
  BY NamesDiffer DEF IsTick
<1>3. ASSUME NEW n \in Name
      PROVE  /\ Turn(n) \in 2..4
             /\ Turn(n) = 2 => \E t \in Boundary : n = TickName(t)
             /\ Turn(n) = 3 => n = <<"liquidity">>
             /\ Turn(n) = 4 => n \in {<<"tick">>, <<"protocol_fees">>}
  <2>1. CASE IsTick(n)
    <3>1. \E t \in Boundary : n = TickName(t)
      BY <2>1, TickNames DEF IsTick
    <3> QED  BY <2>1, <3>1 DEF Turn
  <2>2. CASE ~IsTick(n)
    BY <2>2 DEF Turn, IsTick
  <2> QED  BY <2>1, <2>2
<1> QED  BY <1>1, <1>2, <1>3, NamesDiffer DEF Turn

-----------------------------------------------------------------------------
(* The passes over the messages                                            *)

LEMMA MessageIs ==
    ASSUME NEW t, NEW p, NEW n, NEW value, NEW change, value \in Int,
           change \in {"Update", "Creation", "Deletion"}
    PROVE  LET m == Message(t, p, n, value, change)
           IN  /\ m.tx = t /\ m.pool = p /\ DOMAIN m.attributes = {n}
               /\ m.attributes[n] = <<m.attributes[n][1]>>
               /\ m.attributes[n][1] \in Netting!Attribute
               /\ m.attributes[n][1].value = value /\ m.attributes[n][1].change = change
<1>1. PICK attr : attr = [value |-> value, change |-> change]
  OBVIOUS
<1>2. attr \in Netting!Attribute /\ attr.value = value /\ attr.change = change
  BY <1>1 DEF Netting!Attribute, Netting!ChangeType
<1>3. PICK attrs : attrs = [name \in {n} |-> <<attr>>]
  OBVIOUS
<1>4. DOMAIN attrs = {n} /\ attrs[n] = <<attr>> /\ attrs[n][1] = attr
  BY <1>3
<1>5. Message(t, p, n, value, change) = [tx |-> t, pool |-> p, attributes |-> attrs]
  BY <1>1, <1>3 DEF Message
<1> QED  BY <1>2, <1>4, <1>5

(* An update of an attribute that is not a tick's.                         *)
LEMMA UpdateIsTrue ==
    ASSUME NEW h, NEW o, NEW n, n \in Name, ~IsTick(n),
           NEW value, value \in Int, value = StateIn(h[o], events[o].pool)[n]
    PROVE  TrueMessage(h, o, Message(events[o].tx, events[o].pool, n, value, "Update"), n)
<1>1. PICK m : m = Message(events[o].tx, events[o].pool, n, value, "Update")
  OBVIOUS
<1>2. /\ m.tx = events[o].tx /\ m.pool = events[o].pool /\ DOMAIN m.attributes = {n}
      /\ m.attributes[n] = <<m.attributes[n][1]>>
      /\ m.attributes[n][1] \in Netting!Attribute
      /\ m.attributes[n][1].value = value /\ m.attributes[n][1].change = "Update"
  BY <1>1, MessageIs
<1> QED  BY <1>1, <1>2 DEF TrueMessage, Truthful, Told

(* The message of an ordinal names the one attribute that the event moves. *)
Announces(h, o, pass, ordinals, m) ==
    IF o \in ordinals
    THEN \E n : Turn(n) = pass /\ TrueMessage(h, o, m, n) /\ OthersStill(h, o, pass, {n})
    ELSE OthersStill(h, o, pass, {})

LEMMA OnePass ==
    ASSUME NEW h, NEW e, Mined(h, e), NEW pass, NEW ordinals, ordinals \subseteq 1..Len(events),
           NEW M, NEW ms, ms = [k \in DOMAIN InOrder(ordinals) |-> M[InOrder(ordinals)[k]]],
           \A o \in 1..Len(events) : Announces(h, o, pass, ordinals, M[o]),
           NEW bs, AllGood(bs, Base(h, e), Along(h, e, pass, 0))
    PROVE  AllGood(Collected(bs, ms), Base(h, e), Along(h, e, pass, Len(events)))
<1>1. PICK lists : lists = [o \in 1..Len(events) |-> IF o \in ordinals THEN <<M[o]>> ELSE <<>>]
  OBVIOUS
<1>2. events \in Seq(Event)
  BY DEF Mined
<1>3. Len(ms) \in Nat /\ \E c : Listing(Len(events), lists, ms, c)
  BY <1>1, <1>2, OneEach
<1>4. ASSUME NEW o \in 1..Len(events)
      PROVE  Brings(lists[o], Along(h, e, pass, o - 1), Along(h, e, pass, o))
  <2>1. Announces(h, o, pass, ordinals, M[o])
    OBVIOUS
  <2>2. CASE o \in ordinals
    <3>1. lists[o] = <<M[o]>>
      BY <1>1, <2>2
    <3>2. PICK n : Turn(n) = pass /\ TrueMessage(h, o, M[o], n) /\ OthersStill(h, o, pass, {n})
      BY <2>1, <2>2 DEF Announces
    <3>3. PICK m : m = M[o]
      OBVIOUS
    <3>4. Brings(<<m>>, Along(h, e, pass, o - 1), Along(h, e, pass, o))
      BY <3>2, <3>3, MessageMoves
    <3> QED  BY <3>1, <3>3, <3>4
  <2>3. CASE o \notin ordinals
    <3>1. lists[o] = <<>> /\ OthersStill(h, o, pass, {})
      BY <1>1, <2>1, <2>3 DEF Announces
    <3> QED  BY <3>1, NothingMoves
  <2> QED  BY <2>2, <2>3
<1>5. PICK c : Listing(Len(events), lists, ms, c)
  BY <1>3
<1> QED  BY <1>2, <1>3, <1>4, <1>5, PassLeads

(* The deltas of store_liquidity: the pools' liquidity after the changes.  *)
LiquidityDeltasAre(h) ==
    LET os == InOrder(LiquidityChanges)
    IN  liquidityDeltas = [k \in DOMAIN os |-> ActiveIn(h[os[k]], events[os[k]].pool)]

LEMMA LiquidityPass ==
    ASSUME NEW h, NEW e, Mined(h, e), LiquidityDeltasAre(h),
           NEW bs, AllGood(bs, Base(h, e), Along(h, e, 3, 0))
    PROVE  AllGood(Collected(bs, LiquidityMessages), Base(h, e), Along(h, e, 3, Len(events)))
<1>1. PICK os : os = InOrder(LiquidityChanges)
  OBVIOUS
<1>2. events \in Seq(Event) /\ LiquidityChanges \subseteq 1..Len(events)
  BY PoolEventsIn DEF Mined, LiquidityChanges
<1>3. \A k \in DOMAIN os : os[k] \in LiquidityChanges
  <2>1. os \in Seq(LiquidityChanges)
    BY <1>1, <1>2, InOrderLists
  <2> QED  BY <2>1
<1>4. PICK M : M = [o \in 1..Len(events) |->
                       Message(events[o].tx, events[o].pool, <<"liquidity">>,
                               ActiveIn(h[o], events[o].pool), "Update")]
  OBVIOUS
<1>5. LiquidityMessages = [k \in DOMAIN os |-> M[os[k]]]
  <2>1. ASSUME NEW k \in DOMAIN os
        PROVE  Message(events[os[k]].tx, events[os[k]].pool, <<"liquidity">>, liquidityDeltas[k],
                       "Update") = M[os[k]]
    <3>1. os[k] \in 1..Len(events)
      BY <1>2, <1>3
    <3>2. liquidityDeltas[k] = ActiveIn(h[os[k]], events[os[k]].pool)
      BY <1>1 DEF LiquidityDeltasAre
    <3> QED  BY <1>4, <3>1, <3>2
  <2>2. LiquidityMessages =
            [k \in DOMAIN os |-> Message(events[os[k]].tx, events[os[k]].pool, <<"liquidity">>,
                                         liquidityDeltas[k], "Update")]
    BY <1>1 DEF LiquidityMessages
  <2> QED  BY <2>1, <2>2
<1>6. ASSUME NEW o \in 1..Len(events) PROVE Announces(h, o, 3, LiquidityChanges, M[o])
  <2>1. Turn(<<"liquidity">>) = 3 /\ ~IsTick(<<"liquidity">>) /\ <<"liquidity">> \in Name
    BY Turns, NamesDiffer DEF IsTick
  <2>2. OthersStill(h, o, 3, {<<"liquidity">>})
    <3>1. ASSUME NEW p \in Pool, p # events[o].pool PROVE Still(h, o, p, <<"liquidity">>)
      BY <3>1, StateSteps
    <3> QED  BY <3>1, Turns DEF OthersStill
  <2>3. CASE o \in LiquidityChanges
    <3>1. PICK p : p = events[o].pool
      OBVIOUS
    <3>2. ActiveIn(h[o], p) = StateIn(h[o], p)[<<"liquidity">>]
      BY StateIs
    <3>3. ActiveIn(h[o], p) \in Int
      <4>1. p \in Pool
        BY <1>2, <3>1, EventTypes
      <4>2. h[o] \in PoolState
        BY <1>2 DEF Mined, History
      <4> QED  BY <4>1, <4>2, ActiveType DEF ActiveIn, PoolState
    <3>4. M[o] = Message(events[o].tx, events[o].pool, <<"liquidity">>, ActiveIn(h[o], p), "Update")
      BY <1>4, <3>1
    <3>5. TrueMessage(h, o, M[o], <<"liquidity">>)
      BY <2>1, <3>1, <3>2, <3>3, <3>4, UpdateIsTrue
    <3> QED  BY <2>1, <2>2, <2>3, <3>5 DEF Announces
  <2>4. CASE o \notin LiquidityChanges
    <3>1. ASSUME NEW p \in Pool PROVE Still(h, o, p, <<"liquidity">>)
      BY <2>4, StateSteps
    <3>2. OthersStill(h, o, 3, {})
      BY <3>1, Turns DEF OthersStill
    <3> QED  BY <2>4, <3>2 DEF Announces
  <2> QED  BY <2>3, <2>4
<1>7. PICK ms : ms = LiquidityMessages
  OBVIOUS
<1>8. ms = [k \in DOMAIN InOrder(LiquidityChanges) |-> M[InOrder(LiquidityChanges)[k]]]
  BY <1>1, <1>5, <1>7
<1>9. AllGood(Collected(bs, ms), Base(h, e), Along(h, e, 3, Len(events)))
  BY <1>2, <1>6, <1>8, OnePass
<1> QED  BY <1>7, <1>9

LEMMA OtherPass ==
    ASSUME NEW h, NEW e, Mined(h, e), NEW bs, AllGood(bs, Base(h, e), Along(h, e, 4, 0))
    PROVE  AllGood(Collected(bs, OtherMessages), Base(h, e), Along(h, e, 4, Len(events)))
<1>1. PICK ordinals : ordinals = PoolEvents({"Initialize", "Swap", "SetFeeProtocol"})
  OBVIOUS
<1>2. PICK os : os = InOrder(ordinals)
  OBVIOUS
<1>3. events \in Seq(Event) /\ ordinals \subseteq 1..Len(events)
  BY <1>1, PoolEventsIn DEF Mined
<1>4. \A k \in DOMAIN os : os[k] \in 1..Len(events)
  <2>1. os \in Seq(ordinals)
    BY <1>2, <1>3, InOrderLists
  <2>2. \A k \in DOMAIN os : os[k] \in ordinals
    BY <2>1
  <2> QED  BY <1>3, <2>2
<1>5. PICK M : M = [o \in 1..Len(events) |->
                       IF events[o].type = "SetFeeProtocol"
                       THEN Message(events[o].tx, events[o].pool, <<"protocol_fees">>,
                                    events[o].fee, "Update")
                       ELSE Message(events[o].tx, events[o].pool, <<"tick">>,
                                    events[o].tick, "Update")]
  OBVIOUS
<1>6. PICK ms : ms = OtherMessages
  OBVIOUS
<1>7. ms = [k \in DOMAIN os |-> M[os[k]]]
  BY <1>1, <1>2, <1>4, <1>5, <1>6 DEF OtherMessages
<1>8. ASSUME NEW o \in 1..Len(events) PROVE Announces(h, o, 4, ordinals, M[o])
  <2>1. /\ Turn(<<"tick">>) = 4 /\ ~IsTick(<<"tick">>) /\ <<"tick">> \in Name
        /\ Turn(<<"protocol_fees">>) = 4 /\ ~IsTick(<<"protocol_fees">>) /\ <<"protocol_fees">> \in Name
    BY Turns, NamesDiffer DEF IsTick
  <2>2. PICK q : q = events[o].pool
    OBVIOUS
  <2>3. o \in ordinals <=> events[o].type \in {"Initialize", "Swap", "SetFeeProtocol"}
    BY <1>1, <1>3 DEF PoolEvents, Mined, AllKnown
  <2>4. ASSUME NEW p \in Pool
        PROVE  /\ IF events[o].type \in {"Initialize", "Swap"} /\ q = p
                  THEN StateIn(h[o], p)[<<"tick">>] = events[o].tick
                  ELSE Still(h, o, p, <<"tick">>)
               /\ IF events[o].type = "SetFeeProtocol" /\ q = p
                  THEN StateIn(h[o], p)[<<"protocol_fees">>] = events[o].fee
                  ELSE Still(h, o, p, <<"protocol_fees">>)
    BY <2>2, StateSteps
  <2>5. /\ events[o].type = "SetFeeProtocol" => events[o].fee \in Int
        /\ events[o].type \in {"Initialize", "Swap"} => events[o].tick \in Int
        /\ q \in Pool
    <3>1. PICK ev \in Event : ev = events[o]
      BY <1>3
    <3>2. \A f \in Fee : f \in Int
      BY LiquidityBounds
    <3>3. \A t \in Tick : t \in Int
      BY LiquidityBounds
    <3> QED  BY <2>2, <3>1, <3>2, <3>3, EventTypes
  <2>6. CASE events[o].type = "SetFeeProtocol"
    <3>1. OthersStill(h, o, 4, {<<"protocol_fees">>})
      BY <2>2, <2>4, <2>6, Turns DEF OthersStill
    <3>2. M[o] = Message(events[o].tx, events[o].pool, <<"protocol_fees">>, events[o].fee, "Update")
      BY <1>5, <2>6
    <3>3. StateIn(h[o], q)[<<"protocol_fees">>] = events[o].fee
      BY <2>4, <2>5, <2>6
    <3>4. TrueMessage(h, o, M[o], <<"protocol_fees">>)
      BY <2>1, <2>2, <2>5, <2>6, <3>2, <3>3, UpdateIsTrue
    <3> QED  BY <2>1, <2>3, <2>6, <3>1, <3>4 DEF Announces
  <2>7. CASE events[o].type \in {"Initialize", "Swap"}
    <3>1. OthersStill(h, o, 4, {<<"tick">>})
      BY <2>2, <2>4, <2>7, Turns DEF OthersStill
    <3>2. M[o] = Message(events[o].tx, events[o].pool, <<"tick">>, events[o].tick, "Update")
      BY <1>5, <2>7
    <3>3. StateIn(h[o], q)[<<"tick">>] = events[o].tick
      BY <2>4, <2>5, <2>7
    <3>4. TrueMessage(h, o, M[o], <<"tick">>)
      BY <2>1, <2>2, <2>5, <2>7, <3>2, <3>3, UpdateIsTrue
    <3> QED  BY <2>1, <2>3, <2>7, <3>1, <3>4 DEF Announces
  <2>8. CASE events[o].type \notin {"Initialize", "Swap", "SetFeeProtocol"}
    <3>1. OthersStill(h, o, 4, {})
      BY <2>4, <2>8, Turns DEF OthersStill
    <3> QED  BY <2>3, <2>8, <3>1 DEF Announces
  <2> QED  BY <2>6, <2>7, <2>8
<1>9. ms = [k \in DOMAIN InOrder(ordinals) |-> M[InOrder(ordinals)[k]]]
  BY <1>2, <1>7
<1>10. AllGood(Collected(bs, ms), Base(h, e), Along(h, e, 4, Len(events)))
  BY <1>3, <1>8, <1>9, OnePass
<1> QED  BY <1>6, <1>10

(* A pool that is just created has never had a tick.                       *)
LEMMA NoTickBefore ==
    ASSUME events \in Seq(Event), NEW h, History(h, events),
           NEW o, o \in 1..Len(events), events[o].type = "PoolCreated",
           NEW i, i \in 0..o - 1
    PROVE  h[i].cur[events[o].pool] = NoTick
<1>1. PICK n \in Nat, q \in Pool : n = Len(events) /\ q = events[o].pool
  BY EventTypes
<1>2. ASSUME NEW j, j \in 1..n, h[j].cur[q] = NoTick PROVE h[j - 1].cur[q] = NoTick
  <2>1. PICK ev \in Event : ev = events[j]
    BY <1>1, <1>2
  <2>2. PICK s, u : s = h[j - 1] /\ u = h[j]
    OBVIOUS
  <2>3. s \in PoolState /\ u \in PoolState /\ Step(s, ev, u)
    <3>1. j - 1 \in 0..n /\ j \in 0..n
      BY <1>1, <1>2
    <3> QED  BY <1>1, <1>2, <2>1, <2>2, <3>1 DEF History
  <2>4. /\ s.cur \in [Pool -> Ticks]
        /\ ev.pool \in Pool
        /\ ev.type \in {"PoolCreated", "Initialize", "Mint", "Burn", "Swap", "SetFeeProtocol"}
        /\ ev.type \in {"Initialize", "Swap"} => ev.tick \in Tick
    BY <2>3, EventTypes DEF PoolState
  <2>5. /\ ev.type \in {"Initialize", "Swap"} => u.cur = [s.cur EXCEPT ![ev.pool] = ev.tick]
        /\ ev.type \notin {"Initialize", "Swap"} => u.cur = s.cur
    BY <2>3, <2>4 DEF Step, TickSet
  <2>6. NoTick \notin Tick
    BY LiquidityBounds
  <2>7. u.cur[q] = NoTick
    BY <1>2, <2>2
  <2>8. s.cur[q] = NoTick
    BY <2>4, <2>5, <2>6, <2>7
  <2> QED  BY <2>2, <2>8
<1>3. h[o - 1].cur[q] = NoTick
  BY <1>1 DEF History, Step
<1> DEFINE D == {k \in Nat : k <= o - 1 => h[(o - 1) - k].cur[q] = NoTick}
<1>4. o \in Nat /\ o - 1 \in Nat /\ o <= n
  BY <1>1
<1>5. 0 \in D
  BY <1>3, <1>4
<1>6. ASSUME NEW k \in D PROVE k + 1 \in D
  <2>1. k \in Nat /\ k + 1 \in Nat
    OBVIOUS
  <2>2. CASE k + 1 <= o - 1
    <3>1. PICK j : j = (o - 1) - k
      OBVIOUS
    <3>2. j \in 1..n /\ j - 1 = (o - 1) - (k + 1) /\ k <= o - 1
      BY <1>1, <1>4, <2>1, <2>2, <3>1
    <3>3. h[j].cur[q] = NoTick
      BY <2>1, <3>1, <3>2
    <3>4. h[j - 1].cur[q] = NoTick
      BY <1>2, <3>2, <3>3
    <3> QED  BY <2>1, <3>2, <3>4
  <2>3. CASE ~(k + 1 <= o - 1)
    BY <2>1, <2>3
  <2> QED  BY <2>2, <2>3
<1>7. D = Nat
  <2>1. D \in SUBSET Nat
    OBVIOUS
  <2> HIDE DEF D
  <2> QED  BY <1>5, <1>6, <2>1, SetInduction
<1>8. (o - 1) - i \in Nat /\ (o - 1) - i <= o - 1 /\ (o - 1) - ((o - 1) - i) = i
  BY <1>4
<1>9. (o - 1) - i \in D
  BY <1>7, <1>8
<1>10. h[(o - 1) - ((o - 1) - i)].cur[q] = NoTick
  BY <1>8, <1>9
<1> QED  BY <1>1, <1>8, <1>10

LEMMA CreationPass ==
    ASSUME NEW h, NEW e, Mined(h, e), NEW bs, AllGood(bs, Base(h, e), Along(h, e, 1, 0))
    PROVE  AllGood(Collected(bs, CreationMessages), Base(h, e), Along(h, e, 1, Len(events)))
<1>1. PICK ordinals : ordinals = {i \in DOMAIN events : events[i].type = "PoolCreated"}
  OBVIOUS
<1>2. PICK os : os = InOrder(ordinals)
  OBVIOUS
<1>3. /\ events \in Seq(Event) /\ Len(events) \in Nat /\ ordinals \subseteq 1..Len(events)
      /\ History(h, events) /\ EndsAt(e)
  <2>1. events \in Seq(Event) /\ History(h, events) /\ EndsAt(e)
    BY DEF Mined
  <2> QED  BY <1>1, <2>1
<1>4. \A k \in DOMAIN os : os[k] \in 1..Len(events)
  <2>1. os \in Seq(ordinals)
    BY <1>2, <1>3, InOrderLists
  <2>2. \A k \in DOMAIN os : os[k] \in ordinals
    BY <2>1
  <2> QED  BY <1>3, <2>2
<1>5. PICK attr : attr = [value |-> 0, change |-> "Creation"]
  OBVIOUS
<1>6. PICK attrs : attrs = [n \in {<<"liquidity">>, <<"tick">>} |-> <<attr>>]
  OBVIOUS
<1>7. PICK M : M = [o \in 1..Len(events) |->
                       [tx |-> events[o].tx, pool |-> events[o].pool, attributes |-> attrs]]
  OBVIOUS
<1>8. PICK ms : ms = CreationMessages
  OBVIOUS
<1>9. ms = [k \in DOMAIN os |-> M[os[k]]]
  <2>1. ms = [k \in DOMAIN os |->
                 [tx |-> events[os[k]].tx, pool |-> events[os[k]].pool, attributes |-> attrs]]
    BY <1>1, <1>2, <1>5, <1>6, <1>8 DEF CreationMessages
  <2> QED  BY <1>4, <1>7, <2>1
<1>10. PICK lists : lists = [o \in 1..Len(events) |-> IF o \in ordinals THEN <<M[o]>> ELSE <<>>]
  OBVIOUS
<1>11. Len(ms) \in Nat /\ \E c : Listing(Len(events), lists, ms, c)
  <2>1. ms = [k \in DOMAIN InOrder(ordinals) |-> M[InOrder(ordinals)[k]]]
    BY <1>2, <1>9
  <2> QED  BY <1>3, <1>10, <2>1, OneEach
<1>12. ASSUME NEW o \in 1..Len(events)
       PROVE  Brings(lists[o], Along(h, e, 1, o - 1), Along(h, e, 1, o))
  <2>1. PICK X, Y : X = Along(h, e, 1, o - 1) /\ Y = Along(h, e, 1, o)
    OBVIOUS
  <2>2. ASSUME NEW t \in Txs, NEW p \in Pool, NEW n \in Name PROVE Y[t][p][n] = X[t][p][n]
    <3>1. Advances(X, Y, h, o, 1, t, p, n)
      BY <1>3, <2>1, AlongSteps
    <3>2. Turn(n) # 1
      BY Turns
    <3> QED  BY <3>1, <3>2 DEF Advances
  <2>3. CASE o \in ordinals
    <3>1. PICK ev \in Event, t \in Txs, p \in Pool : ev = events[o] /\ t = ev.tx /\ p = ev.pool
      BY <1>3, EventTypes
    <3>2. PICK m : m = M[o]
      OBVIOUS
    <3>3. m.tx = t /\ m.pool = p /\ m.attributes = attrs
      BY <1>7, <3>1, <3>2
    <3>4. PICK b : b = e[t - 1]
      OBVIOUS
    <3>5. h[b].cur[p] = NoTick
      <4>1. b \in Nat /\ b < o
        BY <1>3, <3>1, <3>4, EndsFacts
      <4>2. b \in 0..o - 1
        BY <1>3, <4>1
      <4>3. events[o].type = "PoolCreated"
        BY <1>1, <2>3
      <4> QED  BY <1>3, <3>1, <4>2, <4>3, NoTickBefore
    <3>6. StateIn(h[b], p)[<<"liquidity">>] = 0 /\ StateIn(h[b], p)[<<"tick">>] = 0
      BY <3>5, StateIs DEF ActiveIn, Active, TickIn
    <3>7. ASSUME NEW n \in DOMAIN attrs
          PROVE  /\ n \in Name /\ attrs[n] = <<attrs[n][1]>>
                 /\ Truthful(attrs[n][1], n, X[t][p][n], Y[t][p][n])
      <4>1. n \in Name /\ ~IsTick(n) /\ n \in {<<"liquidity">>, <<"tick">>}
        BY <1>6, NamesDiffer DEF IsTick
      <4>2. attrs[n] = <<attr>> /\ attrs[n][1] = attr
        BY <1>6
      <4>3. X[t][p][n] = StateIn(h[b], p)[n]
        <5>1. Pos(1, o - 1, n) = 0
          BY <4>1, Turns DEF Pos
        <5>2. Clip(e, t, 0) = b
          BY <1>3, <3>4, ClipFacts
        <5> QED  BY <2>1, <4>1, <5>1, <5>2 DEF Along
      <4>4. X[t][p][n] = 0 /\ Y[t][p][n] = 0
        BY <2>2, <3>6, <4>1, <4>3
      <4>5. /\ attr \in Netting!Attribute /\ attr.change = "Creation" /\ Told(attr) = 0
        BY <1>5 DEF Netting!Attribute, Netting!ChangeType, Told
      <4>6. Truthful(attr, n, X[t][p][n], Y[t][p][n])
        BY <4>1, <4>4, <4>5 DEF Truthful
      <4> QED  BY <4>1, <4>2, <4>6
    <3>8. Moves(m, X, Y)
      BY <2>2, <3>3, <3>7 DEF Moves, Single
    <3>9. lists[o] = <<m>>
      BY <1>10, <2>3, <3>2
    <3> QED  BY <2>1, <3>8, <3>9 DEF Brings
  <2>4. CASE o \notin ordinals
    <3>1. lists[o] = <<>>
      BY <1>10, <2>4
    <3> QED  BY <2>1, <2>2, <3>1 DEF Brings
  <2> QED  BY <2>3, <2>4
<1>13. PICK c : Listing(Len(events), lists, ms, c)
  BY <1>11
<1> QED  BY <1>3, <1>8, <1>11, <1>12, <1>13, PassLeads

(* The message for a delta, from the pool's own net liquidities.           *)
NetChange(old, new) == IF old = 0 THEN "Creation" ELSE IF new = 0 THEN "Deletion" ELSE "Update"

NetMessage(h, o, p, t) ==
    Message(events[o].tx, p, TickName(t), NetLiquidity(h[o].pos, p, t),
            NetChange(NetLiquidity(h[o - 1].pos, p, t), NetLiquidity(h[o].pos, p, t)))

(* The deltas of store_ticks_liquidity: the net liquidities before and     *)
(* after each event.                                                       *)
NetDeltasAre(h) ==
    \A k \in DOMAIN TickDeltas :
        LET d == TickDeltas[k]
        IN  /\ Worth(ticksDeltas[k].old) = NetLiquidity(h[d.ordinal - 1].pos, d.pool, d.tick)
            /\ ticksDeltas[k].new = NetLiquidity(h[d.ordinal].pos, d.pool, d.tick)

LEMMA NetMessageMoves ==
    ASSUME NEW h, NEW e, Mined(h, e), NEW o, o \in 1..Len(events),
           NEW t, t \in Boundary, NEW p, p = events[o].pool
    PROVE  TrueMessage(h, o, NetMessage(h, o, p, t), TickName(t))
<1>1. PICK old, new : /\ old = NetLiquidity(h[o - 1].pos, p, t)
                      /\ new = NetLiquidity(h[o].pos, p, t)
  OBVIOUS
<1>2. PICK n : n = TickName(t)
  OBVIOUS
<1>3. PICK change : change = NetChange(old, new)
  OBVIOUS
<1>4. h[o - 1] \in PoolState /\ h[o] \in PoolState /\ p \in Pool
  <2>1. PICK len \in Nat : len = Len(events)
    BY DEF Mined
  <2>2. o - 1 \in 0..len /\ o \in 0..len
    BY <2>1
  <2> QED  BY <2>1, <2>2, EventTypes DEF Mined, History
<1>5. new \in Int
  BY <1>1, <1>4, NetType DEF PoolState
<1>6. /\ StateIn(h[o - 1], p)[n] = old /\ StateIn(h[o], p)[n] = new
  BY <1>1, <1>2, StateIs
<1>7. n \in Name /\ IsTick(n)
  BY <1>2, TickNames, Turns
<1>8. PICK m : m = NetMessage(h, o, p, t)
  OBVIOUS
<1>9. /\ m.tx = events[o].tx /\ m.pool = p /\ DOMAIN m.attributes = {n}
      /\ m.attributes[n] = <<m.attributes[n][1]>>
      /\ m.attributes[n][1] \in Netting!Attribute
      /\ m.attributes[n][1].value = new /\ m.attributes[n][1].change = change
  <2>1. change \in {"Update", "Creation", "Deletion"}
    BY <1>3 DEF NetChange
  <2>2. m = Message(events[o].tx, p, n, new, change)
    BY <1>1, <1>2, <1>3, <1>8 DEF NetMessage
  <2> QED  BY <1>5, <2>1, <2>2, MessageIs
<1>10. Truthful(m.attributes[n][1], n, old, new)
  <2>1. PICK attr : attr = m.attributes[n][1]
    OBVIOUS
  <2>2. attr.change = "Deletion" => new = 0
    BY <1>3, <1>9, <2>1 DEF NetChange
  <2>3. attr.change = "Creation" <=> old = 0
    BY <1>3, <1>9, <2>1 DEF NetChange
  <2>4. new = Told(attr)
    BY <1>9, <2>1, <2>2 DEF Told
  <2> QED  BY <1>7, <1>9, <2>1, <2>3, <2>4 DEF Truthful
<1> QED  BY <1>2, <1>6, <1>7, <1>8, <1>9, <1>10 DEF TrueMessage

(* What the two deltas of an event say, in order.                          *)
DeltaOf(o, t) == [ordinal |-> o, pool |-> events[o].pool, tx |-> events[o].tx, tick |-> t]

LEMMA DeltasList ==
    ASSUME events \in Seq(Event)
    PROVE  /\ Len(TickDeltas) \in Nat /\ DOMAIN TickDeltas = 1..Len(TickDeltas)
           /\ \A k \in DOMAIN TickDeltas :
                  \E o \in 1..Len(events), t \in Boundary :
                      TickDeltas[k] = DeltaOf(o, t) /\ Touches(events[o].pool, t, o)
           /\ \E c : Listing(Len(events),
                             [o \in 1..Len(events) |->
                                 IF o \in PoolEvents({"Mint", "Burn"})
                                 THEN <<DeltaOf(o, events[o].range[1]), DeltaOf(o, events[o].range[2])>>
                                 ELSE <<>>],
                             TickDeltas, c)
<1>1. PICK marked : marked = PoolEvents({"Mint", "Burn"})
  OBVIOUS
<1>2. Len(events) \in Nat /\ DOMAIN events = 1..Len(events)
  OBVIOUS
<1>3. PICK lists : lists = [o \in 1..Len(events) |->
                               IF o \in marked
                               THEN <<DeltaOf(o, events[o].range[1]), DeltaOf(o, events[o].range[2])>>
                               ELSE <<>>]
  OBVIOUS
<1>4. PICK D : D = UNION {{DeltaOf(o, t) : t \in Boundary} : o \in 1..Len(events)}
  OBVIOUS
<1>5. PICK T : T = {d \in D : Touches(d.pool, d.tick, d.ordinal)}
  OBVIOUS
<1>6. ASSUME NEW o \in 1..Len(events), o \in marked
      PROVE  /\ events[o].range[1] \in Boundary /\ events[o].range[2] \in Boundary
             /\ DeltaOf(o, events[o].range[1]) \in T /\ DeltaOf(o, events[o].range[2]) \in T
  <2>1. PICK ev \in Event : ev = events[o]
    OBVIOUS
  <2>2. ev.type \in {"Mint", "Burn"}
    BY <1>1, <1>6, <2>1 DEF PoolEvents
  <2>3. ev.range \in TickRange
    BY <2>2, EventTypes
  <2>4. ev.range[1] \in Boundary /\ ev.range[2] \in Boundary
    BY <2>3 DEF Boundary
  <2>5. ASSUME NEW t \in Boundary, t \in {ev.range[1], ev.range[2]} PROVE DeltaOf(o, t) \in T
    <3>1. DeltaOf(o, t) \in D
      BY <1>4, <1>6
    <3>2. DeltaOf(o, t).pool = ev.pool /\ DeltaOf(o, t).tick = t /\ DeltaOf(o, t).ordinal = o
      BY <2>1 DEF DeltaOf
    <3>3. Touches(ev.pool, t, o)
      BY <1>1, <1>6, <2>1, <2>5 DEF Touches
    <3> QED  BY <1>5, <3>1, <3>2, <3>3
  <2> QED  BY <2>1, <2>4, <2>5
<1>7. lists \in Seq(Seq(T)) /\ Len(lists) = Len(events)
  <2>1. ASSUME NEW o \in 1..Len(events) PROVE lists[o] \in Seq(T)
    <3>1. CASE o \in marked
      <4>1. PICK a \in T, b \in T :
                a = DeltaOf(o, events[o].range[1]) /\ b = DeltaOf(o, events[o].range[2])
        BY <1>6, <3>1
      <4>2. lists[o] = <<a, b>>
        BY <1>3, <3>1, <4>1
      <4> QED  BY <4>2
    <3>2. CASE o \notin marked
      <4>1. lists[o] = <<>>
        BY <1>3, <3>2
      <4> QED  BY <4>1
    <3> QED  BY <3>1, <3>2
  <2> QED  BY <1>2, <1>3, <2>1
<1>8. TickDeltas = FlattenSeq(lists)
  <2>1. ASSUME NEW o \in 1..Len(events)
        PROVE  TickDeltasOf(o) = <<DeltaOf(o, events[o].range[1]), DeltaOf(o, events[o].range[2])>>
    BY DEF TickDeltasOf, DeltaOf
  <2>2. lists = [o \in DOMAIN events |-> IF o \in marked THEN TickDeltasOf(o) ELSE <<>>]
    BY <1>2, <1>3, <2>1
  <2> QED  BY <1>1, <2>2 DEF TickDeltas
<1>9. TickDeltas \in Seq(T) /\ \E c : Listing(Len(events), lists, TickDeltas, c)
  BY <1>7, <1>8, FlattenSeqLists
<1>10. ASSUME NEW k \in DOMAIN TickDeltas
       PROVE  \E o \in 1..Len(events), t \in Boundary :
                  TickDeltas[k] = DeltaOf(o, t) /\ Touches(events[o].pool, t, o)
  <2>1. PICK d \in T : d = TickDeltas[k]
    BY <1>9
  <2>2. PICK o \in 1..Len(events), t \in Boundary : d = DeltaOf(o, t)
    BY <1>4, <1>5
  <2>3. d.pool = events[o].pool /\ d.tick = t /\ d.ordinal = o
    BY <2>2 DEF DeltaOf
  <2>4. Touches(d.pool, d.tick, d.ordinal)
    BY <1>5
  <2> QED  BY <2>1, <2>2, <2>3, <2>4
<1>11. Len(TickDeltas) \in Nat /\ DOMAIN TickDeltas = 1..Len(TickDeltas)
  BY <1>9
<1> QED  BY <1>1, <1>3, <1>9, <1>10, <1>11

LEMMA TickMessageIs ==
    ASSUME events \in Seq(Event), NEW h, NetDeltasAre(h), NEW k, k \in DOMAIN TickDeltas,
           NEW o, NEW t, TickDeltas[k] = DeltaOf(o, t)
    PROVE  TickMessages[k] = NetMessage(h, o, events[o].pool, t)
<1>1. PICK p, old, new : /\ p = events[o].pool
                         /\ old = NetLiquidity(h[o - 1].pos, p, t)
                         /\ new = NetLiquidity(h[o].pos, p, t)
  OBVIOUS
<1>2. PICK d : d = TickDeltas[k]
  OBVIOUS
<1>3. d.ordinal = o /\ d.pool = p /\ d.tx = events[o].tx /\ d.tick = t
  BY <1>1, <1>2 DEF DeltaOf
<1>4. PICK delta : delta = ticksDeltas[k]
  OBVIOUS
<1>5. Worth(delta.old) = old /\ delta.new = new
  BY <1>1, <1>2, <1>3, <1>4 DEF NetDeltasAre
<1>6. TickChange(delta) = NetChange(old, new)
  BY <1>5 DEF TickChange, NetChange, Worth
<1>7. TickMessages[k] = Message(d.tx, d.pool, TickName(d.tick), delta.new, TickChange(delta))
  BY <1>2, <1>4 DEF TickMessages
<1> QED  BY <1>1, <1>3, <1>5, <1>6, <1>7 DEF NetMessage

LEMMA TickPass ==
    ASSUME NEW h, NEW e, Mined(h, e), NetDeltasAre(h),
           NEW bs, AllGood(bs, Base(h, e), Along(h, e, 2, 0))
    PROVE  AllGood(Collected(bs, TickMessages), Base(h, e), Along(h, e, 2, Len(events)))
<1>1. PICK marked : marked = PoolEvents({"Mint", "Burn"})
  OBVIOUS
<1>2. events \in Seq(Event) /\ Len(events) \in Nat
  BY DEF Mined
<1>3. PICK lists : lists = [o \in 1..Len(events) |->
                               IF o \in marked
                               THEN <<DeltaOf(o, events[o].range[1]), DeltaOf(o, events[o].range[2])>>
                               ELSE <<>>]
  OBVIOUS
<1>4. PICK N : N = [o \in 1..Len(events) |->
                       <<NetMessage(h, o, events[o].pool, events[o].range[1]),
                         NetMessage(h, o, events[o].pool, events[o].range[2])>>]
  OBVIOUS
<1>5. PICK lists2 : lists2 = [o \in 1..Len(events) |-> IF o \in marked THEN N[o] ELSE <<>>]
  OBVIOUS
<1>6. PICK flat, ms : flat = TickDeltas /\ ms = TickMessages
  OBVIOUS
<1>7. /\ Len(flat) \in Nat /\ DOMAIN flat = 1..Len(flat)
      /\ \E c : Listing(Len(events), lists, flat, c)
  BY <1>1, <1>2, <1>3, <1>6, DeltasList
<1>8. PICK c : Listing(Len(events), lists, flat, c)
  BY <1>7
<1>9. Len(ms) = Len(flat)
  BY <1>6, <1>7 DEF TickMessages
<1>10. ASSUME NEW o \in 1..Len(events)
       PROVE  /\ o \in marked => Len(lists[o]) = 2 /\ Len(lists2[o]) = 2 /\ lists2[o] = N[o]
              /\ o \notin marked =>
                     Len(lists[o]) = 0 /\ Len(lists2[o]) = 0 /\ lists2[o] = <<>>
  BY <1>3, <1>4, <1>5
<1>11. Carries(Len(events), lists, flat, lists2, ms)
  <2>1. ASSUME NEW o \in 1..Len(events), NEW j \in Nat, NEW k \in 1..Len(flat),
               1 <= j /\ j <= Len(lists[o]) /\ flat[k] = lists[o][j]
        PROVE  ms[k] = lists2[o][j]
    <3>1. o \in marked /\ (j = 1 \/ j = 2)
      BY <1>10, <2>1
    <3>2. PICK t : t = events[o].range[j]
      OBVIOUS
    <3>3. lists[o][j] = DeltaOf(o, t)
      BY <1>3, <3>1, <3>2
    <3>4. lists2[o][j] = NetMessage(h, o, events[o].pool, t)
      BY <1>4, <1>5, <3>1, <3>2
    <3>5. PICK i : i = k
      OBVIOUS
    <3>6. i \in DOMAIN TickDeltas /\ TickDeltas[i] = DeltaOf(o, t)
      BY <1>6, <1>7, <2>1, <3>3, <3>5
    <3>7. TickMessages[i] = NetMessage(h, o, events[o].pool, t)
      BY <1>2, <3>6, TickMessageIs
    <3> QED  BY <1>6, <3>4, <3>5, <3>7
  <2>2. \A o \in 1..Len(events) : Len(lists[o]) \in Nat /\ Len(lists2[o]) = Len(lists[o])
    BY <1>10
  <2> QED  BY <1>7, <1>9, <2>1, <2>2 DEF Carries
<1>12. Listing(Len(events), lists2, ms, c)
  <2>1. PICK len : len = Len(events)
    OBVIOUS
  <2>2. len \in Nat
    BY <1>2, <2>1
  <2> QED  BY <1>8, <1>11, <2>1, <2>2, ListingTo
<1>13. ASSUME NEW o \in 1..Len(events)
       PROVE  Brings(lists2[o], Along(h, e, 2, o - 1), Along(h, e, 2, o))
  <2>1. PICK i : i = o
    OBVIOUS
  <2>2. PICK ev \in Event : ev = events[i]
    BY <1>2, <2>1
  <2>3. i \in 1..Len(events)
    BY <2>1
  <2>4. CASE o \in marked
    <3>1. ev.type \in {"Mint", "Burn"}
      BY <1>1, <2>1, <2>2, <2>4 DEF PoolEvents
    <3>2. PICK r \in TickRange : r = ev.range
      BY <3>1, EventTypes
    <3>3. PICK lo, hi, p : lo = r[1] /\ hi = r[2] /\ p = ev.pool
      OBVIOUS
    <3>4. lo \in Boundary /\ hi \in Boundary /\ lo # hi
      BY <3>2, <3>3, RangeFacts DEF Boundary
    <3>5. PICK m1, m2 : m1 = NetMessage(h, i, p, lo) /\ m2 = NetMessage(h, i, p, hi)
      OBVIOUS
    <3>6. lists2[o] = <<m1, m2>>
      BY <1>4, <1>5, <2>1, <2>2, <2>4, <3>2, <3>3, <3>5
    <3>7. TrueMessage(h, i, m1, TickName(lo)) /\ TrueMessage(h, i, m2, TickName(hi))
      BY <2>2, <2>3, <3>3, <3>4, <3>5, NetMessageMoves
    <3>8. TickName(lo) # TickName(hi) /\ Turn(TickName(lo)) = 2 /\ Turn(TickName(hi)) = 2
      BY <3>4, TickNames, Turns
    <3>9. OthersStill(h, i, 2, {TickName(lo), TickName(hi)})
      <4> SUFFICES ASSUME NEW q \in Pool, NEW n \in Name, Turn(n) = 2,
                          ~(q = events[i].pool /\ n \in {TickName(lo), TickName(hi)})
                   PROVE  Still(h, i, q, n)
        BY DEF OthersStill
      <4>1. PICK t \in Boundary : n = TickName(t)
        BY Turns
      <4>2. ~Touches(q, t, i)
        BY <2>2, <3>2, <3>3, <4>1 DEF Touches
      <4> QED  BY <2>3, <4>1, <4>2, StateSteps
    <3>10. Brings(<<m1, m2>>, Along(h, e, 2, i - 1), Along(h, e, 2, i))
      BY <2>3, <3>7, <3>8, <3>9, MessagesMove
    <3> QED  BY <2>1, <3>6, <3>10
  <2>5. CASE o \notin marked
    <3>1. OthersStill(h, i, 2, {})
      <4> SUFFICES ASSUME NEW q \in Pool, NEW n \in Name, Turn(n) = 2 PROVE Still(h, i, q, n)
        BY DEF OthersStill
      <4>1. PICK t \in Boundary : n = TickName(t)
        BY Turns
      <4>2. ~Touches(q, t, i)
        BY <1>1, <2>1, <2>5 DEF Touches
      <4> QED  BY <2>3, <4>1, <4>2, StateSteps
    <3>2. Brings(<<>>, Along(h, e, 2, i - 1), Along(h, e, 2, i))
      BY <2>3, <3>1, NothingMoves
    <3> QED  BY <1>10, <2>1, <2>5, <3>2
  <2> QED  BY <2>4, <2>5
<1>14. Len(ms) \in Nat
  BY <1>7, <1>9
<1> QED  BY <1>2, <1>6, <1>12, <1>13, <1>14, PassLeads

(* After the four passes every entry takes its pool from where it was      *)
(* before the transaction to where it is after it.                         *)
LEMMA AllPasses ==
    ASSUME NEW h, NEW e, Mined(h, e), LiquidityDeltasAre(h), NetDeltasAre(h),
           NEW bs, AllGood(bs, Base(h, e), Base(h, e))
    PROVE  LET creations == Collected(bs, CreationMessages)
               netted    == Collected(creations, TickMessages)
               active    == Collected(netted, LiquidityMessages)
           IN  AllGood(Collected(active, OtherMessages), Base(h, e),
                       [t \in Txs |-> [p \in Pool |-> StateIn(h[e[t]], p)]])
<1>1. PICK b1, b2, b3, b4 :
          /\ b1 = Collected(bs, CreationMessages) /\ b2 = Collected(b1, TickMessages)
          /\ b3 = Collected(b2, LiquidityMessages) /\ b4 = Collected(b3, OtherMessages)
  OBVIOUS
<1>2. PICK B, X : /\ B = Base(h, e)
                  /\ X = [t \in Txs |-> [p \in Pool |-> StateIn(h[e[t]], p)]]
  OBVIOUS
<1>3. ASSUME NEW t \in Txs, NEW p \in Pool, NEW n \in Name
      PROVE  /\ Along(h, e, 1, 0)[t][p][n] = B[t][p][n]
             /\ \A pass \in 1..3 :
                    Along(h, e, pass + 1, 0)[t][p][n] = Along(h, e, pass, Len(events))[t][p][n]
             /\ X[t][p][n] = Along(h, e, 4, Len(events))[t][p][n]
  BY <1>2, PassesFollow DEF Mined, Base
<1>4. ASSUME NEW t \in Txs, NEW p \in Pool, NEW n \in Name
      PROVE  /\ Along(h, e, 2, 0)[t][p][n] = Along(h, e, 1, Len(events))[t][p][n]
             /\ Along(h, e, 3, 0)[t][p][n] = Along(h, e, 2, Len(events))[t][p][n]
             /\ Along(h, e, 4, 0)[t][p][n] = Along(h, e, 3, Len(events))[t][p][n]
  <2>1. /\ Along(h, e, 1 + 1, 0)[t][p][n] = Along(h, e, 1, Len(events))[t][p][n]
        /\ Along(h, e, 2 + 1, 0)[t][p][n] = Along(h, e, 2, Len(events))[t][p][n]
        /\ Along(h, e, 3 + 1, 0)[t][p][n] = Along(h, e, 3, Len(events))[t][p][n]
    BY <1>3
  <2> QED  BY <2>1
<1>5. AllGood(bs, B, Along(h, e, 1, 0))
  BY <1>2, <1>3, SameGood
<1>6. AllGood(b1, B, Along(h, e, 1, Len(events)))
  BY <1>1, <1>2, <1>5, CreationPass
<1>7. AllGood(b1, B, Along(h, e, 2, 0))
  BY <1>4, <1>6, SameGood
<1>8. AllGood(b2, B, Along(h, e, 2, Len(events)))
  BY <1>1, <1>2, <1>7, TickPass
<1>9. AllGood(b2, B, Along(h, e, 3, 0))
  BY <1>4, <1>8, SameGood
<1>10. AllGood(b3, B, Along(h, e, 3, Len(events)))
  BY <1>1, <1>2, <1>9, LiquidityPass
<1>11. AllGood(b3, B, Along(h, e, 4, 0))
  BY <1>4, <1>10, SameGood
<1>12. AllGood(b4, B, Along(h, e, 4, Len(events)))
  BY <1>1, <1>2, <1>11, OtherPass
<1>13. AllGood(b4, B, X)
  BY <1>3, <1>12, SameGood
<1> QED  BY <1>1, <1>2, <1>13

-----------------------------------------------------------------------------
(* The invariant                                                           *)

TypeInv ==
    /\ phase \in {"mine", "current_tick", "liquidity", "ticks", "changes", "apply"}
    /\ events \in Seq(Event) /\ Len(events) <= MaxEvents /\ tx \in Txs
    /\ created \subseteq Pool /\ pools \subseteq created
    /\ current \in [Pool -> Ticks] /\ position \in Positions /\ fee \in [Pool -> Fee \cup {0}]
    /\ ticks \in [Pool \X Boundary -> Int \cup {NoLiquidity}]

(* Only initialised pools have positions, only created ones a tick.        *)
ChainInv ==
    \A p \in Pool :
        /\ current[p] # NoTick => p \in created
        /\ current[p] = NoTick => \A r \in TickRange : position[<<p, r>>] = 0

NewPools == {events[i].pool : i \in {i \in DOMAIN events : events[i].type = "PoolCreated"}}

PoolsInv ==
    /\ \A i \in DOMAIN events : events[i].pool \in created
    /\ phase = "mine" => created = pools \cup NewPools
    /\ phase # "mine" => AllKnown /\ pools = created

Chain == [cur |-> current, pos |-> position, fee |-> fee]

TicksStart(h) == \A p \in Pool : currentTick[p][0] = h[0].cur[p]
LiquidityAre(s) == \A p \in Pool : liquidity[p] = ActiveIn(s, p)
NetsAre(s) == \A p \in Pool, t \in Boundary : Worth(ticks[<<p, t>>]) = NetLiquidity(s.pos, p, t)

(* Where the stores are in the history, which ends at the chain.           *)
StoresAt(h) ==
    /\ History(h, events) /\ h[Len(events)] = Chain
    /\ IF phase \in {"mine", "current_tick"} THEN TicksStart(h) ELSE TicksKnown(h)
    /\ LiquidityAre(IF phase \in {"mine", "current_tick", "liquidity"} THEN h[0] ELSE Chain)
    /\ NetsAre(IF phase \in {"mine", "current_tick", "liquidity", "ticks"} THEN h[0] ELSE Chain)

(* Where the builders and the consumer are in it: e marks the transactions *)
(* in the history.                                                         *)
MirrorAt(h, e) ==
    /\ EndsAt(e) /\ \A i \in 1..Len(events) : events[i].tx <= tx
    /\ txEnd = [t \in Txs |-> [p \in Pool |-> StateIn(h[e[t]], p)]]
    /\ phase \in {"ticks", "changes"} => LiquidityDeltasAre(h)
    /\ phase = "changes" => NetDeltasAre(h)
    /\ IF phase = "apply" THEN AllGood(builders, Base(h, e), txEnd)
                          ELSE builders = NoBuilders /\ applied = 0
    /\ applied \in 0..MaxTxs
    /\ \A p \in Pool, n \in Name : Read(p, n) = StateIn(h[e[applied]], p)[n]

StoresInv == \E h, e : StoresAt(h) /\ MirrorAt(h, e)

IInv == TypeInv /\ ChainInv /\ PoolsInv /\ StoresInv

(* The lists, as functions of what they are made from.                     *)
ListOf(evs, ordinals) ==
    FlattenSeq([o \in DOMAIN evs |-> IF o \in ordinals THEN <<o>> ELSE <<>>])

DeltaListOf(evs, ordinals) ==
    FlattenSeq([o \in DOMAIN evs |->
        IF o \in ordinals
        THEN <<[ordinal |-> o, pool |-> evs[o].pool, tx |-> evs[o].tx, tick |-> evs[o].range[1]],
               [ordinal |-> o, pool |-> evs[o].pool, tx |-> evs[o].tx, tick |-> evs[o].range[2]]>>
        ELSE <<>>])

LEMMA ListsStay ==
    ASSUME UNCHANGED <<events, pools>>
    PROVE  /\ UNCHANGED currentTick => LiquidityChanges' = LiquidityChanges
           /\ \A S : InOrder(S)' = InOrder(S)
           /\ TickDeltas' = TickDeltas
<1>1. ASSUME NEW types PROVE PoolEvents(types)' = PoolEvents(types)
  BY DEF PoolEvents
<1>2. UNCHANGED currentTick => LiquidityChanges' = LiquidityChanges
  <2>1. \A p, o : UNCHANGED currentTick => GetAt(p, o)' = GetAt(p, o)
    BY DEF GetAt
  <2> QED  BY <1>1, <2>1 DEF LiquidityChanges
<1>3. ASSUME NEW S PROVE InOrder(S)' = InOrder(S)
  <2>1. InOrder(S) = ListOf(events, S)
    BY DEF InOrder, ListOf
  <2>2. InOrder(S)' = ListOf(events', S)
    BY DEF InOrder, ListOf
  <2> QED  BY <2>1, <2>2
<1>4. TickDeltas' = TickDeltas
  <2>1. TickDeltas = DeltaListOf(events, PoolEvents({"Mint", "Burn"}))
    BY DEF TickDeltas, DeltaListOf, TickDeltasOf
  <2>2. TickDeltas' = DeltaListOf(events', PoolEvents({"Mint", "Burn"})')
    BY DEF TickDeltas, DeltaListOf, TickDeltasOf
  <2> QED  BY <1>1, <2>1, <2>2
<1> QED  BY <1>2, <1>3, <1>4

LEMMA DeltasStay ==
    ASSUME NEW h, UNCHANGED <<events, pools>>
    PROVE  /\ UNCHANGED <<currentTick, liquidityDeltas>> /\ LiquidityDeltasAre(h) =>
                  LiquidityDeltasAre(h)'
           /\ UNCHANGED ticksDeltas /\ NetDeltasAre(h) => NetDeltasAre(h)'
<1>1. ASSUME UNCHANGED <<currentTick, liquidityDeltas>>, LiquidityDeltasAre(h)
      PROVE  LiquidityDeltasAre(h)'
  <2>1. PICK os : os = InOrder(LiquidityChanges)
    OBVIOUS
  <2>2. LiquidityChanges' = LiquidityChanges
    BY <1>1, ListsStay
  <2>3. os = InOrder(LiquidityChanges)'
    <3>1. InOrder(LiquidityChanges)' = ListOf(events', LiquidityChanges')
      BY DEF InOrder, ListOf
    <3>2. InOrder(LiquidityChanges) = ListOf(events, LiquidityChanges)
      BY DEF InOrder, ListOf
    <3> QED  BY <2>1, <2>2, <3>1, <3>2
  <2>4. liquidityDeltas = [k \in DOMAIN os |-> ActiveIn(h[os[k]], events[os[k]].pool)]
    BY <1>1, <2>1 DEF LiquidityDeltasAre
  <2>5. liquidityDeltas' = [k \in DOMAIN os |-> ActiveIn(h[os[k]], events'[os[k]].pool)]
    BY <1>1, <2>4
  <2> QED  BY <2>3, <2>5 DEF LiquidityDeltasAre
<1>2. ASSUME UNCHANGED ticksDeltas, NetDeltasAre(h) PROVE NetDeltasAre(h)'
  <2>1. TickDeltas' = TickDeltas
    BY ListsStay
  <2> QED  BY <1>2, <2>1 DEF NetDeltasAre
<1> QED  BY <1>1, <1>2

(* The steps of the stores.                                                *)
LEMMA MirrorStays ==
    ASSUME NEW h, NEW e, MirrorAt(h, e), phase # "apply", phase' # "apply",
           UNCHANGED <<events, tx, txEnd, builders, applied, indexer>>,
           phase' \in {"ticks", "changes"} => LiquidityDeltasAre(h)',
           phase' = "changes" => NetDeltasAre(h)'
    PROVE  MirrorAt(h, e)'
<1>1. EndsAt(e)' /\ \A i \in 1..Len(events') : events'[i].tx <= tx'
  BY DEF MirrorAt, EndsAt
<1>2. \A p \in Pool, n \in Name : Read(p, n)' = StateIn(h[e[applied']], p)[n]
  BY DEF MirrorAt, Read
<1>3. txEnd' = [t \in Txs |-> [p \in Pool |-> StateIn(h[e[t]], p)]]
  BY DEF MirrorAt
<1>4. builders' = NoBuilders /\ applied' = 0 /\ applied' \in 0..MaxTxs
  BY DEF MirrorAt
<1> QED  BY <1>1, <1>2, <1>3, <1>4 DEF MirrorAt

LEMMA StateNow == \A p : StateIn(Chain, p) = State(current, position, fee, p)
BY DEF StateIn, Chain

(* A pool of which nothing is known yet.                                   *)
LEMMA NothingIs ==
    ASSUME NEW s, NEW p \in Pool, s.cur[p] = NoTick, s.fee[p] = 0,
           \A r \in TickRange : s.pos[<<p, r>>] = 0
    PROVE  \A n \in Name : StateIn(s, p)[n] = 0
<1> SUFFICES ASSUME NEW n \in Name PROVE StateIn(s, p)[n] = 0
  OBVIOUS
<1>1. ActiveIn(s, p) = 0 /\ TickIn(s, p) = 0
  BY DEF ActiveIn, Active, TickIn
<1>2. \A t : NetLiquidity(s.pos, p, t) = 0
  BY NothingNet
<1>3. n \in {<<"liquidity">>, <<"tick">>, <<"protocol_fees">>} \/ \E t \in Boundary : n = TickName(t)
  BY TickNames
<1> QED  BY <1>1, <1>2, <1>3, StateIs

LEMMA NothingGood ==
    ASSUME NEW B PROVE AllGood(NoBuilders, B, B)
<1>1. Opened(NoEntity) = Netting!EmptyInterim
  BY DEF Opened
<1>2. Netting!EmptyInterim \in Netting!Interim
  BY DEF Netting!EmptyInterim, Netting!Interim
<1>3. \A n \in Name : /\ Netting!EmptyInterim.attributes[n] = Unset
                       /\ n \notin Netting!EmptyInterim.created
  BY DEF Netting!EmptyInterim
<1>4. ASSUME NEW before PROVE Good(NoEntity, before, before)
  BY <1>1, <1>2, <1>3 DEF Good, NameGood
<1>5. NoBuilders \in Builders /\ \A t \in Txs, p \in Pool : NoBuilders[t][p] = NoEntity
  BY DEF NoBuilders, Builders
<1> QED  BY <1>4, <1>5 DEF AllGood

LEMMA InvInit == Init => IInv
<1> SUFFICES ASSUME Init PROVE IInv
  OBVIOUS
<1>1. MaxPosition \in Nat /\ MaxEvents \in Nat /\ MaxTxs \in Nat \ {0}
  BY LiquidityBounds
<1>2. current \in [Pool -> Ticks] /\ position \in Positions /\ fee \in [Pool -> Fee \cup {0}]
  BY <1>1 DEF Init, Ticks, Positions
<1>3. TypeInv
  <2>1. events \in Seq(Event) /\ Len(events) <= MaxEvents /\ tx \in Txs
    BY <1>1 DEF Init, Txs
  <2> QED  BY <1>2, <2>1 DEF Init, TypeInv
<1>4. \A p \in Pool : current[p] = NoTick /\ \A r \in TickRange : position[<<p, r>>] = 0
  BY DEF Init
<1>5. ChainInv
  BY <1>4 DEF ChainInv
<1>6. PoolsInv
  BY DEF Init, PoolsInv, NewPools
<1>7. PICK h : h = [i \in 0..Len(events) |-> Chain]
  OBVIOUS
<1>8. Len(events) = 0 /\ h[0] = Chain
  BY <1>7 DEF Init
<1>9. History(h, events)
  <2>1. Chain \in PoolState
    BY <1>2 DEF Chain, PoolState
  <2> QED  BY <1>7, <1>8, <2>1 DEF History
<1>10. TicksStart(h)
  BY <1>1, <1>8 DEF Init, TicksStart, Chain
<1>11. LiquidityAre(Chain)
  BY <1>4 DEF Init, LiquidityAre, ActiveIn, Active, Chain
<1>12. NetsAre(Chain)
  <2> SUFFICES ASSUME NEW p \in Pool, NEW t \in Boundary
               PROVE  Worth(ticks[<<p, t>>]) = NetLiquidity(position, p, t)
    BY DEF NetsAre, Chain
  <2>1. NetLiquidity(position, p, t) = 0
    BY <1>4, NothingNet
  <2> QED  BY <2>1 DEF Init, Worth
<1>13. phase = "mine"
  BY DEF Init
<1>14. StoresAt(h)
  BY <1>8, <1>9, <1>10, <1>11, <1>12, <1>13 DEF StoresAt
<1>15. PICK e : e = [t \in 0..MaxTxs |-> 0]
  OBVIOUS
<1>16. EndsAt(e) /\ \A i \in 1..Len(events) : events[i].tx <= tx
  <2>1. \A i \in 1..Len(events) : FALSE
    BY <1>8
  <2>2. e \in [0..MaxTxs -> 0..Len(events)]
    BY <1>8, <1>15
  <2> QED  BY <2>1, <2>2 DEF EndsAt
<1>17. \A t \in 0..MaxTxs : h[e[t]] = Chain
  BY <1>8, <1>15
<1>18. txEnd = [t \in Txs |-> [p \in Pool |-> StateIn(h[e[t]], p)]]
  <2>1. \A t \in Txs : t \in 0..MaxTxs
    BY <1>1 DEF Txs
  <2>2. \A t \in Txs, p \in Pool : StateIn(h[e[t]], p) = State(current, position, fee, p)
    BY <1>17, <2>1, StateNow
  <2>3. txEnd = [t \in Txs |-> [p \in Pool |-> State(current, position, fee, p)]]
    BY DEF Init
  <2> QED  BY <2>2, <2>3
<1>19. ASSUME NEW p \in Pool, NEW n \in Name PROVE Read(p, n) = StateIn(h[e[applied]], p)[n]
  <2>1. Read(p, n) = 0
    BY DEF Init, Read
  <2>2. applied = 0 /\ 0 \in 0..MaxTxs
    BY <1>1 DEF Init
  <2>3. Chain.cur[p] = NoTick /\ Chain.fee[p] = 0 /\ \A r \in TickRange : Chain.pos[<<p, r>>] = 0
    BY <1>4 DEF Init, Chain
  <2>4. PICK s : s = Chain
    OBVIOUS
  <2>5. StateIn(s, p)[n] = 0
    BY <2>3, <2>4, NothingIs
  <2> QED  BY <1>17, <2>1, <2>2, <2>4, <2>5
<1>20. MirrorAt(h, e)
  <2>1. builders = NoBuilders /\ applied = 0 /\ applied \in 0..MaxTxs
    BY <1>1 DEF Init
  <2> QED  BY <1>13, <1>16, <1>18, <1>19, <2>1 DEF MirrorAt
<1> QED  BY <1>3, <1>5, <1>6, <1>14, <1>20 DEF IInv, StoresInv

(* An event of the chain makes the history longer.                         *)
LEMMA EmitKeeps ==
    ASSUME IInv, NEW e \in Event, Emit(e), e.tx = tx, Step(Chain, e, Chain'),
           current' \in [Pool -> Ticks], position' \in Positions,
           fee' \in [Pool -> Fee \cup {0}], created' \subseteq Pool,
           created' = created \cup (IF e.type = "PoolCreated" THEN {e.pool} ELSE {}),
           e.pool \in created', ChainInv'
    PROVE  IInv'
<1>1. /\ phase = "mine" /\ phase' = "mine" /\ Len(events) < MaxEvents
      /\ events' = Append(events, e)
      /\ UNCHANGED <<tx, pools, currentTick, liquidity, ticks, builders, applied, indexer>>
  BY DEF Emit, storeVars
<1>2. PICK n \in Nat : n = Len(events)
  BY DEF IInv, TypeInv
<1>3. /\ events \in Seq(Event) /\ events' \in Seq(Event) /\ Len(events') = n + 1
      /\ DOMAIN events = 1..n /\ DOMAIN events' = 1..(n + 1)
      /\ events'[n + 1] = e /\ \A i \in 1..n : events'[i] = events[i]
  BY <1>1, <1>2 DEF IInv, TypeInv
<1>4. TypeInv'
  <2>1. Len(events') <= MaxEvents
    BY <1>1, <1>2, <1>3, LiquidityBounds
  <2> QED  BY <1>1, <1>3, <2>1 DEF IInv, TypeInv
<1>5. PoolsInv'
  <2>1. \A i \in DOMAIN events' : i \in DOMAIN events \/ i = n + 1
    BY <1>2, <1>3
  <2>2. \A i \in DOMAIN events : i \in DOMAIN events' /\ events'[i] = events[i]
    BY <1>2, <1>3
  <2>3. n + 1 \in DOMAIN events'
    BY <1>2, <1>3
  <2>4. \A i \in DOMAIN events' : events'[i].pool \in created'
    BY <1>3, <2>1, <2>2 DEF IInv, PoolsInv
  <2>5. NewPools' = NewPools \cup (IF e.type = "PoolCreated" THEN {e.pool} ELSE {})
    BY <1>3, <2>1, <2>2, <2>3 DEF NewPools
  <2>6. created' = pools' \cup NewPools'
    BY <1>1, <2>5 DEF IInv, PoolsInv
  <2> QED  BY <1>1, <2>4, <2>6 DEF PoolsInv
<1>6. StoresInv'
  <2>1. PICK h, ends : StoresAt(h) /\ MirrorAt(h, ends)
    BY DEF IInv, StoresInv
  <2>2. History(h, events) /\ h[n] = Chain
    BY <1>2, <2>1 DEF StoresAt
  <2>3. PICK u \in PoolState : u = Chain'
    BY DEF PoolState, Chain
  <2>4. PICK k : k = [i \in 0..(n + 1) |-> IF i <= n THEN h[i] ELSE u]
    OBVIOUS
  <2>5. k[n + 1] = u /\ \A i \in 0..n : k[i] = h[i]
    BY <1>2, <2>4
  <2>6. History(k, events')
    <3>1. \A i \in 0..(n + 1) : i \in 0..n \/ i = n + 1
      BY <1>2
    <3>2. \A i \in 0..n : h[i] \in PoolState
      BY <1>2, <2>2 DEF History
    <3>3. k \in [0..Len(events') -> PoolState]
      BY <1>3, <2>4, <2>5, <3>1, <3>2
    <3>4. ASSUME NEW i \in 1..n PROVE Step(k[i - 1], events'[i], k[i])
      <4>1. i - 1 \in 0..n /\ i \in 0..n
        BY <1>2
      <4>2. Step(h[i - 1], events[i], h[i])
        BY <1>2, <2>2 DEF History
      <4> QED  BY <1>3, <2>5, <4>1, <4>2
    <3>5. Step(k[(n + 1) - 1], events'[n + 1], k[n + 1])
      <4>1. (n + 1) - 1 = n /\ n \in 0..n
        BY <1>2
      <4>2. Step(Chain, e, u)
        BY <2>3
      <4> QED  BY <1>3, <2>2, <2>5, <4>1, <4>2
    <3>6. \A i \in 1..(n + 1) : i \in 1..n \/ i = n + 1
      BY <1>2
    <3> QED  BY <1>3, <3>3, <3>4, <3>5, <3>6 DEF History
  <2>7. k[0] = h[0] /\ k[Len(events')] = Chain'
    BY <1>2, <1>3, <2>3, <2>5
  <2>8. TicksStart(h) /\ LiquidityAre(h[0]) /\ NetsAre(h[0])
    BY <1>1, <2>1 DEF StoresAt
  <2>9. TicksStart(k)' /\ LiquidityAre(k[0])' /\ NetsAre(k[0])'
    BY <1>1, <2>7, <2>8 DEF TicksStart, LiquidityAre, NetsAre
  <2>10. StoresAt(k)'
    BY <1>1, <2>6, <2>7, <2>9 DEF StoresAt
  <2>11. PICK next : next = [t \in 0..MaxTxs |-> IF t < tx THEN ends[t] ELSE n + 1]
    OBVIOUS
  <2>12. EndsAt(ends) /\ \A i \in 1..n : events[i].tx <= tx /\ events[i].tx \in Int
    <3>1. \A i \in 1..n : events[i].tx \in Txs
      BY <1>3, EventTypes
    <3> QED  BY <1>2, <2>1, <3>1 DEF MirrorAt, Txs
  <2>13. MaxTxs \in Nat \ {0} /\ tx \in 1..MaxTxs
    BY LiquidityBounds DEF IInv, TypeInv, Txs
  <2>14. EndsAt(next)'
    <3>1. ends \in [0..MaxTxs -> 0..n]
      BY <1>2, <2>12 DEF EndsAt
    <3>2. next \in [0..MaxTxs -> 0..n + 1]
      BY <1>2, <2>11, <2>13, <3>1
    <3>3. ASSUME NEW t \in 0..MaxTxs, NEW i \in 1..n + 1
          PROVE  events'[i].tx <= t <=> i <= next[t]
      <4>1. t \in Int /\ tx \in Int /\ i \in Int /\ ends[t] \in 0..n
        BY <2>13, <3>1
      <4>2. CASE i \in 1..n
        <5>1. /\ events'[i].tx = events[i].tx /\ events[i].tx <= tx /\ events[i].tx \in Int
              /\ events[i].tx <= t <=> i <= ends[t]
          BY <1>2, <1>3, <2>12, <4>2 DEF EndsAt
        <5> QED  BY <1>2, <2>11, <4>1, <4>2, <5>1
      <4>3. CASE i \notin 1..n
        <5>1. i = n + 1
          BY <1>2, <4>3
        <5>2. events'[i].tx = tx
          BY <1>3, <5>1
        <5> QED  BY <1>2, <2>11, <4>1, <5>1, <5>2
      <4> QED  BY <4>2, <4>3
    <3> QED  BY <1>3, <3>2, <3>3 DEF EndsAt
  <2>15. \A i \in 1..Len(events') : events'[i].tx <= tx'
    <3>1. \A i \in 1..n + 1 : i \in 1..n \/ i = n + 1
      BY <1>2
    <3>2. tx \in Int
      BY <2>13
    <3> QED  BY <1>1, <1>3, <2>12, <3>1, <3>2
  <2>16. txEnd' = [t \in Txs |-> [p \in Pool |-> StateIn(k[next[t]], p)]]
    <3>1. txEnd' = [t \in Txs |-> IF t < tx THEN txEnd[t]
                                  ELSE [q \in Pool |-> State(current', position', fee', q)]]
      BY DEF Emit
    <3>2. txEnd = [t \in Txs |-> [p \in Pool |-> StateIn(h[ends[t]], p)]]
      BY <2>1 DEF MirrorAt
    <3>3. ASSUME NEW t \in Txs
          PROVE  (IF t < tx THEN txEnd[t]
                  ELSE [q \in Pool |-> State(current', position', fee', q)])
                     = [p \in Pool |-> StateIn(k[next[t]], p)]
      <4>1. t \in 0..MaxTxs
        BY <2>13 DEF Txs
      <4>2. CASE t < tx
        <5>1. next[t] = ends[t] /\ ends[t] \in 0..n
          BY <1>2, <2>11, <2>12, <4>1, <4>2 DEF EndsAt
        <5>2. k[next[t]] = h[ends[t]]
          BY <2>5, <5>1
        <5> QED  BY <3>2, <4>2, <5>2
      <4>3. CASE ~(t < tx)
        <5>1. k[next[t]] = Chain'
          BY <2>3, <2>5, <2>11, <4>1, <4>3
        <5>2. \A q : StateIn(k[next[t]], q) = State(current', position', fee', q)
          BY <5>1 DEF StateIn, Chain
        <5> QED  BY <4>3, <5>2
      <4> QED  BY <4>2, <4>3
    <3> QED  BY <3>1, <3>3
  <2>17. builders' = NoBuilders /\ applied' = 0 /\ applied' \in 0..MaxTxs /\ applied = 0
    BY <1>1, <2>1 DEF MirrorAt
  <2>18. \A p \in Pool, m \in Name : Read(p, m)' = StateIn(k[next[applied']], p)[m]
    <3>1. 0 \in 0..MaxTxs /\ 0 < tx
      BY <2>13
    <3>2. next[0] = ends[0] /\ ends[0] \in 0..n
      BY <1>2, <2>11, <2>12, <3>1 DEF EndsAt
    <3>3. k[next[0]] = h[ends[0]]
      BY <2>5, <3>2
    <3>4. \A p \in Pool, m \in Name : Read(p, m) = StateIn(h[ends[0]], p)[m]
      BY <2>1, <2>17 DEF MirrorAt
    <3> QED  BY <1>1, <2>17, <3>3, <3>4 DEF Read
  <2>19. MirrorAt(k, next)'
    BY <1>1, <2>14, <2>15, <2>16, <2>17, <2>18 DEF MirrorAt
  <2> QED  BY <2>10, <2>19 DEF StoresInv
<1> QED  BY <1>4, <1>5, <1>6 DEF IInv

-----------------------------------------------------------------------------
(* The events of the pools                                                 *)

LEMMA CreatePoolKeeps == ASSUME IInv, NEW p \in Pool, CreatePool(p) PROVE IInv'
<1>1. PICK e \in Event : e = [type |-> "PoolCreated", pool |-> p, tx |-> tx]
  BY DEF IInv, TypeInv, Event
<1>2. Emit(e) /\ e.type = "PoolCreated" /\ e.pool = p /\ e.tx = tx
  BY <1>1 DEF CreatePool
<1>3. Step(Chain, e, Chain')
  BY <1>2 DEF CreatePool, Step, Chain, IInv, ChainInv
<1>4. ChainInv'
  BY DEF CreatePool, IInv, ChainInv
<1> QED  BY <1>2, <1>3, <1>4, EmitKeeps DEF CreatePool, IInv, TypeInv

LEMMA SetFeeProtocolKeeps ==
    ASSUME IInv, NEW p \in Pool, NEW f \in Fee, SetFeeProtocol(p, f) PROVE IInv'
<1>1. PICK e \in Event : e = [type |-> "SetFeeProtocol", pool |-> p, tx |-> tx, fee |-> f]
  BY DEF IInv, TypeInv, Event
<1>2. Emit(e) /\ e.type = "SetFeeProtocol" /\ e.pool = p /\ e.tx = tx /\ e.fee = f
  BY <1>1 DEF SetFeeProtocol
<1>3. Step(Chain, e, Chain')
  BY <1>2 DEF SetFeeProtocol, Step, Chain
<1>4. ChainInv' /\ p \in created
  BY DEF SetFeeProtocol, IInv, ChainInv
<1> QED  BY <1>2, <1>3, <1>4, EmitKeeps DEF SetFeeProtocol, IInv, TypeInv

LEMMA TicksAreInts == NoTick \notin Tick
BY LiquidityBounds

LEMMA InitializeKeeps ==
    ASSUME IInv, NEW p \in Pool, NEW t \in Tick, Initialize(p, t) PROVE IInv'
<1>1. PICK e \in Event : e = [type |-> "Initialize", pool |-> p, tx |-> tx, tick |-> t]
  BY DEF IInv, TypeInv, Event
<1>2. Emit(e) /\ e.type = "Initialize" /\ e.pool = p /\ e.tx = tx /\ e.tick = t
  BY <1>1 DEF Initialize
<1>3. Step(Chain, e, Chain')
  BY <1>2 DEF Initialize, IInv, ChainInv, Step, TickSet, Chain
<1>4. current \in [Pool -> Ticks] /\ current' \in [Pool -> Ticks]
  BY DEF Initialize, IInv, TypeInv, Ticks
<1>5. ChainInv'
  BY <1>4, TicksAreInts DEF Initialize, IInv, ChainInv
<1> QED  BY <1>2, <1>3, <1>4, <1>5, EmitKeeps DEF Initialize, IInv, TypeInv

LEMMA SwapKeeps ==
    ASSUME IInv, NEW p \in Pool, NEW t \in Tick, Swap(p, t) PROVE IInv'
<1>1. Active(position, p, t) \in Int
  BY ActiveType DEF IInv, TypeInv
<1>2. PICK e \in Event : e = [type |-> "Swap", pool |-> p, tx |-> tx, tick |-> t,
                              liquidity |-> Active(position, p, t)]
  BY <1>1 DEF IInv, TypeInv, Event
<1>3. /\ Emit(e) /\ e.type = "Swap" /\ e.pool = p /\ e.tx = tx /\ e.tick = t
      /\ e.liquidity = Active(position, p, t)
  BY <1>2 DEF Swap
<1>4. Step(Chain, e, Chain')
  BY <1>3 DEF Swap, Step, TickSet, Chain
<1>5. current \in [Pool -> Ticks] /\ current' \in [Pool -> Ticks]
  BY DEF Swap, IInv, TypeInv, Ticks
<1>6. ChainInv' /\ p \in created
  BY <1>5, TicksAreInts DEF Swap, IInv, ChainInv
<1> QED  BY <1>3, <1>4, <1>5, <1>6, EmitKeeps DEF Swap, IInv, TypeInv

LEMMA MintKeeps ==
    ASSUME IInv, NEW p \in Pool, NEW r \in TickRange, NEW amount \in 1..MaxPosition,
           Mint(p, r, amount)
    PROVE  IInv'
<1>1. MaxPosition \in Nat /\ amount \in 0..MaxPosition
  BY LiquidityBounds
<1>2. PICK e \in Event : e = [type |-> "Mint", pool |-> p, tx |-> tx, range |-> r, amount |-> amount]
  BY <1>1 DEF IInv, TypeInv, Event
<1>3. Emit(e) /\ e.type = "Mint" /\ e.pool = p /\ e.tx = tx /\ e.range = r /\ SignedAmount(e) = amount
  BY <1>2 DEF Mint, SignedAmount
<1>4. position \in Positions /\ position' \in Positions
  <2>1. <<p, r>> \in Pool \X TickRange /\ position \in [Pool \X TickRange -> 0..MaxPosition]
    BY DEF IInv, TypeInv, Positions
  <2>2. position[<<p, r>>] + amount \in 0..MaxPosition
    BY <1>1, <2>1 DEF Mint
  <2> QED  BY <2>1, <2>2 DEF Mint, Positions
<1>5. Moved(position, position', p, r, amount)
  BY <1>4, ExceptMoves DEF Mint
<1>6. Step(Chain, e, Chain')
  BY <1>3, <1>5 DEF Mint, Step, Chain
<1>7. ChainInv' /\ p \in created
  BY <1>5 DEF Mint, IInv, ChainInv, Moved
<1> QED  BY <1>3, <1>4, <1>6, <1>7, EmitKeeps DEF Mint, IInv, TypeInv

LEMMA BurnKeeps ==
    ASSUME IInv, NEW p \in Pool, NEW r \in TickRange, NEW amount \in 0..MaxPosition,
           Burn(p, r, amount)
    PROVE  IInv'
<1>1. MaxPosition \in Nat
  BY LiquidityBounds
<1>2. PICK e \in Event : e = [type |-> "Burn", pool |-> p, tx |-> tx, range |-> r, amount |-> amount]
  BY DEF IInv, TypeInv, Event
<1>3. Emit(e) /\ e.type = "Burn" /\ e.pool = p /\ e.tx = tx /\ e.range = r /\ SignedAmount(e) = -amount
  BY <1>2 DEF Burn, SignedAmount
<1>4. /\ position \in Positions /\ position' \in Positions
      /\ position' = [position EXCEPT ![<<p, r>>] = @ + (-amount)]
  <2>1. <<p, r>> \in Pool \X TickRange /\ position \in [Pool \X TickRange -> 0..MaxPosition]
    BY DEF IInv, TypeInv, Positions
  <2>2. /\ position[<<p, r>>] - amount \in 0..MaxPosition
        /\ position[<<p, r>>] - amount = position[<<p, r>>] + (-amount)
    BY <1>1, <2>1 DEF Burn
  <2> QED  BY <2>1, <2>2 DEF Burn, Positions
<1>5. Moved(position, position', p, r, -amount)
  BY <1>4, ExceptMoves
<1>6. current[p] # NoTick
  BY DEF Burn, IInv, ChainInv
<1>7. Step(Chain, e, Chain')
  BY <1>3, <1>5, <1>6 DEF Burn, Step, Chain
<1>8. ChainInv' /\ p \in created
  BY <1>5, <1>6 DEF Burn, IInv, ChainInv, Moved
<1> QED  BY <1>3, <1>4, <1>7, <1>8, EmitKeeps DEF Burn, IInv, TypeInv

-----------------------------------------------------------------------------
(* The stores of a block                                                   *)

LEMMA KnownNow == IInv /\ phase # "mine" => AllKnown
BY DEF IInv, PoolsInv

LEMMA StorePoolsKeeps == ASSUME IInv, StorePools PROVE IInv'
<1>1. /\ phase = "mine" /\ phase' = "current_tick" /\ UNCHANGED chainVars
      /\ UNCHANGED <<currentTick, liquidity, ticks, builders, applied, indexer>>
      /\ pools' = pools \cup NewPools
  BY DEF StorePools, NewPools
<1>2. UNCHANGED <<events, tx, txEnd, created, current, position, fee>>
  BY <1>1 DEF chainVars
<1>3. pools' = created
  BY <1>1 DEF IInv, PoolsInv
<1>4. TypeInv' /\ ChainInv'
  BY <1>1, <1>2, <1>3 DEF IInv, TypeInv, ChainInv
<1>5. PoolsInv'
  BY <1>1, <1>2, <1>3 DEF IInv, PoolsInv, AllKnown
<1>6. StoresInv'
  <2>1. PICK h, e : StoresAt(h) /\ MirrorAt(h, e)
    BY DEF IInv, StoresInv
  <2>2. StoresAt(h)'
    BY <1>1, <1>2, <2>1 DEF StoresAt, Chain, TicksStart, LiquidityAre, NetsAre
  <2>3. MirrorAt(h, e)'
    BY <1>1, <1>2, <2>1, MirrorStays
  <2> QED  BY <2>2, <2>3 DEF StoresInv
<1> QED  BY <1>4, <1>5, <1>6 DEF IInv

LEMMA StorePoolCurrentTickKeeps == ASSUME IInv, StorePoolCurrentTick PROVE IInv'
<1>1. /\ phase = "current_tick" /\ phase' = "liquidity"
      /\ UNCHANGED <<events, tx, txEnd, created, current, position, fee, pools, liquidity, ticks>>
      /\ UNCHANGED <<builders, applied, indexer>>
      /\ currentTick' = [p \in Pool |-> TicksAt(p)]
  BY DEF StorePoolCurrentTick, chainVars
<1>2. TypeInv' /\ ChainInv' /\ PoolsInv'
  BY <1>1 DEF IInv, TypeInv, ChainInv, PoolsInv, AllKnown
<1>3. PICK h, e : StoresAt(h) /\ MirrorAt(h, e)
  BY DEF IInv, StoresInv
<1>4. TicksKnown(h)'
  <2> SUFFICES ASSUME NEW p \in Pool, NEW o \in 0..MaxEvents
               PROVE  TicksAt(p)[o] = After(h, o).cur[p]
    BY <1>1 DEF TicksKnown, After
  <2>1. currentTick[p][0] = h[0].cur[p] /\ History(h, events)
    BY <1>1, <1>3 DEF StoresAt, TicksStart
  <2> QED  BY <1>1, <2>1, TicksFollow, KnownNow DEF IInv, TypeInv
<1>5. StoresAt(h)'
  BY <1>1, <1>3, <1>4 DEF StoresAt, Chain, LiquidityAre, NetsAre
<1>6. MirrorAt(h, e)'
  BY <1>1, <1>3, MirrorStays
<1> QED  BY <1>2, <1>5, <1>6 DEF IInv, StoresInv

LEMMA StoreLiquidityKeeps == ASSUME IInv, StoreLiquidity PROVE IInv'
<1>1. /\ phase = "liquidity" /\ phase' = "ticks"
      /\ UNCHANGED <<events, tx, txEnd, created, current, position, fee, pools, currentTick, ticks>>
      /\ UNCHANGED <<builders, applied, indexer>>
      /\ liquidity' = [p \in Pool |-> LiquidityAt(p)[Len(events)]]
  BY DEF StoreLiquidity, chainVars
<1>2. TypeInv' /\ ChainInv' /\ PoolsInv'
  BY <1>1 DEF IInv, TypeInv, ChainInv, PoolsInv, AllKnown
<1>3. PICK h, e : StoresAt(h) /\ MirrorAt(h, e)
  BY DEF IInv, StoresInv
<1>4. LiquidityAre(Chain)'
  <2> SUFFICES ASSUME NEW p \in Pool PROVE LiquidityAt(p)[Len(events)] = ActiveIn(Chain, p)
    BY <1>1 DEF LiquidityAre, Chain
  <2>1. /\ History(h, events) /\ TicksKnown(h) /\ liquidity[p] = ActiveIn(h[0], p)
        /\ h[Len(events)] = Chain
    BY <1>1, <1>3 DEF StoresAt, LiquidityAre
  <2>2. LiquidityAt(p)[Len(events)] = ActiveIn(h[Len(events)], p)
    <3>1. \A o \in 0..Len(events) : LiquidityAt(p)[o] = ActiveIn(h[o], p)
      BY <1>1, <2>1, LiquidityFollows, KnownNow DEF IInv, TypeInv
    <3>2. Len(events) \in 0..Len(events)
      BY DEF IInv, TypeInv
    <3> QED  BY <3>1, <3>2
  <2> QED  BY <2>1, <2>2
<1>5. StoresAt(h)'
  BY <1>1, <1>3, <1>4 DEF StoresAt, Chain, TicksKnown, After, NetsAre
<1>6. LiquidityDeltasAre(h)'
  <2>1. PICK os : os = InOrder(LiquidityChanges)
    OBVIOUS
  <2>2. os = InOrder(LiquidityChanges)'
    <3>1. LiquidityChanges' = LiquidityChanges
      BY <1>1, ListsStay
    <3>2. InOrder(LiquidityChanges) = ListOf(events, LiquidityChanges)
      BY DEF InOrder, ListOf
    <3>3. InOrder(LiquidityChanges)' = ListOf(events', LiquidityChanges')
      BY DEF InOrder, ListOf
    <3> QED  BY <1>1, <2>1, <3>1, <3>2, <3>3
  <2>3. events \in Seq(Event) /\ Len(events) \in Nat /\ LiquidityChanges \subseteq 1..Len(events)
    BY PoolEventsIn DEF IInv, TypeInv, LiquidityChanges
  <2>4. \A k \in DOMAIN os : os[k] \in 1..Len(events)
    <3>1. os \in Seq(LiquidityChanges)
      BY <2>1, <2>3, InOrderLists
    <3>2. \A k \in DOMAIN os : os[k] \in LiquidityChanges
      BY <3>1
    <3> QED  BY <2>3, <3>2
  <2>5. ASSUME NEW k \in DOMAIN os
        PROVE  LiquidityAt(events[os[k]].pool)[os[k]] = ActiveIn(h[os[k]], events[os[k]].pool)
    <3>1. PICK o : o = os[k]
      OBVIOUS
    <3>2. o \in 1..Len(events) /\ o \in 0..Len(events)
      BY <2>3, <2>4, <3>1
    <3>3. PICK p \in Pool : p = events[o].pool
      BY <2>3, <3>2, EventTypes
    <3>4. History(h, events) /\ TicksKnown(h) /\ liquidity[p] = ActiveIn(h[0], p)
      BY <1>1, <1>3 DEF StoresAt, LiquidityAre
    <3>5. \A i \in 0..Len(events) : LiquidityAt(p)[i] = ActiveIn(h[i], p)
      BY <1>1, <3>4, LiquidityFollows, KnownNow DEF IInv, TypeInv
    <3> QED  BY <3>1, <3>2, <3>3, <3>5
  <2>6. liquidityDeltas' = [k \in DOMAIN os |-> LiquidityAt(events[os[k]].pool)[os[k]]]
    BY <2>1 DEF StoreLiquidity
  <2>7. liquidityDeltas' = [k \in DOMAIN os |-> ActiveIn(h[os[k]], events'[os[k]].pool)]
    BY <1>1, <2>5, <2>6
  <2> QED  BY <2>2, <2>7 DEF LiquidityDeltasAre
<1>7. MirrorAt(h, e)'
  BY <1>1, <1>3, <1>6, MirrorStays
<1> QED  BY <1>2, <1>5, <1>7 DEF IInv, StoresInv

LEMMA StoreTicksLiquidityKeeps == ASSUME IInv, StoreTicksLiquidity PROVE IInv'
<1>1. /\ phase = "ticks" /\ phase' = "changes"
      /\ UNCHANGED <<events, tx, txEnd, created, current, position, fee, pools, currentTick>>
      /\ UNCHANGED <<liquidity, liquidityDeltas, builders, applied, indexer>>
      /\ ticks' = [pt \in Pool \X Boundary |-> NetAt(pt[1], pt[2])[Len(events)]]
  BY DEF StoreTicksLiquidity, chainVars
<1>2. PICK h, e : StoresAt(h) /\ MirrorAt(h, e)
  BY DEF IInv, StoresInv
<1>3. ASSUME NEW p \in Pool, NEW t \in Boundary
      PROVE  /\ NetAt(p, t)[Len(events)] \in Int \cup {NoLiquidity}
             /\ Worth(NetAt(p, t)[Len(events)]) = NetLiquidity(position, p, t)
  <2>1. /\ History(h, events) /\ h[Len(events)] = Chain
        /\ Worth(ticks[<<p, t>>]) = NetLiquidity(h[0].pos, p, t)
    BY <1>1, <1>2 DEF StoresAt, NetsAre
  <2>2. ticks[<<p, t>>] \in Int \cup {NoLiquidity}
    <3>1. <<p, t>> \in Pool \X Boundary
      OBVIOUS
    <3> QED  BY <3>1 DEF IInv, TypeInv
  <2>3. /\ NetAt(p, t)[Len(events)] \in Int \cup {NoLiquidity}
        /\ Worth(NetAt(p, t)[Len(events)]) = NetLiquidity(h[Len(events)].pos, p, t)
    <3>1. \A o \in 0..Len(events) :
              /\ NetAt(p, t)[o] \in Int \cup {NoLiquidity}
              /\ Worth(NetAt(p, t)[o]) = NetLiquidity(h[o].pos, p, t)
      BY <1>1, <2>1, <2>2, NetsFollow, KnownNow DEF IInv, TypeInv
    <3>2. Len(events) \in 0..Len(events)
      BY DEF IInv, TypeInv
    <3> QED  BY <3>1, <3>2
  <2> QED  BY <2>1, <2>3 DEF Chain
<1>4. TypeInv'
  <2>1. ticks' \in [Pool \X Boundary -> Int \cup {NoLiquidity}]
    <3> SUFFICES ASSUME NEW pt \in Pool \X Boundary
                 PROVE  NetAt(pt[1], pt[2])[Len(events)] \in Int \cup {NoLiquidity}
      BY <1>1
    <3>1. pt[1] \in Pool /\ pt[2] \in Boundary
      OBVIOUS
    <3> QED  BY <1>3, <3>1
  <2> QED  BY <1>1, <2>1 DEF IInv, TypeInv
<1>5. ChainInv' /\ PoolsInv'
  BY <1>1 DEF IInv, ChainInv, PoolsInv, AllKnown
<1>6. NetsAre(Chain)'
  <2> SUFFICES ASSUME NEW p \in Pool, NEW t \in Boundary
               PROVE  Worth(ticks'[<<p, t>>]) = NetLiquidity(position, p, t)
    BY <1>1 DEF NetsAre, Chain
  <2>1. ticks'[<<p, t>>] = NetAt(p, t)[Len(events)]
    BY <1>1
  <2> QED  BY <1>3, <2>1
<1>7. StoresAt(h)'
  BY <1>1, <1>2, <1>6 DEF StoresAt, Chain, TicksKnown, After, LiquidityAre
<1>8. LiquidityDeltasAre(h)'
  BY <1>1, <1>2, DeltasStay DEF MirrorAt
<1>9. NetDeltasAre(h)'
  <2>1. events \in Seq(Event) /\ Len(events) \in Nat /\ AllKnown /\ TickDeltas' = TickDeltas
    BY <1>1, ListsStay, KnownNow DEF IInv, TypeInv
  <2> SUFFICES ASSUME NEW k \in DOMAIN TickDeltas
               PROVE  LET d == TickDeltas[k]
                      IN  /\ Worth(ticksDeltas'[k].old) = NetLiquidity(h[d.ordinal - 1].pos, d.pool, d.tick)
                          /\ ticksDeltas'[k].new = NetLiquidity(h[d.ordinal].pos, d.pool, d.tick)
    BY <2>1 DEF NetDeltasAre
  <2>2. PICK o \in 1..Len(events), t \in Boundary :
            TickDeltas[k] = DeltaOf(o, t) /\ Touches(events[o].pool, t, o)
    BY <2>1, DeltasList
  <2>3. PICK d, i, j : d = TickDeltas[k] /\ i = o - 1 /\ j = o
    OBVIOUS
  <2>4. PICK p \in Pool : p = events[o].pool
    BY <2>1, EventTypes
  <2>5. d.ordinal = j /\ d.ordinal - 1 = i /\ d.pool = p /\ d.tick = t
    BY <2>2, <2>3, <2>4 DEF DeltaOf
  <2>6. i \in 0..Len(events) /\ j \in 0..Len(events) /\ j # 0
    BY <2>1, <2>3
  <2>7. History(h, events) /\ Worth(ticks[<<p, t>>]) = NetLiquidity(h[0].pos, p, t)
    BY <1>1, <1>2 DEF StoresAt, NetsAre
  <2>8. ticks[<<p, t>>] \in Int \cup {NoLiquidity}
    <3>1. <<p, t>> \in Pool \X Boundary
      OBVIOUS
    <3> QED  BY <3>1 DEF IInv, TypeInv
  <2>9. PICK net : net = NetAt(p, t)
    OBVIOUS
  <2>10. \A m \in 0..Len(events) :
             /\ Worth(net[m]) = NetLiquidity(h[m].pos, p, t)
             /\ m # 0 /\ Touches(p, t, m) => net[m] \in Int
    BY <2>1, <2>7, <2>8, <2>9, NetsFollow
  <2>11. ticksDeltas'[k].old = net[i] /\ ticksDeltas'[k].new = net[j]
    <3>1. ticksDeltas'[k] = [old |-> NetAt(d.pool, d.tick)[d.ordinal - 1],
                             new |-> NetAt(d.pool, d.tick)[d.ordinal]]
      BY <2>3 DEF StoreTicksLiquidity
    <3> QED  BY <2>5, <2>9, <3>1
  <2>12. net[j] = NetLiquidity(h[j].pos, p, t)
    <3>1. Touches(p, t, j)
      BY <2>2, <2>3, <2>4
    <3>2. net[j] \in Int
      BY <2>6, <2>10, <3>1
    <3>3. Worth(net[j]) = net[j]
      BY <3>2, LiquidityBounds DEF Worth
    <3> QED  BY <2>6, <2>10, <3>3
  <2>13. Worth(net[i]) = NetLiquidity(h[i].pos, p, t)
    BY <2>6, <2>10
  <2> QED  BY <2>3, <2>5, <2>11, <2>12, <2>13
<1>10. MirrorAt(h, e)'
  BY <1>1, <1>2, <1>8, <1>9, MirrorStays
<1> QED  BY <1>4, <1>5, <1>7, <1>10 DEF IInv, StoresInv

(* What leaves the chain and the stores alone.                             *)
LEMMA OthersKeep ==
    ASSUME IInv, UNCHANGED <<events, created, current, position, fee, pools, currentTick, liquidity, ticks>>,
           tx' \in Txs, \/ phase' = phase
                        \/ phase = "changes" /\ phase' = "apply",
           NEW h, StoresAt(h), NEW e, MirrorAt(h, e)'
    PROVE  IInv'
<1>1. TypeInv' /\ ChainInv' /\ PoolsInv'
  BY DEF IInv, TypeInv, ChainInv, PoolsInv, AllKnown, NewPools
<1>2. StoresAt(h)'
  BY DEF StoresAt, Chain, TicksStart, TicksKnown, After, LiquidityAre, NetsAre
<1> QED  BY <1>1, <1>2 DEF IInv, StoresInv

LEMMA NextTxKeeps == ASSUME IInv, NextTx PROVE IInv'
<1>1. /\ phase = "mine" /\ phase' = "mine" /\ tx < MaxTxs /\ tx' = tx + 1
      /\ UNCHANGED <<events, txEnd, created, current, position, fee, pools, currentTick>>
      /\ UNCHANGED <<liquidity, ticks, builders, applied, indexer>>
  BY DEF NextTx, storeVars
<1>2. PICK h, e : StoresAt(h) /\ MirrorAt(h, e)
  BY DEF IInv, StoresInv
<1>3. tx \in Nat /\ tx' \in Txs
  BY <1>1, LiquidityBounds DEF IInv, TypeInv, Txs
<1>4. EndsAt(e)' /\ \A i \in 1..Len(events') : events'[i].tx <= tx'
  <2>1. EndsAt(e)'
    BY <1>1, <1>2 DEF MirrorAt, EndsAt
  <2>2. ASSUME NEW i \in 1..Len(events) PROVE events[i].tx <= tx + 1
    <3>1. events[i] \in Event
      BY DEF IInv, TypeInv
    <3>2. events[i].tx \in Txs /\ events[i].tx <= tx
      BY <1>2, <3>1, EventTypes DEF MirrorAt
    <3> QED  BY <1>3, <3>2 DEF Txs
  <2> QED  BY <1>1, <2>1, <2>2
<1>5. \A p \in Pool, n \in Name : Read(p, n)' = StateIn(h[e[applied']], p)[n]
  BY <1>1, <1>2 DEF MirrorAt, Read
<1>6. /\ txEnd' = [t \in Txs |-> [p \in Pool |-> StateIn(h[e[t]], p)]]
      /\ builders' = NoBuilders /\ applied' = 0 /\ applied' \in 0..MaxTxs
  BY <1>1, <1>2 DEF MirrorAt
<1>7. MirrorAt(h, e)'
  BY <1>1, <1>4, <1>5, <1>6 DEF MirrorAt
<1> QED  BY <1>1, <1>2, <1>3, <1>7, OthersKeep

LEMMA MapProtocolChangesKeeps == ASSUME IInv, MapProtocolChanges PROVE IInv'
<1>1. /\ phase = "changes" /\ phase' = "apply"
      /\ UNCHANGED <<events, tx, txEnd, created, current, position, fee, pools, currentTick>>
      /\ UNCHANGED <<liquidity, ticks, applied, indexer>>
  BY DEF MapProtocolChanges, chainVars, storeVars
<1>2. PICK h, e : StoresAt(h) /\ MirrorAt(h, e)
  BY DEF IInv, StoresInv
<1>3. Mined(h, e)
  <2>1. History(h, events) /\ TicksKnown(h) /\ EndsAt(e)
    BY <1>1, <1>2 DEF StoresAt, MirrorAt
  <2> QED  BY <1>1, <2>1, KnownNow DEF IInv, TypeInv, Mined
<1>4. LiquidityDeltasAre(h) /\ NetDeltasAre(h) /\ builders = NoBuilders /\ applied = 0
  BY <1>1, <1>2 DEF MirrorAt
<1>5. AllGood(builders', Base(h, e), txEnd)
  <2>1. AllGood(builders, Base(h, e), Base(h, e))
    BY <1>4, NothingGood
  <2>2. txEnd = [t \in Txs |-> [p \in Pool |-> StateIn(h[e[t]], p)]]
    BY <1>2 DEF MirrorAt
  <2>3. builders' = LET creations == Collected(builders, CreationMessages)
                        netted    == Collected(creations, TickMessages)
                        active    == Collected(netted, LiquidityMessages)
                    IN  Collected(active, OtherMessages)
    BY DEF MapProtocolChanges
  <2> QED  BY <1>3, <1>4, <2>1, <2>2, <2>3, AllPasses
<1>6. EndsAt(e)' /\ \A i \in 1..Len(events') : events'[i].tx <= tx'
  BY <1>1, <1>2 DEF MirrorAt, EndsAt
<1>7. \A p \in Pool, n \in Name : Read(p, n)' = StateIn(h[e[applied']], p)[n]
  BY <1>1, <1>2 DEF MirrorAt, Read
<1>8. /\ txEnd' = [t \in Txs |-> [p \in Pool |-> StateIn(h[e[t]], p)]]
      /\ applied' \in 0..MaxTxs
  BY <1>1, <1>2 DEF MirrorAt
<1>9. MirrorAt(h, e)'
  BY <1>1, <1>5, <1>6, <1>7, <1>8 DEF MirrorAt
<1>10. tx' \in Txs
  BY <1>1 DEF IInv, TypeInv
<1> QED  BY <1>1, <1>2, <1>9, <1>10, OthersKeep

(* A good entry takes what the consumer reads to what it should read.      *)
ReadOf(value) == IF value = Absent THEN 0 ELSE value

LEMMA AppliedReads ==
    ASSUME NEW entry, NEW before, NEW now, Good(entry, before, now), NEW known, NEW n \in Name,
           ReadOf(known[n]) = before[n]
    PROVE  ReadOf(Netting!Applied(known, entry)[n]) = now[n]
<1>1. PICK attr : attr = Opened(entry).attributes[n]
  OBVIOUS
<1>2. /\ attr = Unset => now[n] = before[n]
      /\ attr # Unset => attr \in Netting!Attribute /\ now[n] = Told(attr)
  BY <1>1 DEF Good, NameGood
<1>3. CASE entry = NoEntity
  <2>1. attr = Unset
    BY <1>1, <1>3 DEF Opened, Netting!EmptyInterim
  <2>2. Netting!Applied(known, entry) = known
    BY <1>3 DEF Netting!Applied
  <2> QED  BY <1>2, <2>1, <2>2
<1>4. CASE entry # NoEntity
  <2>1. Netting!Applied(known, entry)[n] = Netting!AppliedTo(known[n], attr)
    BY <1>1, <1>4 DEF Netting!Applied, Opened
  <2>2. CASE attr = Unset
    <3>1. Netting!AppliedTo(known[n], attr) = known[n]
      BY <2>2 DEF Netting!AppliedTo
    <3> QED  BY <1>2, <2>1, <2>2, <3>1
  <2>3. CASE attr # Unset
    <3>1. attr.value \in Int /\ attr.value # Absent
      BY <1>2, <2>3, NettingAssumption DEF Netting!Attribute
    <3>2. Netting!AppliedTo(known[n], attr) = IF attr.change = "Deletion" THEN Absent ELSE attr.value
      BY <2>3 DEF Netting!AppliedTo, Netting!After
    <3> QED  BY <1>2, <2>1, <2>3, <3>1, <3>2 DEF Told, ReadOf
  <2> QED  BY <2>2, <2>3
<1> QED  BY <1>3, <1>4

(* The transaction that is applied next.                                   *)
LEMMA GoodNow ==
    ASSUME phase = "apply", applied < MaxTxs, NEW h, NEW e, MirrorAt(h, e), NEW p \in Pool
    PROVE  /\ applied + 1 \in Txs /\ applied \in Nat /\ applied + 1 \in 0..MaxTxs
           /\ Good(builders[applied + 1][p], StateIn(h[e[applied]], p), StateIn(h[e[applied + 1]], p))
<1>1. applied \in Nat /\ applied + 1 \in Txs /\ applied + 1 \in 0..MaxTxs
  BY LiquidityBounds DEF MirrorAt, Txs
<1>2. PICK t, a : t = applied + 1 /\ a = applied
  OBVIOUS
<1>3. t \in Txs /\ t - 1 = a
  BY <1>1, <1>2
<1>4. AllGood(builders, Base(h, e), txEnd)
  BY DEF MirrorAt
<1>5. Good(builders[t][p], Base(h, e)[t][p], txEnd[t][p])
  BY <1>3, <1>4 DEF AllGood
<1>6. Base(h, e)[t][p] = StateIn(h[e[a]], p)
  BY <1>3 DEF Base
<1>7. txEnd[t][p] = StateIn(h[e[t]], p)
  BY <1>3 DEF MirrorAt
<1> QED  BY <1>1, <1>2, <1>5, <1>6, <1>7

LEMMA ApplyTxKeeps == ASSUME IInv, ApplyTx PROVE IInv'
<1>1. /\ phase = "apply" /\ phase' = "apply" /\ applied < MaxTxs /\ applied' = applied + 1
      /\ UNCHANGED <<events, tx, txEnd, created, current, position, fee, pools, currentTick>>
      /\ UNCHANGED <<liquidity, ticks, builders>>
      /\ indexer' = [p \in Pool |-> Netting!Applied(indexer[p], builders[applied + 1][p])]
  BY DEF ApplyTx, chainVars, storeVars
<1>2. PICK h, e : StoresAt(h) /\ MirrorAt(h, e)
  BY DEF IInv, StoresInv
<1>3. ASSUME NEW p \in Pool, NEW n \in Name PROVE Read(p, n)' = StateIn(h[e[applied']], p)[n]
  <2>1. PICK entry, before, now, known :
            /\ entry = builders[applied + 1][p] /\ before = StateIn(h[e[applied]], p)
            /\ now = StateIn(h[e[applied + 1]], p) /\ known = indexer[p]
    OBVIOUS
  <2>2. Good(entry, before, now)
    BY <1>1, <1>2, <2>1, GoodNow
  <2>3. ReadOf(known[n]) = before[n]
    BY <1>2, <2>1 DEF MirrorAt, Read, ReadOf
  <2>4. ReadOf(Netting!Applied(known, entry)[n]) = now[n]
    BY <2>2, <2>3, AppliedReads
  <2>5. Read(p, n)' = ReadOf(Netting!Applied(known, entry)[n])
    BY <1>1, <2>1 DEF Read, ReadOf
  <2> QED  BY <1>1, <2>1, <2>4, <2>5
<1>4. EndsAt(e)' /\ \A i \in 1..Len(events') : events'[i].tx <= tx'
  BY <1>1, <1>2 DEF MirrorAt, EndsAt
<1>5. txEnd' = [t \in Txs |-> [p \in Pool |-> StateIn(h[e[t]], p)]] /\ AllGood(builders', Base(h, e), txEnd')
  BY <1>1, <1>2 DEF MirrorAt
<1>6. applied' \in 0..MaxTxs
  BY <1>1, <1>2, LiquidityBounds DEF MirrorAt
<1>7. MirrorAt(h, e)'
  BY <1>1, <1>3, <1>4, <1>5, <1>6 DEF MirrorAt
<1>8. tx' \in Txs
  BY <1>1 DEF IInv, TypeInv
<1> QED  BY <1>1, <1>2, <1>7, <1>8, OthersKeep

(* The last transaction ends with the block.                               *)
LEMMA LastEnds ==
    ASSUME events \in Seq(Event), NEW e, EndsAt(e) PROVE e[MaxTxs] = Len(events)
<1>1. MaxTxs \in 0..MaxTxs /\ MaxTxs \in Nat
  BY LiquidityBounds
<1>2. PICK n \in Nat : n = Len(events)
  OBVIOUS
<1>3. PICK m : m = e[MaxTxs]
  OBVIOUS
<1>4. m \in 0..n
  BY <1>1, <1>2, <1>3 DEF EndsAt
<1>5. ASSUME n # 0 PROVE n <= m
  <2>1. n \in 1..n /\ events[n] \in Event
    BY <1>2, <1>5
  <2>2. events[n].tx \in Txs
    BY <2>1, EventTypes
  <2>3. events[n].tx <= MaxTxs
    BY <1>1, <2>2 DEF Txs
  <2> QED  BY <1>1, <1>2, <1>3, <2>1, <2>3 DEF EndsAt
<1> QED  BY <1>2, <1>3, <1>4, <1>5

LEMMA NextBlockKeeps == ASSUME IInv, NextBlock PROVE IInv'
<1>1. /\ phase = "apply" /\ phase' = "mine" /\ events' = <<>> /\ tx' = 1
      /\ UNCHANGED <<created, current, position, fee, pools, liquidity, ticks>>
      /\ currentTick' = [p \in Pool |-> [ordinal \in 0..MaxEvents |-> currentTick[p][MaxEvents]]]
  BY DEF NextBlock
<1>2. MaxEvents \in Nat /\ 1 \in Txs
  BY LiquidityBounds DEF Txs
<1>3. TypeInv' /\ ChainInv' /\ PoolsInv'
  <2>1. events' \in Seq(Event) /\ Len(events') <= MaxEvents /\ NewPools' = {}
    BY <1>1, <1>2 DEF NewPools
  <2> QED  BY <1>1, <1>2, <2>1 DEF IInv, TypeInv, ChainInv, PoolsInv
<1>4. PICK h, e : StoresAt(h) /\ MirrorAt(h, e)
  BY DEF IInv, StoresInv
<1>5. TicksKnown(h) /\ h[Len(events)] = Chain /\ LiquidityAre(Chain) /\ NetsAre(Chain)
  BY <1>1, <1>4 DEF StoresAt
<1>6. PICK k : k = [i \in 0..0 |-> Chain]
  OBVIOUS
<1>7. k[0] = Chain /\ Chain' = Chain /\ Len(events') = 0
  BY <1>1, <1>6 DEF Chain
<1>8. History(k, events)'
  <2>1. Chain \in PoolState
    BY DEF IInv, TypeInv, Chain, PoolState
  <2> QED  BY <1>6, <1>7, <2>1 DEF History
<1>9. TicksStart(k)'
  <2> SUFFICES ASSUME NEW p \in Pool PROVE currentTick[p][MaxEvents] = Chain.cur[p]
    BY <1>1, <1>2, <1>7 DEF TicksStart
  <2>1. Len(events) \in Nat /\ Len(events) <= MaxEvents
    BY DEF IInv, TypeInv
  <2>2. After(h, MaxEvents) = Chain
    BY <1>2, <1>5, <2>1 DEF After
  <2> QED  BY <1>2, <1>5, <2>2 DEF TicksKnown
<1>10. LiquidityAre(k[0])' /\ NetsAre(k[0])'
  BY <1>1, <1>5, <1>7 DEF LiquidityAre, NetsAre
<1>11. StoresAt(k)'
  BY <1>1, <1>7, <1>8, <1>9, <1>10 DEF StoresAt
<1>12. PICK ends : ends = [t \in 0..MaxTxs |-> 0]
  OBVIOUS
<1>13. MaxTxs \in Nat \ {0} /\ applied = MaxTxs /\ MaxTxs \in Txs /\ MaxTxs \in 0..MaxTxs /\ 0 \in 0..MaxTxs
  BY LiquidityBounds DEF NextBlock, Txs
<1>14. h[e[MaxTxs]] = Chain
  BY <1>4, <1>5, LastEnds DEF IInv, TypeInv, MirrorAt
<1>15. \A t \in 0..MaxTxs : k[ends[t]] = Chain
  BY <1>7, <1>12
<1>16. EndsAt(ends)' /\ \A i \in 1..Len(events') : events'[i].tx <= tx'
  <2>1. \A i \in 1..Len(events') : FALSE
    BY <1>7
  <2>2. ends \in [0..MaxTxs -> 0..Len(events')]
    BY <1>7, <1>12
  <2> QED  BY <2>1, <2>2 DEF EndsAt
<1>17. txEnd' = [t \in Txs |-> [p \in Pool |-> StateIn(k[ends[t]], p)]]
  <2>1. txEnd[MaxTxs] = [p \in Pool |-> StateIn(Chain, p)]
    BY <1>4, <1>13, <1>14 DEF MirrorAt
  <2>2. txEnd' = [t \in Txs |-> txEnd[MaxTxs]]
    BY DEF NextBlock
  <2>3. \A t \in Txs : t \in 0..MaxTxs
    BY <1>13 DEF Txs
  <2> QED  BY <1>15, <2>1, <2>2, <2>3
<1>18. builders' = NoBuilders /\ applied' = 0 /\ applied' \in 0..MaxTxs
  BY <1>13 DEF NextBlock
<1>19. \A p \in Pool, n \in Name : Read(p, n)' = StateIn(k[ends[applied']], p)[n]
  <2>1. \A p \in Pool, n \in Name : Read(p, n) = StateIn(Chain, p)[n]
    BY <1>4, <1>13, <1>14 DEF MirrorAt
  <2>2. \A p \in Pool, n \in Name : Read(p, n)' = Read(p, n)
    BY DEF NextBlock, Read
  <2> QED  BY <1>13, <1>15, <1>18, <2>1, <2>2
<1>20. MirrorAt(k, ends)'
  BY <1>1, <1>16, <1>17, <1>18, <1>19 DEF MirrorAt
<1> QED  BY <1>3, <1>11, <1>20 DEF IInv, StoresInv

LEMMA InvNext == IInv /\ [Next]_vars => IInv'
<1> SUFFICES ASSUME IInv, [Next]_vars PROVE IInv'
  OBVIOUS
<1>1. ASSUME NEW p \in Pool, CreatePool(p) PROVE IInv'
  BY <1>1, CreatePoolKeeps
<1>2. ASSUME NEW p \in Pool, NEW t \in Tick, Initialize(p, t) \/ Swap(p, t) PROVE IInv'
  BY <1>2, InitializeKeeps, SwapKeeps
<1>3. ASSUME NEW p \in Pool, NEW r \in TickRange, NEW amount \in 1..MaxPosition, Mint(p, r, amount)
      PROVE  IInv'
  BY <1>3, MintKeeps
<1>4. ASSUME NEW p \in Pool, NEW r \in TickRange, NEW amount \in 0..MaxPosition, Burn(p, r, amount)
      PROVE  IInv'
  BY <1>4, BurnKeeps
<1>5. ASSUME NEW p \in Pool, NEW f \in Fee, SetFeeProtocol(p, f) PROVE IInv'
  BY <1>5, SetFeeProtocolKeeps
<1>6. CASE NextTx
  BY <1>6, NextTxKeeps
<1>7. CASE StorePools
  BY <1>7, StorePoolsKeeps
<1>8. CASE StorePoolCurrentTick
  BY <1>8, StorePoolCurrentTickKeeps
<1>9. CASE StoreLiquidity
  BY <1>9, StoreLiquidityKeeps
<1>10. CASE StoreTicksLiquidity
  BY <1>10, StoreTicksLiquidityKeeps
<1>11. CASE MapProtocolChanges
  BY <1>11, MapProtocolChangesKeeps
<1>12. CASE ApplyTx
  BY <1>12, ApplyTxKeeps
<1>13. CASE NextBlock
  BY <1>13, NextBlockKeeps
<1>14. CASE UNCHANGED vars
  <2>1. UNCHANGED <<chainVars, storeVars, phase, builders, applied, indexer>>
    BY <1>14 DEF vars
  <2>2. /\ UNCHANGED <<events, tx, txEnd, created, current, position, fee, pools, currentTick>>
        /\ UNCHANGED <<liquidity, liquidityDeltas, ticks, ticksDeltas, phase, builders, applied, indexer>>
    BY <2>1 DEF chainVars, storeVars
  <2>3. PICK h, e : StoresAt(h) /\ MirrorAt(h, e)
    BY DEF IInv, StoresInv
  <2>4. EndsAt(e)' /\ \A i \in 1..Len(events') : events'[i].tx <= tx'
    BY <2>2, <2>3 DEF MirrorAt, EndsAt
  <2>5. \A p \in Pool, n \in Name : Read(p, n)' = StateIn(h[e[applied']], p)[n]
    BY <2>2, <2>3 DEF MirrorAt, Read
  <2>6. /\ phase' \in {"ticks", "changes"} => LiquidityDeltasAre(h)'
        /\ phase' = "changes" => NetDeltasAre(h)'
    BY <2>2, <2>3, DeltasStay DEF MirrorAt
  <2>7. MirrorAt(h, e)'
    BY <2>2, <2>3, <2>4, <2>5, <2>6 DEF MirrorAt
  <2>8. tx' \in Txs
    BY <2>2 DEF IInv, TypeInv
  <2> QED  BY <2>2, <2>3, <2>7, <2>8, OthersKeep
<1> QED  BY <1>1, <1>2, <1>3, <1>4, <1>5, <1>6, <1>7, <1>8, <1>9, <1>10, <1>11, <1>12, <1>13, <1>14
         DEF Next

LEMMA InvStores == IInv => StoresExact
<1> SUFFICES ASSUME IInv, phase = "mine", events = <<>>, NEW p \in Pool
             PROVE  /\ liquidity[p] = Active(position, p, current[p])
                    /\ currentTick[p][0] = current[p]
                    /\ pools = created
                    /\ \A t \in Boundary : Worth(ticks[<<p, t>>]) = NetLiquidity(position, p, t)
  BY DEF StoresExact, Worth
<1>1. PICK h : StoresAt(h)
  BY DEF IInv, StoresInv
<1>2. h[0] = Chain
  BY <1>1 DEF StoresAt
<1>3. TicksStart(h) /\ LiquidityAre(Chain) /\ NetsAre(Chain)
  BY <1>1, <1>2 DEF StoresAt
<1>4. pools = created
  <2>1. DOMAIN events = {}
    OBVIOUS
  <2>2. NewPools = {}
    BY <2>1 DEF NewPools
  <2> QED  BY <2>2 DEF IInv, PoolsInv
<1> QED  BY <1>2, <1>3, <1>4 DEF TicksStart, LiquidityAre, NetsAre, ActiveIn, Chain

LEMMA InvMirrored == IInv => MirroredPerTransaction
<1> SUFFICES ASSUME IInv, UpToDate, NEW p \in Pool, NEW n \in Name
             PROVE  Read(p, n) = Reached[p][n]
  BY DEF MirroredPerTransaction
<1>1. PICK h, e : StoresAt(h) /\ MirrorAt(h, e)
  BY DEF IInv, StoresInv
<1>2. Read(p, n) = StateIn(h[e[applied]], p)[n]
  BY <1>1 DEF MirrorAt
<1>3. \A t \in Txs : txEnd[t][p] = StateIn(h[e[t]], p)
  BY <1>1 DEF MirrorAt
<1>4. MaxTxs \in Nat \ {0}
  BY LiquidityBounds
<1>5. CASE phase = "apply" /\ applied > 0
  <2>1. applied \in Txs
    BY <1>1, <1>4, <1>5 DEF MirrorAt, Txs
  <2> QED  BY <1>2, <1>3, <1>5, <2>1 DEF Reached
<1>6. CASE phase = "mine" /\ events = <<>>
  <2>1. applied = 0 /\ 1 \in Txs /\ 0 \in 0..MaxTxs /\ 1 \in 0..MaxTxs
    BY <1>1, <1>4, <1>6 DEF MirrorAt, Txs
  <2>2. e[0] = 0 /\ e[1] = 0
    <3>1. Len(events) = 0
      BY <1>6
    <3>2. e \in [0..MaxTxs -> 0..0]
      BY <1>1, <3>1 DEF MirrorAt, EndsAt
    <3> QED  BY <2>1, <3>2
  <2>3. Reached = txEnd[1]
    BY <1>6 DEF Reached
  <2> QED  BY <1>2, <1>3, <2>1, <2>2, <2>3
<1> QED  BY <1>5, <1>6 DEF UpToDate

LEMMA InvDeletes == IInv => DeletesHeldTicksOnly
<1> SUFFICES ASSUME IInv, phase = "apply", applied < MaxTxs, NEW p \in Pool,
                    builders[applied + 1][p] # NoEntity, NEW t \in Boundary,
                    builders[applied + 1][p].attributes[TickName(t)] # Unset,
                    builders[applied + 1][p].attributes[TickName(t)].change = "Deletion"
             PROVE  indexer[p][TickName(t)] # Absent
  BY DEF DeletesHeldTicksOnly
<1>1. PICK h, e : StoresAt(h) /\ MirrorAt(h, e)
  BY DEF IInv, StoresInv
<1>2. PICK entry, before, now, n :
          /\ entry = builders[applied + 1][p] /\ before = StateIn(h[e[applied]], p)
          /\ now = StateIn(h[e[applied + 1]], p) /\ n = TickName(t)
  OBVIOUS
<1>3. Good(entry, before, now)
  BY <1>1, <1>2, GoodNow
<1>4. n \in Name /\ Opened(entry) = entry
  BY <1>2, TickNames DEF Opened
<1>5. before[n] # 0
  <2>1. NameGood(entry.attributes[n], n \in entry.created, n, before[n], now[n])
    BY <1>3, <1>4 DEF Good
  <2> QED  BY <1>2, <2>1 DEF NameGood
<1>6. Read(p, n) = before[n]
  BY <1>1, <1>2, <1>4 DEF MirrorAt
<1> QED  BY <1>2, <1>5, <1>6 DEF Read

LEMMA Invariant == Spec => []IInv
BY InvInit, InvNext, PTL DEF Spec

(* Between blocks the stores hold the pools' state, whatever happened in   *)
(* the blocks before.                                                      *)
THEOREM StoresAreExact == Spec => []StoresExact
BY Invariant, InvStores, PTL

(* After the messages of each transaction the consumer reads the active    *)
(* liquidity, tick, fee and net liquidities that every pool had at the end *)
(* of that transaction, although each comes from a pass of its own over    *)
(* the whole block and the builders net what a transaction undoes.         *)
THEOREM TransactionsAreMirrored == Spec => []MirroredPerTransaction
BY Invariant, InvMirrored, PTL

(* No message deletes a tick that the consumer does not hold.              *)
THEOREM OnlyHeldTicksAreDeleted == Spec => []DeletesHeldTicksOnly
BY Invariant, InvDeletes, PTL
==============================================================================
