-------------------------- MODULE ExtractionProofs ---------------------------
(***************************************************************************)
(* Proofs about the extractions of tycho-substreams: component balances    *)
(* (BalancePipeline) for any number of components, tokens, transactions    *)
(* and logs, contract changes (ContractExtraction) for any number of       *)
(* accounts, slots, calls and changes, and in the end both side by side    *)
(* (MCExtraction).                                                         *)
(*                                                                         *)
(* Balances: the argument is a history.  While a block is mined there is a *)
(* sequence h of sums, one after every log: it starts from the store, ends *)
(* at what is visible of the balances, and passes through the end of every *)
(* transaction.  Extraction turns it into a sequence g with one sum after  *)
(* every delta; the store's operations run along g, so the value that the  *)
(* last delta of a key in a transaction reads is the sum at the end of it. *)
(* The models' recursive functions (FlattenSeq and StoreAfter) are met by  *)
(* induction over a set of numbers (SetInduction), which needs no operator *)
(* as a parameter.                                                         *)
(*                                                                         *)
(* Contracts: whatever a transaction does, the changes that calls which    *)
(* were not reverted made to a location (a slot, a balance or a code) lead *)
(* from its value before the transaction to the present one.  The same     *)
(* holds of the world that a call began in and the changes that earlier    *)
(* calls made, which is what a revert goes back to: calls are numbered in  *)
(* the order they begin, and what is on the stack is older than what it    *)
(* called.                                                                 *)
(***************************************************************************)
EXTENDS MCExtraction, SequenceTheorems, WellFoundedInduction, TLAPS

(* Induction: a set of numbers closed under successor has all of them.     *)
LEMMA SetInduction ==
    ASSUME NEW S \in SUBSET Nat, 0 \in S, \A n \in S : n + 1 \in S
    PROVE  S = Nat
<1> SUFFICES ASSUME S # Nat PROVE FALSE
  OBVIOUS
<1> DEFINE T == Nat \ S
<1>1. T \subseteq Nat /\ T # {}
  OBVIOUS
<1>2. PICK x \in T : \A y \in T : <<y, x>> \notin OpToRel(<, Nat)
  <2> HIDE DEF T
  <2> QED  BY <1>1, NatLessThanWellFounded, WFMin
<1>3. x \in Nat /\ x # 0 /\ x \notin S
  OBVIOUS
<1>4. x - 1 \in Nat /\ x - 1 < x /\ (x - 1) + 1 = x
  BY <1>3
<1>5. x - 1 \notin S
  BY <1>3, <1>4
<1>6. <<x - 1, x>> \in OpToRel(<, Nat)
  BY <1>3, <1>4 DEF OpToRel
<1> QED  BY <1>2, <1>4, <1>5, <1>6

(* Max of a set of indices is one of them, and the last.                   *)
LEMMA MaxOfIndices ==
    ASSUME NEW n \in Nat, NEW S \in SUBSET (1..n), S # {}
    PROVE  Max(S) \in S /\ \A y \in S : y <= Max(S)
<1> DEFINE T == {m \in Nat : \A y \in S : y <= m}
<1>1. T \subseteq Nat /\ n \in T
  OBVIOUS
<1>2. PICK x \in T : \A y \in T : <<y, x>> \notin OpToRel(<, Nat)
  <2> HIDE DEF T
  <2> QED  BY <1>1, NatLessThanWellFounded, WFMin
<1>3. x \in S
  <2> SUFFICES ASSUME x \notin S PROVE FALSE
    OBVIOUS
  <2>1. x \in Nat /\ \A y \in S : y < x /\ y \in Nat /\ y >= 1
    OBVIOUS
  <2>2. PICK y \in S : TRUE
    OBVIOUS
  <2>3. x # 0
    BY <2>1, <2>2
  <2>4. x - 1 \in Nat /\ x - 1 < x /\ x - 1 \in T
    BY <2>1, <2>3
  <2>5. <<x - 1, x>> \in OpToRel(<, Nat)
    BY <2>1, <2>4 DEF OpToRel
  <2> QED  BY <1>2, <2>4, <2>5
<1>4. \A y \in S : x >= y
  OBVIOUS
<1>5. Max(S) \in S /\ \A y \in S : Max(S) >= y
  BY <1>3, <1>4 DEF Max
<1> QED  BY <1>5

(* A function that no step from c to d changes is the same at d and at c.  *)
LEMMA Constant ==
    ASSUME NEW n \in Nat, NEW f, NEW c \in 0..n, NEW d \in c..n,
           \A i \in c + 1..d : f[i] = f[i - 1]
    PROVE  f[d] = f[c]
<1> DEFINE S == {m \in Nat : m <= d - c => f[c + m] = f[c]}
<1>1. 0 \in S
  OBVIOUS
<1>2. ASSUME NEW m \in S PROVE m + 1 \in S
  <2> SUFFICES ASSUME m + 1 <= d - c PROVE f[c + (m + 1)] = f[c]
    OBVIOUS
  <2>1. f[c + m] = f[c]
    OBVIOUS
  <2>2. c + (m + 1) \in c + 1..d /\ (c + (m + 1)) - 1 = c + m
    OBVIOUS
  <2> QED  BY <2>1, <2>2
<1>3. S = Nat
  <2> HIDE DEF S
  <2>1. S \in SUBSET Nat
    BY DEF S
  <2> QED  BY <1>1, <1>2, <2>1, SetInduction
<1>4. d - c \in Nat /\ c + (d - c) = d
  OBVIOUS
<1>5. d - c \in S
  BY <1>3, <1>4
<1> QED  BY <1>4, <1>5

(* FlattenSeq is the last of the concatenations of longer and longer       *)
(* prefixes.                                                               *)
LEMMA Flattening ==
    ASSUME NEW D, NEW s \in Seq(Seq(D))
    PROVE  \E f \in [0..Len(s) -> Seq(D)] :
              /\ f[0] = <<>>
              /\ \A i \in 1..Len(s) : f[i] = f[i - 1] \o s[i]
              /\ f[Len(s)] = FlattenSeq(s)
<1> DEFINE R(f, n) == f = [i \in 1..n |-> IF i = 1 THEN s[i] ELSE f[i - 1] \o s[i]]
<1> DEFINE E(n) == \E f \in [1..n -> Seq(D)] : R(f, n)
<1> DEFINE S == {n \in Nat : n <= Len(s) => E(n)}
<1>1. 0 \in S
  <2> DEFINE f0 == [i \in 1..0 |-> <<>>]
  <2>1. f0 \in [1..0 -> Seq(D)] /\ R(f0, 0)
    OBVIOUS
  <2> QED  BY <2>1
<1>2. ASSUME NEW n \in Nat, n + 1 <= Len(s), E(n)
      PROVE  E(n + 1)
  <2>1. PICK f \in [1..n -> Seq(D)] : R(f, n)
    BY <1>2
  <2>2. \A i \in 1..n : f[i] = IF i = 1 THEN s[i] ELSE f[i - 1] \o s[i]
    <3> SUFFICES ASSUME NEW i \in 1..n
                 PROVE  f[i] = IF i = 1 THEN s[i] ELSE f[i - 1] \o s[i]
      OBVIOUS
    <3> DEFINE F == [j \in 1..n |-> IF j = 1 THEN s[j] ELSE f[j - 1] \o s[j]]
    <3>1. f[i] = F[i]
      BY <2>1
    <3> HIDE DEF R, E, S
    <3>2. F[i] = IF i = 1 THEN s[i] ELSE f[i - 1] \o s[i]
      OBVIOUS
    <3> QED  BY <3>1, <3>2
  <2> DEFINE g == [i \in 1..n + 1 |-> IF i <= n THEN f[i]
                                      ELSE IF i = 1 THEN s[i] ELSE f[i - 1] \o s[i]]
  <2> HIDE DEF R, E, S
  <2>3. g \in [1..n + 1 -> Seq(D)]
    <3> SUFFICES ASSUME NEW i \in 1..n + 1 PROVE g[i] \in Seq(D)
      OBVIOUS
    <3>1. CASE i <= n
      BY <3>1
    <3>2. CASE i > n /\ i = 1
      BY <3>2, <1>2
    <3>3. CASE i > n /\ i # 1
      <4>1. f[i - 1] \in Seq(D) /\ s[i] \in Seq(D)
        BY <3>3, <1>2
      <4> QED  BY <3>3, <4>1
    <3> QED  BY <3>1, <3>2, <3>3
  <2>4. ASSUME NEW i \in 1..n + 1
        PROVE  g[i] = IF i = 1 THEN s[i] ELSE g[i - 1] \o s[i]
    <3>1. i # 1 => g[i - 1] = f[i - 1]
      OBVIOUS
    <3>2. CASE i <= n
      <4>1. f[i] = IF i = 1 THEN s[i] ELSE f[i - 1] \o s[i]
        <5>1. i \in 1..n
          BY <3>2
        <5> QED  BY <2>2, <5>1
      <4> QED  BY <3>1, <4>1, <3>2
    <3>3. CASE i > n
      BY <3>1, <3>3
    <3> QED  BY <3>2, <3>3
  <2>5. R(g, n + 1)
    <3> DEFINE G == [i \in 1..n + 1 |-> IF i = 1 THEN s[i] ELSE g[i - 1] \o s[i]]
    <3> HIDE DEF g
    <3>1. g = [i \in 1..n + 1 |-> g[i]]
      BY <2>3
    <3>2. g = G
      BY <2>4, <3>1
    <3> QED  BY <3>2 DEF R
  <2> QED  BY <2>3, <2>5 DEF E
<1>3. S = Nat
  <2> HIDE DEF E
  <2>1. S \in SUBSET Nat /\ \A n \in S : n + 1 \in S
    BY <1>2
  <2> HIDE DEF S
  <2> QED  BY <1>1, <2>1, SetInduction
<1> DEFINE fl == CHOOSE f : R(f, Len(s))
<1>4. FlattenSeq(s) = IF Len(s) = 0 THEN s ELSE fl[Len(s)]
  BY DEF FlattenSeq
<1>5. Len(s) \in Nat
  OBVIOUS
<1>6. E(Len(s))
  <2> HIDE DEF E
  <2>1. Len(s) \in S
    BY <1>3, <1>5
  <2> QED  BY <2>1
<1>7. R(fl, Len(s))
  <2>1. PICK f : R(f, Len(s))
    BY <1>6
  <2> HIDE DEF R
  <2> QED  BY <2>1
<1>8. \A i \in 1..Len(s) : fl[i] = IF i = 1 THEN s[i] ELSE fl[i - 1] \o s[i]
  <2> SUFFICES ASSUME NEW i \in 1..Len(s)
               PROVE  fl[i] = IF i = 1 THEN s[i] ELSE fl[i - 1] \o s[i]
    OBVIOUS
  <2> DEFINE F(f) == [j \in 1..Len(s) |-> IF j = 1 THEN s[j] ELSE f[j - 1] \o s[j]]
  <2> HIDE DEF fl
  <2>1. fl[i] = F(fl)[i]
    BY <1>7
  <2> HIDE DEF R, E, S
  <2> QED  BY <2>1
<1> HIDE DEF R, E, S, fl
<1>9. ASSUME NEW i \in 1..Len(s) PROVE fl[i] \in Seq(D)
  <2> DEFINE T == {m \in Nat : m \in 1..Len(s) => fl[m] \in Seq(D)}
  <2>1. 0 \in T
    OBVIOUS
  <2>2. ASSUME NEW m \in T PROVE m + 1 \in T
    <3> SUFFICES ASSUME m + 1 \in 1..Len(s) PROVE fl[m + 1] \in Seq(D)
      OBVIOUS
    <3>1. s[m + 1] \in Seq(D)
      OBVIOUS
    <3>2. CASE m = 0
      <4>1. fl[m + 1] = s[m + 1]
        BY <1>8, <3>2
      <4> QED  BY <3>1, <4>1
    <3>3. CASE m # 0
      <4>1. m \in 1..Len(s) /\ m + 1 # 1 /\ (m + 1) - 1 = m
        BY <3>3
      <4>2. fl[m] \in Seq(D)
        BY <4>1
      <4>3. fl[m + 1] = fl[m] \o s[m + 1]
        BY <1>8, <4>1
      <4> QED  BY <3>1, <4>2, <4>3
    <3> QED  BY <3>2, <3>3
  <2>3. T = Nat
    <3> HIDE DEF T
    <3>1. T \in SUBSET Nat
      BY DEF T
    <3> QED  BY <2>1, <2>2, <3>1, SetInduction
  <2> QED  BY <2>3
<1> DEFINE h == [i \in 0..Len(s) |-> IF i = 0 THEN <<>> ELSE fl[i]]
<1>10. h \in [0..Len(s) -> Seq(D)] /\ h[0] = <<>>
  BY <1>9
<1>11. ASSUME NEW i \in 1..Len(s) PROVE h[i] = h[i - 1] \o s[i]
  <2>1. s[i] \in Seq(D) /\ h[i] = fl[i]
    OBVIOUS
  <2>2. CASE i = 1
    <3>1. h[i - 1] = <<>> /\ h[i] = s[i]
      BY <1>8, <2>1, <2>2
    <3>2. <<>> \o s[i] = s[i]
      BY <2>1
    <3> QED  BY <3>1, <3>2
  <2>3. CASE i # 1
    <3>1. i - 1 \in 0..Len(s) /\ i - 1 # 0
      BY <2>3
    <3>2. h[i - 1] = fl[i - 1]
      BY <3>1
    <3>3. fl[i] = fl[i - 1] \o s[i]
      BY <1>8, <2>3
    <3> QED  BY <2>1, <3>2, <3>3
  <2> QED  BY <2>2, <2>3
<1>12. h[Len(s)] = FlattenSeq(s)
  <2>1. Len(s) = 0 => s = <<>>
    OBVIOUS
  <2>2. h[Len(s)] = IF Len(s) = 0 THEN <<>> ELSE fl[Len(s)]
    BY <1>5
  <2> QED  BY <1>4, <2>1, <2>2
<1> HIDE DEF h
<1> QED  BY <1>10, <1>11, <1>12

-----------------------------------------------------------------------------
(* Running sums: g[i] is the store after the first i deltas of d.          *)
Sums == [Key -> Int]

Running(g, d) ==
    /\ g \in [0..Len(d) -> Sums]
    /\ \A i \in DOMAIN d : g[i] = [g[i - 1] EXCEPT ![d[i].key] = @ + d[i].delta]

(* What one log does to the sums, and which keys it is about.              *)
Effect(s, log) ==
    [k \in Key |-> s[k] + (IF k = <<log.to, log.token>> THEN log.value ELSE 0)
                        - (IF k = <<log.from, log.token>> THEN log.value ELSE 0)]

Touches(log, k) == log.token = k[2] /\ k[1] \in {log.from, log.to}

(* WETH events have one side only; the model excludes self transfers       *)
(* unless SelfTransfer.                                                    *)
WellFormed(log) ==
    /\ log.kind = "Deposit" => log.from = Outside
    /\ log.kind = "Withdrawal" => log.to = Outside
    /\ log.from = log.to => SelfTransfer

(* The deltas of one log run from the sums before it to the sums after it, *)
(* under the log's own ordinal and transaction, and one of them is for     *)
(* each tracked side; two are for the same key only in a self transfer.    *)
LEMMA LogDeltas ==
    ASSUME NEW log \in Log, WellFormed(log), NEW s \in Sums, NEW d, d = DeltasOf(log)
    PROVE  /\ d \in Seq(BalanceDelta)
           /\ \A i \in DOMAIN d : d[i].ord = log.ordinal /\ d[i].tx = log.tx
           /\ \A i, j \in DOMAIN d : i < j /\ d[i].key = d[j].key => SelfTransfer
           /\ \A k \in Key : Touches(log, k) => \E j \in DOMAIN d : d[j].key = k
           /\ \E e : Running(e, d) /\ e[0] = s /\ e[Len(d)] = Effect(s, log)
<1> DEFINE kf == <<log.from, log.token>>
           kt == <<log.to, log.token>>
           v == log.value
           x == [key |-> kf, ord |-> log.ordinal, tx |-> log.tx, delta |-> -v]
           y == [key |-> kt, ord |-> log.ordinal, tx |-> log.tx, delta |-> v]
<1>1. /\ log.kind \in {"Transfer", "Deposit", "Withdrawal"}
      /\ log.from \in Component \cup {Outside} /\ log.to \in Component \cup {Outside}
      /\ log.token \in Token /\ v \in Int /\ -v \in Int
      /\ log.tx \in Block /\ log.ordinal \in Nat
      /\ Outside \notin Component
  <2>1. v \in Amount
    BY DEF Log
  <2>2. v \in Nat /\ Outside \notin Component
    BY <2>1, BalanceBounds
  <2>3. v \in Int /\ -v \in Int
    BY <2>2
  <2>4. /\ log.kind \in {"Transfer", "Deposit", "Withdrawal"}
        /\ log.from \in Component \cup {Outside} /\ log.to \in Component \cup {Outside}
        /\ log.token \in Token /\ log.tx \in Block /\ log.ordinal \in Nat
    BY DEF Log, Party
  <2> HIDE DEF v
  <2> QED  BY <2>2, <2>3, <2>4
<1>2. /\ log.from \in Component <=> kf \in Key
      /\ log.to \in Component <=> kt \in Key
  BY <1>1 DEF Key
<1>3. /\ kf \in Key => x \in BalanceDelta
      /\ kt \in Key => y \in BalanceDelta
  BY <1>1 DEF BalanceDelta
<1>4. \A k \in Key : k = <<k[1], k[2]>>
  BY DEF Key
<1>5. \A k \in Key : Touches(log, k) => k \in {kf, kt}
  BY <1>4 DEF Touches
<1>6. kf = kt => SelfTransfer
  BY DEF WellFormed
<1>7. Effect(s, log) \in Sums
  BY <1>1 DEF Effect, Sums
<1>8. DeltaOf(log, log.from, -log.value) = IF kf \in Key THEN <<x>> ELSE <<>>
  BY <1>2 DEF DeltaOf
<1>9. DeltaOf(log, log.to, log.value) = IF kt \in Key THEN <<y>> ELSE <<>>
  BY <1>2 DEF DeltaOf
<1>10. d = (IF kf \in Key THEN <<x>> ELSE <<>>) \o (IF kt \in Key THEN <<y>> ELSE <<>>)
  <2> DEFINE df == IF kf \in Key THEN <<x>> ELSE <<>>
             dt == IF kt \in Key THEN <<y>> ELSE <<>>
  <2>0. df \o <<>> = df /\ <<>> \o dt = dt
    <3> HIDE DEF x, y
    <3>1. <<x>> \o <<>> = <<x>> /\ <<>> \o <<y>> = <<y>> /\ <<>> \o <<>> = <<>>
      OBVIOUS
    <3> QED  BY <3>1
  <2>1. CASE log.kind = "Transfer"
    BY <1>8, <1>9, <2>1 DEF DeltasOf
  <2>2. CASE log.kind = "Deposit"
    <3>1. kf \notin Key
      BY <1>1, <1>2, <2>2 DEF WellFormed
    <3>2. d = dt /\ df = <<>>
      BY <1>9, <2>2, <3>1 DEF DeltasOf
    <3> HIDE DEF dt, df
    <3>3. d = df \o dt
      BY <2>0, <3>2
    <3> QED  BY <3>3 DEF dt, df
  <2>3. CASE log.kind = "Withdrawal"
    <3>1. kt \notin Key
      BY <1>1, <1>2, <2>3 DEF WellFormed
    <3>2. d = df /\ dt = <<>>
      BY <1>8, <2>3, <3>1 DEF DeltasOf
    <3> HIDE DEF dt, df
    <3>3. d = df \o dt
      BY <2>0, <3>2
    <3> QED  BY <3>3 DEF dt, df
  <2> QED  BY <1>1, <2>1, <2>2, <2>3
<1>11. CASE kf \in Key /\ kt \in Key
  <2>1. d = <<x>> \o <<y>>
    BY <1>10, <1>11
  <2>2. Len(d) = 2 /\ DOMAIN d = 1..2 /\ d[1] = x /\ d[2] = y
    <3> HIDE DEF x, y
    <3> QED  BY <2>1
  <2> DEFINE mid == [s EXCEPT ![kf] = @ + (-v)]
             e == [i \in 0..2 |-> IF i = 0 THEN s ELSE IF i = 1 THEN mid ELSE Effect(s, log)]
  <2>3. mid \in Sums
    BY <1>1, <1>11 DEF Sums
  <2>4. Effect(s, log) = [mid EXCEPT ![kt] = @ + v]
    <3> SUFFICES ASSUME NEW k \in Key
                 PROVE  Effect(s, log)[k] = [mid EXCEPT ![kt] = @ + v][k]
      BY DEF Sums, Effect
    <3>1. s[k] \in Int /\ v \in Int
      BY <1>1 DEF Sums
    <3>2. Effect(s, log)[k] = s[k] + (IF k = kt THEN v ELSE 0) - (IF k = kf THEN v ELSE 0)
      BY DEF Effect
    <3> HIDE DEF kt, kf, v
    <3> QED  BY <3>1, <3>2, <1>11 DEF Sums
  <2>5. e \in [0..2 -> Sums] /\ e[0] = s /\ e[1] = mid /\ e[2] = Effect(s, log)
    BY <1>7, <2>3
  <2>6. Running(e, d)
    <3> HIDE DEF e, mid
    <3>0. /\ d[1].key = kf /\ d[1].delta = -v /\ e[1 - 1] = s
          /\ d[2].key = kt /\ d[2].delta = v /\ e[2 - 1] = mid
      BY <2>2, <2>5
    <3>1. e[1] = [e[1 - 1] EXCEPT ![d[1].key] = @ + d[1].delta]
      BY <2>5, <3>0 DEF mid
    <3>2. e[2] = [e[2 - 1] EXCEPT ![d[2].key] = @ + d[2].delta]
      BY <2>4, <2>5, <3>0
    <3>3. \A i \in 1..2 : i = 1 \/ i = 2
      OBVIOUS
    <3> HIDE DEF x, y, kf, kt
    <3> QED  BY <2>2, <2>5, <3>1, <3>2, <3>3 DEF Running
  <2>7. d \in Seq(BalanceDelta)
    <3> HIDE DEF x, y
    <3> QED  BY <1>3, <1>11, <2>1
  <2>8. \A i \in 1..2 : i = 1 \/ i = 2
    OBVIOUS
  <2>9. \A i \in DOMAIN d : d[i].ord = log.ordinal /\ d[i].tx = log.tx
    BY <2>2, <2>8
  <2>10. \A i, j \in DOMAIN d : i < j /\ d[i].key = d[j].key => SelfTransfer
    BY <1>6, <2>2, <2>8
  <2>11. \A k \in Key : Touches(log, k) => \E j \in DOMAIN d : d[j].key = k
    BY <1>5, <2>2
  <2> QED  BY <2>2, <2>5, <2>6, <2>7, <2>9, <2>10, <2>11
<1>12. CASE kf \in Key /\ kt \notin Key
  <2>1. d = <<x>>
    BY <1>10, <1>12
  <2>2. Len(d) = 1 /\ DOMAIN d = {1} /\ d[1] = x
    BY <2>1
  <2> DEFINE e == [i \in 0..1 |-> IF i = 0 THEN s ELSE Effect(s, log)]
  <2>4. Effect(s, log) = [s EXCEPT ![kf] = @ + (-v)]
    <3> SUFFICES ASSUME NEW k \in Key
                 PROVE  Effect(s, log)[k] = [s EXCEPT ![kf] = @ + (-v)][k]
      BY DEF Sums, Effect
    <3>1. s[k] \in Int /\ v \in Int
      BY <1>1 DEF Sums
    <3>2. Effect(s, log)[k] = s[k] + (IF k = kt THEN v ELSE 0) - (IF k = kf THEN v ELSE 0)
      BY DEF Effect
    <3> HIDE DEF kt, kf, v
    <3> QED  BY <3>1, <3>2, <1>12 DEF Sums
  <2>5. e \in [0..1 -> Sums] /\ e[0] = s /\ e[1] = Effect(s, log)
    BY <1>7
  <2>6. Running(e, d)
    <3> HIDE DEF e
    <3>0. d[1].key = kf /\ d[1].delta = -v /\ e[1 - 1] = s
      BY <2>2, <2>5
    <3>1. e[1] = [e[1 - 1] EXCEPT ![d[1].key] = @ + d[1].delta]
      BY <2>4, <2>5, <3>0
    <3> HIDE DEF x, kf
    <3> QED  BY <2>2, <2>5, <3>1 DEF Running
  <2>7. d \in Seq(BalanceDelta)
    <3> HIDE DEF x
    <3> QED  BY <1>3, <1>12, <2>1
  <2>9. \A i \in DOMAIN d : d[i].ord = log.ordinal /\ d[i].tx = log.tx
    BY <2>2
  <2>10. \A i, j \in DOMAIN d : i < j /\ d[i].key = d[j].key => SelfTransfer
    BY <2>2
  <2>11. \A k \in Key : Touches(log, k) => \E j \in DOMAIN d : d[j].key = k
    BY <1>5, <1>12, <2>2
  <2> QED  BY <2>2, <2>5, <2>6, <2>7, <2>9, <2>10, <2>11
<1>13. CASE kf \notin Key /\ kt \in Key
  <2>1. d = <<y>>
    BY <1>10, <1>13
  <2>2. Len(d) = 1 /\ DOMAIN d = {1} /\ d[1] = y
    BY <2>1
  <2> DEFINE e == [i \in 0..1 |-> IF i = 0 THEN s ELSE Effect(s, log)]
  <2>4. Effect(s, log) = [s EXCEPT ![kt] = @ + v]
    <3> SUFFICES ASSUME NEW k \in Key
                 PROVE  Effect(s, log)[k] = [s EXCEPT ![kt] = @ + v][k]
      BY DEF Sums, Effect
    <3>1. s[k] \in Int /\ v \in Int
      BY <1>1 DEF Sums
    <3>2. Effect(s, log)[k] = s[k] + (IF k = kt THEN v ELSE 0) - (IF k = kf THEN v ELSE 0)
      BY DEF Effect
    <3> HIDE DEF kt, kf, v
    <3> QED  BY <3>1, <3>2, <1>13 DEF Sums
  <2>5. e \in [0..1 -> Sums] /\ e[0] = s /\ e[1] = Effect(s, log)
    BY <1>7
  <2>6. Running(e, d)
    <3> HIDE DEF e
    <3>0. d[1].key = kt /\ d[1].delta = v /\ e[1 - 1] = s
      BY <2>2, <2>5
    <3>1. e[1] = [e[1 - 1] EXCEPT ![d[1].key] = @ + d[1].delta]
      BY <2>4, <2>5, <3>0
    <3> HIDE DEF y, kt
    <3> QED  BY <2>2, <2>5, <3>1 DEF Running
  <2>7. d \in Seq(BalanceDelta)
    <3> HIDE DEF y
    <3> QED  BY <1>3, <1>13, <2>1
  <2>9. \A i \in DOMAIN d : d[i].ord = log.ordinal /\ d[i].tx = log.tx
    BY <2>2
  <2>10. \A i, j \in DOMAIN d : i < j /\ d[i].key = d[j].key => SelfTransfer
    BY <2>2
  <2>11. \A k \in Key : Touches(log, k) => \E j \in DOMAIN d : d[j].key = k
    BY <1>5, <1>13, <2>2
  <2> QED  BY <2>2, <2>5, <2>6, <2>7, <2>9, <2>10, <2>11
<1>14. CASE kf \notin Key /\ kt \notin Key
  <2>1. d = <<>>
    BY <1>10, <1>14
  <2>2. Len(d) = 0 /\ DOMAIN d = {}
    BY <2>1
  <2> DEFINE e == [i \in 0..0 |-> s]
  <2>4. Effect(s, log) = s
    BY <1>1, <1>14 DEF Sums, Effect
  <2>5. e \in [0..0 -> Sums] /\ e[0] = s
    OBVIOUS
  <2>6. Running(e, d)
    <3> HIDE DEF e
    <3> QED  BY <2>2, <2>5 DEF Running
  <2>11. \A k \in Key : Touches(log, k) => \E j \in DOMAIN d : d[j].key = k
    BY <1>5, <1>14
  <2> QED  BY <2>1, <2>2, <2>4, <2>5, <2>6, <2>11
<1> QED  BY <1>11, <1>12, <1>13, <1>14

(* Two runs in which the second starts where the first ends make one.      *)
Joins(r, g, d1, d2, last) ==
    /\ Running(r, d1 \o d2)
    /\ \A i \in 0..Len(d1) : r[i] = g[i]
    /\ r[Len(d1 \o d2)] = last

LEMMA RunningConcat ==
    ASSUME NEW d1 \in Seq(BalanceDelta), NEW d2 \in Seq(BalanceDelta), NEW g, NEW e,
           Running(g, d1), Running(e, d2), e[0] = g[Len(d1)]
    PROVE  \E r : Joins(r, g, d1, d2, e[Len(d2)])
<1> DEFINE n == Len(d1)
           m == Len(d2)
           r == [i \in 0..(n + m) |-> IF i <= n THEN g[i] ELSE e[i - n]]
<1>1. /\ n \in Nat /\ m \in Nat /\ Len(d1 \o d2) = n + m /\ DOMAIN (d1 \o d2) = 1..(n + m)
      /\ DOMAIN d1 = 1..n /\ DOMAIN d2 = 1..m
  OBVIOUS
<1>2. /\ g \in [0..n -> Sums] /\ e \in [0..m -> Sums]
      /\ \A i \in 1..n : g[i] = [g[i - 1] EXCEPT ![d1[i].key] = @ + d1[i].delta]
      /\ \A i \in 1..m : e[i] = [e[i - 1] EXCEPT ![d2[i].key] = @ + d2[i].delta]
  BY <1>1 DEF Running
<1>3. \A i \in 1..n : (d1 \o d2)[i] = d1[i]
  OBVIOUS
<1>4. \A i \in 1..m : (d1 \o d2)[n + i] = d2[i]
  OBVIOUS
<1> DEFINE d == d1 \o d2
<1> HIDE DEF n, m, d
<1>5. \A i \in 0..n : r[i] = g[i]
  BY <1>1
<1>6. \A i \in 0..m : r[n + i] = e[i]
  <2> SUFFICES ASSUME NEW i \in 0..m PROVE r[n + i] = e[i]
    OBVIOUS
  <2>1. CASE i = 0
    BY <1>1, <2>1 DEF n
  <2>2. CASE i # 0
    <3>1. n + i \in 0..(n + m) /\ ~(n + i <= n) /\ (n + i) - n = i
      BY <1>1, <2>2
    <3> QED  BY <3>1
  <2> QED  BY <2>1, <2>2
<1>7. r \in [0..(n + m) -> Sums]
  <2> SUFFICES ASSUME NEW i \in 0..(n + m) PROVE r[i] \in Sums
    OBVIOUS
  <2>1. CASE i <= n
    BY <1>1, <1>2, <2>1
  <2>2. CASE i > n
    <3>1. i - n \in 0..m /\ ~(i <= n)
      BY <1>1, <2>2
    <3> QED  BY <1>2, <3>1
  <2> QED  BY <1>1, <2>1, <2>2
<1> HIDE DEF r
<1>8. ASSUME NEW i \in 1..(n + m)
      PROVE  r[i] = [r[i - 1] EXCEPT ![d[i].key] = @ + d[i].delta]
  <2>1. CASE i <= n
    <3>1. i \in 1..n /\ i \in 0..n /\ i - 1 \in 0..n
      BY <1>1, <2>1
    <3>2. r[i] = g[i] /\ r[i - 1] = g[i - 1] /\ d[i] = d1[i]
      BY <1>3, <1>5, <3>1 DEF d
    <3> QED  BY <1>2, <3>1, <3>2
  <2>2. CASE i > n
    <3>1. PICK j \in 1..m : i = n + j /\ i - 1 = n + (j - 1) /\ j \in 0..m /\ j - 1 \in 0..m
      <4>1. i - n \in 1..m /\ i = n + (i - n) /\ i - 1 = n + ((i - n) - 1)
            /\ i - n \in 0..m /\ (i - n) - 1 \in 0..m
        BY <1>1, <2>2
      <4> QED  BY <4>1
    <3>2. r[i] = e[j] /\ r[i - 1] = e[j - 1] /\ d[i] = d2[j]
      BY <1>4, <1>6, <3>1 DEF d
    <3> QED  BY <1>2, <3>1, <3>2
  <2> QED  BY <1>1, <2>1, <2>2
<1>9. r[n + m] = e[m] /\ Len(d) = n + m /\ DOMAIN d = 1..(n + m)
  BY <1>1, <1>6 DEF d
<1>10. Running(r, d)
  BY <1>7, <1>8, <1>9 DEF Running
<1> QED  BY <1>5, <1>9, <1>10 DEF d, n, m, Joins

-----------------------------------------------------------------------------
(* What the pipeline has seen of the balances b.                           *)
Seen(b) == [k \in Key |-> b[k] - unseen[k]]

(* The logs of the block are numbered, in the order of the transactions.   *)
LogsInv ==
    \A i \in DOMAIN logs :
        logs[i].ordinal = i /\ logs[i].tx <= tx /\ WellFormed(logs[i])

(* h is the history of the sums, log by log.                               *)
LogHistory(h) ==
    /\ h \in [0..Len(logs) -> Sums]
    /\ \A i \in DOMAIN logs : h[i] = Effect(h[i - 1], logs[i])
    /\ h[Len(logs)] = Seen(balance)
    /\ \A t \in 1..tx : \E n \in 0..Len(logs) :
          h[n] = Seen(txEnd[t]) /\ \A i \in DOMAIN logs : logs[i].tx <= t <=> i <= n

(* d is what extraction makes of the first n logs.                         *)
Extracted(d, n, h) ==
    /\ d \in Seq(BalanceDelta)
    /\ \A i \in DOMAIN d : d[i].ord \in 1..n /\ d[i].tx = logs[d[i].ord].tx
    /\ \A i, j \in DOMAIN d : i < j /\ d[i].key = d[j].key /\ d[i].ord >= d[j].ord => SelfTransfer
    /\ \A m \in 1..n, k \in Key :
          Touches(logs[m], k) => \E j \in DOMAIN d : d[j].key = k /\ d[j].ord = m
    /\ \E g : /\ Running(g, d) /\ g[0] = h[0] /\ g[Len(d)] = h[n]
              /\ \A m \in 0..n : \E c \in 0..Len(d) :
                    g[c] = h[m] /\ \A i \in DOMAIN d : d[i].ord <= m <=> i <= c

(* One more log.                                                           *)
LEMMA ExtractNext ==
    ASSUME TypeOK, LogsInv, NEW h, LogHistory(h), NEW n \in Nat, n + 1 <= Len(logs),
           NEW d1, Extracted(d1, n, h), NEW d2, d2 = DeltasOf(logs[n + 1])
    PROVE  Extracted(d1 \o d2, n + 1, h)
<1> DEFINE log == logs[n + 1]
           a == Len(d1)
           b == Len(d2)
           d == d1 \o d2
<1>1. logs \in Seq(Log) /\ n + 1 \in DOMAIN logs /\ log \in Log /\ n \in 0..Len(logs)
  BY DEF TypeOK
<1>2. log.ordinal = n + 1 /\ WellFormed(log)
  BY <1>1 DEF LogsInv
<1>3. h[n] \in Sums /\ h[n + 1] = Effect(h[n], log)
  <2>1. (n + 1) - 1 = n
    OBVIOUS
  <2> QED  BY <1>1, <2>1 DEF LogHistory
<1> HIDE DEF log
<1>4. /\ d2 \in Seq(BalanceDelta)
      /\ \A i \in DOMAIN d2 : d2[i].ord = n + 1 /\ d2[i].tx = log.tx
      /\ \A i, j \in DOMAIN d2 : i < j /\ d2[i].key = d2[j].key => SelfTransfer
      /\ \A k \in Key : Touches(log, k) => \E j \in DOMAIN d2 : d2[j].key = k
      /\ \E e : Running(e, d2) /\ e[0] = h[n] /\ e[Len(d2)] = h[n + 1]
  <2>1. d2 = DeltasOf(log)
    BY DEF log
  <2> QED  BY <1>1, <1>2, <1>3, <2>1, LogDeltas
<1>5. /\ d1 \in Seq(BalanceDelta)
      /\ \A i \in DOMAIN d1 : d1[i].ord \in 1..n /\ d1[i].tx = logs[d1[i].ord].tx
      /\ \A i, j \in DOMAIN d1 :
            i < j /\ d1[i].key = d1[j].key /\ d1[i].ord >= d1[j].ord => SelfTransfer
      /\ \A m \in 1..n, k \in Key :
            Touches(logs[m], k) => \E j \in DOMAIN d1 : d1[j].key = k /\ d1[j].ord = m
  BY DEF Extracted
<1>6. PICK g : /\ Running(g, d1) /\ g[0] = h[0] /\ g[a] = h[n]
               /\ \A m \in 0..n : \E c \in 0..a :
                    g[c] = h[m] /\ \A i \in DOMAIN d1 : d1[i].ord <= m <=> i <= c
  BY DEF Extracted
<1>7. PICK e : Running(e, d2) /\ e[0] = h[n] /\ e[b] = h[n + 1]
  BY <1>4
<1>8. PICK r : /\ Running(r, d)
               /\ \A i \in 0..a : r[i] = g[i]
               /\ r[Len(d)] = e[b]
  <2>1. /\ d1 \in Seq(BalanceDelta) /\ d2 \in Seq(BalanceDelta)
        /\ Running(g, d1) /\ Running(e, d2) /\ e[0] = g[Len(d1)]
    BY <1>4, <1>5, <1>6, <1>7
  <2>2. \E q : Joins(q, g, d1, d2, e[Len(d2)])
    BY <2>1, RunningConcat
  <2> QED  BY <2>2 DEF Joins
<1>9. /\ a \in Nat /\ b \in Nat /\ Len(d) = a + b /\ DOMAIN d = 1..(a + b)
      /\ DOMAIN d1 = 1..a /\ DOMAIN d2 = 1..b /\ d \in Seq(BalanceDelta)
      /\ \A i \in 1..a : d[i] = d1[i]
      /\ \A i \in 1..b : d[a + i] = d2[i]
  BY <1>4, <1>5
<1> HIDE DEF a, b, d
<1>10. ASSUME NEW i \in 1..(a + b)
       PROVE  \/ i <= a /\ i \in 1..a /\ d[i] = d1[i]
              \/ i > a /\ i - a \in 1..b /\ d[i] = d2[i - a]
  <2>1. i > a => i - a \in 1..b /\ a + (i - a) = i
    BY <1>9
  <2>2. i <= a => i \in 1..a
    BY <1>9
  <2>3. i <= a \/ i > a
    BY <1>9
  <2> QED  BY <1>9, <2>1, <2>2, <2>3
<1>11. \A i \in DOMAIN d : d[i].ord \in 1..(n + 1) /\ d[i].tx = logs[d[i].ord].tx
                           /\ (d[i].ord <= n <=> i <= a)
  <2> SUFFICES ASSUME NEW i \in 1..(a + b)
               PROVE  d[i].ord \in 1..(n + 1) /\ d[i].tx = logs[d[i].ord].tx
                      /\ (d[i].ord <= n <=> i <= a)
    BY <1>9
  <2>1. CASE i <= a /\ i \in 1..a /\ d[i] = d1[i]
    <3>1. d1[i].ord \in 1..n /\ d1[i].tx = logs[d1[i].ord].tx
      BY <1>5, <1>9, <2>1
    <3> QED  BY <2>1, <3>1
  <2>2. CASE i > a /\ i - a \in 1..b /\ d[i] = d2[i - a]
    <3>1. d2[i - a].ord = n + 1 /\ d2[i - a].tx = logs[n + 1].tx
      BY <1>4, <1>9, <2>2 DEF log
    <3>2. d[i].ord = n + 1 /\ d[i].tx = logs[n + 1].tx
      BY <2>2, <3>1
    <3>3. n + 1 \in 1..(n + 1) /\ ~(n + 1 <= n) /\ ~(i <= a)
      BY <1>9, <2>2
    <3> QED  BY <3>2, <3>3
  <2> QED  BY <1>10, <2>1, <2>2
<1>12. ASSUME NEW i \in DOMAIN d, NEW j \in DOMAIN d,
              i < j, d[i].key = d[j].key, d[i].ord >= d[j].ord
       PROVE  SelfTransfer
  <2>0. i \in 1..(a + b) /\ j \in 1..(a + b)
    BY <1>9
  <2>1. CASE i <= a
    <3>1. i \in 1..a /\ d[i] = d1[i] /\ d1[i].ord \in 1..n
      BY <1>5, <1>9, <1>10, <2>0, <2>1
    <3>2. d[j].ord \in 1..(n + 1) /\ (d[j].ord <= n <=> j <= a)
      BY <1>11
    <3>3. j <= a
      BY <1>12, <3>1, <3>2
    <3>4. j \in 1..a /\ d[j] = d1[j]
      BY <1>9, <1>10, <2>0, <3>3
    <3> QED  BY <1>5, <1>9, <1>12, <3>1, <3>4
  <2>2. CASE i > a
    <3>1. i - a \in 1..b /\ d[i] = d2[i - a]
      BY <1>9, <1>10, <2>0, <2>2
    <3>2. j > a
      BY <1>9, <1>12, <2>0, <2>2
    <3>3. j - a \in 1..b /\ d[j] = d2[j - a]
      BY <1>9, <1>10, <2>0, <3>2
    <3>4. i - a < j - a
      BY <1>9, <1>12, <2>0
    <3> QED  BY <1>4, <1>9, <1>12, <3>1, <3>3, <3>4, SMTT(40)
  <2> QED  BY <1>9, <2>0, <2>1, <2>2
<1>13. ASSUME NEW m \in 1..(n + 1), NEW k \in Key, Touches(logs[m], k)
       PROVE  \E j \in DOMAIN d : d[j].key = k /\ d[j].ord = m
  <2>1. CASE m \in 1..n
    <3>1. PICK j \in 1..a : d1[j].key = k /\ d1[j].ord = m
      BY <1>5, <1>9, <1>13, <2>1
    <3>2. j \in 1..(a + b)
      BY <1>9
    <3> QED  BY <1>9, <3>1, <3>2
  <2>2. CASE m = n + 1
    <3>1. PICK j \in 1..b : d2[j].key = k /\ d2[j].ord = m
      BY <1>4, <1>9, <1>13, <2>2 DEF log
    <3>2. a + j \in 1..(a + b)
      BY <1>9
    <3> QED  BY <1>9, <3>1, <3>2
  <2> QED  BY <2>1, <2>2
<1>14. r[0] = h[0] /\ r[Len(d)] = h[n + 1]
  BY <1>6, <1>7, <1>8, <1>9
<1>15. ASSUME NEW m \in 0..(n + 1)
       PROVE  \E c \in 0..Len(d) :
                r[c] = h[m] /\ \A i \in DOMAIN d : d[i].ord <= m <=> i <= c
  <2>1. CASE m \in 0..n
    <3>1. PICK c \in 0..a : g[c] = h[m] /\ \A i \in DOMAIN d1 : d1[i].ord <= m <=> i <= c
      BY <1>6, <2>1
    <3>2. c \in 0..Len(d) /\ r[c] = h[m]
      BY <1>8, <1>9, <3>1
    <3>3. ASSUME NEW i \in DOMAIN d PROVE d[i].ord <= m <=> i <= c
      <4>0. i \in 1..(a + b) /\ d[i].ord \in 1..(n + 1) /\ (d[i].ord <= n <=> i <= a)
        BY <1>9, <1>11
      <4>1. CASE i <= a
        <5>1. i \in 1..a /\ d[i] = d1[i]
          BY <1>9, <1>10, <4>0, <4>1
        <5> QED  BY <1>9, <3>1, <5>1
      <4>2. CASE i > a
        <5>1. ~(i <= c) /\ ~(d[i].ord <= n)
          BY <1>9, <4>0, <4>2
        <5>2. ~(d[i].ord <= m)
          BY <2>1, <4>0, <5>1
        <5> QED  BY <5>1, <5>2
      <4> QED  BY <1>9, <4>0, <4>1, <4>2
    <3> QED  BY <3>2, <3>3
  <2>2. CASE m = n + 1
    <3>1. Len(d) \in 0..Len(d)
      BY <1>9
    <3>2. \A i \in DOMAIN d : d[i].ord <= m <=> i <= Len(d)
      BY <1>9, <1>11, <2>2
    <3> QED  BY <1>14, <2>2, <3>1, <3>2
  <2> QED  BY <2>1, <2>2
<1>16. /\ \A i \in DOMAIN d : d[i].ord \in 1..(n + 1) /\ d[i].tx = logs[d[i].ord].tx
       /\ Running(r, d)
       /\ d \in Seq(BalanceDelta)
  BY <1>8, <1>9, <1>11
<1>17. Extracted(d, n + 1, h)
  BY <1>12, <1>13, <1>14, <1>15, <1>16 DEF Extracted
<1> QED  BY <1>17 DEF d

(* No log at all.                                                          *)
LEMMA ExtractNone ==
    ASSUME NEW h, h[0] \in Sums
    PROVE  Extracted(<<>>, 0, h)
<1> DEFINE g == [i \in 0..0 |-> h[0]]
<1>1. g \in [0..0 -> Sums] /\ g[0] = h[0]
  OBVIOUS
<1>2. Len(<<>>) = 0 /\ DOMAIN <<>> = {} /\ <<>> \in Seq(BalanceDelta)
  OBVIOUS
<1> HIDE DEF g
<1>3. Running(g, <<>>)
  BY <1>1, <1>2 DEF Running
<1>4. ASSUME NEW m \in 0..0
      PROVE  \E c \in 0..Len(<<>>) :
                g[c] = h[m] /\ \A i \in DOMAIN <<>> : <<>>[i].ord <= m <=> i <= c
  BY <1>1, <1>2
<1> QED  BY <1>1, <1>2, <1>3, <1>4 DEF Extracted

(* By induction, extract_balance_deltas_from_tx over the whole block.      *)
LEMMA ExtractAll ==
    ASSUME TypeOK, LogsInv, NEW h, LogHistory(h)
    PROVE  Extracted(FlattenSeq([i \in DOMAIN logs |-> DeltasOf(logs[i])]), Len(logs), h)
<1> DEFINE s == [i \in DOMAIN logs |-> DeltasOf(logs[i])]
<1>1. logs \in Seq(Log) /\ Len(logs) \in Nat /\ DOMAIN logs = 1..Len(logs)
  BY DEF TypeOK
<1>2. \A i \in 0..Len(logs) : h[i] \in Sums
  BY DEF LogHistory
<1>3. ASSUME NEW i \in DOMAIN logs PROVE DeltasOf(logs[i]) \in Seq(BalanceDelta)
  <2>1. logs[i] \in Log /\ WellFormed(logs[i]) /\ h[0] \in Sums
    BY <1>1, <1>2 DEF LogsInv
  <2> QED  BY <2>1, LogDeltas
<1>4. s \in Seq(Seq(BalanceDelta)) /\ Len(s) = Len(logs)
      /\ \A i \in 1..Len(logs) : s[i] = DeltasOf(logs[i])
  BY <1>1, <1>3
<1> HIDE DEF s
<1>5. PICK f \in [0..Len(s) -> Seq(BalanceDelta)] :
          /\ f[0] = <<>>
          /\ \A i \in 1..Len(s) : f[i] = f[i - 1] \o s[i]
          /\ f[Len(s)] = FlattenSeq(s)
  BY <1>4, Flattening
<1> DEFINE N == {n \in Nat : n <= Len(logs) => Extracted(f[n], n, h)}
<1>6. 0 \in N
  <2>1. h[0] \in Sums
    BY <1>1, <1>2
  <2> QED  BY <1>5, <2>1, ExtractNone
<1>7. ASSUME NEW n \in N PROVE n + 1 \in N
  <2> SUFFICES ASSUME n + 1 <= Len(logs) PROVE Extracted(f[n + 1], n + 1, h)
    OBVIOUS
  <2>1. n \in Nat /\ n + 1 \in 1..Len(logs) /\ (n + 1) - 1 = n
    BY <1>1
  <2>2. Extracted(f[n], n, h)
    BY <1>1, <2>1
  <2>3. f[n + 1] = f[n] \o s[n + 1]
    BY <1>4, <1>5, <2>1
  <2>4. s[n + 1] = DeltasOf(logs[n + 1])
    BY <1>4, <2>1
  <2> HIDE DEF N
  <2>5. Extracted(f[n] \o s[n + 1], n + 1, h)
    BY <2>1, <2>2, <2>4, ExtractNext
  <2> QED  BY <2>3, <2>5
<1>8. N = Nat
  <2>1. N \in SUBSET Nat
    OBVIOUS
  <2> HIDE DEF N
  <2> QED  BY <1>6, <1>7, <2>1, SetInduction
<1>9. Len(logs) \in N
  BY <1>1, <1>8
<1>10. Extracted(f[Len(logs)], Len(logs), h)
  BY <1>1, <1>9
<1> QED  BY <1>4, <1>5, <1>10 DEF s

(* Along the operations on the store, its values are those of a history.   *)
LEMMA StoreFollows ==
    ASSUME NEW g, deltas \in Seq(BalanceDelta), Running(g, deltas), g[0] = store
    PROVE  \A n \in 0..Len(deltas) : StoreAfter[n] = g[n]
<1> DEFINE L == Len(deltas)
           F(f) == [n \in 0..L |-> IF n = 0 THEN store
                                   ELSE [f[n - 1] EXCEPT ![deltas[n].key] = @ + deltas[n].delta]]
<1>1. L \in Nat /\ DOMAIN deltas = 1..L
  OBVIOUS
<1>2. g = [n \in 0..L |-> g[n]]
  BY DEF Running
<1>3. \A n \in 0..L : g[n] = IF n = 0 THEN store
                             ELSE [g[n - 1] EXCEPT ![deltas[n].key] = @ + deltas[n].delta]
  <2> SUFFICES ASSUME NEW n \in 0..L, n # 0
               PROVE  g[n] = [g[n - 1] EXCEPT ![deltas[n].key] = @ + deltas[n].delta]
    OBVIOUS
  <2>1. n \in DOMAIN deltas
    BY <1>1
  <2> QED  BY <2>1 DEF Running
<1>4. g = F(g)
  BY <1>2, <1>3
<1> DEFINE sa == CHOOSE f : f = F(f)
<1>5. StoreAfter = sa
  BY DEF StoreAfter
<1>6. sa = F(sa)
  <2> HIDE DEF F
  <2> QED  BY <1>4
<1> HIDE DEF sa, L
<1>7. \A n \in 0..L : sa[n] = IF n = 0 THEN store
                              ELSE [sa[n - 1] EXCEPT ![deltas[n].key] = @ + deltas[n].delta]
  <2> SUFFICES ASSUME NEW n \in 0..L
               PROVE  sa[n] = IF n = 0 THEN store
                              ELSE [sa[n - 1] EXCEPT ![deltas[n].key] = @ + deltas[n].delta]
    OBVIOUS
  <2>1. sa[n] = F(sa)[n]
    <3> HIDE DEF F
    <3> QED  BY <1>6
  <2> QED  BY <2>1
<1> DEFINE N == {n \in Nat : n <= L => sa[n] = g[n]}
<1> HIDE DEF F
<1>8. 0 \in N
  <2>1. 0 \in 0..L
    BY <1>1
  <2>2. sa[0] = store
    BY <1>7, <2>1
  <2> QED  BY <2>2
<1>9. ASSUME NEW n \in N PROVE n + 1 \in N
  <2> SUFFICES ASSUME n + 1 <= L PROVE sa[n + 1] = g[n + 1]
    OBVIOUS
  <2>1. n + 1 \in 0..L /\ n + 1 # 0 /\ (n + 1) - 1 = n /\ sa[n] = g[n]
    BY <1>1
  <2>2. sa[n + 1] = [sa[n] EXCEPT ![deltas[n + 1].key] = @ + deltas[n + 1].delta]
    BY <1>7, <2>1
  <2>3. g[n + 1] = [g[n] EXCEPT ![deltas[n + 1].key] = @ + deltas[n + 1].delta]
    BY <1>3, <2>1 DEF L
  <2> QED  BY <2>1, <2>2, <2>3
<1>10. N = Nat
  <2>1. N \in SUBSET Nat
    OBVIOUS
  <2> HIDE DEF N
  <2> QED  BY <1>8, <1>9, <2>1, SetInduction
<1>11. \A n \in 0..L : sa[n] = g[n]
  BY <1>1, <1>10
<1> QED  BY <1>5, <1>11 DEF L

-----------------------------------------------------------------------------
(* g is the history of the sums, delta by delta; after the last delta of a *)
(* transaction it is at the end of the transaction.                        *)
DeltaHistory(g) ==
    /\ Running(g, deltas)
    /\ g[Len(deltas)] = Seen(balance)
    /\ \A t \in 1..tx : \E c \in 0..Len(deltas) :
          g[c] = Seen(txEnd[t]) /\ \A i \in DOMAIN deltas : deltas[i].tx <= t <=> i <= c

(* The deltas the store reports along g.                                   *)
StoreDeltasOf(g) ==
    [i \in DOMAIN deltas |-> [key |-> deltas[i].key, new_value |-> g[i][deltas[i].key]]]

(* Deltas for other keys leave the sum of a key alone.                     *)
LEMMA KeyUntouched ==
    ASSUME deltas \in Seq(BalanceDelta), NEW g, Running(g, deltas), NEW k \in Key,
           NEW c \in 0..Len(deltas), NEW d \in c..Len(deltas),
           \A i \in c + 1..d : deltas[i].key # k
    PROVE  g[d][k] = g[c][k]
<1> DEFINE n == Len(deltas)
           f == [i \in 0..n |-> g[i][k]]
<1>1. n \in Nat /\ DOMAIN deltas = 1..n /\ c \in 0..n /\ d \in c..n
  OBVIOUS
<1> HIDE DEF n
<1>2. ASSUME NEW i \in c + 1..d PROVE f[i] = f[i - 1]
  <2>1. i \in 1..n /\ i - 1 \in 0..n /\ i \in 0..n
    BY <1>1
  <2>2. deltas[i].key # k
    BY <1>2
  <2>3. g[i] = [g[i - 1] EXCEPT ![deltas[i].key] = @ + deltas[i].delta] /\ g[i - 1] \in Sums
    BY <1>1, <2>1 DEF Running, n
  <2>4. g[i][k] = g[i - 1][k]
    BY <2>2, <2>3 DEF Sums
  <2> QED  BY <2>1, <2>4
<1> HIDE DEF f
<1>3. f[d] = f[c]
  BY <1>1, <1>2, Constant
<1>4. c \in 0..n /\ d \in 0..n
  BY <1>1
<1> QED  BY <1>3, <1>4 DEF f

(* The deltas come in the order of the transactions.                       *)
LEMMA Monotone ==
    ASSUME TypeOK, NEW g, DeltaHistory(g), \A l \in DOMAIN deltas : deltas[l].tx <= tx,
           NEW i \in DOMAIN deltas, NEW j \in DOMAIN deltas, i <= j
    PROVE  deltas[i].tx <= deltas[j].tx
<1>1. deltas[j] \in BalanceDelta /\ deltas[i] \in BalanceDelta /\ tx \in Nat
  BY DEF TypeOK, Block
<1>2. deltas[j].tx \in 1..tx
  BY <1>1 DEF BalanceDelta, Block
<1>3. PICK c \in 0..Len(deltas) : \A l \in DOMAIN deltas : deltas[l].tx <= deltas[j].tx <=> l <= c
  BY <1>2 DEF DeltaHistory
<1>4. i \in Nat /\ j \in Nat /\ deltas[j].tx \in Nat
  BY <1>2 DEF TypeOK
<1>5. j <= c
  BY <1>3, <1>4
<1>6. i <= c
  BY <1>3, <1>4, <1>5
<1> QED  BY <1>3, <1>6

(* aggregate_balances_changes reports a key under a transaction exactly    *)
(* when a delta of the transaction is for it, with the sum at the end of   *)
(* the transaction: later transactions are in the store, but not in what   *)
(* is reported.                                                            *)
LEMMA Reported ==
    ASSUME TypeOK, NEW g, DeltaHistory(g), \A i \in DOMAIN deltas : deltas[i].tx <= tx,
           storeDeltas = StoreDeltasOf(g), NEW t \in Block, NEW k \in Key
    PROVE  IF \E i \in DOMAIN deltas : deltas[i].tx = t /\ deltas[i].key = k
           THEN t \in 1..tx /\ LastChange(t, k) = Clipped(Seen(txEnd[t])[k])
           ELSE LastChange(t, k) = NoChange
<1> DEFINE n == Len(deltas)
           is == {i \in LastGroup(t) : storeDeltas[i].key = k}
           js == {i \in DOMAIN deltas : deltas[i].tx = t /\ deltas[i].key = k}
<1>1. n \in Nat /\ DOMAIN deltas = 1..n /\ t \in Nat /\ tx \in Nat
  BY DEF TypeOK, Block
<1>2. \A i \in 1..n : deltas[i] \in BalanceDelta /\ deltas[i].tx \in 1..tx /\ deltas[i].key \in Key
  <2> SUFFICES ASSUME NEW i \in 1..n
      PROVE deltas[i] \in BalanceDelta /\ deltas[i].tx \in 1..tx /\ deltas[i].key \in Key
    OBVIOUS
  <2>0. deltas[i].tx <= tx
    BY <1>1
  <2>1. deltas[i] \in BalanceDelta
    BY <1>1 DEF TypeOK
  <2>2. deltas[i].tx \in 1..MaxTxs /\ deltas[i].key \in Key
    BY <2>1 DEF BalanceDelta, Block
  <2> QED  BY <1>1, <2>0, <2>1, <2>2
<1>3. \A i, j \in 1..n : i <= j => deltas[i].tx <= deltas[j].tx
  BY <1>1, Monotone
<1>4. \A i \in 1..n : storeDeltas[i].key = deltas[i].key
                      /\ storeDeltas[i].new_value = g[i][deltas[i].key]
  BY <1>1 DEF StoreDeltasOf
<1> HIDE DEF n
<1>5. LastGroup(t) = {i \in 1..n : deltas[i].tx = t}
  <2>1. ASSUME NEW i \in 1..n, deltas[i].tx = t,
               NEW j \in i..n, NEW l \in j..n, deltas[l].tx = t
        PROVE  deltas[j].tx = t
    <3>1. j \in 1..n /\ l \in 1..n /\ i <= j /\ j <= l
      BY <1>1
    <3>2. deltas[i].tx <= deltas[j].tx /\ deltas[j].tx <= deltas[l].tx /\ deltas[j].tx \in Nat
      BY <1>2, <1>3, <3>1
    <3> QED  BY <1>1, <2>1, <3>2
  <2>2. LastGroup(t) = {i \in 1..n : deltas[i].tx = t /\
            \A j \in i..n : (\E l \in j..n : deltas[l].tx = t) => deltas[j].tx = t}
    BY <1>1 DEF LastGroup, n
  <2> QED  BY <2>1, <2>2
<1>6. is = js
  BY <1>1, <1>4, <1>5
<1>7. LastChange(t, k) = IF is = {} THEN NoChange ELSE Clipped(storeDeltas[Max(is)].new_value)
  BY DEF LastChange
<1> HIDE DEF is
<1>8. CASE js = {}
  BY <1>6, <1>7, <1>8
<1>9. CASE js # {}
  <2>1. js \in SUBSET (1..n)
    BY <1>1
  <2>2. PICK m \in js : m = Max(js) /\ \A y \in js : y <= m
    <3> HIDE DEF js
    <3> QED  BY <1>1, <1>9, <2>1, MaxOfIndices
  <2>3. m \in 1..n /\ deltas[m].tx = t /\ deltas[m].key = k /\ t \in 1..tx
    BY <1>1, <1>2, <2>2
  <2>4. PICK c \in 0..n : /\ g[c] = Seen(txEnd[t])
                          /\ \A i \in 1..n : deltas[i].tx <= t <=> i <= c
    BY <1>1, <2>3 DEF DeltaHistory, n
  <2>5. m <= c
    BY <1>1, <2>3, <2>4
  <2>6. ASSUME NEW i \in m + 1..c PROVE deltas[i].key # k
    <3>1. i \in 1..n /\ i > m /\ m <= i /\ i <= c
      BY <1>1, <2>3
    <3>2. deltas[i].tx <= t /\ t <= deltas[i].tx /\ deltas[i].tx \in Nat
      BY <1>2, <1>3, <2>3, <2>4, <3>1
    <3>3. deltas[i].tx = t
      BY <1>1, <3>2
    <3>4. i \notin js
      <4> HIDE DEF js
      <4> QED  BY <1>1, <2>2, <2>3, <3>1
    <3> QED  BY <1>1, <3>1, <3>3, <3>4
  <2>7. g[c][k] = g[m][k]
    <3>1. m \in 0..n /\ c \in m..n
      BY <1>1, <2>3, <2>5
    <3>2. deltas \in Seq(BalanceDelta) /\ Running(g, deltas)
      BY DEF TypeOK, DeltaHistory
    <3> QED  BY <2>6, <3>1, <3>2, KeyUntouched DEF n
  <2>8. storeDeltas[m].new_value = Seen(txEnd[t])[k]
    BY <1>4, <2>3, <2>4, <2>7
  <2>9. LastChange(t, k) = Clipped(Seen(txEnd[t])[k])
    <3> HIDE DEF js
    <3> QED  BY <1>6, <1>7, <1>9, <2>2, <2>8
  <2>10. \E i \in DOMAIN deltas : deltas[i].tx = t /\ deltas[i].key = k
    BY <1>1, <2>3
  <2> QED  BY <2>3, <2>9, <2>10
<1> QED  BY <1>8, <1>9

(* The latest change of a key over the block, or none, is what is visible  *)
(* at the end of the block.                                                *)
LEMMA Applied ==
    ASSUME TypeOK, NEW g, DeltaHistory(g), \A i \in DOMAIN deltas : deltas[i].tx <= tx,
           storeDeltas = StoreDeltasOf(g), \A k \in Key : indexer[k] = Clipped(g[0][k]),
           aggregated = [t \in Block |-> [k \in Key |-> LastChange(t, k)]],
           NEW k \in Key
    PROVE  LatestChange(k) = Clipped(Seen(balance)[k])
<1> DEFINE n == Len(deltas)
           ts == {t \in Block : aggregated[t][k] # NoChange}
<1>1. n \in Nat /\ DOMAIN deltas = 1..n /\ tx \in Nat /\ MaxTxs \in Nat /\ tx \in Block
  BY BalanceBounds DEF TypeOK, Block
<1>2. \A i \in 1..n : deltas[i].tx \in Block /\ deltas[i].tx \in Nat
  <2> SUFFICES ASSUME NEW i \in 1..n PROVE deltas[i].tx \in Block /\ deltas[i].tx \in Nat
    OBVIOUS
  <2>1. deltas[i] \in BalanceDelta
    BY <1>1 DEF TypeOK
  <2> QED  BY <2>1 DEF BalanceDelta, Block
<1>3. \A t \in Block : aggregated[t][k] = LastChange(t, k)
  OBVIOUS
<1>4. \A t \in Block : IF \E i \in DOMAIN deltas : deltas[i].tx = t /\ deltas[i].key = k
           THEN t \in 1..tx /\ aggregated[t][k] = Clipped(Seen(txEnd[t])[k])
           ELSE aggregated[t][k] = NoChange
  BY <1>3, Reported
<1>5. deltas \in Seq(BalanceDelta) /\ Running(g, deltas) /\ g[n] = Seen(balance)
  BY DEF TypeOK, DeltaHistory
<1>6. \A i \in 1..n : deltas[i].key = k => \E t \in ts : deltas[i].tx = t
  <2> SUFFICES ASSUME NEW i \in 1..n, deltas[i].key = k PROVE deltas[i].tx \in ts
    OBVIOUS
  <2>1. deltas[i].tx \in Block
    BY <1>2
  <2>2. aggregated[deltas[i].tx][k] \in Nat
    <3>1. deltas[i].tx \in 1..tx
          /\ aggregated[deltas[i].tx][k] = Clipped(Seen(txEnd[deltas[i].tx])[k])
      BY <1>1, <1>4, <2>1
    <3>2. txEnd[deltas[i].tx][k] \in Int /\ unseen[k] \in Int
      BY <2>1 DEF TypeOK
    <3> QED  BY <3>1, <3>2 DEF Clipped, Seen
  <2> QED  BY <2>1, <2>2, BalanceBounds
<1>7. LatestChange(k) = IF ts = {} THEN indexer[k] ELSE aggregated[Max(ts)][k]
  BY DEF LatestChange
<1> HIDE DEF n
<1>8. CASE ts = {}
  <2>1. g[n][k] = g[0][k]
    <3>1. 0 \in 0..n /\ n \in 0..n
      BY <1>1
    <3>2. \A i \in 0 + 1..n : deltas[i].key # k
      BY <1>6, <1>8
    <3> QED  BY <1>5, <3>1, <3>2, KeyUntouched DEF n
  <2> QED  BY <1>5, <1>7, <1>8, <2>1
<1>9. CASE ts # {}
  <2>1. ts \in SUBSET (1..MaxTxs)
    BY DEF Block
  <2>2. PICK t \in ts : t = Max(ts) /\ \A y \in ts : y <= t
    <3> HIDE DEF ts
    <3> QED  BY <1>1, <1>9, <2>1, MaxOfIndices
  <2>3. t \in 1..tx /\ aggregated[t][k] = Clipped(Seen(txEnd[t])[k])
    BY <1>4, <2>2
  <2>4. PICK c \in 0..n : /\ g[c] = Seen(txEnd[t])
                          /\ \A i \in 1..n : deltas[i].tx <= t <=> i <= c
    BY <1>1, <2>3 DEF DeltaHistory, n
  <2>5. ASSUME NEW i \in c + 1..n PROVE deltas[i].key # k
    <3>1. i \in 1..n /\ ~(i <= c)
      BY <1>1
    <3>2. ~(deltas[i].tx <= t)
      BY <2>4, <3>1
    <3> HIDE DEF ts
    <3> QED  BY <1>6, <2>2, <3>1, <3>2
  <2>6. g[n][k] = g[c][k]
    <3>1. c \in 0..n /\ n \in c..n
      BY <1>1
    <3> QED  BY <1>5, <2>5, <3>1, KeyUntouched DEF n
  <2>7. aggregated[t][k] = Clipped(Seen(balance)[k])
    BY <1>5, <2>3, <2>4, <2>6
  <2> HIDE DEF ts
  <2> QED  BY <1>7, <1>9, <2>2, <2>7
<1> QED  BY <1>8, <1>9

-----------------------------------------------------------------------------
(* The inductive invariant, in parts by phase.  While mining: the store is *)
(* where the history starts, and the consumer holds it, clipped.           *)
MineInv ==
    phase = "mine" => \E h : /\ LogHistory(h) /\ h[0] = store
                             /\ \A k \in Key : indexer[k] = Clipped(store[k])

(* Once deltas are extracted: the store is at the start of the history g   *)
(* until store_balance_changes has run, and at its end after.              *)
Reaches(g) ==
    /\ DeltaHistory(g)
    /\ \A k \in Key : indexer[k] = Clipped(g[0][k])
    /\ phase = "store" => store = g[0]
    /\ phase # "store" => store = g[Len(deltas)] /\ storeDeltas = StoreDeltasOf(g)

DeltasInv ==
    phase # "mine" =>
        /\ \A i \in DOMAIN deltas : deltas[i].tx <= tx
        /\ BadOrdinals => SelfTransfer
        /\ \A i \in DOMAIN logs, k \in Key : Touches(logs[i], k) =>
              \E j \in DOMAIN deltas : deltas[j].key = k /\ deltas[j].tx = logs[i].tx
        /\ \E g : Reaches(g)

(* What the consumer is about to apply comes from the current deltas.      *)
AggregatedInv ==
    phase = "apply" => aggregated = [t \in Block |-> [k \in Key |-> LastChange(t, k)]]

(* Only a self transfer makes store_balance_changes panic.                 *)
PanicInv == panicked => SelfTransfer

Inv == TypeOK /\ LogsInv /\ MineInv /\ DeltasInv /\ AggregatedInv /\ PanicInv

LEMMA InitInv == Init => Inv
<1> SUFFICES ASSUME Init PROVE Inv
  OBVIOUS
<1> USE DEF Init
<1>1. TypeOK
  <2>1. balance \in [Key -> 0..MaxBalance]
    BY BalanceBounds
  <2>2. tx \in Block
    BY BalanceBounds DEF Block
  <2>3. txEnd \in [Block -> [Key -> 0..MaxBalance]]
    BY <2>1
  <2>4. /\ logs \in Seq(Log) /\ Len(logs) <= MaxLogs
        /\ deltas \in Seq(BalanceDelta)
        /\ storeDeltas \in Seq([key : Key, new_value : Int])
    BY BalanceBounds
  <2>5. /\ store \in [Key -> Int] /\ indexer \in [Key -> Nat]
        /\ aggregated \in [Block -> [Key -> Nat \cup {NoChange}]]
    OBVIOUS
  <2> QED  BY <2>1, <2>2, <2>3, <2>4, <2>5 DEF TypeOK
<1>2. LogsInv
  BY DEF LogsInv
<1>3. PICK h : h = [i \in 0..0 |-> [k \in Key |-> 0]]
  OBVIOUS
<1>4. h \in [0..0 -> Sums] /\ h[0] = store /\ Len(logs) = 0 /\ DOMAIN logs = {}
  BY <1>3 DEF Sums
<1>5. Seen(balance) = h[0] /\ Seen(txEnd[1]) = h[0]
  <2>1. \A k \in Key : balance[k] - unseen[k] = 0
    BY BalanceBounds DEF TypeOK
  <2>2. txEnd[1] = balance
    BY BalanceBounds DEF Block
  <2> QED  BY <1>3, <2>1, <2>2 DEF Seen
<1>6. LogHistory(h)
  BY <1>4, <1>5 DEF LogHistory
<1>7. MineInv
  BY <1>4, <1>6 DEF MineInv, Clipped
<1>8. DeltasInv /\ AggregatedInv /\ PanicInv
  BY DEF DeltasInv, AggregatedInv, PanicInv
<1> QED  BY <1>1, <1>2, <1>7, <1>8 DEF Inv

(* Every log of the chain, whatever its kind, extends the history.         *)
LEMMA LogStep ==
    ASSUME Inv, NEW kind \in {"Transfer", "Deposit", "Withdrawal"},
           NEW token \in Token, NEW from \in Party, NEW to \in Party, NEW value \in Amount,
           kind = "Deposit" => from = Outside, kind = "Withdrawal" => to = Outside,
           from = to => SelfTransfer,
           Emit(kind, token, from, to, value), Settle(token, from, to, value)
    PROVE  Inv'
<1> DEFINE n == Len(logs)
           kf == <<from, token>>
           kt == <<to, token>>
           log == [kind |-> kind, token |-> token, from |-> from, to |-> to,
                   value |-> value, tx |-> tx, ordinal |-> n + 1]
<1> USE DEF Inv
<1>1. /\ phase = "mine" /\ n < MaxLogs /\ logs' = Append(logs, log)
      /\ UNCHANGED <<unseen, tx, phase, deltas, store, storeDeltas, aggregated, indexer, panicked>>
  BY DEF Emit, Settle, Ordinal
<1>2. /\ from \in Component => balance[kf] >= value
      /\ balance' = Moved(token, from, to, value)
      /\ \A k \in Key : balance'[k] <= MaxBalance
      /\ txEnd' = [txEnd EXCEPT ![tx] = balance']
  BY DEF Settle
<1>3. n \in Nat /\ logs \in Seq(Log) /\ DOMAIN logs = 1..n /\ tx \in Block /\ tx \in Nat
      /\ MaxLogs \in Nat /\ value \in Nat /\ MaxBalance \in Nat
  BY BalanceBounds DEF TypeOK, Block
<1>4. log \in Log
  BY <1>3 DEF Log
<1> HIDE DEF log
<1>5. /\ logs' \in Seq(Log) /\ Len(logs') = n + 1 /\ DOMAIN logs' = 1..(n + 1)
      /\ \A i \in 1..n : logs'[i] = logs[i]
      /\ logs'[n + 1] = log
  BY <1>1, <1>3, <1>4
<1>6. ASSUME NEW k \in Key
      PROVE  /\ balance'[k] = balance[k] + (IF k = kt THEN value ELSE 0)
                                         - (IF k = kf THEN value ELSE 0)
             /\ balance[k] \in Nat /\ unseen[k] \in Nat
             /\ balance'[k] \in 0..MaxBalance
  <2>1. balance'[k] = balance[k] + (IF k = kt THEN value ELSE 0)
                                 - (IF k = kf THEN value ELSE 0)
    BY <1>2 DEF Moved
  <2>2. balance[k] \in Nat /\ unseen[k] \in Nat
    BY <1>3, BalanceBounds DEF TypeOK
  <2>3. k = kf => balance[k] >= value
    <3>1. k = kf => from \in Component
      BY DEF Key
    <3> QED  BY <1>2, <3>1
  <2>4. balance'[k] <= MaxBalance
    BY <1>2
  <2> HIDE DEF kf, kt
  <2> QED  BY <1>3, <2>1, <2>2, <2>3, <2>4
<1>7. balance' \in [Key -> 0..MaxBalance]
  <2>1. balance' = [k \in Key |-> balance'[k]]
    BY <1>2 DEF Moved
  <2> QED  BY <1>6, <2>1
<1>8. TypeOK'
  <2>1. logs' \in Seq(Log) /\ Len(logs') <= MaxLogs
    BY <1>1, <1>3, <1>5
  <2>2. txEnd' \in [Block -> [Key -> 0..MaxBalance]]
    BY <1>2, <1>3, <1>7 DEF TypeOK
  <2> QED  BY <1>1, <1>7, <2>1, <2>2 DEF TypeOK
<1>9. WellFormed(log)
  BY DEF WellFormed, log
<1>10. log.ordinal = n + 1 /\ log.tx = tx
  BY DEF log
<1> DEFINE n1 == n + 1
<1>11. LogsInv'
  <2> SUFFICES ASSUME NEW i \in 1..(n + 1)
               PROVE  logs'[i].ordinal = i /\ logs'[i].tx <= tx /\ WellFormed(logs'[i])
    BY <1>1, <1>5 DEF LogsInv
  <2>1. CASE i \in 1..n
    BY <1>3, <1>5, <2>1 DEF LogsInv
  <2>2. CASE i = n + 1
    BY <1>3, <1>5, <1>9, <1>10, <2>2
  <2> QED  BY <1>3, <2>1, <2>2
<1>12. PICK h : /\ LogHistory(h) /\ h[0] = store
                /\ \A k \in Key : indexer[k] = Clipped(store[k])
  BY <1>1 DEF MineInv
<1>13. PICK nb : nb = [k \in Key |-> balance'[k] - unseen[k]]
  OBVIOUS
<1>14. nb \in Sums /\ Seen(balance)' = nb /\ Seen(txEnd[tx])' = nb
  <2>1. nb \in Sums
    BY <1>6, <1>13 DEF Sums
  <2>2. Seen(balance)' = nb
    BY <1>1, <1>13 DEF Seen
  <2>3. txEnd'[tx] = balance' /\ tx' = tx /\ unseen' = unseen
    BY <1>1, <1>2, <1>3 DEF TypeOK
  <2>4. Seen(txEnd[tx])' = nb
    BY <1>13, <2>3 DEF Seen
  <2> QED  BY <2>1, <2>2, <2>4
<1>15. Effect(Seen(balance), log) = nb
  <2>1. Effect(Seen(balance), log)
         = [k \in Key |-> Seen(balance)[k] + (IF k = kt THEN value ELSE 0)
                                           - (IF k = kf THEN value ELSE 0)]
    BY DEF Effect, log
  <2>2. ASSUME NEW k \in Key
        PROVE  Seen(balance)[k] + (IF k = kt THEN value ELSE 0) - (IF k = kf THEN value ELSE 0)
               = balance'[k] - unseen[k]
    <3>1. Seen(balance)[k] = balance[k] - unseen[k]
      BY DEF Seen
    <3> HIDE DEF kt, kf
    <3> QED  BY <1>3, <1>6, <3>1
  <2> HIDE DEF kt, kf
  <2> QED  BY <1>13, <2>1, <2>2
<1>16. PICK hh : hh = [i \in 0..(n + 1) |-> IF i <= n THEN h[i] ELSE nb]
  OBVIOUS
<1>17. /\ h \in [0..n -> Sums] /\ h[n] = Seen(balance)
       /\ \A i \in 1..n : h[i] = Effect(h[i - 1], logs[i])
       /\ \A t \in 1..tx : \E m \in 0..n :
             h[m] = Seen(txEnd[t]) /\ \A i \in 1..n : logs[i].tx <= t <=> i <= m
  BY <1>3, <1>12 DEF LogHistory
<1> HIDE DEF n
<1>18. /\ \A i \in 0..n : hh[i] = h[i]
       /\ hh[n + 1] = nb
       /\ hh \in [0..(n + 1) -> Sums]
  <2>1. \A i \in 0..n : i \in 0..(n + 1) /\ i <= n
    BY <1>3
  <2>2. n + 1 \in 0..(n + 1) /\ ~(n + 1 <= n)
    BY <1>3
  <2>3. \A i \in 0..(n + 1) : i <= n => i \in 0..n
    BY <1>3
  <2> QED  BY <1>14, <1>16, <1>17, <2>1, <2>2, <2>3
<1>19. ASSUME NEW i \in 1..(n + 1) PROVE hh[i] = Effect(hh[i - 1], logs'[i])
  <2>1. CASE i \in 1..n
    <3>1. i \in 0..n /\ i - 1 \in 0..n
      BY <1>3, <2>1
    <3> QED  BY <1>5, <1>17, <1>18, <2>1, <3>1
  <2>2. CASE i = n + 1
    <3>1. i - 1 = n /\ n \in 0..n
      BY <1>3, <2>2
    <3> QED  BY <1>5, <1>15, <1>17, <1>18, <2>2, <3>1
  <2> QED  BY <1>3, <2>1, <2>2
<1>20. ASSUME NEW t \in 1..tx
       PROVE  \E m \in 0..(n + 1) :
                hh[m] = Seen(txEnd[t])' /\ \A i \in 1..(n + 1) : logs'[i].tx <= t <=> i <= m
  <2>1. CASE t = tx
    <3>1. hh[n + 1] = Seen(txEnd[t])'
      BY <1>1, <1>14, <1>18, <2>1
    <3>2. \A i \in 1..(n + 1) : logs'[i].tx <= t /\ i <= n + 1
      BY <1>1, <1>3, <1>5, <1>11, <2>1 DEF LogsInv
    <3>3. n + 1 \in 0..(n + 1)
      BY <1>3
    <3> QED  BY <3>1, <3>2, <3>3
  <2>2. CASE t # tx
    <3>1. PICK m \in 0..n : h[m] = Seen(txEnd[t]) /\ \A i \in 1..n : logs[i].tx <= t <=> i <= m
      BY <1>17
    <3>2. Seen(txEnd[t])' = Seen(txEnd[t])
      <4>1. t \in Block
        BY <1>3, BalanceBounds DEF Block
      <4>2. txEnd'[t] = txEnd[t]
        BY <1>2, <2>2, <4>1 DEF TypeOK
      <4> QED  BY <1>1, <4>2 DEF Seen
    <3>3. hh[m] = Seen(txEnd[t])' /\ m \in 0..(n + 1)
      BY <1>3, <1>18, <3>1, <3>2
    <3>4. ASSUME NEW i \in 1..(n + 1) PROVE logs'[i].tx <= t <=> i <= m
      <4>1. CASE i \in 1..n
        BY <1>5, <3>1, <4>1
      <4>2. CASE i = n + 1
        <5>1. ~(tx <= t) /\ ~(n + 1 <= m)
          BY <1>3, <2>2
        <5> QED  BY <1>5, <1>10, <4>2, <5>1
      <4> QED  BY <1>3, <4>1, <4>2
    <3> QED  BY <3>3, <3>4
  <2> QED  BY <2>1, <2>2
<1>21. LogHistory(hh)'
  BY <1>1, <1>5, <1>14, <1>18, <1>19, <1>20 DEF LogHistory
<1>22. hh[0] = store'
  BY <1>1, <1>3, <1>12, <1>18
<1>23. MineInv'
  BY <1>1, <1>12, <1>21, <1>22 DEF MineInv
<1>24. (DeltasInv /\ AggregatedInv /\ PanicInv)'
  BY <1>1 DEF DeltasInv, AggregatedInv, PanicInv
<1> QED  BY <1>8, <1>11, <1>23, <1>24

LEMMA NextTxStep == ASSUME Inv, NextTx PROVE Inv'
<1> USE DEF Inv, NextTx
<1>1. tx \in Nat /\ tx + 1 \in Block /\ DOMAIN logs = 1..Len(logs) /\ Len(logs) \in Nat
  BY BalanceBounds DEF TypeOK, Block
<1>2. balance \in [Key -> 0..MaxBalance] /\ txEnd \in [Block -> [Key -> 0..MaxBalance]]
  BY DEF TypeOK
<1>3. txEnd' \in [Block -> [Key -> 0..MaxBalance]]
  BY <1>2
<1>4. TypeOK'
  BY <1>1, <1>3 DEF TypeOK
<1>5. \A i \in DOMAIN logs : logs[i].tx \in Nat /\ logs[i].tx <= tx
  <2> SUFFICES ASSUME NEW i \in DOMAIN logs PROVE logs[i].tx \in Nat /\ logs[i].tx <= tx
    OBVIOUS
  <2>1. logs[i] \in Log
    BY DEF TypeOK
  <2> QED  BY <2>1 DEF Log, Block, LogsInv
<1>6. LogsInv'
  BY <1>1, <1>5 DEF LogsInv
<1>7. PICK h : /\ LogHistory(h) /\ h[0] = store
               /\ \A k \in Key : indexer[k] = Clipped(store[k])
  BY DEF MineInv
<1>8. ASSUME NEW t \in 1..(tx + 1)
      PROVE  \E n \in 0..Len(logs) :
                h[n] = Seen(txEnd[t])' /\ \A i \in DOMAIN logs : logs[i].tx <= t <=> i <= n
  <2>1. CASE t = tx + 1
    <3>1. txEnd'[t] = balance
      BY <1>1, <1>2, <2>1
    <3>2. h[Len(logs)] = Seen(txEnd[t])'
      BY <1>7, <3>1 DEF LogHistory, Seen
    <3>3. \A i \in DOMAIN logs : logs[i].tx <= t /\ i <= Len(logs)
      BY <1>1, <1>5, <2>1
    <3>4. Len(logs) \in 0..Len(logs)
      BY <1>1
    <3> QED  BY <3>2, <3>3, <3>4
  <2>2. CASE t # tx + 1
    <3>1. t \in 1..tx /\ t \in Block
      BY <1>1, <2>2, BalanceBounds DEF Block
    <3>2. txEnd'[t] = txEnd[t]
      BY <1>2, <2>2, <3>1
    <3>3. Seen(txEnd[t])' = Seen(txEnd[t])
      BY <3>2 DEF Seen
    <3> QED  BY <1>7, <3>1, <3>3 DEF LogHistory
  <2> QED  BY <2>1, <2>2
<1>9. LogHistory(h)'
  BY <1>7, <1>8 DEF LogHistory, Seen
<1>10. MineInv'
  BY <1>7, <1>9 DEF MineInv
<1>11. (DeltasInv /\ AggregatedInv /\ PanicInv)'
  BY DEF DeltasInv, AggregatedInv, PanicInv
<1> QED  BY <1>4, <1>6, <1>10, <1>11

LEMMA MapDeltasStep == ASSUME Inv, MapDeltas PROVE Inv'
<1> USE DEF Inv
<1>1. /\ phase = "mine" /\ phase' = "store"
      /\ deltas' = FlattenSeq([i \in DOMAIN logs |-> DeltasOf(logs[i])])
      /\ UNCHANGED <<balance, unseen, logs, tx, txEnd, store, storeDeltas,
                     aggregated, indexer, panicked>>
  BY DEF MapDeltas, chainVars
<1>2. PICK h : /\ LogHistory(h) /\ h[0] = store
               /\ \A k \in Key : indexer[k] = Clipped(store[k])
  BY <1>1 DEF MineInv
<1>3. PICK d : d = deltas'
  OBVIOUS
<1>4. Extracted(d, Len(logs), h)
  BY <1>1, <1>2, <1>3, ExtractAll
<1>5. logs \in Seq(Log) /\ Len(logs) \in Nat /\ DOMAIN logs = 1..Len(logs) /\ tx \in Nat
  BY DEF TypeOK, Block
<1>6. /\ d \in Seq(BalanceDelta)
      /\ \A i \in DOMAIN d : d[i].ord \in 1..Len(logs) /\ d[i].tx = logs[d[i].ord].tx
      /\ \A i, j \in DOMAIN d : i < j /\ d[i].key = d[j].key /\ d[i].ord >= d[j].ord => SelfTransfer
      /\ \A m \in 1..Len(logs), k \in Key :
            Touches(logs[m], k) => \E j \in DOMAIN d : d[j].key = k /\ d[j].ord = m
  BY <1>4 DEF Extracted
<1>7. PICK g : /\ Running(g, d) /\ g[0] = h[0] /\ g[Len(d)] = h[Len(logs)]
               /\ \A m \in 0..Len(logs) : \E c \in 0..Len(d) :
                    g[c] = h[m] /\ \A i \in DOMAIN d : d[i].ord <= m <=> i <= c
  BY <1>4 DEF Extracted
<1>8. TypeOK'
  BY <1>1, <1>3, <1>6 DEF TypeOK
<1>9. LogsInv'
  BY <1>1 DEF LogsInv
<1>10. \A i \in DOMAIN d : d[i].tx <= tx
  BY <1>5, <1>6 DEF LogsInv
<1>11. ASSUME NEW t \in 1..tx
       PROVE  \E c \in 0..Len(d) :
                g[c] = Seen(txEnd[t]) /\ \A i \in DOMAIN d : d[i].tx <= t <=> i <= c
  <2>1. PICK m \in 0..Len(logs) :
            h[m] = Seen(txEnd[t]) /\ \A i \in DOMAIN logs : logs[i].tx <= t <=> i <= m
    BY <1>2 DEF LogHistory
  <2>2. PICK c \in 0..Len(d) : g[c] = h[m] /\ \A i \in DOMAIN d : d[i].ord <= m <=> i <= c
    BY <1>7
  <2>3. \A i \in DOMAIN d : d[i].tx <= t <=> i <= c
    BY <1>5, <1>6, <2>1, <2>2
  <2> QED  BY <2>1, <2>2, <2>3
<1>12. h[Len(logs)] = Seen(balance)
  BY <1>2 DEF LogHistory
<1>13. DeltaHistory(g)'
  <2>1. Running(g, deltas')
    BY <1>3, <1>7
  <2>2. g[Len(deltas')] = Seen(balance)'
    BY <1>1, <1>3, <1>7, <1>12 DEF Seen
  <2>3. ASSUME NEW t \in 1..tx'
        PROVE  \E c \in 0..Len(deltas') :
                  g[c] = Seen(txEnd[t])' /\ \A i \in DOMAIN deltas' : deltas'[i].tx <= t <=> i <= c
    <3>1. t \in 1..tx /\ Seen(txEnd[t])' = Seen(txEnd[t])
      BY <1>1 DEF Seen
    <3> QED  BY <1>3, <1>11, <3>1
  <2> QED  BY <2>1, <2>2, <2>3 DEF DeltaHistory
<1>14. Reaches(g)'
  BY <1>1, <1>2, <1>7, <1>13 DEF Reaches
<1>15. (BadOrdinals => SelfTransfer)'
  <2>1. BadOrdinals' <=> \E i, j \in DOMAIN d :
            i < j /\ d[i].key = d[j].key /\ d[i].ord >= d[j].ord
    BY <1>3 DEF BadOrdinals
  <2> QED  BY <1>6, <2>1
<1>16. \A i \in DOMAIN logs, k \in Key : Touches(logs[i], k) =>
          \E j \in DOMAIN d : d[j].key = k /\ d[j].tx = logs[i].tx
  <2> SUFFICES ASSUME NEW i \in DOMAIN logs, NEW k \in Key, Touches(logs[i], k)
               PROVE  \E j \in DOMAIN d : d[j].key = k /\ d[j].tx = logs[i].tx
    OBVIOUS
  <2>1. PICK j \in DOMAIN d : d[j].key = k /\ d[j].ord = i
    BY <1>5, <1>6
  <2>2. d[j].tx = logs[i].tx
    BY <1>6, <2>1
  <2> QED  BY <2>1, <2>2
<1>17. DeltasInv'
  BY <1>1, <1>3, <1>10, <1>14, <1>15, <1>16 DEF DeltasInv
<1>18. (MineInv /\ AggregatedInv /\ PanicInv)'
  BY <1>1 DEF MineInv, AggregatedInv, PanicInv
<1> QED  BY <1>8, <1>9, <1>17, <1>18

LEMMA StoreStep == ASSUME Inv, StoreBalanceChanges PROVE Inv'
<1> USE DEF Inv
<1>1. /\ phase = "store"
      /\ UNCHANGED <<balance, unseen, logs, tx, txEnd, deltas, aggregated, indexer>>
  BY DEF StoreBalanceChanges, chainVars
<1>2. LogsInv'
  BY <1>1 DEF LogsInv
<1>3. /\ \A i \in DOMAIN deltas : deltas[i].tx <= tx
      /\ BadOrdinals => SelfTransfer
      /\ \A i \in DOMAIN logs, k \in Key : Touches(logs[i], k) =>
            \E j \in DOMAIN deltas : deltas[j].key = k /\ deltas[j].tx = logs[i].tx
  BY <1>1 DEF DeltasInv
<1>4. PICK g : Reaches(g)
  BY <1>1 DEF DeltasInv
<1>5. BadOrdinals' <=> BadOrdinals
  BY <1>1 DEF BadOrdinals
<1>6. /\ \A i \in DOMAIN deltas' : deltas'[i].tx <= tx'
      /\ BadOrdinals' => SelfTransfer
      /\ \A i \in DOMAIN logs', k \in Key : Touches(logs'[i], k) =>
            \E j \in DOMAIN deltas' : deltas'[j].key = k /\ deltas'[j].tx = logs'[i].tx
  BY <1>1, <1>3, <1>5
<1>7. DeltaHistory(g)'
  BY <1>1, <1>4 DEF Reaches, DeltaHistory, Seen
<1>8. CASE BadOrdinals
  <2>1. panicked' = TRUE /\ UNCHANGED <<phase, store, storeDeltas>>
    BY <1>8 DEF StoreBalanceChanges
  <2>2. TypeOK'
    BY <1>1, <2>1 DEF TypeOK
  <2>3. PanicInv'
    BY <1>3, <1>8 DEF PanicInv
  <2>4. Reaches(g)'
    BY <1>1, <1>4, <1>7, <2>1 DEF Reaches
  <2>5. DeltasInv'
    BY <1>6, <2>4 DEF DeltasInv
  <2>6. (MineInv /\ AggregatedInv)'
    BY <1>1, <2>1 DEF MineInv, AggregatedInv
  <2> QED  BY <1>2, <2>2, <2>3, <2>5, <2>6
<1>9. CASE ~BadOrdinals
  <2>1. /\ store' = StoreAfter[Len(deltas)]
        /\ storeDeltas' = [i \in DOMAIN deltas |->
               [key |-> deltas[i].key, new_value |-> StoreAfter[i][deltas[i].key]]]
        /\ phase' = "aggregate"
        /\ panicked' = panicked
    BY <1>9 DEF StoreBalanceChanges
  <2>2. deltas \in Seq(BalanceDelta) /\ Running(g, deltas) /\ g[0] = store
    BY <1>1, <1>4 DEF Reaches, DeltaHistory, TypeOK
  <2>3. \A n \in 0..Len(deltas) : StoreAfter[n] = g[n]
    BY <2>2, StoreFollows
  <2>4. Len(deltas) \in Nat /\ DOMAIN deltas = 1..Len(deltas)
    BY <2>2
  <2>5. store' = g[Len(deltas)]
    BY <2>1, <2>3, <2>4
  <2>6. storeDeltas' = StoreDeltasOf(g)
    BY <2>1, <2>3, <2>4 DEF StoreDeltasOf
  <2>7. StoreDeltasOf(g)' = StoreDeltasOf(g)
    BY <1>1 DEF StoreDeltasOf
  <2>8. \A n \in 0..Len(deltas) : g[n] \in Sums
    BY <2>2 DEF Running
  <2>9. StoreDeltasOf(g) \in Seq([key : Key, new_value : Int])
    <3> DEFINE E(i) == [key |-> deltas[i].key, new_value |-> g[i][deltas[i].key]]
    <3>1. ASSUME NEW i \in 1..Len(deltas) PROVE E(i) \in [key : Key, new_value : Int]
      <4>1. deltas[i] \in BalanceDelta
        BY <2>2
      <4>2. deltas[i].key \in Key
        BY <4>1 DEF BalanceDelta
      <4>3. g[i][deltas[i].key] \in Int
        BY <2>4, <2>8, <4>2 DEF Sums
      <4> QED  BY <4>2, <4>3
    <3>2. StoreDeltasOf(g) = [i \in 1..Len(deltas) |-> E(i)]
      BY <2>4 DEF StoreDeltasOf
    <3> HIDE DEF E
    <3> QED  BY <2>4, <3>1, <3>2
  <2>10. TypeOK'
    <3>1. store' \in [Key -> Int] /\ storeDeltas' \in Seq([key : Key, new_value : Int])
      BY <2>4, <2>5, <2>6, <2>8, <2>9 DEF Sums
    <3> QED  BY <1>1, <2>1, <3>1 DEF TypeOK
  <2>11. Reaches(g)'
    <3>1. store' = g[Len(deltas')] /\ storeDeltas' = StoreDeltasOf(g)'
      BY <1>1, <2>5, <2>6, <2>7
    <3> QED  BY <1>1, <1>4, <1>7, <2>1, <3>1 DEF Reaches
  <2>12. DeltasInv'
    BY <1>6, <2>11 DEF DeltasInv
  <2>13. (MineInv /\ AggregatedInv /\ PanicInv)'
    BY <2>1 DEF MineInv, AggregatedInv, PanicInv
  <2> QED  BY <1>2, <2>10, <2>12, <2>13
<1> QED  BY <1>8, <1>9

LEMMA AggregateStep == ASSUME Inv, AggregateBalancesChanges PROVE Inv'
<1> USE DEF Inv
<1>1. /\ phase = "aggregate" /\ phase' = "apply"
      /\ aggregated' = [t \in Block |-> [k \in Key |-> LastChange(t, k)]]
      /\ UNCHANGED <<balance, unseen, logs, tx, txEnd, deltas, store, storeDeltas, indexer, panicked>>
  BY DEF AggregateBalancesChanges, chainVars
<1>2. /\ \A i \in DOMAIN deltas : deltas[i].tx <= tx
      /\ BadOrdinals => SelfTransfer
      /\ \A i \in DOMAIN logs, k \in Key : Touches(logs[i], k) =>
            \E j \in DOMAIN deltas : deltas[j].key = k /\ deltas[j].tx = logs[i].tx
  BY <1>1 DEF DeltasInv
<1>3. PICK g : Reaches(g)
  BY <1>1 DEF DeltasInv
<1>4. DeltaHistory(g) /\ storeDeltas = StoreDeltasOf(g)
  BY <1>1, <1>3 DEF Reaches
<1>5. ASSUME NEW t \in Block, NEW k \in Key PROVE LastChange(t, k) \in Nat \cup {NoChange}
  <2>1. IF \E i \in DOMAIN deltas : deltas[i].tx = t /\ deltas[i].key = k
        THEN t \in 1..tx /\ LastChange(t, k) = Clipped(Seen(txEnd[t])[k])
        ELSE LastChange(t, k) = NoChange
    BY <1>2, <1>4, Reported
  <2>2. txEnd[t][k] \in Int /\ unseen[k] \in Int
    BY DEF TypeOK
  <2>3. Clipped(Seen(txEnd[t])[k]) \in Nat
    BY <2>2 DEF Clipped, Seen
  <2> QED  BY <2>1, <2>3
<1>6. TypeOK'
  <2>1. aggregated' \in [Block -> [Key -> Nat \cup {NoChange}]]
    BY <1>1, <1>5
  <2> QED  BY <1>1, <2>1 DEF TypeOK
<1>7. LogsInv' /\ MineInv' /\ PanicInv'
  BY <1>1 DEF LogsInv, MineInv, PanicInv
<1>8. AggregatedInv'
  <2>1. \A t, k : LastChange(t, k)' = LastChange(t, k)
    BY <1>1 DEF LastChange, LastGroup
  <2> QED  BY <1>1, <2>1 DEF AggregatedInv
<1>9. BadOrdinals' <=> BadOrdinals
  BY <1>1 DEF BadOrdinals
<1>10. Reaches(g)'
  <2>1. DeltaHistory(g)'
    BY <1>1, <1>4 DEF DeltaHistory, Seen
  <2>2. StoreDeltasOf(g)' = StoreDeltasOf(g)
    BY <1>1 DEF StoreDeltasOf
  <2> QED  BY <1>1, <1>3, <2>1, <2>2 DEF Reaches
<1>11. DeltasInv'
  BY <1>1, <1>2, <1>9, <1>10 DEF DeltasInv
<1> QED  BY <1>6, <1>7, <1>8, <1>11

LEMMA ApplyStep == ASSUME Inv, Apply PROVE Inv'
<1> USE DEF Inv
<1>1. /\ phase = "apply" /\ phase' = "mine"
      /\ indexer' = [k \in Key |-> LatestChange(k)]
      /\ logs' = <<>> /\ tx' = 1 /\ txEnd' = [t \in Block |-> balance]
      /\ deltas' = <<>> /\ storeDeltas' = <<>>
      /\ aggregated' = [t \in Block |-> [k \in Key |-> NoChange]]
      /\ UNCHANGED <<balance, unseen, store, panicked>>
  BY DEF Apply, EmptyBlock
<1>2. \A i \in DOMAIN deltas : deltas[i].tx <= tx
  BY <1>1 DEF DeltasInv
<1>3. PICK g : Reaches(g)
  BY <1>1 DEF DeltasInv
<1>4. /\ DeltaHistory(g) /\ storeDeltas = StoreDeltasOf(g) /\ store = g[Len(deltas)]
      /\ \A k \in Key : indexer[k] = Clipped(g[0][k])
      /\ aggregated = [t \in Block |-> [k \in Key |-> LastChange(t, k)]]
  BY <1>1, <1>3 DEF Reaches, AggregatedInv
<1>5. store = Seen(balance)
  BY <1>4 DEF DeltaHistory
<1>6. \A k \in Key : indexer'[k] = Clipped(store[k])
  <2> SUFFICES ASSUME NEW k \in Key PROVE indexer'[k] = Clipped(store[k])
    OBVIOUS
  <2>1. LatestChange(k) = Clipped(Seen(balance)[k])
    BY <1>2, <1>4, Applied
  <2> QED  BY <1>1, <1>5, <2>1
<1>7. store \in [Key -> Int] /\ balance \in [Key -> 0..MaxBalance]
  BY DEF TypeOK
<1>8. indexer' \in [Key -> Nat]
  <2>1. \A k \in Key : indexer'[k] \in Nat
    BY <1>6, <1>7 DEF Clipped
  <2> QED  BY <1>1, <2>1
<1>9. TypeOK'
  <2>1. tx' \in Block
    BY <1>1, BalanceBounds DEF Block
  <2>2. /\ logs' \in Seq(Log) /\ Len(logs') <= MaxLogs
        /\ deltas' \in Seq(BalanceDelta)
        /\ storeDeltas' \in Seq([key : Key, new_value : Int])
    BY <1>1, BalanceBounds
  <2>3. /\ txEnd' \in [Block -> [Key -> 0..MaxBalance]]
        /\ aggregated' \in [Block -> [Key -> Nat \cup {NoChange}]]
    BY <1>1, <1>7
  <2> QED  BY <1>1, <1>7, <1>8, <2>1, <2>2, <2>3 DEF TypeOK
<1>10. PICK h : h = [i \in 0..0 |-> store]
  OBVIOUS
<1>11. h \in [0..0 -> Sums] /\ h[0] = store' /\ Len(logs') = 0 /\ DOMAIN logs' = {}
  BY <1>1, <1>7, <1>10 DEF Sums
<1>12. h[0] = Seen(balance)' /\ h[0] = Seen(txEnd[1])'
  <2>1. 1 \in Block
    BY BalanceBounds DEF Block
  <2>2. txEnd'[1] = balance
    BY <1>1, <2>1
  <2> QED  BY <1>1, <1>5, <1>11, <2>2 DEF Seen
<1>13. LogHistory(h)'
  BY <1>1, <1>11, <1>12 DEF LogHistory
<1>14. MineInv'
  BY <1>1, <1>6, <1>11, <1>13 DEF MineInv
<1>15. LogsInv'
  BY <1>1, <1>11 DEF LogsInv
<1>16. (DeltasInv /\ AggregatedInv /\ PanicInv)'
  BY <1>1 DEF DeltasInv, AggregatedInv, PanicInv
<1> QED  BY <1>9, <1>14, <1>15, <1>16

LEMMA InvStutter == ASSUME Inv, UNCHANGED vars PROVE Inv'
<1> USE DEF Inv, vars
<1>1. TypeOK' /\ LogsInv' /\ PanicInv'
  BY DEF TypeOK, LogsInv, PanicInv
<1>2. MineInv'
  <2>1. ASSUME NEW h PROVE LogHistory(h)' <=> LogHistory(h)
    BY DEF LogHistory, Seen
  <2> QED  BY <2>1 DEF MineInv
<1>3. DeltasInv'
  <2>1. ASSUME NEW g PROVE Reaches(g)' <=> Reaches(g)
    BY DEF Reaches, DeltaHistory, Seen, StoreDeltasOf
  <2>2. BadOrdinals' <=> BadOrdinals
    BY DEF BadOrdinals
  <2> QED  BY <2>1, <2>2 DEF DeltasInv
<1>4. AggregatedInv'
  <2>1. \A t, k : LastChange(t, k)' = LastChange(t, k)
    BY DEF LastChange, LastGroup
  <2> QED  BY <2>1 DEF AggregatedInv
<1> QED  BY <1>1, <1>2, <1>3, <1>4

LEMMA InvNext == ASSUME Inv, [Next]_vars PROVE Inv'
<1>1. CASE UNCHANGED vars
  BY <1>1, InvStutter
<1>2. ASSUME NEW token \in Token, NEW value \in Amount, NEW from \in Party, NEW to \in Party,
             Transfer(token, from, to, value)
      PROVE  Inv'
  <2>1. /\ from = to => SelfTransfer
        /\ Emit("Transfer", token, from, to, value) /\ Settle(token, from, to, value)
    BY <1>2 DEF Transfer
  <2> QED  BY <2>1, LogStep
<1>3. ASSUME NEW token \in Token, NEW value \in Amount, NEW c \in Component,
             Deposit(token, c, value)
      PROVE  Inv'
  <2>1. /\ c # Outside /\ c \in Party /\ Outside \in Party
        /\ Emit("Deposit", token, Outside, c, value) /\ Settle(token, Outside, c, value)
    BY <1>3, BalanceBounds DEF Deposit, Party
  <2> QED  BY <2>1, LogStep
<1>4. ASSUME NEW token \in Token, NEW value \in Amount, NEW c \in Component,
             Withdrawal(token, c, value)
      PROVE  Inv'
  <2>1. /\ c # Outside /\ c \in Party /\ Outside \in Party
        /\ Emit("Withdrawal", token, c, Outside, value) /\ Settle(token, c, Outside, value)
    BY <1>4, BalanceBounds DEF Withdrawal, Party
  <2> QED  BY <2>1, LogStep
<1>5. Next => \/ \E token \in Token, value \in Amount, from \in Party, to \in Party :
                    Transfer(token, from, to, value)
              \/ \E token \in Token, value \in Amount, c \in Component :
                    Deposit(token, c, value) \/ Withdrawal(token, c, value)
              \/ NextTx \/ MapDeltas \/ StoreBalanceChanges
              \/ AggregateBalancesChanges \/ Apply
  BY DEF Next
<1> QED  BY <1>1, <1>2, <1>3, <1>4, <1>5, NextTxStep, MapDeltasStep, StoreStep, AggregateStep, ApplyStep

LEMMA Invariance == Spec => []Inv
<1> QED  BY InitInv, InvNext, PTL DEF Spec

-----------------------------------------------------------------------------
(* The chain, the store and what the three modules exchange keep their     *)
(* types.                                                                  *)
THEOREM TypeCorrect == Spec => []TypeOK
<1>1. Inv => TypeOK
  BY DEF Inv
<1> QED  BY <1>1, Invariance, PTL

(* Between blocks the history is one point: the store and the consumer     *)
(* agree with the chain.                                                   *)
LEMMA BetweenBlocks ==
    ASSUME Inv, phase = "mine", logs = <<>>, NEW k \in Key
    PROVE  store[k] = balance[k] - unseen[k] /\ indexer[k] = Clipped(store[k])
<1>1. PICK h : /\ LogHistory(h) /\ h[0] = store
               /\ \A l \in Key : indexer[l] = Clipped(store[l])
  BY DEF Inv, MineInv
<1>2. h[0] = Seen(balance)
  <2>1. Len(logs) = 0
    OBVIOUS
  <2> QED  BY <1>1, <2>1 DEF LogHistory
<1> QED  BY <1>1, <1>2 DEF Seen

(* store_balance_changes: between blocks the store holds, for every key,   *)
(* exactly what the component received since indexing began.               *)
THEOREM StoreAddsUp == Spec => []StoreIsExact
<1>1. Inv => StoreIsExact
  BY BetweenBlocks DEF StoreIsExact
<1> QED  BY <1>1, Invariance, PTL

(* Between blocks the consumer holds every balance that is visible,        *)
(* clipped at zero, and never more than the component has.                 *)
THEOREM ConsumerMirrors == Spec => []BalancesMirrored
<1>1. ASSUME Inv PROVE BalancesMirrored
  <2> SUFFICES ASSUME phase = "mine", logs = <<>>, NEW k \in Key
               PROVE  indexer[k] = Visible(balance, k) /\ indexer[k] <= balance[k]
    BY DEF BalancesMirrored
  <2>1. indexer[k] = Visible(balance, k)
    BY <1>1, BetweenBlocks DEF Visible
  <2>2. balance[k] \in Nat /\ unseen[k] \in Nat
    BY <1>1, BalanceBounds DEF Inv, TypeOK
  <2> QED  BY <2>1, <2>2 DEF Visible, Clipped
<1> QED  BY <1>1, Invariance, PTL

(* aggregate_balances_changes: a balance reported under a transaction is   *)
(* the one at its end, and a transaction that moves a balance reports it.  *)
THEOREM TransactionsAreReported == Spec => []BalancesPerTransaction
<1>1. ASSUME Inv PROVE BalancesPerTransaction
  <2> SUFFICES ASSUME phase = "apply", NEW t \in Block, NEW k \in Key
               PROVE  /\ aggregated[t][k] # NoChange => aggregated[t][k] = Visible(txEnd[t], k)
                      /\ (\E i \in DOMAIN logs : /\ logs[i].tx = t /\ logs[i].token = k[2]
                                                 /\ k[1] \in {logs[i].from, logs[i].to})
                            => aggregated[t][k] # NoChange
    BY DEF BalancesPerTransaction
  <2>1. PICK g : Reaches(g)
    BY <1>1 DEF Inv, DeltasInv
  <2>2. IF \E i \in DOMAIN deltas : deltas[i].tx = t /\ deltas[i].key = k
        THEN t \in 1..tx /\ LastChange(t, k) = Clipped(Seen(txEnd[t])[k])
        ELSE LastChange(t, k) = NoChange
    BY <1>1, <2>1, Reported DEF Inv, DeltasInv, Reaches
  <2>3. aggregated[t][k] = LastChange(t, k)
    BY <1>1 DEF Inv, AggregatedInv
  <2>4. Clipped(Seen(txEnd[t])[k]) = Visible(txEnd[t], k)
    BY DEF Seen, Visible
  <2>5. Clipped(Seen(txEnd[t])[k]) \in Nat
    <3>1. txEnd[t][k] \in Int /\ unseen[k] \in Int
      BY <1>1 DEF Inv, TypeOK
    <3> QED  BY <3>1 DEF Clipped, Seen
  <2>6. ASSUME NEW i \in DOMAIN logs, logs[i].tx = t, Touches(logs[i], k)
        PROVE  \E j \in DOMAIN deltas : deltas[j].tx = t /\ deltas[j].key = k
    BY <1>1, <2>6 DEF Inv, DeltasInv
  <2> QED  BY <2>2, <2>3, <2>4, <2>5, <2>6, BalanceBounds DEF Touches
<1> QED  BY <1>1, Invariance, PTL

(* Without a component that transfers to itself, store_balance_changes     *)
(* does not panic on what extract_balance_deltas_from_tx produces.         *)
THEOREM SelfTransfersOnly == ~SelfTransfer => (Spec => []NeverPanics)
<1> SUFFICES ASSUME ~SelfTransfer PROVE Spec => []NeverPanics
  OBVIOUS
<1>1. Inv => NeverPanics
  BY DEF Inv, PanicInv, NeverPanics
<1> QED  BY <1>1, Invariance, PTL

-----------------------------------------------------------------------------
(* Contract changes (ContractExtraction, of which X is the instance)       *)

(* A set of indices has a least and a greatest.                            *)
LEMMA Least ==
    ASSUME NEW S \in SUBSET Nat, S # {}
    PROVE  X!Min(S) \in S /\ \A i \in S : X!Min(S) <= i
<1>1. PICK x \in S : \A y \in S : <<y, x>> \notin OpToRel(<, Nat)
  BY NatLessThanWellFounded, WFMin
<1>2. \A y \in S : x <= y
  <2> SUFFICES ASSUME NEW y \in S, y < x PROVE FALSE
    OBVIOUS
  <2>1. <<y, x>> \in OpToRel(<, Nat)
    BY DEF OpToRel
  <2> QED  BY <1>1, <2>1
<1> QED  BY <1>1, <1>2 DEF X!Min

LEMMA Greatest ==
    ASSUME NEW n \in Nat, NEW S \in SUBSET (1..n), S # {}
    PROVE  X!Max(S) \in S /\ \A i \in S : i <= X!Max(S)
<1> DEFINE T == {m \in Nat : \A i \in S : i <= m}
<1>1. T \in SUBSET Nat /\ n \in T
  OBVIOUS
<1>2. X!Min(T) \in T /\ \A m \in T : X!Min(T) <= m
  <2> HIDE DEF T
  <2> QED  BY <1>1, Least
<1>3. PICK x : x = X!Min(T)
  OBVIOUS
<1>4. x \in Nat /\ \A i \in S : i <= x
  BY <1>2, <1>3
<1>5. x \in S
  <2> SUFFICES ASSUME x \notin S PROVE FALSE
    OBVIOUS
  <2>1. \A i \in S : i < x /\ i >= 1
    BY <1>4
  <2>2. PICK i \in S : TRUE
    OBVIOUS
  <2>3. x - 1 \in Nat /\ x - 1 < x
    BY <1>4, <2>1, <2>2
  <2>4. \A j \in S : j <= x - 1
    BY <2>1, <1>4
  <2>5. x - 1 \in T
    BY <2>3, <2>4
  <2> QED  BY <1>2, <1>3, <2>3, <2>5
<1>6. \A i \in S : x >= i
  BY <1>4, <1>5
<1>7. X!Max(S) \in S /\ \A i \in S : X!Max(S) >= i
  BY <1>5, <1>6 DEF X!Max
<1> QED  BY <1>7

-----------------------------------------------------------------------------
(* Changes of one location                                                 *)

(* The changes ch at the indices lead from one value to another: the first *)
(* of them changes the one, the last of them leaves the other.             *)
Leads(ch, is, old, new) ==
    /\ is = {} => old = new
    /\ \A i \in is : (\A j \in is : i <= j) => ch[i].old = old
    /\ \A i \in is : (\A j \in is : j <= i) => ch[i].new = new

(* One change more, of the present value.                                  *)
LEMMA OneMore ==
    ASSUME NEW n \in Nat, NEW is \in SUBSET (1..n), NEW m \in Nat, m > n,
           NEW ch, NEW more, \A i \in is : more[i] = ch[i],
           NEW old, NEW mid, Leads(ch, is, old, mid), more[m].old = mid
    PROVE  Leads(more, is \cup {m}, old, more[m].new)
<1>1. CASE is = {}
  BY <1>1 DEF Leads
<1>2. CASE is # {}
  <2>1. \A i \in is : i < m
    OBVIOUS
  <2>2. PICK l \in is : \A j \in is : l <= j
    <3>1. is \in SUBSET Nat
      OBVIOUS
    <3> QED  BY <1>2, <3>1, Least
  <2>3. \A i \in is \cup {m} : (\A j \in is \cup {m} : i <= j) => i \in is
    BY <2>1, <2>2
  <2>4. \A i \in is \cup {m} : (\A j \in is \cup {m} : j <= i) => i = m
    BY <2>1
  <2> QED  BY <2>3, <2>4 DEF Leads
<1> QED  BY <1>1, <1>2

LEMMA NoneMore ==
    ASSUME NEW is, NEW ch, NEW more, \A i \in is : more[i] = ch[i],
           NEW old, NEW new, Leads(ch, is, old, new)
    PROVE  Leads(more, is, old, new)
BY DEF Leads

LEMMA Ends ==
    ASSUME NEW n \in Nat, NEW is \in SUBSET (1..n), is # {},
           NEW ch, NEW old, NEW new, Leads(ch, is, old, new)
    PROVE  ch[X!Min(is)].old = old /\ ch[X!Max(is)].new = new
<1>1. X!Min(is) \in is /\ \A i \in is : X!Min(is) <= i
  BY Least
<1>2. X!Max(is) \in is /\ \A i \in is : i <= X!Max(is)
  BY Greatest
<1> QED  BY <1>1, <1>2 DEF Leads

(* What upsert_slot makes of the changes of a slot.                        *)
Entry(at) ==
    IF at = {} THEN Untouched
    ELSE [start_value |-> changes[X!Min(at)].old, new_value |-> changes[X!Max(at)].new]

LEMMA NextEntry ==
    ASSUME X!ExtractionAssumption, changes \in Seq(X!ChangeRecord),
           NEW n \in DOMAIN changes, NEW at \in SUBSET (1..n - 1),
           \A i \in at \cup {n} : changes[i].old \in Word /\ changes[i].new \in Word
    PROVE  Entry(at \cup {n}) =
               X!Contract!UpsertSlot(Entry(at),
                   [start_value |-> changes[n].old, new_value |-> changes[n].new])
<1> DEFINE sv == [start_value |-> changes[n].old, new_value |-> changes[n].new]
<1>1. n \in Nat /\ n >= 1 /\ at \cup {n} \in SUBSET Nat /\ at \in SUBSET Nat
  <2>1. n \in Nat /\ n >= 1
    OBVIOUS
  <2>2. at \in SUBSET Nat
    BY <2>1
  <2> QED  BY <2>1, <2>2
<1>2. sv # Untouched
  <2>1. sv \in X!Contract!SlotValue
    BY DEF X!Contract!SlotValue
  <2> QED  BY <2>1 DEF X!ExtractionAssumption
<1>3. X!Max(at \cup {n}) = n
  <2>1. at \cup {n} \in SUBSET (1..n) /\ at \cup {n} # {}
    <3>1. \A i \in 1..n - 1 : i \in 1..n
      BY <1>1
    <3>2. n \in 1..n
      BY <1>1
    <3> QED  BY <3>1, <3>2
  <2>2. PICK x : x = X!Max(at \cup {n})
    OBVIOUS
  <2>3. x \in at \cup {n} /\ n <= x
    BY <1>1, <2>1, <2>2, Greatest
  <2> QED  BY <2>1, <2>2, <2>3
<1>4. PICK l : l = X!Min(at \cup {n})
  OBVIOUS
<1>5. l \in at \cup {n} /\ \A i \in at \cup {n} : l <= i
  BY <1>1, <1>4, Least
<1> HIDE DEF sv
<1>6. CASE at = {}
  <2>1. l = n
    BY <1>5, <1>6
  <2>2. Entry(at) = Untouched /\ Entry(at \cup {n}) = sv
    BY <1>3, <1>4, <1>6, <2>1 DEF Entry, sv
  <2>3. X!Contract!UpsertSlot(Entry(at), sv) = sv
    BY <1>2, <2>2 DEF X!Contract!UpsertSlot
  <2> QED  BY <2>2, <2>3 DEF sv
<1>7. CASE at # {}
  <2>1. PICK k : k = X!Min(at)
    OBVIOUS
  <2>2. k \in at /\ \A i \in at : k <= i
    BY <1>1, <1>7, <2>1, Least
  <2>3. k = l
    <3>1. k < n /\ l \in Nat /\ k \in Nat /\ l <= k
      BY <1>1, <1>5, <2>2
    <3> QED  BY <1>5, <2>2, <3>1
  <2>4. X!Max(at) \in at
    <3>1. n - 1 \in Nat
      BY <1>1
    <3> QED  BY <1>7, <3>1, Greatest
  <2>5. Entry(at) = [start_value |-> changes[l].old, new_value |-> changes[X!Max(at)].new]
    BY <1>7, <2>1, <2>3 DEF Entry
  <2>6. Entry(at) # Untouched
    <3>1. Entry(at) \in X!Contract!SlotValue
      BY <2>2, <2>3, <2>4, <2>5 DEF X!Contract!SlotValue
    <3> QED  BY <3>1 DEF X!ExtractionAssumption
  <2>7. X!Contract!UpsertSlot(Entry(at), sv) = [Entry(at) EXCEPT !.new_value = sv.new_value]
    BY <1>2, <2>6 DEF X!Contract!UpsertSlot
  <2>8. [Entry(at) EXCEPT !.new_value = sv.new_value] =
            [start_value |-> changes[l].old, new_value |-> changes[n].new]
    BY <2>5 DEF sv
  <2>9. Entry(at \cup {n}) = [start_value |-> changes[l].old, new_value |-> changes[n].new]
    BY <1>3, <1>4, <1>7 DEF Entry
  <2> QED  BY <2>7, <2>8, <2>9 DEF sv
<1> QED  BY <1>6, <1>7

(* The slots after the changes of the set, account by account.             *)
LEMMA UpsertsAreEntries ==
    ASSUME X!ExtractionAssumption, changes \in Seq(X!ChangeRecord),
           NEW is \in SUBSET (DOMAIN changes), \A i \in is : changes[i].kind = "storage"
    PROVE  X!Upserts(is) = [s \in Slot |-> Entry({i \in is : changes[i].key = s})]
<1> DEFINE L == Len(changes)
           F(f) == [n \in 0..L |-> IF n = 0 THEN [s \in Slot |-> Untouched]
                                   ELSE IF n \in is THEN X!Upserted(f[n - 1], n) ELSE f[n - 1]]
           At(n, s) == {i \in is : i <= n /\ changes[i].key = s}
           g == [n \in 0..L |-> [s \in Slot |-> Entry(At(n, s))]]
<1>1. L \in Nat /\ DOMAIN changes = 1..L
  OBVIOUS
<1>2. \A i \in is : /\ i \in 1..L /\ changes[i].key \in Slot
                    /\ changes[i].old \in Word /\ changes[i].new \in Word
  <2> SUFFICES ASSUME NEW i \in is
               PROVE  /\ i \in 1..L /\ changes[i].key \in Slot
                      /\ changes[i].old \in Word /\ changes[i].new \in Word
    OBVIOUS
  <2>1. changes[i] \in X!ChangeRecord /\ changes[i].kind = "storage"
    OBVIOUS
  <2> QED  BY <1>1, <2>1 DEF X!ChangeRecord, X!ChangesOf
<1>3. ASSUME NEW n \in 0..L
      PROVE  g[n] = IF n = 0 THEN [s \in Slot |-> Untouched]
                    ELSE IF n \in is THEN X!Upserted(g[n - 1], n) ELSE g[n - 1]
  <2> HIDE DEF L
  <2>1. CASE n = 0
    <3>1. \A s \in Slot : At(n, s) = {}
      BY <1>2, <2>1
    <3> QED  BY <2>1, <3>1 DEF Entry
  <2>2. CASE n # 0 /\ n \notin is
    <3>1. n - 1 \in 0..L /\ n - 1 \in Nat
      BY <1>1, <2>2
    <3>2. \A s \in Slot : At(n, s) = At(n - 1, s)
      BY <1>1, <1>2, <2>2
    <3> HIDE DEF At
    <3>3. g[n] = [s \in Slot |-> Entry(At(n, s))] /\ g[n - 1] = [s \in Slot |-> Entry(At(n - 1, s))]
      BY <3>1
    <3> QED  BY <2>2, <3>2, <3>3
  <2>3. CASE n # 0 /\ n \in is
    <3>1. n - 1 \in 0..L /\ n - 1 \in Nat /\ n \in DOMAIN changes
      BY <1>1, <2>3
    <3> DEFINE k == changes[n].key
               sv == [start_value |-> changes[n].old, new_value |-> changes[n].new]
    <3>2. \A s \in Slot : s # k => At(n, s) = At(n - 1, s)
      BY <1>1, <1>2, <2>3
    <3>3. At(n, k) = At(n - 1, k) \cup {n} /\ At(n - 1, k) \in SUBSET (1..n - 1)
      BY <1>1, <1>2, <2>3
    <3>4. \A i \in At(n - 1, k) \cup {n} : changes[i].old \in Word /\ changes[i].new \in Word
      BY <1>2, <2>3
    <3> HIDE DEF At
    <3>5. g[n] = [s \in Slot |-> Entry(At(n, s))] /\ g[n - 1] = [s \in Slot |-> Entry(At(n - 1, s))]
      BY <3>1
    <3>6. Entry(At(n, k)) = X!Contract!UpsertSlot(Entry(At(n - 1, k)), sv)
      BY <3>1, <3>3, <3>4, NextEntry
    <3>7. X!Upserted(g[n - 1], n) = [g[n - 1] EXCEPT ![k] = X!Contract!UpsertSlot(g[n - 1][k], sv)]
      BY DEF X!Upserted
    <3>8. k \in Slot
      BY <1>2, <2>3
    <3> HIDE DEF g, k, sv
    <3>9. PICK w : w = X!Contract!UpsertSlot(g[n - 1][k], sv)
      OBVIOUS
    <3>10. w = Entry(At(n, k))
      BY <3>5, <3>6, <3>8, <3>9
    <3>11. \A s \in Slot : [g[n - 1] EXCEPT ![k] = w][s] = g[n][s]
      BY <3>2, <3>5, <3>8, <3>10
    <3>12. X!Upserted(g[n - 1], n) = g[n]
      BY <3>5, <3>7, <3>9, <3>11
    <3> QED  BY <2>3, <3>12
  <2> QED  BY <2>1, <2>2, <2>3
<1>4. g = F(g)
  <2>1. g = [n \in 0..L |-> g[n]]
    OBVIOUS
  <2> HIDE DEF g, L
  <2> QED  BY <1>3, <2>1
<1> DEFINE sl == CHOOSE f : f = F(f)
<1>5. X!Upserts(is) = sl[L]
  BY DEF X!Upserts
<1>6. sl = F(sl)
  <2> HIDE DEF F, g
  <2> QED  BY <1>4
<1> HIDE DEF sl, L, g
<1>7. \A n \in 0..L : sl[n] = IF n = 0 THEN [s \in Slot |-> Untouched]
                              ELSE IF n \in is THEN X!Upserted(sl[n - 1], n) ELSE sl[n - 1]
  <2> SUFFICES ASSUME NEW n \in 0..L
               PROVE  sl[n] = IF n = 0 THEN [s \in Slot |-> Untouched]
                              ELSE IF n \in is THEN X!Upserted(sl[n - 1], n) ELSE sl[n - 1]
    OBVIOUS
  <2>1. sl[n] = F(sl)[n]
    <3> HIDE DEF F
    <3> QED  BY <1>6
  <2> QED  BY <2>1
<1> DEFINE N == {n \in Nat : n <= L => sl[n] = g[n]}
<1> HIDE DEF F, At
<1>8. 0 \in N
  <2>1. 0 \in 0..L
    BY <1>1
  <2> QED  BY <1>3, <1>7, <2>1
<1>9. ASSUME NEW n \in N PROVE n + 1 \in N
  <2> SUFFICES ASSUME n + 1 <= L PROVE sl[n + 1] = g[n + 1]
    OBVIOUS
  <2>1. n + 1 \in 0..L /\ n + 1 # 0 /\ (n + 1) - 1 = n /\ sl[n] = g[n]
    BY <1>1
  <2>2. sl[n + 1] = IF n + 1 \in is THEN X!Upserted(sl[n], n + 1) ELSE sl[n]
    BY <1>7, <2>1
  <2>3. g[n + 1] = IF n + 1 \in is THEN X!Upserted(g[n], n + 1) ELSE g[n]
    BY <1>3, <2>1
  <2> QED  BY <2>1, <2>2, <2>3
<1>10. N = Nat
  <2>1. N \in SUBSET Nat
    OBVIOUS
  <2> HIDE DEF N
  <2> QED  BY <1>8, <1>9, <2>1, SetInduction
<1>11. sl[L] = g[L]
  <2>1. L \in N
    BY <1>1, <1>10
  <2> QED  BY <1>1, <2>1
<1>12. \A s \in Slot : At(L, s) = {i \in is : changes[i].key = s}
  BY <1>1, <1>2 DEF At
<1>13. g[L] = [s \in Slot |-> Entry(At(L, s))]
  BY <1>1 DEF g
<1> QED  BY <1>5, <1>11, <1>12, <1>13

-----------------------------------------------------------------------------
(* The invariant                                                           *)

(* The slots, balances and codes of the accounts, and what a world holds.  *)
Location ==
    ({"storage"} \X Address \X Slot) \cup ({"balance", "code"} \X Address \X {Empty})

Held(w, l) ==
    IF l[1] = "storage" THEN w.slots[<<l[2], l[3]>>]
    ELSE IF l[1] = "balance" THEN X!Bytes(w.balance[l[2]]) ELSE w.code[l[2]]

Place(change) == <<change.kind, change.address, change.key>>

(* The changes to a location that calls before number n made and that were *)
(* not reverted.                                                           *)
At(cs, ch, l, n) ==
    {i \in DOMAIN ch : ~cs[ch[i].call].reverted /\ ch[i].call < n /\ Place(ch[i]) = l}

(* They lead from the world b to the world w.                              *)
Agrees(cs, ch, b, w, n) ==
    \A l \in Location : Leads(ch, At(cs, ch, l, n), Held(b, l), Held(w, l))

(* A call runs in the context of its own account, or as a delegate of its  *)
(* caller; an account that executes was called; a call is reverted with    *)
(* its caller.                                                             *)
CallsInv ==
    \A c \in DOMAIN calls :
        /\ calls[c].context =
               IF calls[c].type = "Delegate" THEN calls[c].caller ELSE calls[c].address
        /\ \E k \in 1..c : calls[k].address = calls[c].context
        /\ calls[c].caller # Outside =>
               \E k \in 1..c - 1 : /\ calls[k].context = calls[c].caller
                                   /\ calls[k].reverted => calls[c].reverted

(* A created account had no code; nothing runs in it before, nor after a   *)
(* creation that was reverted; a creation that was not is under way or has *)
(* left code.                                                              *)
CreatedInv(i) ==
    /\ before.code[calls[i].address] = Empty
    /\ \A k \in DOMAIN calls : calls[i].address \in {calls[k].address, calls[k].context} =>
           i <= k /\ (calls[i].reverted => calls[k].reverted)
    /\ \/ calls[i].reverted
       \/ \E j \in DOMAIN stack : stack[j].call = i
       \/ \E n \in DOMAIN changes : changes[n].call = i /\ changes[n].kind = "code"

CreationsInv == \A i \in DOMAIN calls : calls[i].type = "Create" => CreatedInv(i)

StackInv ==
    /\ \A j \in DOMAIN stack :
           /\ stack[j].call \in DOMAIN calls /\ ~calls[stack[j].call].reverted
           /\ stack[j].world \in X!World
           /\ Agrees(calls, changes, before, stack[j].world, stack[j].call)
           /\ \A k \in 1..j - 1 : stack[k].call < stack[j].call
    /\ extracting => stack = <<>>

ChangesInv ==
    \A n \in DOMAIN changes :
        LET c == changes[n].call IN
        /\ c \in DOMAIN calls
        /\ changes[n].kind = "storage" => changes[n].address = calls[c].context
        /\ changes[n].kind = "balance" =>
               changes[n].address \in {calls[c].address, calls[c].caller}
        /\ changes[n].kind = "code" =>
               /\ calls[c].type = "Create" /\ changes[n].address = calls[c].address
               /\ \A j \in DOMAIN stack : stack[j].call # c

WorldInv == Agrees(calls, changes, before, world, Len(calls) + 1)

(* The consumers are as before the transaction.                            *)
ConsumerInv ==
    /\ calls = <<>> => world = before
    /\ \A a \in Included :
           /\ \A s \in Slot : contracts[a].slots[s] = before.slots[<<a, s>>]
           /\ contracts[a].code = before.code[a]
           /\ contracts[a].exists <=> before.code[a] # Empty
    /\ dci = [slots |-> before.slots, balance |-> before.balance]

(* A call on the stack may still leave a code.                             *)
BoundsInv ==
    /\ Len(stack) <= Len(calls)
    /\ Len(changes) + Len(stack) <= MaxChanges + MaxCalls

ContractInv ==
    /\ X!TypeOK /\ BoundsInv /\ CallsInv /\ CreationsInv /\ StackInv
    /\ ChangesInv /\ WorldInv /\ ConsumerInv

LEMMA PlaceOfChange == \A change \in X!ChangeRecord : Place(change) \in Location
BY DEF X!ChangeRecord, X!ChangesOf, Place, Location

LEMMA ContractInitInv == ASSUME X!ExtractionAssumption, X!Init PROVE ContractInv
<1>1. X!TypeOK
  <2>1. ZeroWord \in Word /\ Included \subseteq Address /\ 0 \in 0..MaxNative /\ MaxCalls \in Nat
            /\ MaxChanges \in Nat
    BY DEF X!ExtractionAssumption
  <2>2. PICK code \in [Address -> Code \cup {Empty}] :
            world = [slots   |-> [as \in Address \X Slot |-> ZeroWord],
                     balance |-> [a \in Address |-> 0],
                     code    |-> code]
    BY DEF X!Init
  <2>3. world \in X!World
    BY <2>1, <2>2 DEF X!World
  <2>4. contracts \in [Included -> [exists : BOOLEAN, balance : 0..MaxNative,
                                  code : Code \cup {Empty}, slots : [Slot -> Word]]]
    <3>1. \A a \in Included : world.code[a] \in Code \cup {Empty}
      BY <2>1, <2>2
    <3> QED  BY <2>1, <3>1 DEF X!Init
  <2>5. dci \in [slots : [Address \X Slot -> Word], balance : [Address -> 0..MaxNative]]
    BY <2>3 DEF X!Init, X!World
  <2>6. before \in X!World /\ calls = <<>> /\ stack = <<>> /\ changes = <<>> /\ extracting \in BOOLEAN
    BY <2>3 DEF X!Init
  <2>7. calls \in Seq(X!CallRecord) /\ Len(calls) = 0
    BY <2>6
  <2>8. stack \in Seq([call : Nat, world : X!World])
    BY <2>6
  <2>9. changes \in Seq(X!ChangeRecord) /\ Len(changes) = 0
    BY <2>6
  <2>10. 0 <= MaxCalls /\ 0 <= MaxChanges + MaxCalls
    BY <2>1
  <2> QED  BY <2>3, <2>4, <2>5, <2>6, <2>7, <2>8, <2>9, <2>10 DEF X!TypeOK
<1>2. CallsInv /\ CreationsInv /\ StackInv /\ ChangesInv
  BY DEF X!Init, CallsInv, CreationsInv, StackInv, ChangesInv
<1>3. WorldInv
  BY DEF X!Init, WorldInv, Agrees, Leads, At
<1>4. ConsumerInv
  <2>1. world = before /\ dci = [slots |-> world.slots, balance |-> world.balance]
    BY DEF X!Init
  <2>2. ASSUME NEW a \in Included
        PROVE  /\ \A s \in Slot : contracts[a].slots[s] = ZeroWord
               /\ contracts[a].code = world.code[a]
               /\ contracts[a].exists <=> world.code[a] # Empty
    BY DEF X!Init
  <2>3. \A a \in Included, s \in Slot : world.slots[<<a, s>>] = ZeroWord
    <3>1. world.slots = [as \in Address \X Slot |-> ZeroWord] /\ Included \subseteq Address
      BY DEF X!Init, X!ExtractionAssumption
    <3> QED  BY <3>1
  <2> QED  BY <2>1, <2>2, <2>3 DEF ConsumerInv
<1>5. BoundsInv
  <2>1. calls = <<>> /\ stack = <<>> /\ changes = <<>>
    BY DEF X!Init
  <2>2. MaxChanges \in Nat /\ MaxCalls \in Nat
    BY DEF X!ExtractionAssumption
  <2>3. Len(calls) = 0 /\ Len(stack) = 0 /\ Len(changes) = 0
    BY <2>1
  <2> QED  BY <2>2, <2>3 DEF BoundsInv
<1> QED  BY <1>1, <1>2, <1>3, <1>4, <1>5 DEF ContractInv

-----------------------------------------------------------------------------
(* How changes come and go                                                 *)

(* Changes made by other calls than the earlier ones.                      *)
LEMMA RecordedLater ==
    ASSUME NEW ch \in Seq(X!ChangeRecord), NEW t \in Seq(X!ChangeRecord), NEW cs, NEW ds,
           NEW b, NEW w, NEW n \in Nat,
           \A i \in DOMAIN ch : ch[i].call < n =>
               (ds[ch[i].call].reverted <=> cs[ch[i].call].reverted),
           \A k \in DOMAIN t : ~(t[k].call < n),
           Agrees(cs, ch, b, w, n)
    PROVE  Agrees(ds, ch \o t, b, w, n)
<1> DEFINE D == ch \o t
<1>1. /\ DOMAIN D = 1..Len(ch) + Len(t) /\ DOMAIN ch = 1..Len(ch) /\ DOMAIN t = 1..Len(t)
      /\ Len(ch) \in Nat /\ Len(t) \in Nat
  OBVIOUS
<1>2. \A i \in DOMAIN ch : i \in DOMAIN D /\ D[i] = ch[i]
  OBVIOUS
<1>3. \A i \in DOMAIN D : i \notin DOMAIN ch => i - Len(ch) \in DOMAIN t /\ D[i] = t[i - Len(ch)]
  OBVIOUS
<1> HIDE DEF D
<1>4. ASSUME NEW l \in Location PROVE At(ds, D, l, n) = At(cs, ch, l, n)
  BY <1>2, <1>3 DEF At
<1>5. ASSUME NEW l \in Location
      PROVE  Leads(D, At(ds, D, l, n), Held(b, l), Held(w, l))
  <2>1. Leads(ch, At(cs, ch, l, n), Held(b, l), Held(w, l))
    BY DEF Agrees
  <2>2. \A i \in At(cs, ch, l, n) : D[i] = ch[i]
    BY <1>2 DEF At
  <2> QED  BY <1>4, <2>1, <2>2 DEF Leads
<1> QED  BY <1>5 DEF Agrees, D

(* A step from world w to world v records what it changes.                 *)
Records(t, w, v) ==
    \A l \in Location :
        \/ Held(v, l) = Held(w, l) /\ \A k \in DOMAIN t : Place(t[k]) # l
        \/ \E k \in DOMAIN t :
               /\ t[k].old = Held(w, l) /\ t[k].new = Held(v, l)
               /\ \A j \in DOMAIN t : Place(t[j]) = l <=> j = k

LEMMA RecordedNow ==
    ASSUME NEW ch \in Seq(X!ChangeRecord), NEW t \in Seq(X!ChangeRecord), NEW cs, NEW ds,
           NEW b, NEW w, NEW v, NEW n \in Nat, NEW m \in Nat,
           \A i \in DOMAIN ch :
               /\ ds[ch[i].call].reverted <=> cs[ch[i].call].reverted
               /\ ch[i].call < n /\ ch[i].call < m,
           \A k \in DOMAIN t : ~ds[t[k].call].reverted /\ t[k].call < m,
           Records(t, w, v),
           Agrees(cs, ch, b, w, n)
    PROVE  Agrees(ds, ch \o t, b, v, m)
<1> DEFINE D == ch \o t
<1>1. /\ DOMAIN D = 1..Len(ch) + Len(t) /\ DOMAIN ch = 1..Len(ch) /\ DOMAIN t = 1..Len(t)
      /\ Len(ch) \in Nat /\ Len(t) \in Nat
  OBVIOUS
<1>2. \A i \in DOMAIN ch : i \in DOMAIN D /\ D[i] = ch[i]
  OBVIOUS
<1>3. \A i \in DOMAIN D : i \notin DOMAIN ch => i - Len(ch) \in DOMAIN t /\ D[i] = t[i - Len(ch)]
  OBVIOUS
<1>4. \A k \in DOMAIN t : k + Len(ch) \in DOMAIN D /\ D[k + Len(ch)] = t[k]
  OBVIOUS
<1> HIDE DEF D
<1>5. ASSUME NEW l \in Location
      PROVE  Leads(D, At(ds, D, l, m), Held(b, l), Held(v, l))
  <2> DEFINE is == At(cs, ch, l, n)
  <2>1. Leads(ch, is, Held(b, l), Held(w, l))
    BY DEF Agrees
  <2>2. \A i \in is : D[i] = ch[i]
    BY <1>2 DEF At
  <2>3. CASE Held(v, l) = Held(w, l) /\ \A k \in DOMAIN t : Place(t[k]) # l
    <3>1. At(ds, D, l, m) = is
      BY <1>2, <1>3, <2>3 DEF At
    <3> QED  BY <2>1, <2>2, <2>3, <3>1 DEF Leads
  <2>4. ASSUME NEW k \in DOMAIN t, t[k].old = Held(w, l), t[k].new = Held(v, l),
               \A j \in DOMAIN t : Place(t[j]) = l <=> j = k
        PROVE  Leads(D, At(ds, D, l, m), Held(b, l), Held(v, l))
    <3>1. k + Len(ch) \in Nat /\ k + Len(ch) > Len(ch)
      BY <1>1
    <3>2. D[k + Len(ch)] = t[k] /\ k + Len(ch) \in DOMAIN D /\ k + Len(ch) \notin DOMAIN ch
      BY <1>1, <1>4
    <3>3. At(ds, D, l, m) \subseteq is \cup {k + Len(ch)}
      <4> SUFFICES ASSUME NEW i \in At(ds, D, l, m), i \notin DOMAIN ch PROVE i = k + Len(ch)
        BY <1>2 DEF At
      <4>1. i - Len(ch) \in DOMAIN t /\ D[i] = t[i - Len(ch)] /\ Place(D[i]) = l /\ i \in DOMAIN D
        BY <1>3 DEF At
      <4>2. i - Len(ch) = k
        BY <2>4, <4>1
      <4> QED  BY <1>1, <4>1, <4>2
    <3>4. is \subseteq At(ds, D, l, m)
      BY <1>2 DEF At
    <3>5. k + Len(ch) \in At(ds, D, l, m)
      BY <2>4, <3>2 DEF At
    <3>6. At(ds, D, l, m) = is \cup {k + Len(ch)}
      BY <3>3, <3>4, <3>5
    <3>7. is \in SUBSET (1..Len(ch))
      BY <1>1 DEF At
    <3> HIDE DEF is
    <3>8. D[k + Len(ch)].old = Held(w, l) /\ D[k + Len(ch)].new = Held(v, l)
      BY <2>4, <3>2
    <3>9. Leads(D, is \cup {k + Len(ch)}, Held(b, l), D[k + Len(ch)].new)
      BY <1>1, <2>1, <2>2, <3>1, <3>7, <3>8, OneMore
    <3> QED  BY <3>6, <3>8, <3>9
  <2> QED  BY <2>3, <2>4 DEF Records
<1> QED  BY <1>5 DEF Agrees, D

(* The same changes count, when calls are reverted or the bound changes.   *)
LEMMA SameChanges ==
    ASSUME NEW ch, NEW cs, NEW ds, NEW b, NEW w, NEW n, NEW m,
           \A i \in DOMAIN ch :
               ~ds[ch[i].call].reverted /\ ch[i].call < m
                   <=> ~cs[ch[i].call].reverted /\ ch[i].call < n,
           Agrees(cs, ch, b, w, n)
    PROVE  Agrees(ds, ch, b, w, m)
<1>1. ASSUME NEW l \in Location PROVE At(ds, ch, l, m) = At(cs, ch, l, n)
  BY DEF At
<1> QED  BY <1>1 DEF Agrees

-----------------------------------------------------------------------------
(* The EVM's steps                                                         *)

LEMMA ContextFacts ==
    ASSUME ContractInv
    PROVE  /\ X!Running => /\ Len(stack) \in DOMAIN stack /\ X!Top \in DOMAIN calls
                         /\ ~calls[X!Top].reverted
                         /\ X!Context = calls[X!Top].context /\ X!Context \in Address
           /\ ~X!Running => X!Context = Outside
<1>1. stack \in Seq([call : Nat, world : X!World]) /\ calls \in Seq(X!CallRecord)
  BY DEF ContractInv, X!TypeOK
<1>2. ASSUME X!Running
      PROVE  /\ Len(stack) \in DOMAIN stack /\ X!Top \in DOMAIN calls
             /\ ~calls[X!Top].reverted
             /\ X!Context = calls[X!Top].context /\ X!Context \in Address
  <2>1. Len(stack) \in DOMAIN stack
    BY <1>1, <1>2 DEF X!Running
  <2>2. X!Top \in DOMAIN calls /\ ~calls[X!Top].reverted
    BY <2>1 DEF ContractInv, StackInv, X!Top
  <2>3. calls[X!Top] \in X!CallRecord
    BY <1>1, <2>2
  <2> QED  BY <1>2, <2>1, <2>2, <2>3 DEF X!Context, X!CallRecord
<1> QED  BY <1>2 DEF X!Context

LEMMA FrontFacts ==
    ASSUME NEW S, NEW s \in Seq(S), Len(s) \in DOMAIN s
    PROVE  /\ X!Front(s) \in Seq(S) /\ Len(X!Front(s)) = Len(s) - 1
           /\ \A j \in 1..Len(s) - 1 : X!Front(s)[j] = s[j]
<1>1. PICK n : n = Len(s) - 1
  OBVIOUS
<1>2. n \in Int /\ n >= 0 /\ 1 \in Int /\ \A i \in 1..n : s[i] \in S
  BY <1>1
<1>3. /\ SubSeq(s, 1, n) \in Seq(S)
      /\ Len(SubSeq(s, 1, n)) = IF 1 <= n THEN n - 1 + 1 ELSE 0
      /\ \A i \in 1..n - 1 + 1 : SubSeq(s, 1, n)[i] = s[1 + i - 1]
  BY <1>2, SubSeqProperties
<1>4. Len(SubSeq(s, 1, n)) = n /\ n - 1 + 1 = n
  BY <1>2, <1>3
<1>5. ASSUME NEW j \in 1..n PROVE SubSeq(s, 1, n)[j] = s[j]
  <2>1. 1 + j - 1 = j /\ j \in 1..n - 1 + 1
    BY <1>2, <1>4
  <2> QED  BY <1>3, <2>1
<1> QED  BY <1>1, <1>3, <1>4, <1>5 DEF X!Front

LEMMA BytesAreAmounts ==
    ASSUME X!ExtractionAssumption, NEW x \in 0..MaxNative
    PROVE  X!Bytes(x) \in X!NativeAmount
BY DEF X!ExtractionAssumption, X!Bytes, X!NativeAmount

LEMMA Both ==
    ASSUME NEW S, NEW s \in Seq(S), NEW t \in Seq(S), Len(s) = 1, Len(t) = 1
    PROVE  /\ s \o t \in Seq(S) /\ DOMAIN (s \o t) = {1, 2}
           /\ (s \o t)[1] = s[1] /\ (s \o t)[2] = t[1]
<1>1. s \o t \in Seq(S)
  OBVIOUS
<1>2. /\ Len(s \o t) = Len(s) + Len(t)
      /\ \A i \in 1..Len(s) + Len(t) :
             (s \o t)[i] = IF i <= Len(s) THEN s[i] ELSE t[i - Len(s)]
  BY ConcatProperties
<1>3. Len(s \o t) = 2 /\ (s \o t)[1] = s[1] /\ (s \o t)[2] = t[1]
  BY <1>2
<1> QED  BY <1>1, <1>3

(* A value transfer is recorded as it happens.                             *)
LEMMA TransferRecorded ==
    ASSUME X!ExtractionAssumption, ContractInv,
           NEW type \in X!CallTypes, NEW a \in Address, NEW v \in 0..1, X!Begin(type, a, v)
    PROVE  /\ world' \in X!World
           /\ X!Transfer(Len(calls) + 1, a, v) \in Seq(X!ChangeRecord)
           /\ \A k \in DOMAIN X!Transfer(Len(calls) + 1, a, v) :
                  LET ch == X!Transfer(Len(calls) + 1, a, v)[k] IN
                  /\ ch.call = Len(calls) + 1 /\ ch.kind = "balance"
                  /\ ch.address \in {a, X!Context}
           /\ Records(X!Transfer(Len(calls) + 1, a, v), world, world')
<1> DEFINE c == Len(calls) + 1
<1>1. PICK t : t = X!Transfer(c, a, v)
  OBVIOUS
<1>2. world \in X!World /\ calls \in Seq(X!CallRecord) /\ c \in Nat
  BY DEF ContractInv, X!TypeOK
<1>3. PICK x : x = X!Context
  OBVIOUS
<1>4. x \in Address \cup {Outside} /\ Outside \notin Address /\ MaxNative \in Nat
  BY <1>3, ContextFacts DEF X!ExtractionAssumption
<1>5. PICK b : b = world.balance
  OBVIOUS
<1>6. b \in [Address -> 0..MaxNative]
  BY <1>2, <1>5 DEF X!World
<1>7. (x # Outside => v <= b[x]) /\ (x # a => b[a] + v <= MaxNative)
  BY <1>3, <1>5 DEF X!Begin
<1>8. PICK d : d = [e \in Address |-> IF e = a THEN b[e] + v ELSE IF e = x THEN b[e] - v ELSE b[e]]
  OBVIOUS
<1>9. PICK w : w = world'
  OBVIOUS
<1>10. w = [world EXCEPT !.balance = IF x = a THEN b ELSE d]
  BY <1>3, <1>5, <1>8, <1>9 DEF X!Begin
<1>11. x # a => d \in [Address -> 0..MaxNative]
  <2> SUFFICES ASSUME x # a, NEW e \in Address
               PROVE  (IF e = a THEN b[e] + v ELSE IF e = x THEN b[e] - v ELSE b[e]) \in 0..MaxNative
    BY <1>8
  <2>1. b[e] \in 0..MaxNative
    BY <1>6
  <2>2. CASE e = a
    BY <1>4, <1>7, <2>1, <2>2
  <2>3. CASE e = x /\ e # a
    BY <1>4, <1>7, <2>1, <2>3
  <2>4. CASE e # x /\ e # a
    BY <2>1, <2>4
  <2> QED  BY <2>2, <2>3, <2>4
<1>12. w \in X!World
  BY <1>2, <1>6, <1>10, <1>11 DEF X!World
<1>13. w.slots = world.slots /\ w.code = world.code /\ w.balance = IF x = a THEN b ELSE d
  BY <1>2, <1>10 DEF X!World
<1> DEFINE Change(e, new) == X!Recorded(c, "balance", e, Empty, X!Bytes(b[e]), X!Bytes(new))
<1>14. t = IF v = 0 \/ x = a THEN <<>>
           ELSE (IF x = Outside THEN <<>> ELSE <<Change(x, b[x] - v)>>) \o <<Change(a, b[a] + v)>>
  BY <1>1, <1>3, <1>5 DEF X!Transfer, X!BalanceChanged
<1>15. ASSUME NEW e \in Address, NEW new \in 0..MaxNative
       PROVE  /\ Change(e, new) \in X!ChangeRecord
              /\ Change(e, new).call = c /\ Change(e, new).kind = "balance"
              /\ Change(e, new).address = e
              /\ Place(Change(e, new)) = <<"balance", e, Empty>>
              /\ Change(e, new).old = X!Bytes(b[e]) /\ Change(e, new).new = X!Bytes(new)
  <2>1. X!Bytes(b[e]) \in X!NativeAmount /\ X!Bytes(new) \in X!NativeAmount
    BY <1>6, BytesAreAmounts
  <2> QED  BY <1>2, <2>1 DEF X!Recorded, X!ChangeRecord, X!ChangesOf, Place
<1>16. ASSUME NEW l \in Location
       PROVE  \/ Held(w, l) = Held(world, l) /\ l[1] # "balance"
              \/ \E e \in Address : /\ l = <<"balance", e, Empty>>
                                    /\ Held(world, l) = X!Bytes(b[e])
                                    /\ Held(w, l) = X!Bytes(w.balance[e])
  BY <1>5, <1>13 DEF Location, Held
<1> HIDE DEF Change, c
<1>17. CASE v = 0 \/ x = a
  <2>1. t = <<>>
    BY <1>14, <1>17
  <2>2. \A e \in Address : w.balance[e] = b[e]
    BY <1>6, <1>8, <1>13, <1>17
  <2>3. \A l \in Location : Held(w, l) = Held(world, l)
    BY <1>16, <2>2
  <2>4. Records(t, world, w) /\ t \in Seq(X!ChangeRecord)
    BY <2>1, <2>3 DEF Records
  <2> QED  BY <1>1, <1>9, <1>12, <2>1, <2>4 DEF c
<1>18. CASE v # 0 /\ x # a /\ x = Outside
  <2>1. PICK q : q = Change(a, b[a] + v)
    OBVIOUS
  <2>2. b[a] + v \in 0..MaxNative
    BY <1>4, <1>6, <1>7, <1>18
  <2>3. /\ q \in X!ChangeRecord /\ q.call = c /\ q.kind = "balance" /\ q.address = a
        /\ Place(q) = <<"balance", a, Empty>> /\ q.old = X!Bytes(b[a]) /\ q.new = X!Bytes(b[a] + v)
    BY <1>15, <2>1, <2>2
  <2>4. t = <<>> \o <<q>>
    BY <1>14, <1>18, <2>1
  <2>5. t \in Seq(X!ChangeRecord) /\ DOMAIN t = {1} /\ t[1] = q
    BY <2>3, <2>4
  <2>6. \A e \in Address : w.balance[e] = IF e = a THEN b[a] + v ELSE b[e]
    BY <1>4, <1>8, <1>13, <1>18
  <2>7. Records(t, world, w)
    <3> SUFFICES ASSUME NEW l \in Location
                 PROVE  \/ Held(w, l) = Held(world, l) /\ \A k \in DOMAIN t : Place(t[k]) # l
                        \/ \E k \in DOMAIN t :
                               /\ t[k].old = Held(world, l) /\ t[k].new = Held(w, l)
                               /\ \A j \in DOMAIN t : Place(t[j]) = l <=> j = k
      BY DEF Records
    <3>1. CASE Held(w, l) = Held(world, l) /\ l[1] # "balance"
      BY <2>3, <2>5, <3>1
    <3>2. ASSUME NEW e \in Address, l = <<"balance", e, Empty>>,
                 Held(world, l) = X!Bytes(b[e]), Held(w, l) = X!Bytes(w.balance[e])
          PROVE  \/ Held(w, l) = Held(world, l) /\ \A k \in DOMAIN t : Place(t[k]) # l
                 \/ \E k \in DOMAIN t :
                        /\ t[k].old = Held(world, l) /\ t[k].new = Held(w, l)
                        /\ \A j \in DOMAIN t : Place(t[j]) = l <=> j = k
      BY <2>3, <2>5, <2>6, <3>2
    <3> QED  BY <1>16, <3>1, <3>2
  <2> QED  BY <1>1, <1>9, <1>12, <2>3, <2>5, <2>7 DEF c
<1>19. CASE v # 0 /\ x # a /\ x # Outside
  <2>1. PICK q, p : q = Change(a, b[a] + v) /\ p = Change(x, b[x] - v)
    OBVIOUS
  <2>2. b[a] + v \in 0..MaxNative /\ b[x] - v \in 0..MaxNative /\ x \in Address
    <3>1. x \in Address /\ b[x] \in 0..MaxNative /\ b[a] \in 0..MaxNative
      BY <1>4, <1>6, <1>19
    <3> QED  BY <1>4, <1>7, <1>19, <3>1
  <2>3. /\ q \in X!ChangeRecord /\ q.call = c /\ q.kind = "balance" /\ q.address = a
        /\ Place(q) = <<"balance", a, Empty>> /\ q.old = X!Bytes(b[a]) /\ q.new = X!Bytes(b[a] + v)
    BY <1>15, <2>1, <2>2
  <2>4. /\ p \in X!ChangeRecord /\ p.call = c /\ p.kind = "balance" /\ p.address = x
        /\ Place(p) = <<"balance", x, Empty>> /\ p.old = X!Bytes(b[x]) /\ p.new = X!Bytes(b[x] - v)
    BY <1>15, <2>1, <2>2
  <2>5. t = <<p>> \o <<q>>
    BY <1>14, <1>19, <2>1
  <2>6. t \in Seq(X!ChangeRecord) /\ DOMAIN t = {1, 2} /\ t[1] = p /\ t[2] = q
    <3> HIDE DEF Change
    <3>1. PICK tp, tq : tp = <<p>> /\ tq = <<q>>
      OBVIOUS
    <3>2. tp \in Seq(X!ChangeRecord) /\ Len(tp) = 1 /\ tp[1] = p
      BY <2>4, <3>1
    <3>3. tq \in Seq(X!ChangeRecord) /\ Len(tq) = 1 /\ tq[1] = q
      BY <2>3, <3>1
    <3>4. t = tp \o tq
      BY <2>5, <3>1
    <3> QED  BY <3>2, <3>3, <3>4, Both
  <2>7. \A e \in Address : w.balance[e] = IF e = a THEN b[a] + v ELSE IF e = x THEN b[x] - v ELSE b[e]
    BY <1>4, <1>8, <1>13, <1>19
  <2>8. Records(t, world, w)
    <3> SUFFICES ASSUME NEW l \in Location
                 PROVE  \/ Held(w, l) = Held(world, l) /\ \A k \in DOMAIN t : Place(t[k]) # l
                        \/ \E k \in DOMAIN t :
                               /\ t[k].old = Held(world, l) /\ t[k].new = Held(w, l)
                               /\ \A j \in DOMAIN t : Place(t[j]) = l <=> j = k
      BY DEF Records
    <3>1. CASE Held(w, l) = Held(world, l) /\ l[1] # "balance"
      BY <2>3, <2>4, <2>6, <3>1
    <3>2. ASSUME NEW e \in Address, l = <<"balance", e, Empty>>,
                 Held(world, l) = X!Bytes(b[e]), Held(w, l) = X!Bytes(w.balance[e])
          PROVE  \/ Held(w, l) = Held(world, l) /\ \A k \in DOMAIN t : Place(t[k]) # l
                 \/ \E k \in DOMAIN t :
                        /\ t[k].old = Held(world, l) /\ t[k].new = Held(w, l)
                        /\ \A j \in DOMAIN t : Place(t[j]) = l <=> j = k
      <4>1. CASE e = a
        <5>1. t[2].old = Held(world, l) /\ t[2].new = Held(w, l)
          BY <2>3, <2>6, <2>7, <3>2, <4>1
        <5>2. \A j \in DOMAIN t : Place(t[j]) = l <=> j = 2
          BY <1>19, <2>3, <2>4, <2>6, <3>2, <4>1
        <5> QED  BY <2>6, <5>1, <5>2
      <4>2. CASE e = x
        <5>1. t[1].old = Held(world, l) /\ t[1].new = Held(w, l)
          BY <1>19, <2>2, <2>4, <2>6, <2>7, <3>2, <4>2
        <5>2. \A j \in DOMAIN t : Place(t[j]) = l <=> j = 1
          BY <1>19, <2>3, <2>4, <2>6, <3>2, <4>2
        <5> QED  BY <2>6, <5>1, <5>2
      <4>3. CASE e # a /\ e # x
        BY <2>3, <2>4, <2>6, <2>7, <3>2, <4>3
      <4> QED  BY <4>1, <4>2, <4>3
    <3> QED  BY <1>16, <3>1, <3>2
  <2> QED  BY <1>1, <1>3, <1>9, <1>12, <2>3, <2>4, <2>6, <2>8 DEF c
<1> QED  BY <1>17, <1>18, <1>19

LEMMA CodeUntouched ==
    ASSUME ContractInv, NEW a \in Address,
           \A i \in DOMAIN changes :
               changes[i].kind = "code" /\ changes[i].address = a => calls[changes[i].call].reverted
    PROVE  world.code[a] = before.code[a]
<1> DEFINE l == <<"code", a, Empty>>
<1>1. l \in Location
  BY DEF Location
<1>2. At(calls, changes, l, Len(calls) + 1) = {}
  BY DEF At, Place
<1>3. Held(before, l) = Held(world, l)
  BY <1>1, <1>2 DEF ContractInv, WorldInv, Agrees, Leads
<1> QED  BY <1>3 DEF Held

LEMMA BeginStep ==
    ASSUME X!ExtractionAssumption, ContractInv,
           NEW type \in X!CallTypes, NEW a \in Address, NEW v \in 0..1, X!Begin(type, a, v)
    PROVE  ContractInv'
<1>1. PICK c : c = Len(calls) + 1
  OBVIOUS
<1>2. PICK t : t = X!Transfer(c, a, v)
  OBVIOUS
<1>3. PICK x : x = X!Context
  OBVIOUS
<1>4. PICK r : r = [type |-> type, address |-> a, caller |-> x,
                    context |-> IF type = "Delegate" THEN x ELSE a, reverted |-> FALSE]
  OBVIOUS
<1>5. PICK e : e = [call |-> c, world |-> world]
  OBVIOUS
<1>6. calls \in Seq(X!CallRecord) /\ Len(calls) \in Nat /\ DOMAIN calls = 1..Len(calls)
  BY DEF ContractInv, X!TypeOK
<1>7. stack \in Seq([call : Nat, world : X!World]) /\ Len(stack) \in Nat /\ DOMAIN stack = 1..Len(stack)
  BY DEF ContractInv, X!TypeOK
<1>8. changes \in Seq(X!ChangeRecord) /\ Len(changes) \in Nat /\ DOMAIN changes = 1..Len(changes)
  BY DEF ContractInv, X!TypeOK
<1>9. world \in X!World /\ c \in Nat /\ c \notin DOMAIN calls /\ c > Len(calls)
  <2>1. world \in X!World
    BY DEF ContractInv, X!TypeOK
  <2> QED  BY <1>1, <1>6, <2>1
<1>10. /\ X!Running => /\ Len(stack) \in DOMAIN stack /\ X!Top \in DOMAIN calls
                     /\ ~calls[X!Top].reverted /\ x = calls[X!Top].context /\ x \in Address
       /\ ~X!Running => x = Outside
  BY <1>3, ContextFacts
<1>11. Outside \notin Address /\ MaxNative \in Nat /\ MaxCalls \in Nat /\ MaxChanges \in Nat
  BY DEF X!ExtractionAssumption
<1>12. r \in X!CallRecord
  <2>1. x \in Address \cup {Outside} /\ (type = "Delegate" => x \in Address)
    BY <1>3, <1>10 DEF X!Begin
  <2> QED  BY <1>4, <2>1 DEF X!CallRecord, X!CallTypes
<1>13. /\ calls' = Append(calls, r) /\ stack' = Append(stack, e) /\ changes' = changes \o t
       /\ UNCHANGED <<before, extracting, contracts, dci>>
  BY <1>1, <1>2, <1>3, <1>4, <1>5 DEF X!Begin, X!outVars
<1>14. /\ calls' \in Seq(X!CallRecord) /\ Len(calls') = c /\ DOMAIN calls' = 1..c
       /\ calls'[c] = r /\ \A i \in DOMAIN calls : i \in DOMAIN calls' /\ i < c /\ calls'[i] = calls[i]
       /\ \A i \in DOMAIN calls' : i = c \/ i \in DOMAIN calls
  BY <1>1, <1>6, <1>12, <1>13
<1>15. e \in [call : Nat, world : X!World] /\ e.call = c /\ e.world = world
  BY <1>5, <1>9
<1>16. /\ stack' \in Seq([call : Nat, world : X!World]) /\ DOMAIN stack' = 1..Len(stack) + 1
       /\ stack'[Len(stack) + 1] = e
       /\ \A j \in DOMAIN stack : j \in DOMAIN stack' /\ stack'[j] = stack[j]
       /\ \A j \in DOMAIN stack' : j = Len(stack) + 1 \/ j \in DOMAIN stack
  BY <1>7, <1>13, <1>15
<1>17. /\ world' \in X!World /\ t \in Seq(X!ChangeRecord) /\ Records(t, world, world')
       /\ \A k \in DOMAIN t : t[k].call = c /\ t[k].kind = "balance" /\ t[k].address \in {a, x}
  BY <1>1, <1>2, <1>3, TransferRecorded
<1>18. /\ changes' \in Seq(X!ChangeRecord)
       /\ \A n \in DOMAIN changes : n \in DOMAIN changes' /\ changes'[n] = changes[n]
       /\ \A n \in DOMAIN changes' :
              n \in DOMAIN changes \/ \E k \in DOMAIN t : changes'[n] = t[k]
  <2>1. changes' \in Seq(X!ChangeRecord) /\ Len(changes') = Len(changes) + Len(t)
    BY <1>8, <1>13, <1>17
  <2>2. \A n \in 1..Len(changes) + Len(t) :
            changes'[n] = IF n <= Len(changes) THEN changes[n] ELSE t[n - Len(changes)]
    BY <1>8, <1>13, <1>17, ConcatProperties
  <2>3. Len(t) \in Nat /\ DOMAIN t = 1..Len(t) /\ DOMAIN changes' = 1..Len(changes) + Len(t)
    BY <1>17, <2>1
  <2> QED  BY <1>8, <2>1, <2>2, <2>3, SMTT(40)
<1>19. \A n \in DOMAIN changes : changes[n].call \in DOMAIN calls
  BY DEF ContractInv, ChangesInv
<1>20. X!TypeOK'
  <2>1. Len(calls') <= MaxCalls
    BY <1>1, <1>14 DEF X!Begin
  <2>2. Len(changes') <= MaxChanges + MaxCalls
    <3>1. Len(changes') <= MaxChanges /\ Len(changes') \in Nat
      BY <1>18 DEF X!Begin
    <3> QED  BY <1>11, <3>1
  <2>3. /\ before' \in X!World /\ extracting' \in BOOLEAN
        /\ contracts' \in [Included -> [exists : BOOLEAN, balance : 0..MaxNative,
                                     code : Code \cup {Empty}, slots : [Slot -> Word]]]
        /\ dci' \in [slots : [Address \X Slot -> Word], balance : [Address -> 0..MaxNative]]
    BY <1>13 DEF ContractInv, X!TypeOK
  <2> QED  BY <1>14, <1>16, <1>17, <1>18, <2>1, <2>2, <2>3 DEF X!TypeOK
<1>21. CallsInv'
  <2> SUFFICES ASSUME NEW d \in DOMAIN calls'
               PROVE  /\ calls'[d].context = IF calls'[d].type = "Delegate" THEN calls'[d].caller
                                             ELSE calls'[d].address
                      /\ \E k \in 1..d : calls'[k].address = calls'[d].context
                      /\ calls'[d].caller # Outside =>
                             \E k \in 1..d - 1 : /\ calls'[k].context = calls'[d].caller
                                                 /\ calls'[k].reverted => calls'[d].reverted
    BY DEF CallsInv
  <2>1. CASE d \in DOMAIN calls
    <3>1. /\ calls[d].context = IF calls[d].type = "Delegate" THEN calls[d].caller
                                ELSE calls[d].address
          /\ \E k \in 1..d : calls[k].address = calls[d].context
          /\ calls[d].caller # Outside =>
                 \E k \in 1..d - 1 : /\ calls[k].context = calls[d].caller
                                     /\ calls[k].reverted => calls[d].reverted
      BY <2>1 DEF ContractInv, CallsInv
    <3>2. \A k \in 1..d : k \in DOMAIN calls
      BY <1>6, <2>1
    <3>3. \A k \in 1..d - 1 : k \in DOMAIN calls
      BY <1>6, <2>1
    <3> QED  BY <1>14, <2>1, <3>1, <3>2, <3>3
  <2>2. CASE d = c
    <3>1. calls'[d] = r /\ d \in 1..d
      BY <1>9, <1>14, <2>2
    <3>2. \E k \in 1..d : calls'[k].address = calls'[d].context
      <4>1. CASE type # "Delegate"
        BY <1>4, <3>1, <4>1
      <4>2. CASE type = "Delegate"
        <5>1. X!Top \in DOMAIN calls /\ x = calls[X!Top].context
          BY <1>10, <4>2 DEF X!Begin
        <5>2. PICK k \in 1..X!Top : calls[k].address = x
          BY <5>1 DEF ContractInv, CallsInv
        <5>3. k \in DOMAIN calls /\ k \in 1..d
          BY <1>6, <1>9, <2>2, <5>1
        <5> QED  BY <1>4, <1>14, <3>1, <4>2, <5>2, <5>3
      <4> QED  BY <4>1, <4>2
    <3>3. ASSUME x # Outside
          PROVE  \E k \in 1..d - 1 : /\ calls'[k].context = x
                                     /\ calls'[k].reverted => calls'[d].reverted
      <4>1. X!Top \in DOMAIN calls /\ x = calls[X!Top].context /\ ~calls[X!Top].reverted
        BY <1>10, <3>3
      <4>2. X!Top \in 1..d - 1 /\ calls'[X!Top] = calls[X!Top]
        BY <1>6, <1>9, <1>1, <1>14, <2>2, <4>1
      <4> QED  BY <4>1, <4>2
    <3> QED  BY <1>4, <3>1, <3>2, <3>3
  <2> QED  BY <1>14, <2>1, <2>2
<1>22. CreationsInv'
  <2>1. ASSUME NEW i \in DOMAIN calls, calls[i].type = "Create", calls[i].reverted
        PROVE  world.code[calls[i].address] = Empty
    <3>1. CreatedInv(i) /\ calls[i] \in X!CallRecord
      BY <1>6, <2>1 DEF ContractInv, CreationsInv
    <3>2. calls[i].address \in Address
      BY <3>1 DEF X!CallRecord
    <3>3. ASSUME NEW n \in DOMAIN changes, changes[n].kind = "code",
                 changes[n].address = calls[i].address
          PROVE  calls[changes[n].call].reverted
      <4>1. /\ changes[n].call \in DOMAIN calls
            /\ changes[n].address = calls[changes[n].call].address
        BY <3>3 DEF ContractInv, ChangesInv
      <4> QED  BY <2>1, <3>1, <3>3, <4>1 DEF CreatedInv
    <3>4. world.code[calls[i].address] = before.code[calls[i].address]
      BY <3>2, <3>3, CodeUntouched
    <3> QED  BY <3>1, <3>4 DEF CreatedInv
  <2>2. ASSUME NEW i \in DOMAIN calls, calls[i].type = "Create"
        PROVE  CreatedInv(i)'
    <3>1. CreatedInv(i) /\ calls'[i] = calls[i] /\ i < c /\ i \in Nat /\ before' = before
      BY <1>6, <1>13, <1>14, <2>2 DEF ContractInv, CreationsInv
    <3>2. ASSUME NEW k \in DOMAIN calls',
                 calls'[i].address \in {calls'[k].address, calls'[k].context}
          PROVE  i <= k /\ (calls'[i].reverted => calls'[k].reverted)
      <4>1. CASE k \in DOMAIN calls
        BY <1>14, <3>1, <3>2, <4>1 DEF CreatedInv
      <4>2. CASE k = c
        <5>1. i <= k
          BY <1>9, <3>1, <4>2
        <5>2. ASSUME calls[i].reverted PROVE FALSE
          <6>1. world.code[calls[i].address] = Empty
            BY <2>1, <2>2, <5>2
          <6>2. CASE calls[i].address = a
            BY <6>1, <6>2 DEF X!Begin
          <6>3. CASE calls[i].address # a
            <7>1. calls[i].address = r.context /\ type = "Delegate" /\ r.context = x
              BY <1>4, <1>14, <3>1, <3>2, <4>2, <6>3
            <7>2. X!Top \in DOMAIN calls /\ ~calls[X!Top].reverted /\ x = calls[X!Top].context
              BY <1>10, <7>1 DEF X!Begin
            <7> QED  BY <3>1, <5>2, <7>1, <7>2 DEF CreatedInv
          <6> QED  BY <6>2, <6>3
        <5> QED  BY <3>1, <5>1, <5>2
      <4> QED  BY <1>14, <4>1, <4>2
    <3>3. \/ calls'[i].reverted
          \/ \E j \in DOMAIN stack' : stack'[j].call = i
          \/ \E n \in DOMAIN changes' : changes'[n].call = i /\ changes'[n].kind = "code"
      BY <1>16, <1>18, <3>1 DEF CreatedInv
    <3> QED  BY <3>1, <3>2, <3>3 DEF CreatedInv
  <2>3. ASSUME type = "Create" PROVE CreatedInv(c)'
    <3>1. world.code[a] = Empty /\ \A i \in DOMAIN calls : calls[i].address # a
      BY <2>3 DEF X!Begin
    <3>2. \A n \in DOMAIN changes : ~(changes[n].kind = "code" /\ changes[n].address = a)
      BY <3>1 DEF ContractInv, ChangesInv
    <3>3. before.code[a] = Empty
      BY <3>1, <3>2, CodeUntouched
    <3>4. \A k \in DOMAIN calls : calls[k].context # a
      <4> SUFFICES ASSUME NEW k \in DOMAIN calls, calls[k].context = a PROVE FALSE
        OBVIOUS
      <4>1. PICK d \in 1..k : calls[d].address = a
        BY DEF ContractInv, CallsInv
      <4>2. d \in DOMAIN calls
        BY <1>6
      <4> QED  BY <3>1, <4>1, <4>2
    <3>5. calls'[c] = r /\ r.address = a /\ ~r.reverted /\ before' = before
      BY <1>4, <1>13, <1>14
    <3>6. \A k \in DOMAIN calls' :
              a \in {calls'[k].address, calls'[k].context} => c <= k
      BY <1>9, <1>14, <3>1, <3>4
    <3>7. \E j \in DOMAIN stack' : stack'[j].call = c
      BY <1>7, <1>15, <1>16
    <3> QED  BY <3>3, <3>5, <3>6, <3>7 DEF CreatedInv
  <2> QED  BY <1>4, <1>14, <2>2, <2>3 DEF CreationsInv
<1>23. StackInv'
  <2>1. ~extracting'
    BY <1>13 DEF X!Begin
  <2>2. ASSUME NEW j \in DOMAIN stack
        PROVE  /\ stack'[j].call \in DOMAIN calls' /\ ~calls'[stack'[j].call].reverted
               /\ stack'[j].world \in X!World
               /\ Agrees(calls', changes', before', stack'[j].world, stack'[j].call)
               /\ \A k \in 1..j - 1 : stack'[k].call < stack'[j].call
    <3>1. /\ stack[j].call \in DOMAIN calls /\ ~calls[stack[j].call].reverted
          /\ stack[j].world \in X!World
          /\ Agrees(calls, changes, before, stack[j].world, stack[j].call)
          /\ \A k \in 1..j - 1 : stack[k].call < stack[j].call
      BY DEF ContractInv, StackInv
    <3>2. stack'[j] = stack[j] /\ \A k \in 1..j - 1 : stack'[k] = stack[k]
      BY <1>7, <1>16, SMTT(40)
    <3>3. PICK n, w : n = stack[j].call /\ w = stack[j].world
      OBVIOUS
    <3>4. n \in Nat /\ n < c
      BY <1>6, <1>9, <3>1, <3>3
    <3>5. Agrees(calls', changes \o t, before, w, n)
      <4>1. \A i \in DOMAIN changes : calls'[changes[i].call].reverted <=> calls[changes[i].call].reverted
        BY <1>14, <1>19
      <4>2. \A k \in DOMAIN t : ~(t[k].call < n)
        BY <1>9, <1>17, <3>4
      <4>3. Agrees(calls, changes, before, w, n)
        BY <3>1, <3>3
      <4> QED  BY <1>8, <1>17, <3>4, <4>1, <4>2, <4>3, RecordedLater
    <3> QED  BY <1>13, <1>14, <3>1, <3>2, <3>3, <3>5
  <2>3. ASSUME NEW j, j = Len(stack) + 1
        PROVE  /\ stack'[j].call \in DOMAIN calls' /\ ~calls'[stack'[j].call].reverted
               /\ stack'[j].world \in X!World
               /\ Agrees(calls', changes', before', stack'[j].world, stack'[j].call)
               /\ \A k \in 1..j - 1 : stack'[k].call < stack'[j].call
    <3>1. stack'[j].call = c /\ stack'[j].world = world
      BY <1>15, <1>16, <2>3
    <3>2. Agrees(calls', changes \o t, before, world, c)
      <4>1. \A i \in DOMAIN changes : calls'[changes[i].call].reverted <=> calls[changes[i].call].reverted
        BY <1>14, <1>19
      <4>2. \A k \in DOMAIN t : ~(t[k].call < c)
        BY <1>9, <1>17
      <4>3. Agrees(calls, changes, before, world, c)
        BY <1>1 DEF ContractInv, WorldInv
      <4> QED  BY <1>8, <1>9, <1>17, <4>1, <4>2, <4>3, RecordedLater
    <3>3. \A k \in 1..j - 1 : k \in DOMAIN stack
      BY <1>7, <2>3
    <3>4. \A k \in DOMAIN stack : stack[k].call \in DOMAIN calls
      BY DEF ContractInv, StackInv
    <3>5. \A k \in 1..j - 1 : stack'[k].call < c
      BY <1>14, <1>16, <3>3, <3>4
    <3>6. c \in DOMAIN calls' /\ ~calls'[c].reverted
      BY <1>4, <1>9, <1>14
    <3> QED  BY <1>9, <1>13, <3>1, <3>2, <3>5, <3>6
  <2>4. \A j \in DOMAIN stack' : j \in DOMAIN stack \/ j = Len(stack) + 1
    BY <1>16
  <2> QED  BY <2>1, <2>2, <2>3, <2>4 DEF StackInv
<1>24. ChangesInv'
  <2> SUFFICES ASSUME NEW n \in DOMAIN changes', NEW d, d = changes'[n].call
               PROVE  /\ d \in DOMAIN calls'
                      /\ changes'[n].kind = "storage" => changes'[n].address = calls'[d].context
                      /\ changes'[n].kind = "balance" =>
                             changes'[n].address \in {calls'[d].address, calls'[d].caller}
                      /\ changes'[n].kind = "code" =>
                             /\ calls'[d].type = "Create"
                             /\ changes'[n].address = calls'[d].address
                             /\ \A j \in DOMAIN stack' : stack'[j].call # d
    BY DEF ChangesInv
  <2>1. CASE n \in DOMAIN changes
    <3>1. d = changes[n].call /\ d \in DOMAIN calls /\ d # c /\ changes'[n] = changes[n]
      BY <1>9, <1>18, <2>1 DEF ContractInv, ChangesInv
    <3>2. (\A j \in DOMAIN stack : stack[j].call # d) => \A j \in DOMAIN stack' : stack'[j].call # d
      BY <1>15, <1>16, <3>1
    <3> QED  BY <1>14, <2>1, <3>1, <3>2 DEF ContractInv, ChangesInv
  <2>2. CASE n \notin DOMAIN changes
    <3>1. d = c /\ changes'[n].kind = "balance" /\ changes'[n].address \in {a, x}
      BY <1>17, <1>18, <2>2
    <3> QED  BY <1>4, <1>9, <1>14, <3>1
  <2> QED  BY <2>1, <2>2
<1>25. WorldInv'
  <2>1. \A i \in DOMAIN changes :
            /\ calls'[changes[i].call].reverted <=> calls[changes[i].call].reverted
            /\ changes[i].call < c /\ changes[i].call < c + 1
    BY <1>6, <1>9, <1>14, <1>19
  <2>2. \A k \in DOMAIN t : ~calls'[t[k].call].reverted /\ t[k].call < c + 1
    BY <1>4, <1>9, <1>14, <1>17
  <2>3. Agrees(calls, changes, before, world, c)
    BY <1>1 DEF ContractInv, WorldInv
  <2>4. c + 1 \in Nat
    BY <1>9
  <2>5. Agrees(calls', changes \o t, before, world', c + 1)
    BY <1>8, <1>9, <1>17, <2>1, <2>2, <2>3, <2>4, RecordedNow
  <2> QED  BY <1>13, <1>14, <2>5 DEF WorldInv
<1>26. ConsumerInv'
  <2>1. calls' # <<>>
    BY <1>9, <1>14
  <2> QED  BY <1>13, <2>1 DEF ContractInv, ConsumerInv
<1>27. BoundsInv'
  <2>1. Len(stack') = Len(stack) + 1 /\ Len(calls') = Len(calls) + 1 /\ Len(stack) <= Len(calls)
    BY <1>1, <1>7, <1>14, <1>13 DEF ContractInv, BoundsInv
  <2>2. Len(changes') <= MaxChanges /\ Len(changes') \in Nat /\ Len(calls') <= MaxCalls
    BY <1>1, <1>14, <1>18 DEF X!Begin
  <2> QED  BY <1>6, <1>7, <1>11, <2>1, <2>2 DEF BoundsInv
<1> QED  BY <1>20, <1>21, <1>22, <1>23, <1>24, <1>25, <1>26, <1>27 DEF ContractInv

(* The top call records what it changes, and may leave the stack.          *)
LEMMA TopStep ==
    ASSUME X!ExtractionAssumption, ContractInv, X!Running,
           UNCHANGED <<calls, before, contracts, dci>>,
           NEW t \in Seq(X!ChangeRecord), changes' = changes \o t,
           \A k \in DOMAIN t :
               /\ t[k].call = X!Top
               /\ \/ t[k].kind = "storage" /\ t[k].address = calls[X!Top].context
                  \/ /\ t[k].kind = "code" /\ t[k].address = calls[X!Top].address
                     /\ calls[X!Top].type = "Create" /\ stack' = X!Front(stack),
           Records(t, world, world'), world' \in X!World,
           \/ /\ UNCHANGED <<stack, extracting>>
              /\ Len(changes') <= MaxChanges
           \/ /\ stack' = X!Front(stack) /\ extracting' = (Len(stack) = 1)
              /\ Len(t) <= 1
              /\ calls[X!Top].type = "Create" => \E k \in DOMAIN t : t[k].kind = "code"
    PROVE  ContractInv'
<1>1. PICK c : c = X!Top
  OBVIOUS
<1>2. calls \in Seq(X!CallRecord) /\ Len(calls) \in Nat /\ DOMAIN calls = 1..Len(calls)
  BY DEF ContractInv, X!TypeOK
<1>3. stack \in Seq([call : Nat, world : X!World]) /\ Len(stack) \in Nat /\ DOMAIN stack = 1..Len(stack)
  BY DEF ContractInv, X!TypeOK
<1>4. changes \in Seq(X!ChangeRecord) /\ Len(changes) \in Nat /\ DOMAIN changes = 1..Len(changes)
  BY DEF ContractInv, X!TypeOK
<1>5. /\ Len(stack) \in DOMAIN stack /\ c \in DOMAIN calls /\ ~calls[c].reverted
      /\ c = stack[Len(stack)].call
  BY <1>1, ContextFacts DEF X!Top
<1>6. calls' = calls /\ before' = before /\ contracts' = contracts /\ dci' = dci
  OBVIOUS
<1>7. MaxChanges \in Nat /\ MaxCalls \in Nat
  BY DEF X!ExtractionAssumption
<1>8. PICK m : m = Len(stack')
  OBVIOUS
<1>9. /\ stack' \in Seq([call : Nat, world : X!World]) /\ m \in Nat
      /\ DOMAIN stack' = 1..m /\ m <= Len(stack)
      /\ \A j \in 1..m : stack'[j] = stack[j]
      /\ m = Len(stack) \/ m = Len(stack) - 1
  <2>1. CASE UNCHANGED stack
    <3>1. stack' = stack
      BY <2>1
    <3> QED  BY <1>3, <1>8, <3>1
  <2>2. CASE stack' = X!Front(stack)
    <3>1. /\ X!Front(stack) \in Seq([call : Nat, world : X!World])
          /\ Len(X!Front(stack)) = Len(stack) - 1
          /\ \A j \in 1..Len(stack) - 1 : X!Front(stack)[j] = stack[j]
      BY <1>3, <1>5, FrontFacts
    <3> QED  BY <1>3, <1>5, <1>8, <2>2, <3>1
  <2> QED  BY <2>1, <2>2
<1>10. /\ m \in Nat /\ Len(stack) \in Nat /\ m <= Len(stack)
       /\ m = Len(stack) \/ m = Len(stack) - 1
       /\ DOMAIN stack = 1..Len(stack) /\ DOMAIN stack' = 1..m
  BY <1>3, <1>9
<1>11. ASSUME NEW j \in DOMAIN stack'
       PROVE  /\ j \in DOMAIN stack /\ stack'[j] = stack[j]
              /\ \A k \in 1..j - 1 : stack'[k] = stack[k]
  <2>1. j \in 1..m /\ j \in 1..Len(stack)
    BY <1>10
  <2>2. \A k \in 1..j - 1 : k \in 1..m
    <3>1. m \in Nat /\ j \in 1..m
      BY <1>10, <2>1
    <3> QED  BY <3>1
  <2> QED  BY <1>9, <1>10, <2>1, <2>2
<1>12. /\ changes' \in Seq(X!ChangeRecord) /\ Len(changes') = Len(changes) + Len(t)
       /\ Len(t) \in Nat
       /\ \A n \in DOMAIN changes : n \in DOMAIN changes' /\ changes'[n] = changes[n]
       /\ \A n \in DOMAIN changes' :
              n \in DOMAIN changes \/ \E k \in DOMAIN t : changes'[n] = t[k]
       /\ \A k \in DOMAIN t : \E n \in DOMAIN changes' : changes'[n] = t[k]
  <2>1. changes' \in Seq(X!ChangeRecord) /\ Len(changes') = Len(changes) + Len(t)
    BY <1>4, ConcatProperties
  <2>2. \A n \in 1..Len(changes) + Len(t) :
            changes'[n] = IF n <= Len(changes) THEN changes[n] ELSE t[n - Len(changes)]
    BY <1>4, ConcatProperties
  <2>3. Len(t) \in Nat /\ DOMAIN t = 1..Len(t) /\ DOMAIN changes' = 1..Len(changes) + Len(t)
    BY <2>1
  <2>4. \A k \in DOMAIN t : k + Len(changes) \in DOMAIN changes' /\ changes'[k + Len(changes)] = t[k]
    BY <1>4, <2>2, <2>3
  <2>5. \A n \in DOMAIN changes : n \in DOMAIN changes' /\ changes'[n] = changes[n]
    BY <1>4, <2>2, <2>3
  <2>6. ASSUME NEW n \in DOMAIN changes', n \notin DOMAIN changes
        PROVE  \E k \in DOMAIN t : changes'[n] = t[k]
    <3>1. n - Len(changes) \in DOMAIN t /\ changes'[n] = t[n - Len(changes)]
      BY <1>4, <2>2, <2>3, <2>6
    <3> QED  BY <3>1
  <2> QED  BY <2>1, <2>3, <2>4, <2>5, <2>6
<1>13. \A n \in DOMAIN changes : changes[n].call \in DOMAIN calls
  BY DEF ContractInv, ChangesInv
<1>14. BoundsInv'
  <2>1. Len(stack) <= Len(calls) /\ Len(changes) + Len(stack) <= MaxChanges + MaxCalls
        /\ Len(calls) <= MaxCalls
    BY DEF ContractInv, BoundsInv, X!TypeOK
  <2>2. Len(changes') + m <= MaxChanges + MaxCalls
    <3>1. CASE UNCHANGED stack /\ Len(changes') <= MaxChanges
      <4>1. m = Len(stack) /\ Len(changes') \in Nat
        BY <1>4, <1>8, <1>12, <3>1
      <4> QED  BY <1>2, <1>3, <1>7, <2>1, <3>1, <4>1
    <3>2. CASE stack' = X!Front(stack) /\ Len(t) <= 1
      <4>1. m = Len(stack) - 1
        BY <1>3, <1>5, <1>8, <3>2, FrontFacts
      <4> QED  BY <1>3, <1>4, <1>7, <1>12, <2>1, <3>2, <4>1
    <3> QED  BY <3>1, <3>2
  <2>3. m <= Len(calls)
    BY <1>2, <1>3, <1>9, <2>1
  <2> QED  BY <1>6, <1>8, <2>2, <2>3 DEF BoundsInv
<1>15. X!TypeOK'
  <2>1. Len(changes') <= MaxChanges + MaxCalls
    <3>1. Len(changes') + m <= MaxChanges + MaxCalls /\ Len(changes') \in Nat
      BY <1>4, <1>8, <1>12, <1>14 DEF BoundsInv
    <3> QED  BY <1>7, <1>9, <3>1
  <2>2. extracting' \in BOOLEAN
    BY DEF ContractInv, X!TypeOK
  <2> QED  BY <1>6, <1>9, <1>12, <2>1, <2>2 DEF ContractInv, X!TypeOK
<1>16. CallsInv'
  BY <1>6 DEF ContractInv, CallsInv
<1>17. CreationsInv'
  <2> SUFFICES ASSUME NEW i \in DOMAIN calls, calls[i].type = "Create" PROVE CreatedInv(i)'
    BY <1>6 DEF CreationsInv
  <2>1. CreatedInv(i)
    BY DEF ContractInv, CreationsInv
  <2>2. ASSUME NEW j \in DOMAIN stack, stack[j].call = i
        PROVE  \/ \E k \in DOMAIN stack' : stack'[k].call = i
               \/ \E n \in DOMAIN changes' : changes'[n].call = i /\ changes'[n].kind = "code"
    <3>1. CASE j \in 1..m
      BY <1>9, <2>2, <3>1
    <3>2. CASE j \notin 1..m
      <4>1. j = Len(stack) /\ m # Len(stack)
        <5>1. PICK l \in Nat : l = Len(stack)
          BY <1>10
        <5>2. j \in 1..l /\ m \in Nat /\ (m = l \/ m = l - 1)
          BY <1>10, <5>1
        <5>3. j = l /\ m # l
          BY <3>2, <5>2
        <5> QED  BY <5>1, <5>3
      <4>2. i = c /\ ~UNCHANGED stack
        BY <1>5, <1>8, <2>2, <4>1
      <4>3. PICK k \in DOMAIN t : t[k].kind = "code"
        BY <1>1, <4>2
      <4>4. t[k].call = i
        BY <1>1, <4>2
      <4>5. PICK n \in DOMAIN changes' : changes'[n] = t[k]
        BY <1>12
      <4> QED  BY <4>3, <4>4, <4>5
    <3> QED  BY <3>1, <3>2
  <2>3. ASSUME NEW n \in DOMAIN changes, changes[n].call = i, changes[n].kind = "code"
        PROVE  \E p \in DOMAIN changes' : changes'[p].call = i /\ changes'[p].kind = "code"
    BY <1>12, <2>3
  <2> QED  BY <1>6, <2>1, <2>2, <2>3 DEF CreatedInv
<1>18. StackInv'
  <2>1. ASSUME NEW j \in DOMAIN stack'
        PROVE  /\ stack'[j].call \in DOMAIN calls' /\ ~calls'[stack'[j].call].reverted
               /\ stack'[j].world \in X!World
               /\ Agrees(calls', changes', before', stack'[j].world, stack'[j].call)
               /\ \A k \in 1..j - 1 : stack'[k].call < stack'[j].call
    <3>1. j \in DOMAIN stack /\ stack'[j] = stack[j] /\ \A k \in 1..j - 1 : stack'[k] = stack[k]
      BY <1>11
    <3>2. /\ stack[j].call \in DOMAIN calls /\ ~calls[stack[j].call].reverted
          /\ stack[j].world \in X!World
          /\ Agrees(calls, changes, before, stack[j].world, stack[j].call)
          /\ \A k \in 1..j - 1 : stack[k].call < stack[j].call
      BY <3>1 DEF ContractInv, StackInv
    <3>3. PICK n, w : n = stack[j].call /\ w = stack[j].world
      OBVIOUS
    <3>4. n \in Nat /\ n <= c
      <4>1. n \in Nat
        BY <1>2, <3>2, <3>3
      <4>2. CASE j = Len(stack)
        BY <1>5, <3>3, <4>1, <4>2
      <4>3. CASE j # Len(stack)
        <5>1. j \in 1..Len(stack) - 1
          BY <1>3, <3>1, <4>3
        <5>2. \A k \in 1..Len(stack) - 1 : stack[k].call < stack[Len(stack)].call
          BY <1>5 DEF ContractInv, StackInv
        <5>3. n < c
          BY <1>5, <3>3, <5>1, <5>2
        <5> QED  BY <1>2, <1>5, <4>1, <5>3
      <4> QED  BY <4>2, <4>3
    <3>5. Agrees(calls, changes \o t, before, w, n)
      <4>1. \A k \in DOMAIN t : ~(t[k].call < n)
        BY <1>1, <1>2, <1>5, <3>4
      <4>2. Agrees(calls, changes, before, w, n)
        BY <3>2, <3>3
      <4> QED  BY <1>4, <3>4, <4>1, <4>2, RecordedLater
    <3> QED  BY <1>6, <3>1, <3>2, <3>3, <3>5
  <2>2. extracting' => stack' = <<>>
    <3>1. CASE UNCHANGED <<stack, extracting>>
      BY <3>1 DEF ContractInv, StackInv
    <3>2. CASE stack' = X!Front(stack) /\ extracting' = (Len(stack) = 1)
      <4>1. SUFFICES ASSUME Len(stack) = 1 PROVE stack' = <<>>
        BY <3>2
      <4>2. Len(stack') = 0
        BY <1>3, <1>5, <3>2, <4>1, FrontFacts
      <4> QED  BY <1>9, <4>2
    <3> QED  BY <3>1, <3>2
  <2> QED  BY <2>1, <2>2 DEF StackInv
<1>19. ChangesInv'
  <2> SUFFICES ASSUME NEW n \in DOMAIN changes', NEW d, d = changes'[n].call
               PROVE  /\ d \in DOMAIN calls
                      /\ changes'[n].kind = "storage" => changes'[n].address = calls[d].context
                      /\ changes'[n].kind = "balance" =>
                             changes'[n].address \in {calls[d].address, calls[d].caller}
                      /\ changes'[n].kind = "code" =>
                             /\ calls[d].type = "Create"
                             /\ changes'[n].address = calls[d].address
                             /\ \A j \in DOMAIN stack' : stack'[j].call # d
    BY <1>6 DEF ChangesInv
  <2>1. CASE n \in DOMAIN changes
    <3>1. changes'[n] = changes[n]
      BY <1>12, <2>1
    <3>2. (\A j \in DOMAIN stack : stack[j].call # d) => \A j \in DOMAIN stack' : stack'[j].call # d
      BY <1>11
    <3> QED  BY <2>1, <3>1, <3>2 DEF ContractInv, ChangesInv
  <2>2. CASE n \notin DOMAIN changes
    <3>1. PICK k \in DOMAIN t : changes'[n] = t[k]
      BY <1>12, <2>2
    <3>2. d = c
      BY <1>1, <3>1
    <3>3. ASSUME stack' = X!Front(stack), NEW j \in DOMAIN stack' PROVE stack'[j].call # d
      <4>1. Len(stack') = Len(stack) - 1
        BY <1>3, <1>5, <3>3, FrontFacts
      <4>2. j \in 1..Len(stack) - 1 /\ stack'[j] = stack[j]
        BY <1>8, <1>9, <4>1
      <4>3. stack[j].call < c /\ stack[j].call \in DOMAIN calls
        <5>1. j \in DOMAIN stack
          BY <1>11, <3>3
        <5> QED  BY <1>5, <4>2, <5>1 DEF ContractInv, StackInv
      <4> QED  BY <1>2, <1>5, <3>2, <4>2, <4>3
    <3> QED  BY <1>1, <1>5, <3>1, <3>2, <3>3
  <2> QED  BY <2>1, <2>2
<1>20. WorldInv'
  <2>1. PICK l : l = Len(calls) + 1
    OBVIOUS
  <2>2. l \in Nat /\ \A i \in DOMAIN changes : changes[i].call < l
    BY <1>2, <1>13, <2>1
  <2>3. \A k \in DOMAIN t : ~calls[t[k].call].reverted /\ t[k].call < l
    BY <1>1, <1>2, <1>5, <2>1
  <2>4. Agrees(calls, changes, before, world, l)
    BY <2>1 DEF ContractInv, WorldInv
  <2>5. Agrees(calls, changes \o t, before, world', l)
    BY <1>4, <2>2, <2>3, <2>4, RecordedNow
  <2> QED  BY <1>6, <2>1, <2>5 DEF WorldInv
<1>21. ConsumerInv'
  <2>1. calls # <<>>
    BY <1>2, <1>5
  <2> QED  BY <1>6, <2>1 DEF ContractInv, ConsumerInv
<1> QED  BY <1>14, <1>15, <1>16, <1>17, <1>18, <1>19, <1>20, <1>21 DEF ContractInv

LEMMA WriteStep ==
    ASSUME X!ExtractionAssumption, ContractInv, NEW s \in Slot, NEW word \in Word, X!Write(s, word)
    PROVE  ContractInv'
<1>1. PICK x : x = X!Context
  OBVIOUS
<1>2. PICK q : q = X!Recorded(X!Top, "storage", x, s, world.slots[<<x, s>>], word)
  OBVIOUS
<1>3. PICK t : t = <<q>>
  OBVIOUS
<1>4. /\ X!Running /\ x = calls[X!Top].context /\ x \in Address /\ X!Top \in DOMAIN calls
      /\ calls \in Seq(X!CallRecord) /\ changes \in Seq(X!ChangeRecord) /\ world \in X!World
  BY <1>1, ContextFacts DEF ContractInv, X!TypeOK, X!Write
<1>5. q \in X!ChangeRecord /\ q.call = X!Top /\ q.kind = "storage" /\ q.address = x
      /\ Place(q) = <<"storage", x, s>> /\ q.old = world.slots[<<x, s>>] /\ q.new = word
  <2>1. X!Top \in Nat /\ world.slots[<<x, s>>] \in Word
    BY <1>4 DEF X!World
  <2> QED  BY <1>2, <1>4, <2>1 DEF X!Recorded, X!ChangeRecord, X!ChangesOf, Place
<1>6. t \in Seq(X!ChangeRecord) /\ DOMAIN t = {1} /\ t[1] = q
  BY <1>3, <1>5
<1>7. changes' = changes \o t
  <2>1. changes' = Append(changes, q)
    BY <1>1, <1>2 DEF X!Write
  <2> QED  BY <1>3, <1>4, <1>5, <2>1, AppendIsConcat
<1>8. PICK w : w = world'
  OBVIOUS
<1>9. w = [world EXCEPT !.slots[<<x, s>>] = word]
  BY <1>1, <1>8 DEF X!Write
<1>10. w \in X!World /\ w.balance = world.balance /\ w.code = world.code
       /\ w.slots = [world.slots EXCEPT ![<<x, s>>] = word]
  BY <1>4, <1>9 DEF X!World
<1>11. Records(t, world, w)
  <2> SUFFICES ASSUME NEW l \in Location
               PROVE  \/ Held(w, l) = Held(world, l) /\ \A k \in DOMAIN t : Place(t[k]) # l
                      \/ \E k \in DOMAIN t :
                             /\ t[k].old = Held(world, l) /\ t[k].new = Held(w, l)
                             /\ \A j \in DOMAIN t : Place(t[j]) = l <=> j = k
    BY DEF Records
  <2>1. CASE l = <<"storage", x, s>>
    <3>1. Held(world, l) = world.slots[<<x, s>>] /\ Held(w, l) = word
      <4>1. <<x, s>> \in DOMAIN world.slots
        BY <1>4 DEF X!World
      <4> QED  BY <1>10, <2>1, <4>1 DEF Held
    <3> QED  BY <1>5, <1>6, <2>1, <3>1
  <2>2. CASE l # <<"storage", x, s>>
    <3>1. Held(w, l) = Held(world, l)
      <4>1. CASE l[1] # "storage"
        BY <1>10, <4>1 DEF Held
      <4>2. CASE l[1] = "storage"
        <5>1. l = <<"storage", l[2], l[3]>> /\ l[2] \in Address /\ l[3] \in Slot
          BY <4>2 DEF Location
        <5>2. <<l[2], l[3]>> # <<x, s>> /\ <<l[2], l[3]>> \in DOMAIN world.slots
          BY <1>4, <2>2, <5>1 DEF X!World
        <5>3. w.slots[<<l[2], l[3]>>] = world.slots[<<l[2], l[3]>>]
          BY <1>10, <5>2
        <5> QED  BY <4>2, <5>3 DEF Held
      <4> QED  BY <4>1, <4>2
    <3> QED  BY <1>5, <1>6, <2>2, <3>1
  <2> QED  BY <2>1, <2>2
<1>12. UNCHANGED <<calls, before, contracts, dci, stack, extracting>>
  BY DEF X!Write, X!outVars
<1>13. Len(changes') <= MaxChanges
  <2>1. Len(changes) < MaxChanges /\ MaxChanges \in Nat /\ Len(changes) \in Nat
    BY <1>4 DEF X!Write, X!ExtractionAssumption
  <2>2. Len(changes') = Len(changes) + 1
    BY <1>4, <1>3, <1>6, <1>7
  <2> QED  BY <2>1, <2>2
<1>14. \A k \in DOMAIN t : /\ t[k].call = X!Top
                           /\ t[k].kind = "storage" /\ t[k].address = calls[X!Top].context
  BY <1>4, <1>5, <1>6
<1> QED  BY <1>4, <1>6, <1>7, <1>8, <1>10, <1>11, <1>12, <1>13, <1>14, TopStep

LEMMA ReturnStep ==
    ASSUME X!ExtractionAssumption, ContractInv, NEW code \in Code, X!Return(code)
    PROVE  ContractInv'
<1>1. PICK x : x = X!Context
  OBVIOUS
<1>2. /\ X!Running /\ x = calls[X!Top].context /\ x \in Address /\ X!Top \in DOMAIN calls
      /\ calls \in Seq(X!CallRecord) /\ changes \in Seq(X!ChangeRecord) /\ world \in X!World
  BY <1>1, ContextFacts DEF ContractInv, X!TypeOK, X!Return
<1>3. UNCHANGED <<calls, before, contracts, dci>> /\ stack' = X!Front(stack)
      /\ extracting' = (Len(stack) = 1)
  BY DEF X!Return, X!outVars
<1>4. CASE calls[X!Top].type = "Create"
  <2>1. PICK q : q = X!Recorded(X!Top, "code", x, Empty, Empty, code)
    OBVIOUS
  <2>2. PICK t : t = <<q>>
    OBVIOUS
  <2>3. calls[X!Top].address = x
    BY <1>2, <1>4 DEF ContractInv, CallsInv
  <2>4. q \in X!ChangeRecord /\ q.call = X!Top /\ q.kind = "code" /\ q.address = x
        /\ Place(q) = <<"code", x, Empty>> /\ q.old = Empty /\ q.new = code
    <3>1. X!Top \in Nat
      BY <1>2
    <3> QED  BY <1>2, <2>1, <3>1 DEF X!Recorded, X!ChangeRecord, X!ChangesOf, Place
  <2>5. t \in Seq(X!ChangeRecord) /\ DOMAIN t = {1} /\ t[1] = q /\ Len(t) = 1
    BY <2>2, <2>4
  <2>6. changes' = changes \o t
    <3>1. changes' = Append(changes, q)
      BY <1>1, <1>4, <2>1 DEF X!Return
    <3> QED  BY <1>2, <2>2, <2>4, <3>1, AppendIsConcat
  <2>7. PICK w : w = world'
    OBVIOUS
  <2>8. w = [world EXCEPT !.code[x] = code]
    BY <1>1, <1>4, <2>7 DEF X!Return
  <2>9. w \in X!World /\ w.balance = world.balance /\ w.slots = world.slots
        /\ w.code = [world.code EXCEPT ![x] = code]
    BY <1>2, <2>8 DEF X!World
  <2>10. world.code[x] = Empty
    <3>1. CreatedInv(X!Top)
      BY <1>2, <1>4 DEF ContractInv, CreationsInv
    <3>2. ASSUME NEW n \in DOMAIN changes, changes[n].kind = "code", changes[n].address = x
          PROVE  calls[changes[n].call].reverted
      <4>1. PICK d : d = changes[n].call
        OBVIOUS
      <4>2. /\ d \in DOMAIN calls /\ calls[d].type = "Create" /\ calls[d].address = x
            /\ \A j \in DOMAIN stack : stack[j].call # d
        BY <3>2, <4>1 DEF ContractInv, ChangesInv
      <4>3. CreatedInv(d)
        BY <4>2 DEF ContractInv, CreationsInv
      <4>4. d <= X!Top /\ X!Top <= d
        BY <1>2, <2>3, <3>1, <4>2, <4>3 DEF CreatedInv
      <4>5. d = X!Top
        BY <1>2, <4>2, <4>4
      <4> QED  BY <1>2, <4>2, <4>5, ContextFacts DEF X!Top
    <3>3. world.code[x] = before.code[x]
      BY <1>2, <3>2, CodeUntouched
    <3> QED  BY <2>3, <3>1, <3>3 DEF CreatedInv
  <2>11. Records(t, world, w)
    <3> SUFFICES ASSUME NEW l \in Location
                 PROVE  \/ Held(w, l) = Held(world, l) /\ \A k \in DOMAIN t : Place(t[k]) # l
                        \/ \E k \in DOMAIN t :
                               /\ t[k].old = Held(world, l) /\ t[k].new = Held(w, l)
                               /\ \A j \in DOMAIN t : Place(t[j]) = l <=> j = k
      BY DEF Records
    <3>1. CASE l = <<"code", x, Empty>>
      <4>1. Held(world, l) = Empty /\ Held(w, l) = code
        BY <1>2, <2>9, <2>10, <3>1 DEF Held, X!World
      <4> QED  BY <2>4, <2>5, <3>1, <4>1
    <3>2. CASE l # <<"code", x, Empty>>
      <4>1. Held(w, l) = Held(world, l)
        <5>1. CASE l[1] = "storage" \/ l[1] = "balance"
          BY <2>9, <5>1 DEF Held
        <5>2. CASE ~(l[1] = "storage" \/ l[1] = "balance")
          <6>1. l = <<"code", l[2], Empty>> /\ l[2] \in Address
            BY <5>2 DEF Location
          <6>2. l[2] # x /\ l[2] \in DOMAIN world.code
            BY <1>2, <3>2, <6>1 DEF X!World
          <6>3. w.code[l[2]] = world.code[l[2]]
            BY <2>9, <6>2
          <6> QED  BY <5>2, <6>3 DEF Held
        <5> QED  BY <5>1, <5>2
      <4> QED  BY <2>4, <2>5, <3>2, <4>1
    <3> QED  BY <3>1, <3>2
  <2>12. \A k \in DOMAIN t :
             /\ t[k].call = X!Top
             /\ t[k].kind = "code" /\ t[k].address = calls[X!Top].address
             /\ calls[X!Top].type = "Create" /\ stack' = X!Front(stack)
    BY <1>3, <1>4, <2>3, <2>4, <2>5
  <2>13. \E k \in DOMAIN t : t[k].kind = "code"
    BY <2>4, <2>5
  <2>14. Records(t, world, world') /\ world' \in X!World
    BY <2>7, <2>9, <2>11
  <2>15. stack' = X!Front(stack) /\ extracting' = (Len(stack) = 1) /\ Len(t) <= 1
    BY <1>3, <2>5
  <2> HIDE DEF X!Return
  <2> QED  BY <1>2, <1>3, <2>5, <2>6, <2>12, <2>13, <2>14, <2>15, TopStep
<1>5. CASE calls[X!Top].type # "Create"
  <2>1. PICK t : t = <<>>
    OBVIOUS
  <2>2. t \in Seq(X!ChangeRecord) /\ Len(t) = 0 /\ DOMAIN t = {}
    BY <2>1
  <2>3. changes' = changes \o t /\ world' = world
    <3>1. changes' = changes /\ world' = world
      BY <1>5 DEF X!Return
    <3> QED  BY <1>2, <2>1, <3>1, ConcatEmptySeq
  <2>4. Records(t, world, world')
    BY <2>2, <2>3 DEF Records
  <2>5. world' \in X!World
    BY <1>2, <2>3
  <2>6. \A k \in DOMAIN t :
            /\ t[k].call = X!Top
            /\ \/ t[k].kind = "storage" /\ t[k].address = calls[X!Top].context
               \/ /\ t[k].kind = "code" /\ t[k].address = calls[X!Top].address
                  /\ calls[X!Top].type = "Create" /\ stack' = X!Front(stack)
    BY <2>2
  <2>7. Len(t) <= 1
    BY <2>2
  <2> QED  BY <1>2, <1>3, <1>5, <2>2, <2>3, <2>4, <2>5, <2>6, <2>7, TopStep
<1> QED  BY <1>4, <1>5

LEMMA RevertStep == ASSUME X!ExtractionAssumption, ContractInv, X!Revert PROVE ContractInv'
<1>1. PICK c : c = X!Top
  OBVIOUS
<1>2. calls \in Seq(X!CallRecord) /\ Len(calls) \in Nat /\ DOMAIN calls = 1..Len(calls)
  BY DEF ContractInv, X!TypeOK
<1>3. stack \in Seq([call : Nat, world : X!World]) /\ Len(stack) \in Nat /\ DOMAIN stack = 1..Len(stack)
  BY DEF ContractInv, X!TypeOK
<1>4. changes \in Seq(X!ChangeRecord) /\ Len(changes) \in Nat /\ DOMAIN changes = 1..Len(changes)
  BY DEF ContractInv, X!TypeOK
<1>5. PICK L : L = Len(stack)
  OBVIOUS
<1>6. L \in Nat /\ L > 1 /\ L \in DOMAIN stack /\ X!Running
  BY <1>3, <1>5 DEF X!Revert, X!Running
<1>7. c \in DOMAIN calls /\ c \in Nat /\ c = stack[L].call
  BY <1>1, <1>2, <1>5, <1>6, ContextFacts DEF X!Top
<1>8. PICK w : w = stack[L].world
  OBVIOUS
<1>9. /\ world' = w /\ UNCHANGED <<before, changes, extracting, contracts, dci>>
      /\ stack' = X!Front(stack)
      /\ calls' = [i \in DOMAIN calls |-> [calls[i] EXCEPT !.reverted = @ \/ i >= c]]
  BY <1>1, <1>5, <1>8 DEF X!Revert, X!outVars
<1>10. /\ calls' \in Seq(X!CallRecord) /\ Len(calls') = Len(calls) /\ DOMAIN calls' = DOMAIN calls
       /\ \A i \in DOMAIN calls :
              /\ calls'[i].type = calls[i].type /\ calls'[i].address = calls[i].address
              /\ calls'[i].caller = calls[i].caller /\ calls'[i].context = calls[i].context
              /\ calls'[i].reverted <=> (calls[i].reverted \/ i >= c)
  <2>1. ASSUME NEW i \in DOMAIN calls
        PROVE  /\ calls'[i] \in X!CallRecord
               /\ calls'[i].type = calls[i].type /\ calls'[i].address = calls[i].address
               /\ calls'[i].caller = calls[i].caller /\ calls'[i].context = calls[i].context
               /\ calls'[i].reverted <=> (calls[i].reverted \/ i >= c)
    <3>1. PICK r, q : r = calls[i] /\ q = (calls[i].reverted \/ i >= c)
      OBVIOUS
    <3>2. r \in X!CallRecord /\ q \in BOOLEAN
      BY <1>2, <3>1
    <3>3. calls'[i] = [r EXCEPT !.reverted = q]
      BY <1>9, <3>1
    <3>4. /\ calls'[i] \in X!CallRecord
          /\ calls'[i].type = r.type /\ calls'[i].address = r.address
          /\ calls'[i].caller = r.caller /\ calls'[i].context = r.context
          /\ calls'[i].reverted = q
      BY <3>2, <3>3 DEF X!CallRecord
    <3> QED  BY <3>1, <3>4
  <2>2. DOMAIN calls' = 1..Len(calls)
    BY <1>2, <1>9
  <2>3. calls' = [i \in 1..Len(calls) |-> calls'[i]]
    BY <1>2, <1>9
  <2>4. \A i \in 1..Len(calls) : calls'[i] \in X!CallRecord
    BY <1>2, <2>1
  <2>5. calls' \in Seq(X!CallRecord) /\ Len(calls') = Len(calls)
    BY <1>2, <2>3, <2>4
  <2> QED  BY <1>2, <2>1, <2>2, <2>5
<1>11. /\ stack' \in Seq([call : Nat, world : X!World]) /\ Len(stack') = L - 1
       /\ DOMAIN stack' = 1..L - 1
       /\ \A j \in 1..L - 1 : stack'[j] = stack[j]
  <2>1. /\ X!Front(stack) \in Seq([call : Nat, world : X!World]) /\ Len(X!Front(stack)) = L - 1
        /\ \A j \in 1..L - 1 : X!Front(stack)[j] = stack[j]
    BY <1>3, <1>5, <1>6, FrontFacts
  <2>2. DOMAIN X!Front(stack) = 1..L - 1
    BY <2>1
  <2> QED  BY <1>9, <2>1, <2>2
<1>12. \A j \in 1..L - 1 : j \in DOMAIN stack
  <2>1. DOMAIN stack = 1..L
    BY <1>3, <1>5
  <2> QED  BY <1>6, <2>1
<1>13. /\ w \in X!World /\ Agrees(calls, changes, before, w, c)
       /\ \A k \in 1..L - 1 : stack[k].call < c
  BY <1>6, <1>7, <1>8 DEF ContractInv, StackInv
<1>14. \A n \in DOMAIN changes : changes[n].call \in DOMAIN calls
  BY DEF ContractInv, ChangesInv
<1>15. \A j \in 1..L - 1 : stack[j].call \in DOMAIN calls
  BY <1>12 DEF ContractInv, StackInv
<1>16. X!TypeOK' /\ BoundsInv'
  <2>1. L - 1 <= L /\ L - 1 \in Nat
    BY <1>6
  <2>2. Len(stack') <= Len(calls')
    BY <1>2, <1>5, <1>6, <1>10, <1>11 DEF ContractInv, BoundsInv
  <2>3. Len(changes') + Len(stack') <= MaxChanges + MaxCalls
    BY <1>4, <1>5, <1>6, <1>9, <1>11 DEF ContractInv, BoundsInv, X!ExtractionAssumption
  <2> QED  BY <1>9, <1>10, <1>11, <1>13, <2>2, <2>3 DEF ContractInv, X!TypeOK, BoundsInv
<1>17. CallsInv'
  <2> SUFFICES ASSUME NEW d \in DOMAIN calls
               PROVE  /\ calls'[d].context = IF calls'[d].type = "Delegate" THEN calls'[d].caller
                                             ELSE calls'[d].address
                      /\ \E k \in 1..d : calls'[k].address = calls'[d].context
                      /\ calls'[d].caller # Outside =>
                             \E k \in 1..d - 1 : /\ calls'[k].context = calls'[d].caller
                                                 /\ calls'[k].reverted => calls'[d].reverted
    BY <1>10 DEF CallsInv
  <2>1. /\ calls[d].context = IF calls[d].type = "Delegate" THEN calls[d].caller
                              ELSE calls[d].address
        /\ \E k \in 1..d : calls[k].address = calls[d].context
        /\ calls[d].caller # Outside =>
               \E k \in 1..d - 1 : /\ calls[k].context = calls[d].caller
                                   /\ calls[k].reverted => calls[d].reverted
    BY DEF ContractInv, CallsInv
  <2>2. d \in Nat /\ \A k \in 1..d : k \in DOMAIN calls
    BY <1>2
  <2>3. \A k \in 1..d - 1 : k \in 1..d /\ (k >= c => d >= c)
    BY <1>7, <2>2
  <2>4. ASSUME calls[d].caller # Outside
        PROVE  \E k \in 1..d - 1 : /\ calls'[k].context = calls'[d].caller
                                   /\ calls'[k].reverted => calls'[d].reverted
    <3>1. PICK k \in 1..d - 1 : /\ calls[k].context = calls[d].caller
                                /\ calls[k].reverted => calls[d].reverted
      BY <2>1, <2>4
    <3> QED  BY <1>10, <2>2, <2>3, <3>1
  <2> QED  BY <1>10, <2>1, <2>2, <2>4
<1>18. CreationsInv'
  <2> SUFFICES ASSUME NEW i \in DOMAIN calls, calls[i].type = "Create" PROVE CreatedInv(i)'
    BY <1>10 DEF CreationsInv
  <2>1. CreatedInv(i)
    BY DEF ContractInv, CreationsInv
  <2>2. ASSUME NEW k \in DOMAIN calls, calls[i].address \in {calls[k].address, calls[k].context}
        PROVE  i <= k /\ (calls'[i].reverted => calls'[k].reverted)
    <3>1. i <= k /\ (calls[i].reverted => calls[k].reverted)
      BY <2>1, <2>2 DEF CreatedInv
    <3>2. i >= c => k >= c
      BY <1>2, <1>7, <3>1
    <3> QED  BY <1>10, <3>1, <3>2
  <2>3. ASSUME NEW j \in DOMAIN stack, stack[j].call = i
        PROVE  calls'[i].reverted \/ \E k \in DOMAIN stack' : stack'[k].call = i
    <3>1. CASE j = L
      <4>1. i >= c
        BY <1>7, <2>3, <3>1
      <4> QED  BY <1>10, <4>1
    <3>2. CASE j # L
      <4>1. j \in 1..L - 1
        BY <1>3, <1>5, <3>2
      <4> QED  BY <1>11, <2>3, <4>1
    <3> QED  BY <3>1, <3>2
  <2> QED  BY <1>9, <1>10, <2>1, <2>2, <2>3 DEF CreatedInv
<1>19. StackInv'
  <2>1. ASSUME NEW j \in 1..L - 1
        PROVE  /\ stack'[j].call \in DOMAIN calls' /\ ~calls'[stack'[j].call].reverted
               /\ stack'[j].world \in X!World
               /\ Agrees(calls', changes', before', stack'[j].world, stack'[j].call)
               /\ \A k \in 1..j - 1 : stack'[k].call < stack'[j].call
    <3>1. /\ stack[j].call \in DOMAIN calls /\ ~calls[stack[j].call].reverted
          /\ stack[j].world \in X!World
          /\ Agrees(calls, changes, before, stack[j].world, stack[j].call)
          /\ \A k \in 1..j - 1 : stack[k].call < stack[j].call
      BY <1>12 DEF ContractInv, StackInv
    <3>2. \A k \in 1..j - 1 : k \in 1..L - 1
      BY <1>6
    <3>3. PICK n, v : n = stack[j].call /\ v = stack[j].world
      OBVIOUS
    <3>4. n < c /\ n \in Nat
      BY <1>2, <1>13, <3>1, <3>3
    <3>5. \A i \in DOMAIN changes :
              ~calls'[changes[i].call].reverted /\ changes[i].call < n
                  <=> ~calls[changes[i].call].reverted /\ changes[i].call < n
      <4> SUFFICES ASSUME NEW i \in DOMAIN changes, changes[i].call < n
                   PROVE  calls'[changes[i].call].reverted <=> calls[changes[i].call].reverted
        OBVIOUS
      <4>1. changes[i].call \in DOMAIN calls /\ ~(changes[i].call >= c)
        BY <1>2, <1>7, <1>14, <3>4
      <4> QED  BY <1>10, <4>1
    <3>6. Agrees(calls', changes, before, v, n)
      BY <3>1, <3>3, <3>5, SameChanges
    <3>7. ~(n >= c)
      BY <1>7, <3>4
    <3> QED  BY <1>9, <1>10, <1>11, <3>1, <3>2, <3>3, <3>6, <3>7
  <2>2. ~extracting'
    <3>1. stack # <<>>
      BY <1>6
    <3> QED  BY <1>9, <3>1 DEF ContractInv, StackInv
  <2> QED  BY <1>11, <2>1, <2>2 DEF StackInv
<1>20. ChangesInv'
  <2> SUFFICES ASSUME NEW n \in DOMAIN changes, NEW d, d = changes[n].call
               PROVE  /\ d \in DOMAIN calls'
                      /\ changes[n].kind = "storage" => changes[n].address = calls'[d].context
                      /\ changes[n].kind = "balance" =>
                             changes[n].address \in {calls'[d].address, calls'[d].caller}
                      /\ changes[n].kind = "code" =>
                             /\ calls'[d].type = "Create"
                             /\ changes[n].address = calls'[d].address
                             /\ \A j \in DOMAIN stack' : stack'[j].call # d
    BY <1>9 DEF ChangesInv
  <2>1. (\A j \in DOMAIN stack : stack[j].call # d) => \A j \in DOMAIN stack' : stack'[j].call # d
    BY <1>11, <1>12
  <2> QED  BY <1>10, <2>1 DEF ContractInv, ChangesInv
<1>21. WorldInv'
  <2>1. PICK l : l = Len(calls) + 1
    OBVIOUS
  <2>2. \A i \in DOMAIN changes :
            ~calls'[changes[i].call].reverted /\ changes[i].call < l
                <=> ~calls[changes[i].call].reverted /\ changes[i].call < c
    <3> SUFFICES ASSUME NEW i \in DOMAIN changes
                 PROVE  ~calls'[changes[i].call].reverted /\ changes[i].call < l
                            <=> ~calls[changes[i].call].reverted /\ changes[i].call < c
      OBVIOUS
    <3>1. changes[i].call \in DOMAIN calls
      BY <1>14
    <3>2. changes[i].call < l /\ (changes[i].call < c <=> ~(changes[i].call >= c))
      BY <1>2, <1>7, <2>1, <3>1
    <3> QED  BY <1>10, <3>1, <3>2
  <2>3. Agrees(calls', changes, before, w, l)
    BY <1>13, <2>2, SameChanges
  <2> QED  BY <1>9, <1>10, <2>1, <2>3 DEF WorldInv
<1>22. ConsumerInv'
  <2>1. calls' # <<>>
    BY <1>2, <1>7, <1>10
  <2> QED  BY <1>9, <2>1 DEF ContractInv, ConsumerInv
<1> QED  BY <1>16, <1>17, <1>18, <1>19, <1>20, <1>21, <1>22 DEF ContractInv

-----------------------------------------------------------------------------
(* The extraction                                                          *)

LEMMA Pairs == \A A, B : \A p \in A \X B : \E a \in A, b \in B : p = <<a, b>>
OBVIOUS

\* Two functions on pairs are equal when they agree on every pair.
OnPairs(f, A, B) == f = [p \in A \X B |-> f[p]]

LEMMA SameOnPairs ==
    ASSUME NEW A, NEW B, NEW f, NEW g, OnPairs(f, A, B), OnPairs(g, A, B),
           \A a \in A, b \in B : f[<<a, b>>] = g[<<a, b>>]
    PROVE  f = g
<1>1. ASSUME NEW p \in A \X B PROVE f[p] = g[p]
  <2>1. \E a \in A, b \in B : p = <<a, b>>
    BY Pairs
  <2> QED  BY <2>1
<1> QED  BY <1>1 DEF OnPairs

LEMMA KeptIsAt ==
    ASSUME ContractInv, NEW a \in Address
    PROVE  /\ \A s \in Slot : {i \in X!Kept("storage", a) : changes[i].key = s}
                                  = At(calls, changes, <<"storage", a, s>>, Len(calls) + 1)
           /\ X!Kept("balance", a) = At(calls, changes, <<"balance", a, Empty>>, Len(calls) + 1)
           /\ X!Kept("code", a) = At(calls, changes, <<"code", a, Empty>>, Len(calls) + 1)
<1>1. ASSUME NEW i \in DOMAIN changes
      PROVE  /\ changes[i].call < Len(calls) + 1
             /\ changes[i].kind \in {"balance", "code"} => changes[i].key = Empty
  <2>1. changes[i] \in X!ChangeRecord /\ calls \in Seq(X!CallRecord)
    BY DEF ContractInv, X!TypeOK
  <2>2. changes[i].call \in 1..Len(calls) /\ Len(calls) \in Nat
    BY <2>1 DEF ContractInv, ChangesInv
  <2>3. changes[i].kind \in {"balance", "code"} => changes[i].key = Empty
    BY <2>1 DEF X!ChangeRecord, X!ChangesOf
  <2> QED  BY <2>2, <2>3
<1> QED  BY <1>1 DEF X!Kept, At, Place

(* What is extracted of a slot: where it was and where it is.              *)
LEMMA SlotsFolded ==
    ASSUME X!ExtractionAssumption, ContractInv, NEW a \in Address
    PROVE  \A s \in Slot :
               \/ /\ X!Upserts(X!Kept("storage", a))[s] = Untouched
                  /\ before.slots[<<a, s>>] = world.slots[<<a, s>>]
               \/ /\ X!Upserts(X!Kept("storage", a))[s] # Untouched
                  /\ X!Upserts(X!Kept("storage", a))[s] =
                         [start_value |-> before.slots[<<a, s>>],
                          new_value   |-> world.slots[<<a, s>>]]
<1> SUFFICES ASSUME NEW s \in Slot
             PROVE  \/ /\ X!Upserts(X!Kept("storage", a))[s] = Untouched
                       /\ before.slots[<<a, s>>] = world.slots[<<a, s>>]
                    \/ /\ X!Upserts(X!Kept("storage", a))[s] # Untouched
                       /\ X!Upserts(X!Kept("storage", a))[s] =
                              [start_value |-> before.slots[<<a, s>>],
                               new_value   |-> world.slots[<<a, s>>]]
  OBVIOUS
<1> DEFINE is == X!Kept("storage", a)
<1>1. PICK l : l = <<"storage", a, s>>
  OBVIOUS
<1>2. PICK at : at = At(calls, changes, l, Len(calls) + 1)
  OBVIOUS
<1>3. changes \in Seq(X!ChangeRecord) /\ Len(changes) \in Nat /\ DOMAIN changes = 1..Len(changes)
      /\ before \in X!World /\ world \in X!World
  BY DEF ContractInv, X!TypeOK
<1>4. is \in SUBSET DOMAIN changes /\ \A i \in is : changes[i].kind = "storage"
  BY DEF X!Kept
<1>5. X!Upserts(is) = [r \in Slot |-> Entry({i \in is : changes[i].key = r})]
  BY <1>3, <1>4, UpsertsAreEntries
<1>6. X!Upserts(is)[s] = Entry({i \in is : changes[i].key = s})
  BY <1>5
<1>7. X!Upserts(is)[s] = Entry(at)
  BY <1>1, <1>2, <1>6, KeptIsAt
<1>8. l \in Location
  BY <1>1 DEF Location
<1>9. Leads(changes, at, Held(before, l), Held(world, l))
  BY <1>2, <1>8 DEF ContractInv, WorldInv, Agrees
<1>10. Held(before, l) = before.slots[<<a, s>>] /\ Held(world, l) = world.slots[<<a, s>>]
  BY <1>1 DEF Held
<1>11. at \in SUBSET (1..Len(changes))
  BY <1>2, <1>3 DEF At
<1>12. CASE at = {}
  BY <1>7, <1>9, <1>10, <1>12 DEF Entry, Leads
<1>13. CASE at # {}
  <2>1. changes[X!Min(at)].old = Held(before, l) /\ changes[X!Max(at)].new = Held(world, l)
    BY <1>3, <1>9, <1>11, <1>13, Ends
  <2>2. Entry(at) = [start_value |-> before.slots[<<a, s>>], new_value |-> world.slots[<<a, s>>]]
    BY <1>10, <1>13, <2>1 DEF Entry
  <2>3. Entry(at) # Untouched
    <3>1. before.slots[<<a, s>>] \in Word /\ world.slots[<<a, s>>] \in Word
      BY <1>3 DEF X!World
    <3>2. Entry(at) \in X!Contract!SlotValue
      BY <2>2, <3>1 DEF X!Contract!SlotValue
    <3> QED  BY <3>2 DEF X!ExtractionAssumption
  <2> QED  BY <1>7, <2>2, <2>3
<1> QED  BY <1>12, <1>13

(* The storage and the code of an account of interest is changed by calls  *)
(* that pass the filter.                                                   *)
LEMMA FilteredAreKept ==
    ASSUME ContractInv, NEW a \in Included
    PROVE  X!Collected("storage", a) = X!Kept("storage", a) /\ X!Collected("code", a) = X!Kept("code", a)
<1>1. ASSUME NEW i \in DOMAIN changes, changes[i].kind \in {"storage", "code"},
             changes[i].address = a
      PROVE  X!FilteredCall(calls[changes[i].call]) <=> ~calls[changes[i].call].reverted
  <2>1. PICK c : c = changes[i].call
    OBVIOUS
  <2>2. /\ c \in DOMAIN calls
        /\ changes[i].kind = "storage" => a = calls[c].context
        /\ changes[i].kind = "code" => a = calls[c].address
    BY <1>1, <2>1 DEF ContractInv, ChangesInv
  <2>3. calls[c].context = IF calls[c].type = "Delegate" THEN calls[c].caller ELSE calls[c].address
    BY <2>2 DEF ContractInv, CallsInv
  <2> QED  BY <1>1, <2>1, <2>2, <2>3 DEF X!FilteredCall
<1> QED  BY <1>1 DEF X!Collected, X!Kept

LEMMA CodeFolded ==
    ASSUME X!ExtractionAssumption, ContractInv, NEW a \in Address
    PROVE  /\ X!Kept("code", a) = {} => world.code[a] = before.code[a]
           /\ X!Kept("code", a) # {} => /\ changes[X!Max(X!Kept("code", a))].new = world.code[a]
                                      /\ world.code[a] \in Code
<1>1. PICK at : at = X!Kept("code", a)
  OBVIOUS
<1>2. PICK l : l = <<"code", a, Empty>>
  OBVIOUS
<1>3. l \in Location /\ at = At(calls, changes, l, Len(calls) + 1)
  BY <1>1, <1>2, KeptIsAt DEF Location
<1>4. Leads(changes, at, Held(before, l), Held(world, l))
  BY <1>3 DEF ContractInv, WorldInv, Agrees
<1>5. Held(before, l) = before.code[a] /\ Held(world, l) = world.code[a]
  BY <1>2 DEF Held
<1>6. CASE at = {}
  BY <1>1, <1>4, <1>5, <1>6 DEF Leads
<1>7. CASE at # {}
  <2>1. Len(changes) \in Nat /\ changes \in Seq(X!ChangeRecord) /\ DOMAIN changes = 1..Len(changes)
    BY DEF ContractInv, X!TypeOK
  <2>2. at \in SUBSET (1..Len(changes)) /\ \A i \in at : changes[i].kind = "code"
    BY <1>1, <2>1 DEF X!Kept
  <2>3. PICK m : m = X!Max(at)
    OBVIOUS
  <2>4. changes[m].new = world.code[a] /\ m \in at
    BY <1>4, <1>5, <1>7, <2>1, <2>2, <2>3, Ends, Greatest
  <2>5. changes[m] \in X!ChangeRecord /\ changes[m].kind = "code"
    BY <2>1, <2>2, <2>4
  <2>6. changes[m].new \in Code
    BY <2>5 DEF X!ChangeRecord, X!ChangesOf
  <2> QED  BY <1>1, <1>7, <2>3, <2>4, <2>6
<1> QED  BY <1>6, <1>7

LEMMA BalanceFolded ==
    ASSUME X!ExtractionAssumption, ContractInv, NEW a \in Address
    PROVE  /\ X!NativeBalance(a) = Untouched => before.balance[a] = world.balance[a]
           /\ X!NativeBalance(a) # Untouched => X!NativeBalance(a) = world.balance[a]
<1>1. PICK at : at = X!Kept("balance", a)
  OBVIOUS
<1>2. PICK l : l = <<"balance", a, Empty>>
  OBVIOUS
<1>3. l \in Location /\ at = At(calls, changes, l, Len(calls) + 1)
  BY <1>1, <1>2, KeptIsAt DEF Location
<1>4. Leads(changes, at, Held(before, l), Held(world, l))
  BY <1>3 DEF ContractInv, WorldInv, Agrees
<1>5. Held(before, l) = X!Bytes(before.balance[a]) /\ Held(world, l) = X!Bytes(world.balance[a])
  BY <1>2 DEF Held
<1>6. before.balance[a] \in 0..MaxNative /\ world.balance[a] \in 0..MaxNative
      /\ Empty \notin 0..MaxNative /\ Untouched \notin 0..MaxNative
  BY DEF ContractInv, X!TypeOK, X!World, X!ExtractionAssumption
<1>7. CASE at = {}
  <2>1. X!Bytes(before.balance[a]) = X!Bytes(world.balance[a])
    BY <1>4, <1>5, <1>7 DEF Leads
  <2>2. before.balance[a] = world.balance[a]
    BY <1>6, <2>1 DEF X!Bytes
  <2>3. X!NativeBalance(a) = Untouched
    BY <1>1, <1>7 DEF X!NativeBalance
  <2> QED  BY <2>2, <2>3
<1>8. CASE at # {}
  <2>1. Len(changes) \in Nat /\ changes \in Seq(X!ChangeRecord) /\ DOMAIN changes = 1..Len(changes)
    BY DEF ContractInv, X!TypeOK
  <2>2. at \in SUBSET (1..Len(changes))
    BY <1>1, <2>1 DEF X!Kept
  <2>3. changes[X!Min(at)].old = X!Bytes(before.balance[a]) /\ changes[X!Max(at)].new = X!Bytes(world.balance[a])
    <3>1. PICK n, old, new : n = Len(changes) /\ old = Held(before, l) /\ new = Held(world, l)
      OBVIOUS
    <3>2. n \in Nat /\ at \in SUBSET (1..n) /\ Leads(changes, at, old, new)
      BY <1>4, <2>1, <2>2, <3>1
    <3>3. changes[X!Min(at)].old = old /\ changes[X!Max(at)].new = new
      BY <1>8, <3>2, Ends
    <3> QED  BY <1>5, <3>1, <3>3
  <2>4. X!NativeBalance(a) = IF X!Bytes(before.balance[a]) = X!Bytes(world.balance[a]) THEN Untouched
                           ELSE IF X!Bytes(world.balance[a]) = Empty THEN 0 ELSE X!Bytes(world.balance[a])
    BY <1>1, <1>8, <2>3 DEF X!NativeBalance
  <2>5. X!Bytes(world.balance[a]) = Empty <=> world.balance[a] = 0
    BY <1>6 DEF X!Bytes
  <2> QED  BY <1>6, <2>4, <2>5 DEF X!Bytes
<1> QED  BY <1>7, <1>8

(* get_block_storage_changes                                               *)
LEMMA DciAfterExtract ==
    ASSUME X!ExtractionAssumption, ContractInv, X!Extract
    PROVE  dci' = [slots |-> world.slots, balance |-> world.balance]
<1>1. before \in X!World /\ world \in X!World /\ dci = [slots |-> before.slots, balance |-> before.balance]
  BY DEF ContractInv, X!TypeOK, ConsumerInv
<1>2. PICK ds : ds = [as \in Address \X Slot |->
                         LET sv == X!StorageChangesOf(as[1]).slots[as[2]]
                         IN  IF sv = Untouched THEN dci.slots[as] ELSE sv.new_value]
  OBVIOUS
<1>3. PICK db : db = [a \in Address |->
                         LET b == X!StorageChangesOf(a).native_balance
                         IN  IF b = Untouched THEN dci.balance[a] ELSE b]
  OBVIOUS
<1>4. dci' = [slots |-> ds, balance |-> db]
  BY <1>2, <1>3 DEF X!Extract
<1>5. ds = world.slots
  <2>1. ASSUME NEW a \in Address, NEW s \in Slot
        PROVE  ds[<<a, s>>] = world.slots[<<a, s>>]
    <3>1. PICK sl : sl = X!Upserts(X!Kept("storage", a))[s]
      OBVIOUS
    <3>2. PICK sv : sv = X!StorageChangesOf(a).slots[s]
      OBVIOUS
    <3>3. sv = IF sl # Untouched /\ X!Contract!HasChanged(sl) THEN sl ELSE Untouched
      BY <3>1, <3>2 DEF X!StorageChangesOf
    <3>4. ds[<<a, s>>] = IF sv = Untouched THEN dci.slots[<<a, s>>] ELSE sv.new_value
      BY <1>2, <3>2
    <3>5. dci.slots[<<a, s>>] = before.slots[<<a, s>>]
      BY <1>1
    <3>6. CASE sl = Untouched /\ before.slots[<<a, s>>] = world.slots[<<a, s>>]
      BY <3>3, <3>4, <3>5, <3>6
    <3>7. CASE /\ sl # Untouched
               /\ sl = [start_value |-> before.slots[<<a, s>>], new_value |-> world.slots[<<a, s>>]]
      BY <3>3, <3>4, <3>5, <3>7 DEF X!Contract!HasChanged
    <3> QED  BY <3>1, <3>6, <3>7, SlotsFolded
  <2>2. OnPairs(world.slots, Address, Slot)
    BY <1>1 DEF X!World, OnPairs
  <2>3. OnPairs(ds, Address, Slot)
    BY <1>2, Zenon DEF OnPairs
  <2> QED  BY <2>1, <2>2, <2>3, SameOnPairs
<1>6. db = world.balance
  <2> SUFFICES ASSUME NEW a \in Address PROVE db[a] = world.balance[a]
    <3>1. world.balance = [a \in Address |-> world.balance[a]]
      BY <1>1 DEF X!World
    <3> QED  BY <1>3, <3>1
  <2>1. db[a] = IF X!NativeBalance(a) = Untouched THEN dci.balance[a] ELSE X!NativeBalance(a)
    BY <1>3 DEF X!StorageChangesOf
  <2>2. dci.balance[a] = before.balance[a]
    BY <1>1
  <2> QED  BY <2>1, <2>2, BalanceFolded
<1> QED  BY <1>4, <1>5, <1>6

(* A creation that was reverted leaves no change of the account.           *)
LEMMA CreationReverted ==
    ASSUME X!ExtractionAssumption, ContractInv, NEW i \in DOMAIN calls, calls[i].type = "Create",
           calls[i].reverted, NEW n \in DOMAIN changes,
           changes[n].address = calls[i].address
    PROVE  calls[changes[n].call].reverted
<1>1. PICK a, c : a = calls[i].address /\ c = changes[n].call
  OBVIOUS
<1>2. calls \in Seq(X!CallRecord) /\ changes \in Seq(X!ChangeRecord) /\ Outside \notin Address
  BY DEF ContractInv, X!TypeOK, X!ExtractionAssumption
<1>3. a \in Address /\ changes[n].kind \in {"storage", "balance", "code"}
  <2>1. calls[i] \in X!CallRecord /\ changes[n] \in X!ChangeRecord
    BY <1>2
  <2> QED  BY <1>1, <2>1 DEF X!CallRecord, X!ChangeRecord, X!ChangesOf
<1>4. /\ c \in DOMAIN calls
      /\ a \in {calls[c].address, calls[c].context, calls[c].caller}
  BY <1>1, <1>3 DEF ContractInv, ChangesInv
<1>5. CreatedInv(i)
  BY DEF ContractInv, CreationsInv
<1>6. CASE a \in {calls[c].address, calls[c].context}
  BY <1>1, <1>4, <1>5, <1>6 DEF CreatedInv
<1>7. CASE a = calls[c].caller
  <2>1. PICK k \in 1..c - 1 : calls[k].context = a /\ (calls[k].reverted => calls[c].reverted)
    BY <1>2, <1>3, <1>4, <1>7 DEF ContractInv, CallsInv
  <2>2. k \in DOMAIN calls
    BY <1>2, <1>4
  <2> QED  BY <1>1, <1>5, <2>1, <2>2 DEF CreatedInv
<1> QED  BY <1>4, <1>6, <1>7

(* extract_contract_changes: the record of an account of interest.         *)
LEMMA ContractExtracted ==
    ASSUME X!ExtractionAssumption, ContractInv, extracting, NEW a \in Included
    PROVE  /\ X!ContractChanges(a) = NoContract =>
                  /\ \A s \in Slot : before.slots[<<a, s>>] = world.slots[<<a, s>>]
                  /\ before.code[a] = world.code[a]
           /\ X!ContractChanges(a) # NoContract =>
                  /\ X!ContractChanges(a) = [creation |-> a \in X!CreatedAccounts,
                                           balance  |-> X!LastBalance(a),
                                           code     |-> X!LastCode(a),
                                           slots    |-> X!Upserts(X!Kept("storage", a)),
                                           tokens   |-> <<>>]
                  /\ X!LastBalance(a) \in X!NativeAmount
                  /\ \/ X!LastCode(a) = Empty /\ before.code[a] = world.code[a]
                     \/ X!LastCode(a) \in Code /\ X!LastCode(a) = world.code[a]
                  /\ a \in X!CreatedAccounts => before.code[a] = Empty /\ world.code[a] # Empty
                  /\ a \notin X!CreatedAccounts => (before.code[a] = Empty <=> world.code[a] = Empty)
<1>1. a \in Address
  BY DEF X!ExtractionAssumption
<1>2. X!Collected("storage", a) = X!Kept("storage", a) /\ X!Collected("code", a) = X!Kept("code", a)
  BY FilteredAreKept
<1> DEFINE none == \A kind \in {"storage", "balance", "code"} : X!Collected(kind, a) = {}
           record == [creation |-> a \in X!CreatedAccounts, balance |-> X!LastBalance(a),
                      code |-> X!LastCode(a), slots |-> X!Upserts(X!Kept("storage", a)),
                      tokens |-> <<>>]
<1>3. X!ContractChanges(a) = IF none THEN NoContract ELSE record
  BY <1>2 DEF X!ContractChanges
<1>4. Len(changes) \in Nat /\ changes \in Seq(X!ChangeRecord) /\ DOMAIN changes = 1..Len(changes)
      /\ before \in X!World /\ world \in X!World
  BY DEF ContractInv, X!TypeOK
<1>5. X!LastBalance(a) \in X!NativeAmount
  <2>1. PICK is : is = {i \in X!Collected("balance", a) : changes[i].new # Empty}
    OBVIOUS
  <2>2. CASE is = {}
    BY <2>1, <2>2 DEF X!LastBalance, X!NativeAmount
  <2>3. CASE is # {}
    <3>1. is \in SUBSET (1..Len(changes)) /\ \A i \in is : changes[i].kind = "balance"
      BY <1>4, <2>1 DEF X!Collected
    <3>2. PICK m : m = X!Max(is)
      OBVIOUS
    <3>3. m \in is
      BY <1>4, <2>3, <3>1, <3>2, Greatest
    <3>4. changes[m] \in X!ChangeRecord /\ changes[m].kind = "balance"
      BY <1>4, <3>1, <3>3
    <3>5. changes[m].new \in X!NativeAmount
      BY <3>4 DEF X!ChangeRecord, X!ChangesOf
    <3> QED  BY <2>1, <2>3, <3>2, <3>5 DEF X!LastBalance
  <2> QED  BY <2>2, <2>3
<1>6. \/ X!Kept("code", a) = {} /\ X!LastCode(a) = Empty /\ before.code[a] = world.code[a]
      \/ X!Kept("code", a) # {} /\ X!LastCode(a) \in Code /\ X!LastCode(a) = world.code[a]
  BY <1>1, <1>2, CodeFolded DEF X!LastCode
<1>7. Empty \notin Code
  BY DEF X!ExtractionAssumption
<1>8. ASSUME a \in X!CreatedAccounts
      PROVE  /\ before.code[a] = Empty
             /\ none \/ world.code[a] # Empty
  <2>1. PICK i \in DOMAIN calls : calls[i].type = "Create" /\ calls[i].address = a
    BY <1>8 DEF X!CreatedAccounts
  <2>2. CreatedInv(i) /\ stack = <<>>
    BY <2>1 DEF ContractInv, CreationsInv, StackInv
  <2>3. CASE calls[i].reverted
    <3>1. \A n \in DOMAIN changes : changes[n].address = a => calls[changes[n].call].reverted
      BY <2>1, <2>3, CreationReverted
    <3>2. none
      BY <3>1 DEF X!Collected, X!FilteredCall
    <3> QED  BY <2>1, <2>2, <3>2 DEF CreatedInv
  <2>4. CASE ~calls[i].reverted
    <3>1. PICK n \in DOMAIN changes : changes[n].call = i /\ changes[n].kind = "code"
      BY <2>2, <2>4 DEF CreatedInv
    <3>2. changes[n].address = a
      BY <2>1, <3>1 DEF ContractInv, ChangesInv
    <3>3. n \in X!Kept("code", a)
      BY <2>4, <3>1, <3>2 DEF X!Kept
    <3> QED  BY <1>6, <1>7, <2>1, <2>2, <3>3 DEF CreatedInv
  <2> QED  BY <2>3, <2>4
<1>9. ASSUME a \notin X!CreatedAccounts PROVE X!Kept("code", a) = {}
  <2> SUFFICES ASSUME NEW n \in X!Kept("code", a) PROVE FALSE
    OBVIOUS
  <2>1. PICK c : c = changes[n].call
    OBVIOUS
  <2>2. c \in DOMAIN calls /\ calls[c].type = "Create" /\ calls[c].address = a
    BY <2>1 DEF X!Kept, ContractInv, ChangesInv
  <2> QED  BY <1>9, <2>2 DEF X!CreatedAccounts
<1>10. ASSUME none
       PROVE  /\ \A s \in Slot : before.slots[<<a, s>>] = world.slots[<<a, s>>]
              /\ before.code[a] = world.code[a]
  <2>1. X!Kept("storage", a) = {} /\ X!Kept("code", a) = {}
    BY <1>2, <1>10
  <2>2. ASSUME NEW s \in Slot PROVE before.slots[<<a, s>>] = world.slots[<<a, s>>]
    <3>1. PICK l : l = <<"storage", a, s>>
      OBVIOUS
    <3>2. {i \in X!Kept("storage", a) : changes[i].key = s} = {}
      BY <2>1
    <3>3. l \in Location /\ At(calls, changes, l, Len(calls) + 1) = {}
      BY <1>1, <3>1, <3>2, KeptIsAt DEF Location
    <3>4. Held(before, l) = Held(world, l)
      BY <3>3 DEF ContractInv, WorldInv, Agrees, Leads
    <3> QED  BY <3>1, <3>4 DEF Held
  <2> QED  BY <1>6, <2>1, <2>2
<1>11. record # NoContract
  <2>1. record \in X!Contract!Interim
    <3>1. X!Upserts(X!Kept("storage", a)) \in [Slot -> X!Contract!SlotValue \cup {Untouched}]
      <4>1. X!Kept("storage", a) \in SUBSET DOMAIN changes
            /\ \A i \in X!Kept("storage", a) : changes[i].kind = "storage"
        BY DEF X!Kept
      <4>2. X!Upserts(X!Kept("storage", a)) =
                [s \in Slot |-> Entry({i \in X!Kept("storage", a) : changes[i].key = s})]
        BY <1>4, <4>1, UpsertsAreEntries
      <4>3. ASSUME NEW s \in Slot
            PROVE  X!Upserts(X!Kept("storage", a))[s] \in X!Contract!SlotValue \cup {Untouched}
        <5>1. before.slots[<<a, s>>] \in Word /\ world.slots[<<a, s>>] \in Word
          BY <1>1, <1>4 DEF X!World
        <5>2. PICK sv : sv = X!Upserts(X!Kept("storage", a))[s]
          OBVIOUS
        <5>3. \/ sv = Untouched
              \/ sv = [start_value |-> before.slots[<<a, s>>], new_value |-> world.slots[<<a, s>>]]
          BY <1>1, <5>2, SlotsFolded
        <5> QED  BY <5>1, <5>2, <5>3 DEF X!Contract!SlotValue
      <4> QED  BY <4>2, <4>3
    <3>2. X!LastCode(a) \in Code \cup {Empty}
      BY <1>6
    <3>3. <<>> \in [{} -> 1..MaxNative \cup {Untouched}]
      OBVIOUS
    <3>4. (a \in X!CreatedAccounts) \in BOOLEAN
      OBVIOUS
    <3> QED  BY <1>5, <3>1, <3>2, <3>3, <3>4 DEF X!Contract!Interim, X!NativeAmount
  <2> QED  BY <2>1 DEF X!ExtractionAssumption
<1> HIDE DEF none, record
<1>12. CASE none
  BY <1>3, <1>10, <1>12
<1>13. CASE ~none
  <2>1. X!ContractChanges(a) = record /\ X!ContractChanges(a) # NoContract
    BY <1>3, <1>11, <1>13
  <2> QED  BY <1>5, <1>6, <1>8, <1>9, <1>13, <2>1 DEF record
<1> QED  BY <1>12, <1>13

LEMMA AppliedIsWorld ==
    ASSUME X!ExtractionAssumption, ContractInv, extracting, NEW a \in Included
    PROVE  LET known == X!Contract!Applied(contracts[a], X!ContractChanges(a)) IN
           /\ known \in [exists : BOOLEAN, balance : 0..MaxNative,
                         code : Code \cup {Empty}, slots : [Slot -> Word]]
           /\ \A s \in Slot : known.slots[s] = world.slots[<<a, s>>]
           /\ known.code = world.code[a]
           /\ known.exists <=> world.code[a] # Empty
<1>1. PICK cc, old : cc = X!ContractChanges(a) /\ old = contracts[a]
  OBVIOUS
<1>2. PICK known : known = X!Contract!Applied(old, cc)
  OBVIOUS
<1>3. /\ old \in [exists : BOOLEAN, balance : 0..MaxNative,
                  code : Code \cup {Empty}, slots : [Slot -> Word]]
      /\ \A s \in Slot : old.slots[s] = before.slots[<<a, s>>]
      /\ old.code = before.code[a]
      /\ old.exists <=> before.code[a] # Empty
      /\ a \in Address /\ world \in X!World
  BY <1>1 DEF ContractInv, X!TypeOK, ConsumerInv, X!ExtractionAssumption
<1>4. CASE cc = NoContract
  <2>1. known = old
    BY <1>2, <1>4 DEF X!Contract!Applied
  <2>2. /\ \A s \in Slot : before.slots[<<a, s>>] = world.slots[<<a, s>>]
        /\ before.code[a] = world.code[a]
    BY <1>1, <1>4, ContractExtracted
  <2> QED  BY <1>1, <1>2, <1>3, <2>1, <2>2
<1>5. CASE cc # NoContract
  <2>1. PICK created, native, code, slots :
            /\ created = (a \in X!CreatedAccounts) /\ native = X!LastBalance(a)
            /\ code = X!LastCode(a) /\ slots = X!Upserts(X!Kept("storage", a))
    OBVIOUS
  <2>2. /\ cc = [creation |-> created, balance |-> native, code |-> code,
                 slots |-> slots, tokens |-> <<>>]
        /\ native \in X!NativeAmount
        /\ \/ code = Empty /\ before.code[a] = world.code[a]
           \/ code \in Code /\ code = world.code[a]
        /\ created => before.code[a] = Empty /\ world.code[a] # Empty
        /\ ~created => (before.code[a] = Empty <=> world.code[a] = Empty)
        /\ created \in BOOLEAN
    <3>1. /\ cc = [creation |-> a \in X!CreatedAccounts, balance |-> X!LastBalance(a),
                   code |-> X!LastCode(a), slots |-> X!Upserts(X!Kept("storage", a)), tokens |-> <<>>]
          /\ X!LastBalance(a) \in X!NativeAmount
          /\ \/ X!LastCode(a) = Empty /\ before.code[a] = world.code[a]
             \/ X!LastCode(a) \in Code /\ X!LastCode(a) = world.code[a]
          /\ a \in X!CreatedAccounts => before.code[a] = Empty /\ world.code[a] # Empty
          /\ a \notin X!CreatedAccounts => (before.code[a] = Empty <=> world.code[a] = Empty)
      BY <1>1, <1>5, ContractExtracted
    <3>2. created = (a \in X!CreatedAccounts)
      BY <2>1
    <3>3. created \in BOOLEAN /\ (created <=> a \in X!CreatedAccounts)
      <4>1. created \in BOOLEAN
        BY <3>2
      <4>2. a \in X!CreatedAccounts => created
        BY <3>2
      <4>3. a \notin X!CreatedAccounts => ~created
        BY <3>2, Zenon
      <4> QED  BY <4>1, <4>2, <4>3
    <3>4. cc = [creation |-> created, balance |-> native, code |-> code,
                slots |-> slots, tokens |-> <<>>]
      BY <2>1, <3>1
    <3>5. /\ native \in X!NativeAmount
          /\ \/ code = Empty /\ before.code[a] = world.code[a]
             \/ code \in Code /\ code = world.code[a]
      BY <2>1, <3>1
    <3> QED  BY <3>1, <3>4, <3>5, <3>3
  <2>3. ASSUME NEW s \in Slot
        PROVE  \/ slots[s] = Untouched /\ before.slots[<<a, s>>] = world.slots[<<a, s>>]
               \/ /\ slots[s] # Untouched
                  /\ slots[s] = [start_value |-> before.slots[<<a, s>>],
                                 new_value   |-> world.slots[<<a, s>>]]
    BY <1>3, <2>1, SlotsFolded
  <2>4. /\ cc.creation = created /\ cc.balance = native /\ cc.code = code /\ cc.slots = slots
        /\ Empty \notin Code /\ MaxNative \in Nat
    BY <2>2 DEF X!ExtractionAssumption
  <2>5. ASSUME NEW s \in Slot
        PROVE  s \notin X!Contract!EmittedSlots(cc) => before.slots[<<a, s>>] = world.slots[<<a, s>>]
    <3>1. CASE slots[s] = Untouched
      BY <2>3, <3>1
    <3>2. CASE slots[s] # Untouched
      <4>1. slots[s].start_value = before.slots[<<a, s>>] /\ slots[s].new_value = world.slots[<<a, s>>]
        <5>1. slots[s] = [start_value |-> before.slots[<<a, s>>], new_value |-> world.slots[<<a, s>>]]
          BY <2>3, <3>2
        <5> QED  BY <5>1
      <4> QED  BY <2>4, <3>2, <4>1 DEF X!Contract!EmittedSlots, X!Contract!HasChanged
    <3> QED  BY <3>1, <3>2
  <2>6. ASSUME NEW s \in X!Contract!EmittedSlots(cc)
        PROVE  s \in Slot /\ cc.slots[s].new_value = world.slots[<<a, s>>]
    <3>1. s \in Slot /\ slots[s] # Untouched
      BY <2>4 DEF X!Contract!EmittedSlots
    <3>2. slots[s].new_value = world.slots[<<a, s>>]
      <4>1. slots[s] = [start_value |-> before.slots[<<a, s>>], new_value |-> world.slots[<<a, s>>]]
        BY <2>3, <3>1
      <4> QED  BY <4>1
    <3> QED  BY <2>4, <3>1, <3>2
  <2>7. CASE X!Contract!IsEmpty(cc)
    <3>1. known = old
      BY <1>2, <2>7 DEF X!Contract!Applied
    <3>2. code = Empty /\ ~created
      BY <2>4, <2>7 DEF X!Contract!IsEmpty
    <3>3. ASSUME NEW s \in Slot PROVE before.slots[<<a, s>>] = world.slots[<<a, s>>]
      <4>1. s \notin X!Contract!EmittedSlots(cc)
        BY <2>7 DEF X!Contract!IsEmpty, X!Contract!EmittedSlots
      <4> QED  BY <2>5, <4>1
    <3>4. before.code[a] = world.code[a]
      BY <2>2, <2>4, <3>2
    <3> QED  BY <1>1, <1>2, <1>3, <3>1, <3>3, <3>4
  <2>8. CASE ~X!Contract!IsEmpty(cc)
    <3>1. PICK ns : ns = [s \in Slot |-> IF s \in X!Contract!EmittedSlots(cc)
                                         THEN cc.slots[s].new_value ELSE old.slots[s]]
      OBVIOUS
    <3>2. known = [exists  |-> old.exists \/ created,
                   balance |-> IF native = Empty THEN old.balance ELSE native,
                   code    |-> IF code = Empty THEN old.code ELSE code,
                   slots   |-> ns]
      BY <1>2, <1>5, <2>4, <2>8, <3>1 DEF X!Contract!Applied, X!Contract!UnlessEmpty
    <3>3. \A s \in Slot : ns[s] = world.slots[<<a, s>>]
      BY <1>3, <2>5, <2>6, <3>1
    <3>4. ns \in [Slot -> Word]
      <4>1. \A s \in Slot : world.slots[<<a, s>>] \in Word
        BY <1>3 DEF X!World
      <4> QED  BY <3>1, <3>3, <4>1
    <3>5. known.exists = (old.exists \/ created) /\ known.slots = ns
          /\ known.balance = (IF native = Empty THEN old.balance ELSE native)
          /\ known.code = (IF code = Empty THEN old.code ELSE code)
      BY <3>2
    <3>6. known.code = world.code[a]
      BY <1>3, <2>2, <2>4, <3>5
    <3>7. known.exists <=> world.code[a] # Empty
      BY <1>3, <2>2, <3>5
    <3>8. known.balance \in 0..MaxNative
      BY <1>3, <2>2, <2>4, <3>5 DEF X!NativeAmount
    <3>9. world.code[a] \in Code \cup {Empty} /\ known.exists \in BOOLEAN
      BY <1>3, <3>5 DEF X!World
    <3>10. known \in [exists : BOOLEAN, balance : 0..MaxNative,
                      code : Code \cup {Empty}, slots : [Slot -> Word]]
      BY <3>2, <3>4, <3>5, <3>6, <3>8, <3>9
    <3> QED  BY <1>1, <1>2, <3>3, <3>5, <3>6, <3>7, <3>10
  <2> QED  BY <2>7, <2>8
<1> QED  BY <1>4, <1>5

LEMMA ExtractStep == ASSUME X!ExtractionAssumption, ContractInv, X!Extract PROVE ContractInv'
<1>1. extracting /\ stack = <<>>
  BY DEF X!Extract, ContractInv, StackInv
<1>2. /\ calls' = <<>> /\ stack' = <<>> /\ changes' = <<>> /\ extracting' = FALSE
      /\ before' = world /\ world' = world
  BY <1>1 DEF X!Extract
<1>3. contracts' = [a \in Included |-> X!Contract!Applied(contracts[a], X!ContractChanges(a))]
  BY DEF X!Extract
<1>4. dci' = [slots |-> world.slots, balance |-> world.balance]
  BY DciAfterExtract
<1>5. world \in X!World /\ MaxCalls \in Nat /\ MaxChanges \in Nat
  BY DEF ContractInv, X!TypeOK, X!ExtractionAssumption
<1>6. ASSUME NEW a \in Included
      PROVE  /\ contracts'[a] \in [exists : BOOLEAN, balance : 0..MaxNative,
                                 code : Code \cup {Empty}, slots : [Slot -> Word]]
             /\ \A s \in Slot : contracts'[a].slots[s] = world.slots[<<a, s>>]
             /\ contracts'[a].code = world.code[a]
             /\ contracts'[a].exists <=> world.code[a] # Empty
  <2>1. PICK known : known = X!Contract!Applied(contracts[a], X!ContractChanges(a))
    OBVIOUS
  <2>2. contracts'[a] = known
    BY <1>3, <2>1
  <2> QED  BY <1>1, <2>1, <2>2, AppliedIsWorld
<1>7. X!TypeOK'
  <2>1. contracts' \in [Included -> [exists : BOOLEAN, balance : 0..MaxNative,
                                   code : Code \cup {Empty}, slots : [Slot -> Word]]]
    BY <1>3, <1>6
  <2>2. dci' \in [slots : [Address \X Slot -> Word], balance : [Address -> 0..MaxNative]]
    BY <1>4, <1>5 DEF X!World
  <2>3. calls' \in Seq(X!CallRecord) /\ Len(calls') = 0 /\ 0 <= MaxCalls
    BY <1>2, <1>5
  <2>4. stack' \in Seq([call : Nat, world : X!World])
    BY <1>2
  <2>5. changes' \in Seq(X!ChangeRecord) /\ Len(changes') = 0 /\ 0 <= MaxChanges + MaxCalls
    BY <1>2, <1>5
  <2> QED  BY <1>2, <1>5, <2>1, <2>2, <2>3, <2>4, <2>5 DEF X!TypeOK
<1>8. BoundsInv'
  <2>1. Len(calls') = 0 /\ Len(stack') = 0 /\ Len(changes') = 0
    BY <1>2
  <2> QED  BY <1>5, <2>1 DEF BoundsInv
<1>9. CallsInv' /\ CreationsInv' /\ StackInv' /\ ChangesInv'
  BY <1>2 DEF CallsInv, CreationsInv, StackInv, ChangesInv
<1>10. WorldInv'
  BY <1>2 DEF WorldInv, Agrees, Leads, At
<1>11. ConsumerInv'
  BY <1>2, <1>4, <1>6 DEF ConsumerInv
<1> QED  BY <1>7, <1>8, <1>9, <1>10, <1>11 DEF ContractInv

LEMMA ContractInvNext == ASSUME X!ExtractionAssumption, ContractInv, [X!Next]_(X!vars) PROVE ContractInv'
<1>1. CASE \E type \in X!CallTypes, a \in Address, v \in 0..1 : X!Begin(type, a, v)
  BY <1>1, BeginStep
<1>2. CASE \E s \in Slot, w \in Word : X!Write(s, w)
  BY <1>2, WriteStep
<1>3. CASE \E code \in Code : X!Return(code)
  BY <1>3, ReturnStep
<1>4. CASE X!Revert
  BY <1>4, RevertStep
<1>5. CASE X!Extract
  BY <1>5, ExtractStep
<1>6. CASE UNCHANGED X!vars
  <2>1. /\ world' = world /\ before' = before /\ calls' = calls /\ stack' = stack
        /\ changes' = changes /\ extracting' = extracting /\ contracts' = contracts /\ dci' = dci
    BY <1>6 DEF X!vars, X!txVars, X!outVars
  <2>2. X!TypeOK' /\ BoundsInv'
    BY <2>1 DEF ContractInv, X!TypeOK, BoundsInv
  <2>3. CallsInv' /\ CreationsInv'
    BY <2>1 DEF ContractInv, CallsInv, CreationsInv, CreatedInv
  <2>4. StackInv' /\ ChangesInv' /\ WorldInv'
    BY <2>1 DEF ContractInv, StackInv, ChangesInv, WorldInv
  <2>5. ConsumerInv'
    BY <2>1 DEF ContractInv, ConsumerInv
  <2> QED  BY <2>2, <2>3, <2>4, <2>5 DEF ContractInv
<1> QED  BY <1>1, <1>2, <1>3, <1>4, <1>5, <1>6 DEF X!Next

LEMMA ContractInvariance == ASSUME X!ExtractionAssumption PROVE X!Spec => []ContractInv
<1>1. X!Init => ContractInv
  BY ContractInitInv
<1>2. ContractInv /\ [X!Next]_(X!vars) => ContractInv'
  BY ContractInvNext
<1> QED  BY <1>1, <1>2, PTL DEF X!Spec

-----------------------------------------------------------------------------
(* The theorems                                                            *)

(* The types of the state; there are never more changes of a transaction   *)
(* than the bounds of calls and changes add up to.                         *)
THEOREM ContractTypes == ASSUME X!ExtractionAssumption PROVE X!Spec => []X!TypeOK
<1>1. ContractInv => X!TypeOK
  BY DEF ContractInv
<1> QED  BY <1>1, ContractInvariance, PTL

(* extract_contract_changes: whatever calls a transaction makes, between   *)
(* transactions the consumer has the storage, the code and the existence   *)
(* of every contract of interest.                                          *)
THEOREM StorageIsExtracted == ASSUME X!ExtractionAssumption PROVE X!Spec => []X!StorageExtracted
<1>1. ContractInv => X!StorageExtracted
  BY DEF ContractInv, ConsumerInv, X!StorageExtracted, X!BetweenTxs
<1> QED  BY <1>1, ContractInvariance, PTL

(* get_block_storage_changes: between transactions the Dynamic Contract    *)
(* Indexer has the storage and the native balance of every account.        *)
THEOREM BlockStorageIsExact == ASSUME X!ExtractionAssumption PROVE X!Spec => []X!BlockStorageExact
<1>1. ContractInv => X!BlockStorageExact
  BY DEF ContractInv, ConsumerInv, X!BlockStorageExact, X!BetweenTxs
<1> QED  BY <1>1, ContractInvariance, PTL

(* upsert_slot: the slots extracted from a transaction start from the      *)
(* storage before it and differ after it.                                  *)
THEOREM StartValuesAreBefore ==
    ASSUME X!ExtractionAssumption PROVE X!Spec => X!ExtractedFromBefore
<1> DEFINE FromBefore ==
        X!Extract => \A a \in Included : X!ContractChanges(a) # NoContract =>
            \A s \in X!Contract!EmittedSlots(X!ContractChanges(a)) :
                /\ X!ContractChanges(a).slots[s].start_value = before.slots[<<a, s>>]
                /\ before.slots[<<a, s>>] # world.slots[<<a, s>>]
<1>1. ContractInv /\ [X!Next]_(X!vars) => FromBefore
  <2> SUFFICES ASSUME ContractInv, X!Extract, NEW a \in Included, X!ContractChanges(a) # NoContract,
                      NEW s \in X!Contract!EmittedSlots(X!ContractChanges(a))
               PROVE  /\ X!ContractChanges(a).slots[s].start_value = before.slots[<<a, s>>]
                      /\ before.slots[<<a, s>>] # world.slots[<<a, s>>]
    OBVIOUS
  <2>1. extracting /\ a \in Address
    BY DEF X!Extract, X!ExtractionAssumption
  <2>2. PICK sl : sl = X!Upserts(X!Kept("storage", a))
    OBVIOUS
  <2>3. X!ContractChanges(a).slots = sl
    BY <2>1, <2>2, ContractExtracted
  <2>4. s \in Slot /\ sl[s] # Untouched /\ sl[s].start_value # sl[s].new_value
    BY <2>3 DEF X!Contract!EmittedSlots, X!Contract!HasChanged
  <2>5. sl[s] = [start_value |-> before.slots[<<a, s>>], new_value |-> world.slots[<<a, s>>]]
    BY <2>1, <2>2, <2>4, SlotsFolded
  <2> QED  BY <2>3, <2>4, <2>5
<1>2. X!Spec => [][FromBefore]_(X!vars)
  <2> HIDE DEF FromBefore
  <2> QED  BY <1>1, ContractInvariance, PTL DEF X!Spec
<1> QED  BY <1>2 DEF X!ExtractedFromBefore

-----------------------------------------------------------------------------
(* Both extractions                                                        *)

(* Each extraction runs as if alone.                                       *)
LEMMA SideBySide == ExtractionSpec => Spec /\ X!Spec
<1>1. ExtractionInit => Init /\ X!Init
  BY DEF ExtractionInit
<1>2. [ExtractionNext]_ExtractionVars => [Next]_vars /\ [X!Next]_(X!vars)
  BY DEF ExtractionNext, ExtractionVars, contractVars, X!vars, X!txVars, X!outVars
<1> QED  BY <1>1, <1>2, PTL DEF ExtractionSpec, Spec, X!Spec

(* extract_contract_changes, beside the balances: between transactions the *)
(* consumer has the storage, the code and the existence of the contracts   *)
(* of interest.                                                            *)
THEOREM ContractsAreExtracted == ExtractionSpec => []StorageExtracted
BY ExtractionBounds, StorageIsExtracted, SideBySide, PTL DEF StorageExtracted

(* get_block_storage_changes: between transactions the Dynamic Contract    *)
(* Indexer has the storage and the native balances.                        *)
THEOREM BlockStorageIsExtracted == ExtractionSpec => []BlockStorageExact
BY ExtractionBounds, BlockStorageIsExact, SideBySide, PTL DEF BlockStorageExact

(* upsert_slot: extracted slots start from the storage before their        *)
(* transaction and differ after it.                                        *)
THEOREM SlotsStartBefore == ExtractionSpec => ExtractedFromBefore
BY ExtractionBounds, StartValuesAreBefore, SideBySide, PTL DEF ExtractedFromBefore

(* The balances beside the contracts: what StoreAddsUp, ConsumerMirrors    *)
(* and TransactionsAreReported say holds of the whole.                     *)
THEOREM BalancesAreExtracted ==
    ExtractionSpec => [](StoreIsExact /\ BalancesMirrored /\ BalancesPerTransaction)
BY SideBySide, StoreAddsUp, ConsumerMirrors, TransactionsAreReported, PTL
=============================================================================
