------------------------- MODULE IntegrationProofs -------------------------
(***************************************************************************)
(* Proofs about the packages, and about them where any one may run         *)
(* (MCIntegrations).                                                       *)
(*                                                                         *)
(* Uniswap v2 mirrors the reserves after every transaction, for any pairs, *)
(* reserves, and lengths of a block.  What carries the proof: which Sync   *)
(* event gave the reserves at the end of a transaction, that a pair had    *)
(* none before its creation, and what the changes still to be applied will *)
(* do to what the consumer reads.                                          *)
(*                                                                         *)
(* The proofs about the ERC4626 vaults, Uniswap v3 from traces and Ambient *)
(* rest on a history of the chain's state, after every event of the block: *)
(* stores and messages are what the code makes of its steps.               *)
(***************************************************************************)
EXTENDS MCIntegrations, WellFoundedInduction, TLAPS

(* The Sync events of a pair in a transaction, of all pairs.               *)
SyncsOf(p, t) ==
    {i \in DOMAIN events : /\ events[i].tx = t /\ events[i].type = "Sync"
                           /\ events[i].pool = p}

(* The last Sync of a transaction has the reserves at its end; without one *)
(* the reserves stay.                                                      *)
LastSync(p, t) ==
    IF SyncsOf(p, t) = {}
    THEN t > 1 => txEnd[t][p] = txEnd[t - 1][p]
    ELSE \E i \in SyncsOf(p, t) : /\ \A j \in SyncsOf(p, t) : j <= i
                                  /\ txEnd[t][p] = events[i].reserves

ChainInv ==
    /\ \A p \in Pool : p \notin created => \A t \in Txs : txEnd[t][p] = NoReserves
    /\ \A t \in Txs : t >= tx => txEnd[t] = reserves
    /\ \A i \in DOMAIN events : events[i].tx <= tx /\ events[i].pool \in created
    /\ \A p \in Pool, t \in Txs : LastSync(p, t)

(* A pair has no reserves before the transaction that created it, and none *)
(* after it but those of its own Sync events.                              *)
CreationInv ==
    \A i \in DOMAIN events : events[i].type = "PairCreated" =>
        LET p == events[i].pool
            t == events[i].tx
        IN  /\ \A u \in Txs : u < t => txEnd[u][p] = NoReserves
            /\ SyncsOf(p, t) = {} => txEnd[t][p] = NoReserves

CreatedBy(p, t) ==
    \E i \in DOMAIN events : /\ events[i].type = "PairCreated"
                             /\ events[i].pool = p /\ events[i].tx <= t

(* The consumer and store_pools know the pairs of earlier blocks, and      *)
(* those whose creation they have processed.                               *)
KnownInv ==
    /\ \A p \in created : p \in indexer.components \/ CreatedBy(p, MaxTxs)
    /\ \A i \in DOMAIN events : events[i].type = "Sync" =>
           LET p == events[i].pool
           IN  p \in indexer.components \/ CreatedBy(p, events[i].tx)
    /\ \A p \in Pool : phase = "apply" /\ CreatedBy(p, applied) => p \in indexer.components
    /\ \A p \in created : p \in store \/ CreatedBy(p, MaxTxs)
    /\ store \subseteq created
    /\ phase \in {"events", "apply"} => store = created

(* What the map modules have put together so far.                          *)
InitialPart(part, t) ==
    \A p \in DOMAIN part : p \in PairsCreated(t) /\ part[p] = NoReserves

FinalPart(part, t) ==
    /\ \A p \in Pool : SyncsOf(p, t) # {} => p \in DOMAIN part
    /\ \A p \in DOMAIN part : /\ p \in PairsCreated(t) \/ SyncsOf(p, t) # {}
                              /\ part[p] = txEnd[t][p]

ChangesInv ==
    \A t \in Txs :
        /\ phase # "mine" => changes[t].components = PairsCreated(t)
        /\ phase \in {"store", "events"} => /\ InitialPart(changes[t].attributes, t)
                                            /\ InitialPart(changes[t].balances, t)
        /\ phase = "apply" => /\ FinalPart(changes[t].attributes, t)
                              /\ FinalPart(changes[t].balances, t)

(* The consumer reads the reserves after the transaction it has applied    *)
(* last; those after the next one too, of pairs that do not change in it.  *)
Reads(p, value) ==
    /\ Read(indexer.attributes[p]) = value
    /\ Read(indexer.balances[p]) = value

ReadInv ==
    /\ phase # "apply" => applied = 0
    /\ \A p \in Pool : /\ applied > 0 => Reads(p, txEnd[applied][p])
                       /\ applied < MaxTxs /\ SyncsOf(p, applied + 1) = {}
                              => Reads(p, txEnd[applied + 1][p])

Inv == TypeOK /\ ChainInv /\ CreationInv /\ KnownInv /\ ChangesInv /\ ReadInv

-----------------------------------------------------------------------------
(* Emit appends one event; the transactions before the current one keep    *)
(* their events and their reserves.                                        *)
LEMMA Appended ==
    ASSUME TypeOK, NEW type, NEW p, Emit(type, p)
    PROVE  /\ DOMAIN events' = DOMAIN events \cup {Len(events) + 1}
           /\ \A i \in DOMAIN events : events'[i] = events[i] /\ i < Len(events) + 1
           /\ events'[Len(events) + 1] =
                  [type |-> type, pool |-> p, tx |-> tx, reserves |-> reserves'[p]]
BY DEF TypeOK, Emit

LEMMA EventTypes ==
    ASSUME TypeOK, NEW i \in DOMAIN events
    PROVE  /\ events[i] \in Event /\ i \in Nat
           /\ events[i].pool \in Pool /\ events[i].tx \in Txs
           /\ events[i].tx \in Nat /\ events[i].tx <= MaxTxs
<1>1. events[i] \in Event /\ i \in Nat
    BY DEF TypeOK
<1> QED
    BY <1>1, UniswapV2Assumption DEF Event, Txs

LEMMA TypesAfterEmit ==
    ASSUME TypeOK, NEW type \in {"PairCreated", "Sync"}, NEW p \in Pool, Emit(type, p),
           created' \subseteq Pool, reserves' \in [Pool -> Reserves]
    PROVE  TypeOK'
<1>1. [type |-> type, pool |-> p, tx |-> tx, reserves |-> reserves'[p]] \in Event
    BY DEF TypeOK, Event
<1>2. events' \in Seq(Event) /\ Len(events') <= MaxEvents
    BY <1>1, UniswapV2Assumption DEF TypeOK, Emit
<1>3. txEnd' \in [Txs -> [Pool -> Reserves]]
    BY DEF TypeOK, Emit
<1> QED
    BY <1>2, <1>3 DEF TypeOK, Emit

LEMMA CreatePairTypes ==
    ASSUME TypeOK, NEW p \in Pool, CreatePair(p)
    PROVE  TypeOK'
<1>1. created' \subseteq Pool /\ reserves' \in [Pool -> Reserves] /\ Emit("PairCreated", p)
    BY DEF CreatePair, TypeOK
<1> QED
    BY <1>1, TypesAfterEmit

LEMMA ChangeReservesTypes ==
    ASSUME TypeOK, NEW p \in Pool, NEW r \in Reserves, ChangeReserves(p, r)
    PROVE  TypeOK'
<1>1. created' \subseteq Pool /\ reserves' \in [Pool -> Reserves] /\ Emit("Sync", p)
    BY DEF ChangeReserves, TypeOK
<1> QED
    BY <1>1, TypesAfterEmit

(* What an event leaves as it was in the conjuncts of the invariant that   *)
(* are not about the chain.                                                *)
LEMMA CreatePairInv ==
    ASSUME Inv, NEW p \in Pool, CreatePair(p)
    PROVE  Inv'
<1> USE UniswapV2Assumption
<1> DEFINE n == Len(events) + 1
<1>1. TypeOK'
    BY CreatePairTypes DEF Inv
<1>2. /\ DOMAIN events' = DOMAIN events \cup {n}
      /\ \A i \in DOMAIN events : events'[i] = events[i] /\ i < n
      /\ events'[n] = [type |-> "PairCreated", pool |-> p, tx |-> tx, reserves |-> reserves'[p]]
    BY Appended DEF Inv, CreatePair
<1>3. \A q \in Pool, t \in Txs : SyncsOf(q, t)' = SyncsOf(q, t)
    BY <1>2 DEF SyncsOf
<1>4. txEnd' = txEnd /\ tx' = tx /\ reserves' = reserves
    <2>1. \A t \in Txs : txEnd'[t] = txEnd[t]
        BY DEF Inv, TypeOK, ChainInv, CreatePair, Emit, Txs
    <2>2. txEnd' = [t \in Txs |-> txEnd'[t]] /\ txEnd = [t \in Txs |-> txEnd[t]]
        BY DEF Inv, TypeOK, CreatePair, Emit
    <2> QED
        BY <2>1, <2>2 DEF CreatePair, Emit
<1>5. \A i \in DOMAIN events : i \in DOMAIN events' /\ events'[i] = events[i] /\ i \in Nat
    BY <1>2 DEF Inv, TypeOK
<1>6. \A q \in Pool, t \in Txs : LastSync(q, t)'
    BY <1>3, <1>4, <1>5 DEF LastSync, Inv, ChainInv, SyncsOf
<1>7. ChainInv'
    <2>1. ChainInv /\ tx \in Nat /\ created' = created \cup {p}
        BY DEF Inv, TypeOK, CreatePair, Txs
    <2>2. \A i \in DOMAIN events' : (events[i].tx <= tx /\ events[i].pool \in created)'
        BY <1>2, <1>4, <2>1 DEF ChainInv
    <2> QED
        BY <1>4, <1>6, <2>1, <2>2 DEF ChainInv
<1>8. CreationInv'
    <2>1. \A i \in DOMAIN events : events[i].pool \in Pool /\ events[i].tx \in Txs
        BY EventTypes DEF Inv
    <2>2. \A t \in Txs : txEnd[t][p] = NoReserves
        BY DEF Inv, ChainInv, CreatePair
    <2>3. tx \in Txs
        BY DEF Inv, TypeOK
    <2>4. CreationInv
        BY DEF Inv
    <2> SUFFICES ASSUME NEW i \in DOMAIN events', events'[i].type = "PairCreated"
                 PROVE  (/\ \A u \in Txs : u < events[i].tx
                                => txEnd[u][events[i].pool] = NoReserves
                         /\ SyncsOf(events[i].pool, events[i].tx) = {}
                                => txEnd[events[i].tx][events[i].pool] = NoReserves)'
        BY DEF CreationInv
    <2>5. CASE i = n
        BY <1>2, <1>4, <2>2, <2>3, <2>5
    <2>6. CASE i \in DOMAIN events
        BY <1>2, <1>3, <1>4, <2>1, <2>4, <2>6 DEF CreationInv
    <2> QED
        BY <1>2, <2>5, <2>6
<1>9. \A q \in Pool, t \in Nat : CreatedBy(q, t) => CreatedBy(q, t)'
    BY <1>5 DEF CreatedBy
<1>10. CreatedBy(p, MaxTxs)'
    BY <1>2 DEF CreatedBy, Inv, TypeOK, Txs
<1>11. KnownInv'
    <2>1. /\ \A i \in DOMAIN events : events[i].pool \in Pool /\ events[i].tx \in Nat
          /\ created \subseteq Pool /\ MaxTxs \in Nat /\ applied \in Nat
        BY EventTypes DEF Inv, TypeOK
    <2>2. /\ phase = "mine" /\ phase' = phase /\ created' = created \cup {p}
          /\ UNCHANGED <<applied, store, indexer>>
        BY DEF CreatePair, Emit
    <2> QED
        BY <1>2, <1>9, <1>10, <2>1, <2>2 DEF KnownInv, Inv
<1>12. ChangesInv' /\ ReadInv'
    BY <1>3, <1>4, SMTT(40) DEF ChangesInv, ReadInv, Reads, Inv, CreatePair, Emit, TypeOK, Txs
<1> QED
    BY <1>1, <1>7, <1>8, <1>11, <1>12 DEF Inv

LEMMA ChangeReservesInv ==
    ASSUME Inv, NEW p \in Pool, NEW r \in Reserves, ChangeReserves(p, r)
    PROVE  Inv'
<1> USE UniswapV2Assumption
<1> DEFINE n == Len(events) + 1
<1>1. TypeOK'
    BY ChangeReservesTypes DEF Inv
<1>2. /\ DOMAIN events' = DOMAIN events \cup {n}
      /\ \A i \in DOMAIN events : events'[i] = events[i] /\ i < n
      /\ events'[n] = [type |-> "Sync", pool |-> p, tx |-> tx, reserves |-> r]
    BY Appended DEF Inv, TypeOK, ChangeReserves
<1>3. /\ \A i \in DOMAIN events : /\ events[i].pool \in Pool /\ i \in Nat
                                   /\ events[i].tx \in Txs /\ events[i].tx \in Nat
      /\ tx \in Txs /\ tx \in Nat /\ n \in Nat /\ applied \in Nat /\ MaxTxs \in Nat
      /\ \A t \in Txs : t \in Nat /\ t >= 1 /\ t <= MaxTxs
    BY EventTypes DEF Inv, TypeOK, Txs
<1>4. /\ \A t \in Txs : t = tx => SyncsOf(p, t)' = SyncsOf(p, t) \cup {n}
      /\ \A q \in Pool, t \in Txs : q # p \/ t # tx => SyncsOf(q, t)' = SyncsOf(q, t)
    <2>1. \A q \in Pool, t \in Txs : \A i \in DOMAIN events : i \in SyncsOf(q, t)' <=> i \in SyncsOf(q, t)
        BY <1>2 DEF SyncsOf
    <2>2. \A q \in Pool, t \in Txs : n \in SyncsOf(q, t)' <=> q = p /\ t = tx
        BY <1>2 DEF SyncsOf
    <2>3. \A q \in Pool, t \in Txs : /\ SyncsOf(q, t)' \subseteq DOMAIN events \cup {n}
                                     /\ SyncsOf(q, t) \subseteq DOMAIN events
        BY <1>2 DEF SyncsOf
    <2>4. n \notin DOMAIN events
        BY <1>2
    <2>5. ASSUME NEW t \in Txs, t = tx
          PROVE  SyncsOf(p, t)' = SyncsOf(p, t) \cup {n}
        BY <2>1, <2>2, <2>3, <2>5
    <2>6. ASSUME NEW q \in Pool, NEW t \in Txs, q # p \/ t # tx
          PROVE  SyncsOf(q, t)' = SyncsOf(q, t)
        <3>1. n \notin SyncsOf(q, t)'
            BY <2>2, <2>6
        <3>2. SyncsOf(q, t)' \subseteq SyncsOf(q, t) /\ SyncsOf(q, t) \subseteq SyncsOf(q, t)'
            BY <2>1, <2>3, <3>1
        <3> QED
            BY <3>2
    <2> QED
        BY <2>5, <2>6
<1>5. /\ tx' = tx /\ reserves'[p] = r /\ phase = "mine" /\ p \in created
      /\ \A q \in Pool : q # p => reserves'[q] = reserves[q]
      /\ \A t \in Txs : txEnd'[t] = IF t < tx THEN txEnd[t] ELSE reserves'
      /\ UNCHANGED <<created, phase, store, changes, applied, indexer>>
    BY DEF Inv, TypeOK, ChangeReserves, Emit
<1>6. \A q \in Pool, t \in Txs : q # p \/ t < tx => txEnd'[t][q] = txEnd[t][q]
    BY <1>3, <1>5 DEF Inv, ChainInv
<1>7. ASSUME NEW q \in Pool, NEW t \in Txs
      PROVE  LastSync(q, t)'
    <2>1. LastSync(q, t)
        BY DEF Inv, ChainInv
    <2>2. t > 1 => t - 1 \in Txs
        BY <1>3 DEF Txs
    <2>3. CASE q # p \/ t < tx
        <3>1. SyncsOf(q, t)' = SyncsOf(q, t) /\ \A i \in SyncsOf(q, t) : events'[i] = events[i]
            BY <1>2, <1>3, <1>4, <2>3 DEF SyncsOf
        <3>2. t > 1 => txEnd'[t - 1][q] = txEnd[t - 1][q]
            BY <1>3, <1>6, <2>2, <2>3
        <3> QED
            BY <1>6, <2>1, <2>3, <3>1, <3>2 DEF LastSync
    <2>4. CASE q = p /\ t = tx
        <3>1. n \in SyncsOf(q, t)' /\ \A j \in SyncsOf(q, t)' : j <= n
            BY <1>2, <1>3, <1>4, <2>4 DEF SyncsOf
        <3>2. txEnd'[t][q] = r /\ events'[n].reserves = r
            BY <1>2, <1>3, <1>5, <2>4
        <3> QED
            BY <3>1, <3>2 DEF LastSync
    <2>5. CASE q = p /\ t > tx
        <3>1. SyncsOf(q, t)' = {}
            BY <1>2, <1>3, <2>5 DEF SyncsOf, Inv, ChainInv
        <3>2. txEnd'[t][q] = r /\ (t > 1 => txEnd'[t - 1][q] = r)
            BY <1>3, <1>5, <2>2, <2>5
        <3> QED
            BY <3>1, <3>2 DEF LastSync
    <2>6. t \in Nat /\ tx \in Nat
        BY <1>3
    <2>7. t < tx \/ t = tx \/ t > tx
        BY <2>6
    <2> QED
        BY <2>3, <2>4, <2>5, <2>7
<1>a. ASSUME NEW q \in Pool, NEW t \in Txs, t <= tx, SyncsOf(q, t)' = {}
       PROVE  SyncsOf(q, t) = {} /\ (q # p \/ t < tx)
    <2>1. q # p \/ t # tx
        BY <1>4, <1>a
    <2>2. SyncsOf(q, t) = {}
        BY <1>4, <1>a, <2>1
    <2>3. t \in Nat /\ tx \in Nat
        BY <1>3
    <2>4. t # tx => t < tx
        BY <1>a, <2>3
    <2> QED
        BY <2>1, <2>2, <2>4
<1>8. ChainInv'
    <2>1. \A i \in DOMAIN events' : (events[i].tx <= tx /\ events[i].pool \in created)'
        BY <1>2, <1>3, <1>5 DEF Inv, ChainInv
    <2>2. \A q \in Pool : q \notin created => q # p /\ \A t \in Txs : txEnd[t][q] = NoReserves
        BY <1>5 DEF Inv, ChainInv
    <2> QED
        BY <1>3, <1>5, <1>6, <1>7, <2>1, <2>2 DEF ChainInv
<1>9. CreationInv'
    <2> SUFFICES ASSUME NEW i \in DOMAIN events', events'[i].type = "PairCreated"
                 PROVE  (/\ \A u \in Txs : u < events[i].tx
                                => txEnd[u][events[i].pool] = NoReserves
                         /\ SyncsOf(events[i].pool, events[i].tx) = {}
                                => txEnd[events[i].tx][events[i].pool] = NoReserves)'
        BY DEF CreationInv
    <2>1. i \in DOMAIN events /\ events'[i] = events[i]
        BY <1>2
    <2>2. /\ \A u \in Txs : u < events[i].tx => txEnd[u][events[i].pool] = NoReserves
          /\ SyncsOf(events[i].pool, events[i].tx) = {}
                  => txEnd[events[i].tx][events[i].pool] = NoReserves
        BY <2>1 DEF Inv, CreationInv
    <2>3. events[i].tx <= tx /\ events[i].pool \in Pool /\ events[i].tx \in Txs
        BY <1>3, <2>1 DEF Inv, ChainInv
    <2>4. \A u \in Txs : u < events[i].tx => txEnd'[u][events[i].pool] = NoReserves
        BY <1>3, <1>6, <2>1, <2>2, <2>3
    <2>5. SyncsOf(events[i].pool, events[i].tx)' = {}
              => txEnd'[events[i].tx][events[i].pool] = NoReserves
        BY <1>6, <1>a, <2>1, <2>2, <2>3
    <2> QED
        BY <2>1, <2>4, <2>5
<1>10. KnownInv'
    <2>1. \A q \in Pool, t \in Nat : CreatedBy(q, t) => CreatedBy(q, t)'
        BY <1>2 DEF CreatedBy
    <2>2. p \in indexer.components \/ CreatedBy(p, tx)
        BY <1>3, <1>5 DEF Inv, KnownInv, ChainInv, CreatedBy
    <2>3. created \subseteq Pool
        BY DEF Inv, TypeOK
    <2> QED
        BY <1>2, <1>3, <1>5, <2>1, <2>2, <2>3 DEF KnownInv, Inv
<1>11. ChangesInv'
    BY <1>5 DEF ChangesInv, Inv
<1>12. ReadInv'
    <2>1. applied = 0 /\ 1 \in Txs /\ 1 <= tx
        BY <1>3, <1>5 DEF Inv, ReadInv, Txs
    <2>2. \A q \in Pool : SyncsOf(q, 1)' = {} => SyncsOf(q, 1) = {} /\ txEnd'[1][q] = txEnd[1][q]
        BY <1>6, <1>a, <2>1
    <2> QED
        BY <1>5, <2>1, <2>2 DEF ReadInv, Reads, Inv
<1> QED
    BY <1>1, <1>8, <1>9, <1>10, <1>11, <1>12 DEF Inv

LEMMA NextTxInv ==
    ASSUME Inv, NextTx
    PROVE  Inv'
<1> USE UniswapV2Assumption
<1>1. /\ tx' = tx + 1 /\ tx' \in Txs /\ tx \in Nat
      /\ UNCHANGED <<created, reserves, events, txEnd, phase, store, changes, applied, indexer>>
    BY DEF NextTx, Inv, TypeOK, Txs
<1>2. TypeOK'
    BY <1>1 DEF Inv, TypeOK
<1>3. \A p, t : (SyncsOf(p, t)' = SyncsOf(p, t)) /\ (CreatedBy(p, t)' = CreatedBy(p, t))
    BY <1>1 DEF SyncsOf, CreatedBy
<1>4. ChainInv'
    <2>1. \A t \in Txs : t >= tx + 1 => t >= tx
        BY <1>1 DEF Txs
    <2>2. \A i \in DOMAIN events : events[i].tx \in Nat /\ events[i].tx <= tx
        BY EventTypes DEF Inv, ChainInv
    <2>3. \A i \in DOMAIN events : events[i].tx <= tx + 1
        BY <1>1, <2>2
    <2>4. \A p \in Pool, t \in Txs : LastSync(p, t)'
        BY <1>1, <1>3 DEF LastSync, Inv, ChainInv
    <2> QED
        BY <1>1, <2>1, <2>3, <2>4 DEF Inv, ChainInv
<1>5. CreationInv'
    BY <1>1, <1>3 DEF Inv, CreationInv
<1>6. KnownInv'
    BY <1>1, <1>3 DEF Inv, KnownInv
<1>7. ChangesInv' /\ ReadInv'
    BY <1>1, <1>3 DEF Inv, ChangesInv, ReadInv, Reads, InitialPart, FinalPart, PairsCreated, Created, NextTx
<1> QED
    BY <1>2, <1>4, <1>5, <1>6, <1>7 DEF Inv

-----------------------------------------------------------------------------
(* The modules and the consumer leave the chain alone.                     *)
LEMMA ChainUnchanged ==
    ASSUME UNCHANGED chainVars
    PROVE  /\ \A p, t : /\ SyncsOf(p, t)' = SyncsOf(p, t)
                        /\ CreatedBy(p, t)' = CreatedBy(p, t)
                        /\ LastSync(p, t)' = LastSync(p, t)
           /\ \A t : PairsCreated(t)' = PairsCreated(t)
           /\ \A part, t : FinalPart(part, t)' = FinalPart(part, t)
           /\ ChainInv => ChainInv'
           /\ CreationInv => CreationInv'
<1>1. UNCHANGED <<created, reserves, events, tx, txEnd>>
    BY DEF chainVars
<1>2. \A p, t : /\ SyncsOf(p, t)' = SyncsOf(p, t)
                /\ CreatedBy(p, t)' = CreatedBy(p, t)
    BY <1>1 DEF SyncsOf, CreatedBy
<1>3. \A p, t : LastSync(p, t)' = LastSync(p, t)
    BY <1>1, <1>2 DEF LastSync
<1>4. \A t : PairsCreated(t)' = PairsCreated(t)
    BY <1>1 DEF PairsCreated, Created
<1>5. \A part, t : FinalPart(part, t)' = FinalPart(part, t)
    BY <1>1, <1>2, <1>4 DEF FinalPart
<1>6. ChainInv => ChainInv'
    BY <1>1, <1>3 DEF ChainInv
<1>7. CreationInv => CreationInv'
    BY <1>1, <1>2 DEF CreationInv
<1> QED
    BY <1>2, <1>3, <1>4, <1>5, <1>6, <1>7

LEMMA ChangeTypes ==
    ASSUME NEW c \in Change
    PROVE  /\ c.components \subseteq Pool
           /\ DOMAIN c.attributes \subseteq Pool /\ DOMAIN c.balances \subseteq Pool
           /\ \A p \in DOMAIN c.attributes : c.attributes[p] \in Reserves
           /\ \A p \in DOMAIN c.balances : c.balances[p] \in Reserves
BY DEF Change, Part

LEMMA IsChange ==
    ASSUME NEW ps \in SUBSET Pool, NEW as \in SUBSET Pool, NEW bs \in SUBSET Pool,
           NEW attributes \in Part(as), NEW balances \in Part(bs)
    PROVE  [components |-> ps, attributes |-> attributes, balances |-> balances] \in Change
BY DEF Change

LEMMA MapPoolsCreatedInv ==
    ASSUME Inv, MapPoolsCreated
    PROVE  Inv'
<1> USE UniswapV2Assumption
<1>1. /\ UNCHANGED chainVars /\ UNCHANGED <<created, store, applied, indexer>>
      /\ phase = "mine" /\ phase' = "store"
    BY DEF MapPoolsCreated, chainVars
<1>2. \A t \in Txs : PairsCreated(t) \subseteq Pool /\ FirstCreated(t) \subseteq PairsCreated(t)
    BY EventTypes DEF Inv, PairsCreated, FirstCreated, Created
<1>3. ASSUME NEW t \in Txs
      PROVE  /\ changes'[t] \in Change
             /\ changes'[t].components = PairsCreated(t)
             /\ InitialPart(changes'[t].attributes, t)
             /\ InitialPart(changes'[t].balances, t)
    <2> DEFINE as == [p \in PairsCreated(t) |-> NoReserves]
               bs == [p \in FirstCreated(t) |-> NoReserves]
    <2>1. changes'[t] = [components |-> PairsCreated(t), attributes |-> as, balances |-> bs]
        BY DEF MapPoolsCreated
    <2>2. as \in Part(PairsCreated(t)) /\ bs \in Part(FirstCreated(t))
        BY DEF Part
    <2>3. InitialPart(as, t) /\ InitialPart(bs, t)
        BY <1>2 DEF InitialPart
    <2> HIDE DEF as, bs
    <2>4. PairsCreated(t) \in SUBSET Pool /\ FirstCreated(t) \in SUBSET Pool
        BY <1>2
    <2>5. [components |-> PairsCreated(t), attributes |-> as, balances |-> bs] \in Change
        BY <2>2, <2>4, IsChange
    <2> QED
        BY <2>1, <2>3, <2>5
<1>4. TypeOK'
    <2>1. changes' \in [Txs -> Change]
        BY <1>3 DEF MapPoolsCreated
    <2> QED
        BY <1>1, <2>1 DEF Inv, TypeOK, chainVars
<1>5. ChainInv' /\ CreationInv'
    BY <1>1, ChainUnchanged DEF Inv
<1>6. KnownInv'
    BY <1>1, ChainUnchanged DEF Inv, KnownInv, chainVars
<1>7. ChangesInv'
    BY <1>1, <1>3, ChainUnchanged DEF ChangesInv, InitialPart
<1>8. ReadInv'
    BY <1>1, ChainUnchanged DEF Inv, ReadInv, Reads, chainVars
<1> QED
    BY <1>4, <1>5, <1>6, <1>7, <1>8 DEF Inv

LEMMA StorePoolsInv ==
    ASSUME Inv, StorePools
    PROVE  Inv'
<1> USE UniswapV2Assumption
<1>1. /\ UNCHANGED chainVars /\ UNCHANGED <<created, changes, applied, indexer>>
      /\ phase = "store" /\ phase' = "events"
      /\ store' = store \cup UNION {changes[t].components : t \in Txs}
    BY DEF StorePools, chainVars
<1>2. \A t \in Txs : changes[t].components = PairsCreated(t)
    BY <1>1 DEF Inv, ChangesInv
<1>3. store' = created
    <2>1. \A t \in Txs : PairsCreated(t) \subseteq created
        BY DEF Inv, ChainInv, PairsCreated, Created
    <2>2. \A p \in created : CreatedBy(p, MaxTxs) => \E t \in Txs : p \in PairsCreated(t)
        BY EventTypes DEF Inv, CreatedBy, PairsCreated, Created
    <2>3. store \subseteq created
        BY DEF Inv, KnownInv
    <2> QED
        BY <1>1, <1>2, <2>1, <2>2, <2>3 DEF Inv, KnownInv
<1>4. TypeOK'
    BY <1>1, <1>3 DEF Inv, TypeOK, chainVars
<1>5. ChainInv' /\ CreationInv'
    BY <1>1, ChainUnchanged DEF Inv
<1>6. KnownInv'
    BY <1>1, <1>3, ChainUnchanged DEF Inv, KnownInv, chainVars
<1>7. ChangesInv'
    BY <1>1, ChainUnchanged DEF Inv, ChangesInv, InitialPart
<1>8. ReadInv'
    BY <1>1, ChainUnchanged DEF Inv, ReadInv, Reads, chainVars
<1> QED
    BY <1>4, <1>5, <1>6, <1>7, <1>8 DEF Inv

(* handle_sync keeps the last Sync of each pair, which store_pools has let *)
(* through: the reserves at the end of the transaction.                    *)
LEMMA SyncedIsFinal ==
    ASSUME Inv, store = created, NEW t \in Txs
    PROVE  /\ Syncs(t) = {} => \A p \in Pool : SyncsOf(p, t) = {}
           /\ DOMAIN Synced(t) = {p \in Pool : SyncsOf(p, t) # {}}
           /\ Synced(t) \in Part(DOMAIN Synced(t))
           /\ FinalPart(Synced(t), t)
<1>1. Syncs(t) = {i \in DOMAIN events : events[i].tx = t /\ events[i].type = "Sync"}
    BY DEF Syncs, Inv, ChainInv
<1>2. \A p : {i \in Syncs(t) : events[i].pool = p} = SyncsOf(p, t)
    BY <1>1 DEF SyncsOf
<1>3. \A i \in Syncs(t) : i \in DOMAIN events /\ events[i].pool \in Pool /\ i \in SyncsOf(events[i].pool, t)
    BY <1>1, <1>2, EventTypes DEF Inv
<1>4. {events[i].pool : i \in Syncs(t)} = {p \in Pool : SyncsOf(p, t) # {}}
    BY <1>2, <1>3
<1>5. DOMAIN Synced(t) = {p \in Pool : SyncsOf(p, t) # {}}
    BY <1>4 DEF Synced
<1>6. ASSUME NEW p \in DOMAIN Synced(t)
      PROVE  Synced(t)[p] = txEnd[t][p]
    <2>1. PICK i \in SyncsOf(p, t) : (\A j \in SyncsOf(p, t) : j <= i) /\ txEnd[t][p] = events[i].reserves
        BY <1>5, <1>6 DEF Inv, ChainInv, LastSync
    <2>2. \A j \in SyncsOf(p, t) : j \in Nat
        BY EventTypes DEF Inv, SyncsOf
    <2>3. i = CHOOSE k \in SyncsOf(p, t) : \A j \in SyncsOf(p, t) : j <= k
        BY <2>1, <2>2
    <2>4. Synced(t)[p] = events[CHOOSE k \in SyncsOf(p, t) : \A j \in SyncsOf(p, t) : j <= k].reserves
        BY <1>2, <1>4, <1>5, <1>6 DEF Synced
    <2> QED
        BY <2>1, <2>3, <2>4
<1>7. Synced(t) \in Part(DOMAIN Synced(t))
    <2>1. \A p \in DOMAIN Synced(t) : Synced(t)[p] \in Reserves
        BY <1>5, <1>6 DEF Inv, TypeOK
    <2>2. Synced(t) = [p \in DOMAIN Synced(t) |-> Synced(t)[p]]
        BY DEF Synced
    <2> QED
        BY <2>1, <2>2 DEF Part
<1>8. FinalPart(Synced(t), t)
    BY <1>5, <1>6 DEF FinalPart
<1> QED
    BY <1>3, <1>5, <1>7, <1>8, <1>4

(* merge_block: with or without Sync events, the changes of a transaction  *)
(* say nothing but the reserves at its end.                                *)
LEMMA MergedIsFinal ==
    ASSUME Inv, phase = "events", NEW t \in Txs
    PROVE  /\ MergedTx(t) \in Change
           /\ MergedTx(t).components = PairsCreated(t)
           /\ FinalPart(MergedTx(t).attributes, t)
           /\ FinalPart(MergedTx(t).balances, t)
<1>1. changes[t] \in Change /\ changes[t].components = PairsCreated(t)
    BY DEF Inv, TypeOK, ChangesInv
<1>2. store = created
    BY DEF Inv, KnownInv
<1>3. CASE Syncs(t) = {}
    <2>1. \A p \in Pool : SyncsOf(p, t) = {}
        BY <1>2, <1>3, SyncedIsFinal
    <2>2. \A p \in PairsCreated(t) : p \in Pool /\ txEnd[t][p] = NoReserves
        BY <2>1, EventTypes DEF Inv, CreationInv, PairsCreated, Created
    <2>3. \A part : InitialPart(part, t) => FinalPart(part, t)
        BY <2>1, <2>2 DEF InitialPart, FinalPart
    <2> QED
        BY <1>1, <1>3, <2>3 DEF Inv, ChangesInv, MergedTx
<1>4. CASE Syncs(t) # {}
    <2>1. MergedTx(t) = [components |-> PairsCreated(t), attributes |-> Synced(t), balances |-> Synced(t)]
        BY <1>1, <1>4 DEF MergedTx, Change
    <2>2. DOMAIN Synced(t) \in SUBSET Pool /\ Synced(t) \in Part(DOMAIN Synced(t))
        BY <1>2, SyncedIsFinal
    <2>3. PairsCreated(t) \in SUBSET Pool
        BY <1>1, ChangeTypes
    <2>4. [components |-> PairsCreated(t), attributes |-> Synced(t), balances |-> Synced(t)] \in Change
        BY <2>2, <2>3, IsChange
    <2>5. FinalPart(Synced(t), t)
        BY <1>2, SyncedIsFinal
    <2> QED
        BY <2>1, <2>4, <2>5
<1> QED
    BY <1>3, <1>4

LEMMA MapPoolEventsInv ==
    ASSUME Inv, MapPoolEvents
    PROVE  Inv'
<1> USE UniswapV2Assumption
<1>1. /\ UNCHANGED chainVars /\ UNCHANGED <<created, store, applied, indexer>>
      /\ phase = "events" /\ phase' = "apply" /\ applied = 0
    BY DEF MapPoolEvents, chainVars, Inv, ReadInv
<1>2. \A t \in Txs : /\ changes'[t] \in Change
                     /\ changes'[t].components = PairsCreated(t)
                     /\ FinalPart(changes'[t].attributes, t)
                     /\ FinalPart(changes'[t].balances, t)
    BY <1>1, MergedIsFinal DEF MapPoolEvents
<1>3. TypeOK'
    <2>1. changes' \in [Txs -> Change]
        BY <1>2 DEF MapPoolEvents
    <2> QED
        BY <1>1, <2>1 DEF Inv, TypeOK, chainVars
<1>4. ChainInv' /\ CreationInv'
    BY <1>1, ChainUnchanged DEF Inv
<1>5. KnownInv'
    <2>1. \A p \in Pool : ~CreatedBy(p, 0)
        BY EventTypes DEF Inv, CreatedBy, Txs
    <2> QED
        BY <1>1, <2>1, ChainUnchanged DEF Inv, KnownInv, chainVars
<1>6. ChangesInv'
    BY <1>1, <1>2, ChainUnchanged DEF ChangesInv, FinalPart, chainVars
<1>7. ReadInv'
    BY <1>1, ChainUnchanged DEF Inv, ReadInv, Reads, chainVars
<1> QED
    BY <1>3, <1>4, <1>5, <1>6, <1>7 DEF Inv

(* The consumer moves on by one transaction: pairs in its changes get the  *)
(* reserves at its end, and those of the others have not changed in it.    *)
LEMMA ApplyTxInv ==
    ASSUME Inv, ApplyTx
    PROVE  Inv'
<1> USE UniswapV2Assumption
<1>a. PICK t \in Txs : t = applied + 1
    BY DEF ApplyTx, Inv, TypeOK, Txs
<1> DEFINE c == changes[t]
<1>1. /\ UNCHANGED chainVars /\ UNCHANGED <<created, phase, store, changes>>
      /\ phase = "apply" /\ applied' = t /\ t \in Txs /\ applied \in Nat /\ t <= MaxTxs
      /\ indexer' = [components |-> indexer.components \cup c.components,
                     attributes |-> Overridden(indexer.attributes, c.attributes),
                     balances   |-> Overridden(indexer.balances, c.balances)]
    BY <1>a DEF ApplyTx, chainVars, Inv, TypeOK, Txs
<1>2. /\ c \in Change /\ c.components = PairsCreated(t)
      /\ FinalPart(c.attributes, t) /\ FinalPart(c.balances, t)
    BY <1>1 DEF Inv, TypeOK, ChangesInv
<1>3. /\ indexer.components \subseteq Pool
      /\ indexer.attributes \in [Pool -> Reserves \cup {Absent}]
      /\ indexer.balances \in [Pool -> Reserves \cup {Absent}]
    BY DEF Inv, TypeOK, Books
<1>4. TypeOK'
    <2>1. \A known \in [Pool -> Reserves \cup {Absent}] : \A part :
              (DOMAIN part \subseteq Pool /\ \A p \in DOMAIN part : part[p] \in Reserves)
              => Overridden(known, part) \in [Pool -> Reserves \cup {Absent}]
        BY DEF Overridden
    <2>2. indexer' \in Books
        <3>1. /\ c.components \subseteq Pool
              /\ Overridden(indexer.attributes, c.attributes) \in [Pool -> Reserves \cup {Absent}]
              /\ Overridden(indexer.balances, c.balances) \in [Pool -> Reserves \cup {Absent}]
            BY <1>2, <1>3, <2>1, ChangeTypes
        <3> QED
            BY <1>1, <1>3, <3>1 DEF Books
    <2>3. t \in 0..MaxTxs
        BY <1>1, <1>a
    <2> QED
        BY <1>1, <2>2, <2>3 DEF Inv, TypeOK, chainVars
<1>5. ChainInv' /\ CreationInv'
    BY <1>1, ChainUnchanged DEF Inv
<1>6. KnownInv'
    <2>1. \A p \in Pool : CreatedBy(p, t) => CreatedBy(p, applied) \/ p \in PairsCreated(t)
        <3>1. \A i \in DOMAIN events : events[i].tx <= t => events[i].tx <= applied \/ events[i].tx = t
            BY <1>1, <1>a, EventTypes DEF Inv
        <3> QED
            BY <3>1 DEF CreatedBy, PairsCreated, Created
    <2>2. /\ indexer'.components = indexer.components \cup PairsCreated(t)
          /\ UNCHANGED <<created, events, phase, store>>
        BY <1>1, <1>2 DEF chainVars
    <2>3. \A p \in Pool : CreatedBy(p, applied)' => p \in indexer'.components
        BY <1>1, <2>1, <2>2, ChainUnchanged DEF Inv, KnownInv
    <2>4. \A p, u : CreatedBy(p, u)' = CreatedBy(p, u)
        BY <1>1, ChainUnchanged
    <2> QED
        BY <2>2, <2>3, <2>4 DEF Inv, KnownInv
<1>7. ChangesInv'
    BY <1>1, ChainUnchanged DEF Inv, ChangesInv, InitialPart
<1>8. ReadInv'
    <2>1. \A known, part : \A p \in Pool :
              Overridden(known, part)[p] = IF p \in DOMAIN part THEN part[p] ELSE known[p]
        BY DEF Overridden
    <2>2. ASSUME NEW p \in Pool
          PROVE  Reads(p, txEnd[t][p])'
        <3>1. txEnd[t][p] \in Reserves /\ txEnd' = txEnd
            BY <1>1 DEF Inv, TypeOK, chainVars
        <3>2. p \notin DOMAIN c.attributes => Read(indexer.attributes[p]) = txEnd[t][p]
            BY <1>1, <1>2, <1>a DEF Inv, ReadInv, Reads, FinalPart, Txs
        <3>3. p \notin DOMAIN c.balances => Read(indexer.balances[p]) = txEnd[t][p]
            BY <1>1, <1>2, <1>a DEF Inv, ReadInv, Reads, FinalPart, Txs
        <3>4. Read(indexer'.attributes[p]) = txEnd[t][p]
            BY <1>1, <1>2, <2>1, <3>1, <3>2 DEF FinalPart, Read
        <3>5. Read(indexer'.balances[p]) = txEnd[t][p]
            BY <1>1, <1>2, <2>1, <3>1, <3>3 DEF FinalPart, Read
        <3> QED
            BY <1>1, <3>1, <3>4, <3>5 DEF Reads
    <2>3. ASSUME NEW p \in Pool, t < MaxTxs, SyncsOf(p, t + 1)' = {}
          PROVE  txEnd[t + 1][p] = txEnd[t][p]
        <3>1. t + 1 \in Txs /\ t + 1 > 1 /\ (t + 1) - 1 = t
            BY <1>1, <2>3 DEF Txs
        <3>2. LastSync(p, t + 1)
            BY <3>1 DEF Inv, ChainInv
        <3>3. SyncsOf(p, t + 1) = {}
            BY <1>1, <2>3, ChainUnchanged DEF chainVars, SyncsOf
        <3> QED
            BY <3>1, <3>2, <3>3 DEF LastSync
    <2> QED
        <3>1. t > 0 /\ applied' = t
            BY <1>1, <1>a
        <3>2. \A p \in Pool : t < MaxTxs /\ SyncsOf(p, t + 1)' = {} => Reads(p, txEnd[t + 1][p])'
            BY <1>1, <2>2, <2>3 DEF chainVars
        <3>3. phase' = "apply"
            BY <1>1
        <3> QED
            BY <2>2, <3>1, <3>2, <3>3 DEF ReadInv
<1> QED
    BY <1>4, <1>5, <1>6, <1>7, <1>8 DEF Inv

LEMMA NextBlockInv ==
    ASSUME Inv, NextBlock
    PROVE  Inv'
<1> USE UniswapV2Assumption
<1>1. /\ phase = "apply" /\ applied = MaxTxs /\ phase' = "mine" /\ applied' = 0
      /\ events' = <<>> /\ tx' = 1 /\ 1 \in Txs
      /\ txEnd' = [t \in Txs |-> reserves] /\ changes' = [t \in Txs |-> NoTx]
      /\ UNCHANGED <<created, reserves, store, indexer>>
    BY DEF NextBlock, Txs
<1>2. /\ \A p, t : SyncsOf(p, t)' = {} /\ ~CreatedBy(p, t)'
      /\ DOMAIN events' = {}
    BY <1>1 DEF SyncsOf, CreatedBy
<1>3. txEnd[MaxTxs] = reserves
    BY SMTT(40) DEF Inv, ChainInv, TypeOK, Txs
<1>4. TypeOK'
    <2>1. NoTx \in Change
        <3>1. [p \in {} |-> NoReserves] \in Part({})
            BY DEF Part
        <3> QED
            BY <3>1, IsChange DEF NoTx
    <2>2. events' \in Seq(Event) /\ Len(events') <= MaxEvents
        BY <1>1
    <2> QED
        BY <1>1, <2>1, <2>2 DEF Inv, TypeOK
<1>5. ChainInv'
    <2>1. \A p \in Pool : p \notin created => reserves[p] = NoReserves
        BY <1>3 DEF Inv, ChainInv, Txs
    <2>2. \A p \in Pool, t \in Txs : LastSync(p, t)'
        BY <1>1, <1>2 DEF LastSync, Txs
    <2> QED
        BY <1>1, <1>2, <2>1, <2>2 DEF ChainInv
<1>6. CreationInv'
    BY <1>2 DEF CreationInv
<1>7. KnownInv'
    BY <1>1, <1>2 DEF Inv, KnownInv, TypeOK
<1>8. ChangesInv'
    BY <1>1 DEF ChangesInv
<1>9. ReadInv'
    BY <1>1, <1>3 DEF Inv, ReadInv, Reads, Txs
<1> QED
    BY <1>4, <1>5, <1>6, <1>7, <1>8, <1>9 DEF Inv

LEMMA InitInv == Init => Inv
<1> SUFFICES ASSUME Init PROVE Inv
    OBVIOUS
<1> USE UniswapV2Assumption DEF Init
<1>1. TypeOK
    <2>1. NoTx \in Change
        <3>1. [p \in {} |-> NoReserves] \in Part({})
            BY DEF Part
        <3> QED
            BY <3>1, IsChange DEF NoTx
    <2>2. 1 \in Txs /\ indexer \in Books
        BY DEF Txs, Books
    <2> QED
        BY <2>1, <2>2 DEF TypeOK
<1>2. \A p, t : SyncsOf(p, t) = {} /\ ~CreatedBy(p, t)
    BY DEF SyncsOf, CreatedBy
<1>3. ChainInv
    BY <1>2 DEF ChainInv, LastSync, Txs
<1>4. CreationInv /\ KnownInv /\ ChangesInv
    BY <1>2 DEF CreationInv, KnownInv, ChangesInv
<1>5. ReadInv
    BY DEF ReadInv, Reads, Read, Txs
<1> QED
    BY <1>1, <1>3, <1>4, <1>5 DEF Inv

LEMMA NextInv == Inv /\ [Next]_vars => Inv'
<1> SUFFICES ASSUME Inv, [Next]_vars PROVE Inv'
    OBVIOUS
<1>1. CASE \E p \in Pool : CreatePair(p) \/ \E r \in Reserves : ChangeReserves(p, r)
    BY <1>1, CreatePairInv, ChangeReservesInv
<1>2. CASE NextTx
    BY <1>2, NextTxInv
<1>3. CASE MapPoolsCreated
    BY <1>3, MapPoolsCreatedInv
<1>4. CASE StorePools
    BY <1>4, StorePoolsInv
<1>5. CASE MapPoolEvents
    BY <1>5, MapPoolEventsInv
<1>6. CASE ApplyTx
    BY <1>6, ApplyTxInv
<1>7. CASE NextBlock
    BY <1>7, NextBlockInv
<1>8. CASE UNCHANGED vars
    <2>1. UNCHANGED chainVars /\ UNCHANGED <<created, reserves, events, tx, txEnd, phase, store, changes, applied, indexer>>
        BY <1>8 DEF vars, chainVars
    <2>2. TypeOK' /\ ChainInv' /\ CreationInv'
        BY <2>1, ChainUnchanged DEF Inv, TypeOK
    <2>3. KnownInv' /\ ReadInv'
        BY <2>1, ChainUnchanged DEF Inv, KnownInv, ReadInv, Reads
    <2>4. ChangesInv'
        BY <2>1, ChainUnchanged DEF Inv, ChangesInv, InitialPart
    <2> QED
        BY <2>2, <2>3, <2>4 DEF Inv
<1> QED
    BY <1>1, <1>2, <1>3, <1>4, <1>5, <1>6, <1>7, <1>8 DEF Next

LEMMA Invariance == Spec => []Inv
    BY InitInv, NextInv, PTL DEF Spec

-----------------------------------------------------------------------------
(* What the consumer reads is what the last transaction it has applied     *)
(* left; a pair with reserves is one whose creation it has applied.        *)
LEMMA InvMirrors == Inv => MirroredPerTransaction
<1> SUFFICES ASSUME Inv, UpToDate, NEW p \in Pool
             PROVE  /\ Read(indexer.attributes[p]) = Reached[p]
                    /\ Read(indexer.balances[p]) = Reached[p]
                    /\ Reached[p] # NoReserves => p \in indexer.components
    BY DEF MirroredPerTransaction
<1> USE UniswapV2Assumption
<1>1. applied \in Nat /\ applied <= MaxTxs /\ 1 \in Txs
    BY DEF Inv, TypeOK, Txs
<1>2. CASE phase = "apply" /\ applied > 0
    <2>1. Reads(p, txEnd[applied][p]) /\ applied \in Txs
        BY <1>1, <1>2 DEF Inv, ReadInv, Txs
    <2>2. ASSUME txEnd[applied][p] # NoReserves, ~CreatedBy(p, applied)
          PROVE  p \in indexer.components
        <3>1. p \in created
            BY <2>1, <2>2 DEF Inv, ChainInv
        <3>2. ~CreatedBy(p, MaxTxs)
            <4>1. SUFFICES ASSUME NEW i \in DOMAIN events, events[i].pool = p,
                                  events[i].type = "PairCreated"
                           PROVE  FALSE
                BY DEF CreatedBy
            <4>2. events[i].tx \in Nat /\ ~(events[i].tx <= applied)
                BY <2>2, <4>1, EventTypes DEF Inv, CreatedBy
            <4> QED
                BY <1>1, <2>1, <2>2, <4>1, <4>2 DEF Inv, CreationInv
        <3> QED
            BY <3>1, <3>2 DEF Inv, KnownInv
    <2>3. CreatedBy(p, applied) => p \in indexer.components
        BY <1>2 DEF Inv, KnownInv
    <2> QED
        BY <1>2, <2>1, <2>2, <2>3 DEF Reads, Reached
<1>3. CASE phase = "mine" /\ events = <<>>
    <2>1. applied = 0 /\ SyncsOf(p, 1) = {} /\ ~CreatedBy(p, MaxTxs)
        BY <1>3 DEF Inv, ReadInv, SyncsOf, CreatedBy
    <2>2. Reads(p, txEnd[1][p])
        BY <2>1 DEF Inv, ReadInv
    <2>3. txEnd[1][p] # NoReserves => p \in indexer.components
        BY <1>1, <2>1 DEF Inv, ChainInv, KnownInv
    <2> QED
        BY <1>3, <2>2, <2>3 DEF Reads, Reached
<1> QED
    BY <1>2, <1>3 DEF UpToDate

(* A pair with a Sync event was created before, in this or an earlier      *)
(* transaction, or block.                                                  *)
LEMMA InvKnowsPools == Inv => KnownPoolsOnly
<1> SUFFICES ASSUME Inv, phase = "apply", applied < MaxTxs
             PROVE  LET c == changes[applied + 1] IN
                    DOMAIN c.attributes \cup DOMAIN c.balances
                        \subseteq indexer.components \cup c.components
    BY DEF KnownPoolsOnly
<1> USE UniswapV2Assumption
<1> DEFINE t == applied + 1
<1>1. t \in Txs /\ applied \in Nat
    BY DEF Inv, TypeOK, Txs
<1>2. /\ changes[t] \in Change /\ changes[t].components = PairsCreated(t)
      /\ FinalPart(changes[t].attributes, t) /\ FinalPart(changes[t].balances, t)
    BY <1>1 DEF Inv, TypeOK, ChangesInv
<1>3. ASSUME NEW p \in Pool, SyncsOf(p, t) # {}
      PROVE  p \in indexer.components \cup PairsCreated(t)
    <2>1. p \in indexer.components \/ CreatedBy(p, t)
        BY <1>3 DEF Inv, KnownInv, SyncsOf
    <2>2. CreatedBy(p, t) => CreatedBy(p, applied) \/ p \in PairsCreated(t)
        <3>1. \A i \in DOMAIN events : events[i].tx <= t => events[i].tx <= applied \/ events[i].tx = t
            BY <1>1, EventTypes DEF Inv
        <3> QED
            BY <3>1 DEF CreatedBy, PairsCreated, Created
    <2> QED
        BY <2>1, <2>2 DEF Inv, KnownInv
<1>4. /\ DOMAIN changes[t].attributes \subseteq Pool /\ DOMAIN changes[t].balances \subseteq Pool
    BY <1>2, ChangeTypes
<1> QED
    BY <1>2, <1>3, <1>4 DEF FinalPart

(* The types are right for any pairs, reserves and bounds of a block.      *)
THEOREM TypeCorrect == Spec => []TypeOK
<1>1. Inv => TypeOK
    BY DEF Inv
<1> QED
    BY <1>1, Invariance, PTL

(* map_pools_created, store_pools and map_pool_events: after the changes   *)
(* of each transaction the consumer reads the reserves of that moment.     *)
THEOREM ReservesAreMirrored == Spec => []MirroredPerTransaction
    BY Invariance, InvMirrors, PTL

(* merge_block: no change is about a pool that the consumer was not told   *)
(* of before or with it.                                                   *)
THEOREM ChangesAreOfKnownPools == Spec => []KnownPoolsOnly
    BY Invariance, InvKnowsPools, PTL

-----------------------------------------------------------------------------
(* Beside the other packages: the package is chosen once, and the          *)
(* variables of the others keep their first values.                        *)

(* No transaction is left to apply when Uniswap v2 is not the package that *)
(* runs.                                                                   *)
RunningInv == IF integration = "uniswap-v2" THEN Inv ELSE applied = MaxTxs

LEMMA UniswapRuns == IntegrationSpec => []RunningInv
<1>1. IntegrationInit => RunningInv
    BY InitInv DEF IntegrationInit, RunningInv, V2NotRunning
<1>2. RunningInv /\ [IntegrationNext]_<<integration, vars, pipelineVars>> => RunningInv'
    <2> SUFFICES ASSUME RunningInv, [IntegrationNext]_<<integration, vars, pipelineVars>>
                 PROVE  RunningInv'
        OBVIOUS
    <2>1. CASE integration = "uniswap-v2"
        <3>1. integration' = integration /\ [Next]_vars
            BY <2>1 DEF IntegrationNext
        <3> QED
            BY <2>1, <3>1, NextInv DEF RunningInv
    <2>2. CASE integration # "uniswap-v2"
        <3>1. integration' = integration /\ applied' = applied
            BY <2>2 DEF IntegrationNext, V2Unchanged, vars
        <3> QED
            BY <2>2, <3>1 DEF RunningInv
    <2> QED
        BY <2>1, <2>2
<1> QED
    BY <1>1, <1>2, PTL DEF IntegrationSpec

(* The reserves are mirrored whatever the bounds of the other packages.    *)
THEOREM UniswapIsMirrored == IntegrationSpec => []UniswapMirrored
<1>1. RunningInv => UniswapMirrored
    BY InvMirrors DEF RunningInv, UniswapMirrored
<1> QED
    BY <1>1, UniswapRuns, PTL

(* No change of the package that runs is about an unknown Uniswap pool.    *)
THEOREM PoolsAreKnown == IntegrationSpec => []KnownPoolsOnly
<1>1. RunningInv => KnownPoolsOnly
    BY InvKnowsPools, UniswapV2Assumption DEF RunningInv, KnownPoolsOnly
<1> QED
    BY <1>1, UniswapRuns, PTL
-----------------------------------------------------------------------------
(* Induction over indices.                                                 *)

(* A set of numbers closed under successor has all of them.                *)
LEMMA SetInduction ==
    ASSUME NEW S \in SUBSET Nat, 0 \in S, \A n \in S : n + 1 \in S
    PROVE  S = Nat
<1> SUFFICES ASSUME S # Nat PROVE FALSE
  OBVIOUS
<1> DEFINE T == Nat \ S
<1>1. T \subseteq Nat /\ T # {}
  OBVIOUS
<1>2. PICK x \in T : \A y \in T : <<y, x>> \notin OpToRel(<, Nat)
  <2> HIDE DEF T
  <2> QED  BY <1>1, NatLessThanWellFounded, WFMin
<1>3. x \in Nat /\ x # 0 /\ x \notin S
  OBVIOUS
<1>4. x - 1 \in Nat /\ x - 1 < x /\ (x - 1) + 1 = x
  BY <1>3
<1>5. x - 1 \notin S
  BY <1>3, <1>4
<1>6. <<x - 1, x>> \in OpToRel(<, Nat)
  BY <1>3, <1>4 DEF OpToRel
<1> QED  BY <1>2, <1>4, <1>5, <1>6

(* The same from one index to another.                                     *)
LEMMA FromTo ==
    ASSUME NEW a \in Nat, NEW b \in Nat, NEW S, a \in S,
           \A i \in a..b : i < b /\ i \in S => i + 1 \in S
    PROVE  \A i \in a..b : i \in S
<1> DEFINE T == {n \in Nat : a + n <= b => a + n \in S}
<1>1. 0 \in T
  OBVIOUS
<1>2. ASSUME NEW n \in T PROVE n + 1 \in T
  <2>1. n \in Nat /\ (a + n <= b => a + n \in S)
    OBVIOUS
  <2>2. a + (n + 1) <= b => a + n \in a..b /\ a + n < b /\ a + (n + 1) = (a + n) + 1
    BY <2>1
  <2> QED  BY <2>1, <2>2
<1>3. T \in SUBSET Nat
  OBVIOUS
<1>4. T = Nat
  <2> HIDE DEF T
  <2> QED  BY <1>1, <1>2, <1>3, SetInduction
<1> SUFFICES ASSUME NEW i \in a..b PROVE i \in S
  OBVIOUS
<1>5. i - a \in Nat /\ a + (i - a) = i /\ i <= b
  OBVIOUS
<1>6. i - a \in T
  BY <1>4, <1>5
<1> QED  BY <1>5, <1>6

(* Two functions built alike are the same: how a function that a model     *)
(* defines by recursion is shown to be one that is given outright.         *)
Alike(f, g, n) ==
    f[0] = g[0] /\ \A i \in 1..n : f[i - 1] = g[i - 1] => f[i] = g[i]

LEMMA SameAlong ==
    ASSUME NEW n \in Nat, NEW f, NEW g, Alike(f, g, n)
    PROVE  \A i \in 0..n : f[i] = g[i]
<1> DEFINE S == {i \in 0..n : f[i] = g[i]}
<1>1. 0 \in S
  BY DEF Alike
<1>2. ASSUME NEW i \in 0..n, i < n, i \in S PROVE i + 1 \in S
  <2>1. i + 1 \in 1..n /\ (i + 1) - 1 = i
    BY <1>2
  <2>2. f[(i + 1) - 1] = g[(i + 1) - 1] => f[i + 1] = g[i + 1]
    BY <2>1 DEF Alike
  <2> QED  BY <1>2, <2>1, <2>2
<1>3. \A i \in 0..n : i \in S
  <2> HIDE DEF S
  <2> QED  BY <1>1, <1>2, FromTo
<1> QED  BY <1>3

(* What no step changes is the same at both ends.                          *)
LEMMA Unchanged ==
    ASSUME NEW a \in Nat, NEW b \in Nat, a <= b, NEW f,
           \A i \in a + 1..b : f[i] = f[i - 1]
    PROVE  f[b] = f[a]
<1> DEFINE S == {i \in a..b : f[i] = f[a]}
<1>1. a \in S
  OBVIOUS
<1>2. ASSUME NEW i \in a..b, i < b, i \in S PROVE i + 1 \in S
  <2>1. i + 1 \in a + 1..b /\ (i + 1) - 1 = i
    BY <1>2
  <2>2. f[i + 1] = f[(i + 1) - 1]
    BY <2>1
  <2> QED  BY <1>2, <2>1, <2>2
<1>3. \A i \in a..b : i \in S
  <2> HIDE DEF S
  <2> QED  BY <1>1, <1>2, FromTo
<1>4. b \in a..b
  OBVIOUS
<1> QED  BY <1>3, <1>4

(* The union of what a function has at some indices.                       *)
Gathered(f, S) == UNION {f[i] : i \in S}

LEMMA GatheredIs == \A f, S, x : x \in Gathered(f, S) <=> \E i \in S : x \in f[i]
BY DEF Gathered

LEMMA GatheredSame ==
    ASSUME NEW S, NEW f, NEW g, \A i \in S : g[i] = f[i]
    PROVE  Gathered(g, S) = Gathered(f, S)
<1>1. \A x : x \in Gathered(g, S) <=> x \in Gathered(f, S)
  BY GatheredIs
<1> QED  BY <1>1

LEMMA GatheredGrows ==
    ASSUME NEW S, NEW k \in S, NEW f, NEW g, NEW X,
           \A i \in S : i # k => g[i] = f[i], g[k] = f[k] \cup X
    PROVE  Gathered(g, S) = Gathered(f, S) \cup X
<1>1. ASSUME NEW x \in Gathered(g, S) PROVE x \in Gathered(f, S) \cup X
  <2>1. PICK i \in S : x \in g[i]
    BY GatheredIs
  <2>2. i = k => x \in f[k] \cup X
    BY <2>1
  <2>3. i # k => x \in f[i]
    BY <2>1
  <2> QED  BY <2>1, <2>2, <2>3, GatheredIs
<1>2. ASSUME NEW x \in Gathered(f, S) \cup X PROVE x \in Gathered(g, S)
  <2>1. CASE x \in Gathered(f, S)
    <3>1. PICK i \in S : x \in f[i]
      BY <2>1, GatheredIs
    <3>2. x \in g[i]
      BY <3>1
    <3> QED  BY <3>2, GatheredIs
  <2>2. CASE x \in X
    BY <2>2, GatheredIs
  <2> QED  BY <2>1, <2>2
<1> QED  BY <1>1, <1>2

LEMMA GatheredTrim ==
    ASSUME NEW f, NEW S, NEW T, T \subseteq S, \A i \in S : i \notin T => f[i] = {}
    PROVE  Gathered(f, S) = Gathered(f, T)
<1>1. \A x : x \in Gathered(f, S) <=> x \in Gathered(f, T)
  BY GatheredIs
<1> QED  BY <1>1

LEMMA GatheredNext ==
    ASSUME NEW a \in Nat, NEW b \in Nat, a <= b, NEW f
    PROVE  Gathered(f, a..b + 1) = Gathered(f, a..b) \cup f[b + 1]
<1>1. a..b + 1 = (a..b) \cup {b + 1}
  OBVIOUS
<1>2. \A x : x \in Gathered(f, a..b + 1) <=> x \in Gathered(f, a..b) \cup f[b + 1]
  BY <1>1, GatheredIs
<1> QED  BY <1>2

(* A set to which every step adds has what was added on the way.           *)
Adds(f, new, a, b) == \A i \in a + 1..b : f[i] = f[i - 1] \cup new[i]

LEMMA Accumulated ==
    ASSUME NEW a \in Nat, NEW b \in Nat, a <= b, NEW f, NEW new, Adds(f, new, a, b)
    PROVE  f[b] = f[a] \cup Gathered(new, a + 1..b)
<1>0. \A i \in a + 1..b : f[i] = f[i - 1] \cup new[i]
  BY DEF Adds
<1> DEFINE S == {n \in a..b : f[n] = f[a] \cup Gathered(new, a + 1..n)}
<1>1. a \in S
  <2>1. \A x : x \notin Gathered(new, a + 1..a)
    BY GatheredIs
  <2> QED  BY <2>1
<1>2. ASSUME NEW n \in a..b, n < b, n \in S PROVE n + 1 \in S
  <2>1. n + 1 \in a + 1..b /\ (n + 1) - 1 = n /\ n + 1 \in a..b /\ n \in Nat
    BY <1>2
  <2>2. f[n + 1] = f[(n + 1) - 1] \cup new[n + 1]
    BY <1>0, <2>1
  <2>3. \A x : x \in Gathered(new, a + 1..n + 1) <=> x \in Gathered(new, a + 1..n) \/ x \in new[n + 1]
    <3>1. a + 1..n + 1 = (a + 1..n) \cup {n + 1}
      BY <1>2
    <3> QED  BY <3>1, GatheredIs
  <2>4. f[n] = f[a] \cup Gathered(new, a + 1..n)
    BY <1>2
  <2>5. f[n + 1] = f[a] \cup Gathered(new, a + 1..n + 1)
    BY <2>1, <2>2, <2>3, <2>4
  <2> QED  BY <2>1, <2>5
<1>3. \A n \in a..b : n \in S
  <2> HIDE DEF S
  <2> QED  BY <1>1, <1>2, FromTo
<1>4. b \in a..b
  OBVIOUS
<1> QED  BY <1>3, <1>4

(* Of a set of indices there is a last one, and a first one.               *)
LEMMA LastIndex ==
    ASSUME NEW n \in Nat, NEW S, S \subseteq 1..n, S # {}
    PROVE  \E m \in S : \A i \in S : i <= m
<1>0. SUFFICES ASSUME ~(\E m \in S : \A i \in S : i <= m) PROVE FALSE
  OBVIOUS
<1>a. \A m \in S : \E i \in S : ~(i <= m)
  BY <1>0
<1>b. PICK x : x \in S /\ x \in 1..n
  OBVIOUS
<1> DEFINE B == {k \in 0..n : \E i \in S : i > k}
<1>1. 0 \in B
  BY <1>b
<1>2. ASSUME NEW k \in 0..n, k < n, k \in B PROVE k + 1 \in B
  <2>1. PICK i \in S : i > k /\ i \in 1..n
    BY <1>2
  <2>2. CASE i > k + 1
    BY <1>2, <2>1, <2>2
  <2>3. CASE ~(i > k + 1)
    <3>1. i = k + 1
      BY <1>2, <2>1, <2>3
    <3>2. PICK j \in S : ~(j <= i)
      BY <1>a, <2>1
    <3>3. j \in 1..n
      BY <3>2
    <3>4. j > k + 1
      BY <1>2, <3>1, <3>2, <3>3
    <3> QED  BY <1>2, <3>4
  <2> QED  BY <2>2, <2>3
<1>3. \A k \in 0..n : k \in B
  <2> HIDE DEF B
  <2> QED  BY <1>1, <1>2, FromTo
<1>4. PICK i \in S : i > n
  BY <1>3
<1> QED  BY <1>4

LEMMA FirstIndex ==
    ASSUME NEW n \in Nat, NEW S, S \subseteq 1..n, S # {}
    PROVE  \E m \in S : \A i \in S : m <= i
<1> SUFFICES ASSUME \A m \in S : \E i \in S : ~(m <= i) PROVE FALSE
  OBVIOUS
<1> DEFINE B == {k \in 0..n : \A i \in S : i > k}
<1>1. 0 \in B
  OBVIOUS
<1>2. ASSUME NEW k \in 0..n, k < n, k \in B PROVE k + 1 \in B
  <2>1. k + 1 \notin S
    <3> SUFFICES ASSUME k + 1 \in S PROVE FALSE
      OBVIOUS
    <3>1. PICK i \in S : ~(k + 1 <= i)
      OBVIOUS
    <3> QED  BY <1>2, <3>1
  <2> QED  BY <1>2, <2>1
<1>3. \A k \in 0..n : k \in B
  <2> HIDE DEF B
  <2> QED  BY <1>1, <1>2, FromTo
<1>4. \A i \in S : i > n
  BY <1>3
<1> HIDE DEF B
<1>5. PICK i : i \in S /\ i \in 1..n
  OBVIOUS
<1> QED  BY <1>4, <1>5

(* A sequence to which everything is appended has everything.              *)
AppendsAll(c, x, n) == c[0] = <<>> /\ \A i \in 1..n : c[i] = Append(c[i - 1], x[i])

LEMMA AllAppended ==
    ASSUME NEW n \in Nat, NEW c, NEW x, AppendsAll(c, x, n)
    PROVE  c[n] = [i \in 1..n |-> x[i]]
<1> DEFINE S == {m \in 0..n : c[m] = [i \in 1..m |-> x[i]]}
<1>1. 0 \in S
  BY DEF AppendsAll
<1>2. ASSUME NEW m \in 0..n, m < n, m \in S PROVE m + 1 \in S
  <2>1. m + 1 \in 1..n /\ (m + 1) - 1 = m /\ m \in Nat
    BY <1>2
  <2>2. c[m + 1] = Append(c[(m + 1) - 1], x[m + 1])
    BY <2>1 DEF AppendsAll
  <2>3. PICK k : k = [i \in 1..m |-> x[i]]
    OBVIOUS
  <2>4. c[m + 1] = Append(k, x[m + 1])
    BY <1>2, <2>1, <2>2, <2>3
  <2>5. Append(k, x[m + 1]) = [i \in 1..m + 1 |-> IF i <= m THEN x[i] ELSE x[m + 1]]
    <3> HIDE DEF S
    <3>1. Len(k) = m /\ \A i \in 1..m : k[i] = x[i]
      BY <2>1, <2>3
    <3> QED  BY <2>1, <3>1
  <2>6. [i \in 1..m + 1 |-> IF i <= m THEN x[i] ELSE x[m + 1]] = [i \in 1..m + 1 |-> x[i]]
    BY <2>1
  <2> QED  BY <2>1, <2>4, <2>5, <2>6
<1>3. \A m \in 0..n : m \in S
  <2> HIDE DEF S
  <2> QED  BY <1>1, <1>2, FromTo
<1>4. n \in 0..n
  OBVIOUS
<1> QED  BY <1>3, <1>4

-----------------------------------------------------------------------------
(* The transactions of a block.  Events come in the order of transactions, *)
(* so that e[t] can be the index of the last one up to transaction t.      *)
Ends(e, evs, last) ==
    /\ e \in [0..MaxTxs -> 0..Len(evs)] /\ e[0] = 0
    /\ \A t \in 1..MaxTxs : t >= last => e[t] = Len(evs)
    /\ \A t, u \in 0..MaxTxs : t <= u => e[t] <= e[u]
    /\ \A i \in 1..Len(evs) :
          /\ evs[i].tx \in 1..last
          /\ e[evs[i].tx - 1] < i /\ i <= e[evs[i].tx]

LEMMA EndsNew ==
    ASSUME MaxTxs \in Nat \ {0}
    PROVE  Ends([t \in 0..MaxTxs |-> 0], <<>>, 1)
BY DEF Ends

LEMMA EndsNextTx ==
    ASSUME MaxTxs \in Nat \ {0}, NEW D, NEW evs \in Seq(D), NEW last \in 1..MaxTxs, NEW e,
           Ends(e, evs, last)
    PROVE  Ends(e, evs, last + 1)
<1>1. \A i \in 1..Len(evs) : evs[i].tx \in 1..last + 1
  BY DEF Ends
<1>2. \A t \in 1..MaxTxs : t >= last + 1 => t >= last
  OBVIOUS
<1> QED  BY <1>1, <1>2 DEF Ends

(* The ends once the current transaction has its n-th event.               *)
EndsWith(e, last, n) == [t \in 0..MaxTxs |-> IF t >= last THEN n ELSE e[t]]

LEMMA EndsAppend ==
    ASSUME MaxTxs \in Nat \ {0}, NEW D, NEW evs \in Seq(D), NEW last \in 1..MaxTxs, NEW e,
           Ends(e, evs, last), NEW ev, ev.tx = last,
           NEW evs2, evs2 = Append(evs, ev),
           NEW e2, e2 = EndsWith(e, last, Len(evs) + 1)
    PROVE  Ends(e2, evs2, last)
<1>1. Len(evs) \in Nat /\ Len(evs2) = Len(evs) + 1 /\ evs2[Len(evs) + 1] = ev
      /\ \A i \in 1..Len(evs) : evs2[i] = evs[i]
  OBVIOUS
<1>2. PICK n \in Nat : n = Len(evs)
  BY <1>1
<1>3. \A t \in 0..MaxTxs : e[t] \in 0..n /\ e[t] \in Nat /\ e[t] <= n
  BY <1>2 DEF Ends
<1>4. \A t \in 0..MaxTxs : /\ t >= last => e2[t] = n + 1
                           /\ t < last => e2[t] = e[t]
  BY <1>2 DEF EndsWith
<1>5. e2 \in [0..MaxTxs -> 0..n + 1] /\ e2[0] = 0
  <2>1. e2[0] = e[0] /\ e[0] = 0
    BY <1>4 DEF Ends
  <2>2. \A t \in 0..MaxTxs : e2[t] \in 0..n + 1
    BY <1>3, <1>4
  <2> QED  BY <2>1, <2>2 DEF EndsWith
<1>6. ASSUME NEW t \in 0..MaxTxs, NEW u \in 0..MaxTxs, t <= u
      PROVE  e2[t] <= e2[u]
  <2>1. e[t] <= e[u]
    BY <1>6 DEF Ends
  <2>2. CASE u >= last
    BY <1>3, <1>4, <2>2
  <2>3. CASE u < last
    BY <1>4, <1>6, <2>1, <2>3
  <2> QED  BY <2>2, <2>3
<1>7. ASSUME NEW i \in 1..n + 1
      PROVE  evs2[i].tx \in 1..last /\ e2[evs2[i].tx - 1] < i /\ i <= e2[evs2[i].tx]
  <2>1. CASE i = n + 1
    <3>1. evs2[i].tx = last
      BY <1>1, <1>2, <2>1
    <3>2. last - 1 \in 0..MaxTxs /\ last - 1 < last /\ last \in 0..MaxTxs
      OBVIOUS
    <3>3. e2[last - 1] = e[last - 1] /\ e2[last] = n + 1 /\ e[last - 1] <= n
          /\ e[last - 1] \in Nat
      BY <1>3, <1>4, <3>2
    <3> QED  BY <2>1, <3>1, <3>3
  <2>2. CASE i # n + 1
    <3>1. i \in 1..n
      BY <2>2
    <3>2. PICK t \in 1..last : t = evs[i].tx
      BY <1>2, <3>1 DEF Ends
    <3>3. e[t - 1] < i /\ i <= e[t] /\ evs2[i].tx = t
      BY <1>1, <1>2, <3>1, <3>2 DEF Ends
    <3>4. t \in 0..MaxTxs /\ t - 1 \in 0..MaxTxs /\ t - 1 < last
      OBVIOUS
    <3>5. e2[t - 1] = e[t - 1]
      BY <1>4, <3>4
    <3>6. e2[t] = e[t] \/ e2[t] = n + 1
      BY <1>4, <3>4
    <3> QED  BY <3>1, <3>3, <3>5, <3>6
  <2> QED  BY <2>1, <2>2
<1>8. \A t \in 1..MaxTxs : t >= last => e2[t] = n + 1
  BY <1>4
<1>9. Len(evs2) = n + 1
  BY <1>1, <1>2
<1> QED  BY <1>4, <1>5, <1>6, <1>7, <1>8, <1>9 DEF Ends

(* The events of a transaction are those between two ends.                 *)
LEMMA EndsSplit ==
    ASSUME MaxTxs \in Nat \ {0}, NEW D, NEW evs \in Seq(D), NEW last \in 1..MaxTxs, NEW e,
           Ends(e, evs, last), NEW i \in 1..Len(evs), NEW t \in 1..MaxTxs
    PROVE  /\ evs[i].tx = t <=> e[t - 1] < i /\ i <= e[t]
           /\ evs[i].tx <= t <=> i <= e[t]
           /\ evs[i].tx \in 1..MaxTxs
<1>1. PICK u \in 1..last : u = evs[i].tx
  BY DEF Ends
<1>2. e[u - 1] < i /\ i <= e[u] /\ u \in 1..MaxTxs
  BY <1>1 DEF Ends
<1>3. \A a, b \in 0..MaxTxs : /\ a <= b => e[a] <= e[b]
                              /\ e[a] \in Nat
  BY DEF Ends
<1>4. CASE u <= t - 1
  <2>1. e[u] <= e[t - 1] /\ e[t - 1] <= e[t] /\ e[u] \in Nat /\ e[t] \in Nat /\ e[t - 1] \in Nat
    BY <1>2, <1>3, <1>4
  <2> QED  BY <1>1, <1>2, <1>4, <2>1, SMTT(40)
<1>5. CASE u = t
  BY <1>1, <1>2, <1>5
<1>6. CASE u > t
  <2>1. e[t] <= e[u - 1] /\ e[t] \in Nat /\ e[u - 1] \in Nat
    BY <1>2, <1>3, <1>6
  <2> QED  BY <1>1, <1>2, <1>6, <2>1
<1> QED  BY <1>1, <1>2, <1>4, <1>5, <1>6

LEMMA EndsFacts ==
    ASSUME MaxTxs \in Nat \ {0}, NEW D, NEW evs \in Seq(D), NEW last \in 1..MaxTxs, NEW e,
           Ends(e, evs, last)
    PROVE  /\ Len(evs) \in Nat /\ e[0] = 0 /\ e[last] = Len(evs)
           /\ \A t \in 0..MaxTxs : e[t] \in Nat /\ e[t] <= Len(evs)
           /\ \A t \in 1..MaxTxs : e[t - 1] \in Nat /\ e[t - 1] <= e[t]
<1>1. Len(evs) \in Nat /\ \A t \in 0..MaxTxs : e[t] \in 0..Len(evs)
  BY DEF Ends
<1>2. last >= last
  OBVIOUS
<1>3. \A t \in 1..MaxTxs : t - 1 \in 0..MaxTxs /\ t \in 0..MaxTxs /\ t - 1 <= t
  OBVIOUS
<1> QED  BY <1>1, <1>2, <1>3 DEF Ends

(* A recursion over indices has a solution, so that what a model defines   *)
(* by CHOOSE satisfies its equation.                                       *)
Unfolds(f, start, step, n) ==
    f[0] = start /\ \A i \in 1..n : f[i] = step[<<i, f[i - 1]>>]

LEMMA Recursion ==
    ASSUME NEW n \in Nat, NEW X, NEW start \in X, NEW step \in [(1..n) \X X -> X]
    PROVE  \E f \in [0..n -> X] : Unfolds(f, start, step, n)
<1> DEFINE S == {m \in 0..n : \E f \in [0..n -> X] : Unfolds(f, start, step, m)}
<1>1. 0 \in S
  <2>1. [i \in 0..n |-> start] \in [0..n -> X]
    OBVIOUS
  <2>2. Unfolds([i \in 0..n |-> start], start, step, 0)
    BY DEF Unfolds
  <2> QED  BY <2>1, <2>2
<1>2. ASSUME NEW m \in 0..n, m < n, m \in S PROVE m + 1 \in S
  <2>1. PICK f \in [0..n -> X] : Unfolds(f, start, step, m)
    BY <1>2
  <2>2. PICK g : g = [f EXCEPT ![m + 1] = step[<<m + 1, f[m]>>]]
    OBVIOUS
  <2>3. m + 1 \in 0..n /\ m + 1 \in 1..n /\ f[m] \in X
    BY <1>2
  <2>4. step[<<m + 1, f[m]>>] \in X
    BY <2>3
  <2>5. g \in [0..n -> X] /\ g[m + 1] = step[<<m + 1, f[m]>>]
    BY <2>2, <2>3, <2>4
  <2>6. \A i \in 0..m : g[i] = f[i]
    BY <1>2, <2>2
  <2>7. ASSUME NEW i \in 1..m + 1 PROVE g[i] = step[<<i, g[i - 1]>>]
    <3>1. CASE i = m + 1
      <4>1. i - 1 = m /\ m \in 0..m
        BY <3>1
      <4> QED  BY <2>5, <2>6, <3>1, <4>1
    <3>2. CASE i # m + 1
      <4>1. i \in 0..m /\ i - 1 \in 0..m /\ i \in 1..m
        BY <3>2
      <4>2. f[i] = step[<<i, f[i - 1]>>]
        BY <2>1, <4>1 DEF Unfolds
      <4> QED  BY <2>6, <4>1, <4>2
    <3> QED  BY <3>1, <3>2
  <2>8. g[0] = start
    BY <1>2, <2>1, <2>6 DEF Unfolds
  <2>9. Unfolds(g, start, step, m + 1)
    BY <2>7, <2>8 DEF Unfolds
  <2> QED  BY <2>3, <2>5, <2>9
<1>3. \A m \in 0..n : m \in S
  <2> HIDE DEF S
  <2>1. 0 \in Nat
    OBVIOUS
  <2> QED  BY <1>1, <1>2, <2>1, FromTo
<1>4. n \in 0..n
  OBVIOUS
<1> QED  BY <1>3, <1>4
-----------------------------------------------------------------------------
(* The stores: what their recursion computes is any function that changes  *)
(* by the deltas of its key.                                               *)
SumEq(f, kept, ds, key) ==
    f = [i \in 0..Len(ds) |->
            IF i = 0 THEN kept[key]
            ELSE IF ds[i].key = key THEN f[i - 1] + ds[i].delta ELSE f[i - 1]]
Summed(kept, ds, key) == CHOOSE f : SumEq(f, kept, ds, key)

IsSum(f, kept, ds, key) ==
    /\ f[0] = kept[key]
    /\ \A i \in 1..Len(ds) : /\ ds[i].key = key => f[i] = f[i - 1] + ds[i].delta
                             /\ ds[i].key # key => f[i] = f[i - 1]

LEMMA SummedIs ==
    ASSUME NEW n \in Nat, NEW ds, Len(ds) = n, NEW kept, NEW key, NEW f,
           IsSum(f, kept, ds, key)
    PROVE  \A i \in 0..n : Summed(kept, ds, key)[i] = f[i]
<1>0. /\ f[0] = kept[key]
      /\ \A i \in 1..n : /\ ds[i].key = key => f[i] = f[i - 1] + ds[i].delta
                         /\ ds[i].key # key => f[i] = f[i - 1]
  BY DEF IsSum
<1> DEFINE g == [i \in 0..n |-> f[i]]
<1>1. SumEq(g, kept, ds, key)
  <2>1. ASSUME NEW i \in 0..n
        PROVE  g[i] = IF i = 0 THEN kept[key]
                      ELSE IF ds[i].key = key THEN g[i - 1] + ds[i].delta ELSE g[i - 1]
    <3>1. CASE i = 0
      BY <1>0, <3>1
    <3>2. CASE i # 0
      <4>1. i \in 1..n /\ i - 1 \in 0..n
        BY <3>2
      <4> QED  BY <1>0, <3>2, <4>1
    <3> QED  BY <3>1, <3>2
  <2> QED  BY <2>1 DEF SumEq
<1>2. PICK c : c = Summed(kept, ds, key)
  OBVIOUS
<1> HIDE DEF g
<1>3. SumEq(c, kept, ds, key)
  BY <1>1, <1>2 DEF Summed
<1>4. Alike(c, f, n)
  <2>1. c[0] = kept[key]
    BY <1>3 DEF SumEq
  <2>2. ASSUME NEW i \in 1..n, c[i - 1] = f[i - 1] PROVE c[i] = f[i]
    <3>1. i \in 0..n /\ i # 0
      OBVIOUS
    <3>2. c[i] = IF ds[i].key = key THEN c[i - 1] + ds[i].delta ELSE c[i - 1]
      BY <1>3, <3>1 DEF SumEq
    <3> QED  BY <1>0, <2>2, <3>2
  <2> QED  BY <1>0, <2>1, <2>2 DEF Alike
<1> QED  BY <1>2, <1>4, SameAlong

-----------------------------------------------------------------------------
(* The history of a block: the state s of the chain after each of its      *)
(* events, and so at the end of each of its transactions.                  *)
Chronicle(h, e, evs, last, ends, s, X) ==
    /\ h \in [0..Len(evs) -> X] /\ h[Len(evs)] = s
    /\ Ends(e, evs, last) /\ ends \in [1..MaxTxs -> X]
    /\ \A t \in 1..last : ends[t] = h[e[t]]

Extends(h2, h, n) == \A i \in 0..n : h2[i] = h[i]

LEMMA ChronicleNew ==
    ASSUME MaxTxs \in Nat \ {0}, NEW X, NEW s \in X, NEW ends, ends = [t \in 1..MaxTxs |-> s]
    PROVE  \E h, e : Chronicle(h, e, <<>>, 1, ends, s, X) /\ h[0] = s
<1>1. PICK h : h = [i \in 0..0 |-> s]
  OBVIOUS
<1>2. PICK e : e = [t \in 0..MaxTxs |-> 0]
  OBVIOUS
<1>3. Ends(e, <<>>, 1)
  BY <1>2, EndsNew
<1>4. h[0] = s /\ h \in [0..0 -> X] /\ Len(<<>>) = 0
  BY <1>1
<1>5. \A t \in 1..1 : ends[t] = h[e[t]]
  BY <1>2, <1>4
<1>6. Chronicle(h, e, <<>>, 1, ends, s, X)
  BY <1>3, <1>4, <1>5 DEF Chronicle
<1> QED  BY <1>4, <1>6

LEMMA ChronicleNextTx ==
    ASSUME MaxTxs \in Nat \ {0}, NEW D, NEW evs \in Seq(D), NEW last \in 1..MaxTxs,
           last < MaxTxs, NEW X, NEW s \in X, NEW h, NEW e, NEW ends,
           Chronicle(h, e, evs, last, ends, s, X),
           NEW ends2, ends2 = [ends EXCEPT ![last + 1] = s]
    PROVE  Chronicle(h, e, evs, last + 1, ends2, s, X)
<1>1. Ends(e, evs, last) /\ h[Len(evs)] = s /\ ends \in [1..MaxTxs -> X]
      /\ h \in [0..Len(evs) -> X]
  BY DEF Chronicle
<1>2. Ends(e, evs, last + 1)
  BY <1>1, EndsNextTx
<1>3. last + 1 \in 1..MaxTxs
  OBVIOUS
<1>4. e[last + 1] = Len(evs)
  BY <1>2, <1>3, EndsFacts
<1>5. /\ ends2 \in [1..MaxTxs -> X] /\ ends2[last + 1] = s
      /\ \A t \in 1..MaxTxs : t # last + 1 => ends2[t] = ends[t]
  BY <1>1, <1>3
<1>6. ASSUME NEW t \in 1..last + 1 PROVE ends2[t] = h[e[t]]
  <2>1. CASE t = last + 1
    BY <1>1, <1>4, <1>5, <2>1
  <2>2. CASE t # last + 1
    <3>1. t \in 1..last /\ t \in 1..MaxTxs
      BY <1>3, <2>2
    <3> QED  BY <1>5, <2>2, <3>1 DEF Chronicle
  <2> QED  BY <2>1, <2>2
<1> QED  BY <1>1, <1>2, <1>5, <1>6 DEF Chronicle

LEMMA ChronicleAppend ==
    ASSUME MaxTxs \in Nat \ {0}, NEW D, NEW evs \in Seq(D), NEW last \in 1..MaxTxs,
           NEW X, NEW s, NEW h, NEW e, NEW ends, Chronicle(h, e, evs, last, ends, s, X),
           NEW s2 \in X, NEW ev, ev.tx = last, NEW evs2, evs2 = Append(evs, ev),
           NEW ends2, ends2 = [ends EXCEPT ![last] = s2]
    PROVE  \E h2, e2 : Chronicle(h2, e2, evs2, last, ends2, s2, X) /\ Extends(h2, h, Len(evs))
<1>1. PICK n \in Nat : n = Len(evs)
  OBVIOUS
<1>2. Len(evs2) = n + 1
  BY <1>1
<1>3. PICK h2 : h2 = [i \in 0..n + 1 |-> IF i <= n THEN h[i] ELSE s2]
  OBVIOUS
<1>4. PICK e2 : e2 = EndsWith(e, last, n + 1)
  OBVIOUS
<1>5. Ends(e, evs, last) /\ ends \in [1..MaxTxs -> X] /\ h \in [0..n -> X]
  BY <1>1 DEF Chronicle
<1>6. Extends(h2, h, n)
  BY <1>1, <1>3 DEF Extends
<1>7. h2[n + 1] = s2 /\ h2 \in [0..n + 1 -> X]
  <2>1. h2[n + 1] = s2
    BY <1>1, <1>3
  <2>2. \A i \in 0..n + 1 : h2[i] \in X
    <3> TAKE i \in 0..n + 1
    <3>1. CASE i <= n
      <4>1. i \in 0..n
        BY <1>1, <3>1
      <4> QED  BY <1>5, <1>6, <4>1 DEF Extends
    <3>2. CASE ~(i <= n)
      BY <1>3, <3>2
    <3> QED  BY <3>1, <3>2
  <2> QED  BY <1>3, <2>1, <2>2
<1>8. Ends(e2, evs2, last)
  BY <1>1, <1>4, <1>5, EndsAppend
<1>9. /\ ends2 \in [1..MaxTxs -> X] /\ ends2[last] = s2
      /\ \A t \in 1..MaxTxs : t # last => ends2[t] = ends[t]
  BY <1>5
<1>10. ASSUME NEW t \in 1..last PROVE ends2[t] = h2[e2[t]]
  <2>1. CASE t = last
    <3>1. e2[t] = n + 1
      BY <1>4, <2>1 DEF EndsWith
    <3> QED  BY <1>7, <1>9, <2>1, <3>1
  <2>2. CASE t # last
    <3>1. t \in 0..MaxTxs /\ t \in 1..MaxTxs /\ t < last
      BY <2>2
    <3>2. e2[t] = e[t] /\ ends2[t] = ends[t]
      BY <1>4, <1>9, <2>2, <3>1 DEF EndsWith
    <3>3. e[t] \in 0..n
      BY <1>1, <1>5, <3>1, EndsFacts
    <3>4. ends[t] = h[e[t]]
      BY DEF Chronicle
    <3> QED  BY <1>6, <3>2, <3>3, <3>4 DEF Extends
  <2> QED  BY <2>1, <2>2
<1>11. Chronicle(h2, e2, evs2, last, ends2, s2, X)
  BY <1>2, <1>7, <1>8, <1>9, <1>10 DEF Chronicle
<1> QED  BY <1>1, <1>6, <1>11

(* What a transaction's events leave alone is the same at its ends.        *)
LEMMA ChronicleSpan ==
    ASSUME MaxTxs \in Nat \ {0}, NEW D, NEW evs \in Seq(D), NEW last \in 1..MaxTxs,
           NEW X, NEW s, NEW h, NEW e, NEW ends, Chronicle(h, e, evs, last, ends, s, X),
           NEW t \in 1..MaxTxs
    PROVE  /\ e[t - 1] \in 0..Len(evs) /\ e[t] \in 0..Len(evs) /\ e[t - 1] <= e[t]
           /\ \A i \in 1..Len(evs) : evs[i].tx = t <=> e[t - 1] < i /\ i <= e[t]
<1>1. Ends(e, evs, last)
  BY DEF Chronicle
<1>2. \A i \in 1..Len(evs) : evs[i].tx = t <=> e[t - 1] < i /\ i <= e[t]
  BY <1>1, EndsSplit
<1> QED  BY <1>1, <1>2, EndsFacts
-----------------------------------------------------------------------------
(* ERC4626.  While a block is mined there is a history h of the vaults:    *)
(* who had been used and what had been put in after each event.            *)
VaultState == [used : SUBSET Vault, net : [Vault -> Int]]
VaultEvent == [tx : 1..MaxTxs, kind : {"Deposit", "Withdraw"}, vault : Vault, assets : Nat]

Worth(e) == IF e.kind = "Deposit" THEN e.assets ELSE -e.assets

VaultHistory(h, evs) ==
    /\ h \in [0..Len(evs) -> VaultState]
    /\ \A i \in 1..Len(evs) :
          /\ h[i].used = h[i - 1].used \cup {evs[i].vault}
          /\ h[i].net[evs[i].vault] = h[i - 1].net[evs[i].vault] + Worth(evs[i])
          /\ \A v \in Vault : v # evs[i].vault => h[i].net[v] = h[i - 1].net[v]

VaultTypes ==
    /\ chain \in [deployed : SUBSET Vault, used : SUBSET Vault, net : [Vault -> Int]]
    /\ block \in [tx : 1..MaxTxs, new : [1..MaxTxs -> SUBSET Vault], events : Seq(VaultEvent),
                  txEnd : [1..MaxTxs -> [deployed : SUBSET Vault, used : SUBSET Vault,
                                         net : [Vault -> Int]]]]
    /\ phase \in {"mine", "store", "map", "apply"}
    /\ stores \in [pools : SUBSET Vault, first : SUBSET Vault, balance : [Vault -> Int]]
    /\ indexer \in [pools : SUBSET Vault, balance : [Vault -> Int],
                    entrypoints : [Vault -> Nat]]

(* What has been deployed, transaction by transaction.                     *)
VaultDeployedInv ==
    /\ \A t \in 1..MaxTxs : t > block.tx => block.new[t] = {}
    /\ \A t \in 1..block.tx :
          block.txEnd[t].deployed = indexer.pools \cup Gathered(block.new, 1..t)
    /\ chain = block.txEnd[block.tx]
    /\ chain.used \subseteq chain.deployed
    /\ \A i \in 1..Len(block.events) : block.events[i].vault \in chain.deployed
    /\ stores.pools = IF phase = "mine" THEN indexer.pools ELSE chain.deployed

(* Where the history begins and ends, and what follows it.                 *)
VaultsAt(h, e) ==
    LET n == Len(block.events)
    IN  /\ VaultHistory(h, block.events) /\ Ends(e, block.events, block.tx)
        /\ \A t \in 1..block.tx : /\ block.txEnd[t].used = h[e[t]].used
                                  /\ block.txEnd[t].net = h[e[t]].net
        /\ \A v \in Vault :
              /\ v \in h[0].used => indexer.entrypoints[v] = 1
              /\ v \notin h[0].used => indexer.entrypoints[v] = 0
              /\ indexer.balance[v] = Vaults!Clipped(h[0].net[v])
        /\ phase \in {"mine", "store"} => stores.first = h[0].used /\ stores.balance = h[0].net
        /\ phase \in {"map", "apply"} => /\ stores.first = h[n].used /\ stores.balance = h[n].net
                                         /\ deltas.first = h[n].used \ h[0].used
        /\ phase = "store" =>
              deltas = [balances |-> [i \in 1..n |-> Vaults!Delta(block.events[i])], first |-> {}]
        /\ phase \in {"map", "apply"} =>
              /\ DOMAIN deltas.balances = 1..n
              /\ \A i \in 1..n :
                    /\ deltas.balances[i].key = block.events[i].vault
                    /\ deltas.balances[i].tx = block.events[i].tx
                    /\ deltas.balances[i].new_value = h[i].net[block.events[i].vault]

VaultMessageInv ==
    phase = "apply" => message = [t \in 1..block.tx |-> Vaults!TxChanges(t)]

VaultsInv == VaultTypes /\ VaultDeployedInv /\ VaultMessageInv /\ \E h, e : VaultsAt(h, e)

-----------------------------------------------------------------------------
LEMMA VaultConstants ==
    MaxTxs \in Nat \ {0} /\ Assets \subseteq Nat /\ MaxNet \in Nat /\ MaxYield \in Nat
BY IntegrationBounds DEF Vaults!Erc4626Bounds

LEMMA VaultsInit == Vaults!Init => VaultsInv
<1> SUFFICES ASSUME Vaults!Init PROVE VaultsInv
  OBVIOUS
<1>1. MaxTxs \in Nat \ {0}
  BY VaultConstants
<1>2. /\ chain = [deployed |-> {}, used |-> {}, net |-> [v \in Vault |-> 0]]
      /\ block = [tx |-> 1, new |-> [t \in 1..MaxTxs |-> {}], events |-> <<>>,
                  txEnd |-> [t \in 1..MaxTxs |-> chain]]
      /\ phase = "mine"
      /\ stores = [pools |-> {}, first |-> {}, balance |-> [v \in Vault |-> 0]]
      /\ indexer = [pools |-> {}, balance |-> [v \in Vault |-> 0],
                    entrypoints |-> [v \in Vault |-> 0]]
  BY DEF Vaults!Init, Vaults!NewBlock, Vaults!Tx
<1>3. VaultTypes
  BY <1>1, <1>2 DEF VaultTypes
<1>4. VaultDeployedInv
  <2>1. \A t \in 1..MaxTxs : block.new[t] = {} /\ block.txEnd[t] = chain
    BY <1>2
  <2>2. ASSUME NEW t \in 1..block.tx PROVE Gathered(block.new, 1..t) = {}
    <3>1. \A i \in 1..t : block.new[i] = {}
      BY <1>1, <1>2, <2>1
    <3> QED  BY <3>1, GatheredIs
  <2>3. ASSUME NEW t \in 1..block.tx
        PROVE  block.txEnd[t].deployed = indexer.pools \cup Gathered(block.new, 1..t)
    <3>1. t \in 1..MaxTxs
      BY <1>1, <1>2
    <3>2. block.txEnd[t].deployed = {} /\ indexer.pools = {}
      BY <1>2, <2>1, <3>1
    <3> QED  BY <2>2, <3>2
  <2>4. chain = block.txEnd[block.tx]
    BY <1>1, <1>2, <2>1
  <2>5. Len(block.events) = 0 /\ chain.used = {} /\ phase = "mine" /\ stores.pools = indexer.pools
    BY <1>2
  <2> QED  BY <2>1, <2>3, <2>4, <2>5 DEF VaultDeployedInv
<1>5. PICK h : h = [i \in 0..0 |-> [used |-> {}, net |-> [v \in Vault |-> 0]]]
  OBVIOUS
<1>6. PICK e : e = [t \in 0..MaxTxs |-> 0]
  OBVIOUS
<1>7. Len(block.events) = 0 /\ h[0] = [used |-> {}, net |-> [v \in Vault |-> 0]]
  BY <1>2, <1>5
<1>8. VaultHistory(h, block.events)
  BY <1>5, <1>7 DEF VaultHistory, VaultState
<1>9. Ends(e, block.events, block.tx)
  BY <1>1, <1>2, <1>6, EndsNew
<1>10. \A t \in 1..block.tx : /\ block.txEnd[t].used = h[e[t]].used
                              /\ block.txEnd[t].net = h[e[t]].net
  <2>1. \A t \in 1..block.tx : t = 1 /\ t \in 1..MaxTxs /\ t \in 0..MaxTxs
    BY <1>1, <1>2
  <2>2. \A t \in 1..MaxTxs : block.txEnd[t] = chain
    BY <1>2
  <2>3. \A t \in 0..MaxTxs : e[t] = 0
    BY <1>6
  <2>4. chain.used = h[0].used /\ chain.net = h[0].net
    BY <1>2, <1>7
  <2> QED  BY <2>1, <2>2, <2>3, <2>4
<1>11. \A v \in Vault : /\ v \notin h[0].used /\ indexer.entrypoints[v] = 0
                         /\ indexer.balance[v] = Vaults!Clipped(h[0].net[v])
  BY <1>2, <1>7 DEF Vaults!Clipped
<1>12. stores.first = h[0].used /\ stores.balance = h[0].net
  BY <1>2, <1>7
<1>13. VaultsAt(h, e)
  BY <1>2, <1>8, <1>9, <1>10, <1>11, <1>12 DEF VaultsAt
<1> QED  BY <1>2, <1>3, <1>4, <1>13 DEF VaultsInv, VaultMessageInv

(* A vault is deployed: nothing that the history says changes.             *)
LEMMA DeployKeeps == ASSUME VaultsInv, NEW v \in Vault, Vaults!Deploy(v) PROVE VaultsInv'
<1>1. MaxTxs \in Nat \ {0}
  BY VaultConstants
<1>2. PICK h, e : VaultsAt(h, e)
  BY DEF VaultsInv
<1>3. PICK t0 \in 1..MaxTxs : t0 = block.tx
  BY DEF VaultsInv, VaultTypes
<1>4. /\ phase = "mine" /\ phase' = "mine" /\ UNCHANGED <<stores, deltas, message, indexer>>
      /\ chain' = [chain EXCEPT !.deployed = @ \cup {v}]
      /\ block' = [block EXCEPT !.new[t0] = @ \cup {v}, !.txEnd[t0] = chain']
  BY <1>3 DEF Vaults!Deploy
<1>5. /\ chain'.deployed = chain.deployed \cup {v} /\ chain'.used = chain.used
      /\ chain'.net = chain.net
      /\ chain' \in [deployed : SUBSET Vault, used : SUBSET Vault, net : [Vault -> Int]]
  BY <1>4 DEF VaultsInv, VaultTypes
<1>6. /\ block'.tx = t0 /\ block'.events = block.events
      /\ block'.new = [block.new EXCEPT ![t0] = @ \cup {v}]
      /\ block'.txEnd = [block.txEnd EXCEPT ![t0] = chain']
      /\ block' \in [tx : 1..MaxTxs, new : [1..MaxTxs -> SUBSET Vault], events : Seq(VaultEvent),
                     txEnd : [1..MaxTxs -> [deployed : SUBSET Vault, used : SUBSET Vault,
                                            net : [Vault -> Int]]]]
  <2> DEFINE News == [1..MaxTxs -> SUBSET Vault]
             TxEnds == [1..MaxTxs -> [deployed : SUBSET Vault, used : SUBSET Vault,
                                      net : [Vault -> Int]]]
  <2>1. block \in [tx : 1..MaxTxs, new : News, events : Seq(VaultEvent), txEnd : TxEnds]
    BY DEF VaultsInv, VaultTypes
  <2>2. block.new \in News /\ block.txEnd \in TxEnds
    BY <2>1
  <2>3. PICK new : new = [block.new EXCEPT ![t0] = @ \cup {v}]
    OBVIOUS
  <2>4. PICK ends : ends = [block.txEnd EXCEPT ![t0] = chain']
    OBVIOUS
  <2>5. new \in News /\ ends \in TxEnds
    BY <1>3, <1>5, <2>2, <2>3, <2>4
  <2>6. block' = [block EXCEPT !.new = new, !.txEnd = ends]
    BY <1>4, <2>3, <2>4
  <2> HIDE DEF News, TxEnds
  <2>7. block'.tx = t0 /\ block'.events = block.events /\ block'.new = new
        /\ block'.txEnd = ends
        /\ block' \in [tx : 1..MaxTxs, new : News, events : Seq(VaultEvent), txEnd : TxEnds]
    BY <1>3, <2>1, <2>5, <2>6
  <2> QED  BY <2>3, <2>4, <2>7 DEF News, TxEnds
<1>7. VaultTypes'
  BY <1>4, <1>5, <1>6 DEF VaultsInv, VaultTypes
<1>8. /\ \A t \in 1..MaxTxs : /\ t # t0 => block'.new[t] = block.new[t]
                              /\ t # t0 => block'.txEnd[t] = block.txEnd[t]
      /\ block'.new[t0] = block.new[t0] \cup {v} /\ block'.txEnd[t0] = chain'
  BY <1>6 DEF VaultsInv, VaultTypes
<1>9. VaultDeployedInv'
  <2>1. chain = block.txEnd[t0]
        /\ block.txEnd[t0].deployed = indexer.pools \cup Gathered(block.new, 1..t0)
    BY <1>3 DEF VaultsInv, VaultDeployedInv
  <2>2. Gathered(block'.new, 1..t0) = Gathered(block.new, 1..t0) \cup {v}
    <3>1. t0 \in 1..t0 /\ \A u \in 1..t0 : u \in 1..MaxTxs
      BY <1>1, <1>3
    <3>2. \A u \in 1..t0 : u # t0 => block'.new[u] = block.new[u]
      BY <1>8, <3>1
    <3>3. block'.new[t0] = block.new[t0] \cup {v}
      BY <1>8
    <3>4. PICK f : f = block.new
      OBVIOUS
    <3>5. PICK g : g = block'.new
      OBVIOUS
    <3>6. PICK S, V, k : S = 1..t0 /\ V = {v} /\ k = t0
      OBVIOUS
    <3>7. k \in S /\ g[k] = f[k] \cup V
      BY <3>1, <3>3, <3>4, <3>5, <3>6
    <3>8. \A u \in S : u # k => g[u] = f[u]
      BY <3>2, <3>4, <3>5, <3>6
    <3>9. Gathered(g, S) = Gathered(f, S) \cup V
      BY <3>7, <3>8, GatheredGrows
    <3> QED  BY <3>4, <3>5, <3>6, <3>9
  <2>3. ASSUME NEW t \in 1..t0
        PROVE  block'.txEnd[t].deployed = indexer.pools \cup Gathered(block'.new, 1..t)
    <3>1. CASE t = t0
      <4>1. Gathered(block'.new, 1..t) = Gathered(block.new, 1..t0) \cup {v}
        BY <2>2, <3>1
      <4>2. block'.txEnd[t].deployed = block.txEnd[t0].deployed \cup {v}
        BY <1>5, <1>8, <2>1, <3>1
      <4>3. PICK U : U = Gathered(block.new, 1..t0)
        OBVIOUS
      <4>4. Gathered(block'.new, 1..t) = U \cup {v}
        BY <4>1, <4>3
      <4>5. block'.txEnd[t].deployed = indexer.pools \cup U \cup {v}
        BY <2>1, <4>2, <4>3
      <4> QED  BY <4>4, <4>5
    <3>2. CASE t # t0
      <4>1. \A u \in 1..t : u \in 1..MaxTxs /\ u # t0
        BY <1>1, <1>3, <3>2
      <4>2. block.txEnd[t].deployed = indexer.pools \cup Gathered(block.new, 1..t)
        BY <1>3 DEF VaultsInv, VaultDeployedInv
      <4>3. \A u \in 1..t : block'.new[u] = block.new[u]
        BY <1>8, <4>1
      <4>4. Gathered(block'.new, 1..t) = Gathered(block.new, 1..t)
        BY <4>3, GatheredSame
      <4>5. block'.txEnd[t] = block.txEnd[t]
        BY <1>1, <1>3, <1>8, <3>2
      <4> QED  BY <4>2, <4>4, <4>5
    <3> QED  BY <3>1, <3>2
  <2>4. \A t \in 1..MaxTxs : t > t0 => block'.new[t] = {}
    BY <1>3, <1>8 DEF VaultsInv, VaultDeployedInv
  <2>5. \A i \in 1..Len(block.events) : block.events[i].vault \in chain'.deployed
    BY <1>5 DEF VaultsInv, VaultDeployedInv
  <2>6. chain'.used \subseteq chain'.deployed /\ stores.pools = indexer.pools
    BY <1>4, <1>5 DEF VaultsInv, VaultDeployedInv
  <2>7. (\A t \in 1..MaxTxs : t > block.tx => block.new[t] = {})'
    BY <1>6, <2>4
  <2>8. (\A t \in 1..block.tx :
          block.txEnd[t].deployed = indexer.pools \cup Gathered(block.new, 1..t))'
    BY <1>4, <1>6, <2>3
  <2> QED  BY <1>4, <1>6, <1>8, <2>5, <2>6, <2>7, <2>8 DEF VaultDeployedInv
<1>10. VaultsAt(h, e)'
  <2>1. ASSUME NEW t \in 1..t0
        PROVE  block'.txEnd[t].used = h[e[t]].used /\ block'.txEnd[t].net = h[e[t]].net
    <3>1. block.txEnd[t].used = h[e[t]].used /\ block.txEnd[t].net = h[e[t]].net
      BY <1>2, <1>3 DEF VaultsAt
    <3>2. chain = block.txEnd[t0]
      BY <1>3 DEF VaultsInv, VaultDeployedInv
    <3>3. t \in 1..MaxTxs
      BY <1>1, <1>3
    <3> QED  BY <1>5, <1>8, <3>1, <3>2, <3>3
  <2> QED  BY <1>2, <1>3, <1>4, <1>6, <2>1 DEF VaultsAt
<1> QED  BY <1>4, <1>7, <1>9, <1>10 DEF VaultsInv, VaultMessageInv

(* A deposit or a withdrawal is the next step of the history.              *)
LEMMA MoveKeeps ==
    ASSUME VaultsInv, NEW v \in Vault, NEW kind \in {"Deposit", "Withdraw"},
           NEW assets \in Assets, Vaults!Move(v, kind, assets)
    PROVE  VaultsInv'
<1>1. MaxTxs \in Nat \ {0} /\ assets \in Nat
  BY VaultConstants
<1>2. PICK h, e : VaultsAt(h, e)
  BY DEF VaultsInv
<1>3. PICK t0 \in 1..MaxTxs : t0 = block.tx
  BY DEF VaultsInv, VaultTypes
<1>4. PICK ev : ev = [tx |-> t0, kind |-> kind, vault |-> v, assets |-> assets]
  OBVIOUS
<1>5. ev \in VaultEvent /\ ev.tx = t0 /\ ev.vault = v /\ Worth(ev) \in Int
  BY <1>1, <1>3, <1>4 DEF VaultEvent, Worth
<1>6. /\ phase = "mine" /\ phase' = "mine" /\ UNCHANGED <<stores, deltas, message, indexer>>
      /\ v \in chain.deployed
      /\ chain' = [chain EXCEPT !.used = @ \cup {v},
                                !.net[v] = IF kind = "Deposit" THEN @ + assets ELSE @ - assets]
      /\ block' = [block EXCEPT !.events = Append(@, ev), !.txEnd[t0] = chain']
  BY <1>3, <1>4 DEF Vaults!Move
<1>7. /\ chain'.deployed = chain.deployed /\ chain'.used = chain.used \cup {v}
      /\ chain'.net[v] = chain.net[v] + Worth(ev)
      /\ \A w \in Vault : w # v => chain'.net[w] = chain.net[w]
      /\ chain' \in [deployed : SUBSET Vault, used : SUBSET Vault, net : [Vault -> Int]]
  <2>1. chain \in [deployed : SUBSET Vault, used : SUBSET Vault, net : [Vault -> Int]]
    BY DEF VaultsInv, VaultTypes
  <2>2. chain.net \in [Vault -> Int] /\ chain.net[v] \in Int
    BY <2>1
  <2>3. PICK x \in Int : x = IF kind = "Deposit" THEN chain.net[v] + assets
                             ELSE chain.net[v] - assets
    BY <1>1, <2>2
  <2>4. x = chain.net[v] + Worth(ev)
    BY <1>1, <1>4, <2>2, <2>3 DEF Worth
  <2>5. PICK net : net = [chain.net EXCEPT ![v] = x]
    OBVIOUS
  <2>6. /\ net \in [Vault -> Int] /\ net[v] = x
        /\ \A w \in Vault : w # v => net[w] = chain.net[w]
    BY <2>2, <2>3, <2>5
  <2>7. chain' = [chain EXCEPT !.used = @ \cup {v}, !.net = net]
    BY <1>6, <2>3, <2>5
  <2>8. chain'.deployed = chain.deployed /\ chain'.used = chain.used \cup {v} /\ chain'.net = net
        /\ chain' \in [deployed : SUBSET Vault, used : SUBSET Vault, net : [Vault -> Int]]
    BY <2>1, <2>6, <2>7
  <2> QED  BY <2>4, <2>6, <2>8
<1>8. /\ block'.tx = t0 /\ block'.events = Append(block.events, ev)
      /\ block'.new = block.new
      /\ block'.txEnd = [block.txEnd EXCEPT ![t0] = chain']
      /\ block' \in [tx : 1..MaxTxs, new : [1..MaxTxs -> SUBSET Vault], events : Seq(VaultEvent),
                     txEnd : [1..MaxTxs -> [deployed : SUBSET Vault, used : SUBSET Vault,
                                            net : [Vault -> Int]]]]
  <2> DEFINE News == [1..MaxTxs -> SUBSET Vault]
             TxEnds == [1..MaxTxs -> [deployed : SUBSET Vault, used : SUBSET Vault,
                                      net : [Vault -> Int]]]
  <2>1. block \in [tx : 1..MaxTxs, new : News, events : Seq(VaultEvent), txEnd : TxEnds]
    BY DEF VaultsInv, VaultTypes
  <2>2. block.events \in Seq(VaultEvent) /\ block.txEnd \in TxEnds
    BY <2>1
  <2>3. PICK evs : evs = Append(block.events, ev)
    OBVIOUS
  <2>4. PICK ends : ends = [block.txEnd EXCEPT ![t0] = chain']
    OBVIOUS
  <2>5. evs \in Seq(VaultEvent) /\ ends \in TxEnds
    BY <1>3, <1>5, <1>7, <2>2, <2>3, <2>4
  <2>6. block' = [block EXCEPT !.events = evs, !.txEnd = ends]
    BY <1>6, <2>3, <2>4
  <2> HIDE DEF News, TxEnds
  <2>7. block'.tx = t0 /\ block'.events = evs /\ block'.new = block.new
        /\ block'.txEnd = ends
        /\ block' \in [tx : 1..MaxTxs, new : News, events : Seq(VaultEvent), txEnd : TxEnds]
    BY <1>3, <2>1, <2>5, <2>6
  <2> QED  BY <2>3, <2>4, <2>7 DEF News, TxEnds
<1>9. VaultTypes'
  BY <1>6, <1>7, <1>8 DEF VaultsInv, VaultTypes
<1>10. /\ \A t \in 1..MaxTxs : t # t0 => block'.txEnd[t] = block.txEnd[t]
       /\ block'.txEnd[t0] = chain'
  BY <1>8 DEF VaultsInv, VaultTypes
<1>11. PICK n \in Nat : n = Len(block.events)
  BY DEF VaultsInv, VaultTypes
<1>12. /\ Len(block'.events) = n + 1 /\ block'.events[n + 1] = ev
       /\ \A i \in 1..n : block'.events[i] = block.events[i]
       /\ block.events \in Seq(VaultEvent)
  BY <1>8, <1>11 DEF VaultsInv, VaultTypes
<1>13. VaultDeployedInv'
  <2>1. ASSUME NEW t \in 1..t0
        PROVE  block'.txEnd[t].deployed = indexer.pools \cup Gathered(block.new, 1..t)
    <3>1. block.txEnd[t].deployed = indexer.pools \cup Gathered(block.new, 1..t)
      BY <1>3 DEF VaultsInv, VaultDeployedInv
    <3>2. block'.txEnd[t].deployed = block.txEnd[t].deployed
      BY <1>1, <1>3, <1>7, <1>10 DEF VaultsInv, VaultDeployedInv
    <3> QED  BY <3>1, <3>2
  <2>2. ASSUME NEW i \in 1..n + 1 PROVE block'.events[i].vault \in chain'.deployed
    <3>1. \A j \in 1..n : block.events[j].vault \in chain.deployed
      BY <1>11 DEF VaultsInv, VaultDeployedInv
    <3>2. CASE i = n + 1
      BY <1>5, <1>6, <1>7, <1>12, <3>2
    <3>3. CASE i # n + 1
      <4>1. i \in 1..n
        BY <1>11, <3>3
      <4> QED  BY <1>7, <1>12, <3>1, <4>1
    <3> QED  BY <3>2, <3>3
  <2>3. chain'.used \subseteq chain'.deployed /\ stores.pools = indexer.pools
    BY <1>6, <1>7 DEF VaultsInv, VaultDeployedInv
  <2>4. \A t \in 1..MaxTxs : t > t0 => block.new[t] = {}
    BY <1>3 DEF VaultsInv, VaultDeployedInv
  <2>5. (\A t \in 1..block.tx :
          block.txEnd[t].deployed = indexer.pools \cup Gathered(block.new, 1..t))'
    BY <1>6, <1>8, <2>1
  <2> QED  BY <1>6, <1>8, <1>10, <1>12, <2>2, <2>3, <2>4, <2>5 DEF VaultDeployedInv
<1>14. PICK h2 : h2 = [i \in 0..n + 1 |-> IF i <= n THEN h[i]
                                          ELSE [used |-> chain'.used, net |-> chain'.net]]
  OBVIOUS
<1>15. PICK e2 : e2 = EndsWith(e, t0, n + 1)
  OBVIOUS
<1>16. /\ h \in [0..n -> VaultState] /\ Ends(e, block.events, t0) /\ e[t0] = n
       /\ h[n].used = chain.used /\ h[n].net = chain.net
  <2>1. Ends(e, block.events, t0) /\ h \in [0..n -> VaultState]
    BY <1>2, <1>3, <1>11 DEF VaultsAt, VaultHistory
  <2>2. e[t0] = n
    BY <1>1, <1>11, <1>12, <2>1, EndsFacts
  <2>3. chain = block.txEnd[t0] /\ t0 \in 1..t0
    BY <1>3 DEF VaultsInv, VaultDeployedInv
  <2>4. block.txEnd[t0].used = h[e[t0]].used /\ block.txEnd[t0].net = h[e[t0]].net
    BY <1>2, <1>3, <2>3 DEF VaultsAt
  <2> QED  BY <2>1, <2>2, <2>3, <2>4
<1>17. /\ \A i \in 0..n : h2[i] = h[i]
       /\ h2[n + 1] = [used |-> chain'.used, net |-> chain'.net]
       /\ h2[n + 1] \in VaultState /\ h2 \in [0..n + 1 -> VaultState]
  <2>a. \A i \in 0..n : h2[i] = h[i]
    BY <1>11, <1>14
  <2>b. \A i \in 0..n : h[i] \in VaultState
    BY <1>16
  <2>1. \A i \in 0..n : h2[i] = h[i] /\ h[i] \in VaultState
    BY <2>a, <2>b
  <2>2. h2[n + 1] = [used |-> chain'.used, net |-> chain'.net]
    BY <1>11, <1>14
  <2>3. h2[n + 1] \in VaultState
    BY <1>7, <2>2 DEF VaultState
  <2>4. \A i \in 0..n + 1 : h2[i] \in VaultState
    BY <2>1, <2>3
  <2> QED  BY <1>14, <2>1, <2>2, <2>3, <2>4
<1>18. VaultHistory(h2, block'.events)
  <2>1. ASSUME NEW i \in 1..n + 1
        PROVE  LET x == block'.events[i]
               IN  /\ h2[i].used = h2[i - 1].used \cup {x.vault}
                   /\ h2[i].net[x.vault] = h2[i - 1].net[x.vault] + Worth(x)
                   /\ \A w \in Vault : w # x.vault => h2[i].net[w] = h2[i - 1].net[w]
    <3>1. CASE i = n + 1
      <4>1. i - 1 = n /\ n \in 0..n
        BY <1>11, <3>1
      <4>2. h2[i - 1] = h[n] /\ block'.events[i] = ev
        BY <1>12, <1>17, <3>1, <4>1
      <4>3. h2[i].used = chain'.used /\ h2[i].net = chain'.net
        BY <1>17, <3>1
      <4> QED  BY <1>5, <1>7, <1>16, <4>2, <4>3
    <3>2. CASE i # n + 1
      <4>1. i \in 1..n /\ i \in 0..n /\ i - 1 \in 0..n
        BY <1>11, <3>2
      <4>2. h2[i] = h[i] /\ h2[i - 1] = h[i - 1] /\ block'.events[i] = block.events[i]
        BY <1>12, <1>17, <4>1
      <4> QED  BY <1>2, <1>11, <4>1, <4>2, SMTT(40) DEF VaultsAt, VaultHistory
    <3> QED  BY <3>1, <3>2
  <2> QED  BY <1>12, <1>17, <2>1 DEF VaultHistory
<1>19. Ends(e2, block'.events, t0) /\ \A t \in 0..MaxTxs : t < t0 => e2[t] = e[t]
  <2>1. PICK evs : evs = block.events
    OBVIOUS
  <2>2. PICK evs2 : evs2 = block'.events
    OBVIOUS
  <2>3. PICK l : l = t0
    OBVIOUS
  <2>4. l \in 1..MaxTxs /\ evs \in Seq(VaultEvent) /\ Ends(e, evs, l) /\ ev.tx = l
    BY <1>3, <1>5, <1>12, <1>16, <2>1, <2>3
  <2>5. evs2 = Append(evs, ev)
    BY <1>8, <2>1, <2>2
  <2>6. e2 = EndsWith(e, l, Len(evs) + 1)
    BY <1>11, <1>15, <2>1, <2>3
  <2>7. Ends(e2, evs2, l)
    BY <1>1, <2>4, <2>5, <2>6, EndsAppend
  <2>8. \A t \in 0..MaxTxs : t < t0 => e2[t] = e[t]
    BY <1>3, <1>15 DEF EndsWith
  <2> QED  BY <2>2, <2>3, <2>7, <2>8
<1>20. ASSUME NEW t \in 1..t0
       PROVE  block'.txEnd[t].used = h2[e2[t]].used /\ block'.txEnd[t].net = h2[e2[t]].net
  <2>1. CASE t = t0
    <3>1. e2[t] = n + 1
      BY <1>3, <1>15, <2>1 DEF EndsWith
    <3> QED  BY <1>10, <1>17, <2>1, <3>1
  <2>2. CASE t # t0
    <3>1. t \in 0..MaxTxs /\ t \in 1..MaxTxs /\ t < t0
      BY <1>1, <1>3, <2>2
    <3>2. e2[t] = e[t] /\ block'.txEnd[t] = block.txEnd[t]
      BY <1>10, <1>19, <2>2, <3>1
    <3>3. e[t] \in 0..n
      BY <1>1, <1>11, <1>12, <1>16, <3>1, EndsFacts
    <3>4. h2[e2[t]] = h[e[t]]
      BY <1>17, <3>2, <3>3
    <3>5. block.txEnd[t].used = h[e[t]].used /\ block.txEnd[t].net = h[e[t]].net
      BY <1>2, <1>3 DEF VaultsAt
    <3> QED  BY <3>2, <3>4, <3>5
  <2> QED  BY <2>1, <2>2
<1>21. h2[0] = h[0]
  BY <1>11, <1>17
<1>22. VaultsAt(h2, e2)'
  <2>1. Ends(e2, block'.events, block'.tx) /\ VaultHistory(h2, block'.events)
    BY <1>8, <1>18, <1>19
  <2>2. \A t \in 1..block'.tx : /\ block'.txEnd[t].used = h2[e2[t]].used
                                /\ block'.txEnd[t].net = h2[e2[t]].net
    BY <1>8, <1>20
  <2>3. /\ \A w \in Vault :
              /\ w \in h[0].used => indexer.entrypoints[w] = 1
              /\ w \notin h[0].used => indexer.entrypoints[w] = 0
              /\ indexer.balance[w] = Vaults!Clipped(h[0].net[w])
        /\ stores.first = h[0].used /\ stores.balance = h[0].net
    BY <1>2, <1>6 DEF VaultsAt
  <2>4. /\ \A w \in Vault :
              /\ w \in h2[0].used => indexer'.entrypoints[w] = 1
              /\ w \notin h2[0].used => indexer'.entrypoints[w] = 0
              /\ indexer'.balance[w] = Vaults!Clipped(h2[0].net[w])
        /\ stores'.first = h2[0].used /\ stores'.balance = h2[0].net
    BY <1>6, <1>21, <2>3
  <2>5. phase' # "store" /\ phase' # "map" /\ phase' # "apply"
    BY <1>6
  <2> QED  BY <2>1, <2>2, <2>4, <2>5 DEF VaultsAt
<1> QED  BY <1>6, <1>9, <1>13, <1>22 DEF VaultsInv, VaultMessageInv

LEMMA NextVaultTxKeeps == ASSUME VaultsInv, Vaults!NextTx PROVE VaultsInv'
<1>1. MaxTxs \in Nat \ {0}
  BY VaultConstants
<1>2. PICK h, e : VaultsAt(h, e)
  BY DEF VaultsInv
<1>3. PICK t0 \in 1..MaxTxs : t0 = block.tx
  BY DEF VaultsInv, VaultTypes
<1>4. /\ phase = "mine" /\ phase' = "mine"
      /\ UNCHANGED <<chain, stores, deltas, message, indexer>> /\ t0 < MaxTxs
      /\ block' = [block EXCEPT !.tx = t0 + 1, !.txEnd[t0 + 1] = chain]
  BY <1>3 DEF Vaults!NextTx
<1>5. t0 + 1 \in 1..MaxTxs
  BY <1>1, <1>3, <1>4
<1>6. /\ block'.tx = t0 + 1 /\ block'.events = block.events /\ block'.new = block.new
      /\ block'.txEnd = [block.txEnd EXCEPT ![t0 + 1] = chain]
      /\ block' \in [tx : 1..MaxTxs, new : [1..MaxTxs -> SUBSET Vault], events : Seq(VaultEvent),
                     txEnd : [1..MaxTxs -> [deployed : SUBSET Vault, used : SUBSET Vault,
                                            net : [Vault -> Int]]]]
  <2> DEFINE News == [1..MaxTxs -> SUBSET Vault]
             TxEnds == [1..MaxTxs -> [deployed : SUBSET Vault, used : SUBSET Vault,
                                      net : [Vault -> Int]]]
  <2>1. block \in [tx : 1..MaxTxs, new : News, events : Seq(VaultEvent), txEnd : TxEnds]
    BY DEF VaultsInv, VaultTypes
  <2>2. block.txEnd \in TxEnds
    BY <2>1
  <2>3. PICK ends : ends = [block.txEnd EXCEPT ![t0 + 1] = chain]
    OBVIOUS
  <2>4. ends \in TxEnds
    BY <1>5, <2>2, <2>3 DEF VaultsInv, VaultTypes
  <2>5. block' = [block EXCEPT !.tx = t0 + 1, !.txEnd = ends]
    BY <1>4, <2>3
  <2> HIDE DEF News, TxEnds
  <2>6. block'.tx = t0 + 1 /\ block'.events = block.events /\ block'.new = block.new
        /\ block'.txEnd = ends
        /\ block' \in [tx : 1..MaxTxs, new : News, events : Seq(VaultEvent), txEnd : TxEnds]
    BY <1>5, <2>1, <2>4, <2>5
  <2> QED  BY <2>3, <2>6 DEF News, TxEnds
<1>7. VaultTypes'
  BY <1>4, <1>6 DEF VaultsInv, VaultTypes
<1>8. /\ \A t \in 1..MaxTxs : t # t0 + 1 => block'.txEnd[t] = block.txEnd[t]
      /\ block'.txEnd[t0 + 1] = chain
  BY <1>5, <1>6 DEF VaultsInv, VaultTypes
<1>9. \A t \in 1..t0 + 1 : t # t0 + 1 => t \in 1..t0 /\ t \in 1..MaxTxs
  BY <1>1, <1>3
<1>10. VaultDeployedInv'
  <2>1. ASSUME NEW t \in 1..t0 + 1
        PROVE  block'.txEnd[t].deployed = indexer.pools \cup Gathered(block.new, 1..t)
    <3>1. CASE t = t0 + 1
      <4>1. chain.deployed = indexer.pools \cup Gathered(block.new, 1..t0)
        BY <1>1, <1>3 DEF VaultsInv, VaultDeployedInv
      <4>2. PICK f : f = block.new
        OBVIOUS
      <4>3. f[t0 + 1] = {}
        BY <1>3, <1>5, <4>2 DEF VaultsInv, VaultDeployedInv
      <4>4. PICK a, b : a = 1 /\ b = t0
        OBVIOUS
      <4>5. Gathered(f, a..b + 1) = Gathered(f, a..b) \cup f[b + 1]
        BY <1>3, <4>4, GatheredNext
      <4>6. Gathered(block.new, 1..t0 + 1) = Gathered(block.new, 1..t0)
        BY <4>2, <4>3, <4>4, <4>5
      <4> QED  BY <1>8, <3>1, <4>1, <4>6
    <3>2. CASE t # t0 + 1
      BY <1>3, <1>8, <1>9, <3>2 DEF VaultsInv, VaultDeployedInv
    <3> QED  BY <3>1, <3>2
  <2>2. \A t \in 1..MaxTxs : t > t0 + 1 => block.new[t] = {}
    BY <1>3 DEF VaultsInv, VaultDeployedInv
  <2>3. /\ chain.used \subseteq chain.deployed
        /\ \A i \in 1..Len(block.events) : block.events[i].vault \in chain.deployed
        /\ stores.pools = indexer.pools
    BY <1>4 DEF VaultsInv, VaultDeployedInv
  <2>4. (\A t \in 1..block.tx :
          block.txEnd[t].deployed = indexer.pools \cup Gathered(block.new, 1..t))'
    BY <1>4, <1>6, <2>1
  <2> QED  BY <1>4, <1>6, <1>8, <2>2, <2>3, <2>4 DEF VaultDeployedInv
<1>11. VaultsAt(h, e)'
  <2>1. Ends(e, block.events, t0) /\ block.events \in Seq(VaultEvent)
    BY <1>2, <1>3 DEF VaultsAt, VaultsInv, VaultTypes
  <2>2. Ends(e, block.events, t0 + 1)
    BY <1>1, <2>1, EndsNextTx
  <2>3. e[t0] = Len(block.events) /\ e[t0 + 1] = Len(block.events)
    BY <1>1, <1>5, <2>1, <2>2, EndsFacts
  <2>4. ASSUME NEW t \in 1..t0 + 1
        PROVE  block'.txEnd[t].used = h[e[t]].used /\ block'.txEnd[t].net = h[e[t]].net
    <3>1. \A u \in 1..t0 : /\ block.txEnd[u].used = h[e[u]].used
                           /\ block.txEnd[u].net = h[e[u]].net
      BY <1>2, <1>3 DEF VaultsAt
    <3>2. CASE t = t0 + 1
      <4>1. chain = block.txEnd[t0] /\ t0 \in 1..t0
        BY <1>3 DEF VaultsInv, VaultDeployedInv
      <4>2. chain.used = h[e[t0]].used /\ chain.net = h[e[t0]].net
        BY <3>1, <4>1
      <4> QED  BY <1>8, <2>3, <3>2, <4>2
    <3>3. CASE t # t0 + 1
      BY <1>8, <1>9, <3>1, <3>3
    <3> QED  BY <3>2, <3>3
  <2> QED  BY <1>2, <1>4, <1>6, <2>2, <2>4 DEF VaultsAt
<1> QED  BY <1>4, <1>7, <1>10, <1>11 DEF VaultsInv, VaultMessageInv

-----------------------------------------------------------------------------
LEMMA VaultSum ==
    ASSUME NEW kept, NEW ds, NEW key, NEW i
    PROVE  Vaults!SumAfter(kept, ds, key, i) = Summed(kept, ds, key)[i]
BY DEF Vaults!SumAfter, Summed, SumEq

(* All the events of the block are of vaults known by now.                 *)
UpToEq(f, evs, pools) ==
    f = [i \in 0..Len(evs) |->
            IF i = 0 THEN <<>>
            ELSE IF evs[i].vault \in pools THEN Append(f[i - 1], Vaults!Delta(evs[i]))
                 ELSE f[i - 1]]

LEMMA MapRelativeBalancesKeeps ==
    ASSUME VaultsInv, Vaults!MapRelativeBalances PROVE VaultsInv'
<1>1. MaxTxs \in Nat \ {0}
  BY VaultConstants
<1>2. PICK h, e : VaultsAt(h, e)
  BY DEF VaultsInv
<1>3. PICK t0 \in 1..MaxTxs : t0 = block.tx
  BY DEF VaultsInv, VaultTypes
<1>4. PICK evs : evs = block.events
  OBVIOUS
<1>5. PICK n \in Nat : n = Len(evs)
  BY <1>4 DEF VaultsInv, VaultTypes
<1>6. evs \in Seq(VaultEvent) /\ DOMAIN evs = 1..n
  BY <1>4, <1>5 DEF VaultsInv, VaultTypes
<1>7. PICK pools : pools = stores.pools \cup UNION {Vaults!NewVaults(t) : t \in Vaults!Tx}
  OBVIOUS
<1>8. /\ phase = "mine" /\ phase' = "store" /\ UNCHANGED <<chain, block, message, indexer>>
      /\ stores' = [stores EXCEPT !.pools = pools]
      /\ deltas' = [balances |-> (CHOOSE f : UpToEq(f, evs, pools))[n], first |-> {}]
  BY <1>4, <1>5, <1>7 DEF Vaults!MapRelativeBalances, UpToEq
<1>9. pools = chain.deployed
  <2>1. UNION {Vaults!NewVaults(t) : t \in Vaults!Tx} = Gathered(block.new, 1..MaxTxs)
    BY DEF Vaults!NewVaults, Vaults!Tx, Gathered
  <2>2. Gathered(block.new, 1..MaxTxs) = Gathered(block.new, 1..t0)
    <3>1. \A t \in 1..MaxTxs : t > t0 => block.new[t] = {}
      BY <1>3 DEF VaultsInv, VaultDeployedInv
    <3>2. \A t \in 1..t0 : t \in 1..MaxTxs
      BY <1>1, <1>3
    <3>3. \A t \in 1..MaxTxs : t > t0 \/ t \in 1..t0
      BY <1>1, <1>3
    <3>4. PICK f, S, T : f = block.new /\ S = 1..MaxTxs /\ T = 1..t0
      OBVIOUS
    <3>5. T \subseteq S /\ \A t \in S : t \notin T => f[t] = {}
      BY <3>1, <3>2, <3>3, <3>4
    <3> QED  BY <3>4, <3>5, GatheredTrim
  <2>3. /\ chain = block.txEnd[t0] /\ stores.pools = indexer.pools /\ t0 \in 1..t0
        /\ \A t \in 1..t0 :
              block.txEnd[t].deployed = indexer.pools \cup Gathered(block.new, 1..t)
    BY <1>3, <1>8 DEF VaultsInv, VaultDeployedInv
  <2> QED  BY <1>7, <2>1, <2>2, <2>3
<1>10. \A i \in 1..n : evs[i].vault \in pools
  BY <1>4, <1>5, <1>9 DEF VaultsInv, VaultDeployedInv
<1>11. deltas' = [balances |-> [i \in 1..n |-> Vaults!Delta(evs[i])], first |-> {}]
  <2>1. PICK x : x = [i \in 1..n |-> Vaults!Delta(evs[i])]
    OBVIOUS
  <2>2. PICK c : c = CHOOSE f : UpToEq(f, evs, pools)
    OBVIOUS
  <2>3. UpToEq([i \in 0..n |-> [j \in 1..i |-> x[j]]], evs, pools)
    <3>1. PICK g : g = [i \in 0..n |-> [j \in 1..i |-> x[j]]]
      OBVIOUS
    <3>2. ASSUME NEW i \in 1..n PROVE g[i] = Append(g[i - 1], Vaults!Delta(evs[i]))
      <4>1. PICK m \in Nat : m = i - 1 /\ m \in 0..n /\ i \in 0..n /\ i = m + 1
        OBVIOUS
      <4>2. PICK k : k = [j \in 1..m |-> x[j]]
        OBVIOUS
      <4>3. g[i - 1] = k /\ g[i] = [j \in 1..m + 1 |-> x[j]]
        BY <3>1, <4>1, <4>2
      <4>4. Len(k) = m /\ \A j \in 1..m : k[j] = x[j]
        BY <4>1, <4>2
      <4>5. Append(k, x[i]) = [j \in 1..m + 1 |-> IF j <= m THEN x[j] ELSE x[i]]
        BY <4>1, <4>4
      <4>6. [j \in 1..m + 1 |-> IF j <= m THEN x[j] ELSE x[i]] = [j \in 1..m + 1 |-> x[j]]
        BY <4>1
      <4>7. x[i] = Vaults!Delta(evs[i])
        BY <2>1
      <4> QED  BY <4>3, <4>5, <4>6, <4>7
    <3>3. ASSUME NEW i \in 0..n
          PROVE  g[i] = IF i = 0 THEN <<>>
                        ELSE IF evs[i].vault \in pools
                             THEN Append(g[i - 1], Vaults!Delta(evs[i])) ELSE g[i - 1]
      <4>1. CASE i = 0
        BY <3>1, <4>1
      <4>2. CASE i # 0
        <5>1. i \in 1..n
          BY <4>2
        <5> QED  BY <1>10, <3>2, <4>2, <5>1
      <4> QED  BY <4>1, <4>2
    <3>4. g = [i \in 0..n |-> IF i = 0 THEN <<>>
                              ELSE IF evs[i].vault \in pools
                                   THEN Append(g[i - 1], Vaults!Delta(evs[i])) ELSE g[i - 1]]
      <4>1. g = [i \in 0..n |-> g[i]]
        BY <3>1
      <4> QED  BY <3>3, <4>1
    <3> QED  BY <1>5, <3>1, <3>4 DEF UpToEq
  <2>4. UpToEq(c, evs, pools)
    BY <2>2, <2>3
  <2>5. AppendsAll(c, x, n)
    <3>1. c[0] = <<>>
      BY <1>5, <2>4 DEF UpToEq
    <3>2. ASSUME NEW i \in 1..n PROVE c[i] = Append(c[i - 1], x[i])
      <4>1. i \in 0..n /\ i # 0 /\ evs[i].vault \in pools /\ x[i] = Vaults!Delta(evs[i])
        BY <1>10, <2>1
      <4> QED  BY <1>5, <2>4, <4>1 DEF UpToEq
    <3> QED  BY <3>1, <3>2 DEF AppendsAll
  <2>6. c[n] = [i \in 1..n |-> x[i]]
    BY <1>5, <2>5, AllAppended
  <2>7. [i \in 1..n |-> x[i]] = x
    BY <2>1
  <2> QED  BY <1>8, <2>1, <2>2, <2>6, <2>7
<1>12. /\ stores'.pools = chain.deployed /\ stores'.first = stores.first
       /\ stores'.balance = stores.balance
       /\ stores' \in [pools : SUBSET Vault, first : SUBSET Vault, balance : [Vault -> Int]]
  BY <1>8, <1>9 DEF VaultsInv, VaultTypes
<1>13. VaultTypes'
  BY <1>8, <1>12 DEF VaultsInv, VaultTypes
<1>14. VaultDeployedInv'
  BY <1>8, <1>12 DEF VaultsInv, VaultDeployedInv
<1>15. VaultsAt(h, e)'
  <2>1. stores.first = h[0].used /\ stores.balance = h[0].net
    BY <1>2, <1>8 DEF VaultsAt
  <2> QED  BY <1>2, <1>4, <1>5, <1>8, <1>11, <1>12, <2>1 DEF VaultsAt
<1> QED  BY <1>8, <1>13, <1>14, <1>15 DEF VaultsInv, VaultMessageInv

(* The stores follow the history to its end.                               *)
LEMMA StoreVaultsKeeps == ASSUME VaultsInv, Vaults!Store PROVE VaultsInv'
<1>1. PICK h, e : VaultsAt(h, e)
  BY DEF VaultsInv
<1>2. PICK evs : evs = block.events
  OBVIOUS
<1>3. PICK n \in Nat : n = Len(evs)
  BY <1>2 DEF VaultsInv, VaultTypes
<1>4. evs \in Seq(VaultEvent) /\ DOMAIN evs = 1..n
      /\ \A i \in 1..n : evs[i] \in VaultEvent /\ evs[i].vault \in Vault /\ Worth(evs[i]) \in Int
  <2>1. evs \in Seq(VaultEvent) /\ DOMAIN evs = 1..n
    BY <1>2, <1>3 DEF VaultsInv, VaultTypes
  <2>2. \A i \in 1..n : evs[i] \in VaultEvent
    BY <2>1
  <2> QED  BY <2>1, <2>2 DEF VaultEvent, Worth
<1>5. PICK ds : ds = [i \in 1..n |-> Vaults!Delta(evs[i])]
  OBVIOUS
<1>6. /\ Len(ds) = n /\ DOMAIN ds = 1..n
      /\ \A i \in 1..n : ds[i].key = evs[i].vault /\ ds[i].tx = evs[i].tx
                         /\ ds[i].delta = Worth(evs[i])
  BY <1>5 DEF Vaults!Delta, Worth
<1>7. phase = "store" /\ deltas = [balances |-> ds, first |-> {}]
  BY <1>1, <1>2, <1>3, <1>5 DEF VaultsAt, Vaults!Store
<1>8. /\ h \in [0..n -> VaultState] /\ VaultHistory(h, evs)
      /\ stores.first = h[0].used /\ stores.balance = h[0].net
      /\ \A i \in 0..n : h[i].net \in [Vault -> Int] /\ h[i].used \subseteq Vault
  <2>1. /\ h \in [0..n -> VaultState] /\ VaultHistory(h, evs)
        /\ stores.first = h[0].used /\ stores.balance = h[0].net
    BY <1>1, <1>2, <1>3, <1>7 DEF VaultsAt, VaultHistory
  <2> QED  BY <2>1 DEF VaultState
<1>9. PICK touched : touched = {ds[i].key : i \in DOMAIN ds}
  OBVIOUS
<1>10. /\ stores' = [stores EXCEPT !.balance = Vaults!StoreBalanceChanges(@, ds),
                                   !.first = @ \cup touched]
       /\ deltas' = [balances |-> Vaults!WithNewValues(stores.balance, ds),
                     first |-> touched \ stores.first]
       /\ phase' = "map" /\ UNCHANGED <<chain, block, message, indexer>>
  BY <1>7, <1>9 DEF Vaults!Store
<1>11. h[n].used = h[0].used \cup touched
  <2>1. PICK f : f = [i \in 0..n |-> h[i].used]
    OBVIOUS
  <2>2. PICK new : new = [i \in 1..n |-> {evs[i].vault}]
    OBVIOUS
  <2>3. \A i \in 0 + 1..n : f[i] = f[i - 1] \cup new[i]
    <3> TAKE i \in 0 + 1..n
    <3>1. i \in 1..n /\ i \in 0..n /\ i - 1 \in 0..n
      OBVIOUS
    <3> QED  BY <1>3, <1>8, <2>1, <2>2, <3>1 DEF VaultHistory
  <2>4. f[n] = f[0] \cup Gathered(new, 0 + 1..n)
    <3>1. PICK a, b : a = 0 /\ b = n
      OBVIOUS
    <3>2. a \in Nat /\ b \in Nat /\ a <= b /\ Adds(f, new, a, b)
      BY <1>3, <2>3, <3>1 DEF Adds
    <3>3. f[b] = f[a] \cup Gathered(new, a + 1..b)
      BY <3>2, Accumulated
    <3> QED  BY <3>1, <3>3
  <2>5. Gathered(new, 0 + 1..n) = touched
    <3>0. PICK S : S = 1..n /\ S = 0 + 1..n
      OBVIOUS
    <3>a. \A i \in S : new[i] = {evs[i].vault}
      BY <2>2, <3>0
    <3>b. \A x : x \in Gathered(new, S) <=> \E i \in S : x \in new[i]
      BY GatheredIs
    <3>c. \A x : x \in Gathered(new, S) <=> \E i \in S : x = evs[i].vault
      BY <3>a, <3>b
    <3>1. \A x : x \in Gathered(new, 0 + 1..n) <=> \E i \in 1..n : x = evs[i].vault
      BY <3>0, <3>c
    <3>2. \A x : x \in touched <=> \E i \in 1..n : x = evs[i].vault
      BY <1>6, <1>9
    <3> QED  BY <3>1, <3>2
  <2> QED  BY <1>3, <2>1, <2>4, <2>5
<1>12. ASSUME NEW v \in Vault, NEW i \in 0..n
       PROVE  Vaults!SumAfter(stores.balance, ds, v, i) = h[i].net[v]
  <2>1. PICK f : f = [j \in 0..n |-> h[j].net[v]]
    OBVIOUS
  <2>2. \A j \in 1..n : /\ ds[j].key = v => f[j] = f[j - 1] + ds[j].delta
                        /\ ds[j].key # v => f[j] = f[j - 1]
    <3> TAKE j \in 1..n
    <3>1. j \in 0..n /\ j - 1 \in 0..n
      OBVIOUS
    <3>2. f[j] = h[j].net[v] /\ f[j - 1] = h[j - 1].net[v]
      BY <2>1, <3>1
    <3>3. ds[j].key = evs[j].vault /\ ds[j].delta = Worth(evs[j])
      BY <1>6
    <3>4. /\ h[j].net[evs[j].vault] = h[j - 1].net[evs[j].vault] + Worth(evs[j])
          /\ v # evs[j].vault => h[j].net[v] = h[j - 1].net[v]
      BY <1>3, <1>8 DEF VaultHistory
    <3> QED  BY <3>2, <3>3, <3>4
  <2>3. PICK kept : kept = stores.balance
    OBVIOUS
  <2>4. f[0] = kept[v]
    BY <1>8, <2>1, <2>3
  <2>a. IsSum(f, kept, ds, v)
    BY <1>6, <2>2, <2>4 DEF IsSum
  <2>5. \A j \in 0..n : Summed(kept, ds, v)[j] = f[j]
    BY <1>3, <1>6, <2>a, SummedIs
  <2>6. Vaults!SumAfter(kept, ds, v, i) = Summed(kept, ds, v)[i]
    BY VaultSum
  <2> QED  BY <2>1, <2>3, <2>5, <2>6
<1>13. Vaults!StoreBalanceChanges(stores.balance, ds) = h[n].net
  <2>1. DOMAIN stores.balance = Vault /\ n \in 0..n /\ h[n].net \in [Vault -> Int]
    BY <1>3, <1>8
  <2>2. Vaults!StoreBalanceChanges(stores.balance, ds)
            = [v \in Vault |-> Vaults!SumAfter(stores.balance, ds, v, n)]
    BY <1>6, <2>1 DEF Vaults!StoreBalanceChanges
  <2>3. \A v \in Vault : Vaults!SumAfter(stores.balance, ds, v, n) = h[n].net[v]
    BY <1>12, <2>1
  <2> QED  BY <2>1, <2>2, <2>3
<1>14. /\ stores'.pools = stores.pools /\ stores'.first = h[n].used
       /\ stores'.balance = h[n].net
       /\ stores' \in [pools : SUBSET Vault, first : SUBSET Vault, balance : [Vault -> Int]]
  <2>1. h[n].used \subseteq Vault /\ h[n].net \in [Vault -> Int]
    BY <1>3, <1>8
  <2>2. stores' = [stores EXCEPT !.balance = h[n].net, !.first = h[n].used]
    BY <1>8, <1>10, <1>11, <1>13
  <2> QED  BY <2>1, <2>2 DEF VaultsInv, VaultTypes
<1>15. deltas'.first = h[n].used \ h[0].used
  BY <1>8, <1>10, <1>11
<1>16. /\ DOMAIN deltas'.balances = 1..n
       /\ \A i \in 1..n : /\ deltas'.balances[i].key = evs[i].vault
                          /\ deltas'.balances[i].tx = evs[i].tx
                          /\ deltas'.balances[i].new_value = h[i].net[evs[i].vault]
  <2>1. PICK kept : kept = stores.balance
    OBVIOUS
  <2>2. deltas'.balances
            = [i \in 1..n |-> [key |-> ds[i].key, tx |-> ds[i].tx,
                               new_value |-> Vaults!SumAfter(kept, ds, ds[i].key, i)]]
    BY <1>6, <1>10, <2>1 DEF Vaults!WithNewValues
  <2>3. ASSUME NEW i \in 1..n
        PROVE  Vaults!SumAfter(kept, ds, ds[i].key, i) = h[i].net[evs[i].vault]
    BY <1>4, <1>6, <1>12, <2>1
  <2> QED  BY <1>6, <2>2, <2>3
<1>17. VaultTypes'
  BY <1>10, <1>14 DEF VaultsInv, VaultTypes
<1>18. VaultDeployedInv'
  BY <1>7, <1>10, <1>14 DEF VaultsInv, VaultDeployedInv
<1>19. VaultsAt(h, e)'
  <2>1. (/\ VaultHistory(h, block.events) /\ Ends(e, block.events, block.tx)
         /\ \A t \in 1..block.tx : /\ block.txEnd[t].used = h[e[t]].used
                                   /\ block.txEnd[t].net = h[e[t]].net
         /\ \A v \in Vault :
              /\ v \in h[0].used => indexer.entrypoints[v] = 1
              /\ v \notin h[0].used => indexer.entrypoints[v] = 0
              /\ indexer.balance[v] = Vaults!Clipped(h[0].net[v]))'
    BY <1>1, <1>10 DEF VaultsAt
  <2>2. phase' # "store" /\ phase' # "mine" /\ Len(block'.events) = n /\ block'.events = evs
    BY <1>2, <1>3, <1>10
  <2> QED  BY <1>14, <1>15, <1>16, <2>1, <2>2 DEF VaultsAt
<1> QED  BY <1>10, <1>17, <1>18, <1>19 DEF VaultsInv, VaultMessageInv

LEMMA MapVaultChangesKeeps == ASSUME VaultsInv, Vaults!MapProtocolChanges PROVE VaultsInv'
<1>1. /\ phase = "map" /\ phase' = "apply" /\ UNCHANGED <<chain, block, stores, deltas, indexer>>
      /\ message' = [t \in 1..block.tx |-> Vaults!TxChanges(t)]
  BY DEF Vaults!MapProtocolChanges
<1>2. PICK h, e : VaultsAt(h, e)
  BY DEF VaultsInv
<1>3. VaultTypes' /\ VaultDeployedInv'
  BY <1>1 DEF VaultsInv, VaultTypes, VaultDeployedInv
<1>4. VaultsAt(h, e)'
  BY <1>1, <1>2 DEF VaultsAt
<1>5. VaultMessageInv'
  <2>1. \A t : Vaults!TxChanges(t)' = Vaults!TxChanges(t)
    BY <1>1 DEF Vaults!TxChanges, Vaults!NewVaults, Vaults!AggregateBalancesChanges,
                Vaults!EntryPoints, Vaults!InteractionsOf, Vaults!NoChanges
  <2> QED  BY <1>1, <2>1 DEF VaultMessageInv
<1> QED  BY <1>3, <1>4, <1>5 DEF VaultsInv

-----------------------------------------------------------------------------
(* What happens to a vault between two points of the history.              *)
LEMMA NetBetween ==
    ASSUME NEW evs \in Seq(VaultEvent), NEW h, VaultHistory(h, evs), NEW v \in Vault,
           NEW a \in 0..Len(evs), NEW b \in 0..Len(evs), a <= b,
           \A i \in a + 1..b : evs[i].vault # v
    PROVE  h[b].net[v] = h[a].net[v]
<1>1. PICK n \in Nat : n = Len(evs)
  OBVIOUS
<1>2. PICK f : f = [i \in 0..n |-> h[i].net[v]]
  OBVIOUS
<1>3. a \in Nat /\ b \in Nat /\ a \in 0..n /\ b \in 0..n
  BY <1>1
<1>4. \A i \in a + 1..b : f[i] = f[i - 1]
  <2> TAKE i \in a + 1..b
  <2>1. i \in 1..n /\ i \in 0..n /\ i - 1 \in 0..n
    BY <1>1
  <2>2. f[i] = h[i].net[v] /\ f[i - 1] = h[i - 1].net[v]
    BY <1>2, <2>1
  <2> QED  BY <1>1, <2>1, <2>2 DEF VaultHistory
<1>5. f[b] = f[a]
  BY <1>3, <1>4, Unchanged
<1> QED  BY <1>2, <1>3, <1>5

LEMMA UsedBetween ==
    ASSUME NEW evs \in Seq(VaultEvent), NEW h, VaultHistory(h, evs), NEW v,
           NEW a \in 0..Len(evs), NEW b \in 0..Len(evs), a <= b
    PROVE  v \in h[b].used <=> v \in h[a].used \/ \E i \in a + 1..b : evs[i].vault = v
<1>1. PICK n \in Nat : n = Len(evs)
  OBVIOUS
<1>2. PICK f : f = [i \in 0..n |-> h[i].used]
  OBVIOUS
<1>3. PICK new : new = [i \in 1..n |-> {evs[i].vault}]
  OBVIOUS
<1>4. a \in Nat /\ b \in Nat /\ a \in 0..n /\ b \in 0..n
  BY <1>1
<1>5. \A i \in a + 1..b : f[i] = f[i - 1] \cup new[i] /\ new[i] = {evs[i].vault}
  <2> TAKE i \in a + 1..b
  <2>1. i \in 1..n /\ i \in 0..n /\ i - 1 \in 0..n
    BY <1>1
  <2>2. f[i] = h[i].used /\ f[i - 1] = h[i - 1].used /\ new[i] = {evs[i].vault}
    BY <1>2, <1>3, <2>1
  <2> QED  BY <1>1, <2>1, <2>2 DEF VaultHistory
<1>6. f[b] = f[a] \cup Gathered(new, a + 1..b)
  <2>1. PICK x, y : x = a /\ y = b
    OBVIOUS
  <2>2. x \in Nat /\ y \in Nat /\ x <= y /\ Adds(f, new, x, y)
    BY <1>4, <1>5, <2>1 DEF Adds
  <2>4. f[y] = f[x] \cup Gathered(new, x + 1..y)
    BY <2>2, Accumulated
  <2> QED  BY <2>1, <2>4
<1>7. PICK S : S = a + 1..b
  OBVIOUS
<1>8. v \in Gathered(new, S) <=> \E i \in S : v \in new[i]
  BY GatheredIs
<1>9. v \in Gathered(new, a + 1..b) <=> \E i \in a + 1..b : evs[i].vault = v
  BY <1>5, <1>7, <1>8
<1> QED  BY <1>2, <1>4, <1>6, <1>9

(* A vault once used stays so.                                             *)
LEMMA UsedStays ==
    ASSUME NEW evs \in Seq(VaultEvent), NEW h, VaultHistory(h, evs),
           NEW a \in 0..Len(evs), NEW b \in 0..Len(evs), a <= b
    PROVE  h[a].used \subseteq h[b].used
<1> SUFFICES ASSUME NEW v, v \in h[a].used PROVE v \in h[b].used
  OBVIOUS
<1> QED  BY UsedBetween

(* What a transaction of the message says, by the history.                 *)
VaultsSaid(h, e, t, said) ==
    /\ said.components = block.new[t]
    /\ \A v \in Vault :
          /\ v \in DOMAIN said.balances => said.balances[v] = Vaults!Clipped(h[e[t]].net[v])
          /\ v \notin DOMAIN said.balances => h[e[t]].net[v] = h[e[t - 1]].net[v]
          /\ v \in said.entrypoints <=> v \in h[e[t]].used /\ v \notin h[e[t - 1]].used

LEMMA VaultMessage ==
    ASSUME VaultsInv, NEW h, NEW e, VaultsAt(h, e), phase \in {"map", "apply"},
           NEW t \in 1..block.tx
    PROVE  VaultsSaid(h, e, t, Vaults!TxChanges(t))
<1>1. MaxTxs \in Nat \ {0}
  BY VaultConstants
<1>2. PICK t0 \in 1..MaxTxs : t0 = block.tx
  BY DEF VaultsInv, VaultTypes
<1>3. PICK evs : evs = block.events
  OBVIOUS
<1>4. PICK n \in Nat : n = Len(evs)
  BY <1>3 DEF VaultsInv, VaultTypes
<1>5. evs \in Seq(VaultEvent) /\ VaultHistory(h, evs) /\ Ends(e, evs, t0)
  BY <1>2, <1>3 DEF VaultsAt, VaultsInv, VaultTypes
<1>6. t \in 1..MaxTxs /\ t \in 1..t0 /\ t - 1 \in 0..MaxTxs /\ t \in 0..MaxTxs
  BY <1>1, <1>2
<1>7. /\ e[t - 1] \in 0..n /\ e[t] \in 0..n /\ e[t - 1] <= e[t]
  BY <1>1, <1>2, <1>4, <1>5, <1>6, EndsFacts
<1>8. PICK lo \in 0..n : lo = e[t - 1]
  BY <1>7
<1>9. PICK hi \in 0..n : hi = e[t] /\ lo <= hi
  BY <1>7, <1>8
<1>10. \A i \in 1..n : evs[i].tx = t <=> lo < i /\ i <= hi
  BY <1>1, <1>2, <1>4, <1>5, <1>6, <1>8, <1>9, EndsSplit
<1>11. PICK ds : ds = deltas.balances
  OBVIOUS
<1>12. /\ DOMAIN ds = 1..n /\ deltas.first = h[n].used \ h[0].used
       /\ \A i \in 1..n : /\ ds[i].key = evs[i].vault /\ ds[i].tx = evs[i].tx
                          /\ ds[i].new_value = h[i].net[evs[i].vault]
  BY <1>3, <1>4, <1>11 DEF VaultsAt
<1>13. 0 \in 0..n /\ n \in 0..n /\ lo \in 0..Len(evs) /\ hi \in 0..Len(evs)
       /\ 0 \in 0..Len(evs) /\ n \in 0..Len(evs) /\ 0 <= lo /\ hi <= n /\ 0 <= n
  BY <1>4
<1>14. PICK B : B = Vaults!AggregateBalancesChanges(ds, t)
  OBVIOUS
<1> DEFINE Of(k) == {i \in 1..n : ds[i].tx = t /\ ds[i].key = k}
           Uses(k) == {i \in 1..n : evs[i].vault = k}
<1>15. /\ \A k : k \in DOMAIN B <=> \E i \in 1..n : evs[i].tx = t /\ evs[i].vault = k
       /\ \A k \in DOMAIN B : B[k] = Vaults!Clipped(ds[Vaults!Max(Of(k))].new_value)
  <2>1. B = [k \in {ds[i].key : i \in {i \in 1..n : ds[i].tx = t}} |->
                Vaults!Clipped(ds[Vaults!Max(Of(k))].new_value)]
    BY <1>12, <1>14 DEF Vaults!AggregateBalancesChanges
  <2> HIDE DEF Of
  <2> QED  BY <1>12, <2>1
<1>16. ASSUME NEW v \in Vault, v \in DOMAIN B
       PROVE  B[v] = Vaults!Clipped(h[hi].net[v])
  <2>1. Of(v) \subseteq 1..n /\ Of(v) # {}
    BY <1>12, <1>15, <1>16
  <2>2. PICK m \in Of(v) : m = Vaults!Max(Of(v)) /\ \A i \in Of(v) : i <= m
    <3> HIDE DEF Of
    <3>1. \E m \in Of(v) : \A i \in Of(v) : i <= m
      BY <2>1, LastIndex
    <3> QED  BY <3>1 DEF Vaults!Max
  <2>3. m \in 1..n /\ evs[m].vault = v /\ lo < m /\ m <= hi
    BY <1>10, <1>12, <2>2
  <2>4. \A i \in m + 1..hi : evs[i].vault # v
    <3> SUFFICES ASSUME NEW i \in m + 1..hi, evs[i].vault = v PROVE FALSE
      OBVIOUS
    <3>1. i \in 1..n /\ lo < i /\ i <= hi /\ i > m
      BY <1>8, <1>9, <2>3
    <3>2. i \in Of(v)
      BY <1>10, <1>12, <3>1
    <3> HIDE DEF Of
    <3>3. i <= m
      BY <2>2, <3>2
    <3> QED  BY <2>3, <3>1, <3>3
  <2>5. m \in 0..Len(evs)
    BY <1>4, <2>3
  <2>6. h[hi].net[v] = h[m].net[v]
    BY <1>5, <1>13, <2>3, <2>4, <2>5, NetBetween
  <2>7. B[v] = Vaults!Clipped(ds[m].new_value)
    BY <1>15, <1>16, <2>2
  <2> QED  BY <1>12, <2>3, <2>6, <2>7
<1>17. ASSUME NEW v \in Vault, v \notin DOMAIN B
       PROVE  h[hi].net[v] = h[lo].net[v]
  <2>1. \A i \in lo + 1..hi : i \in 1..n /\ lo < i /\ i <= hi
    BY <1>8, <1>9
  <2>2. \A i \in lo + 1..hi : evs[i].vault # v
    BY <1>10, <1>15, <1>17, <2>1
  <2> QED  BY <1>5, <1>9, <1>13, <2>2, NetBetween
<1>18. PICK E : E = Vaults!EntryPoints(t)
  OBVIOUS
<1>19. \A v : v \in E <=> /\ v \in h[n].used /\ v \notin h[0].used /\ Uses(v) # {}
                          /\ evs[Vaults!Min(Uses(v))].tx = t
  <2>1. \A v : Vaults!InteractionsOf(v) = Uses(v)
    BY <1>3, <1>4, <1>5 DEF Vaults!InteractionsOf
  <2> HIDE DEF Uses
  <2> QED  BY <1>3, <1>12, <1>18, <2>1 DEF Vaults!EntryPoints
<1>20. ASSUME NEW v, Uses(v) # {}
       PROVE  \E m \in 1..n : /\ m = Vaults!Min(Uses(v)) /\ evs[m].vault = v
                              /\ \A i \in 1..n : evs[i].vault = v => m <= i
  <2>1. Uses(v) \subseteq 1..n
    OBVIOUS
  <2>2. PICK m \in Uses(v) : m = Vaults!Min(Uses(v)) /\ \A i \in Uses(v) : m <= i
    <3> HIDE DEF Uses
    <3>1. \E m \in Uses(v) : \A i \in Uses(v) : m <= i
      BY <1>20, <2>1, FirstIndex
    <3> QED  BY <3>1 DEF Vaults!Min
  <2> QED  BY <2>2
<1>21. ASSUME NEW v, v \in E
       PROVE  v \in h[hi].used /\ v \notin h[lo].used /\ v \in DOMAIN B
  <2>1. PICK m \in 1..n : /\ evs[m].vault = v /\ evs[m].tx = t
                          /\ \A i \in 1..n : evs[i].vault = v => m <= i
    <3> HIDE DEF Uses
    <3> QED  BY <1>19, <1>20, <1>21
  <2>2. lo < m /\ m <= hi
    BY <1>10, <2>1
  <2>3. v \in h[hi].used
    <3>1. m \in 0 + 1..hi
      BY <1>9, <2>1, <2>2
    <3>2. v \in h[hi].used <=> v \in h[0].used \/ \E i \in 0 + 1..hi : evs[i].vault = v
      BY <1>5, <1>13, UsedBetween
    <3> QED  BY <2>1, <3>1, <3>2
  <2>4. v \notin h[lo].used
    <3>1. v \in h[lo].used <=> v \in h[0].used \/ \E i \in 0 + 1..lo : evs[i].vault = v
      BY <1>5, <1>13, UsedBetween
    <3>2. ASSUME NEW i \in 0 + 1..lo, evs[i].vault = v PROVE FALSE
      <4>1. i \in 1..n /\ i <= lo
        BY <1>8
      <4>2. m <= i
        BY <2>1, <3>2, <4>1
      <4> QED  BY <1>8, <2>1, <2>2, <4>1, <4>2
    <3>3. v \notin h[0].used
      BY <1>19, <1>21
    <3> QED  BY <3>1, <3>2, <3>3
  <2> QED  BY <1>15, <2>1, <2>3, <2>4
<1>22. ASSUME NEW v, v \in h[hi].used, v \notin h[lo].used
       PROVE  v \in E
  <2>1. v \notin h[0].used /\ \A i \in 0 + 1..lo : evs[i].vault # v
    <3>1. v \in h[lo].used <=> v \in h[0].used \/ \E i \in 0 + 1..lo : evs[i].vault = v
      BY <1>5, <1>13, UsedBetween
    <3> QED  BY <1>22, <3>1
  <2>2. PICK i \in 0 + 1..hi : evs[i].vault = v
    <3>1. v \in h[hi].used <=> v \in h[0].used \/ \E i \in 0 + 1..hi : evs[i].vault = v
      BY <1>5, <1>13, UsedBetween
    <3> QED  BY <1>22, <2>1, <3>1
  <2>3. i \in 1..n /\ i <= hi
    BY <1>9
  <2>4. Uses(v) # {}
    BY <2>2, <2>3
  <2>5. PICK m \in 1..n : /\ m = Vaults!Min(Uses(v)) /\ evs[m].vault = v
                          /\ \A j \in 1..n : evs[j].vault = v => m <= j
    <3> HIDE DEF Uses
    <3> QED  BY <1>20, <2>4
  <2>6. m <= i
    BY <2>2, <2>3, <2>5
  <2>7. lo < m
    <3> SUFFICES ASSUME ~(lo < m) PROVE FALSE
      OBVIOUS
    <3>1. m \in 0 + 1..lo
      BY <1>8, <2>5
    <3> QED  BY <2>1, <2>5, <3>1
  <2>8. evs[m].tx = t
    BY <1>9, <1>10, <2>3, <2>5, <2>6, <2>7
  <2>9. v \in h[n].used
    <3>1. v \in h[n].used <=> v \in h[0].used \/ \E j \in 0 + 1..n : evs[j].vault = v
      BY <1>5, <1>13, UsedBetween
    <3>2. m \in 0 + 1..n
      BY <2>5
    <3> QED  BY <2>5, <3>1, <3>2
  <2> HIDE DEF Uses
  <2> QED  BY <1>19, <2>1, <2>4, <2>5, <2>8, <2>9
<1>23. PICK said : said = [components |-> block.new[t], balances |-> B, entrypoints |-> E]
  OBVIOUS
<1>24. Vaults!TxChanges(t) = said
  <2>1. Vaults!TxChanges(t) = IF said.components = {} /\ said.balances = <<>>
                              THEN [components |-> {}, balances |-> <<>>, entrypoints |-> {}]
                              ELSE said
    BY <1>11, <1>14, <1>18, <1>23 DEF Vaults!TxChanges, Vaults!NewVaults, Vaults!NoChanges
  <2>2. CASE said.components = {} /\ said.balances = <<>>
    <3>1. B = <<>> /\ block.new[t] = {}
      BY <1>23, <2>2
    <3>2. E = {}
      <4>1. DOMAIN B = {}
        BY <3>1
      <4> QED  BY <1>21, <4>1
    <3> QED  BY <1>23, <2>1, <2>2, <3>1, <3>2
  <2>3. CASE ~(said.components = {} /\ said.balances = <<>>)
    BY <2>1, <2>3
  <2> QED  BY <2>2, <2>3
<1>25. said.components = block.new[t] /\ said.balances = B /\ said.entrypoints = E
  BY <1>23
<1> HIDE DEF Of, Uses
<1>26. VaultsSaid(h, e, t, said)
  BY <1>8, <1>9, <1>16, <1>17, <1>21, <1>22, <1>25 DEF VaultsSaid
<1> QED  BY <1>24, <1>26

-----------------------------------------------------------------------------
(* What the consumer knows after each transaction.                         *)
VaultsKnownEq(f) ==
    f = [n \in 0..Len(message) |->
            IF n = 0 THEN indexer ELSE Vaults!ApplyTx(f[n - 1], message[n])]

VaultsKnown(h, e, t) ==
    [pools |-> indexer.pools \cup Gathered(block.new, 1..t),
     balance |-> [v \in Vault |-> Vaults!Clipped(h[e[t]].net[v])],
     entrypoints |-> [v \in Vault |-> IF v \in h[e[t]].used THEN 1 ELSE 0]]

(* A transaction takes the consumer from one to the next.                  *)
LEMMA VaultApply ==
    ASSUME VaultsInv, NEW h, NEW e, VaultsAt(h, e), phase = "apply",
           NEW t \in 1..block.tx
    PROVE  Vaults!ApplyTx(VaultsKnown(h, e, t - 1), message[t]) = VaultsKnown(h, e, t)
<1>1. MaxTxs \in Nat \ {0}
  BY VaultConstants
<1>2. PICK t0 \in 1..MaxTxs : t0 = block.tx
  BY DEF VaultsInv, VaultTypes
<1>3. message[t] = Vaults!TxChanges(t)
  BY DEF VaultsInv, VaultMessageInv
<1>4. PICK said : said = message[t]
  OBVIOUS
<1>5. VaultsSaid(h, e, t, said)
  BY <1>3, <1>4, VaultMessage
<1>6. PICK was : was = VaultsKnown(h, e, t - 1)
  OBVIOUS
<1>7. PICK now : now = Vaults!ApplyTx(was, said)
  OBVIOUS
<1>8. now = [pools |-> was.pools \cup said.components,
             balance |-> Vaults!Updated(was.balance, said.balances),
             entrypoints |-> [v \in Vault |-> was.entrypoints[v]
                                              + IF v \in said.entrypoints THEN 1 ELSE 0]]
  BY <1>7 DEF Vaults!ApplyTx
<1>9. /\ was.pools = indexer.pools \cup Gathered(block.new, 1..t - 1)
      /\ was.balance = [v \in Vault |-> Vaults!Clipped(h[e[t - 1]].net[v])]
      /\ was.entrypoints = [v \in Vault |-> IF v \in h[e[t - 1]].used THEN 1 ELSE 0]
  BY <1>6 DEF VaultsKnown
<1>10. was.pools \cup said.components = indexer.pools \cup Gathered(block.new, 1..t)
  <2>1. PICK f, S, T : f = block.new /\ S = 1..t - 1 /\ T = 1..t
    OBVIOUS
  <2>2. T = S \cup {t}
    BY <1>1, <1>2, <2>1
  <2>3. \A x : x \in Gathered(f, T) <=> x \in Gathered(f, S) \/ x \in f[t]
    BY <2>2, GatheredIs
  <2>4. said.components = f[t]
    BY <1>5, <2>1 DEF VaultsSaid
  <2> QED  BY <1>9, <2>1, <2>3, <2>4
<1>11. Vaults!Updated(was.balance, said.balances)
          = [v \in Vault |-> Vaults!Clipped(h[e[t]].net[v])]
  <2>1. Vaults!Updated(was.balance, said.balances)
          = [v \in Vault |-> IF v \in DOMAIN said.balances THEN said.balances[v]
                             ELSE was.balance[v]]
    BY <1>9 DEF Vaults!Updated
  <2>2. \A v \in Vault : was.balance[v] = Vaults!Clipped(h[e[t - 1]].net[v])
    BY <1>9
  <2>3. ASSUME NEW v \in Vault
        PROVE  (IF v \in DOMAIN said.balances THEN said.balances[v] ELSE was.balance[v])
                   = Vaults!Clipped(h[e[t]].net[v])
    BY <1>5, <2>2 DEF VaultsSaid
  <2> QED  BY <2>1, <2>3
<1>12. ASSUME NEW v \in Vault
       PROVE  was.entrypoints[v] + (IF v \in said.entrypoints THEN 1 ELSE 0)
                  = IF v \in h[e[t]].used THEN 1 ELSE 0
  <2>1. v \in said.entrypoints <=> v \in h[e[t]].used /\ v \notin h[e[t - 1]].used
    BY <1>5 DEF VaultsSaid
  <2>2. v \in h[e[t - 1]].used => v \in h[e[t]].used
    <3>1. PICK evs : evs = block.events
      OBVIOUS
    <3>2. evs \in Seq(VaultEvent) /\ VaultHistory(h, evs) /\ Ends(e, evs, t0)
      BY <1>2, <3>1 DEF VaultsAt, VaultsInv, VaultTypes
    <3>3. t \in 1..MaxTxs
      BY <1>1, <1>2
    <3>4. PICK a, b : a = e[t - 1] /\ b = e[t]
      OBVIOUS
    <3>5. a \in 0..Len(evs) /\ b \in 0..Len(evs) /\ a <= b
      BY <1>1, <1>2, <3>2, <3>3, <3>4, EndsFacts
    <3>6. h[a].used \subseteq h[b].used
      BY <3>2, <3>5, UsedStays
    <3> QED  BY <3>4, <3>6
  <2>3. /\ v \in h[e[t - 1]].used => was.entrypoints[v] = 1
        /\ v \notin h[e[t - 1]].used => was.entrypoints[v] = 0
    BY <1>9
  <2>4. CASE v \in h[e[t - 1]].used
    BY <2>1, <2>2, <2>3, <2>4
  <2>5. CASE v \notin h[e[t - 1]].used
    BY <2>1, <2>3, <2>5
  <2> QED  BY <2>4, <2>5
<1>13. [v \in Vault |-> was.entrypoints[v] + IF v \in said.entrypoints THEN 1 ELSE 0]
          = [v \in Vault |-> IF v \in h[e[t]].used THEN 1 ELSE 0]
  BY <1>12
<1> QED  BY <1>4, <1>6, <1>7, <1>8, <1>10, <1>11, <1>13 DEF VaultsKnown

LEMMA VaultsKnownAfter ==
    ASSUME VaultsInv, NEW h, NEW e, VaultsAt(h, e), phase = "apply",
           NEW t \in 0..block.tx
    PROVE  Vaults!KnownAfter(t) = VaultsKnown(h, e, t)
<1>1. MaxTxs \in Nat \ {0}
  BY VaultConstants
<1>2. PICK t0 \in 1..MaxTxs : t0 = block.tx
  BY DEF VaultsInv, VaultTypes
<1>3. Len(message) = t0
  BY <1>2 DEF VaultsInv, VaultMessageInv
<1>4. VaultsKnown(h, e, 0) = indexer
  <2>1. e[0] = 0
    BY DEF VaultsAt, Ends
  <2>2. Gathered(block.new, 1..0) = {}
    BY GatheredIs
  <2>3. \A v \in Vault : /\ v \in h[0].used => indexer.entrypoints[v] = 1
                         /\ v \notin h[0].used => indexer.entrypoints[v] = 0
                         /\ indexer.balance[v] = Vaults!Clipped(h[0].net[v])
    BY DEF VaultsAt
  <2>4. indexer \in [pools : SUBSET Vault, balance : [Vault -> Int], entrypoints : [Vault -> Nat]]
    BY DEF VaultsInv, VaultTypes
  <2>5. indexer = [pools |-> indexer.pools, balance |-> indexer.balance,
                   entrypoints |-> indexer.entrypoints]
    BY <2>4
  <2>6. indexer.balance = [v \in Vault |-> Vaults!Clipped(h[0].net[v])]
    BY <2>3, <2>4
  <2>7. indexer.entrypoints = [v \in Vault |-> IF v \in h[0].used THEN 1 ELSE 0]
    BY <2>3, <2>4
  <2> QED  BY <2>1, <2>2, <2>5, <2>6, <2>7 DEF VaultsKnown
<1> DEFINE g == [i \in 0..t0 |-> VaultsKnown(h, e, i)]
           c == CHOOSE f : VaultsKnownEq(f)
<1>5. ASSUME NEW i \in 1..t0
      PROVE  Vaults!ApplyTx(VaultsKnown(h, e, i - 1), message[i]) = VaultsKnown(h, e, i)
  BY <1>2, VaultApply
<1>6. VaultsKnownEq(g)
  <2>1. ASSUME NEW i \in 0..t0
        PROVE  g[i] = IF i = 0 THEN indexer ELSE Vaults!ApplyTx(g[i - 1], message[i])
    <3>1. CASE i = 0
      BY <1>4, <3>1
    <3>2. CASE i # 0
      <4>1. i \in 1..t0 /\ i - 1 \in 0..t0
        BY <3>2
      <4>2. g[i] = VaultsKnown(h, e, i) /\ g[i - 1] = VaultsKnown(h, e, i - 1)
        BY <4>1
      <4> HIDE DEF g
      <4> QED  BY <1>5, <3>2, <4>1, <4>2
    <3> QED  BY <3>1, <3>2
  <2> QED  BY <1>3, <2>1 DEF VaultsKnownEq
<1> HIDE DEF g
<1>7. VaultsKnownEq(c)
  BY <1>6
<1>8. Vaults!KnownAfter(t) = c[t]
  BY DEF Vaults!KnownAfter, VaultsKnownEq
<1> HIDE DEF c
<1>9. Alike(c, g, t0)
  <2>1. c[0] = indexer /\ g[0] = indexer
    BY <1>3, <1>6, <1>7 DEF VaultsKnownEq
  <2>2. ASSUME NEW i \in 1..t0, c[i - 1] = g[i - 1] PROVE c[i] = g[i]
    <3>1. i \in 0..t0 /\ i # 0
      OBVIOUS
    <3>2. c[i] = Vaults!ApplyTx(c[i - 1], message[i])
      BY <1>3, <1>7, <3>1 DEF VaultsKnownEq
    <3>3. g[i] = Vaults!ApplyTx(g[i - 1], message[i])
      BY <1>3, <1>6, <3>1 DEF VaultsKnownEq
    <3> QED  BY <2>2, <3>2, <3>3
  <2> QED  BY <2>1, <2>2 DEF Alike
<1>10. c[t] = g[t]
  BY <1>2, <1>9, SameAlong
<1>11. g[t] = VaultsKnown(h, e, t)
  BY <1>2 DEF g
<1> QED  BY <1>8, <1>10, <1>11

(* The consumer has the block: the history starts anew.                    *)
LEMMA ApplyVaultsKeeps == ASSUME VaultsInv, Vaults!Apply PROVE VaultsInv'
<1>1. MaxTxs \in Nat \ {0}
  BY VaultConstants
<1>2. PICK h, e : VaultsAt(h, e)
  BY DEF VaultsInv
<1>3. PICK t0 \in 1..MaxTxs : t0 = block.tx
  BY DEF VaultsInv, VaultTypes
<1>4. PICK n \in Nat : n = Len(block.events)
  BY DEF VaultsInv, VaultTypes
<1>5. /\ phase = "apply" /\ phase' = "mine" /\ UNCHANGED <<chain, stores>>
      /\ indexer' = Vaults!KnownAfter(Len(message))
      /\ block' = [tx |-> 1, new |-> [t \in 1..MaxTxs |-> {}], events |-> <<>>,
                   txEnd |-> [t \in 1..MaxTxs |-> chain]]
  BY DEF Vaults!Apply, Vaults!NewBlock, Vaults!Tx
<1>6. Len(message) = t0
  BY <1>3, <1>5 DEF VaultsInv, VaultMessageInv
<1>7. indexer' = VaultsKnown(h, e, t0)
  BY <1>2, <1>3, <1>5, <1>6, VaultsKnownAfter
<1>8. e[t0] = n /\ block.events \in Seq(VaultEvent) /\ Ends(e, block.events, t0)
  <2>1. block.events \in Seq(VaultEvent) /\ Ends(e, block.events, t0)
    BY <1>2, <1>3 DEF VaultsAt, VaultsInv, VaultTypes
  <2> QED  BY <1>1, <1>3, <1>4, <2>1, EndsFacts
<1>9. /\ chain = block.txEnd[t0] /\ t0 \in 1..t0
      /\ chain.deployed = indexer.pools \cup Gathered(block.new, 1..t0)
  BY <1>3 DEF VaultsInv, VaultDeployedInv
<1>10. chain.used = h[n].used /\ chain.net = h[n].net
  <2>1. block.txEnd[t0].used = h[e[t0]].used /\ block.txEnd[t0].net = h[e[t0]].net
    BY <1>2, <1>3, <1>9 DEF VaultsAt
  <2> QED  BY <1>8, <1>9, <2>1
<1>11. /\ indexer'.pools = chain.deployed
       /\ indexer'.balance = [v \in Vault |-> Vaults!Clipped(chain.net[v])]
       /\ indexer'.entrypoints = [v \in Vault |-> IF v \in chain.used THEN 1 ELSE 0]
       /\ indexer' = [pools |-> indexer'.pools, balance |-> indexer'.balance,
                      entrypoints |-> indexer'.entrypoints]
  BY <1>7, <1>8, <1>9, <1>10 DEF VaultsKnown
<1>12. chain \in [deployed : SUBSET Vault, used : SUBSET Vault, net : [Vault -> Int]]
  BY DEF VaultsInv, VaultTypes
<1>13. stores.first = chain.used /\ stores.balance = chain.net /\ stores.pools = chain.deployed
  BY <1>2, <1>4, <1>5, <1>10 DEF VaultsAt, VaultsInv, VaultDeployedInv
<1>14. VaultTypes'
  <2>1. \A v \in Vault : /\ Vaults!Clipped(chain.net[v]) \in Int
                         /\ (IF v \in chain.used THEN 1 ELSE 0) \in Nat
    BY <1>12 DEF Vaults!Clipped
  <2>2. indexer'.balance \in [Vault -> Int] /\ indexer'.entrypoints \in [Vault -> Nat]
        /\ indexer'.pools \in SUBSET Vault
    BY <1>11, <1>12, <2>1
  <2>3. indexer' \in [pools : SUBSET Vault, balance : [Vault -> Int], entrypoints : [Vault -> Nat]]
    BY <1>11, <2>2
  <2>4. block'.tx = 1 /\ block'.new = [t \in 1..MaxTxs |-> {}] /\ block'.events = <<>>
        /\ block'.txEnd = [t \in 1..MaxTxs |-> chain]
    BY <1>5
  <2>5. block' \in [tx : 1..MaxTxs, new : [1..MaxTxs -> SUBSET Vault], events : Seq(VaultEvent),
                    txEnd : [1..MaxTxs -> [deployed : SUBSET Vault, used : SUBSET Vault,
                                           net : [Vault -> Int]]]]
    BY <1>1, <1>5, <1>12
  <2> QED  BY <1>5, <1>12, <2>3, <2>5 DEF VaultsInv, VaultTypes
<1>15. VaultDeployedInv'
  <2>1. \A t \in 1..MaxTxs : block'.new[t] = {} /\ block'.txEnd[t] = chain
    BY <1>5
  <2>2. ASSUME NEW t \in 1..1
        PROVE  block'.txEnd[t].deployed = indexer'.pools \cup Gathered(block'.new, 1..t)
    <3>1. \A i \in 1..t : block'.new[i] = {}
      BY <1>1, <2>1
    <3>2. Gathered(block'.new, 1..t) = {}
      BY <3>1, GatheredIs
    <3>3. block'.txEnd[t] = chain
      BY <1>1, <2>1
    <3> QED  BY <1>11, <3>2, <3>3
  <2>3. block'.tx = 1 /\ Len(block'.events) = 0
    BY <1>5
  <2>4. chain = block'.txEnd[1] /\ chain.used \subseteq chain.deployed
    BY <1>1, <2>1 DEF VaultsInv, VaultDeployedInv
  <2>5. (\A t \in 1..block.tx :
          block.txEnd[t].deployed = indexer.pools \cup Gathered(block.new, 1..t))'
    BY <2>2, <2>3
  <2>6. (\A t \in 1..MaxTxs : t > block.tx => block.new[t] = {})'
    BY <2>1
  <2>7. chain' = chain /\ stores' = stores /\ phase' = "mine"
    BY <1>5
  <2>8. (stores.pools = IF phase = "mine" THEN indexer.pools ELSE chain.deployed)'
    BY <1>11, <1>13, <2>7
  <2>9. (chain = block.txEnd[block.tx])' /\ (chain.used \subseteq chain.deployed)'
    BY <2>3, <2>4, <2>7
  <2>10. (\A i \in 1..Len(block.events) : block.events[i].vault \in chain.deployed)'
    BY <2>3
  <2> QED  BY <2>5, <2>6, <2>8, <2>9, <2>10 DEF VaultDeployedInv
<1>16. PICK h2 : h2 = [i \in 0..0 |-> [used |-> chain.used, net |-> chain.net]]
  OBVIOUS
<1>17. PICK e2 : e2 = [t \in 0..MaxTxs |-> 0]
  OBVIOUS
<1>18. h2[0] = [used |-> chain.used, net |-> chain.net] /\ block'.events = <<>> /\ block'.tx = 1
       /\ Len(block'.events) = 0
  BY <1>5, <1>16
<1>19. VaultHistory(h2, block'.events)
  BY <1>12, <1>16, <1>18 DEF VaultHistory, VaultState
<1>20. Ends(e2, block'.events, block'.tx)
  BY <1>1, <1>17, <1>18, EndsNew
<1>21. VaultsAt(h2, e2)'
  <2>1. \A t \in 1..block'.tx : /\ block'.txEnd[t].used = h2[e2[t]].used
                                /\ block'.txEnd[t].net = h2[e2[t]].net
    <3>1. \A t \in 1..block'.tx : t \in 1..MaxTxs /\ t \in 0..MaxTxs
      BY <1>1, <1>18
    <3>2. \A t \in 1..MaxTxs : block'.txEnd[t] = chain
      BY <1>5
    <3>3. \A t \in 0..MaxTxs : e2[t] = 0
      BY <1>17
    <3> QED  BY <1>18, <3>1, <3>2, <3>3
  <2>2. \A v \in Vault : /\ v \in h2[0].used => indexer'.entrypoints[v] = 1
                         /\ v \notin h2[0].used => indexer'.entrypoints[v] = 0
                         /\ indexer'.balance[v] = Vaults!Clipped(h2[0].net[v])
    BY <1>11, <1>18
  <2>3. stores'.first = h2[0].used /\ stores'.balance = h2[0].net
    BY <1>5, <1>13, <1>18
  <2> QED  BY <1>5, <1>19, <1>20, <2>1, <2>2, <2>3 DEF VaultsAt
<1> QED  BY <1>5, <1>14, <1>15, <1>21 DEF VaultsInv, VaultMessageInv

LEMMA VaultsNextInv == VaultsInv /\ [Vaults!Next]_Vaults!vars => VaultsInv'
<1> SUFFICES ASSUME VaultsInv, [Vaults!Next]_Vaults!vars PROVE VaultsInv'
  OBVIOUS
<1>1. ASSUME NEW v \in Vault, Vaults!Deploy(v) PROVE VaultsInv'
  BY <1>1, DeployKeeps
<1>2. ASSUME NEW v \in Vault, NEW kind \in {"Deposit", "Withdraw"}, NEW assets \in Assets,
             Vaults!Move(v, kind, assets)
      PROVE  VaultsInv'
  BY <1>2, MoveKeeps
<1>3. CASE Vaults!NextTx
  BY <1>3, NextVaultTxKeeps
<1>4. CASE Vaults!MapRelativeBalances
  BY <1>4, MapRelativeBalancesKeeps
<1>5. CASE Vaults!Store
  BY <1>5, StoreVaultsKeeps
<1>6. CASE Vaults!MapProtocolChanges
  BY <1>6, MapVaultChangesKeeps
<1>7. CASE Vaults!Apply
  BY <1>7, ApplyVaultsKeeps
<1>8. CASE UNCHANGED Vaults!vars
  <2>1. UNCHANGED <<chain, block, phase, stores, deltas, message, indexer>>
    BY <1>8 DEF Vaults!vars
  <2>2. VaultTypes' /\ VaultDeployedInv'
    BY <2>1 DEF VaultsInv, VaultTypes, VaultDeployedInv
  <2>3. VaultMessageInv'
    <3>1. \A t : Vaults!TxChanges(t)' = Vaults!TxChanges(t)
      BY <2>1 DEF Vaults!TxChanges, Vaults!NewVaults, Vaults!AggregateBalancesChanges,
                  Vaults!EntryPoints, Vaults!InteractionsOf, Vaults!NoChanges
    <3> QED  BY <2>1, <3>1 DEF VaultsInv, VaultMessageInv
  <2>4. PICK h, e : VaultsAt(h, e)
    BY DEF VaultsInv
  <2>5. VaultsAt(h, e)'
    BY <2>1, <2>4 DEF VaultsAt
  <2> QED  BY <2>2, <2>3, <2>5 DEF VaultsInv
<1> QED  BY <1>1, <1>2, <1>3, <1>4, <1>5, <1>6, <1>7, <1>8 DEF Vaults!Next

LEMMA VaultsInvTraces == VaultsInv => Vaults!TracedFromFirstUse
<1> SUFFICES ASSUME VaultsInv, phase = "apply", NEW t \in 1..block.tx
             PROVE  LET known == Vaults!KnownAfter(t)
                        state == block.txEnd[t]
                    IN  /\ known.pools = state.deployed
                        /\ \A v \in Vault :
                              /\ known.entrypoints[v] = IF v \in state.used THEN 1 ELSE 0
                              /\ known.balance[v] = Vaults!Clipped(state.net[v])
  BY DEF Vaults!TracedFromFirstUse
<1>1. PICK h, e : VaultsAt(h, e)
  BY DEF VaultsInv
<1>2. Vaults!KnownAfter(t) = VaultsKnown(h, e, t)
  <2>1. t \in 0..block.tx
    BY DEF VaultsInv, VaultTypes
  <2> QED  BY <1>1, <2>1, VaultsKnownAfter
<1>3. /\ block.txEnd[t].deployed = indexer.pools \cup Gathered(block.new, 1..t)
      /\ block.txEnd[t].used = h[e[t]].used /\ block.txEnd[t].net = h[e[t]].net
  BY <1>1 DEF VaultsAt, VaultsInv, VaultDeployedInv
<1> QED  BY <1>2, <1>3 DEF VaultsKnown

VaultsRunning == integration = "erc4626" => VaultsInv

LEMMA VaultsRun == IntegrationSpec => []VaultsRunning
<1>1. IntegrationInit => VaultsRunning
  BY VaultsInit DEF IntegrationInit, VaultsRunning
<1>2. VaultsRunning /\ [IntegrationNext]_<<integration, vars, pipelineVars>> => VaultsRunning'
  <2> SUFFICES ASSUME VaultsRunning, [IntegrationNext]_<<integration, vars, pipelineVars>>
               PROVE  VaultsRunning'
    OBVIOUS
  <2>1. CASE integration = "erc4626"
    <3>1. integration' = integration /\ [Vaults!Next]_Vaults!vars
      BY <2>1 DEF IntegrationNext, Vaults!vars, vars, pipelineVars
    <3> QED  BY <2>1, <3>1, VaultsNextInv DEF VaultsRunning
  <2>2. CASE integration # "erc4626"
    <3>1. integration' = integration
      BY DEF IntegrationNext
    <3> QED  BY <2>2, <3>1 DEF VaultsRunning
  <2> QED  BY <2>1, <2>2
<1> QED  BY <1>1, <1>2, PTL DEF IntegrationSpec

(* The consumer of the vaults has the entry points of a vault exactly once *)
(* from its first deposit or withdrawal on, with the component and with    *)
(* what was put in: for any vaults, amounts and number of events.          *)
THEOREM VaultsAreTraced == IntegrationSpec => []VaultsTraced
<1>1. VaultsRunning => VaultsTraced
  BY VaultsInvTraces DEF VaultsRunning, VaultsTraced
<1> QED  BY <1>1, VaultsRun, PTL

-----------------------------------------------------------------------------
(* Uniswap v3 from traces.  The history h has the pool after each event;   *)
(* an event shows a change of storage only at the locations looked up for  *)
(* its type.                                                               *)
V3EventTypes == {"PoolCreated", "Initialize", "Swap", "Mint", "Burn", "Collect", "Flash",
                 "CollectProtocol", "SetFeeProtocol"}
V3Words == [V3Storage!Attr -> Int]
V3State == [pools : SUBSET {"pool"}, initialized : BOOLEAN, storage : V3Words,
            balance : Nat, owed : Nat]
V3Event == [type : V3EventTypes, tx : 1..MaxTxs, amount : Int, before : V3Words,
            between : V3Words, after : V3Words]

V3Moved(e) ==
    IF e.type \in {"Swap", "Mint", "Flash"} THEN e.amount
    ELSE IF e.type \in {"Collect", "CollectProtocol"} THEN -e.amount ELSE 0

V3Step(was, now, e) ==
    /\ e.before = was.storage /\ e.after = now.storage /\ now.pools = {"pool"}
    /\ e.type = "PoolCreated" => was.pools = {} /\ now.storage = was.storage
    /\ e.type # "PoolCreated" => was.pools = {"pool"}
    /\ \A a \in V3Storage!Attr : a \notin V3Storage!Locations(e) => now.storage[a] = was.storage[a]
    /\ now.balance = was.balance + V3Moved(e)

(* Before its creation a pool has nothing.                                 *)
V3Fresh(state) ==
    state.pools = {} => /\ state.initialized = FALSE /\ state.owed = 0
                        /\ \A a \in V3Storage!Attr : state.storage[a] = 0

V3History(h, evs) ==
    /\ h \in [0..Len(evs) -> V3State]
    /\ \A i \in 1..Len(evs) : V3Step(h[i - 1], h[i], evs[i])

V3Types ==
    /\ chain \in V3State /\ V3Fresh(chain)
    /\ block \in [tx : 1..MaxTxs, events : Seq(V3Event), txEnd : [1..MaxTxs -> V3State]]
    /\ phase \in {"mine", "store", "map", "apply"}
    /\ stores \in [pools : SUBSET {"pool"}, balance : Int]
    /\ indexer \in [components : SUBSET {"pool"},
                    attributes : [V3Storage!Attr -> Int \cup {Absent}], balance : Int]

V3At(h, e) ==
    LET n == Len(block.events)
    IN  /\ V3History(h, block.events) /\ Ends(e, block.events, block.tx)
        /\ V3Fresh(h[0]) /\ h[n] = chain
        /\ \A t \in 1..block.tx : block.txEnd[t] = h[e[t]]
        /\ indexer.components = h[0].pools /\ indexer.balance = h[0].balance
        /\ \A a \in V3Storage!Attr : V3Storage!Read(indexer.attributes[a]) = h[0].storage[a]
        /\ stores.pools = IF phase = "mine" THEN h[0].pools ELSE h[n].pools
        /\ stores.balance = IF phase \in {"mine", "store"} THEN h[0].balance ELSE h[n].balance
        /\ phase = "store" =>
              deltas = [i \in 1..n |-> V3Storage!BalanceDeltas(block.events[i])]

V3MessageInv ==
    phase = "apply" => message = [t \in 1..block.tx |->
        [components |-> V3Storage!Created(t), attributes |-> V3Storage!Attributes(t),
         balance |-> V3Storage!Balance(t)]]

V3Inv == V3Types /\ V3MessageInv /\ \E h, e : V3At(h, e)

LEMMA V3Constants == MaxTxs \in Nat \ {0} /\ MaxAmount \in Nat /\ Absent \notin Int
BY IntegrationBounds DEF V3Storage!StorageBounds

LEMMA V3Init == V3Storage!Init => V3Inv
<1> SUFFICES ASSUME V3Storage!Init PROVE V3Inv
  OBVIOUS
<1>1. MaxTxs \in Nat \ {0} /\ Absent \notin Int
  BY V3Constants
<1>2. /\ chain = [pools |-> {}, initialized |-> FALSE, storage |-> [a \in V3Storage!Attr |-> 0],
                  balance |-> 0, owed |-> 0]
      /\ block = [tx |-> 1, events |-> <<>>, txEnd |-> [t \in 1..MaxTxs |-> chain]]
      /\ phase = "mine" /\ stores = [pools |-> {}, balance |-> 0]
      /\ indexer = [components |-> {}, attributes |-> [a \in V3Storage!Attr |-> Absent],
                    balance |-> 0]
  BY DEF V3Storage!Init, V3Storage!NewBlock, V3Storage!Tx
<1>3. chain \in V3State /\ V3Fresh(chain)
  BY <1>2 DEF V3State, V3Words, V3Fresh
<1>4. V3Types
  <2>1. PICK S : S = V3State
    OBVIOUS
  <2>2. 1 \in 1..MaxTxs /\ <<>> \in Seq(V3Event) /\ [t \in 1..MaxTxs |-> chain] \in [1..MaxTxs -> S]
    BY <1>1, <1>3, <2>1
  <2>3. block \in [tx : 1..MaxTxs, events : Seq(V3Event), txEnd : [1..MaxTxs -> S]]
    BY <1>2, <2>2
  <2>4. [a \in V3Storage!Attr |-> Absent] \in [V3Storage!Attr -> Int \cup {Absent}]
    OBVIOUS
  <2>5. indexer \in [components : SUBSET {"pool"},
                    attributes : [V3Storage!Attr -> Int \cup {Absent}], balance : Int]
    BY <1>2, <2>4
  <2>6. stores \in [pools : SUBSET {"pool"}, balance : Int]
    BY <1>2
  <2> QED  BY <1>2, <1>3, <2>1, <2>3, <2>5, <2>6 DEF V3Types
<1>5. PICK h : h = [i \in 0..0 |-> chain]
  OBVIOUS
<1>6. PICK e : e = [t \in 0..MaxTxs |-> 0]
  OBVIOUS
<1>7. Len(block.events) = 0 /\ h[0] = chain /\ block.events = <<>> /\ block.tx = 1
  BY <1>2, <1>5
<1>8. V3History(h, block.events)
  BY <1>3, <1>5, <1>7 DEF V3History
<1>9. Ends(e, block.events, block.tx)
  BY <1>1, <1>6, <1>7, EndsNew
<1>10. \A t \in 1..block.tx : block.txEnd[t] = h[e[t]]
  <2>1. \A t \in 1..block.tx : t \in 1..MaxTxs /\ t \in 0..MaxTxs
    BY <1>1, <1>7
  <2>2. (\A t \in 1..MaxTxs : block.txEnd[t] = chain) /\ \A t \in 0..MaxTxs : e[t] = 0
    BY <1>2, <1>6
  <2> QED  BY <1>7, <2>1, <2>2
<1>11. \A a \in V3Storage!Attr : V3Storage!Read(indexer.attributes[a]) = h[0].storage[a]
  BY <1>2, <1>7 DEF V3Storage!Read
<1>12. V3At(h, e)
  <2>1. /\ V3Fresh(h[0]) /\ h[Len(block.events)] = chain
        /\ indexer.components = h[0].pools /\ indexer.balance = h[0].balance
        /\ stores.pools = h[0].pools /\ stores.balance = h[0].balance
    <3>1. chain.pools = {} /\ chain.balance = 0
      BY <1>2
    <3>2. indexer.components = {} /\ indexer.balance = 0
      BY <1>2
    <3>3. stores.pools = {} /\ stores.balance = 0
      BY <1>2
    <3> QED  BY <1>3, <1>7, <3>1, <3>2, <3>3
  <2>2. phase = "mine"
    BY <1>2
  <2> QED  BY <1>8, <1>9, <1>10, <1>11, <2>1, <2>2 DEF V3At
<1> QED  BY <1>2, <1>4, <1>12 DEF V3Inv, V3MessageInv

(* An event is the next step of the history.                               *)
V3Happens(between, type, amount) ==
    /\ between \in V3Words /\ type \in V3EventTypes /\ amount \in Int
    /\ \A ev : ev = [type |-> type, tx |-> block.tx, amount |-> amount,
                     before |-> chain.storage, between |-> between, after |-> chain'.storage]
                   => V3Step(chain, chain', ev)

LEMMA V3EventKeeps ==
    ASSUME V3Inv, NEW between, NEW type, NEW amount, V3Happens(between, type, amount),
           V3Storage!EmitVia(between, type, amount), chain' \in V3State, V3Fresh(chain')
    PROVE  V3Inv'
<1>1. MaxTxs \in Nat \ {0}
  BY V3Constants
<1>2. PICK h, e : V3At(h, e)
  BY DEF V3Inv
<1>3. PICK t0 \in 1..MaxTxs : t0 = block.tx
  BY DEF V3Inv, V3Types
<1>4. PICK ev : ev = [type |-> type, tx |-> t0, amount |-> amount, before |-> chain.storage,
                      between |-> between, after |-> chain'.storage]
  OBVIOUS
<1>5. ev \in V3Event /\ ev.tx = t0
  BY <1>3, <1>4 DEF V3Happens, V3Event, V3State, V3Inv, V3Types
<1>6. V3Step(chain, chain', ev)
  BY <1>3, <1>4 DEF V3Happens
<1>7. /\ phase = "mine" /\ phase' = "mine" /\ UNCHANGED <<stores, deltas, message, indexer>>
      /\ block' = [block EXCEPT !.events = Append(@, ev), !.txEnd[t0] = chain']
  BY <1>3, <1>4 DEF V3Storage!EmitVia
<1>8. /\ block'.tx = t0 /\ block'.events = Append(block.events, ev)
      /\ block'.txEnd = [block.txEnd EXCEPT ![t0] = chain']
      /\ block' \in [tx : 1..MaxTxs, events : Seq(V3Event), txEnd : [1..MaxTxs -> V3State]]
  <2> DEFINE TxEnds == [1..MaxTxs -> V3State]
  <2>1. block \in [tx : 1..MaxTxs, events : Seq(V3Event), txEnd : TxEnds]
    BY DEF V3Inv, V3Types
  <2>2. block.events \in Seq(V3Event) /\ block.txEnd \in TxEnds
    BY <2>1
  <2>3. PICK evs : evs = Append(block.events, ev)
    OBVIOUS
  <2>4. PICK ends : ends = [block.txEnd EXCEPT ![t0] = chain']
    OBVIOUS
  <2>5. evs \in Seq(V3Event) /\ ends \in TxEnds
    BY <1>3, <1>5, <2>2, <2>3, <2>4
  <2>6. block' = [block EXCEPT !.events = evs, !.txEnd = ends]
    BY <1>7, <2>3, <2>4
  <2> HIDE DEF TxEnds
  <2>7. block'.tx = t0 /\ block'.events = evs /\ block'.txEnd = ends
        /\ block' \in [tx : 1..MaxTxs, events : Seq(V3Event), txEnd : TxEnds]
    BY <1>3, <2>1, <2>5, <2>6
  <2> QED  BY <2>3, <2>4, <2>7 DEF TxEnds
<1>9. V3Types'
  BY <1>7, <1>8 DEF V3Inv, V3Types, V3Fresh
<1>10. /\ \A t \in 1..MaxTxs : t # t0 => block'.txEnd[t] = block.txEnd[t]
       /\ block'.txEnd[t0] = chain'
  BY <1>8 DEF V3Inv, V3Types
<1>11. PICK n \in Nat : n = Len(block.events)
  BY DEF V3Inv, V3Types
<1>12. /\ Len(block'.events) = n + 1 /\ block'.events[n + 1] = ev
       /\ \A i \in 1..n : block'.events[i] = block.events[i]
       /\ block.events \in Seq(V3Event)
  BY <1>8, <1>11 DEF V3Inv, V3Types
<1>13. PICK h2 : h2 = [i \in 0..n + 1 |-> IF i <= n THEN h[i] ELSE chain']
  OBVIOUS
<1>14. PICK e2 : e2 = EndsWith(e, t0, n + 1)
  OBVIOUS
<1>15. h \in [0..n -> V3State] /\ Ends(e, block.events, t0) /\ h[n] = chain
  BY <1>2, <1>3, <1>11 DEF V3At, V3History
<1>16. /\ \A i \in 0..n : h2[i] = h[i]
       /\ h2[n + 1] = chain' /\ h2 \in [0..n + 1 -> V3State]
  <2>1. \A i \in 0..n : h2[i] = h[i]
    BY <1>11, <1>13
  <2>2. \A i \in 0..n : h[i] \in V3State
    BY <1>15
  <2>3. h2[n + 1] = chain'
    BY <1>11, <1>13
  <2>4. \A i \in 0..n + 1 : h2[i] \in V3State
    BY <2>1, <2>2, <2>3
  <2> QED  BY <1>13, <2>1, <2>3, <2>4
<1>17. V3History(h2, block'.events)
  <2>1. ASSUME NEW i \in 1..n + 1 PROVE V3Step(h2[i - 1], h2[i], block'.events[i])
    <3>1. CASE i = n + 1
      <4>1. i - 1 = n /\ n \in 0..n
        BY <1>11, <3>1
      <4> QED  BY <1>6, <1>12, <1>15, <1>16, <3>1, <4>1
    <3>2. CASE i # n + 1
      <4>1. i \in 1..n /\ i \in 0..n /\ i - 1 \in 0..n
        BY <1>11, <3>2
      <4>2. V3Step(h[i - 1], h[i], block.events[i])
        BY <1>2, <1>11, <4>1 DEF V3At, V3History
      <4> QED  BY <1>12, <1>16, <4>1, <4>2
    <3> QED  BY <3>1, <3>2
  <2> QED  BY <1>12, <1>16, <2>1 DEF V3History
<1>18. Ends(e2, block'.events, t0) /\ \A t \in 0..MaxTxs : t < t0 => e2[t] = e[t]
  <2>1. PICK evs : evs = block.events
    OBVIOUS
  <2>2. PICK evs2 : evs2 = block'.events
    OBVIOUS
  <2>3. PICK l : l = t0
    OBVIOUS
  <2>4. l \in 1..MaxTxs /\ evs \in Seq(V3Event) /\ Ends(e, evs, l) /\ ev.tx = l
    BY <1>3, <1>5, <1>12, <1>15, <2>1, <2>3
  <2>5. evs2 = Append(evs, ev)
    BY <1>8, <2>1, <2>2
  <2>6. e2 = EndsWith(e, l, Len(evs) + 1)
    BY <1>11, <1>14, <2>1, <2>3
  <2>7. Ends(e2, evs2, l)
    BY <1>1, <2>4, <2>5, <2>6, EndsAppend
  <2>8. \A t \in 0..MaxTxs : t < t0 => e2[t] = e[t]
    BY <1>3, <1>14 DEF EndsWith
  <2> QED  BY <2>2, <2>3, <2>7, <2>8
<1>19. ASSUME NEW t \in 1..t0 PROVE block'.txEnd[t] = h2[e2[t]]
  <2>1. CASE t = t0
    <3>1. e2[t] = n + 1
      BY <1>3, <1>14, <2>1 DEF EndsWith
    <3> QED  BY <1>10, <1>16, <2>1, <3>1
  <2>2. CASE t # t0
    <3>1. t \in 0..MaxTxs /\ t \in 1..MaxTxs /\ t < t0
      BY <1>1, <1>3, <2>2
    <3>2. e2[t] = e[t] /\ block'.txEnd[t] = block.txEnd[t]
      BY <1>10, <1>18, <2>2, <3>1
    <3>3. e[t] \in 0..n
      BY <1>1, <1>3, <1>11, <1>12, <1>15, <3>1, EndsFacts
    <3>4. h2[e2[t]] = h[e[t]]
      BY <1>16, <3>2, <3>3
    <3>5. block.txEnd[t] = h[e[t]]
      BY <1>2, <1>3 DEF V3At
    <3> QED  BY <3>2, <3>4, <3>5
  <2> QED  BY <2>1, <2>2
<1>20. h2[0] = h[0]
  BY <1>11, <1>16
<1>21. V3At(h2, e2)'
  <2>1. /\ V3History(h2, block'.events) /\ Ends(e2, block'.events, block'.tx)
        /\ h2[Len(block'.events)] = chain'
        /\ \A t \in 1..block'.tx : block'.txEnd[t] = h2[e2[t]]
    BY <1>8, <1>12, <1>16, <1>17, <1>18, <1>19
  <2>2. /\ V3Fresh(h[0]) /\ indexer.components = h[0].pools /\ indexer.balance = h[0].balance
        /\ \A a \in V3Storage!Attr : V3Storage!Read(indexer.attributes[a]) = h[0].storage[a]
        /\ stores.pools = h[0].pools /\ stores.balance = h[0].balance
    BY <1>2, <1>7 DEF V3At
  <2>3. /\ V3Fresh(h2[0]) /\ indexer'.components = h2[0].pools
        /\ indexer'.balance = h2[0].balance
        /\ \A a \in V3Storage!Attr : V3Storage!Read(indexer'.attributes[a]) = h2[0].storage[a]
        /\ stores'.pools = h2[0].pools /\ stores'.balance = h2[0].balance
    BY <1>7, <1>20, <2>2
  <2> QED  BY <1>7, <2>1, <2>3 DEF V3At
<1> QED  BY <1>7, <1>9, <1>21 DEF V3Inv, V3MessageInv

-----------------------------------------------------------------------------
(* The steps of the pool.                                                  *)
LEMMA V3Pool ==
    ASSUME V3Inv
    PROVE  /\ chain = [pools |-> chain.pools, initialized |-> chain.initialized,
                       storage |-> chain.storage, balance |-> chain.balance,
                       owed |-> chain.owed]
           /\ chain.pools \subseteq {"pool"} /\ chain.initialized \in BOOLEAN
           /\ chain.storage \in V3Words /\ chain.balance \in Nat /\ chain.owed \in Nat
           /\ V3Fresh(chain)
<1> QED  BY DEF V3Inv, V3Types, V3State

LEMMA V3CreateKeeps == ASSUME V3Inv, V3Storage!CreatePool PROVE V3Inv'
<1>1. chain.pools = {} /\ V3Storage!Emit("PoolCreated", 0)
      /\ chain' = [chain EXCEPT !.pools = {"pool"}]
  BY DEF V3Storage!CreatePool, V3Storage!Pools
<1>2. chain \in V3State /\ V3Fresh(chain)
  BY DEF V3Inv, V3Types
<1>3. /\ chain' \in V3State /\ chain'.pools = {"pool"} /\ chain'.storage = chain.storage
      /\ chain'.balance = chain.balance /\ chain.balance \in Nat
  BY <1>1, <1>2 DEF V3State
<1>4. V3Fresh(chain')
  BY <1>3 DEF V3Fresh
<1>5. \A ev : ev = [type |-> "PoolCreated", tx |-> block.tx, amount |-> 0,
                    before |-> chain.storage, between |-> chain.storage, after |-> chain'.storage]
                => V3Step(chain, chain', ev)
  BY <1>1, <1>3 DEF V3Step, V3Moved
<1>6. PICK between, type, amount :
          between = chain.storage /\ type = "PoolCreated" /\ amount = 0
  OBVIOUS
<1>7. V3Happens(between, type, amount)
  BY <1>5, <1>6, V3Pool DEF V3Happens, V3EventTypes
<1>8. V3Storage!EmitVia(between, type, amount)
  BY <1>1, <1>6 DEF V3Storage!Emit
<1> QED  BY <1>3, <1>4, <1>7, <1>8, V3EventKeeps

LEMMA V3There ==
    ASSUME V3Inv,
           chain.initialized = TRUE \/ chain.owed > 0 \/ chain.storage["lower"] > 0
              \/ chain.storage["protocol_fees"] > 0
    PROVE  chain.pools # {}
<1>1. "lower" \in V3Storage!Attr /\ "protocol_fees" \in V3Storage!Attr
  BY DEF V3Storage!Attr, V3Storage!TickSlots, V3Storage!TrackedSlots
<1>2. chain.pools = {} => /\ chain.initialized = FALSE /\ chain.owed = 0
                          /\ chain.storage["lower"] = 0 /\ chain.storage["protocol_fees"] = 0
  BY <1>1, V3Pool DEF V3Fresh
<1> QED  BY <1>2

LEMMA V3WordSet ==
    /\ \A words \in V3Words : \A a \in V3Storage!Attr : words[a] \in Int
    /\ V3Storage!Attr = {"tick", "liquidity", "protocol_fees", "fee_protocol", "lower", "upper"}
    /\ \A words \in V3Words, a \in V3Storage!Attr, n \in Int : [words EXCEPT ![a] = n] \in V3Words
BY DEF V3Words, V3Storage!Attr, V3Storage!TickSlots, V3Storage!TrackedSlots

(* A step of a pool that is there: what it must show.                      *)
V3Legal(type, amount, initialized, storage, balance, owed) ==
    /\ chain.pools # {} /\ type \in V3EventTypes \ {"PoolCreated"} /\ amount \in Int
    /\ initialized \in BOOLEAN /\ storage \in V3Words /\ balance \in Nat /\ owed \in Nat
    /\ chain' = [pools |-> chain.pools, initialized |-> initialized, storage |-> storage,
                 balance |-> balance, owed |-> owed]
    /\ type \notin {"Mint", "Burn", "Collect"} =>
          storage["lower"] = chain.storage["lower"] /\ storage["upper"] = chain.storage["upper"]
    /\ type \in {"Swap", "Mint", "Flash"} => balance = chain.balance + amount
    /\ type \in {"Collect", "CollectProtocol"} => balance = chain.balance - amount
    /\ type \notin {"Swap", "Mint", "Flash", "Collect", "CollectProtocol"}
          => balance = chain.balance

LEMMA V3StepViaKeeps ==
    ASSUME V3Inv, NEW between \in V3Words,
           NEW type, NEW amount, NEW initialized, NEW storage, NEW balance, NEW owed,
           V3Storage!EmitVia(between, type, amount),
           V3Legal(type, amount, initialized, storage, balance, owed)
    PROVE  V3Inv'
<1> USE DEF V3Legal
<1>1. chain.pools = {"pool"} /\ chain.balance \in Nat
  BY V3Pool
<1>2. /\ chain' \in V3State /\ chain'.pools = {"pool"} /\ chain'.storage = storage
      /\ chain'.balance = balance
  BY <1>1 DEF V3State
<1>a. amount \in Int /\ type \in V3EventTypes /\ type # "PoolCreated"
  OBVIOUS
<1>3. V3Fresh(chain')
  BY <1>2 DEF V3Fresh
<1>4. ASSUME NEW ev, ev = [type |-> type, tx |-> block.tx, amount |-> amount,
                           before |-> chain.storage, between |-> between,
                           after |-> chain'.storage]
      PROVE  V3Step(chain, chain', ev)
  <2>1. /\ ev.type = type /\ ev.amount = amount /\ ev.before = chain.storage
        /\ ev.after = chain'.storage
    BY <1>4
  <2>2. chain'.balance = chain.balance + V3Moved(ev)
    <3>1. CASE type \in {"Swap", "Mint", "Flash"}
      BY <1>1, <1>2, <2>1, <3>1 DEF V3Moved
    <3>2. CASE type \in {"Collect", "CollectProtocol"}
      BY <1>1, <1>2, <2>1, <3>2 DEF V3Moved
    <3>3. CASE type \notin {"Swap", "Mint", "Flash", "Collect", "CollectProtocol"}
      BY <1>1, <1>2, <2>1, <3>3 DEF V3Moved
    <3> QED  BY <3>1, <3>2, <3>3
  <2>3. ASSUME NEW a \in V3Storage!Attr, a \notin V3Storage!Locations(ev)
        PROVE  chain'.storage[a] = chain.storage[a]
    <3>1. a \in {"lower", "upper"} /\ type \notin {"Mint", "Burn", "Collect"}
      BY <2>1, <2>3 DEF V3Storage!Attr, V3Storage!Locations, V3Storage!TickSlots
    <3> QED  BY <1>2, <3>1
  <2> QED  BY <1>1, <1>2, <2>1, <2>2, <2>3 DEF V3Step
<1> HIDE DEF V3Legal
<1>5. V3Happens(between, type, amount)
  BY <1>4, <1>a DEF V3Happens
<1> QED  BY <1>2, <1>3, <1>5, V3EventKeeps

LEMMA V3StepKeeps ==
    ASSUME V3Inv, NEW type, NEW amount, NEW initialized, NEW storage, NEW balance, NEW owed,
           V3Storage!Emit(type, amount),
           V3Legal(type, amount, initialized, storage, balance, owed)
    PROVE  V3Inv'
<1>1. PICK between \in V3Words : between = chain.storage
  BY V3Pool
<1>2. V3Storage!EmitVia(between, type, amount)
  BY <1>1 DEF V3Storage!Emit
<1> QED  BY <1>2, V3StepViaKeeps

LEMMA V3InitializeKeeps ==
    ASSUME V3Inv, NEW tick \in V3Storage!Tick, V3Storage!Initialize(tick) PROVE V3Inv'
<1>1. chain.pools # {} /\ V3Storage!Emit("Initialize", 0)
      /\ chain' = [chain EXCEPT !.initialized = TRUE, !.storage["tick"] = tick]
  BY DEF V3Storage!Initialize
<1>2. PICK words : words = [chain.storage EXCEPT !["tick"] = tick]
  OBVIOUS
<1>3. words \in V3Words /\ words["lower"] = chain.storage["lower"]
      /\ words["upper"] = chain.storage["upper"]
  BY <1>2, V3Pool, V3WordSet DEF V3Words, V3Storage!Tick
<1>4. chain' = [pools |-> chain.pools, initialized |-> TRUE, storage |-> words,
                balance |-> chain.balance, owed |-> chain.owed]
  BY <1>1, <1>2, V3Pool
<1>5. chain.pools # {} /\ TRUE \in BOOLEAN
  BY <1>1
<1>6. V3Legal("Initialize", 0, TRUE, words, chain.balance, chain.owed)
  BY <1>3, <1>4, <1>5, V3Pool DEF V3Legal, V3EventTypes
<1> QED  BY <1>1, <1>6, V3StepKeeps

LEMMA V3SwapKeeps ==
    ASSUME V3Inv, NEW between \in V3Storage!Tick, NEW tick \in V3Storage!Tick,
           NEW delta \in {-1, 1}, NEW fee \in {0, 1},
           V3Storage!Swap(between, tick, delta, fee)
    PROVE  V3Inv'
<1> DEFINE passed == [chain.storage EXCEPT !["tick"] = between]
<1>1. /\ chain.initialized /\ V3Storage!EmitVia(passed, "Swap", delta)
      /\ chain.balance + delta >= 0
      /\ chain' = [chain EXCEPT
             !.balance = @ + delta,
             !.storage["tick"] = tick,
             !.storage["protocol_fees"] = @ + fee,
             !.storage["liquidity"] = V3Storage!ActiveAt(tick, chain.storage)]
  BY DEF V3Storage!Swap
<1>2. PICK active \in Int : active = V3Storage!ActiveAt(tick, chain.storage)
  BY V3Pool, V3WordSet DEF V3Storage!ActiveAt
<1>3. PICK words : words = [chain.storage EXCEPT !["tick"] = tick,
                                !["protocol_fees"] = @ + fee, !["liquidity"] = active]
  OBVIOUS
<1>4. words \in V3Words /\ words["lower"] = chain.storage["lower"]
      /\ words["upper"] = chain.storage["upper"]
  <2>1. chain.storage["protocol_fees"] + fee \in Int /\ tick \in Int
    BY V3Pool, V3WordSet DEF V3Storage!Tick
  <2> QED  BY <1>3, <2>1, V3Pool, V3WordSet DEF V3Words
<1>5. chain' = [pools |-> chain.pools, initialized |-> chain.initialized, storage |-> words,
                balance |-> chain.balance + delta, owed |-> chain.owed]
  BY <1>1, <1>2, <1>3, V3Pool
<1>6. chain.balance + delta \in Nat /\ delta \in Int
  BY <1>1, V3Pool
<1>7. chain.pools # {}
  BY <1>1, V3There, V3Pool
<1>8. V3Legal("Swap", delta, chain.initialized, words, chain.balance + delta, chain.owed)
  BY <1>4, <1>5, <1>6, <1>7, V3Pool DEF V3Legal, V3EventTypes
<1>9. passed \in V3Words
  BY V3Pool, V3WordSet DEF V3Storage!Tick
<1> HIDE DEF passed
<1> QED  BY <1>1, <1>8, <1>9, V3StepViaKeeps

LEMMA V3Positioned ==
    ASSUME V3Inv, NEW amount \in Int
    PROVE  V3Storage!Positioned(amount) \in V3Words
<1>1. PICK words \in V3Words : words = chain.storage
  BY V3Pool
<1>2. /\ words["lower"] + amount \in Int /\ words["upper"] - amount \in Int
      /\ (IF words["tick"] = 0 THEN words["liquidity"] + amount ELSE words["liquidity"]) \in Int
  BY V3WordSet
<1>3. V3Storage!Positioned(amount)
         = [words EXCEPT !["lower"] = words["lower"] + amount,
                         !["upper"] = words["upper"] - amount,
                         !["liquidity"] = IF words["tick"] = 0 THEN words["liquidity"] + amount
                                          ELSE words["liquidity"]]
  BY <1>1, V3WordSet DEF V3Storage!Positioned, V3Words
<1> QED  BY <1>2, <1>3 DEF V3Words

LEMMA V3MintKeeps == ASSUME V3Inv, V3Storage!Mint PROVE V3Inv'
<1>1. PICK words : words = V3Storage!Positioned(1)
  OBVIOUS
<1>2. /\ chain.initialized /\ V3Storage!Emit("Mint", 1)
      /\ chain' = [chain EXCEPT !.storage = words, !.balance = @ + 1]
  BY <1>1 DEF V3Storage!Mint
<1>3. words \in V3Words
  BY <1>1, V3Positioned
<1>4. chain' = [pools |-> chain.pools, initialized |-> chain.initialized, storage |-> words,
                balance |-> chain.balance + 1, owed |-> chain.owed]
  BY <1>2, V3Pool
<1>5. chain.pools # {}
  BY <1>2, V3There, V3Pool
<1>6. V3Legal("Mint", 1, chain.initialized, words, chain.balance + 1, chain.owed)
  BY <1>3, <1>4, <1>5, V3Pool DEF V3Legal, V3EventTypes
<1> QED  BY <1>2, <1>6, V3StepKeeps

LEMMA V3BurnKeeps == ASSUME V3Inv, V3Storage!Burn PROVE V3Inv'
<1>1. PICK words : words = V3Storage!Positioned(-1)
  OBVIOUS
<1>2. /\ chain.storage["lower"] > 0 /\ V3Storage!Emit("Burn", 1)
      /\ chain' = [chain EXCEPT !.storage = words, !.owed = @ + 1]
  BY <1>1 DEF V3Storage!Burn
<1>3. words \in V3Words
  BY <1>1, V3Positioned
<1>4. chain' = [pools |-> chain.pools, initialized |-> chain.initialized, storage |-> words,
                balance |-> chain.balance, owed |-> chain.owed + 1]
  BY <1>2, V3Pool
<1>5. chain.pools # {}
  BY <1>2, V3There
<1>6. V3Legal("Burn", 1, chain.initialized, words, chain.balance, chain.owed + 1)
  BY <1>3, <1>4, <1>5, V3Pool DEF V3Legal, V3EventTypes
<1> QED  BY <1>2, <1>6, V3StepKeeps

LEMMA V3CollectKeeps == ASSUME V3Inv, V3Storage!Collect PROVE V3Inv'
<1>1. /\ chain.owed > 0 /\ chain.balance > 0 /\ V3Storage!Emit("Collect", 1)
      /\ chain' = [chain EXCEPT !.owed = @ - 1, !.balance = @ - 1]
  BY DEF V3Storage!Collect
<1>2. chain' = [pools |-> chain.pools, initialized |-> chain.initialized,
                storage |-> chain.storage, balance |-> chain.balance - 1,
                owed |-> chain.owed - 1]
  BY <1>1, V3Pool
<1>3. chain.pools # {}
  BY <1>1, V3There
<1>4. chain.owed - 1 \in Nat /\ chain.balance - 1 \in Nat
  BY <1>1, V3Pool
<1>5. V3Legal("Collect", 1, chain.initialized, chain.storage, chain.balance - 1, chain.owed - 1)
  BY <1>2, <1>3, <1>4, V3Pool DEF V3Legal, V3EventTypes
<1> QED  BY <1>1, <1>5, V3StepKeeps

(* Fees and the share of the protocol move no liquidity.                   *)
LEMMA V3Reworded ==
    ASSUME V3Inv, NEW a \in {"protocol_fees", "fee_protocol"}, NEW n \in Int,
           NEW words, words = [chain.storage EXCEPT ![a] = n]
    PROVE  /\ words \in V3Words /\ words["lower"] = chain.storage["lower"]
           /\ words["upper"] = chain.storage["upper"]
BY V3Pool, V3WordSet DEF V3Words

LEMMA V3FlashKeeps == ASSUME V3Inv, V3Storage!Flash PROVE V3Inv'
<1>1. PICK fees \in Int : fees = chain.storage["protocol_fees"] + 1
  BY V3Pool, V3WordSet
<1>2. PICK words : words = [chain.storage EXCEPT !["protocol_fees"] = fees]
  OBVIOUS
<1>3. /\ chain.initialized /\ V3Storage!Emit("Flash", 1)
      /\ chain' = [chain EXCEPT !.storage["protocol_fees"] = @ + 1, !.balance = @ + 1]
  BY DEF V3Storage!Flash
<1>4. words \in V3Words /\ words["lower"] = chain.storage["lower"]
      /\ words["upper"] = chain.storage["upper"]
  BY <1>2, V3Reworded
<1>5. chain' = [pools |-> chain.pools, initialized |-> chain.initialized, storage |-> words,
                balance |-> chain.balance + 1, owed |-> chain.owed]
  BY <1>1, <1>2, <1>3, V3Pool
<1>6. chain.pools # {}
  BY <1>3, V3There, V3Pool
<1>7. V3Legal("Flash", 1, chain.initialized, words, chain.balance + 1, chain.owed)
  BY <1>4, <1>5, <1>6, V3Pool DEF V3Legal, V3EventTypes
<1> QED  BY <1>3, <1>7, V3StepKeeps

LEMMA V3CollectProtocolKeeps == ASSUME V3Inv, V3Storage!CollectProtocol PROVE V3Inv'
<1>1. PICK fees \in Int : fees = chain.storage["protocol_fees"] - 1
  BY V3Pool, V3WordSet
<1>2. PICK words : words = [chain.storage EXCEPT !["protocol_fees"] = fees]
  OBVIOUS
<1>3. /\ chain.storage["protocol_fees"] > 0 /\ chain.balance > 0
      /\ V3Storage!Emit("CollectProtocol", 1)
      /\ chain' = [chain EXCEPT !.storage["protocol_fees"] = @ - 1, !.balance = @ - 1]
  BY DEF V3Storage!CollectProtocol
<1>4. words \in V3Words /\ words["lower"] = chain.storage["lower"]
      /\ words["upper"] = chain.storage["upper"]
  BY <1>2, V3Reworded
<1>5. chain' = [pools |-> chain.pools, initialized |-> chain.initialized, storage |-> words,
                balance |-> chain.balance - 1, owed |-> chain.owed]
  BY <1>1, <1>2, <1>3, V3Pool
<1>6. chain.pools # {}
  BY <1>3, V3There
<1>7. chain.balance - 1 \in Nat
  BY <1>3, V3Pool
<1>8. V3Legal("CollectProtocol", 1, chain.initialized, words, chain.balance - 1, chain.owed)
  BY <1>4, <1>5, <1>6, <1>7, V3Pool DEF V3Legal, V3EventTypes
<1> QED  BY <1>3, <1>8, V3StepKeeps

LEMMA V3SetFeeProtocolKeeps == ASSUME V3Inv, V3Storage!SetFeeProtocol PROVE V3Inv'
<1>1. PICK share \in Int : share = 1 - chain.storage["fee_protocol"]
  BY V3Pool, V3WordSet
<1>2. PICK words : words = [chain.storage EXCEPT !["fee_protocol"] = share]
  OBVIOUS
<1>3. /\ chain.initialized /\ V3Storage!Emit("SetFeeProtocol", 0)
      /\ chain' = [chain EXCEPT !.storage["fee_protocol"] = 1 - @]
  BY DEF V3Storage!SetFeeProtocol
<1>4. words \in V3Words /\ words["lower"] = chain.storage["lower"]
      /\ words["upper"] = chain.storage["upper"]
  BY <1>2, V3Reworded
<1>5. chain' = [pools |-> chain.pools, initialized |-> chain.initialized, storage |-> words,
                balance |-> chain.balance, owed |-> chain.owed]
  BY <1>1, <1>2, <1>3, V3Pool
<1>6. chain.pools # {}
  BY <1>3, V3There, V3Pool
<1>7. V3Legal("SetFeeProtocol", 0, chain.initialized, words, chain.balance, chain.owed)
  BY <1>4, <1>5, <1>6, V3Pool DEF V3Legal, V3EventTypes
<1> QED  BY <1>3, <1>7, V3StepKeeps

LEMMA V3NextTxKeeps == ASSUME V3Inv, V3Storage!NextTx PROVE V3Inv'
<1>1. MaxTxs \in Nat \ {0}
  BY V3Constants
<1>2. PICK h, e : V3At(h, e)
  BY DEF V3Inv
<1>3. PICK t0 \in 1..MaxTxs : t0 = block.tx
  BY DEF V3Inv, V3Types
<1>4. /\ phase = "mine" /\ phase' = "mine"
      /\ UNCHANGED <<chain, stores, deltas, message, indexer>> /\ t0 < MaxTxs
      /\ block' = [block EXCEPT !.tx = t0 + 1, !.txEnd[t0 + 1] = chain]
  BY <1>3 DEF V3Storage!NextTx
<1>5. t0 + 1 \in 1..MaxTxs
  BY <1>1, <1>3, <1>4
<1>6. /\ block'.tx = t0 + 1 /\ block'.events = block.events
      /\ block'.txEnd = [block.txEnd EXCEPT ![t0 + 1] = chain]
      /\ block' \in [tx : 1..MaxTxs, events : Seq(V3Event), txEnd : [1..MaxTxs -> V3State]]
  <2> DEFINE TxEnds == [1..MaxTxs -> V3State]
  <2>1. block \in [tx : 1..MaxTxs, events : Seq(V3Event), txEnd : TxEnds]
    BY DEF V3Inv, V3Types
  <2>2. block.txEnd \in TxEnds
    BY <2>1
  <2>3. PICK ends : ends = [block.txEnd EXCEPT ![t0 + 1] = chain]
    OBVIOUS
  <2>4. ends \in TxEnds
    BY <1>5, <2>2, <2>3 DEF V3Inv, V3Types
  <2>5. block' = [block EXCEPT !.tx = t0 + 1, !.txEnd = ends]
    BY <1>4, <2>3
  <2> HIDE DEF TxEnds
  <2>6. block'.tx = t0 + 1 /\ block'.events = block.events /\ block'.txEnd = ends
        /\ block' \in [tx : 1..MaxTxs, events : Seq(V3Event), txEnd : TxEnds]
    BY <1>5, <2>1, <2>4, <2>5
  <2> QED  BY <2>3, <2>6 DEF TxEnds
<1>7. V3Types'
  BY <1>4, <1>6 DEF V3Inv, V3Types, V3Fresh
<1>8. /\ \A t \in 1..MaxTxs : t # t0 + 1 => block'.txEnd[t] = block.txEnd[t]
      /\ block'.txEnd[t0 + 1] = chain
  BY <1>5, <1>6 DEF V3Inv, V3Types
<1>9. \A t \in 1..t0 + 1 : t # t0 + 1 => t \in 1..t0 /\ t \in 1..MaxTxs
  BY <1>1, <1>3
<1>10. Ends(e, block.events, t0) /\ block.events \in Seq(V3Event)
  BY <1>2, <1>3 DEF V3At, V3Inv, V3Types
<1>11. Ends(e, block.events, t0 + 1)
  BY <1>1, <1>10, EndsNextTx
<1>12. e[t0 + 1] = Len(block.events)
  BY <1>1, <1>5, <1>10, <1>11, EndsFacts
<1>13. ASSUME NEW t \in 1..t0 + 1 PROVE block'.txEnd[t] = h[e[t]]
  <2>1. (\A u \in 1..t0 : block.txEnd[u] = h[e[u]]) /\ h[Len(block.events)] = chain
    BY <1>2, <1>3 DEF V3At
  <2>2. CASE t = t0 + 1
    BY <1>8, <1>12, <2>1, <2>2
  <2>3. CASE t # t0 + 1
    BY <1>8, <1>9, <2>1, <2>3
  <2> QED  BY <2>2, <2>3
<1>14. V3At(h, e)'
  <2>1. /\ V3History(h, block.events) /\ h[Len(block.events)] = chain
        /\ V3Fresh(h[0]) /\ indexer.components = h[0].pools /\ indexer.balance = h[0].balance
        /\ \A a \in V3Storage!Attr : V3Storage!Read(indexer.attributes[a]) = h[0].storage[a]
        /\ stores.pools = h[0].pools /\ stores.balance = h[0].balance
    BY <1>2, <1>4 DEF V3At
  <2>2. /\ V3History(h, block'.events) /\ h[Len(block'.events)] = chain'
        /\ indexer'.components = h[0].pools /\ indexer'.balance = h[0].balance
        /\ \A a \in V3Storage!Attr : V3Storage!Read(indexer'.attributes[a]) = h[0].storage[a]
        /\ stores'.pools = h[0].pools /\ stores'.balance = h[0].balance
    BY <1>4, <1>6, <2>1
  <2>3. Ends(e, block'.events, block'.tx) /\ \A t \in 1..block'.tx : block'.txEnd[t] = h[e[t]]
    BY <1>6, <1>11, <1>13
  <2> QED  BY <1>4, <2>1, <2>2, <2>3 DEF V3At
<1> QED  BY <1>4, <1>7, <1>14 DEF V3Inv, V3MessageInv

(* Along a history pools stay, and one is created at its first step only.  *)
LEMMA V3PoolsAlong ==
    ASSUME NEW evs \in Seq(V3Event), NEW h, V3History(h, evs), NEW i \in 1..Len(evs)
    PROVE  /\ h[i].pools = {"pool"} /\ h[i - 1].pools \subseteq {"pool"}
           /\ evs[i].type = "PoolCreated" <=> h[i - 1].pools = {}
           /\ evs[i].type = "PoolCreated" => i = 1
<1>1. PICK n \in Nat : n = Len(evs)
  OBVIOUS
<1>2. i \in 0..n /\ i - 1 \in 0..n /\ i \in 1..n
  BY <1>1
<1>3. V3Step(h[i - 1], h[i], evs[i]) /\ h[i - 1] \in V3State
  BY <1>1, <1>2 DEF V3History
<1>4. ASSUME i # 1 PROVE h[i - 1].pools = {"pool"}
  <2>1. i - 1 \in 1..n
    BY <1>2, <1>4
  <2>2. V3Step(h[(i - 1) - 1], h[i - 1], evs[i - 1])
    BY <1>1, <2>1 DEF V3History
  <2> QED  BY <2>2 DEF V3Step
<1>5. h[i - 1].pools \in SUBSET {"pool"}
  BY <1>3 DEF V3State
<1> QED  BY <1>3, <1>4, <1>5 DEF V3Step

LEMMA V3PoolsAtEnd ==
    ASSUME NEW evs \in Seq(V3Event), NEW h, V3History(h, evs), Len(evs) # 0
    PROVE  h[Len(evs)].pools = {"pool"}
<1>1. Len(evs) \in 1..Len(evs)
  OBVIOUS
<1> QED  BY <1>1, V3PoolsAlong

(* The pools of the block are known before its balances are computed.      *)
LEMMA V3BalanceChangesKeeps ==
    ASSUME V3Inv, V3Storage!MapBalanceChanges PROVE V3Inv'
<1>1. MaxTxs \in Nat \ {0}
  BY V3Constants
<1>2. PICK h, e : V3At(h, e)
  BY DEF V3Inv
<1>3. PICK t0 \in 1..MaxTxs : t0 = block.tx
  BY DEF V3Inv, V3Types
<1>4. PICK evs : evs = block.events
  OBVIOUS
<1>5. PICK n \in Nat : n = Len(evs)
  BY <1>4 DEF V3Inv, V3Types
<1>6. evs \in Seq(V3Event) /\ DOMAIN evs = 1..n /\ V3History(h, evs) /\ Ends(e, evs, t0)
      /\ h[n] = chain
  BY <1>2, <1>3, <1>4, <1>5 DEF V3At, V3Inv, V3Types
<1>7. PICK pools : pools = stores.pools \cup UNION {V3Storage!Created(t) : t \in V3Storage!Tx}
  OBVIOUS
<1>8. /\ phase = "mine" /\ phase' = "store" /\ UNCHANGED <<chain, block, message, indexer>>
      /\ stores' = [stores EXCEPT !.pools = pools]
      /\ deltas' = [i \in 1..n |-> IF i \in V3Storage!PoolEvents(pools)
                                   THEN V3Storage!BalanceDeltas(evs[i]) ELSE {}]
  BY <1>4, <1>6, <1>7 DEF V3Storage!MapBalanceChanges
<1>9. stores.pools = h[0].pools /\ h[0].pools \subseteq {"pool"}
  BY <1>2, <1>5, <1>6, <1>8 DEF V3At, V3History, V3State
<1>10. \A t : V3Storage!Created(t) \subseteq {"pool"}
               /\ (V3Storage!Created(t) # {} <=> \E i \in 1..n : evs[i].type = "PoolCreated"
                                                                  /\ evs[i].tx = t)
  BY <1>4, <1>6 DEF V3Storage!Created, V3Storage!Pools
<1>11. pools = chain.pools
  <2>1. CASE n = 0
    <3>1. \A t : V3Storage!Created(t) = {}
      BY <1>10, <2>1
    <3> QED  BY <1>6, <1>7, <1>9, <2>1, <3>1
  <2>2. CASE n # 0
    <3>1. chain.pools = {"pool"}
      BY <1>5, <1>6, <2>2, V3PoolsAtEnd
    <3>2. pools \subseteq {"pool"}
      BY <1>7, <1>9, <1>10
    <3>3. CASE h[0].pools # {}
      BY <1>7, <1>9, <3>1, <3>2, <3>3
    <3>4. CASE h[0].pools = {}
      <4>1. PICK i \in 1..n : i = 1
        BY <1>5, <2>2
      <4>2. evs[i].type = "PoolCreated"
        BY <1>5, <1>6, <3>4, <4>1, V3PoolsAlong
      <4>3. evs[i].tx \in 1..MaxTxs
        <5>1. PICK t : t = t0
          OBVIOUS
        <5> QED  BY <1>1, <1>3, <1>5, <1>6, <5>1, EndsSplit
      <4>4. V3Storage!Created(evs[i].tx) # {}
        BY <1>10, <4>2
      <4>5. V3Storage!Created(evs[i].tx) \subseteq pools
        BY <1>7, <4>3 DEF V3Storage!Tx
      <4> QED  BY <3>1, <3>2, <4>4, <4>5
    <3> QED  BY <3>3, <3>4
  <2> QED  BY <2>1, <2>2
<1>12. deltas' = [i \in 1..n |-> V3Storage!BalanceDeltas(evs[i])]
  <2>1. ASSUME NEW i \in 1..n, i \notin V3Storage!PoolEvents(pools)
        PROVE  V3Storage!BalanceDeltas(evs[i]) = {}
    <3>1. pools = {"pool"}
      <4>1. n # 0
        BY <1>5
      <4> QED  BY <1>5, <1>6, <1>11, <4>1, V3PoolsAtEnd
    <3>2. evs[i].type = "PoolCreated"
      BY <1>4, <1>6, <2>1, <3>1 DEF V3Storage!PoolEvents
    <3> QED  BY <3>2 DEF V3Storage!BalanceDeltas
  <2> QED  BY <1>8, <2>1
<1>13. /\ stores'.pools = chain.pools /\ stores'.balance = stores.balance
       /\ stores' \in [pools : SUBSET {"pool"}, balance : Int]
  BY <1>8, <1>11, V3Pool DEF V3Inv, V3Types
<1>14. V3Types'
  BY <1>8, <1>13 DEF V3Inv, V3Types, V3Fresh
<1>15. V3At(h, e)'
  <2>1. /\ V3History(h, block.events) /\ Ends(e, block.events, block.tx)
        /\ V3Fresh(h[0]) /\ h[Len(block.events)] = chain
        /\ \A t \in 1..block.tx : block.txEnd[t] = h[e[t]]
        /\ indexer.components = h[0].pools /\ indexer.balance = h[0].balance
        /\ \A a \in V3Storage!Attr : V3Storage!Read(indexer.attributes[a]) = h[0].storage[a]
        /\ stores.balance = h[0].balance
    BY <1>2, <1>8 DEF V3At
  <2>2. (/\ V3History(h, block.events) /\ Ends(e, block.events, block.tx)
         /\ V3Fresh(h[0]) /\ h[Len(block.events)] = chain
         /\ \A t \in 1..block.tx : block.txEnd[t] = h[e[t]]
         /\ indexer.components = h[0].pools /\ indexer.balance = h[0].balance
         /\ \A a \in V3Storage!Attr : V3Storage!Read(indexer.attributes[a]) = h[0].storage[a])'
    BY <1>8, <2>1
  <2>3. (deltas = [i \in 1..Len(block.events) |-> V3Storage!BalanceDeltas(block.events[i])])'
    BY <1>4, <1>5, <1>8, <1>12
  <2>4. (stores.pools = h[Len(block.events)].pools)' /\ (stores.balance = h[0].balance)'
    BY <1>4, <1>5, <1>6, <1>8, <1>13, <2>1
  <2> QED  BY <1>8, <2>2, <2>3, <2>4 DEF V3At
<1> QED  BY <1>8, <1>14, <1>15 DEF V3Inv, V3MessageInv

(* What the events say was moved adds up to the balance.                   *)
V3BalanceEq(f, start, ds, n) ==
    f = [i \in 0..n |-> IF i = 0 THEN start
                        ELSE IF ds[i] = {} THEN f[i - 1]
                        ELSE f[i - 1] + CHOOSE d \in ds[i] : TRUE]

LEMMA V3MovedIs ==
    \A e : /\ V3Storage!BalanceDeltas(e) = {} => V3Moved(e) = 0
           /\ V3Storage!BalanceDeltas(e) # {} => V3Storage!BalanceDeltas(e) = {V3Moved(e)}
BY DEF V3Storage!BalanceDeltas, V3Moved, V3Storage!PaidIn, V3Storage!PaidOut

LEMMA V3StoreBalancesKeeps ==
    ASSUME V3Inv, V3Storage!StorePoolsBalances PROVE V3Inv'
<1>1. PICK h, e : V3At(h, e)
  BY DEF V3Inv
<1>2. PICK evs : evs = block.events
  OBVIOUS
<1>3. PICK n \in Nat : n = Len(evs)
  BY <1>2 DEF V3Inv, V3Types
<1>4. PICK start : start = stores.balance
  OBVIOUS
<1>5. PICK ds : ds = [i \in 1..n |-> V3Storage!BalanceDeltas(evs[i])]
  OBVIOUS
<1>6. phase = "store" /\ deltas = ds /\ start = h[0].balance /\ V3History(h, evs)
  BY <1>1, <1>2, <1>3, <1>4, <1>5 DEF V3At, V3Storage!StorePoolsBalances
<1>7. PICK c : c = CHOOSE f : V3BalanceEq(f, start, ds, n)
  OBVIOUS
<1>8. /\ phase' = "map" /\ UNCHANGED <<chain, block, deltas, message, indexer>>
      /\ stores' = [stores EXCEPT !.balance = c[n]]
  BY <1>2, <1>3, <1>4, <1>6, <1>7 DEF V3Storage!StorePoolsBalances, V3BalanceEq
<1>9. PICK g : g = [i \in 0..n |-> h[i].balance]
  OBVIOUS
<1>10. ASSUME NEW i \in 1..n
       PROVE  /\ ds[i] = {} => g[i] = g[i - 1]
              /\ ds[i] # {} => g[i] = g[i - 1] + CHOOSE d \in ds[i] : TRUE
  <2>1. i \in 0..n /\ i - 1 \in 0..n
    OBVIOUS
  <2>2. g[i] = h[i].balance /\ g[i - 1] = h[i - 1].balance /\ ds[i] = V3Storage!BalanceDeltas(evs[i])
    BY <1>5, <1>9, <2>1
  <2>3. h[i].balance = h[i - 1].balance + V3Moved(evs[i])
    BY <1>3, <1>6 DEF V3History, V3Step
  <2>4. h[i - 1].balance \in Nat
    BY <1>3, <1>6, <2>1 DEF V3History, V3State
  <2>5. CASE ds[i] = {}
    <3>1. V3Moved(evs[i]) = 0
      BY <2>2, <2>5, V3MovedIs
    <3> QED  BY <2>2, <2>3, <2>4, <2>5, <3>1
  <2>6. CASE ds[i] # {}
    <3>1. ds[i] = {V3Moved(evs[i])}
      BY <2>2, <2>6, V3MovedIs
    <3>2. (CHOOSE d \in ds[i] : TRUE) = V3Moved(evs[i])
      BY <3>1
    <3> QED  BY <2>2, <2>3, <2>6, <3>2
  <2> QED  BY <2>5, <2>6
<1>11. V3BalanceEq(g, start, ds, n)
  <2>1. ASSUME NEW i \in 0..n
        PROVE  g[i] = IF i = 0 THEN start
                      ELSE IF ds[i] = {} THEN g[i - 1]
                      ELSE g[i - 1] + CHOOSE d \in ds[i] : TRUE
    <3>1. CASE i = 0
      BY <1>6, <1>9, <3>1
    <3>2. CASE i # 0
      <4>1. i \in 1..n
        BY <3>2
      <4> QED  BY <1>10, <3>2, <4>1
    <3> QED  BY <3>1, <3>2
  <2>2. g = [i \in 0..n |-> g[i]]
    BY <1>9
  <2> QED  BY <2>1, <2>2 DEF V3BalanceEq
<1>12. V3BalanceEq(c, start, ds, n)
  BY <1>7, <1>11
<1>13. Alike(c, g, n)
  <2>1. c[0] = g[0]
    BY <1>6, <1>9, <1>12 DEF V3BalanceEq
  <2>2. ASSUME NEW i \in 1..n, c[i - 1] = g[i - 1] PROVE c[i] = g[i]
    <3>1. i \in 0..n /\ i # 0
      OBVIOUS
    <3>2. c[i] = IF ds[i] = {} THEN c[i - 1] ELSE c[i - 1] + CHOOSE d \in ds[i] : TRUE
      BY <1>12, <3>1 DEF V3BalanceEq
    <3>3. g[i] = IF ds[i] = {} THEN g[i - 1] ELSE g[i - 1] + CHOOSE d \in ds[i] : TRUE
      BY <1>11, <3>1 DEF V3BalanceEq
    <3> QED  BY <2>2, <3>2, <3>3
  <2> QED  BY <2>1, <2>2 DEF Alike
<1>14. c[n] = h[n].balance
  <2>1. c[n] = g[n]
    BY <1>13, SameAlong
  <2> QED  BY <1>9, <2>1
<1>15. h[n] = chain /\ chain.balance \in Nat
  BY <1>1, <1>2, <1>3, V3Pool DEF V3At
<1>16. /\ stores'.pools = stores.pools /\ stores'.balance = h[n].balance
       /\ stores' \in [pools : SUBSET {"pool"}, balance : Int]
  BY <1>8, <1>14, <1>15 DEF V3Inv, V3Types
<1>17. V3Types'
  BY <1>8, <1>16 DEF V3Inv, V3Types, V3Fresh
<1>18. V3At(h, e)'
  <2>1. (/\ V3History(h, block.events) /\ Ends(e, block.events, block.tx)
         /\ V3Fresh(h[0]) /\ h[Len(block.events)] = chain
         /\ \A t \in 1..block.tx : block.txEnd[t] = h[e[t]]
         /\ indexer.components = h[0].pools /\ indexer.balance = h[0].balance
         /\ \A a \in V3Storage!Attr : V3Storage!Read(indexer.attributes[a]) = h[0].storage[a])'
    BY <1>1, <1>8 DEF V3At
  <2>2. stores.pools = h[n].pools
    BY <1>1, <1>2, <1>3, <1>6 DEF V3At
  <2>3. (stores.pools = h[Len(block.events)].pools)'
        /\ (stores.balance = h[Len(block.events)].balance)'
    BY <1>2, <1>3, <1>8, <1>16, <2>2
  <2> QED  BY <1>8, <2>1, <2>3 DEF V3At
<1> QED  BY <1>8, <1>17, <1>18 DEF V3Inv, V3MessageInv

LEMMA V3MapEventsKeeps ==
    ASSUME V3Inv, V3Storage!MapPoolEvents PROVE V3Inv'
<1>1. /\ phase = "map" /\ phase' = "apply" /\ UNCHANGED <<chain, block, stores, deltas, indexer>>
      /\ message' = [t \in 1..block.tx |->
             [components |-> V3Storage!Created(t), attributes |-> V3Storage!Attributes(t),
              balance |-> V3Storage!Balance(t)]]
  BY DEF V3Storage!MapPoolEvents
<1>2. PICK h, e : V3At(h, e)
  BY DEF V3Inv
<1>3. V3Types'
  BY <1>1 DEF V3Inv, V3Types, V3Fresh
<1>4. V3At(h, e)'
  BY <1>1, <1>2 DEF V3At
<1>5. V3MessageInv'
  <2>1. \A t : V3Storage!Created(t)' = V3Storage!Created(t)
    BY <1>1 DEF V3Storage!Created
  <2>2. \A known : V3Storage!PoolEvents(known)' = V3Storage!PoolEvents(known)
    BY <1>1 DEF V3Storage!PoolEvents
  <2>3. \A t : V3Storage!Attributes(t)' = V3Storage!Attributes(t)
    BY <1>1, <2>1, <2>2 DEF V3Storage!Attributes
  <2>4. \A t : V3Storage!Balance(t)' = V3Storage!Balance(t)
    BY <1>1, <2>2 DEF V3Storage!Balance
  <2> QED  BY <1>1, <2>1, <2>3, <2>4 DEF V3MessageInv
<1> QED  BY <1>3, <1>4, <1>5 DEF V3Inv
-----------------------------------------------------------------------------
(* What a transaction of the message says, by the history.                 *)
V3Said(h, e, t, said) ==
    /\ said.components \subseteq {"pool"}
    /\ h[e[t]].pools = h[e[t - 1]].pools \cup said.components
    /\ \A a \in V3Storage!Attr :
          /\ a \in DOMAIN said.attributes => said.attributes[a] = h[e[t]].storage[a]
          /\ a \notin DOMAIN said.attributes => h[e[t]].storage[a] = h[e[t - 1]].storage[a]
    /\ said.balance = {} => h[e[t]].balance = h[e[t - 1]].balance
    /\ said.balance # {} => said.balance = {chain.balance}

V3Still(h, attr, n, a, b) ==
    \A i \in 1..n : a < i /\ i <= b => h[i].storage[attr] = h[i - 1].storage[attr]

LEMMA V3StorageBetween ==
    ASSUME NEW n \in Nat, NEW h, NEW attr, NEW a \in 0..n, NEW b \in 0..n, a <= b,
           V3Still(h, attr, n, a, b)
    PROVE  h[b].storage[attr] = h[a].storage[attr]
<1>1. PICK f : f = [i \in 0..n |-> h[i].storage[attr]]
  OBVIOUS
<1>2. \A i \in a + 1..b : f[i] = f[i - 1]
  <2> TAKE i \in a + 1..b
  <2>1. i \in 1..n /\ i \in 0..n /\ i - 1 \in 0..n /\ a < i /\ i <= b
    OBVIOUS
  <2> QED  BY <1>1, <2>1 DEF V3Still
<1>3. a \in Nat /\ b \in Nat
  OBVIOUS
<1>4. f[b] = f[a]
  BY <1>2, <1>3, Unchanged
<1> QED  BY <1>1, <1>4

LEMMA V3BalanceBetween ==
    ASSUME NEW n \in Nat, NEW h, NEW a \in 0..n, NEW b \in 0..n, a <= b,
           \A i \in 1..n : a < i /\ i <= b => h[i].balance = h[i - 1].balance
    PROVE  h[b].balance = h[a].balance
<1>1. PICK f : f = [i \in 0..n |-> h[i].balance]
  OBVIOUS
<1>2. \A i \in a + 1..b : f[i] = f[i - 1]
  <2> TAKE i \in a + 1..b
  <2>1. i \in 1..n /\ i \in 0..n /\ i - 1 \in 0..n /\ a < i /\ i <= b
    OBVIOUS
  <2> QED  BY <1>1, <2>1
<1>3. a \in Nat /\ b \in Nat
  OBVIOUS
<1>4. f[b] = f[a]
  BY <1>2, <1>3, Unchanged
<1> QED  BY <1>1, <1>4

LEMMA V3Message ==
    ASSUME V3Inv, NEW h, NEW e, V3At(h, e), phase \in {"map", "apply"}, NEW t \in 1..block.tx
    PROVE  V3Said(h, e, t, [components |-> V3Storage!Created(t),
                            attributes |-> V3Storage!Attributes(t),
                            balance |-> V3Storage!Balance(t)])
<1>1. MaxTxs \in Nat \ {0}
  BY V3Constants
<1>2. PICK t0 \in 1..MaxTxs : t0 = block.tx
  BY DEF V3Inv, V3Types
<1>3. PICK evs : evs = block.events
  OBVIOUS
<1>4. PICK n \in Nat : n = Len(evs)
  BY <1>3 DEF V3Inv, V3Types
<1>5. evs \in Seq(V3Event) /\ V3History(h, evs) /\ Ends(e, evs, t0) /\ DOMAIN evs = 1..n
      /\ h[n] = chain /\ V3Fresh(h[0])
      /\ stores.pools = chain.pools /\ stores.balance = chain.balance
  BY <1>2, <1>3, <1>4 DEF V3At, V3Inv, V3Types
<1>6. t \in 1..MaxTxs /\ t \in 1..t0
  BY <1>1, <1>2
<1>7. e[t - 1] \in 0..n /\ e[t] \in 0..n /\ e[t - 1] <= e[t]
  BY <1>1, <1>2, <1>4, <1>5, <1>6, EndsFacts
<1>8. PICK lo \in 0..n : lo = e[t - 1]
  BY <1>7
<1>9. PICK hi \in 0..n : hi = e[t] /\ lo <= hi
  BY <1>7, <1>8
<1>10. \A i \in 1..n : evs[i].tx = t <=> lo < i /\ i <= hi
  BY <1>1, <1>2, <1>4, <1>5, <1>6, <1>8, <1>9, EndsSplit
<1>11. \A i \in 1..n : V3Step(h[i - 1], h[i], evs[i])
  BY <1>4, <1>5 DEF V3History
<1>12. \A i \in 1..n : i \in V3Storage!PoolEvents(stores.pools) <=> evs[i].type # "PoolCreated"
  <2> TAKE i \in 1..n
  <2>1. chain.pools = {"pool"}
    BY <1>4, <1>5, V3PoolsAtEnd
  <2> QED  BY <1>3, <1>5, <2>1 DEF V3Storage!PoolEvents
<1>13. V3Storage!PoolEvents(stores.pools) \subseteq 1..n
  BY <1>3, <1>5 DEF V3Storage!PoolEvents
<1>14. PICK logged : logged = V3Storage!PoolEvents(stores.pools)
  OBVIOUS
<1>15. PICK new : new = V3Storage!Created(t)
  OBVIOUS
<1>16. new \subseteq {"pool"} /\ (new # {} <=> \E i \in 1..n : evs[i].type = "PoolCreated"
                                                               /\ evs[i].tx = t)
  BY <1>3, <1>5, <1>15 DEF V3Storage!Created, V3Storage!Pools
<1>17. ASSUME new # {} PROVE lo = 0 /\ h[0].pools = {} /\ hi # 0
  <2>1. PICK i \in 1..n : evs[i].type = "PoolCreated" /\ evs[i].tx = t
    BY <1>16, <1>17
  <2>2. i = 1 /\ h[i - 1].pools = {}
    BY <1>4, <1>5, <2>1, V3PoolsAlong
  <2>3. lo < i /\ i <= hi
    BY <1>10, <2>1
  <2> QED  BY <1>8, <1>9, <2>2, <2>3
<1>18. h[hi].pools = h[lo].pools \cup new
  <2>1. CASE lo = hi
    BY <1>9, <1>17, <2>1
  <2>2. CASE lo # hi
    <3>1. lo + 1 \in 1..n /\ hi \in 1..n /\ lo + 1 <= hi /\ (lo + 1) - 1 = lo
      BY <1>9, <2>2
    <3>2. h[hi].pools = {"pool"}
      BY <1>4, <1>5, <3>1, V3PoolsAlong
    <3>3. PICK i \in 1..n : i = lo + 1 /\ i - 1 = lo
      BY <3>1
    <3>4. /\ h[lo].pools \subseteq {"pool"}
          /\ evs[i].type = "PoolCreated" <=> h[lo].pools = {}
      BY <1>4, <1>5, <3>3, V3PoolsAlong
    <3>5. h[lo].pools = {} => new # {}
      BY <1>10, <1>16, <3>1, <3>3, <3>4
    <3> QED  BY <1>16, <3>2, <3>4, <3>5
  <2> QED  BY <2>1, <2>2
<1> DEFINE changing(a) == {i \in logged : evs[i].tx = t /\ a \in V3Storage!ChangedAttributes(evs[i])}
           initial == IF new # {} THEN {"tick", "liquidity"} ELSE {}
<1>19. PICK A : A = V3Storage!Attributes(t)
  OBVIOUS
<1>20. A = [a \in initial \cup {a \in V3Storage!Attr : changing(a) # {}} |->
               IF changing(a) = {} THEN 0 ELSE evs[V3Storage!Max(changing(a))].after[a]]
  BY <1>3, <1>14, <1>15, <1>19 DEF V3Storage!Attributes
<1>21. \A a : changing(a) \subseteq 1..n
  BY <1>13, <1>14
<1>22. \A a, i : i \in changing(a) <=> /\ i \in 1..n /\ evs[i].type # "PoolCreated"
                                       /\ lo < i /\ i <= hi
                                       /\ a \in V3Storage!ChangedAttributes(evs[i])
  BY <1>10, <1>12, <1>13, <1>14
<1>23. initial \subseteq V3Storage!Attr
  BY V3WordSet
<1> HIDE DEF changing
<1>24. ASSUME NEW a \in V3Storage!Attr, NEW i \in 1..n, lo < i, i <= hi, i \notin changing(a)
       PROVE  h[i].storage[a] = h[i - 1].storage[a]
  <2>1. V3Step(h[i - 1], h[i], evs[i])
    BY <1>11
  <2>2. CASE evs[i].type = "PoolCreated"
    BY <2>1, <2>2 DEF V3Step
  <2>3. CASE evs[i].type # "PoolCreated"
    <3>1. a \notin V3Storage!ChangedAttributes(evs[i])
      BY <1>22, <1>24, <2>3
    <3>2. CASE a \in V3Storage!Locations(evs[i])
      <4>1. evs[i].before[a] = evs[i].after[a]
        BY <3>1, <3>2 DEF V3Storage!ChangedAttributes
      <4> QED  BY <2>1, <4>1 DEF V3Step
    <3>3. CASE a \notin V3Storage!Locations(evs[i])
      BY <2>1, <3>3 DEF V3Step
    <3> QED  BY <3>2, <3>3
  <2> QED  BY <2>2, <2>3
<1>25. ASSUME NEW a \in V3Storage!Attr, changing(a) # {}
       PROVE  evs[V3Storage!Max(changing(a))].after[a] = h[hi].storage[a]
  <2>1. PICK S : S = changing(a)
    OBVIOUS
  <2>2. S \subseteq 1..n /\ S # {}
    BY <1>21, <1>25, <2>1
  <2>3. PICK m \in S : m = V3Storage!Max(S) /\ \A i \in S : i <= m
    <3>1. \E m \in S : \A i \in S : i <= m
      BY <2>2, LastIndex
    <3> QED  BY <3>1 DEF V3Storage!Max
  <2>4. m \in 1..n /\ m \in 0..n /\ lo < m /\ m <= hi
    BY <1>22, <2>1, <2>2, <2>3
  <2>5. \A i \in 1..n : m < i /\ i <= hi => h[i].storage[a] = h[i - 1].storage[a]
    <3> SUFFICES ASSUME NEW i \in 1..n, m < i, i <= hi PROVE h[i].storage[a] = h[i - 1].storage[a]
      OBVIOUS
    <3>1. i \notin S
      BY <2>3, <2>4
    <3>2. lo < i
      BY <1>8, <2>4
    <3> QED  BY <1>24, <2>1, <3>1, <3>2
  <2>6. h[hi].storage[a] = h[m].storage[a]
    <3>1. V3Still(h, a, n, m, hi)
      BY <2>5 DEF V3Still
    <3> QED  BY <2>4, <3>1, V3StorageBetween
  <2>7. evs[m].after = h[m].storage
    BY <1>11, <2>4 DEF V3Step
  <2> QED  BY <2>1, <2>3, <2>6, <2>7
<1>26. ASSUME NEW a \in V3Storage!Attr, changing(a) = {}
       PROVE  h[hi].storage[a] = h[lo].storage[a]
  <2>1. \A i \in 1..n : lo < i /\ i <= hi => h[i].storage[a] = h[i - 1].storage[a]
    BY <1>24, <1>26
  <2>2. V3Still(h, a, n, lo, hi)
    BY <2>1 DEF V3Still
  <2> QED  BY <1>9, <2>2, V3StorageBetween
<1>27. ASSUME NEW a \in V3Storage!Attr, a \in DOMAIN A PROVE A[a] = h[hi].storage[a]
  <2>1. CASE changing(a) # {}
    <3>1. A[a] = evs[V3Storage!Max(changing(a))].after[a]
      BY <1>20, <1>27, <2>1
    <3> QED  BY <1>25, <2>1, <3>1
  <2>2. CASE changing(a) = {}
    <3>1. A[a] = 0 /\ new # {}
      BY <1>20, <1>27, <2>2
    <3>2. lo = 0 /\ h[0].pools = {}
      BY <1>17, <3>1
    <3>3. h[0].storage[a] = 0
      BY <1>5, <3>2 DEF V3Fresh
    <3> QED  BY <1>26, <2>2, <3>1, <3>2, <3>3
  <2> QED  BY <2>1, <2>2
<1>28. ASSUME NEW a \in V3Storage!Attr, a \notin DOMAIN A
       PROVE  h[hi].storage[a] = h[lo].storage[a]
  <2>1. changing(a) = {}
    BY <1>20, <1>28
  <2> QED  BY <1>26, <2>1
<1>29. PICK B : B = V3Storage!Balance(t)
  OBVIOUS
<1>30. B = IF \E i \in logged : evs[i].tx = t /\ V3Storage!BalanceDeltas(evs[i]) # {}
           THEN {V3Storage!Magnitude(chain.balance)} ELSE {}
  BY <1>3, <1>5, <1>14, <1>29 DEF V3Storage!Balance
<1>31. B # {} => B = {chain.balance}
  <2>1. V3Storage!Magnitude(chain.balance) = chain.balance
    BY V3Pool DEF V3Storage!Magnitude
  <2> QED  BY <1>30, <2>1
<1>32. ASSUME B = {} PROVE h[hi].balance = h[lo].balance
  <2>1. ASSUME NEW i \in 1..n, lo < i, i <= hi PROVE h[i].balance = h[i - 1].balance
    <3>1. V3Storage!BalanceDeltas(evs[i]) = {}
      <4>1. CASE evs[i].type = "PoolCreated"
        BY <4>1 DEF V3Storage!BalanceDeltas
      <4>2. CASE evs[i].type # "PoolCreated"
        BY <1>10, <1>12, <1>14, <1>30, <1>32, <2>1, <4>2
      <4> QED  BY <4>1, <4>2
    <3>2. V3Moved(evs[i]) = 0
      BY <3>1, V3MovedIs
    <3>3. h[i].balance = h[i - 1].balance + V3Moved(evs[i])
      BY <1>11 DEF V3Step
    <3>4. i - 1 \in 0..n
      OBVIOUS
    <3>5. h[i - 1].balance \in Nat
      BY <1>4, <1>5, <3>4 DEF V3History, V3State
    <3> QED  BY <3>2, <3>3, <3>5
  <2> QED  BY <1>9, <2>1, V3BalanceBetween
<1>33. PICK said : said = [components |-> V3Storage!Created(t),
                           attributes |-> V3Storage!Attributes(t),
                           balance |-> V3Storage!Balance(t)]
  OBVIOUS
<1>34. said.components = new /\ said.attributes = A /\ said.balance = B
  BY <1>15, <1>19, <1>29, <1>33
<1>35. V3Said(h, e, t, said)
  BY <1>8, <1>9, <1>16, <1>18, <1>27, <1>28, <1>31, <1>32, <1>34 DEF V3Said
<1> QED  BY <1>33, <1>35

-----------------------------------------------------------------------------
(* What the consumer knows after each transaction: the pool and its        *)
(* storage there, and a balance that is the one there or the final one.    *)
V3Known == [components : SUBSET {"pool"}, attributes : [V3Storage!Attr -> Int \cup {Absent}],
            balance : Int]

V3KnownEq(f) ==
    f = [n \in 0..Len(message) |->
            IF n = 0 THEN indexer ELSE V3Storage!ApplyTx(f[n - 1], message[n])]

V3Knows(known, state) ==
    /\ known \in V3Known
    /\ known.components = state.pools
    /\ \A a \in V3Storage!Attr : V3Storage!Read(known.attributes[a]) = state.storage[a]
    /\ known.balance \in {state.balance, chain.balance}

LEMMA V3ApplyTyped ==
    ASSUME V3Inv, NEW h, NEW e, V3At(h, e), phase = "apply", NEW t \in 1..block.tx,
           NEW known \in V3Known
    PROVE  V3Storage!ApplyTx(known, message[t]) \in V3Known
<1>1. MaxTxs \in Nat \ {0}
  BY V3Constants
<1>2. PICK t0 \in 1..MaxTxs : t0 = block.tx
  BY DEF V3Inv, V3Types
<1>3. PICK said : said = message[t]
  OBVIOUS
<1>4. V3Said(h, e, t, said)
  BY <1>3, V3Message DEF V3Inv, V3MessageInv
<1>5. h[e[t]].storage \in V3Words
  <2>1. PICK evs : evs = block.events
    OBVIOUS
  <2>2. evs \in Seq(V3Event) /\ V3History(h, evs) /\ Ends(e, evs, t0) /\ t \in 0..MaxTxs
    BY <1>1, <1>2, <2>1 DEF V3At, V3Inv, V3Types
  <2>3. e[t] \in 0..Len(evs)
    BY <1>1, <1>2, <2>2, EndsFacts
  <2> QED  BY <2>2, <2>3 DEF V3History, V3State
<1>6. PICK now : now = V3Storage!Updated(known.attributes, said.attributes)
  OBVIOUS
<1>7. now \in [V3Storage!Attr -> Int \cup {Absent}]
  <2>1. known.attributes \in [V3Storage!Attr -> Int \cup {Absent}]
    BY DEF V3Known
  <2>2. \A a \in V3Storage!Attr : a \in DOMAIN said.attributes => said.attributes[a] \in Int
    BY <1>4, <1>5 DEF V3Said, V3Words
  <2> QED  BY <1>6, <2>1, <2>2 DEF V3Storage!Updated
<1>8. PICK balance : balance = IF said.balance = {} THEN known.balance
                               ELSE CHOOSE b \in said.balance : TRUE
  OBVIOUS
<1>9. balance \in Int
  <2>1. said.balance # {} => said.balance = {chain.balance}
    BY <1>4 DEF V3Said
  <2>2. chain.balance \in Int /\ known.balance \in Int
    BY V3Pool DEF V3Known
  <2>3. CASE said.balance = {}
    BY <1>8, <2>2, <2>3
  <2>4. CASE said.balance # {}
    <3>1. balance \in {chain.balance}
      BY <1>8, <2>1, <2>4
    <3> QED  BY <2>2, <3>1
  <2> QED  BY <2>3, <2>4
<1>10. known.components \cup said.components \in SUBSET {"pool"}
  BY <1>4 DEF V3Said, V3Known
<1>11. V3Storage!ApplyTx(known, said) = [components |-> known.components \cup said.components,
                                         attributes |-> now, balance |-> balance]
  BY <1>6, <1>8 DEF V3Storage!ApplyTx
<1> QED  BY <1>3, <1>7, <1>9, <1>10, <1>11 DEF V3Known

LEMMA V3Apply ==
    ASSUME V3Inv, NEW h, NEW e, V3At(h, e), phase = "apply", NEW t \in 1..block.tx,
           NEW known, V3Knows(known, h[e[t - 1]])
    PROVE  V3Knows(V3Storage!ApplyTx(known, message[t]), h[e[t]])
<1>1. PICK said : said = message[t]
  OBVIOUS
<1>2. V3Said(h, e, t, said)
  BY <1>1, V3Message DEF V3Inv, V3MessageInv
<1>3. PICK now : now = V3Storage!ApplyTx(known, said)
  OBVIOUS
<1>4. now \in V3Known
  BY <1>1, <1>3, V3ApplyTyped DEF V3Knows
<1>5. /\ now.components = known.components \cup said.components
      /\ now.attributes = V3Storage!Updated(known.attributes, said.attributes)
      /\ now.balance = IF said.balance = {} THEN known.balance
                       ELSE CHOOSE b \in said.balance : TRUE
  BY <1>3 DEF V3Storage!ApplyTx
<1>6. now.components = h[e[t]].pools
  BY <1>2, <1>5 DEF V3Said, V3Knows
<1>7. ASSUME NEW a \in V3Storage!Attr
      PROVE  V3Storage!Read(now.attributes[a]) = h[e[t]].storage[a]
  <2>1. DOMAIN known.attributes = V3Storage!Attr
    BY DEF V3Knows, V3Known
  <2>2. V3Storage!Read(known.attributes[a]) = h[e[t - 1]].storage[a]
    BY DEF V3Knows
  <2>3. CASE a \notin DOMAIN said.attributes
    <3>1. now.attributes[a] = known.attributes[a]
      BY <1>5, <2>1, <2>3 DEF V3Storage!Updated
    <3> QED  BY <1>2, <2>2, <2>3, <3>1 DEF V3Said
  <2>4. CASE a \in DOMAIN said.attributes
    <3>1. now.attributes[a] = said.attributes[a]
      BY <1>5, <2>1, <2>4 DEF V3Storage!Updated
    <3>2. now.attributes[a] = h[e[t]].storage[a]
      BY <1>2, <2>4, <3>1 DEF V3Said
    <3>3. now.attributes[a] \in Int
      <4>1. MaxTxs \in Nat \ {0}
        BY V3Constants
      <4>2. PICK t0 \in 1..MaxTxs : t0 = block.tx
        BY DEF V3Inv, V3Types
      <4>3. PICK evs : evs = block.events
        OBVIOUS
      <4>4. evs \in Seq(V3Event) /\ V3History(h, evs) /\ Ends(e, evs, t0) /\ t \in 0..MaxTxs
        BY <4>1, <4>2, <4>3 DEF V3At, V3Inv, V3Types
      <4>5. e[t] \in 0..Len(evs)
        BY <4>1, <4>2, <4>4, EndsFacts
      <4> QED  BY <3>2, <4>4, <4>5 DEF V3History, V3State, V3Words
    <3>4. now.attributes[a] # Absent
      BY <3>3, V3Constants
    <3> QED  BY <3>2, <3>4 DEF V3Storage!Read
  <2> QED  BY <2>3, <2>4
<1>8. now.balance \in {h[e[t]].balance, chain.balance}
  <2>1. CASE said.balance = {}
    <3>1. now.balance = known.balance /\ h[e[t]].balance = h[e[t - 1]].balance
      BY <1>2, <1>5, <2>1 DEF V3Said
    <3> QED  BY <3>1 DEF V3Knows
  <2>2. CASE said.balance # {}
    <3>1. said.balance = {chain.balance}
      BY <1>2, <2>2 DEF V3Said
    <3> QED  BY <1>5, <2>2, <3>1
  <2> QED  BY <2>1, <2>2
<1> QED  BY <1>1, <1>3, <1>4, <1>6, <1>7, <1>8 DEF V3Knows

LEMMA V3KnownAfter ==
    ASSUME V3Inv, NEW h, NEW e, V3At(h, e), phase = "apply", NEW t \in 0..block.tx
    PROVE  V3Knows(V3Storage!KnownAfter(t), h[e[t]])
<1>1. MaxTxs \in Nat \ {0}
  BY V3Constants
<1>2. PICK t0 \in 1..MaxTxs : t0 = block.tx
  BY DEF V3Inv, V3Types
<1>3. Len(message) = t0 /\ t0 \in Nat
  BY <1>2 DEF V3Inv, V3MessageInv
<1>4. V3Knows(indexer, h[e[0]])
  <2>1. e[0] = 0 /\ indexer \in V3Known
    BY DEF V3At, Ends, V3Inv, V3Types, V3Known
  <2>2. /\ indexer.components = h[0].pools /\ indexer.balance = h[0].balance
        /\ \A a \in V3Storage!Attr : V3Storage!Read(indexer.attributes[a]) = h[0].storage[a]
    BY DEF V3At
  <2> QED  BY <2>1, <2>2 DEF V3Knows
<1>5. PICK step : step = [p \in (1..t0) \X V3Known |-> V3Storage!ApplyTx(p[2], message[p[1]])]
  OBVIOUS
<1>6. step \in [(1..t0) \X V3Known -> V3Known]
  <2>1. ASSUME NEW p \in (1..t0) \X V3Known
        PROVE  V3Storage!ApplyTx(p[2], message[p[1]]) \in V3Known
    <3>1. p[1] \in 1..block.tx /\ p[2] \in V3Known
      BY <1>2
    <3> QED  BY <3>1, V3ApplyTyped
  <2> QED  BY <1>5, <2>1
<1>7. PICK f \in [0..t0 -> V3Known] : Unfolds(f, indexer, step, t0)
  <2>1. indexer \in V3Known
    BY <1>4 DEF V3Knows
  <2>2. PICK X : X = V3Known
    OBVIOUS
  <2>3. \E f \in [0..t0 -> X] : Unfolds(f, indexer, step, t0)
    BY <1>3, <1>6, <2>1, <2>2, Recursion
  <2> QED  BY <2>2, <2>3
<1>8. V3KnownEq(f)
  <2>1. ASSUME NEW i \in 0..t0
        PROVE  f[i] = IF i = 0 THEN indexer ELSE V3Storage!ApplyTx(f[i - 1], message[i])
    <3>1. CASE i = 0
      BY <1>7, <3>1 DEF Unfolds
    <3>2. CASE i # 0
      <4>1. i \in 1..t0 /\ i - 1 \in 0..t0
        BY <3>2
      <4>2. f[i - 1] \in V3Known
        BY <1>7, <4>1
      <4>3. f[i] = step[<<i, f[i - 1]>>]
        BY <1>7, <4>1 DEF Unfolds
      <4>4. step[<<i, f[i - 1]>>] = V3Storage!ApplyTx(f[i - 1], message[i])
        BY <1>5, <4>1, <4>2
      <4> QED  BY <3>2, <4>3, <4>4
    <3> QED  BY <3>1, <3>2
  <2>2. f = [i \in 0..t0 |-> f[i]]
    BY <1>7
  <2> QED  BY <1>3, <2>1, <2>2 DEF V3KnownEq
<1>9. PICK c : c = CHOOSE f2 : V3KnownEq(f2)
  OBVIOUS
<1>10. V3KnownEq(c)
  BY <1>8, <1>9
<1>11. V3Storage!KnownAfter(t) = c[t]
  BY <1>9 DEF V3Storage!KnownAfter, V3KnownEq
<1> DEFINE S == {i \in 0..t0 : V3Knows(c[i], h[e[i]])}
<1>12. 0 \in S
  BY <1>3, <1>4, <1>10 DEF V3KnownEq
<1>13. ASSUME NEW i \in 0..t0, i < t0, i \in S PROVE i + 1 \in S
  <2>1. PICK j \in 1..block.tx : j = i + 1 /\ j - 1 = i /\ j \in 0..t0 /\ j # 0
    BY <1>2, <1>13
  <2>2. c[j] = V3Storage!ApplyTx(c[j - 1], message[j])
    BY <1>3, <1>10, <2>1 DEF V3KnownEq
  <2>3. V3Knows(c[j - 1], h[e[j - 1]])
    BY <1>13, <2>1
  <2>4. V3Knows(c[j], h[e[j]])
    BY <2>2, <2>3, V3Apply
  <2> QED  BY <2>1, <2>4
<1>14. \A i \in 0..t0 : i \in S
  <2> HIDE DEF S
  <2>1. PICK a, b : a = 0 /\ b = t0
    OBVIOUS
  <2>2. a \in Nat /\ b \in Nat /\ a \in S /\ \A i \in a..b : i < b /\ i \in S => i + 1 \in S
    BY <1>3, <1>12, <1>13, <2>1
  <2>3. \A i \in a..b : i \in S
    BY <2>2, FromTo
  <2> QED  BY <2>1, <2>3
<1> QED  BY <1>2, <1>11, <1>14
(* The consumer has the block: the history starts anew.                    *)
LEMMA V3ApplyKeeps == ASSUME V3Inv, V3Storage!Apply PROVE V3Inv'
<1>1. MaxTxs \in Nat \ {0}
  BY V3Constants
<1>2. PICK h, e : V3At(h, e)
  BY DEF V3Inv
<1>3. PICK t0 \in 1..MaxTxs : t0 = block.tx
  BY DEF V3Inv, V3Types
<1>4. /\ phase = "apply" /\ phase' = "mine" /\ UNCHANGED <<chain, stores>>
      /\ indexer' = V3Storage!KnownAfter(Len(message))
      /\ block' = [tx |-> 1, events |-> <<>>, txEnd |-> [t \in 1..MaxTxs |-> chain]]
  BY DEF V3Storage!Apply, V3Storage!NewBlock, V3Storage!Tx
<1>5. Len(message) = t0
  BY <1>3, <1>4 DEF V3Inv, V3MessageInv
<1>6. PICK n \in Nat : n = Len(block.events)
  BY DEF V3Inv, V3Types
<1>7. h[e[t0]] = chain
  <2>1. PICK evs : evs = block.events
    OBVIOUS
  <2>2. evs \in Seq(V3Event) /\ Ends(e, evs, t0) /\ h[Len(evs)] = chain
    BY <1>2, <1>3, <2>1 DEF V3At, V3Inv, V3Types
  <2>3. e[t0] = Len(evs)
    BY <1>1, <1>3, <2>2, EndsFacts
  <2> QED  BY <2>2, <2>3
<1>8. V3Knows(indexer', chain)
  <2>1. t0 \in 0..block.tx
    BY <1>3
  <2>2. V3Knows(V3Storage!KnownAfter(t0), h[e[t0]])
    BY <1>2, <1>4, <2>1, V3KnownAfter
  <2> QED  BY <1>4, <1>5, <1>7, <2>2
<1>9. /\ indexer'.components = chain.pools /\ indexer'.balance = chain.balance
      /\ \A a \in V3Storage!Attr : V3Storage!Read(indexer'.attributes[a]) = chain.storage[a]
      /\ indexer' \in V3Known
  BY <1>8 DEF V3Knows
<1>10. stores.pools = chain.pools /\ stores.balance = chain.balance
  BY <1>2, <1>4, <1>6 DEF V3At
<1>11. chain \in V3State /\ V3Fresh(chain)
  BY DEF V3Inv, V3Types
<1>12. V3Types'
  <2>1. PICK S : S = V3State
    OBVIOUS
  <2>2. 1 \in 1..MaxTxs /\ <<>> \in Seq(V3Event) /\ [t \in 1..MaxTxs |-> chain] \in [1..MaxTxs -> S]
    BY <1>1, <1>11, <2>1
  <2>3. block' \in [tx : 1..MaxTxs, events : Seq(V3Event), txEnd : [1..MaxTxs -> S]]
    BY <1>4, <2>2
  <2>4. indexer' \in [components : SUBSET {"pool"},
                      attributes : [V3Storage!Attr -> Int \cup {Absent}], balance : Int]
    BY <1>9 DEF V3Known
  <2>5. (chain \in V3State /\ V3Fresh(chain))'
    BY <1>4, <1>11 DEF V3Fresh
  <2>6. (stores \in [pools : SUBSET {"pool"}, balance : Int])'
    BY <1>4 DEF V3Inv, V3Types
  <2> QED  BY <1>4, <2>1, <2>3, <2>4, <2>5, <2>6 DEF V3Types
<1>13. PICK h2 : h2 = [i \in 0..0 |-> chain]
  OBVIOUS
<1>14. PICK e2 : e2 = [t \in 0..MaxTxs |-> 0]
  OBVIOUS
<1>15. h2[0] = chain /\ block'.events = <<>> /\ block'.tx = 1 /\ Len(block'.events) = 0
  BY <1>4, <1>13
<1>16. V3History(h2, block'.events)
  BY <1>11, <1>13, <1>15 DEF V3History
<1>17. Ends(e2, block'.events, block'.tx)
  BY <1>1, <1>14, <1>15, EndsNew
<1>18. \A t \in 1..block'.tx : block'.txEnd[t] = h2[e2[t]]
  <2>1. \A t \in 1..block'.tx : t \in 1..MaxTxs /\ t \in 0..MaxTxs
    BY <1>1, <1>15
  <2>2. (\A t \in 1..MaxTxs : block'.txEnd[t] = chain) /\ \A t \in 0..MaxTxs : e2[t] = 0
    BY <1>4, <1>14
  <2> QED  BY <1>15, <2>1, <2>2
<1>19. V3At(h2, e2)'
  <2>1. /\ V3Fresh(h2[0]) /\ h2[Len(block'.events)] = chain'
        /\ indexer'.components = h2[0].pools /\ indexer'.balance = h2[0].balance
        /\ \A a \in V3Storage!Attr : V3Storage!Read(indexer'.attributes[a]) = h2[0].storage[a]
        /\ stores'.pools = h2[0].pools /\ stores'.balance = h2[0].balance
    BY <1>4, <1>9, <1>10, <1>11, <1>15
  <2> QED  BY <1>4, <1>16, <1>17, <1>18, <2>1 DEF V3At
<1> QED  BY <1>4, <1>12, <1>19 DEF V3Inv, V3MessageInv

LEMMA V3NextInv == V3Inv /\ [V3Storage!Next]_V3Storage!vars => V3Inv'
<1> SUFFICES ASSUME V3Inv, [V3Storage!Next]_V3Storage!vars PROVE V3Inv'
  OBVIOUS
<1>1. CASE V3Storage!CreatePool
  BY <1>1, V3CreateKeeps
<1>2. ASSUME NEW tick \in V3Storage!Tick, V3Storage!Initialize(tick) PROVE V3Inv'
  BY <1>2, V3InitializeKeeps
<1>3. ASSUME NEW between \in V3Storage!Tick, NEW tick \in V3Storage!Tick,
             NEW delta \in {-1, 1}, NEW fee \in {0, 1},
             V3Storage!Swap(between, tick, delta, fee)
      PROVE  V3Inv'
  BY <1>3, V3SwapKeeps
<1>4. CASE V3Storage!Mint
  BY <1>4, V3MintKeeps
<1>5. CASE V3Storage!Burn
  BY <1>5, V3BurnKeeps
<1>6. CASE V3Storage!Collect
  BY <1>6, V3CollectKeeps
<1>7. CASE V3Storage!Flash
  BY <1>7, V3FlashKeeps
<1>8. CASE V3Storage!CollectProtocol
  BY <1>8, V3CollectProtocolKeeps
<1>9. CASE V3Storage!SetFeeProtocol
  BY <1>9, V3SetFeeProtocolKeeps
<1>10. CASE V3Storage!NextTx
  BY <1>10, V3NextTxKeeps
<1>11. CASE V3Storage!MapBalanceChanges
  BY <1>11, V3BalanceChangesKeeps
<1>12. CASE V3Storage!StorePoolsBalances
  BY <1>12, V3StoreBalancesKeeps
<1>13. CASE V3Storage!MapPoolEvents
  BY <1>13, V3MapEventsKeeps
<1>14. CASE V3Storage!Apply
  BY <1>14, V3ApplyKeeps
<1>15. CASE UNCHANGED V3Storage!vars
  <2>1. UNCHANGED <<chain, block, phase, stores, deltas, message, indexer>>
    BY <1>15 DEF V3Storage!vars
  <2>2. V3Types'
    BY <2>1 DEF V3Inv, V3Types, V3Fresh
  <2>3. V3MessageInv'
    <3>1. \A t : V3Storage!Created(t)' = V3Storage!Created(t)
      BY <2>1 DEF V3Storage!Created
    <3>2. \A known : V3Storage!PoolEvents(known)' = V3Storage!PoolEvents(known)
      BY <2>1 DEF V3Storage!PoolEvents
    <3>3. \A t : V3Storage!Attributes(t)' = V3Storage!Attributes(t)
      BY <2>1, <3>1, <3>2 DEF V3Storage!Attributes
    <3>4. \A t : V3Storage!Balance(t)' = V3Storage!Balance(t)
      BY <2>1, <3>2 DEF V3Storage!Balance
    <3> QED  BY <2>1, <3>1, <3>3, <3>4 DEF V3Inv, V3MessageInv
  <2>4. PICK h, e : V3At(h, e)
    BY DEF V3Inv
  <2>5. V3At(h, e)'
    BY <2>1, <2>4 DEF V3At
  <2> QED  BY <2>2, <2>3, <2>5 DEF V3Inv
<1> QED  BY <1>1, <1>2, <1>3, <1>4, <1>5, <1>6, <1>7, <1>8, <1>9, <1>10, <1>11, <1>12, <1>13,
            <1>14, <1>15 DEF V3Storage!Next

LEMMA V3InvMirrors == V3Inv => V3Storage!StorageMirrored /\ V3Storage!BalanceMirroredPerBlock
<1> SUFFICES ASSUME V3Inv PROVE V3Storage!StorageMirrored /\ V3Storage!BalanceMirroredPerBlock
  OBVIOUS
<1>1. PICK h, e : V3At(h, e)
  BY DEF V3Inv
<1>2. ASSUME phase = "apply", NEW t \in 1..block.tx
      PROVE  V3Knows(V3Storage!KnownAfter(t), block.txEnd[t])
  <2>1. t \in 0..block.tx
    BY DEF V3Inv, V3Types
  <2>2. V3Knows(V3Storage!KnownAfter(t), h[e[t]])
    BY <1>1, <1>2, <2>1, V3KnownAfter
  <2> QED  BY <1>1, <2>2 DEF V3At
<1>3. V3Storage!StorageMirrored
  BY <1>2 DEF V3Storage!StorageMirrored, V3Knows
<1>4. phase = "mine" /\ block.events = <<>> => indexer.balance = chain.balance
  BY <1>1 DEF V3At
<1>5. ASSUME phase = "apply", NEW t \in 1..block.tx
      PROVE  message[t].balance \subseteq {chain.balance}
  <2>1. PICK said : said = message[t]
    OBVIOUS
  <2>2. V3Said(h, e, t, said)
    BY <1>1, <1>5, <2>1, V3Message DEF V3Inv, V3MessageInv
  <2> QED  BY <2>1, <2>2 DEF V3Said
<1> QED  BY <1>3, <1>4, <1>5 DEF V3Storage!BalanceMirroredPerBlock

V3StorageRunning == integration = "uniswap-v3" => V3Inv

LEMMA V3StorageRuns == IntegrationSpec => []V3StorageRunning
<1>1. IntegrationInit => V3StorageRunning
  BY V3Init DEF IntegrationInit, V3StorageRunning
<1>2. V3StorageRunning /\ [IntegrationNext]_<<integration, vars, pipelineVars>> => V3StorageRunning'
  <2> SUFFICES ASSUME V3StorageRunning, [IntegrationNext]_<<integration, vars, pipelineVars>>
               PROVE  V3StorageRunning'
    OBVIOUS
  <2>1. CASE integration = "uniswap-v3"
    <3>1. integration' = integration /\ [V3Storage!Next]_V3Storage!vars
      BY <2>1 DEF IntegrationNext, V3Storage!vars, vars, pipelineVars
    <3> QED  BY <2>1, <3>1, V3NextInv DEF V3StorageRunning
  <2>2. CASE integration # "uniswap-v3"
    <3>1. integration' = integration
      BY DEF IntegrationNext
    <3> QED  BY <2>2, <3>1 DEF V3StorageRunning
  <2> QED  BY <2>1, <2>2
<1> QED  BY <1>1, <1>2, PTL DEF IntegrationSpec

(* The consumer of Uniswap v3 from traces reads after every transaction    *)
(* the whole tracked storage of the pool although each event shows only    *)
(* the part it points at, and has the pool's balance at the end of every   *)
(* block: for any amounts and any number of transactions and events.       *)
THEOREM V3StorageIsMirrored == IntegrationSpec => []V3StorageMirrored
<1>1. V3StorageRunning => V3StorageMirrored
  BY V3InvMirrors DEF V3StorageRunning, V3StorageMirrored
<1> QED  BY <1>1, V3StorageRuns, PTL
-----------------------------------------------------------------------------
(* Ambient.  The history of a block has the state after each call to the   *)
(* contract.  The traces of a transaction's calls, merged, lead from the   *)
(* state before it to the state after it.  What the store adds up to a     *)
(* call's delta are the flows of the calls before it and its own, if the   *)
(* calls of its pool are in order.                                         *)
AmbientKey == AmbientPool \X {"base", "quote"}
AmbientState == [code : BOOLEAN, native : Int, pools : SUBSET AmbientPool,
                 balance : [AmbientKey -> Nat], word : [AmbientPool -> Int]]
AmbientFlow == [{"base", "quote"} -> {-1, 1}]
AmbientCreate == [kind : {"create"}, index : Nat, tx : 1..MaxTxs]
AmbientInitCall == [kind : {"init"}, pool : AmbientPool, index : Nat, tx : 1..MaxTxs,
                    old : Int, new : Int, native : Int]
AmbientFlowCall == [kind : {"flow", "reverted"}, pool : AmbientPool, index : Nat, tx : 1..MaxTxs,
                    flow : AmbientFlow, old : Int, new : Int, native : Int]
AmbientCall == AmbientCreate \cup AmbientInitCall \cup AmbientFlowCall

AmbientWrites(c) == c.kind \in {"init", "flow"}

AmbientStep(was, now, c) ==
    /\ c.kind = "create" => now.code = TRUE
    /\ c.kind # "create" => now.code = was.code /\ c.pool \in now.pools
    /\ c.kind = "init" => now.pools = was.pools \cup {c.pool} /\ c.native = 0
    /\ c.kind # "init" => now.pools = was.pools
    /\ \A k \in AmbientKey :
          now.balance[k] = IF c.kind = "flow" /\ k[1] = c.pool
                           THEN was.balance[k] + c.flow[k[2]] ELSE was.balance[k]
    /\ AmbientWrites(c) => was.word[c.pool] = c.old
    /\ \A p \in AmbientPool :
          now.word[p] = IF AmbientWrites(c) /\ p = c.pool THEN c.new ELSE was.word[p]
    /\ c.kind = "flow" => now.native = c.native
    /\ c.kind # "flow" => now.native = was.native

AmbientSteps(h, calls) ==
    \A i \in 1..Len(calls) : AmbientStep(h[i - 1], h[i], calls[i])

AmbientTypes ==
    /\ chain \in AmbientState
    /\ block \in [tx : 1..MaxTxs, calls : Seq(AmbientCall), begin : AmbientState,
                  txEnd : [1..MaxTxs -> AmbientState]]
    /\ phase \in {"mine", "store", "map", "apply"}

(* The deltas once they have the values of the store.                      *)
AmbientSummedUp(h) ==
    /\ DOMAIN deltas = Ambient!Counted
    /\ \A i \in Ambient!Counted :
          /\ deltas[i].pool = block.calls[i].pool /\ deltas[i].tx = block.calls[i].tx
          /\ Ambient!InOrder(block.calls[i].pool) =>
                \A side \in Ambient!Side :
                   deltas[i].new_value[side] = h[i].balance[<<block.calls[i].pool, side>>]

AmbientAt(h, e) ==
    /\ Chronicle(h, e, block.calls, block.tx, block.txEnd, chain, AmbientState)
    /\ AmbientSteps(h, block.calls)
    /\ h[0] = block.begin /\ Ambient!SameContract(indexer, block.begin)
    /\ stores.pools = IF phase \in {"mine", "store"} THEN block.begin.pools ELSE chain.pools
    /\ stores.balance = IF phase \in {"mine", "store"} THEN block.begin.balance
                        ELSE chain.balance
    /\ phase \in {"map", "apply"} => AmbientSummedUp(h)

AmbientDeltas ==
    phase = "store" => deltas = [i \in Ambient!Counted |->
        [pool |-> block.calls[i].pool, tx |-> block.calls[i].tx,
         ordinal |-> block.calls[i].index, flow |-> block.calls[i].flow]]

AmbientMessage ==
    phase = "apply" => message = [t \in 1..block.tx |-> Ambient!TxChanges(t)]

AmbientInv == AmbientTypes /\ AmbientDeltas /\ AmbientMessage /\ \E h, e : AmbientAt(h, e)

LEMMA AmbientConstants ==
    /\ MaxTxs \in Nat \ {0} /\ MaxFlow \in Nat /\ MaxIndex \in Nat
    /\ Ambient!Key = AmbientKey /\ Ambient!Flow = AmbientFlow /\ Ambient!Tx = 1..MaxTxs
    /\ Ambient!Side = {"base", "quote"}
BY IntegrationBounds DEF Ambient!AmbientBounds, Ambient!Key, Ambient!Flow, Ambient!Side,
   Ambient!Tx, AmbientKey, AmbientFlow

(* A block that has just begun.                                            *)
LEMMA AmbientNewBlock ==
    ASSUME NEW s \in AmbientState, NEW b, b = Ambient!NewBlock(s)
    PROVE  /\ b \in [tx : 1..MaxTxs, calls : Seq(AmbientCall), begin : AmbientState,
                     txEnd : [1..MaxTxs -> AmbientState]]
           /\ b.tx = 1 /\ b.calls = <<>> /\ b.begin = s
           /\ \E h, e : /\ Chronicle(h, e, b.calls, b.tx, b.txEnd, s, AmbientState)
                        /\ AmbientSteps(h, b.calls) /\ h[0] = s
<1>1. MaxTxs \in Nat \ {0}
  BY AmbientConstants
<1>2. PICK ends : ends = [t \in 1..MaxTxs |-> s]
  OBVIOUS
<1>3. PICK X : X = AmbientState
  OBVIOUS
<1>4. ends \in [1..MaxTxs -> X] /\ s \in X
  BY <1>2, <1>3
<1>5. b = [tx |-> 1, calls |-> <<>>, begin |-> s, txEnd |-> ends]
  BY <1>2 DEF Ambient!NewBlock, Ambient!Tx
<1>6. b.tx = 1 /\ b.calls = <<>> /\ b.begin = s /\ b.txEnd = ends /\ Len(b.calls) = 0
  BY <1>5
<1>7. PICK h, e : Chronicle(h, e, <<>>, 1, ends, s, X) /\ h[0] = s
  BY <1>1, <1>2, <1>4, ChronicleNew
<1>8. AmbientSteps(h, b.calls)
  BY <1>6 DEF AmbientSteps
<1>9. b \in [tx : 1..MaxTxs, calls : Seq(AmbientCall), begin : X, txEnd : [1..MaxTxs -> X]]
  <2>1. 1 \in 1..MaxTxs /\ <<>> \in Seq(AmbientCall)
    BY <1>1
  <2> QED  BY <1>4, <1>5, <2>1
<1> QED  BY <1>3, <1>6, <1>7, <1>8, <1>9

LEMMA AmbientInit == Ambient!Init => AmbientInv
<1> SUFFICES ASSUME Ambient!Init PROVE AmbientInv
  OBVIOUS
<1>1. /\ chain = [code |-> FALSE, native |-> 0, pools |-> {},
                  balance |-> [k \in AmbientKey |-> 0], word |-> [p \in AmbientPool |-> 0]]
      /\ block = Ambient!NewBlock(chain) /\ phase = "mine"
      /\ stores = [pools |-> {}, balance |-> [k \in AmbientKey |-> 0]] /\ indexer = chain
  BY AmbientConstants DEF Ambient!Init
<1>2. chain \in AmbientState
  BY <1>1 DEF AmbientState
<1>3. /\ block \in [tx : 1..MaxTxs, calls : Seq(AmbientCall), begin : AmbientState,
                    txEnd : [1..MaxTxs -> AmbientState]]
      /\ block.begin = chain
  BY <1>1, <1>2, AmbientNewBlock
<1>4. PICK h, e : /\ Chronicle(h, e, block.calls, block.tx, block.txEnd, chain, AmbientState)
                  /\ AmbientSteps(h, block.calls) /\ h[0] = chain
  BY <1>1, <1>2, AmbientNewBlock
<1>5. AmbientTypes
  BY <1>1, <1>2, <1>3 DEF AmbientTypes
<1>6. stores.pools = block.begin.pools /\ stores.balance = block.begin.balance
  <2>1. chain.pools = {} /\ chain.balance = [k \in AmbientKey |-> 0]
    BY <1>1
  <2>2. stores.pools = {} /\ stores.balance = [k \in AmbientKey |-> 0]
    BY <1>1
  <2> QED  BY <1>3, <2>1, <2>2
<1>7. Ambient!SameContract(indexer, block.begin)
  BY <1>1, <1>3 DEF Ambient!SameContract
<1>8. AmbientAt(h, e)
  BY <1>1, <1>3, <1>4, <1>6, <1>7 DEF AmbientAt
<1> QED  BY <1>1, <1>5, <1>8 DEF AmbientInv, AmbientDeltas, AmbientMessage

-----------------------------------------------------------------------------
(* The steps of the chain.                                                 *)
LEMMA AmbientParts ==
    ASSUME AmbientInv
    PROVE  /\ chain = [code |-> chain.code, native |-> chain.native, pools |-> chain.pools,
                       balance |-> chain.balance, word |-> chain.word]
           /\ chain.code \in BOOLEAN /\ chain.native \in Int
           /\ chain.pools \subseteq AmbientPool /\ chain.balance \in [AmbientKey -> Nat]
           /\ chain.word \in [AmbientPool -> Int]
BY DEF AmbientInv, AmbientTypes, AmbientState

LEMMA AmbientCallKeeps ==
    ASSUME AmbientInv, NEW c, Ambient!CallAmbient(c), c \in AmbientCall, c.tx = block.tx,
           chain' \in AmbientState, AmbientStep(chain, chain', c)
    PROVE  AmbientInv'
<1>1. MaxTxs \in Nat \ {0}
  BY AmbientConstants
<1>2. PICK h, e : AmbientAt(h, e)
  BY DEF AmbientInv
<1>3. PICK t0 \in 1..MaxTxs : t0 = block.tx
  BY DEF AmbientInv, AmbientTypes
<1>4. PICK last : last = t0
  OBVIOUS
<1>5. PICK calls : calls = block.calls
  OBVIOUS
<1>6. PICK n \in Nat : n = Len(calls)
  BY <1>5 DEF AmbientInv, AmbientTypes
<1>7. calls \in Seq(AmbientCall)
  BY <1>5 DEF AmbientInv, AmbientTypes
<1>8. /\ phase = "mine" /\ phase' = "mine" /\ UNCHANGED <<stores, deltas, message, indexer>>
      /\ block' = [block EXCEPT !.calls = Append(@, c), !.txEnd[last] = chain']
  BY <1>3, <1>4 DEF Ambient!CallAmbient
<1>9. PICK calls2 : calls2 = Append(calls, c)
  OBVIOUS
<1>10. PICK ends2 : ends2 = [block.txEnd EXCEPT ![last] = chain']
  OBVIOUS
<1>11. block' = [block EXCEPT !.calls = calls2, !.txEnd = ends2]
  BY <1>5, <1>8, <1>9, <1>10
<1>12. /\ block'.tx = last /\ block'.calls = calls2 /\ block'.begin = block.begin
       /\ block'.txEnd = ends2
       /\ block' \in [tx : 1..MaxTxs, calls : Seq(AmbientCall), begin : AmbientState,
                      txEnd : [1..MaxTxs -> AmbientState]]
  <2>1. PICK X : X = AmbientState
    OBVIOUS
  <2>2. PICK TxEnds : TxEnds = [1..MaxTxs -> X]
    OBVIOUS
  <2>3. /\ block \in [tx : 1..MaxTxs, calls : Seq(AmbientCall), begin : X, txEnd : TxEnds]
        /\ chain' \in X
    BY <2>1, <2>2 DEF AmbientInv, AmbientTypes
  <2>4. block.txEnd \in TxEnds
    BY <2>3
  <2>5. ends2 \in TxEnds
    BY <1>3, <1>4, <1>10, <2>2, <2>3, <2>4
  <2>6. calls2 \in Seq(AmbientCall)
    BY <1>7, <1>9
  <2>7. /\ block'.tx = last /\ block'.calls = calls2 /\ block'.begin = block.begin
        /\ block'.txEnd = ends2
        /\ block' \in [tx : 1..MaxTxs, calls : Seq(AmbientCall), begin : X, txEnd : TxEnds]
    BY <1>3, <1>4, <1>11, <2>3, <2>5, <2>6
  <2> QED  BY <2>1, <2>2, <2>7
<1>13. /\ Len(calls2) = n + 1 /\ calls2[n + 1] = c
       /\ \A i \in 1..n : calls2[i] = calls[i]
  BY <1>6, <1>7, <1>9
<1>15. AmbientTypes'
  BY <1>8, <1>12 DEF AmbientInv, AmbientTypes
<1>16. Chronicle(h, e, calls, last, block.txEnd, chain, AmbientState)
  BY <1>2, <1>3, <1>4, <1>5 DEF AmbientAt
<1>17. PICK h2, e2 : /\ Chronicle(h2, e2, calls2, last, ends2, chain', AmbientState)
                     /\ Extends(h2, h, n)
  <2>1. PICK s2 : s2 = chain'
    OBVIOUS
  <2>2. PICK ends : ends = block.txEnd
    OBVIOUS
  <2>3. PICK X : X = AmbientState
    OBVIOUS
  <2>4. s2 \in X /\ last \in 1..MaxTxs /\ c.tx = last /\ ends2 = [ends EXCEPT ![last] = s2]
    BY <1>3, <1>4, <1>10, <2>1, <2>2, <2>3
  <2>5. Chronicle(h, e, calls, last, ends, chain, X)
    BY <1>16, <2>2, <2>3
  <2>6. \E h2, e2 : Chronicle(h2, e2, calls2, last, ends2, s2, X) /\ Extends(h2, h, Len(calls))
    BY <1>1, <1>7, <1>9, <2>4, <2>5, ChronicleAppend
  <2> QED  BY <1>6, <2>1, <2>3, <2>6
<1>18. /\ \A i \in 0..n : h2[i] = h[i]
       /\ h2[n + 1] = chain' /\ h[n] = chain
  BY <1>6, <1>13, <1>16, <1>17 DEF Extends, Chronicle
<1>19. AmbientSteps(h2, calls2)
  <2>1. ASSUME NEW i \in 1..n + 1 PROVE AmbientStep(h2[i - 1], h2[i], calls2[i])
    <3>1. CASE i = n + 1
      <4>1. i - 1 = n /\ n \in 0..n
        BY <3>1
      <4> QED  BY <1>13, <1>18, <3>1, <4>1
    <3>2. CASE i # n + 1
      <4>1. i \in 1..n /\ i \in 0..n /\ i - 1 \in 0..n
        BY <3>2
      <4>2. AmbientStep(h[i - 1], h[i], calls[i])
        BY <1>2, <1>5, <1>6, <4>1 DEF AmbientAt, AmbientSteps
      <4> QED  BY <1>13, <1>18, <4>1, <4>2
    <3> QED  BY <3>1, <3>2
  <2> QED  BY <1>13, <2>1 DEF AmbientSteps
<1>20. AmbientAt(h2, e2)'
  <2>1. /\ h[0] = block.begin /\ Ambient!SameContract(indexer, block.begin)
        /\ stores.pools = block.begin.pools /\ stores.balance = block.begin.balance
    BY <1>2, <1>8 DEF AmbientAt
  <2>2. h2[0] = h[0]
    BY <1>18
  <2>3. /\ h2[0] = block'.begin /\ Ambient!SameContract(indexer', block'.begin)
        /\ stores'.pools = block'.begin.pools /\ stores'.balance = block'.begin.balance
    BY <1>8, <1>12, <2>1, <2>2
  <2>4. Chronicle(h2, e2, block'.calls, block'.tx, block'.txEnd, chain', AmbientState)
    BY <1>12, <1>17
  <2>5. AmbientSteps(h2, block'.calls)
    BY <1>12, <1>19
  <2> QED  BY <1>8, <2>3, <2>4, <2>5 DEF AmbientAt, Ambient!SameContract
<1> QED  BY <1>8, <1>15, <1>20 DEF AmbientInv, AmbientDeltas, AmbientMessage

LEMMA AmbientDeployKeeps ==
    ASSUME AmbientInv, NEW index \in 1..MaxIndex, Ambient!Deploy(index)
    PROVE  AmbientInv'
<1>1. PICK c : c = [kind |-> "create", index |-> index, tx |-> block.tx]
  OBVIOUS
<1>2. Ambient!CallAmbient(c) /\ chain' = [chain EXCEPT !.code = TRUE]
  BY <1>1 DEF Ambient!Deploy
<1>3. index \in Nat /\ block.tx \in 1..MaxTxs
  BY AmbientConstants DEF AmbientInv, AmbientTypes
<1>4. c \in AmbientCall /\ c.tx = block.tx /\ c.kind = "create"
  <2>1. c \in AmbientCreate
    BY <1>1, <1>3 DEF AmbientCreate
  <2> QED  BY <1>1, <2>1 DEF AmbientCall
<1>5. chain' = [code |-> TRUE, native |-> chain.native, pools |-> chain.pools,
                balance |-> chain.balance, word |-> chain.word]
  BY <1>2, AmbientParts
<1>6. chain' \in AmbientState
  BY <1>5, AmbientParts DEF AmbientState
<1>7. AmbientStep(chain, chain', c)
  BY <1>4, <1>5 DEF AmbientStep, AmbientWrites
<1> QED  BY <1>2, <1>4, <1>6, <1>7, AmbientCallKeeps

LEMMA AmbientInitKeeps ==
    ASSUME AmbientInv, NEW pool \in AmbientPool, NEW index \in 1..MaxIndex,
           Ambient!InitPool(pool, index)
    PROVE  AmbientInv'
<1>1. PICK old : old = chain.word[pool]
  OBVIOUS
<1>2. PICK c : c = [kind |-> "init", pool |-> pool, index |-> index, tx |-> block.tx,
                    old |-> old, new |-> 1, native |-> 0]
  OBVIOUS
<1>3. /\ Ambient!CallAmbient(c)
      /\ chain' = [chain EXCEPT !.pools = @ \cup {pool}, !.word[pool] = 1]
  BY <1>1, <1>2 DEF Ambient!InitPool
<1>4. index \in Nat /\ block.tx \in 1..MaxTxs /\ old \in Int
  BY <1>1, AmbientConstants, AmbientParts DEF AmbientInv, AmbientTypes
<1>5. /\ c \in AmbientCall /\ c.tx = block.tx /\ c.pool = pool /\ c.kind = "init"
      /\ c.old = old /\ c.new = 1 /\ c.native = 0
  <2>1. c \in AmbientInitCall
    BY <1>2, <1>4 DEF AmbientInitCall
  <2> QED  BY <1>2, <2>1 DEF AmbientCall
<1>6. PICK word : word = [chain.word EXCEPT ![pool] = 1]
  OBVIOUS
<1>7. /\ word \in [AmbientPool -> Int]
      /\ \A p \in AmbientPool : word[p] = IF p = pool THEN 1 ELSE chain.word[p]
  BY <1>6, AmbientParts
<1>8. chain' = [code |-> chain.code, native |-> chain.native, pools |-> chain.pools \cup {pool},
                balance |-> chain.balance, word |-> word]
  BY <1>3, <1>6, AmbientParts
<1>9. chain' \in AmbientState
  BY <1>7, <1>8, AmbientParts DEF AmbientState
<1>10. AmbientStep(chain, chain', c)
  BY <1>1, <1>5, <1>7, <1>8 DEF AmbientStep, AmbientWrites
<1> QED  BY <1>3, <1>5, <1>9, <1>10, AmbientCallKeeps

LEMMA AmbientMoveKeeps ==
    ASSUME AmbientInv, NEW pool \in AmbientPool, NEW index \in 1..MaxIndex,
           NEW flow \in Ambient!Flow, Ambient!MoveTokens(pool, index, flow)
    PROVE  AmbientInv'
<1>0. PICK old, native : old = chain.word[pool] /\ native = chain.native + flow["base"]
  OBVIOUS
<1>1. PICK c : c = [kind |-> "flow", pool |-> pool, index |-> index, tx |-> block.tx,
                    flow |-> flow, old |-> old, new |-> 1 - old, native |-> native]
  OBVIOUS
<1>2. PICK balance : balance = [k \in AmbientKey |-> IF k[1] = pool
                                   THEN chain.balance[k] + flow[k[2]] ELSE chain.balance[k]]
  OBVIOUS
<1>3. PICK word : word = [chain.word EXCEPT ![pool] = 1 - @]
  OBVIOUS
<1>4. /\ pool \in chain.pools /\ Ambient!CallAmbient(c)
      /\ chain' = [chain EXCEPT !.balance = balance, !.native = native, !.word = word]
      /\ \A k \in AmbientKey : chain'.balance[k] \in 0..MaxFlow
  <2>1. Ambient!CallAmbient(c)
    BY <1>0, <1>1, Zenon DEF Ambient!MoveTokens
  <2>2. /\ pool \in chain.pools
        /\ chain' = [chain EXCEPT !.balance = balance, !.native = native, !.word = word]
        /\ \A k \in AmbientKey : chain'.balance[k] \in 0..MaxFlow
    BY <1>0, <1>2, <1>3, AmbientConstants, Zenon DEF Ambient!MoveTokens
  <2> QED  BY <2>1, <2>2
<1>5. index \in Nat /\ block.tx \in 1..MaxTxs /\ flow \in AmbientFlow /\ old \in Int
      /\ native \in Int
  <2>1. flow \in AmbientFlow
    BY AmbientConstants
  <2>2. flow["base"] \in Int
    BY <2>1 DEF AmbientFlow
  <2> QED  BY <1>0, <2>1, <2>2, AmbientConstants, AmbientParts DEF AmbientInv, AmbientTypes
<1>6. /\ c \in AmbientCall /\ c.tx = block.tx /\ c.pool = pool /\ c.kind = "flow"
      /\ c.flow = flow /\ c.old = old /\ c.new = 1 - old /\ c.native = native
  <2>1. c \in AmbientFlowCall
    BY <1>1, <1>5 DEF AmbientFlowCall
  <2> QED  BY <1>1, <2>1 DEF AmbientCall
<1>7. /\ word \in [AmbientPool -> Int]
      /\ \A p \in AmbientPool : word[p] = IF p = pool THEN 1 - old ELSE chain.word[p]
  BY <1>0, <1>3, AmbientParts
<1>8. chain' = [code |-> chain.code, native |-> native, pools |-> chain.pools,
                balance |-> balance, word |-> word]
  BY <1>4, AmbientParts
<1>9. /\ chain'.code = chain.code /\ chain'.native = native /\ chain'.pools = chain.pools
      /\ chain'.balance = balance /\ chain'.word = word
  BY <1>8
<1>10. balance \in [AmbientKey -> Nat]
  BY <1>2, <1>4, <1>9, AmbientConstants
<1>11. chain' \in AmbientState
  BY <1>5, <1>7, <1>8, <1>10, AmbientParts DEF AmbientState
<1>12. AmbientStep(chain, chain', c)
  BY <1>0, <1>2, <1>4, <1>6, <1>7, <1>9 DEF AmbientStep, AmbientWrites
<1> QED  BY <1>4, <1>6, <1>11, <1>12, AmbientCallKeeps

LEMMA AmbientRevertKeeps ==
    ASSUME AmbientInv, NEW pool \in AmbientPool, NEW index \in 1..MaxIndex,
           Ambient!Revert(pool, index)
    PROVE  AmbientInv'
<1>1. PICK flow, old, native : /\ flow = [side \in {"base", "quote"} |-> 1]
                               /\ old = chain.word[pool] /\ native = chain.native + 1
  OBVIOUS
<1>2. PICK c : c = [kind |-> "reverted", pool |-> pool, index |-> index, tx |-> block.tx,
                    flow |-> flow, old |-> old, new |-> 1 - old, native |-> native]
  OBVIOUS
<1>3. pool \in chain.pools /\ Ambient!CallAmbient(c) /\ chain' = chain
  BY <1>1, <1>2, Zenon DEF Ambient!Revert, Ambient!Side
<1>4. /\ index \in Nat /\ block.tx \in 1..MaxTxs /\ flow \in AmbientFlow /\ old \in Int
      /\ native \in Int
  BY <1>1, AmbientConstants, AmbientParts DEF AmbientInv, AmbientTypes, AmbientFlow
<1>5. /\ c \in AmbientCall /\ c.tx = block.tx /\ c.pool = pool /\ c.kind = "reverted"
  <2>1. c \in AmbientFlowCall
    BY <1>2, <1>4 DEF AmbientFlowCall
  <2> QED  BY <1>2, <2>1 DEF AmbientCall
<1>6. chain' \in AmbientState
  BY <1>3 DEF AmbientInv, AmbientTypes
<1>7. AmbientStep(chain, chain', c)
  BY <1>3, <1>5 DEF AmbientStep, AmbientWrites
<1> QED  BY <1>3, <1>5, <1>6, <1>7, AmbientCallKeeps

LEMMA AmbientNextTxKeeps == ASSUME AmbientInv, Ambient!NextTx PROVE AmbientInv'
<1>1. MaxTxs \in Nat \ {0}
  BY AmbientConstants
<1>2. PICK h, e : AmbientAt(h, e)
  BY DEF AmbientInv
<1>3. PICK t0 \in 1..MaxTxs : t0 = block.tx
  BY DEF AmbientInv, AmbientTypes
<1>4. PICK last : last = t0
  OBVIOUS
<1>5. PICK ends2 : ends2 = [block.txEnd EXCEPT ![last + 1] = chain]
  OBVIOUS
<1>6. /\ phase = "mine" /\ phase' = "mine"
      /\ UNCHANGED <<chain, stores, deltas, message, indexer>> /\ last < MaxTxs
      /\ block' = [block EXCEPT !.tx = last + 1, !.txEnd = ends2]
  BY <1>3, <1>4, <1>5 DEF Ambient!NextTx
<1>7. last + 1 \in 1..MaxTxs
  BY <1>1, <1>3, <1>4, <1>6
<1>8. /\ block'.tx = last + 1 /\ block'.calls = block.calls /\ block'.begin = block.begin
      /\ block'.txEnd = ends2
      /\ block' \in [tx : 1..MaxTxs, calls : Seq(AmbientCall), begin : AmbientState,
                     txEnd : [1..MaxTxs -> AmbientState]]
  <2>1. PICK X : X = AmbientState
    OBVIOUS
  <2>2. PICK TxEnds : TxEnds = [1..MaxTxs -> X]
    OBVIOUS
  <2>3. /\ block \in [tx : 1..MaxTxs, calls : Seq(AmbientCall), begin : X, txEnd : TxEnds]
        /\ chain \in X
    BY <2>1, <2>2 DEF AmbientInv, AmbientTypes
  <2>4. block.txEnd \in TxEnds
    BY <2>3
  <2>5. ends2 \in TxEnds
    BY <1>5, <1>7, <2>2, <2>3, <2>4
  <2>6. /\ block'.tx = last + 1 /\ block'.calls = block.calls /\ block'.begin = block.begin
        /\ block'.txEnd = ends2
        /\ block' \in [tx : 1..MaxTxs, calls : Seq(AmbientCall), begin : X, txEnd : TxEnds]
    BY <1>6, <1>7, <2>3, <2>5
  <2> QED  BY <2>1, <2>2, <2>6
<1>9. AmbientTypes'
  BY <1>6, <1>8 DEF AmbientInv, AmbientTypes
<1>10. Chronicle(h, e, block.calls, last + 1, ends2, chain, AmbientState)
  <2>1. PICK calls : calls = block.calls
    OBVIOUS
  <2>2. PICK ends : ends = block.txEnd
    OBVIOUS
  <2>3. PICK X : X = AmbientState
    OBVIOUS
  <2>4. PICK s : s = chain
    OBVIOUS
  <2>5. /\ calls \in Seq(AmbientCall) /\ last \in 1..MaxTxs /\ last < MaxTxs /\ s \in X
        /\ ends2 = [ends EXCEPT ![last + 1] = s]
    BY <1>3, <1>4, <1>5, <1>6, <2>1, <2>2, <2>3, <2>4 DEF AmbientInv, AmbientTypes
  <2>6. Chronicle(h, e, calls, last, ends, s, X)
    BY <1>2, <1>3, <1>4, <2>1, <2>2, <2>3, <2>4 DEF AmbientAt
  <2>7. Chronicle(h, e, calls, last + 1, ends2, s, X)
    BY <1>1, <2>5, <2>6, ChronicleNextTx
  <2> QED  BY <2>1, <2>3, <2>4, <2>7
<1>11. AmbientAt(h, e)'
  <2>1. /\ h[0] = block.begin /\ Ambient!SameContract(indexer, block.begin)
        /\ stores.pools = block.begin.pools /\ stores.balance = block.begin.balance
        /\ AmbientSteps(h, block.calls)
    BY <1>2, <1>6 DEF AmbientAt
  <2>2. /\ h[0] = block'.begin /\ Ambient!SameContract(indexer', block'.begin)
        /\ stores'.pools = block'.begin.pools /\ stores'.balance = block'.begin.balance
        /\ AmbientSteps(h, block'.calls)
    BY <1>6, <1>8, <2>1
  <2>3. Chronicle(h, e, block'.calls, block'.tx, block'.txEnd, chain', AmbientState)
    BY <1>6, <1>8, <1>10
  <2> QED  BY <1>6, <2>2, <2>3 DEF AmbientAt, Ambient!SameContract
<1> QED  BY <1>6, <1>9, <1>11 DEF AmbientInv, AmbientDeltas, AmbientMessage

LEMMA AmbientMapKeeps == ASSUME AmbientInv, Ambient!MapPoolChanges PROVE AmbientInv'
<1>1. /\ phase = "mine" /\ phase' = "store" /\ UNCHANGED <<chain, block, stores, message, indexer>>
      /\ deltas' = [i \in Ambient!Counted |->
             [pool |-> block.calls[i].pool, tx |-> block.calls[i].tx,
              ordinal |-> block.calls[i].index, flow |-> block.calls[i].flow]]
  BY DEF Ambient!MapPoolChanges
<1>2. PICK h, e : AmbientAt(h, e)
  BY DEF AmbientInv
<1>3. AmbientTypes'
  BY <1>1 DEF AmbientInv, AmbientTypes
<1>4. AmbientDeltas'
  <2>1. Ambient!Counted' = Ambient!Counted
    BY <1>1 DEF Ambient!Counted
  <2> QED  BY <1>1, <2>1 DEF AmbientDeltas
<1>5. AmbientAt(h, e)'
  BY <1>1, <1>2 DEF AmbientAt, Ambient!SameContract
<1> QED  BY <1>1, <1>3, <1>4, <1>5 DEF AmbientInv, AmbientMessage

-----------------------------------------------------------------------------
(* The stores.                                                             *)
AmbientNew(calls) ==
    [i \in 1..Len(calls) |-> IF calls[i].kind = "init" THEN {calls[i].pool} ELSE {}]

LEMMA AmbientPoolsAlong ==
    ASSUME NEW calls \in Seq(AmbientCall), NEW h, AmbientSteps(h, calls),
           NEW a \in 0..Len(calls), NEW b \in 0..Len(calls), a <= b
    PROVE  h[b].pools = h[a].pools \cup Gathered(AmbientNew(calls), a + 1..b)
<1>1. PICK n \in Nat : n = Len(calls)
  OBVIOUS
<1>2. PICK f : f = [i \in 0..n |-> h[i].pools]
  OBVIOUS
<1>3. PICK new : new = AmbientNew(calls)
  OBVIOUS
<1>4. Adds(f, new, a, b)
  <2>1. ASSUME NEW i \in a + 1..b PROVE f[i] = f[i - 1] \cup new[i]
    <3>1. i \in 1..n /\ i \in 0..n /\ i - 1 \in 0..n
      BY <1>1
    <3>2. AmbientStep(h[i - 1], h[i], calls[i])
      BY <1>1, <3>1 DEF AmbientSteps
    <3>3. h[i].pools = h[i - 1].pools \cup new[i]
      BY <1>1, <1>3, <3>1, <3>2 DEF AmbientStep, AmbientNew
    <3> QED  BY <1>2, <3>1, <3>3
  <2> QED  BY <2>1 DEF Adds
<1>5. a \in Nat /\ b \in Nat
  OBVIOUS
<1>6. f[b] = f[a] \cup Gathered(new, a + 1..b)
  BY <1>4, <1>5, Accumulated
<1> QED  BY <1>1, <1>2, <1>3, <1>6

LEMMA AmbientNewPools ==
    ASSUME NEW n \in Nat, DOMAIN block.calls = 1..n, Len(block.calls) = n, NEW t, NEW x
    PROVE  x \in Ambient!NewPools(t) <=> \E i \in 1..n : /\ x \in AmbientNew(block.calls)[i]
                                                        /\ block.calls[i].tx = t
<1>1. x \in Ambient!NewPools(t) <=> \E i \in 1..n : /\ block.calls[i].kind = "init"
                                                    /\ block.calls[i].tx = t
                                                    /\ x = block.calls[i].pool
  BY DEF Ambient!NewPools, Ambient!Range
<1>2. \A i \in 1..n : x \in AmbientNew(block.calls)[i] <=> /\ block.calls[i].kind = "init"
                                                           /\ x = block.calls[i].pool
  BY DEF AmbientNew
<1> QED  BY <1>1, <1>2

(* The recursion of the store, of the flows at some indices.               *)
AmbientSumEq(f, start, ds, is, key, n) ==
    f = [i \in 0..n |-> IF i = 0 THEN start
                        ELSE IF i \in is /\ ds[i].pool = key[1]
                        THEN f[i - 1] + ds[i].flow[key[2]] ELSE f[i - 1]]

AmbientTotals(start, ds, is, key, n) == CHOOSE f : AmbientSumEq(f, start, ds, is, key, n)

AmbientSums(f, start, ds, is, key, n) ==
    /\ f[0] = start
    /\ \A i \in 1..n :
          /\ i \in is /\ ds[i].pool = key[1] => f[i] = f[i - 1] + ds[i].flow[key[2]]
          /\ ~(i \in is /\ ds[i].pool = key[1]) => f[i] = f[i - 1]

LEMMA AmbientSummed ==
    ASSUME NEW n \in Nat, NEW start, NEW ds, NEW is, NEW key, NEW f,
           AmbientSums(f, start, ds, is, key, n)
    PROVE  AmbientTotals(start, ds, is, key, n)[n] = f[n]
<1>0. PICK c : c = AmbientTotals(start, ds, is, key, n)
  OBVIOUS
<1> DEFINE g == [i \in 0..n |-> f[i]]
<1>1. AmbientSumEq(g, start, ds, is, key, n)
  <2>1. ASSUME NEW i \in 0..n
        PROVE  g[i] = IF i = 0 THEN start
                      ELSE IF i \in is /\ ds[i].pool = key[1]
                      THEN g[i - 1] + ds[i].flow[key[2]] ELSE g[i - 1]
    <3>1. CASE i = 0
      BY <3>1 DEF AmbientSums
    <3>2. CASE i # 0
      <4>1. i \in 1..n /\ i - 1 \in 0..n
        BY <3>2
      <4> QED  BY <3>2, <4>1 DEF AmbientSums
    <3> QED  BY <3>1, <3>2
  <2> QED  BY <2>1 DEF AmbientSumEq
<1> HIDE DEF g
<1>2. AmbientSumEq(c, start, ds, is, key, n)
  BY <1>0, <1>1 DEF AmbientTotals
<1>3. Alike(c, f, n)
  <2>1. c[0] = start
    BY <1>2 DEF AmbientSumEq
  <2>2. ASSUME NEW i \in 1..n, c[i - 1] = f[i - 1] PROVE c[i] = f[i]
    <3>1. i \in 0..n /\ i # 0
      OBVIOUS
    <3>2. c[i] = IF i \in is /\ ds[i].pool = key[1]
                 THEN c[i - 1] + ds[i].flow[key[2]] ELSE c[i - 1]
      BY <1>2, <3>1 DEF AmbientSumEq
    <3> QED  BY <2>2, <3>2 DEF AmbientSums
  <2> QED  BY <2>1, <2>2 DEF Alike, AmbientSums
<1> QED  BY <1>0, <1>3, SameAlong

(* The flows of a pool in the first m calls add up to its balances after   *)
(* them.                                                                   *)
LEMMA AmbientSum ==
    ASSUME AmbientInv, NEW h, NEW e, AmbientAt(h, e), phase = "store", NEW k \in AmbientKey,
           NEW m \in 0..Len(block.calls), NEW is, is \subseteq Ambient!Counted,
           \A i \in Ambient!Counted : block.calls[i].pool = k[1] => (i \in is <=> i <= m)
    PROVE  Ambient!SumOf(k, is) = h[m].balance[k]
<1>1. PICK calls : calls = block.calls
  OBVIOUS
<1>2. PICK n \in Nat : n = Len(calls)
  BY <1>1 DEF AmbientInv, AmbientTypes
<1>3. calls \in Seq(AmbientCall) /\ DOMAIN calls = 1..n /\ AmbientSteps(h, calls) /\ m \in 0..n
      /\ h \in [0..n -> AmbientState]
  BY <1>1, <1>2 DEF AmbientInv, AmbientTypes, AmbientAt, Chronicle
<1>4. PICK ds : ds = deltas
  OBVIOUS
<1>5. \A i : i \in Ambient!Counted <=> i \in 1..n /\ calls[i].kind = "flow"
  BY <1>1, <1>3 DEF Ambient!Counted
<1>6. \A i \in Ambient!Counted : ds[i].pool = calls[i].pool /\ ds[i].flow = calls[i].flow
  BY <1>1, <1>4 DEF AmbientInv, AmbientDeltas
<1>7. PICK start : start = stores.balance[k]
  OBVIOUS
<1>8. start = h[0].balance[k]
  BY <1>7 DEF AmbientAt
<1>9. PICK c : c = AmbientTotals(start, ds, is, k, n)
  OBVIOUS
<1>10. Ambient!SumOf(k, is) = c[n]
  BY <1>1, <1>2, <1>4, <1>7, <1>9 DEF Ambient!SumOf, AmbientSumEq, AmbientTotals
<1>11. PICK f : f = [i \in 0..n |-> IF i <= m THEN h[i].balance[k] ELSE h[m].balance[k]]
  OBVIOUS
<1>12. ASSUME NEW i \in 1..n
       PROVE  /\ i \in is /\ ds[i].pool = k[1] => f[i] = f[i - 1] + ds[i].flow[k[2]]
              /\ ~(i \in is /\ ds[i].pool = k[1]) => f[i] = f[i - 1]
  <2>1. i \in 0..n /\ i - 1 \in 0..n
    OBVIOUS
  <2>2. CASE i <= m
    <3>1. f[i] = h[i].balance[k] /\ f[i - 1] = h[i - 1].balance[k]
      BY <1>3, <1>11, <2>1, <2>2
    <3>2. AmbientStep(h[i - 1], h[i], calls[i])
      BY <1>2, <1>3 DEF AmbientSteps
    <3>3. h[i].balance[k] = IF calls[i].kind = "flow" /\ k[1] = calls[i].pool
                            THEN h[i - 1].balance[k] + calls[i].flow[k[2]]
                            ELSE h[i - 1].balance[k]
      BY <3>2 DEF AmbientStep
    <3>4. /\ i \in is => calls[i].kind = "flow"
          /\ calls[i].kind = "flow" /\ calls[i].pool = k[1] => i \in is
      BY <1>1, <1>2, <1>5, <2>2
    <3>5. calls[i].kind = "flow" => ds[i].pool = calls[i].pool /\ ds[i].flow = calls[i].flow
      BY <1>5, <1>6
    <3> QED  BY <3>1, <3>3, <3>4, <3>5
  <2>3. CASE ~(i <= m)
    <3>1. f[i] = h[m].balance[k]
      BY <1>3, <1>11, <2>1, <2>3
    <3>2. f[i - 1] = h[m].balance[k]
      <4>1. CASE i - 1 = m
        BY <1>3, <1>11, <2>1, <4>1
      <4>2. CASE i - 1 # m
        <5>1. ~(i - 1 <= m)
          BY <1>3, <2>3, <4>2
        <5> QED  BY <1>11, <2>1, <5>1
      <4> QED  BY <4>1, <4>2
    <3>3. ~(i \in is /\ ds[i].pool = k[1])
      BY <1>1, <1>2, <1>5, <1>6, <2>3
    <3> QED  BY <3>1, <3>2, <3>3
  <2> QED  BY <2>2, <2>3
<1>13. AmbientSums(f, start, ds, is, k, n)
  <2>1. f[0] = start
    BY <1>2, <1>3, <1>8, <1>11
  <2> QED  BY <1>12, <2>1 DEF AmbientSums
<1>14. c[n] = f[n]
  BY <1>9, <1>13, AmbientSummed
<1>15. f[n] = h[m].balance[k]
  <2>1. CASE n <= m
    <3>1. n = m
      BY <1>2, <1>3, <2>1
    <3> QED  BY <1>2, <1>11, <3>1
  <2>2. CASE ~(n <= m)
    BY <1>2, <1>11, <2>2
  <2> QED  BY <2>1, <2>2
<1> QED  BY <1>10, <1>14, <1>15

LEMMA AmbientUpTo ==
    ASSUME AmbientInv, phase = "store", NEW i \in Ambient!Counted,
           Ambient!InOrder(block.calls[i].pool)
    PROVE  /\ Ambient!UpTo(i) \subseteq Ambient!Counted
           /\ \A j \in Ambient!Counted : block.calls[j].pool = block.calls[i].pool
                 => (j \in Ambient!UpTo(i) <=> j <= i)
<1>1. PICK n \in Nat : n = Len(block.calls) /\ DOMAIN block.calls = 1..n
  BY DEF AmbientInv, AmbientTypes
<1>2. Ambient!Counted \subseteq 1..n
  BY <1>1 DEF Ambient!Counted
<1>3. DOMAIN deltas = Ambient!Counted
      /\ \A j \in Ambient!Counted : deltas[j].ordinal = block.calls[j].index
  BY DEF AmbientInv, AmbientDeltas
<1>4. \A j \in 1..n : block.calls[j].index \in Nat
  BY <1>1 DEF AmbientInv, AmbientTypes, AmbientCall, AmbientCreate, AmbientInitCall, AmbientFlowCall
<1>5. Ambient!UpTo(i) \subseteq Ambient!Counted
  BY <1>3 DEF Ambient!UpTo
<1> SUFFICES ASSUME NEW j \in Ambient!Counted, block.calls[j].pool = block.calls[i].pool
             PROVE  j \in Ambient!UpTo(i) <=> j <= i
  BY <1>5
<1>6. i \in 1..n /\ j \in 1..n
  BY <1>2
<1>7. /\ j < i => block.calls[j].index <= block.calls[i].index
      /\ i < j => block.calls[i].index <= block.calls[j].index
  BY DEF Ambient!InOrder
<1>8. j \in Ambient!UpTo(i) <=> \/ block.calls[j].index < block.calls[i].index
                                \/ block.calls[j].index = block.calls[i].index /\ j <= i
  BY <1>3 DEF Ambient!UpTo
<1> QED  BY <1>4, <1>6, <1>7, <1>8

LEMMA AmbientStoreKeeps == ASSUME AmbientInv, Ambient!StorePoolsAndBalances PROVE AmbientInv'
<1>1. PICK h, e : AmbientAt(h, e)
  BY DEF AmbientInv
<1>2. /\ phase = "store" /\ phase' = "map" /\ UNCHANGED <<chain, block, message, indexer>>
      /\ stores' = [pools |-> stores.pools \cup UNION {Ambient!NewPools(t) : t \in Ambient!Tx},
                    balance |-> [k \in AmbientKey |-> Ambient!SumOf(k, DOMAIN deltas)]]
      /\ deltas' = [i \in DOMAIN deltas |->
             [pool |-> deltas[i].pool, tx |-> deltas[i].tx,
              new_value |-> [side \in Ambient!Side |->
                  Ambient!SumOf(<<deltas[i].pool, side>>, Ambient!UpTo(i))]]]
  BY AmbientConstants DEF Ambient!StorePoolsAndBalances
<1>3. PICK calls : calls = block.calls
  OBVIOUS
<1>4. PICK n \in Nat : n = Len(calls)
  BY <1>3 DEF AmbientInv, AmbientTypes
<1>5. /\ calls \in Seq(AmbientCall) /\ DOMAIN calls = 1..n /\ AmbientSteps(h, calls)
      /\ h \in [0..n -> AmbientState] /\ h[n] = chain /\ h[0] = block.begin
      /\ stores.pools = h[0].pools /\ Ends(e, calls, block.tx) /\ block.tx \in 1..MaxTxs
  BY <1>1, <1>2, <1>3, <1>4 DEF AmbientInv, AmbientTypes, AmbientAt, Chronicle
<1>6. \A i : i \in Ambient!Counted <=> i \in 1..n /\ calls[i].kind = "flow"
  BY <1>3, <1>5 DEF Ambient!Counted
<1>7. DOMAIN deltas = Ambient!Counted
      /\ \A i \in Ambient!Counted : deltas[i].pool = calls[i].pool /\ deltas[i].tx = calls[i].tx
  BY <1>2, <1>3 DEF AmbientInv, AmbientDeltas
<1>8. PICK pools : pools = stores.pools \cup UNION {Ambient!NewPools(t) : t \in Ambient!Tx}
  OBVIOUS
<1>9. pools = chain.pools
  <2>1. chain.pools = stores.pools \cup Gathered(AmbientNew(calls), 1..n)
    <3>1. PICK a, b : a = 0 /\ b = n
      OBVIOUS
    <3>2. h[b].pools = h[a].pools \cup Gathered(AmbientNew(calls), a + 1..b)
      <4>1. a \in 0..Len(calls) /\ b \in 0..Len(calls) /\ a <= b
        BY <1>4, <3>1
      <4> QED  BY <1>5, <4>1, AmbientPoolsAlong
    <3> QED  BY <1>5, <3>1, <3>2
  <2>2. \A i \in 1..n : calls[i].tx \in Ambient!Tx
    BY <1>4, <1>5, AmbientConstants DEF Ends
  <2>3. ASSUME NEW x
        PROVE  x \in UNION {Ambient!NewPools(t) : t \in Ambient!Tx}
                  <=> x \in Gathered(AmbientNew(calls), 1..n)
    <3>1. \A t : x \in Ambient!NewPools(t) <=> \E i \in 1..n : /\ x \in AmbientNew(calls)[i]
                                                              /\ calls[i].tx = t
      BY <1>3, <1>4, <1>5, AmbientNewPools
    <3>2. x \in Gathered(AmbientNew(calls), 1..n) <=> \E i \in 1..n : x \in AmbientNew(calls)[i]
      BY GatheredIs
    <3> QED  BY <2>2, <3>1, <3>2
  <2> QED  BY <1>8, <2>1, <2>3
<1>10. ASSUME NEW i \in Ambient!Counted, NEW side \in Ambient!Side,
              Ambient!InOrder(calls[i].pool)
       PROVE  Ambient!SumOf(<<deltas[i].pool, side>>, Ambient!UpTo(i))
                 = h[i].balance[<<calls[i].pool, side>>]
  <2>1. PICK k : k = <<calls[i].pool, side>>
    OBVIOUS
  <2>2. i \in 1..n
    BY <1>6
  <2>3. k \in AmbientKey
    <3>1. calls[i] \in AmbientCall
      BY <1>4, <1>5, <2>2
    <3>2. calls[i].pool \in AmbientPool
      BY <1>6, <3>1 DEF AmbientCall, AmbientCreate, AmbientInitCall, AmbientFlowCall
    <3> QED  BY <2>1, <3>2 DEF AmbientKey, Ambient!Side
  <2>4. PICK is : is = Ambient!UpTo(i)
    OBVIOUS
  <2>5. PICK m \in 0..Len(block.calls) : m = i
    BY <1>3, <1>4, <2>2
  <2>6. /\ is \subseteq Ambient!Counted
        /\ \A j \in Ambient!Counted : block.calls[j].pool = calls[i].pool => (j \in is <=> j <= m)
    BY <1>2, <1>3, <1>10, <2>4, <2>5, AmbientUpTo
  <2>7. Ambient!SumOf(k, is) = h[m].balance[k]
    <3>1. k[1] = calls[i].pool
      BY <2>1
    <3>2. \A j \in Ambient!Counted : block.calls[j].pool = k[1] => (j \in is <=> j <= m)
      BY <2>6, <3>1
    <3> QED  BY <1>1, <1>2, <2>3, <2>6, <3>2, AmbientSum
  <2> QED  BY <1>7, <2>1, <2>4, <2>5, <2>7
<1>11. /\ DOMAIN deltas' = Ambient!Counted
       /\ \A i \in Ambient!Counted :
             /\ deltas'[i].pool = calls[i].pool /\ deltas'[i].tx = calls[i].tx
             /\ Ambient!InOrder(calls[i].pool) =>
                   \A side \in Ambient!Side :
                      deltas'[i].new_value[side] = h[i].balance[<<calls[i].pool, side>>]
  <2>1. DOMAIN deltas' = Ambient!Counted
    BY <1>2, <1>7
  <2>2. ASSUME NEW i \in Ambient!Counted
        PROVE  /\ deltas'[i].pool = calls[i].pool /\ deltas'[i].tx = calls[i].tx
               /\ Ambient!InOrder(calls[i].pool) =>
                     \A side \in Ambient!Side :
                        deltas'[i].new_value[side] = h[i].balance[<<calls[i].pool, side>>]
    <3>1. deltas'[i] = [pool |-> deltas[i].pool, tx |-> deltas[i].tx,
                        new_value |-> [side \in Ambient!Side |->
                           Ambient!SumOf(<<deltas[i].pool, side>>, Ambient!UpTo(i))]]
      BY <1>2, <1>7, Zenon
    <3>2. deltas'[i].pool = calls[i].pool /\ deltas'[i].tx = calls[i].tx
      BY <1>7, <3>1
    <3>3. \A side \in Ambient!Side : deltas'[i].new_value[side]
                = Ambient!SumOf(<<deltas[i].pool, side>>, Ambient!UpTo(i))
      BY <3>1
    <3> QED  BY <1>10, <3>2, <3>3
  <2> QED  BY <2>1, <2>2
<1>12. stores'.balance = chain.balance
  <2>1. ASSUME NEW k \in AmbientKey PROVE Ambient!SumOf(k, DOMAIN deltas) = chain.balance[k]
    <3>1. PICK is : is = DOMAIN deltas
      OBVIOUS
    <3>2. PICK m \in 0..Len(block.calls) : m = n
      BY <1>3, <1>4
    <3>3. /\ is \subseteq Ambient!Counted
          /\ \A j \in Ambient!Counted : block.calls[j].pool = k[1] => (j \in is <=> j <= m)
      BY <1>3, <1>4, <1>6, <1>7, <3>1, <3>2
    <3>4. Ambient!SumOf(k, is) = h[m].balance[k]
      BY <1>1, <1>2, <3>3, AmbientSum
    <3> QED  BY <1>5, <3>1, <3>2, <3>4
  <2>2. stores'.balance = [k \in AmbientKey |-> Ambient!SumOf(k, DOMAIN deltas)]
    BY <1>2
  <2>3. chain.balance = [k \in AmbientKey |-> chain.balance[k]]
    BY AmbientParts
  <2> QED  BY <2>1, <2>2, <2>3
<1>13. stores'.pools = chain.pools
  BY <1>2, <1>8, <1>9
<1>14. AmbientTypes'
  BY <1>2 DEF AmbientInv, AmbientTypes
<1>15. AmbientAt(h, e)'
  <2>1. /\ Chronicle(h, e, block'.calls, block'.tx, block'.txEnd, chain', AmbientState)
        /\ AmbientSteps(h, block'.calls)
        /\ h[0] = block'.begin /\ Ambient!SameContract(indexer', block'.begin)
    BY <1>1, <1>2 DEF AmbientAt
  <2>2. Ambient!Counted' = Ambient!Counted
    BY <1>2 DEF Ambient!Counted
  <2>3. \A pool : Ambient!InOrder(pool)' <=> Ambient!InOrder(pool)
    BY <1>2, <2>2 DEF Ambient!InOrder
  <2>4. AmbientSummedUp(h)'
    BY <1>2, <1>3, <1>11, <2>2, <2>3 DEF AmbientSummedUp
  <2>5. stores'.pools = chain'.pools /\ stores'.balance = chain'.balance
    BY <1>2, <1>12, <1>13
  <2> QED  BY <1>2, <2>1, <2>4, <2>5 DEF AmbientAt, Ambient!SameContract
<1> QED  BY <1>2, <1>14, <1>15 DEF AmbientInv, AmbientDeltas, AmbientMessage

-----------------------------------------------------------------------------
(* The message: what a transaction says takes the state before it to the   *)
(* state after it.                                                         *)
AmbientBalanceSame(h, k, a, b) ==
    \A i \in a + 1..b : h[i].balance[k] = h[i - 1].balance[k]

LEMMA AmbientBalanceBetween ==
    ASSUME NEW h, NEW k, NEW a, NEW b, a \in Nat, b \in Nat, a <= b,
           AmbientBalanceSame(h, k, a, b)
    PROVE  h[b].balance[k] = h[a].balance[k]
<1>1. PICK f : f = [i \in 0..b |-> h[i].balance[k]]
  OBVIOUS
<1>2. \A i \in a + 1..b : f[i] = f[i - 1]
  <2> TAKE i \in a + 1..b
  <2>1. i \in 0..b /\ i - 1 \in 0..b
    OBVIOUS
  <2> QED  BY <1>1, <2>1 DEF AmbientBalanceSame
<1>3. f[b] = f[a]
  BY <1>2, Unchanged
<1> QED  BY <1>1, <1>3

(* What no call of a stretch writes stays.                                 *)
AmbientWordSame(h, p, a, b) ==
    \A i \in a + 1..b : h[i].word[p] = h[i - 1].word[p]

LEMMA AmbientWordBetween ==
    ASSUME NEW h, NEW p, NEW a, NEW b, a \in Nat, b \in Nat, a <= b,
           AmbientWordSame(h, p, a, b)
    PROVE  h[b].word[p] = h[a].word[p]
<1>1. PICK f : f = [i \in 0..b |-> h[i].word[p]]
  OBVIOUS
<1>2. \A i \in a + 1..b : f[i] = f[i - 1]
  <2> TAKE i \in a + 1..b
  <2>1. i \in 0..b /\ i - 1 \in 0..b
    OBVIOUS
  <2> QED  BY <1>1, <2>1 DEF AmbientWordSame
<1>3. f[b] = f[a]
  BY <1>2, Unchanged
<1> QED  BY <1>1, <1>3

AmbientNativeSame(h, a, b) == \A i \in a + 1..b : h[i].native = h[i - 1].native

LEMMA AmbientNativeBetween ==
    ASSUME NEW h, NEW a, NEW b, a \in Nat, b \in Nat, a <= b, AmbientNativeSame(h, a, b)
    PROVE  h[b].native = h[a].native
<1>1. PICK f : f = [i \in 0..b |-> h[i].native]
  OBVIOUS
<1>2. \A i \in a + 1..b : f[i] = f[i - 1]
  <2> TAKE i \in a + 1..b
  <2>1. i \in 0..b /\ i - 1 \in 0..b
    OBVIOUS
  <2> QED  BY <1>1, <2>1 DEF AmbientNativeSame
<1>3. f[b] = f[a]
  BY <1>2, Unchanged
<1> QED  BY <1>1, <1>3

AmbientSpan(h, e, calls, t, n, lo, hi) ==
    /\ DOMAIN calls = 1..n /\ lo \in 0..n /\ hi \in 0..n /\ lo <= hi
    /\ lo = e[t - 1] /\ hi = e[t]
    /\ \A i \in 1..n : calls[i].tx = t <=> lo < i /\ i <= hi
    /\ \A i \in 1..n : AmbientStep(h[i - 1], h[i], calls[i])
    /\ h \in [0..n -> AmbientState]

LEMMA AmbientSpans ==
    ASSUME AmbientInv, NEW h, NEW e, AmbientAt(h, e), NEW t \in 1..block.tx
    PROVE  \E n \in Nat : n = Len(block.calls) /\ \E lo, hi :
               AmbientSpan(h, e, block.calls, t, n, lo, hi)
<1>1. MaxTxs \in Nat \ {0}
  BY AmbientConstants
<1>2. PICK t0 \in 1..MaxTxs : t0 = block.tx
  BY DEF AmbientInv, AmbientTypes
<1>3. PICK last : last = t0
  OBVIOUS
<1>4. PICK calls : calls = block.calls
  OBVIOUS
<1>5. PICK n \in Nat : n = Len(calls)
  BY <1>4 DEF AmbientInv, AmbientTypes
<1>6. calls \in Seq(AmbientCall) /\ Ends(e, calls, last) /\ DOMAIN calls = 1..n
      /\ h \in [0..n -> AmbientState] /\ AmbientSteps(h, calls) /\ last \in 1..MaxTxs
  BY <1>2, <1>3, <1>4, <1>5 DEF AmbientInv, AmbientTypes, AmbientAt, Chronicle
<1>7. PICK u : u = t
  OBVIOUS
<1>8. u \in 1..MaxTxs
  BY <1>1, <1>2, <1>7
<1>9. \A i \in 1..Len(calls) : calls[i].tx = u <=> e[u - 1] < i /\ i <= e[u]
  BY <1>1, <1>6, <1>8, EndsSplit
<1>10. e[u - 1] \in 0..n /\ e[u] \in 0..n /\ e[u - 1] <= e[u]
  BY <1>1, <1>5, <1>6, <1>8, EndsFacts
<1>11. AmbientSpan(h, e, calls, t, n, e[t - 1], e[t])
  BY <1>5, <1>6, <1>7, <1>9, <1>10 DEF AmbientSpan, AmbientSteps
<1> QED  BY <1>4, <1>5, <1>11

LEMMA AmbientPoolsTold ==
    ASSUME AmbientInv, NEW h, NEW e, AmbientAt(h, e), NEW t \in 1..block.tx
    PROVE  h[e[t]].pools = h[e[t - 1]].pools \cup Ambient!NewPools(t)
<1>0. PICK n \in Nat : n = Len(block.calls) /\ \E lo, hi : AmbientSpan(h, e, block.calls, t, n, lo, hi)
  BY AmbientSpans
<1>1. PICK lo, hi : /\ n = Len(block.calls)
                    /\ AmbientSpan(h, e, block.calls, t, n, lo, hi)
  BY <1>0
<1>2. PICK calls : calls = block.calls
  OBVIOUS
<1>3. calls \in Seq(AmbientCall) /\ AmbientSteps(h, calls)
  BY <1>2 DEF AmbientInv, AmbientTypes, AmbientAt
<1>4. h[hi].pools = h[lo].pools \cup Gathered(AmbientNew(calls), lo + 1..hi)
  <2>1. lo \in 0..Len(calls) /\ hi \in 0..Len(calls) /\ lo <= hi
    BY <1>1, <1>2 DEF AmbientSpan
  <2> QED  BY <1>3, <2>1, AmbientPoolsAlong
<1>5. ASSUME NEW x
      PROVE  x \in Ambient!NewPools(t) <=> x \in Gathered(AmbientNew(calls), lo + 1..hi)
  <2>1. x \in Ambient!NewPools(t) <=> \E i \in 1..n : x \in AmbientNew(calls)[i] /\ calls[i].tx = t
    BY <1>1, <1>2, AmbientNewPools DEF AmbientSpan
  <2>2. x \in Gathered(AmbientNew(calls), lo + 1..hi)
           <=> \E i \in lo + 1..hi : x \in AmbientNew(calls)[i]
    BY GatheredIs
  <2>3. \A i \in 1..n : calls[i].tx = t <=> i \in lo + 1..hi
    BY <1>1, <1>2, SMTT(40) DEF AmbientSpan
  <2>4. \A i \in lo + 1..hi : i \in 1..n
    BY <1>1 DEF AmbientSpan
  <2> QED  BY <2>1, <2>2, <2>3, <2>4
<1> QED  BY <1>1, <1>4, <1>5 DEF AmbientSpan

(* The last delta of a pool in a transaction has its balances at the end.  *)
LEMMA AmbientBalancesTold ==
    ASSUME AmbientInv, NEW h, NEW e, AmbientAt(h, e), phase \in {"map", "apply"},
           NEW t \in 1..block.tx, NEW k \in AmbientKey, Ambient!DeltasOf(t, k[1]) # {},
           Ambient!InOrder(k[1])
    PROVE  k \in DOMAIN Ambient!Balances(t) /\ Ambient!Balances(t)[k] = h[e[t]].balance[k]
<1>0. PICK n \in Nat : n = Len(block.calls) /\ \E lo, hi : AmbientSpan(h, e, block.calls, t, n, lo, hi)
  BY AmbientSpans
<1>1. PICK lo, hi : /\ n = Len(block.calls)
                    /\ AmbientSpan(h, e, block.calls, t, n, lo, hi)
  BY <1>0
<1>2. PICK calls : calls = block.calls
  OBVIOUS
<1>3. /\ DOMAIN calls = 1..n /\ lo \in 0..n /\ hi \in 0..n /\ lo <= hi
      /\ lo = e[t - 1] /\ hi = e[t] /\ h \in [0..n -> AmbientState]
      /\ \A i \in 1..n : calls[i].tx = t <=> lo < i /\ i <= hi
      /\ \A i \in 1..n : AmbientStep(h[i - 1], h[i], calls[i])
  BY <1>1, <1>2 DEF AmbientSpan
<1>4. \A i : i \in Ambient!Counted <=> i \in 1..n /\ calls[i].kind = "flow"
  BY <1>2, <1>3 DEF Ambient!Counted
<1>5. PICK ds : ds = deltas
  OBVIOUS
<1>6. /\ DOMAIN ds = Ambient!Counted
      /\ \A i \in Ambient!Counted :
            /\ ds[i].pool = calls[i].pool /\ ds[i].tx = calls[i].tx
            /\ Ambient!InOrder(calls[i].pool) =>
                  \A side \in Ambient!Side :
                     ds[i].new_value[side] = h[i].balance[<<calls[i].pool, side>>]
  BY <1>2, <1>5 DEF AmbientAt, AmbientSummedUp
<1>7. PICK S : S = Ambient!DeltasOf(t, k[1])
  OBVIOUS
<1>8. \A i : i \in S <=> /\ i \in 1..n /\ calls[i].kind = "flow" /\ lo < i /\ i <= hi
                         /\ calls[i].pool = k[1]
  <2>1. \A i : i \in S <=> i \in Ambient!Counted /\ ds[i].tx = t /\ ds[i].pool = k[1]
    BY <1>5, <1>6, <1>7 DEF Ambient!DeltasOf
  <2> QED  BY <1>3, <1>4, <1>6, <2>1
<1>9. ASSUME NEW i \in 1..n, lo < i, i <= hi, i \notin S
      PROVE  h[i].balance[k] = h[i - 1].balance[k]
  <2>1. ~(calls[i].kind = "flow" /\ k[1] = calls[i].pool)
    BY <1>8, <1>9
  <2> QED  BY <1>3, <2>1 DEF AmbientStep
<1>10. PICK B : B = Ambient!Balances(t)
  OBVIOUS
<1>11. /\ k \in DOMAIN B <=> S # {}
       /\ S # {} => B[k] = Ambient!Magnitude(ds[Ambient!Max(S)].new_value[k[2]])
  BY <1>5, <1>7, <1>10, AmbientConstants DEF Ambient!Balances
<1>12. B[k] = h[hi].balance[k]
  <2>1. S \subseteq 1..n
    BY <1>8
  <2>2. PICK m \in S : m = Ambient!Max(S) /\ \A i \in S : i <= m
    <3>1. \E m \in S : \A i \in S : i <= m
      BY <1>7, <2>1, LastIndex
    <3> QED  BY <2>1, <3>1 DEF Ambient!Max
  <2>3. m \in 1..n /\ m \in 0..n /\ m <= hi /\ lo < m /\ m \in Ambient!Counted
        /\ calls[m].pool = k[1]
    BY <1>4, <1>8, <2>2
  <2>4. \A i \in m + 1..hi : h[i].balance[k] = h[i - 1].balance[k]
    <3> TAKE i \in m + 1..hi
    <3>1. i \in 1..n /\ lo < i /\ i <= hi /\ m < i
      BY <1>3, <2>3
    <3>2. PICK j : j = i
      OBVIOUS
    <3>3. j \in S => j <= m
      BY <2>2
    <3>4. i \notin S
      BY <2>3, <3>1, <3>2, <3>3
    <3> QED  BY <1>9, <3>1, <3>4
  <2>5. h[hi].balance[k] = h[m].balance[k]
    <3>1. PICK a : a = m
      OBVIOUS
    <3>2. PICK q : q = k
      OBVIOUS
    <3>3. AmbientBalanceSame(h, q, a, hi)
      BY <2>4, <3>1, <3>2 DEF AmbientBalanceSame
    <3>4. a \in Nat /\ hi \in Nat /\ a <= hi
      BY <1>3, <2>3, <3>1
    <3>5. h[hi].balance[q] = h[a].balance[q]
      BY <3>3, <3>4, AmbientBalanceBetween
    <3> QED  BY <3>1, <3>2, <3>5
  <2>6. k[2] \in Ambient!Side /\ k = <<k[1], k[2]>>
    BY DEF AmbientKey, Ambient!Side
  <2>7. ds[m].new_value[k[2]] = h[m].balance[k]
    BY <1>6, <2>3, <2>6
  <2>8. h[m].balance[k] \in Nat
    BY <1>3, <2>3 DEF AmbientState
  <2>9. Ambient!Magnitude(h[m].balance[k]) = h[m].balance[k]
    BY <2>8 DEF Ambient!Magnitude
  <2> QED  BY <1>7, <1>11, <2>2, <2>5, <2>7, <2>9
<1> QED  BY <1>3, <1>7, <1>10, <1>11, <1>12

(* The calls of a transaction that were not reverted.                      *)
LEMMA AmbientKept ==
    ASSUME NEW calls, calls = block.calls, NEW h, NEW e, NEW t, NEW n, NEW lo, NEW hi,
           AmbientSpan(h, e, calls, t, n, lo, hi), NEW i
    PROVE  i \in Ambient!Kept(t)
              <=> i \in 1..n /\ lo < i /\ i <= hi /\ calls[i].kind # "reverted"
BY DEF AmbientSpan, Ambient!Kept

LEMMA AmbientKinds ==
    ASSUME NEW c \in AmbientCall
    PROVE  /\ c.kind \in {"create", "init", "flow", "reverted"}
           /\ c.kind # "create" => c.pool \in AmbientPool
BY DEF AmbientCall, AmbientCreate, AmbientInitCall, AmbientFlowCall

(* A slot's first write has its value before the transaction, its last one *)
(* the value after it.                                                     *)
AmbientOld(t, p) == block.calls[Ambient!Min(Ambient!WritesTo(t, p))].old
AmbientNewest(t, p) == block.calls[Ambient!Max(Ambient!WritesTo(t, p))].new

LEMMA AmbientSlotsTold ==
    ASSUME AmbientInv, NEW h, NEW e, AmbientAt(h, e), NEW t \in 1..block.tx,
           NEW p \in AmbientPool
    PROVE  /\ p \in DOMAIN Ambient!Slots(t) => Ambient!Slots(t)[p] = h[e[t]].word[p]
           /\ p \notin DOMAIN Ambient!Slots(t) => h[e[t]].word[p] = h[e[t - 1]].word[p]
<1>0. PICK n \in Nat : n = Len(block.calls) /\ \E lo, hi : AmbientSpan(h, e, block.calls, t, n, lo, hi)
  BY AmbientSpans
<1>1. PICK lo, hi : /\ n = Len(block.calls)
                    /\ AmbientSpan(h, e, block.calls, t, n, lo, hi)
  BY <1>0
<1>2. PICK calls : calls = block.calls
  OBVIOUS
<1>3. /\ DOMAIN calls = 1..n /\ lo \in 0..n /\ hi \in 0..n /\ lo <= hi
      /\ lo = e[t - 1] /\ hi = e[t]
      /\ \A i \in 1..n : AmbientStep(h[i - 1], h[i], calls[i])
  BY <1>1, <1>2 DEF AmbientSpan
<1>4. \A i \in 1..n : calls[i] \in AmbientCall
  BY <1>1, <1>2 DEF AmbientInv, AmbientTypes
<1>5. PICK S : S = Ambient!WritesTo(t, p)
  OBVIOUS
<1>6. \A i : i \in S <=> /\ i \in 1..n /\ lo < i /\ i <= hi
                         /\ AmbientWrites(calls[i]) /\ calls[i].pool = p
  <2> TAKE i
  <2>1. i \in Ambient!Kept(t) <=> i \in 1..n /\ lo < i /\ i <= hi /\ calls[i].kind # "reverted"
    BY <1>1, <1>2, AmbientKept
  <2>2. i \in 1..n => calls[i].kind \in {"create", "init", "flow", "reverted"}
    BY <1>4, AmbientKinds
  <2> QED  BY <1>2, <1>5, <2>1, <2>2 DEF Ambient!WritesTo, AmbientWrites
<1>7. PICK w : w = Ambient!Slots(t)
  OBVIOUS
<1>8. /\ p \in DOMAIN w <=> S # {} /\ AmbientOld(t, p) # AmbientNewest(t, p)
      /\ p \in DOMAIN w => w[p] = AmbientNewest(t, p)
  <2>1. w = [q \in {q \in AmbientPool : /\ Ambient!WritesTo(t, q) # {}
                                        /\ AmbientOld(t, q) # AmbientNewest(t, q)}
               |-> AmbientNewest(t, q)]
    BY <1>7, Zenon DEF Ambient!Slots, AmbientOld, AmbientNewest
  <2> QED  BY <1>5, <2>1
<1>9. ASSUME NEW i \in 1..n, lo < i, i <= hi, i \notin S
      PROVE  h[i].word[p] = h[i - 1].word[p]
  <2>1. ~(AmbientWrites(calls[i]) /\ p = calls[i].pool)
    BY <1>6, <1>9
  <2> QED  BY <1>3, <2>1 DEF AmbientStep
<1>10. CASE S = {}
  <2>1. \A i \in lo + 1..hi : h[i].word[p] = h[i - 1].word[p]
    <3> TAKE i \in lo + 1..hi
    <3>1. i \in 1..n /\ lo < i /\ i <= hi
      BY <1>3
    <3> QED  BY <1>9, <1>10, <3>1
  <2>2. PICK q : q = p
    OBVIOUS
  <2>3. AmbientWordSame(h, q, lo, hi)
    BY <2>1, <2>2 DEF AmbientWordSame
  <2>4. lo \in Nat /\ hi \in Nat /\ lo <= hi
    BY <1>3
  <2>5. h[hi].word[q] = h[lo].word[q]
    BY <2>3, <2>4, AmbientWordBetween
  <2> QED  BY <1>3, <1>7, <1>8, <1>10, <2>2, <2>5
<1>11. CASE S # {}
  <2>1. S \subseteq 1..n
    BY <1>6
  <2>2. PICK m \in S : m = Ambient!Max(S) /\ \A i \in S : i <= m
    <3>1. \E m \in S : \A i \in S : i <= m
      BY <1>11, <2>1, LastIndex
    <3> QED  BY <2>1, <3>1 DEF Ambient!Max
  <2>3. PICK f \in S : f = Ambient!Min(S) /\ \A i \in S : f <= i
    <3>1. \E f \in S : \A i \in S : f <= i
      BY <1>11, <2>1, FirstIndex
    <3> QED  BY <2>1, <3>1 DEF Ambient!Min
  <2>4. h[hi].word[p] = AmbientNewest(t, p)
    <3>1. m \in 1..n /\ lo < m /\ m <= hi /\ AmbientWrites(calls[m]) /\ calls[m].pool = p
      BY <1>6, <2>2
    <3>2. h[m].word[p] = calls[m].new
      BY <1>3, <3>1 DEF AmbientStep
    <3>3. \A i \in m + 1..hi : h[i].word[p] = h[i - 1].word[p]
      <4> TAKE i \in m + 1..hi
      <4>1. i \in 1..n /\ lo < i /\ i <= hi /\ m < i
        BY <1>3, <3>1, SMTT(40)
      <4>2. PICK j : j = i
        OBVIOUS
      <4>3. j \in S => j <= m
        BY <2>2
      <4>4. i \notin S
        BY <3>1, <4>1, <4>2, <4>3
      <4> QED  BY <1>9, <4>1, <4>4
    <3>4. PICK a, q : a = m /\ q = p
      OBVIOUS
    <3>5. AmbientWordSame(h, q, a, hi) /\ a \in Nat /\ hi \in Nat /\ a <= hi
      BY <1>3, <3>1, <3>3, <3>4 DEF AmbientWordSame
    <3>6. h[hi].word[q] = h[a].word[q]
      BY <3>5, AmbientWordBetween
    <3> QED  BY <1>2, <1>5, <2>2, <3>2, <3>4, <3>6 DEF AmbientNewest
  <2>5. h[lo].word[p] = AmbientOld(t, p)
    <3>1. f \in 1..n /\ lo < f /\ f <= hi /\ AmbientWrites(calls[f]) /\ calls[f].pool = p
      BY <1>6, <2>3
    <3>2. h[f - 1].word[p] = calls[f].old
      BY <1>3, <3>1 DEF AmbientStep
    <3>3. PICK b, q : b = f - 1 /\ q = p
      OBVIOUS
    <3>4. lo \in Nat /\ b \in Nat /\ lo <= b
      BY <1>3, <3>1, <3>3
    <3>5. \A i \in lo + 1..b : h[i].word[p] = h[i - 1].word[p]
      <4> TAKE i \in lo + 1..b
      <4>1. i \in 1..n /\ lo < i /\ i <= hi /\ i < f
        BY <1>3, <3>1, <3>3, SMTT(40)
      <4>2. PICK j : j = i
        OBVIOUS
      <4>3. j \in S => f <= j
        BY <2>3
      <4>4. i \notin S
        BY <3>1, <4>1, <4>2, <4>3
      <4> QED  BY <1>9, <4>1, <4>4
    <3>6. AmbientWordSame(h, q, lo, b)
      BY <3>3, <3>5 DEF AmbientWordSame
    <3>7. h[b].word[q] = h[lo].word[q]
      BY <3>4, <3>6, AmbientWordBetween
    <3> QED  BY <1>2, <1>5, <2>3, <3>2, <3>3, <3>7 DEF AmbientOld
  <2> QED  BY <1>3, <1>7, <1>8, <1>11, <2>4, <2>5
<1> QED  BY <1>10, <1>11

(* The last flow of a transaction leaves the native balance, which its     *)
(* trace has unless it is zero.                                            *)
LEMMA AmbientNativeTold ==
    ASSUME AmbientInv, NEW h, NEW e, AmbientAt(h, e), NEW t \in 1..block.tx,
           h[e[t]].native # 0
    PROVE  IF Ambient!NativeBalance(t) = 0 THEN h[e[t]].native = h[e[t - 1]].native
           ELSE h[e[t]].native = Ambient!NativeBalance(t)
<1>0. PICK n \in Nat : n = Len(block.calls) /\ \E lo, hi : AmbientSpan(h, e, block.calls, t, n, lo, hi)
  BY AmbientSpans
<1>1. PICK lo, hi : /\ n = Len(block.calls)
                    /\ AmbientSpan(h, e, block.calls, t, n, lo, hi)
  BY <1>0
<1>2. PICK calls : calls = block.calls
  OBVIOUS
<1>3. /\ DOMAIN calls = 1..n /\ lo \in 0..n /\ hi \in 0..n /\ lo <= hi
      /\ lo = e[t - 1] /\ hi = e[t]
      /\ \A i \in 1..n : AmbientStep(h[i - 1], h[i], calls[i])
  BY <1>1, <1>2 DEF AmbientSpan
<1>4. \A i \in 1..n : calls[i] \in AmbientCall
  BY <1>1, <1>2 DEF AmbientInv, AmbientTypes
<1>5. PICK F : F = {i \in 1..n : lo < i /\ i <= hi /\ calls[i].kind = "flow"}
  OBVIOUS
<1>6. PICK S : S = Ambient!Paid(t)
  OBVIOUS
<1>7. \A i : i \in S <=> i \in F /\ calls[i].native # 0
  <2> TAKE i
  <2>1. i \in Ambient!Kept(t) <=> i \in 1..n /\ lo < i /\ i <= hi /\ calls[i].kind # "reverted"
    BY <1>1, <1>2, AmbientKept
  <2>2. i \in 1..n => calls[i].kind \in {"create", "init", "flow", "reverted"}
    BY <1>4, AmbientKinds
  <2>3. i \in 1..n /\ calls[i].kind = "init" => calls[i].native = 0
    BY <1>3 DEF AmbientStep
  <2> QED  BY <1>2, <1>5, <1>6, <2>1, <2>2, <2>3 DEF Ambient!Paid
<1>8. ASSUME NEW i \in 1..n, lo < i, i <= hi, i \notin F
      PROVE  h[i].native = h[i - 1].native
  <2>1. calls[i].kind # "flow"
    BY <1>5, <1>8
  <2> QED  BY <1>3, <2>1 DEF AmbientStep
<1>9. CASE F = {}
  <2>1. \A i \in lo + 1..hi : h[i].native = h[i - 1].native
    <3> TAKE i \in lo + 1..hi
    <3>1. i \in 1..n /\ lo < i /\ i <= hi
      BY <1>3
    <3> QED  BY <1>8, <1>9, <3>1
  <2>2. AmbientNativeSame(h, lo, hi) /\ lo \in Nat /\ hi \in Nat /\ lo <= hi
    BY <1>3, <2>1 DEF AmbientNativeSame
  <2>3. h[hi].native = h[lo].native
    BY <2>2, AmbientNativeBetween
  <2>4. S = {}
    BY <1>7, <1>9
  <2>5. Ambient!NativeBalance(t) = 0
    BY <1>6, <2>4 DEF Ambient!NativeBalance
  <2> QED  BY <1>3, <2>3, <2>5
<1>10. CASE F # {}
  <2>1. F \subseteq 1..n
    BY <1>5
  <2>2. PICK m \in F : \A i \in F : i <= m
    BY <1>10, <2>1, LastIndex
  <2>3. m \in 1..n /\ lo < m /\ m <= hi /\ calls[m].kind = "flow"
    BY <1>5, <2>2
  <2>4. h[m].native = calls[m].native
    BY <1>3, <2>3 DEF AmbientStep
  <2>5. \A i \in m + 1..hi : h[i].native = h[i - 1].native
    <3> TAKE i \in m + 1..hi
    <3>1. i \in 1..n /\ lo < i /\ i <= hi /\ m < i
      BY <1>3, <2>3
    <3>2. PICK j : j = i
      OBVIOUS
    <3>3. j \in F => j <= m
      BY <2>2
    <3>4. i \notin F
      BY <2>3, <3>1, <3>2, <3>3
    <3> QED  BY <1>8, <3>1, <3>4
  <2>6. PICK a : a = m
    OBVIOUS
  <2>7. AmbientNativeSame(h, a, hi) /\ a \in Nat /\ hi \in Nat /\ a <= hi
    BY <1>3, <2>3, <2>5, <2>6 DEF AmbientNativeSame
  <2>8. h[hi].native = h[a].native
    BY <2>7, AmbientNativeBetween
  <2>9. calls[m].native # 0
    BY <1>3, <2>4, <2>6, <2>8
  <2>10. m \in S /\ S \subseteq 1..n
    BY <1>7, <2>1, <2>2, <2>9
  <2>11. m = Ambient!Max(S)
    <3>1. \A i \in S : i <= m
      BY <1>7, <2>2
    <3>2. \A j \in S : (\A i \in S : i <= j) => j = m
      <4> TAKE j \in S
      <4> HAVE \A i \in S : i <= j
      <4>1. m <= j /\ j <= m /\ j \in 1..n
        BY <2>10, <3>1
      <4> QED  BY <2>3, <4>1
    <3>3. Ambient!Max(S) = CHOOSE j \in S : \A i \in S : j >= i
      BY DEF Ambient!Max
    <3> QED  BY <2>3, <2>10, <3>1, <3>2 DEF Ambient!Max
  <2>12. S # {}
    BY <2>10
  <2>13. Ambient!NativeBalance(t) = calls[m].native
    BY <1>2, <1>6, <2>11, <2>12 DEF Ambient!NativeBalance
  <2> QED  BY <1>3, <2>4, <2>6, <2>8, <2>9, <2>13
<1> QED  BY <1>9, <1>10

(* The contract's code is there when a call has created it.                *)
AmbientThere(b) == IF b THEN {"code"} ELSE {}
AmbientCreates(calls) ==
    [i \in 1..Len(calls) |-> AmbientThere(calls[i].kind = "create")]

LEMMA AmbientCodeTold ==
    ASSUME AmbientInv, NEW h, NEW e, AmbientAt(h, e), NEW t \in 1..block.tx
    PROVE  h[e[t]].code = (h[e[t - 1]].code \/ Ambient!Deployed(t))
<1>0. PICK n \in Nat : n = Len(block.calls) /\ \E lo, hi : AmbientSpan(h, e, block.calls, t, n, lo, hi)
  BY AmbientSpans
<1>1. PICK lo, hi : /\ n = Len(block.calls)
                    /\ AmbientSpan(h, e, block.calls, t, n, lo, hi)
  BY <1>0
<1>2. PICK calls : calls = block.calls
  OBVIOUS
<1>3. /\ DOMAIN calls = 1..n /\ lo \in 0..n /\ hi \in 0..n /\ lo <= hi
      /\ lo = e[t - 1] /\ hi = e[t] /\ h \in [0..n -> AmbientState]
      /\ \A i \in 1..n : AmbientStep(h[i - 1], h[i], calls[i])
  BY <1>1, <1>2 DEF AmbientSpan
<1>4. \A i \in 0..n : h[i].code \in BOOLEAN
  BY <1>3 DEF AmbientState
<1>5. PICK f : f = [i \in 0..n |-> AmbientThere(h[i].code)]
  OBVIOUS
<1>6. PICK new : new = [i \in 1..n |-> AmbientThere(calls[i].kind = "create")]
  OBVIOUS
<1>7. Adds(f, new, lo, hi)
  <2>1. ASSUME NEW i \in lo + 1..hi PROVE f[i] = f[i - 1] \cup new[i]
    <3>1. i \in 1..n /\ i \in 0..n /\ i - 1 \in 0..n
      BY <1>3
    <3>2. /\ f[i] = AmbientThere(h[i].code) /\ f[i - 1] = AmbientThere(h[i - 1].code)
          /\ new[i] = AmbientThere(calls[i].kind = "create")
      BY <1>5, <1>6, <3>1
    <3>3. AmbientStep(h[i - 1], h[i], calls[i])
      BY <1>3, <3>1
    <3>4. CASE calls[i].kind = "create"
      <4>1. h[i].code = TRUE
        BY <3>3, <3>4 DEF AmbientStep
      <4>2. f[i] = {"code"} /\ new[i] = {"code"} /\ f[i - 1] \subseteq {"code"}
        BY <3>2, <3>4, <4>1 DEF AmbientThere
      <4> QED  BY <4>2
    <3>5. CASE calls[i].kind # "create"
      <4>1. h[i].code = h[i - 1].code
        BY <3>3, <3>5 DEF AmbientStep
      <4>2. f[i] = f[i - 1] /\ new[i] = {}
        BY <3>2, <3>5, <4>1 DEF AmbientThere
      <4> QED  BY <4>2
    <3> QED  BY <3>4, <3>5
  <2> QED  BY <2>1 DEF Adds
<1>8. lo \in Nat /\ hi \in Nat /\ lo <= hi
  BY <1>3
<1>9. f[hi] = f[lo] \cup Gathered(new, lo + 1..hi)
  BY <1>7, <1>8, Accumulated
<1>10. "code" \in Gathered(new, lo + 1..hi) <=> \E i \in lo + 1..hi : "code" \in new[i]
  BY GatheredIs
<1>11. \A i \in lo + 1..hi : i \in 1..n /\ ("code" \in new[i] <=> calls[i].kind = "create")
  <2> TAKE i \in lo + 1..hi
  <2>1. i \in 1..n
    BY <1>3
  <2> QED  BY <1>6, <2>1 DEF AmbientThere
<1>12. Ambient!Deployed(t) <=> \E i \in lo + 1..hi : calls[i].kind = "create"
  <2>1. \A i : i \in Ambient!Kept(t)
                  <=> i \in 1..n /\ lo < i /\ i <= hi /\ calls[i].kind # "reverted"
    BY <1>1, <1>2, AmbientKept
  <2>2. \A i : i \in lo + 1..hi <=> i \in 1..n /\ lo < i /\ i <= hi
    BY <1>3
  <2> QED  BY <1>2, <2>1, <2>2 DEF Ambient!Deployed
<1>13. /\ "code" \in f[hi] <=> h[hi].code = TRUE
       /\ "code" \in f[lo] <=> h[lo].code = TRUE
  BY <1>3, <1>4, <1>5 DEF AmbientThere
<1>14. h[hi].code = TRUE <=> h[lo].code = TRUE \/ Ambient!Deployed(t)
  BY <1>9, <1>10, <1>11, <1>12, <1>13
<1>15. Ambient!Deployed(t) \in BOOLEAN
  BY DEF Ambient!Deployed
<1>16. h[hi].code \in BOOLEAN /\ h[lo].code \in BOOLEAN
  BY <1>3, <1>4
<1> QED  BY <1>3, <1>14, <1>15, <1>16

(* A transaction that is left out has changed nothing.                     *)
LEMMA AmbientUnwritten ==
    ASSUME AmbientInv, NEW h, NEW e, AmbientAt(h, e), NEW t \in 1..block.tx, Ambient!Kept(t) = {}
    PROVE  h[e[t]] = h[e[t - 1]]
<1>0. PICK n \in Nat : n = Len(block.calls) /\ \E lo, hi : AmbientSpan(h, e, block.calls, t, n, lo, hi)
  BY AmbientSpans
<1>1. PICK lo, hi : /\ n = Len(block.calls)
                    /\ AmbientSpan(h, e, block.calls, t, n, lo, hi)
  BY <1>0
<1>2. PICK calls : calls = block.calls
  OBVIOUS
<1>3. /\ DOMAIN calls = 1..n /\ lo \in 0..n /\ hi \in 0..n /\ lo <= hi
      /\ lo = e[t - 1] /\ hi = e[t] /\ h \in [0..n -> AmbientState]
      /\ \A i \in 1..n : calls[i].tx = t <=> lo < i /\ i <= hi
      /\ \A i \in 1..n : AmbientStep(h[i - 1], h[i], calls[i])
  BY <1>1, <1>2 DEF AmbientSpan
<1>4. \A i \in 1..n : calls[i] \in AmbientCall
  BY <1>1, <1>2 DEF AmbientInv, AmbientTypes
<1>5. ASSUME NEW i \in 1..n, lo < i, i <= hi PROVE h[i] = h[i - 1]
  <2>1. calls[i].kind = "reverted"
    BY <1>1, <1>2, <1>5, AmbientKept
  <2>2. AmbientStep(h[i - 1], h[i], calls[i])
    BY <1>3
  <2>3. i \in 0..n /\ i - 1 \in 0..n
    OBVIOUS
  <2>4. h[i] \in AmbientState /\ h[i - 1] \in AmbientState
    BY <1>3, <2>3
  <2>5. /\ h[i].code = h[i - 1].code /\ h[i].native = h[i - 1].native
        /\ h[i].pools = h[i - 1].pools
        /\ \A k \in AmbientKey : h[i].balance[k] = h[i - 1].balance[k]
        /\ \A p \in AmbientPool : h[i].word[p] = h[i - 1].word[p]
    BY <2>1, <2>2 DEF AmbientStep, AmbientWrites
  <2>6. h[i].balance = h[i - 1].balance /\ h[i].word = h[i - 1].word
    BY <2>4, <2>5 DEF AmbientState
  <2> QED  BY <2>4, <2>5, <2>6 DEF AmbientState
<1>6. \A i \in lo + 1..hi : h[i] = h[i - 1]
  <2> TAKE i \in lo + 1..hi
  <2>1. i \in 1..n /\ lo < i /\ i <= hi
    BY <1>3
  <2> QED  BY <1>5, <2>1
<1>7. lo \in Nat /\ hi \in Nat /\ lo <= hi
  BY <1>3
<1>8. h[hi] = h[lo]
  BY <1>6, <1>7, Unchanged
<1> QED  BY <1>3, <1>8

Leads(K, was, changed, now) ==
    \A k \in K : /\ k \in DOMAIN changed => changed[k] = now[k]
                 /\ k \notin DOMAIN changed => now[k] = was[k]

LEMMA AmbientUpdates ==
    ASSUME NEW K, NEW X, NEW was, NEW now, NEW changed,
           was \in [K -> X], now \in [K -> X], Leads(K, was, changed, now)
    PROVE  Ambient!Updated(was, changed) = now
<1>1. Ambient!Updated(was, changed)
         = [k \in K |-> IF k \in DOMAIN changed THEN changed[k] ELSE was[k]]
  BY DEF Ambient!Updated
<1>2. \A k \in K : (IF k \in DOMAIN changed THEN changed[k] ELSE was[k]) = now[k]
  BY DEF Leads
<1>3. now = [k \in K |-> now[k]]
  OBVIOUS
<1> QED  BY <1>1, <1>2, <1>3

(* The message of a transaction, applied to what has the contract of the   *)
(* state before it, gives what has the contract of the state after it.     *)
LEMMA AmbientTold ==
    ASSUME AmbientInv, NEW h, NEW e, AmbientAt(h, e), NEW t \in 1..block.tx,
           NEW known, Ambient!SameContract(known, h[e[t - 1]])
    PROVE  Ambient!SameContract(Ambient!ApplyTx(known, Ambient!TxChanges(t)), h[e[t]])
<1>0. PICK n \in Nat : n = Len(block.calls) /\ \E lo, hi : AmbientSpan(h, e, block.calls, t, n, lo, hi)
  BY AmbientSpans
<1>1. PICK lo, hi : /\ n = Len(block.calls)
                    /\ AmbientSpan(h, e, block.calls, t, n, lo, hi)
  BY <1>0
<1>2. lo = e[t - 1] /\ hi = e[t] /\ h[lo] \in AmbientState /\ h[hi] \in AmbientState
  BY <1>1 DEF AmbientSpan
<1>3. PICK was \in AmbientState : was = h[e[t - 1]]
  BY <1>2
<1>4. PICK now \in AmbientState : now = h[e[t]]
  BY <1>2
<1>5. PICK said : said = Ambient!TxChanges(t)
  OBVIOUS
<1>6. PICK after : after = Ambient!ApplyTx(known, said)
  OBVIOUS
<1>7. /\ after.code = (known.code \/ (said.change = "Creation" /\ said.code))
      /\ after.native = IF said.native = 0 THEN known.native ELSE said.native
      /\ after.pools = known.pools \cup said.components
      /\ after.word = Ambient!Updated(known.word, said.slots)
  BY <1>6, Zenon DEF Ambient!ApplyTx
<1>8. /\ known.code = was.code /\ known.pools = was.pools /\ known.word = was.word
      /\ was.native # 0 => known.native = was.native
  BY <1>3 DEF Ambient!SameContract
<1>9. PICK w, z : w = was.word /\ z = now.word
  OBVIOUS
<1>10. PICK ints : ints = Int
  OBVIOUS
<1>11. w \in [AmbientPool -> ints] /\ z \in [AmbientPool -> ints]
  BY <1>9, <1>10 DEF AmbientState
<1>12. PICK slots : slots = said.slots
  OBVIOUS
<1>13. /\ Leads(AmbientPool, w, slots, z)
       /\ now.pools = was.pools \cup said.components
       /\ after.code = now.code
       /\ now.native # 0 => after.native = now.native
  <2>1. CASE Ambient!Kept(t) # {}
    <3>1. /\ said.components = Ambient!NewPools(t) /\ said.change = Ambient!Change
          /\ slots = Ambient!Slots(t) /\ said.native = Ambient!NativeBalance(t)
          /\ said.code = Ambient!Deployed(t)
      BY <1>5, <1>12, <2>1 DEF Ambient!TxChanges
    <3>2. now.pools = was.pools \cup said.components
      BY <1>3, <1>4, <3>1, AmbientPoolsTold
    <3>3. Leads(AmbientPool, w, slots, z)
      BY <1>3, <1>4, <1>9, <3>1, AmbientSlotsTold DEF Leads
    <3>4. now.native # 0 => after.native = now.native
      <4>1. now.native # 0
               => IF said.native = 0 THEN now.native = was.native ELSE now.native = said.native
        BY <1>3, <1>4, <3>1, AmbientNativeTold
      <4> QED  BY <1>7, <1>8, <4>1
    <3>5. after.code = now.code
      <4>1. now.code = (was.code \/ Ambient!Deployed(t))
        BY <1>3, <1>4, AmbientCodeTold
      <4>2. t \in Ambient!Tx
        <5>1. block.tx \in 1..MaxTxs /\ MaxTxs \in Nat
          BY AmbientConstants DEF AmbientInv, AmbientTypes
        <5> QED  BY <5>1, AmbientConstants
      <4>3. Ambient!Deployed(t) => said.change = "Creation"
        BY <3>1, <4>2 DEF Ambient!Change
      <4>4. after.code = (was.code \/ (said.change = "Creation" /\ Ambient!Deployed(t)))
        BY <1>7, <1>8, <3>1, Zenon
      <4> QED  BY <4>1, <4>3, <4>4
    <3> QED  BY <3>2, <3>3, <3>4, <3>5
  <2>2. CASE Ambient!Kept(t) = {}
    <3>1. now = was
      BY <1>3, <1>4, <2>2, AmbientUnwritten
    <3>2. /\ said.components = {} /\ slots = <<>> /\ said.native = 0
          /\ said.change = "Update" /\ said.code = FALSE
      BY <1>5, <1>12, <2>2 DEF Ambient!TxChanges
    <3>3. DOMAIN slots = {}
      BY <3>2
    <3>4. Leads(AmbientPool, w, slots, z)
      BY <1>9, <3>1, <3>3 DEF Leads
    <3>5. after.code = now.code
      <4>1. now.code \in BOOLEAN
        BY DEF AmbientState
      <4>2. after.code = (was.code \/ FALSE)
        BY <1>7, <1>8, <3>2
      <4> QED  BY <3>1, <4>1, <4>2
    <3> QED  BY <1>7, <1>8, <3>1, <3>2, <3>4, <3>5
  <2> QED  BY <2>1, <2>2
<1>14. Ambient!Updated(w, slots) = z
  BY <1>11, <1>13, AmbientUpdates
<1>15. after.word = now.word /\ after.pools = now.pools
  BY <1>7, <1>8, <1>9, <1>12, <1>13, <1>14
<1>16. Ambient!SameContract(after, now)
  BY <1>13, <1>15 DEF Ambient!SameContract
<1> QED  BY <1>4, <1>5, <1>6, <1>16

AmbientSameMessage ==
    \A t : Ambient!TxChanges(t)' = Ambient!TxChanges(t)

LEMMA AmbientSameChanges ==
    ASSUME UNCHANGED <<block, deltas>>
    PROVE  AmbientSameMessage
<1>1. \A t : Ambient!NewPools(t)' = Ambient!NewPools(t)
  BY DEF Ambient!NewPools
<1>2. \A t, p : Ambient!DeltasOf(t, p)' = Ambient!DeltasOf(t, p)
  BY DEF Ambient!DeltasOf
<1>3. \A t : Ambient!Balances(t)' = Ambient!Balances(t)
  BY <1>2 DEF Ambient!Balances
<1>4. \A t : Ambient!Kept(t)' = Ambient!Kept(t)
  BY DEF Ambient!Kept
<1>5. \A t, p : Ambient!WritesTo(t, p)' = Ambient!WritesTo(t, p)
  BY <1>4 DEF Ambient!WritesTo
<1>6. \A t : Ambient!Slots(t)' = Ambient!Slots(t)
  BY <1>5, Zenon DEF Ambient!Slots
<1>7. \A t : Ambient!Paid(t)' = Ambient!Paid(t)
  BY <1>4 DEF Ambient!Paid
<1>8. \A t : Ambient!NativeBalance(t)' = Ambient!NativeBalance(t)
  BY <1>7 DEF Ambient!NativeBalance
<1>9. \A t : Ambient!Deployed(t)' = Ambient!Deployed(t)
  BY <1>4 DEF Ambient!Deployed
<1>10. Ambient!Change' = Ambient!Change
  BY <1>9 DEF Ambient!Change
<1> QED  BY <1>1, <1>3, <1>4, <1>6, <1>8, <1>9, <1>10, Zenon
         DEF AmbientSameMessage, Ambient!TxChanges

(* What the history says of the deltas stays with the block.               *)
LEMMA AmbientSameDeltas ==
    ASSUME UNCHANGED <<block, deltas>>, NEW h
    PROVE  AmbientSummedUp(h)' <=> AmbientSummedUp(h)
<1>1. Ambient!Counted' = Ambient!Counted
  BY DEF Ambient!Counted
<1>2. \A pool : Ambient!InOrder(pool)' <=> Ambient!InOrder(pool)
  BY <1>1 DEF Ambient!InOrder
<1> QED  BY <1>1, <1>2, Zenon DEF AmbientSummedUp

LEMMA AmbientMapChangesKeeps == ASSUME AmbientInv, Ambient!MapChanges PROVE AmbientInv'
<1>1. /\ phase = "map" /\ phase' = "apply" /\ UNCHANGED <<chain, block, stores, deltas, indexer>>
      /\ message' = [t \in 1..block.tx |-> Ambient!TxChanges(t)]
  BY DEF Ambient!MapChanges
<1>2. PICK h, e : AmbientAt(h, e)
  BY DEF AmbientInv
<1>3. AmbientTypes'
  BY <1>1 DEF AmbientInv, AmbientTypes
<1>4. AmbientAt(h, e)'
  BY <1>1, <1>2, AmbientSameDeltas DEF AmbientAt, Ambient!SameContract
<1>5. AmbientMessage'
  BY <1>1, AmbientSameChanges DEF AmbientMessage, AmbientSameMessage
<1> QED  BY <1>1, <1>3, <1>4, <1>5 DEF AmbientInv, AmbientDeltas

(* The consumer follows the history from transaction to transaction.       *)
AmbientKnownEq(f, n) ==
    f = [i \in 0..n |-> IF i = 0 THEN indexer ELSE Ambient!ApplyTx(f[i - 1], message[i])]
AmbientFollowed(n) == CHOOSE f : AmbientKnownEq(f, n)

LEMMA AmbientFollows ==
    ASSUME NEW n \in Nat
    PROVE  \E f : AmbientKnownEq(f, n)
<1>1. PICK S : S = {m \in 0..n : \E f : AmbientKnownEq(f, m)}
  OBVIOUS
<1>2. 0 \in S
  <2>1. PICK f : f = [i \in 0..0 |-> indexer]
    OBVIOUS
  <2>2. AmbientKnownEq(f, 0)
    <3>1. \A i \in 0..0 : i = 0
      OBVIOUS
    <3> QED  BY <2>1, <3>1, Zenon DEF AmbientKnownEq
  <2> QED  BY <1>1, <2>2
<1>3. ASSUME NEW m \in 0..n, m < n, m \in S PROVE m + 1 \in S
  <2>1. PICK f : AmbientKnownEq(f, m)
    BY <1>1, <1>3
  <2>2. PICK last : last = Ambient!ApplyTx(f[m], message[m + 1])
    OBVIOUS
  <2>3. PICK g : g = [i \in 0..m + 1 |-> IF i <= m THEN f[i] ELSE last]
    OBVIOUS
  <2>4. ASSUME NEW i \in 0..m + 1
        PROVE  g[i] = IF i = 0 THEN indexer ELSE Ambient!ApplyTx(g[i - 1], message[i])
    <3>1. CASE i = m + 1
      <4>1. g[i] = last /\ i # 0 /\ i - 1 = m /\ m \in 0..m + 1 /\ g[m] = f[m]
        BY <2>3, <3>1
      <4> QED  BY <2>2, <3>1, <4>1
    <3>2. CASE i # m + 1
      <4>1. i \in 0..m /\ i <= m
        BY <3>2
      <4>2. g[i] = f[i]
        BY <2>3, <4>1
      <4>3. f[i] = IF i = 0 THEN indexer ELSE Ambient!ApplyTx(f[i - 1], message[i])
        BY <2>1, <4>1 DEF AmbientKnownEq
      <4>4. i # 0 => g[i - 1] = f[i - 1]
        BY <2>3, <4>1
      <4> QED  BY <4>2, <4>3, <4>4
    <3> QED  BY <3>1, <3>2
  <2>5. g = [i \in 0..m + 1 |-> g[i]]
    BY <2>3
  <2>6. AmbientKnownEq(g, m + 1)
    BY <2>4, <2>5 DEF AmbientKnownEq
  <2>7. m + 1 \in 0..n
    BY <1>3
  <2> QED  BY <1>1, <2>6, <2>7
<1>4. \A i \in 0..n : i \in S
  BY <1>2, <1>3, FromTo
<1> QED  BY <1>1, <1>4

LEMMA AmbientKnown ==
    ASSUME AmbientInv, NEW h, NEW e, AmbientAt(h, e), phase = "apply"
    PROVE  /\ Len(message) = block.tx
           /\ \A t \in 0..block.tx : Ambient!SameContract(Ambient!KnownAfter(t), h[e[t]])
           /\ h[e[block.tx]] = chain
<1>1. MaxTxs \in Nat \ {0}
  BY AmbientConstants
<1>2. PICK t0 \in 1..MaxTxs : t0 = block.tx
  BY DEF AmbientInv, AmbientTypes
<1>3. PICK n \in Nat : n = t0
  BY <1>1, <1>2
<1>4. message = [t \in 1..n |-> Ambient!TxChanges(t)]
  BY <1>2, <1>3 DEF AmbientInv, AmbientMessage
<1>5. Len(message) = n
  BY <1>3, <1>4
<1>6. e[0] = 0 /\ h[0] = block.begin /\ h[e[n]] = chain
  <2>1. PICK calls : calls = block.calls
    OBVIOUS
  <2>2. PICK last : last = n
    OBVIOUS
  <2>3. calls \in Seq(AmbientCall) /\ Ends(e, calls, last) /\ h[Len(calls)] = chain
        /\ last \in 1..MaxTxs
    BY <1>2, <1>3, <2>1, <2>2 DEF AmbientInv, AmbientTypes, AmbientAt, Chronicle
  <2>4. e[last] = Len(calls) /\ e[0] = 0
    BY <1>1, <2>3, EndsFacts
  <2> QED  BY <2>2, <2>3, <2>4 DEF AmbientAt
<1>7. PICK c : c = AmbientFollowed(n)
  OBVIOUS
<1>8. \A t : Ambient!KnownAfter(t) = c[t]
  BY <1>5, <1>7 DEF Ambient!KnownAfter, AmbientFollowed, AmbientKnownEq
<1>9. AmbientKnownEq(c, n)
  <2>1. \E f : AmbientKnownEq(f, n)
    BY AmbientFollows
  <2> QED  BY <1>7, <2>1 DEF AmbientFollowed
<1>10. PICK g : g = [i \in 0..n |-> Ambient!SameContract(c[i], h[e[i]])]
  OBVIOUS
<1>11. PICK yes : yes = [i \in 0..n |-> TRUE]
  OBVIOUS
<1>12. Alike(g, yes, n)
  <2>1. g[0] = yes[0]
    <3>1. c[0] = indexer
      BY <1>9 DEF AmbientKnownEq
    <3>2. Ambient!SameContract(c[0], h[e[0]]) = TRUE
      BY <1>6, <3>1 DEF AmbientAt, Ambient!SameContract
    <3>3. 0 \in 0..n
      OBVIOUS
    <3> QED  BY <1>10, <1>11, <3>2, <3>3
  <2>2. ASSUME NEW i \in 1..n, g[i - 1] = yes[i - 1] PROVE g[i] = yes[i]
    <3>1. i \in 0..n /\ i - 1 \in 0..n /\ i # 0 /\ i \in 1..block.tx
      BY <1>2, <1>3
    <3>2. c[i] = Ambient!ApplyTx(c[i - 1], message[i])
      BY <1>9, <3>1 DEF AmbientKnownEq
    <3>3. message[i] = Ambient!TxChanges(i)
      BY <1>4
    <3>4. PICK known : known = c[i - 1]
      OBVIOUS
    <3>5. Ambient!SameContract(known, h[e[i - 1]])
      BY <1>10, <1>11, <2>2, <3>1, <3>4
    <3>6. Ambient!SameContract(Ambient!ApplyTx(known, Ambient!TxChanges(i)), h[e[i]])
      BY <3>1, <3>5, AmbientTold
    <3>7. Ambient!SameContract(c[i], h[e[i]])
      BY <3>2, <3>3, <3>4, <3>6
    <3>8. Ambient!SameContract(c[i], h[e[i]]) \in BOOLEAN
      BY DEF Ambient!SameContract
    <3> QED  BY <1>10, <1>11, <3>1, <3>7, <3>8
  <2> QED  BY <2>1, <2>2 DEF Alike
<1>13. \A i \in 0..n : g[i] = yes[i]
  BY <1>12, SameAlong
<1>14. \A i \in 0..n : Ambient!SameContract(c[i], h[e[i]])
  BY <1>10, <1>11, <1>13
<1> QED  BY <1>2, <1>3, <1>5, <1>6, <1>8, <1>14

LEMMA AmbientApplyKeeps == ASSUME AmbientInv, Ambient!Apply PROVE AmbientInv'
<1>1. /\ phase = "apply" /\ phase' = "mine" /\ UNCHANGED <<chain, stores>>
      /\ indexer' = Ambient!KnownAfter(Len(message)) /\ block' = Ambient!NewBlock(chain)
  BY DEF Ambient!Apply
<1>2. PICK h, e : AmbientAt(h, e)
  BY DEF AmbientInv
<1>3. Ambient!SameContract(indexer', chain)
  <2>1. block.tx \in 0..block.tx
    BY AmbientConstants DEF AmbientInv, AmbientTypes
  <2> QED  BY <1>1, <1>2, <2>1, AmbientKnown
<1>4. chain \in AmbientState
  BY DEF AmbientInv, AmbientTypes
<1>5. PICK b : b = block'
  OBVIOUS
<1>6. /\ b \in [tx : 1..MaxTxs, calls : Seq(AmbientCall), begin : AmbientState,
                txEnd : [1..MaxTxs -> AmbientState]]
      /\ b.begin = chain
  BY <1>1, <1>4, <1>5, AmbientNewBlock
<1>7. PICK h2, e2 : /\ Chronicle(h2, e2, b.calls, b.tx, b.txEnd, chain, AmbientState)
                    /\ AmbientSteps(h2, b.calls) /\ h2[0] = chain
  BY <1>1, <1>4, <1>5, AmbientNewBlock
<1>8. AmbientTypes'
  BY <1>1, <1>4, <1>5, <1>6 DEF AmbientTypes
<1>9. stores.pools = chain.pools /\ stores.balance = chain.balance
  BY <1>1, <1>2 DEF AmbientAt
<1>10. AmbientAt(h2, e2)'
  <2>1. /\ Chronicle(h2, e2, block'.calls, block'.tx, block'.txEnd, chain', AmbientState)
        /\ AmbientSteps(h2, block'.calls) /\ h2[0] = block'.begin
    BY <1>1, <1>5, <1>6, <1>7
  <2>2. /\ Ambient!SameContract(indexer', block'.begin)
        /\ stores'.pools = block'.begin.pools /\ stores'.balance = block'.begin.balance
    BY <1>1, <1>3, <1>5, <1>6, <1>9
  <2> QED  BY <1>1, <2>1, <2>2 DEF AmbientAt, Ambient!SameContract
<1> QED  BY <1>1, <1>8, <1>10 DEF AmbientInv, AmbientDeltas, AmbientMessage

LEMMA AmbientNextInv == AmbientInv /\ [Ambient!Next]_Ambient!vars => AmbientInv'
<1> SUFFICES ASSUME AmbientInv, [Ambient!Next]_Ambient!vars PROVE AmbientInv'
  OBVIOUS
<1>1. ASSUME NEW pool \in AmbientPool, NEW index \in 1..MaxIndex, Ambient!InitPool(pool, index)
      PROVE  AmbientInv'
  BY <1>1, AmbientInitKeeps
<1>2. ASSUME NEW pool \in AmbientPool, NEW index \in 1..MaxIndex, NEW flow \in Ambient!Flow,
             Ambient!MoveTokens(pool, index, flow)
      PROVE  AmbientInv'
  BY <1>2, AmbientMoveKeeps
<1>3. ASSUME NEW pool \in AmbientPool, NEW index \in 1..MaxIndex, Ambient!Revert(pool, index)
      PROVE  AmbientInv'
  BY <1>3, AmbientRevertKeeps
<1>4. CASE Ambient!NextTx
  BY <1>4, AmbientNextTxKeeps
<1>5. CASE Ambient!MapPoolChanges
  BY <1>5, AmbientMapKeeps
<1>6. CASE Ambient!StorePoolsAndBalances
  BY <1>6, AmbientStoreKeeps
<1>7. CASE Ambient!MapChanges
  BY <1>7, AmbientMapChangesKeeps
<1>8. CASE Ambient!Apply
  BY <1>8, AmbientApplyKeeps
<1>9. CASE UNCHANGED Ambient!vars
  <2>1. UNCHANGED <<chain, block, phase, stores, deltas, message, indexer>>
    BY <1>9 DEF Ambient!vars
  <2>2. PICK h, e : AmbientAt(h, e)
    BY DEF AmbientInv
  <2>3. Ambient!Counted' = Ambient!Counted
    BY <2>1 DEF Ambient!Counted
  <2>4. AmbientTypes' /\ AmbientDeltas'
    BY <2>1, <2>3 DEF AmbientInv, AmbientTypes, AmbientDeltas
  <2>5. AmbientAt(h, e)'
    BY <2>1, <2>2, AmbientSameDeltas DEF AmbientAt, Ambient!SameContract
  <2>6. AmbientMessage'
    BY <2>1, AmbientSameChanges DEF AmbientInv, AmbientMessage, AmbientSameMessage
  <2> QED  BY <2>4, <2>5, <2>6 DEF AmbientInv
<1>10. ASSUME NEW index \in 1..MaxIndex, Ambient!Deploy(index) PROVE AmbientInv'
  BY <1>10, AmbientDeployKeeps
<1> QED  BY <1>1, <1>2, <1>3, <1>4, <1>5, <1>6, <1>7, <1>8, <1>9, <1>10 DEF Ambient!Next

LEMMA AmbientInvMirrors ==
    AmbientInv => Ambient!BalancesPerTransaction /\ Ambient!ContractMirrored
<1> SUFFICES ASSUME AmbientInv
             PROVE  Ambient!BalancesPerTransaction /\ Ambient!ContractMirrored
  OBVIOUS
<1>1. PICK h, e : AmbientAt(h, e)
  BY DEF AmbientInv
<1>2. PICK n \in Nat : n = Len(block.calls) /\ DOMAIN block.calls = 1..n
  BY DEF AmbientInv, AmbientTypes
<1>3. \A i : i \in Ambient!Counted <=> i \in 1..n /\ block.calls[i].kind = "flow"
  BY <1>2 DEF Ambient!Counted
<1>4. \A i \in Ambient!Counted : block.calls[i].pool \in AmbientPool
  <2> TAKE i \in Ambient!Counted
  <2>1. block.calls[i] \in AmbientCall /\ block.calls[i].kind = "flow"
    BY <1>2, <1>3 DEF AmbientInv, AmbientTypes
  <2> QED  BY <2>1, AmbientKinds
<1>5. ASSUME phase = "apply"
      PROVE  /\ DOMAIN deltas = Ambient!Counted
             /\ \A i \in Ambient!Counted : /\ deltas[i].pool = block.calls[i].pool
                                           /\ deltas[i].tx = block.calls[i].tx
  BY <1>1, <1>5 DEF AmbientAt, AmbientSummedUp
<1>6. \A t \in 1..block.tx : block.txEnd[t] = h[e[t]]
  BY <1>1 DEF AmbientAt, Chronicle
<1>7. ASSUME phase = "apply", NEW i \in DOMAIN deltas, NEW side \in Ambient!Side,
             NEW t, t = deltas[i].tx, NEW k, k = <<deltas[i].pool, side>>,
             Ambient!InOrder(deltas[i].pool)
      PROVE  k \in DOMAIN message[t].balances /\ message[t].balances[k] = block.txEnd[t].balance[k]
  <2>1. i \in Ambient!Counted /\ t = block.calls[i].tx /\ deltas[i].pool = block.calls[i].pool
    BY <1>5, <1>7
  <2>2. t \in 1..block.tx
    BY <1>1, <1>2, <1>3, <2>1 DEF AmbientAt, Chronicle, Ends
  <2>3. k \in AmbientKey /\ k[1] = deltas[i].pool
    BY <1>4, <1>7, <2>1 DEF AmbientKey, Ambient!Side
  <2>4. Ambient!DeltasOf(t, k[1]) # {}
    BY <1>7, <2>3 DEF Ambient!DeltasOf
  <2>5. k \in DOMAIN Ambient!Balances(t) /\ Ambient!Balances(t)[k] = h[e[t]].balance[k]
    BY <1>1, <1>7, <2>2, <2>3, <2>4, AmbientBalancesTold
  <2>6. i \in Ambient!Kept(t)
    BY <1>2, <1>3, <2>1 DEF Ambient!Kept
  <2>7. message[t].balances = Ambient!Balances(t)
    BY <1>7, <2>2, <2>6 DEF AmbientInv, AmbientMessage, Ambient!TxChanges
  <2> QED  BY <1>6, <2>2, <2>5, <2>7
<1>8. Ambient!BalancesPerTransaction
  BY <1>7 DEF Ambient!BalancesPerTransaction
<1>9. ASSUME phase = "apply", NEW t \in 1..block.tx
      PROVE  Ambient!SameContract(Ambient!KnownAfter(t), block.txEnd[t])
  <2>1. t \in 0..block.tx
    BY AmbientConstants DEF AmbientInv, AmbientTypes
  <2> QED  BY <1>1, <1>6, <1>9, <2>1, AmbientKnown
<1>10. ASSUME phase = "apply", NEW t \in 1..block.tx, NEW k \in DOMAIN message[t].balances
       PROVE  k[1] \in Ambient!KnownAfter(t).pools
  <2>1. message[t] = Ambient!TxChanges(t)
    BY <1>10 DEF AmbientInv, AmbientMessage
  <2>2. Ambient!DeltasOf(t, k[1]) # {}
    <3>1. CASE Ambient!Kept(t) # {}
      <4>1. message[t].balances = Ambient!Balances(t)
        BY <2>1, <3>1 DEF Ambient!TxChanges
      <4> QED  BY <1>10, <4>1 DEF Ambient!Balances
    <3>2. CASE Ambient!Kept(t) = {}
      <4>1. message[t].balances = <<>>
        BY <2>1, <3>2 DEF Ambient!TxChanges
      <4> QED  BY <1>10, <4>1
    <3> QED  BY <3>1, <3>2
  <2>3. PICK i : i \in Ambient!DeltasOf(t, k[1])
    BY <2>2
  <2>4. i \in Ambient!Counted /\ block.calls[i].tx = t /\ block.calls[i].pool = k[1]
    BY <1>5, <1>10, <2>3 DEF Ambient!DeltasOf
  <2>5. PICK m \in Nat : m = Len(block.calls) /\ \E lo, hi : AmbientSpan(h, e, block.calls, t, m, lo, hi)
    BY <1>1, AmbientSpans
  <2>6. PICK lo, hi : /\ m = Len(block.calls) /\ AmbientSpan(h, e, block.calls, t, m, lo, hi)
    BY <2>5
  <2>7. /\ i \in 1..m /\ lo < i /\ i <= hi /\ hi \in 0..m /\ hi = e[t]
        /\ AmbientStep(h[i - 1], h[i], block.calls[i])
    BY <1>2, <1>3, <2>4, <2>6 DEF AmbientSpan
  <2>8. k[1] \in h[i].pools
    BY <1>3, <2>4, <2>7 DEF AmbientStep
  <2>9. PICK calls : calls = block.calls
    OBVIOUS
  <2>10. PICK a, b : a = i /\ b = hi
    OBVIOUS
  <2>11. calls \in Seq(AmbientCall) /\ AmbientSteps(h, calls)
    BY <1>1, <2>9 DEF AmbientInv, AmbientTypes, AmbientAt
  <2>12. a \in 0..Len(calls) /\ b \in 0..Len(calls) /\ a <= b
    BY <2>6, <2>7, <2>9, <2>10
  <2>13. h[b].pools = h[a].pools \cup Gathered(AmbientNew(calls), a + 1..b)
    BY <2>11, <2>12, AmbientPoolsAlong
  <2>14. k[1] \in h[e[t]].pools
    BY <2>7, <2>8, <2>10, <2>13
  <2>15. Ambient!KnownAfter(t).pools = block.txEnd[t].pools
    BY <1>9, <1>10 DEF Ambient!SameContract
  <2> QED  BY <1>6, <2>14, <2>15
<1>11. Ambient!ContractMirrored
  BY <1>9, <1>10 DEF Ambient!ContractMirrored
<1> QED  BY <1>8, <1>11

AmbientRunning == integration = "ambient" => AmbientInv

LEMMA AmbientRuns == IntegrationSpec => []AmbientRunning
<1>1. IntegrationInit => AmbientRunning
  BY AmbientInit DEF IntegrationInit, AmbientRunning
<1>2. AmbientRunning /\ [IntegrationNext]_<<integration, vars, pipelineVars>> => AmbientRunning'
  <2> SUFFICES ASSUME AmbientRunning, [IntegrationNext]_<<integration, vars, pipelineVars>>
               PROVE  AmbientRunning'
    OBVIOUS
  <2>1. CASE integration = "ambient"
    <3>1. integration' = integration /\ [Ambient!Next]_Ambient!vars
      BY <2>1 DEF IntegrationNext, Ambient!vars, vars, pipelineVars
    <3> QED  BY <2>1, <3>1, AmbientNextInv DEF AmbientRunning
  <2>2. CASE integration # "ambient"
    <3>1. integration' = integration
      BY DEF IntegrationNext
    <3> QED  BY <2>2, <3>1 DEF AmbientRunning
  <2> QED  BY <2>1, <2>2
<1> QED  BY <1>1, <1>2, PTL DEF IntegrationSpec

(* In whatever order calls come: after every transaction the consumer of   *)
(* Ambient has the contract of the chain, code, storage and native balance *)
(* (unless that is zero), and its pools; and the message of a transaction  *)
(* says the balance at its end of every pool that it moved, if the indices *)
(* of the block's calls to that pool do not fall.                          *)
THEOREM AmbientIsMirrored == IntegrationSpec => []AmbientMirrored
<1>1. AmbientRunning => AmbientMirrored
  BY AmbientInvMirrors DEF AmbientRunning, AmbientMirrored
<1> QED  BY <1>1, AmbientRuns, PTL
=============================================================================
