------------------------ MODULE BalancerLidoProofs -------------------------
(***************************************************************************)
(* Proofs about Balancer v3 and Lido, where any one of the packages may    *)
(* run (MCIntegrations).  Like those about Ambient, they rest on a history *)
(* of the chain's state: for Balancer after every event of the block, for  *)
(* Lido after every write, without those of the calls that have failed.    *)
(***************************************************************************)
EXTENDS IntegrationProofs

-----------------------------------------------------------------------------
(* Balancer v3.  The history of a block has the state after each event of  *)
(* the vault and its pools.  The vault's reserves need not be known: what  *)
(* the consumer has of them is right but for tokens that a wrap changed.   *)
BalancerKey == {<<p, PoolTokens[p][i]>> : p \in BalancerPool, i \in {1, 2}}
BalancerState == [pools : SUBSET BalancerPool, paused : SUBSET BalancerPool,
                  balance : [BalancerKey -> Nat], word : [BalancerPool -> Int],
                  reserve : [VaultToken -> Nat], wrapped : SUBSET VaultToken]

TradeKinds == {"Swap", "LiquidityAdded", "LiquidityRemoved"}
PoolKinds == TradeKinds \cup {"PoolCreated", "write", "PoolPausedStateChanged"}
BalancerEvent ==
    [kind : {"PoolCreated", "write"}, tx : 1..MaxTxs, pool : BalancerPool]
    \cup [kind : TradeKinds, tx : 1..MaxTxs, pool : BalancerPool, amounts : Int \X Int]
    \cup [kind : {"PoolPausedStateChanged"}, tx : 1..MaxTxs, pool : BalancerPool,
          paused : BOOLEAN]
    \cup [kind : {"Settle", "SendTo"}, tx : 1..MaxTxs, token : VaultToken, value : Nat]
    \cup [kind : {"Erc4626BufferWrapOrUnwrap"}, tx : 1..MaxTxs, wrapped : VaultToken,
          underlying : VaultToken]

PoolsStep(was, now, e) ==
    /\ e.kind \in PoolKinds => e.pool \in now.pools
    /\ e.kind = "PoolCreated" => now.pools = was.pools \cup {e.pool}
    /\ e.kind # "PoolCreated" => now.pools = was.pools

PausedStep(was, now, e) ==
    /\ e.kind = "PoolPausedStateChanged" =>
          /\ e.pool \in now.paused <=> e.paused
          /\ e.pool \in was.paused <=> ~e.paused
    /\ \A p : ~(e.kind = "PoolPausedStateChanged" /\ e.pool = p)
                 => (p \in now.paused <=> p \in was.paused)

BalanceStep(was, now, e) ==
    \A k \in BalancerKey :
        now.balance[k] = IF e.kind \in TradeKinds /\ k[1] = e.pool
                         THEN was.balance[k] + Balancer!AmountOf(e, k[2]) ELSE was.balance[k]

WordStep(was, now, e) ==
    \A p \in BalancerPool : now.word[p] # was.word[p] => e.kind = "write" /\ e.pool = p

Pays(e, token) == e.kind \in {"Settle", "SendTo"} /\ e.token = token

ReserveStep(was, now, e) ==
    \A token \in VaultToken :
        /\ Pays(e, token) => now.reserve[token] = e.value
        /\ ~Pays(e, token) => \/ token \in now.wrapped
                              \/ /\ now.reserve[token] = was.reserve[token]
                                 /\ token \notin was.wrapped

BalancerStep(was, now, e) ==
    /\ PoolsStep(was, now, e) /\ PausedStep(was, now, e) /\ BalanceStep(was, now, e)
    /\ WordStep(was, now, e) /\ ReserveStep(was, now, e)

BalancerSteps(h, evs) == \A i \in 1..Len(evs) : BalancerStep(h[i - 1], h[i], evs[i])

BalancerTypes ==
    /\ chain \in BalancerState
    /\ block \in [tx : 1..MaxTxs, events : Seq(BalancerEvent), begin : BalancerState,
                  txEnd : [1..MaxTxs -> BalancerState]]
    /\ phase \in {"mine", "store", "map", "apply"}
    /\ stores = [pools |-> stores.pools, tokens |-> stores.tokens, balance |-> stores.balance]

(* What the consumer knows when the chain is in the state.                 *)
ReserveRight(value, state, token) ==
    token \in state.wrapped \/ value = NoValue \/ value = state.reserve[token]

BalancerKnown(known, state) ==
    /\ known.pools = state.pools /\ known.paused = state.paused
    /\ known.balance = state.balance /\ known.word = state.word
    /\ DOMAIN known.reserve = VaultToken
    /\ \A token \in VaultToken :
          /\ ReserveRight(known.reserve[token], state, token)
          /\ token \notin stores.tokens => known.reserve[token] = NoValue

BalancerTrades == {i \in DOMAIN block.events : block.events[i].kind \in TradeKinds}

BalancerAt(h, e) ==
    /\ Chronicle(h, e, block.events, block.tx, block.txEnd, chain, BalancerState)
    /\ BalancerSteps(h, block.events)
    /\ h[0] = block.begin /\ BalancerKnown(indexer, block.begin)
    /\ stores.pools = IF phase = "mine" THEN block.begin.pools ELSE chain.pools
    /\ stores.balance = IF phase \in {"mine", "store"} THEN block.begin.balance
                        ELSE chain.balance
    /\ phase \in {"map", "apply"} =>
          deltas = [i \in BalancerTrades |->
              [pool |-> block.events[i].pool, tx |-> block.events[i].tx,
               new_value |-> [token \in {PoolTokens[block.events[i].pool][1],
                                         PoolTokens[block.events[i].pool][2]} |->
                                 h[i].balance[<<block.events[i].pool, token>>]]]]

BalancerDeltas ==
    phase = "store" => deltas = [i \in BalancerTrades |-> Balancer!DeltasOf(block.events[i])]

BalancerMessage ==
    phase = "apply" => message = [t \in 1..block.tx |-> Balancer!TxChanges(t)]

BalancerInv == BalancerTypes /\ BalancerDeltas /\ BalancerMessage /\ \E h, e : BalancerAt(h, e)

LEMMA BalancerConstants ==
    /\ MaxTxs \in Nat \ {0} /\ Balancer!Key = BalancerKey /\ Balancer!Tx = 1..MaxTxs
    /\ Balancer!Trades = TradeKinds /\ PoolTokens \in [BalancerPool -> VaultToken \X VaultToken]
    /\ MaxPoolBalance \in Nat /\ MaxReserve \in Nat
BY IntegrationBounds DEF Balancer!BalancerBounds, Balancer!Key, Balancer!Tx, Balancer!Trades,
   BalancerKey, TradeKinds

LEMMA BalancerParts ==
    ASSUME BalancerInv
    PROVE  /\ chain.pools \subseteq BalancerPool /\ chain.paused \subseteq BalancerPool
           /\ chain.balance \in [BalancerKey -> Nat] /\ chain.word \in [BalancerPool -> Int]
           /\ chain.reserve \in [VaultToken -> Nat] /\ chain.wrapped \subseteq VaultToken
           /\ chain = [pools |-> chain.pools, paused |-> chain.paused, balance |-> chain.balance,
                       word |-> chain.word, reserve |-> chain.reserve, wrapped |-> chain.wrapped]
           /\ block.tx \in 1..MaxTxs /\ block.events \in Seq(BalancerEvent)
BY DEF BalancerInv, BalancerTypes, BalancerState

(* A block that has just begun.                                            *)
LEMMA BalancerNewBlock ==
    ASSUME NEW s \in BalancerState, NEW b, b = Balancer!NewBlock(s)
    PROVE  /\ b \in [tx : 1..MaxTxs, events : Seq(BalancerEvent), begin : BalancerState,
                     txEnd : [1..MaxTxs -> BalancerState]]
           /\ b.tx = 1 /\ b.events = <<>> /\ b.begin = s
           /\ \E h, e : /\ Chronicle(h, e, b.events, b.tx, b.txEnd, s, BalancerState)
                        /\ BalancerSteps(h, b.events) /\ h[0] = s
<1>1. MaxTxs \in Nat \ {0}
  BY BalancerConstants
<1>2. PICK ends : ends = [t \in 1..MaxTxs |-> s]
  OBVIOUS
<1>3. PICK X : X = BalancerState
  OBVIOUS
<1>4. ends \in [1..MaxTxs -> X] /\ s \in X
  BY <1>2, <1>3
<1>5. b = [tx |-> 1, events |-> <<>>, begin |-> s, txEnd |-> ends]
  BY <1>2 DEF Balancer!NewBlock, Balancer!Tx
<1>6. b.tx = 1 /\ b.events = <<>> /\ b.begin = s /\ b.txEnd = ends /\ Len(b.events) = 0
  BY <1>5
<1>7. PICK h, e : Chronicle(h, e, <<>>, 1, ends, s, X) /\ h[0] = s
  BY <1>1, <1>2, <1>4, ChronicleNew
<1>8. BalancerSteps(h, b.events)
  BY <1>6 DEF BalancerSteps
<1>9. b \in [tx : 1..MaxTxs, events : Seq(BalancerEvent), begin : X, txEnd : [1..MaxTxs -> X]]
  <2>1. 1 \in 1..MaxTxs /\ <<>> \in Seq(BalancerEvent)
    BY <1>1
  <2> QED  BY <1>4, <1>5, <2>1
<1> QED  BY <1>3, <1>6, <1>7, <1>8, <1>9

LEMMA BalancerInit == Balancer!Init => BalancerInv
<1> SUFFICES ASSUME Balancer!Init PROVE BalancerInv
  OBVIOUS
<1>1. /\ chain = [pools |-> {}, paused |-> {}, balance |-> [k \in BalancerKey |-> 0],
                  word |-> [p \in BalancerPool |-> 0], reserve |-> [t \in VaultToken |-> 0],
                  wrapped |-> {}]
      /\ block = Balancer!NewBlock(chain) /\ phase = "mine"
      /\ stores = [pools |-> {}, tokens |-> {}, balance |-> [k \in BalancerKey |-> 0]]
      /\ indexer = [pools |-> {}, paused |-> {}, balance |-> chain.balance,
                    word |-> chain.word, reserve |-> [t \in VaultToken |-> NoValue]]
  BY BalancerConstants DEF Balancer!Init
<1>2. chain \in BalancerState
  BY <1>1 DEF BalancerState
<1>3. /\ block \in [tx : 1..MaxTxs, events : Seq(BalancerEvent), begin : BalancerState,
                    txEnd : [1..MaxTxs -> BalancerState]]
      /\ block.begin = chain
  BY <1>1, <1>2, BalancerNewBlock
<1>4. PICK h, e : /\ Chronicle(h, e, block.events, block.tx, block.txEnd, chain, BalancerState)
                  /\ BalancerSteps(h, block.events) /\ h[0] = chain
  BY <1>1, <1>2, BalancerNewBlock
<1>5. BalancerTypes
  BY <1>1, <1>2, <1>3 DEF BalancerTypes
<1>6. stores.pools = block.begin.pools /\ stores.balance = block.begin.balance
  <2>1. chain.pools = {} /\ chain.balance = [k \in BalancerKey |-> 0]
    BY <1>1
  <2>2. stores.pools = {} /\ stores.balance = [k \in BalancerKey |-> 0]
    BY <1>1
  <2> QED  BY <1>3, <2>1, <2>2
<1>7. BalancerKnown(indexer, block.begin)
  <2>1. /\ indexer.pools = chain.pools /\ indexer.paused = chain.paused
        /\ indexer.balance = chain.balance /\ indexer.word = chain.word
        /\ indexer.reserve = [t \in VaultToken |-> NoValue]
    BY <1>1
  <2> QED  BY <1>3, <2>1 DEF BalancerKnown, ReserveRight
<1>8. BalancerAt(h, e)
  BY <1>1, <1>3, <1>4, <1>6, <1>7 DEF BalancerAt
<1> QED  BY <1>1, <1>5, <1>8 DEF BalancerInv, BalancerDeltas, BalancerMessage

-----------------------------------------------------------------------------
(* The steps of the chain.                                                 *)
LEMMA BalancerEmitKeeps ==
    ASSUME BalancerInv, NEW c, Balancer!Emit(c), c \in BalancerEvent, c.tx = block.tx,
           chain' \in BalancerState, BalancerStep(chain, chain', c)
    PROVE  BalancerInv'
<1>1. MaxTxs \in Nat \ {0}
  BY BalancerConstants
<1>2. PICK h, e : BalancerAt(h, e)
  BY DEF BalancerInv
<1>3. PICK t0 \in 1..MaxTxs : t0 = block.tx
  BY BalancerParts
<1>4. PICK last : last = t0
  OBVIOUS
<1>5. PICK evs : evs = block.events
  OBVIOUS
<1>6. evs \in Seq(BalancerEvent)
  BY <1>5, BalancerParts
<1>7. PICK n \in Nat : n = Len(evs)
  BY <1>6
<1>8. /\ phase = "mine" /\ phase' = "mine" /\ UNCHANGED <<stores, deltas, message, indexer>>
      /\ block' = [block EXCEPT !.events = Append(@, c), !.txEnd = [@ EXCEPT ![last] = chain']]
  BY <1>3, <1>4 DEF Balancer!Emit
<1>9. PICK evs2 : evs2 = Append(evs, c)
  OBVIOUS
<1>10. PICK ends2 : ends2 = [block.txEnd EXCEPT ![last] = chain']
  OBVIOUS
<1>11. block' = [block EXCEPT !.events = evs2, !.txEnd = ends2]
  BY <1>5, <1>8, <1>9, <1>10
<1>12. /\ block'.tx = last /\ block'.events = evs2 /\ block'.begin = block.begin
       /\ block'.txEnd = ends2
       /\ block' \in [tx : 1..MaxTxs, events : Seq(BalancerEvent), begin : BalancerState,
                      txEnd : [1..MaxTxs -> BalancerState]]
  <2>1. PICK X : X = BalancerState
    OBVIOUS
  <2>2. PICK TxEnds : TxEnds = [1..MaxTxs -> X]
    OBVIOUS
  <2>3. PICK Evs : Evs = Seq(BalancerEvent)
    OBVIOUS
  <2>4. /\ block \in [tx : 1..MaxTxs, events : Evs, begin : X, txEnd : TxEnds]
        /\ chain' \in X
    BY <2>1, <2>2, <2>3 DEF BalancerInv, BalancerTypes
  <2>5. block.txEnd \in TxEnds
    BY <2>4
  <2>6. ends2 \in TxEnds
    BY <1>3, <1>4, <1>10, <2>2, <2>4, <2>5
  <2>7. evs2 \in Evs
    BY <1>6, <1>9, <2>3
  <2>8. /\ block'.tx = last /\ block'.events = evs2 /\ block'.begin = block.begin
        /\ block'.txEnd = ends2
        /\ block' \in [tx : 1..MaxTxs, events : Evs, begin : X, txEnd : TxEnds]
    BY <1>3, <1>4, <1>11, <2>4, <2>6, <2>7
  <2> QED  BY <2>1, <2>2, <2>3, <2>8
<1>13. /\ Len(evs2) = n + 1 /\ evs2[n + 1] = c
       /\ \A i \in 1..n : evs2[i] = evs[i]
  BY <1>6, <1>7, <1>9
<1>14. BalancerTypes'
  BY <1>8, <1>12 DEF BalancerInv, BalancerTypes
<1>15. Chronicle(h, e, evs, last, block.txEnd, chain, BalancerState)
  BY <1>2, <1>3, <1>4, <1>5 DEF BalancerAt
<1>16. PICK h2, e2 : /\ Chronicle(h2, e2, evs2, last, ends2, chain', BalancerState)
                     /\ Extends(h2, h, n)
  <2>1. PICK s2 : s2 = chain'
    OBVIOUS
  <2>2. PICK ends : ends = block.txEnd
    OBVIOUS
  <2>3. PICK X : X = BalancerState
    OBVIOUS
  <2>4. s2 \in X /\ last \in 1..MaxTxs /\ c.tx = last /\ ends2 = [ends EXCEPT ![last] = s2]
    BY <1>3, <1>4, <1>10, <2>1, <2>2, <2>3
  <2>5. Chronicle(h, e, evs, last, ends, chain, X)
    BY <1>15, <2>2, <2>3
  <2>6. \E h2, e2 : Chronicle(h2, e2, evs2, last, ends2, s2, X) /\ Extends(h2, h, Len(evs))
    BY <1>1, <1>6, <1>9, <2>4, <2>5, ChronicleAppend
  <2> QED  BY <1>7, <2>1, <2>3, <2>6
<1>17. /\ \A i \in 0..n : h2[i] = h[i]
       /\ h2[n + 1] = chain' /\ h[n] = chain
  BY <1>7, <1>13, <1>15, <1>16 DEF Extends, Chronicle
<1>18. BalancerSteps(h2, evs2)
  <2>1. ASSUME NEW i \in 1..n + 1 PROVE BalancerStep(h2[i - 1], h2[i], evs2[i])
    <3>1. CASE i = n + 1
      <4>1. i - 1 = n /\ n \in 0..n
        BY <3>1
      <4> QED  BY <1>13, <1>17, <3>1, <4>1
    <3>2. CASE i # n + 1
      <4>1. i \in 1..n /\ i \in 0..n /\ i - 1 \in 0..n
        BY <3>2
      <4>2. BalancerStep(h[i - 1], h[i], evs[i])
        BY <1>2, <1>5, <1>7, <4>1 DEF BalancerAt, BalancerSteps
      <4> QED  BY <1>13, <1>17, <4>1, <4>2
    <3> QED  BY <3>1, <3>2
  <2> QED  BY <1>13, <2>1 DEF BalancerSteps
<1>19. BalancerAt(h2, e2)'
  <2>1. /\ h[0] = block.begin /\ BalancerKnown(indexer, block.begin)
        /\ stores.pools = block.begin.pools /\ stores.balance = block.begin.balance
    BY <1>2, <1>8 DEF BalancerAt
  <2>2. h2[0] = h[0]
    BY <1>17
  <2>3. /\ h2[0] = block'.begin /\ BalancerKnown(indexer, block.begin)'
        /\ stores'.pools = block'.begin.pools /\ stores'.balance = block'.begin.balance
    BY <1>8, <1>12, <2>1, <2>2 DEF BalancerKnown, ReserveRight
  <2>4. Chronicle(h2, e2, block'.events, block'.tx, block'.txEnd, chain', BalancerState)
    BY <1>12, <1>16
  <2>5. BalancerSteps(h2, block'.events)
    BY <1>12, <1>18
  <2> QED  BY <1>8, <2>3, <2>4, <2>5 DEF BalancerAt
<1> QED  BY <1>8, <1>14, <1>19 DEF BalancerInv, BalancerDeltas, BalancerMessage

LEMMA BalancerCreateKeeps ==
    ASSUME BalancerInv, NEW p \in BalancerPool, Balancer!CreatePool(p)
    PROVE  BalancerInv'
<1>1. PICK c : c = [kind |-> "PoolCreated", tx |-> block.tx, pool |-> p]
  OBVIOUS
<1>2. Balancer!Emit(c) /\ chain' = [chain EXCEPT !.pools = @ \cup {p}]
  BY <1>1 DEF Balancer!CreatePool
<1>3. /\ c \in BalancerEvent /\ c.tx = block.tx /\ c.pool = p /\ c.kind = "PoolCreated"
  BY <1>1, BalancerParts DEF BalancerEvent
<1>4. chain' = [pools |-> chain.pools \cup {p}, paused |-> chain.paused,
                balance |-> chain.balance, word |-> chain.word, reserve |-> chain.reserve,
                wrapped |-> chain.wrapped]
  BY <1>2, BalancerParts
<1>5. /\ chain'.pools = chain.pools \cup {p} /\ chain'.paused = chain.paused
      /\ chain'.balance = chain.balance /\ chain'.word = chain.word
      /\ chain'.reserve = chain.reserve /\ chain'.wrapped = chain.wrapped
  BY <1>4
<1>6. chain' \in BalancerState
  BY <1>4, BalancerParts DEF BalancerState
<1>7. BalancerStep(chain, chain', c)
  BY <1>3, <1>5 DEF BalancerStep, PoolsStep, PausedStep, BalanceStep, WordStep, ReserveStep,
     Pays, TradeKinds, PoolKinds
<1> QED  BY <1>2, <1>3, <1>6, <1>7, BalancerEmitKeeps

LEMMA BalancerMoveKeeps ==
    ASSUME BalancerInv, NEW p \in BalancerPool, NEW kind \in TradeKinds,
           NEW amounts \in Int \X Int, Balancer!Move(p, kind, amounts)
    PROVE  BalancerInv'
<1>1. PICK c : c = [kind |-> kind, tx |-> block.tx, pool |-> p, amounts |-> amounts]
  OBVIOUS
<1>2. PICK balance : balance = [k \in BalancerKey |-> IF k[1] = p
             THEN chain.balance[k] + Balancer!AmountOf(c, k[2]) ELSE chain.balance[k]]
  OBVIOUS
<1>3. /\ p \in chain.pools /\ Balancer!Emit(c)
      /\ chain' = [chain EXCEPT !.balance = balance]
      /\ \A k \in BalancerKey : chain'.balance[k] \in 0..MaxPoolBalance
  BY <1>1, <1>2, BalancerConstants, Zenon DEF Balancer!Move
<1>4. /\ c \in BalancerEvent /\ c.tx = block.tx /\ c.pool = p /\ c.kind = kind
  BY <1>1, BalancerParts DEF BalancerEvent
<1>5. chain' = [pools |-> chain.pools, paused |-> chain.paused,
                balance |-> balance, word |-> chain.word, reserve |-> chain.reserve,
                wrapped |-> chain.wrapped]
  BY <1>3, BalancerParts
<1>6. /\ chain'.pools = chain.pools /\ chain'.paused = chain.paused
      /\ chain'.balance = balance /\ chain'.word = chain.word
      /\ chain'.reserve = chain.reserve /\ chain'.wrapped = chain.wrapped
  BY <1>5
<1>7. balance \in [BalancerKey -> Nat]
  BY <1>2, <1>3, <1>6, BalancerConstants
<1>8. chain' \in BalancerState
  BY <1>5, <1>7, BalancerParts DEF BalancerState
<1>9. kind \in TradeKinds /\ kind \in PoolKinds /\ kind # "PoolCreated"
      /\ kind # "PoolPausedStateChanged" /\ kind # "Settle" /\ kind # "SendTo"
  BY DEF TradeKinds, PoolKinds
<1>10. BalanceStep(chain, chain', c)
  BY <1>2, <1>4, <1>6, <1>9 DEF BalanceStep
<1>11. BalancerStep(chain, chain', c)
  BY <1>3, <1>4, <1>6, <1>9, <1>10 DEF BalancerStep, PoolsStep, PausedStep, WordStep,
     ReserveStep, Pays
<1> QED  BY <1>3, <1>4, <1>8, <1>11, BalancerEmitKeeps

LEMMA BalancerPauseKeeps ==
    ASSUME BalancerInv, NEW p \in BalancerPool, NEW paused \in BOOLEAN,
           Balancer!SetPaused(p, paused)
    PROVE  BalancerInv'
<1>1. PICK c : c = [kind |-> "PoolPausedStateChanged", tx |-> block.tx, pool |-> p,
                    paused |-> paused]
  OBVIOUS
<1>2. PICK set : set = IF paused THEN chain.paused \cup {p} ELSE chain.paused \ {p}
  OBVIOUS
<1>3. /\ p \in chain.pools /\ paused # (p \in chain.paused) /\ Balancer!Emit(c)
      /\ chain' = [chain EXCEPT !.paused = set]
  BY <1>1, <1>2, Zenon DEF Balancer!SetPaused
<1>4. /\ c \in BalancerEvent /\ c.tx = block.tx /\ c.pool = p /\ c.paused = paused
      /\ c.kind = "PoolPausedStateChanged"
  BY <1>1, BalancerParts DEF BalancerEvent
<1>5. chain' = [pools |-> chain.pools, paused |-> set, balance |-> chain.balance,
                word |-> chain.word, reserve |-> chain.reserve, wrapped |-> chain.wrapped]
  BY <1>3, BalancerParts
<1>6. /\ chain'.pools = chain.pools /\ chain'.paused = set
      /\ chain'.balance = chain.balance /\ chain'.word = chain.word
      /\ chain'.reserve = chain.reserve /\ chain'.wrapped = chain.wrapped
  BY <1>5
<1>7. set \subseteq BalancerPool
  BY <1>2, BalancerParts
<1>8. chain' \in BalancerState
  BY <1>5, <1>7, BalancerParts DEF BalancerState
<1>9. PausedStep(chain, chain', c)
  BY <1>2, <1>3, <1>4, <1>6 DEF PausedStep
<1>10. BalancerStep(chain, chain', c)
  BY <1>3, <1>4, <1>6, <1>9 DEF BalancerStep, PoolsStep, BalanceStep, WordStep, ReserveStep,
     Pays, TradeKinds, PoolKinds
<1> QED  BY <1>3, <1>4, <1>8, <1>10, BalancerEmitKeeps

LEMMA BalancerWriteKeeps ==
    ASSUME BalancerInv, NEW p \in BalancerPool, Balancer!WritePool(p)
    PROVE  BalancerInv'
<1>1. PICK c : c = [kind |-> "write", tx |-> block.tx, pool |-> p]
  OBVIOUS
<1>2. PICK word : word = [chain.word EXCEPT ![p] = 1 - @]
  OBVIOUS
<1>3. /\ p \in chain.pools /\ Balancer!Emit(c) /\ chain' = [chain EXCEPT !.word = word]
  BY <1>1, <1>2, Zenon DEF Balancer!WritePool
<1>4. c \in BalancerEvent /\ c.tx = block.tx /\ c.pool = p /\ c.kind = "write"
  BY <1>1, BalancerParts DEF BalancerEvent
<1>5. chain' = [pools |-> chain.pools, paused |-> chain.paused, balance |-> chain.balance,
                word |-> word, reserve |-> chain.reserve, wrapped |-> chain.wrapped]
  BY <1>3, BalancerParts
<1>6. /\ chain'.pools = chain.pools /\ chain'.paused = chain.paused
      /\ chain'.balance = chain.balance /\ chain'.word = word
      /\ chain'.reserve = chain.reserve /\ chain'.wrapped = chain.wrapped
  BY <1>5
<1>7. word \in [BalancerPool -> Int] /\ \A q \in BalancerPool : q # p => word[q] = chain.word[q]
  BY <1>2, BalancerParts
<1>8. chain' \in BalancerState
  BY <1>5, <1>7, BalancerParts DEF BalancerState
<1>9. BalancerStep(chain, chain', c)
  BY <1>3, <1>4, <1>6, <1>7 DEF BalancerStep, PoolsStep, PausedStep, BalanceStep, WordStep,
     ReserveStep, Pays, TradeKinds, PoolKinds
<1> QED  BY <1>3, <1>4, <1>8, <1>9, BalancerEmitKeeps

LEMMA BalancerPayKeeps ==
    ASSUME BalancerInv, NEW kind \in {"Settle", "SendTo"}, NEW token \in VaultToken,
           NEW value, Balancer!Pay(kind, token, value)
    PROVE  BalancerInv'
<1>1. PICK c : c = [kind |-> kind, tx |-> block.tx, token |-> token, value |-> value]
  OBVIOUS
<1>2. PICK reserve : reserve = [chain.reserve EXCEPT ![token] = value]
  OBVIOUS
<1>3. /\ value \in 0..MaxReserve /\ Balancer!Emit(c)
      /\ chain' = [chain EXCEPT !.reserve = reserve, !.wrapped = @ \ {token}]
  BY <1>1, <1>2, Zenon DEF Balancer!Pay
<1>4. value \in Nat
  BY <1>3, BalancerConstants
<1>5. c \in BalancerEvent /\ c.tx = block.tx /\ c.token = token /\ c.kind = kind
      /\ c.value = value
  BY <1>1, <1>4, BalancerParts DEF BalancerEvent
<1>6. chain' = [pools |-> chain.pools, paused |-> chain.paused, balance |-> chain.balance,
                word |-> chain.word, reserve |-> reserve, wrapped |-> chain.wrapped \ {token}]
  BY <1>3, BalancerParts
<1>7. /\ chain'.pools = chain.pools /\ chain'.paused = chain.paused
      /\ chain'.balance = chain.balance /\ chain'.word = chain.word
      /\ chain'.reserve = reserve /\ chain'.wrapped = chain.wrapped \ {token}
  BY <1>6
<1>8. /\ reserve \in [VaultToken -> Nat] /\ reserve[token] = value
      /\ \A other \in VaultToken : other # token => reserve[other] = chain.reserve[other]
  BY <1>2, <1>4, BalancerParts
<1>9. chain' \in BalancerState
  BY <1>6, <1>8, BalancerParts DEF BalancerState
<1>10. ReserveStep(chain, chain', c)
  BY <1>5, <1>7, <1>8 DEF ReserveStep, Pays
<1>11. BalancerStep(chain, chain', c)
  BY <1>5, <1>7, <1>10 DEF BalancerStep, PoolsStep, PausedStep, BalanceStep, WordStep,
     TradeKinds, PoolKinds
<1> QED  BY <1>3, <1>5, <1>9, <1>11, BalancerEmitKeeps

LEMMA BalancerWrapKeeps ==
    ASSUME BalancerInv, NEW wrapped \in VaultToken, NEW underlying \in VaultToken,
           Balancer!Wrap(wrapped, underlying)
    PROVE  BalancerInv'
<1>1. PICK c : c = [kind |-> "Erc4626BufferWrapOrUnwrap", tx |-> block.tx,
                    wrapped |-> wrapped, underlying |-> underlying]
  OBVIOUS
<1>2. PICK reserve : reserve = [[chain.reserve EXCEPT ![wrapped] = @ + 1]
                                   EXCEPT ![underlying] = @ - 1]
  OBVIOUS
<1>3. /\ wrapped # underlying /\ chain.reserve[underlying] > 0 /\ Balancer!Emit(c)
      /\ chain' = [chain EXCEPT !.reserve[wrapped] = @ + 1, !.reserve[underlying] = @ - 1,
                                !.wrapped = @ \cup {wrapped, underlying}]
  BY <1>1, Zenon DEF Balancer!Wrap
<1>4. c \in BalancerEvent /\ c.tx = block.tx /\ c.kind = "Erc4626BufferWrapOrUnwrap"
  BY <1>1, BalancerParts DEF BalancerEvent
<1>5. chain' = [pools |-> chain.pools, paused |-> chain.paused, balance |-> chain.balance,
                word |-> chain.word, reserve |-> reserve,
                wrapped |-> chain.wrapped \cup {wrapped, underlying}]
  BY <1>2, <1>3, BalancerParts
<1>6. /\ chain'.pools = chain.pools /\ chain'.paused = chain.paused
      /\ chain'.balance = chain.balance /\ chain'.word = chain.word
      /\ chain'.reserve = reserve /\ chain'.wrapped = chain.wrapped \cup {wrapped, underlying}
  BY <1>5
<1>7. /\ reserve \in [VaultToken -> Nat]
      /\ \A other \in VaultToken \ {wrapped, underlying} : reserve[other] = chain.reserve[other]
  BY <1>2, <1>3, BalancerParts
<1>8. chain' \in BalancerState
  BY <1>5, <1>7, BalancerParts DEF BalancerState
<1>9. ReserveStep(chain, chain', c)
  BY <1>4, <1>6, <1>7 DEF ReserveStep, Pays
<1>10. BalancerStep(chain, chain', c)
  BY <1>4, <1>6, <1>9 DEF BalancerStep, PoolsStep, PausedStep, BalanceStep, WordStep,
     TradeKinds, PoolKinds
<1> QED  BY <1>3, <1>4, <1>8, <1>10, BalancerEmitKeeps

LEMMA BalancerNextTxKeeps == ASSUME BalancerInv, Balancer!NextTx PROVE BalancerInv'
<1>1. MaxTxs \in Nat \ {0}
  BY BalancerConstants
<1>2. PICK h, e : BalancerAt(h, e)
  BY DEF BalancerInv
<1>3. PICK t0 \in 1..MaxTxs : t0 = block.tx
  BY BalancerParts
<1>4. PICK last : last = t0
  OBVIOUS
<1>5. last < MaxTxs /\ last + 1 \in 1..MaxTxs
  BY <1>1, <1>3, <1>4 DEF Balancer!NextTx
<1>6. PICK ends2 : ends2 = [block.txEnd EXCEPT ![last + 1] = chain]
  OBVIOUS
<1>7. /\ phase = "mine" /\ phase' = "mine"
      /\ UNCHANGED <<chain, phase, stores, deltas, message, indexer>>
      /\ block' = [block EXCEPT !.tx = last + 1, !.txEnd = ends2]
  BY <1>3, <1>4, <1>6 DEF Balancer!NextTx
<1>8. /\ block'.tx = last + 1 /\ block'.events = block.events /\ block'.begin = block.begin
      /\ block'.txEnd = ends2
      /\ block' \in [tx : 1..MaxTxs, events : Seq(BalancerEvent), begin : BalancerState,
                     txEnd : [1..MaxTxs -> BalancerState]]
  <2>1. PICK X : X = BalancerState
    OBVIOUS
  <2>2. PICK TxEnds : TxEnds = [1..MaxTxs -> X]
    OBVIOUS
  <2>3. PICK Evs : Evs = Seq(BalancerEvent)
    OBVIOUS
  <2>4. /\ block \in [tx : 1..MaxTxs, events : Evs, begin : X, txEnd : TxEnds]
        /\ chain \in X
    BY <2>1, <2>2, <2>3 DEF BalancerInv, BalancerTypes
  <2>5. block.txEnd \in TxEnds
    BY <2>4
  <2>6. ends2 \in TxEnds
    BY <1>5, <1>6, <2>2, <2>4, <2>5
  <2>7. /\ block'.tx = last + 1 /\ block'.events = block.events /\ block'.begin = block.begin
        /\ block'.txEnd = ends2
        /\ block' \in [tx : 1..MaxTxs, events : Evs, begin : X, txEnd : TxEnds]
    BY <1>5, <1>7, <2>4, <2>6
  <2> QED  BY <2>1, <2>2, <2>3, <2>7
<1>9. BalancerTypes'
  BY <1>7, <1>8 DEF BalancerInv, BalancerTypes
<1>10. Chronicle(h, e, block.events, last + 1, ends2, chain, BalancerState)
  <2>1. PICK evs : evs = block.events
    OBVIOUS
  <2>2. PICK ends : ends = block.txEnd
    OBVIOUS
  <2>3. PICK X : X = BalancerState
    OBVIOUS
  <2>4. PICK s : s = chain
    OBVIOUS
  <2>5. /\ evs \in Seq(BalancerEvent) /\ last \in 1..MaxTxs /\ last < MaxTxs /\ s \in X
        /\ ends2 = [ends EXCEPT ![last + 1] = s]
    BY <1>3, <1>4, <1>5, <1>6, <2>1, <2>2, <2>3, <2>4 DEF BalancerInv, BalancerTypes
  <2>6. Chronicle(h, e, evs, last, ends, s, X)
    BY <1>2, <1>3, <1>4, <2>1, <2>2, <2>3, <2>4 DEF BalancerAt
  <2>7. Chronicle(h, e, evs, last + 1, ends2, s, X)
    BY <1>1, <2>5, <2>6, ChronicleNextTx
  <2> QED  BY <2>1, <2>3, <2>4, <2>7
<1>11. BalancerAt(h, e)'
  <2>1. /\ h[0] = block.begin /\ BalancerKnown(indexer, block.begin)
        /\ stores.pools = block.begin.pools /\ stores.balance = block.begin.balance
        /\ BalancerSteps(h, block.events)
    BY <1>2, <1>7 DEF BalancerAt
  <2>2. /\ h[0] = block'.begin /\ BalancerKnown(indexer, block.begin)'
        /\ stores'.pools = block'.begin.pools /\ stores'.balance = block'.begin.balance
        /\ BalancerSteps(h, block'.events)
    BY <1>7, <1>8, <2>1 DEF BalancerKnown, ReserveRight
  <2>3. Chronicle(h, e, block'.events, block'.tx, block'.txEnd, chain', BalancerState)
    BY <1>7, <1>8, <1>10
  <2> QED  BY <1>7, <2>2, <2>3 DEF BalancerAt
<1> QED  BY <1>7, <1>9, <1>11 DEF BalancerInv, BalancerDeltas, BalancerMessage

-----------------------------------------------------------------------------
(* The stores.                                                             *)
BalancerNew(evs) ==
    [i \in 1..Len(evs) |-> IF evs[i].kind = "PoolCreated" THEN {evs[i].pool} ELSE {}]

LEMMA BalancerPoolsAlong ==
    ASSUME NEW evs \in Seq(BalancerEvent), NEW h, BalancerSteps(h, evs),
           NEW a \in 0..Len(evs), NEW b \in 0..Len(evs), a <= b
    PROVE  h[b].pools = h[a].pools \cup Gathered(BalancerNew(evs), a + 1..b)
<1>1. PICK n \in Nat : n = Len(evs)
  OBVIOUS
<1>2. PICK f : f = [i \in 0..n |-> h[i].pools]
  OBVIOUS
<1>3. PICK new : new = BalancerNew(evs)
  OBVIOUS
<1>4. Adds(f, new, a, b)
  <2>1. ASSUME NEW i \in a + 1..b PROVE f[i] = f[i - 1] \cup new[i]
    <3>1. i \in 1..n /\ i \in 0..n /\ i - 1 \in 0..n
      BY <1>1
    <3>2. BalancerStep(h[i - 1], h[i], evs[i])
      BY <1>1, <3>1 DEF BalancerSteps
    <3>3. h[i].pools = h[i - 1].pools \cup new[i]
      BY <1>1, <1>3, <3>1, <3>2 DEF BalancerStep, PoolsStep, BalancerNew
    <3> QED  BY <1>2, <3>1, <3>3
  <2> QED  BY <2>1 DEF Adds
<1>5. a \in Nat /\ b \in Nat
  OBVIOUS
<1>6. f[b] = f[a] \cup Gathered(new, a + 1..b)
  BY <1>4, <1>5, Accumulated
<1> QED  BY <1>1, <1>2, <1>3, <1>6

LEMMA BalancerNewPools ==
    ASSUME NEW n \in Nat, DOMAIN block.events = 1..n, Len(block.events) = n, NEW t, NEW x
    PROVE  x \in Balancer!NewPools(t) <=> \E i \in 1..n : /\ x \in BalancerNew(block.events)[i]
                                                         /\ block.events[i].tx = t
<1>1. x \in Balancer!NewPools(t) <=> \E i \in 1..n : /\ block.events[i].kind = "PoolCreated"
                                                     /\ block.events[i].tx = t
                                                     /\ x = block.events[i].pool
  BY DEF Balancer!NewPools, Balancer!EventsOf
<1>2. \A i \in 1..n : x \in BalancerNew(block.events)[i]
                        <=> block.events[i].kind = "PoolCreated" /\ x = block.events[i].pool
  BY DEF BalancerNew
<1> QED  BY <1>1, <1>2

(* An event of a pool comes when the pool is there, and pools stay.        *)
LEMMA BalancerPoolsStay ==
    ASSUME NEW evs \in Seq(BalancerEvent), NEW h, BalancerSteps(h, evs),
           NEW i \in 1..Len(evs), evs[i].kind \in PoolKinds, NEW b \in 0..Len(evs), i <= b
    PROVE  evs[i].pool \in h[b].pools
<1>1. PICK k : k = i
  OBVIOUS
<1>2. k \in 0..Len(evs) /\ k <= b
  BY <1>1
<1>3. h[b].pools = h[k].pools \cup Gathered(BalancerNew(evs), k + 1..b)
  BY <1>2, BalancerPoolsAlong
<1>4. BalancerStep(h[i - 1], h[i], evs[i])
  BY DEF BalancerSteps
<1>5. evs[i].pool \in h[i].pools
  BY <1>4 DEF BalancerStep, PoolsStep
<1> QED  BY <1>1, <1>3, <1>5

LEMMA BalancerMapKeeps == ASSUME BalancerInv, Balancer!MapRelativeBalances PROVE BalancerInv'
<1>1. PICK h, e : BalancerAt(h, e)
  BY DEF BalancerInv
<1>2. PICK evs : evs = block.events
  OBVIOUS
<1>3. evs \in Seq(BalancerEvent)
  BY <1>2, BalancerParts
<1>4. PICK n \in Nat : n = Len(evs) /\ DOMAIN evs = 1..n
  BY <1>3
<1>5. PICK new : new = UNION {Balancer!NewPools(t) : t \in Balancer!Tx}
  OBVIOUS
<1>6. PICK pools : pools = stores.pools \cup new
  OBVIOUS
<1>7. PICK tokens : tokens = stores.tokens
                             \cup UNION {{PoolTokens[p][1], PoolTokens[p][2]} : p \in new}
  OBVIOUS
<1>8. /\ phase = "mine" /\ phase' = "store" /\ UNCHANGED <<chain, block, message, indexer>>
      /\ stores' = [stores EXCEPT !.pools = pools, !.tokens = tokens]
      /\ deltas' = [i \in Balancer!Counted(pools) |-> Balancer!DeltasOf(block.events[i])]
  BY <1>5, <1>6, <1>7 DEF Balancer!MapRelativeBalances
<1>9. /\ stores'.pools = pools /\ stores'.tokens = tokens /\ stores'.balance = stores.balance
      /\ stores' = [pools |-> stores'.pools, tokens |-> stores'.tokens,
                    balance |-> stores'.balance]
  <2>1. stores = [pools |-> stores.pools, tokens |-> stores.tokens, balance |-> stores.balance]
    BY DEF BalancerInv, BalancerTypes
  <2>2. stores' = [pools |-> pools, tokens |-> tokens, balance |-> stores.balance]
    BY <1>8, <2>1
  <2> QED  BY <2>2
<1>10. /\ BalancerSteps(h, evs) /\ h[n] = chain /\ h[0] = block.begin
       /\ stores.pools = h[0].pools /\ Ends(e, evs, block.tx) /\ block.tx \in 1..MaxTxs
  BY <1>1, <1>2, <1>4, <1>8, BalancerParts DEF BalancerAt, Chronicle
<1>11. pools = chain.pools
  <2>1. chain.pools = stores.pools \cup Gathered(BalancerNew(evs), 1..n)
    <3>1. PICK a, b : a = 0 /\ b = n
      OBVIOUS
    <3>2. h[b].pools = h[a].pools \cup Gathered(BalancerNew(evs), a + 1..b)
      <4>1. a \in 0..Len(evs) /\ b \in 0..Len(evs) /\ a <= b
        BY <1>4, <3>1
      <4> QED  BY <1>3, <1>10, <4>1, BalancerPoolsAlong
    <3> QED  BY <1>10, <3>1, <3>2
  <2>2. \A i \in 1..n : evs[i].tx \in Balancer!Tx
    BY <1>4, <1>10, BalancerConstants DEF Ends
  <2>3. ASSUME NEW x PROVE x \in new <=> x \in Gathered(BalancerNew(evs), 1..n)
    <3>1. \A t : x \in Balancer!NewPools(t) <=> \E i \in 1..n : /\ x \in BalancerNew(evs)[i]
                                                               /\ evs[i].tx = t
      BY <1>2, <1>4, BalancerNewPools
    <3>2. x \in Gathered(BalancerNew(evs), 1..n) <=> \E i \in 1..n : x \in BalancerNew(evs)[i]
      BY GatheredIs
    <3> QED  BY <1>5, <2>2, <3>1, <3>2
  <2> QED  BY <1>6, <2>1, <2>3
<1>12. Balancer!Counted(pools) = BalancerTrades
  <2>1. ASSUME NEW i \in 1..n, evs[i].kind \in TradeKinds PROVE evs[i].pool \in pools
    <3>1. PICK b : b = n
      OBVIOUS
    <3>2. b \in 0..Len(evs) /\ i <= b /\ i \in 1..Len(evs)
      BY <1>4, <3>1
    <3>3. evs[i].kind \in PoolKinds
      BY <2>1 DEF PoolKinds
    <3>4. evs[i].pool \in h[b].pools
      BY <1>3, <1>10, <3>2, <3>3, BalancerPoolsStay
    <3> QED  BY <1>10, <1>11, <3>1, <3>4
  <2>2. \A i : i \in Balancer!Counted(pools)
                 <=> i \in 1..n /\ evs[i].kind \in TradeKinds /\ evs[i].pool \in pools
    BY <1>2, <1>4, BalancerConstants DEF Balancer!Counted
  <2>3. \A i : i \in BalancerTrades <=> i \in 1..n /\ evs[i].kind \in TradeKinds
    BY <1>2, <1>4 DEF BalancerTrades
  <2> QED  BY <2>1, <2>2, <2>3
<1>13. BalancerTypes'
  BY <1>8, <1>9 DEF BalancerInv, BalancerTypes
<1>14. BalancerDeltas'
  <2>1. BalancerTrades' = BalancerTrades
    BY <1>8 DEF BalancerTrades
  <2> QED  BY <1>8, <1>12, <2>1 DEF BalancerDeltas
<1>15. BalancerAt(h, e)'
  <2>1. BalancerKnown(indexer, block.begin)'
    <3>1. BalancerKnown(indexer, block.begin)
      BY <1>1 DEF BalancerAt
    <3>2. stores.tokens \subseteq stores'.tokens
      BY <1>7, <1>9
    <3> QED  BY <1>8, <3>1, <3>2 DEF BalancerKnown, ReserveRight
  <2>2. /\ Chronicle(h, e, block'.events, block'.tx, block'.txEnd, chain', BalancerState)
        /\ BalancerSteps(h, block'.events) /\ h[0] = block'.begin
        /\ stores.balance = block.begin.balance
    BY <1>1, <1>8 DEF BalancerAt
  <2> QED  BY <1>8, <1>9, <1>11, <2>1, <2>2 DEF BalancerAt
<1> QED  BY <1>8, <1>13, <1>14, <1>15 DEF BalancerInv, BalancerMessage

(* The recursion of the store.                                             *)
BalancerSumEq(f, start, ds, key, n) ==
    f = [i \in 0..n |-> IF i = 0 THEN start
                        ELSE IF i \in DOMAIN ds /\ ds[i].pool = key[1]
                        THEN f[i - 1] + ds[i].amounts[key[2]] ELSE f[i - 1]]

BalancerTotals(start, ds, key, n) == CHOOSE f : BalancerSumEq(f, start, ds, key, n)

BalancerSums(f, start, ds, key, n) ==
    /\ f[0] = start
    /\ \A i \in 1..n :
          f[i] = IF i \in DOMAIN ds /\ ds[i].pool = key[1]
                 THEN f[i - 1] + ds[i].amounts[key[2]] ELSE f[i - 1]

LEMMA BalancerSummed ==
    ASSUME NEW n \in Nat, NEW start, NEW ds, NEW key, NEW f,
           BalancerSums(f, start, ds, key, n)
    PROVE  \A m \in 0..n : BalancerTotals(start, ds, key, n)[m] = f[m]
<1>0. PICK c : c = BalancerTotals(start, ds, key, n)
  OBVIOUS
<1> DEFINE g == [i \in 0..n |-> f[i]]
<1>1. BalancerSumEq(g, start, ds, key, n)
  <2>1. ASSUME NEW i \in 0..n
        PROVE  g[i] = IF i = 0 THEN start
                      ELSE IF i \in DOMAIN ds /\ ds[i].pool = key[1]
                      THEN g[i - 1] + ds[i].amounts[key[2]] ELSE g[i - 1]
    <3>1. CASE i = 0
      BY <3>1 DEF BalancerSums
    <3>2. CASE i # 0
      <4>1. i \in 1..n /\ i - 1 \in 0..n
        BY <3>2
      <4> QED  BY <3>2, <4>1 DEF BalancerSums
    <3> QED  BY <3>1, <3>2
  <2> QED  BY <2>1 DEF BalancerSumEq
<1> HIDE DEF g
<1>2. BalancerSumEq(c, start, ds, key, n)
  BY <1>0, <1>1 DEF BalancerTotals
<1>3. Alike(c, f, n)
  <2>1. c[0] = start
    BY <1>2 DEF BalancerSumEq
  <2>2. ASSUME NEW i \in 1..n, c[i - 1] = f[i - 1] PROVE c[i] = f[i]
    <3>1. i \in 0..n /\ i # 0
      OBVIOUS
    <3>2. c[i] = IF i \in DOMAIN ds /\ ds[i].pool = key[1]
                 THEN c[i - 1] + ds[i].amounts[key[2]] ELSE c[i - 1]
      BY <1>2, <3>1 DEF BalancerSumEq
    <3> QED  BY <2>2, <3>2 DEF BalancerSums
  <2> QED  BY <2>1, <2>2 DEF Alike, BalancerSums
<1> QED  BY <1>0, <1>3, SameAlong

(* The store once the trades of the first events are added has the         *)
(* balances after them.                                                    *)
LEMMA BalancerStored ==
    ASSUME BalancerInv, NEW h, NEW e, BalancerAt(h, e), phase = "store",
           NEW k \in BalancerKey, NEW m \in 0..Len(block.events)
    PROVE  Balancer!Stored(k, m) = h[m].balance[k]
<1>1. PICK evs : evs = block.events
  OBVIOUS
<1>2. evs \in Seq(BalancerEvent)
  BY <1>1, BalancerParts
<1>3. PICK n \in Nat : n = Len(evs) /\ DOMAIN evs = 1..n
  BY <1>2
<1>4. BalancerSteps(h, evs) /\ m \in 0..n
  BY <1>1, <1>3 DEF BalancerAt
<1>5. PICK ds : ds = deltas
  OBVIOUS
<1>6. PICK start : start = stores.balance[k]
  OBVIOUS
<1>7. start = h[0].balance[k]
  BY <1>6 DEF BalancerAt
<1>8. ds = [i \in BalancerTrades |-> Balancer!DeltasOf(evs[i])]
  BY <1>1, <1>5 DEF BalancerInv, BalancerDeltas
<1>9. \A i : i \in DOMAIN ds <=> i \in 1..n /\ evs[i].kind \in TradeKinds
  BY <1>1, <1>3, <1>8 DEF BalancerTrades
<1>10. ASSUME NEW i \in DOMAIN ds
       PROVE  /\ ds[i].pool = evs[i].pool
              /\ k[1] = evs[i].pool => ds[i].amounts[k[2]] = Balancer!AmountOf(evs[i], k[2])
  <2>1. ds[i] = Balancer!DeltasOf(evs[i])
    BY <1>8
  <2>2. k[2] \in {PoolTokens[k[1]][1], PoolTokens[k[1]][2]}
    BY DEF BalancerKey
  <2> QED  BY <2>1, <2>2 DEF Balancer!DeltasOf
<1>11. PICK c : c = BalancerTotals(start, ds, k, n)
  OBVIOUS
<1>12. Balancer!Stored(k, m) = c[m]
  BY <1>1, <1>3, <1>5, <1>6, <1>11 DEF Balancer!Stored, BalancerSumEq, BalancerTotals
<1>13. PICK f : f = [i \in 0..n |-> h[i].balance[k]]
  OBVIOUS
<1>14. ASSUME NEW i \in 1..n
       PROVE  f[i] = IF i \in DOMAIN ds /\ ds[i].pool = k[1]
                     THEN f[i - 1] + ds[i].amounts[k[2]] ELSE f[i - 1]
  <2>1. i \in 0..n /\ i - 1 \in 0..n
    OBVIOUS
  <2>2. f[i] = h[i].balance[k] /\ f[i - 1] = h[i - 1].balance[k]
    BY <1>13, <2>1
  <2>3. BalancerStep(h[i - 1], h[i], evs[i])
    BY <1>3, <1>4 DEF BalancerSteps
  <2>4. h[i].balance[k] = IF evs[i].kind \in TradeKinds /\ k[1] = evs[i].pool
                          THEN h[i - 1].balance[k] + Balancer!AmountOf(evs[i], k[2])
                          ELSE h[i - 1].balance[k]
    BY <2>3 DEF BalancerStep, BalanceStep
  <2> QED  BY <1>9, <1>10, <2>2, <2>4
<1>15. BalancerSums(f, start, ds, k, n)
  <2>1. f[0] = start
    BY <1>7, <1>13
  <2> QED  BY <1>14, <2>1 DEF BalancerSums
<1>16. c[m] = f[m]
  BY <1>4, <1>11, <1>15, BalancerSummed
<1> QED  BY <1>4, <1>12, <1>13, <1>16

LEMMA BalancerStoreKeeps == ASSUME BalancerInv, Balancer!StoreBalances PROVE BalancerInv'
<1>1. PICK h, e : BalancerAt(h, e)
  BY DEF BalancerInv
<1>2. PICK evs : evs = block.events
  OBVIOUS
<1>3. evs \in Seq(BalancerEvent)
  BY <1>2, BalancerParts
<1>4. PICK n \in Nat : n = Len(evs) /\ DOMAIN evs = 1..n
  BY <1>3
<1>5. PICK balance : balance = [k \in BalancerKey |-> Balancer!Stored(k, Len(block.events))]
  OBVIOUS
<1>6. /\ phase = "store" /\ phase' = "map" /\ UNCHANGED <<chain, block, message, indexer>>
      /\ stores' = [stores EXCEPT !.balance = balance]
      /\ deltas' = [i \in DOMAIN deltas |->
             [pool |-> deltas[i].pool, tx |-> deltas[i].tx,
              new_value |-> [token \in DOMAIN deltas[i].amounts |->
                                Balancer!Stored(<<deltas[i].pool, token>>, i)]]]
  BY <1>5, BalancerConstants DEF Balancer!StoreBalances
<1>7. /\ stores'.pools = stores.pools /\ stores'.tokens = stores.tokens
      /\ stores'.balance = balance
      /\ stores' = [pools |-> stores'.pools, tokens |-> stores'.tokens,
                    balance |-> stores'.balance]
  <2>1. stores = [pools |-> stores.pools, tokens |-> stores.tokens, balance |-> stores.balance]
    BY DEF BalancerInv, BalancerTypes
  <2>2. stores' = [pools |-> stores.pools, tokens |-> stores.tokens, balance |-> balance]
    BY <1>6, <2>1
  <2> QED  BY <2>2
<1>8. h[n] = chain /\ stores.pools = chain.pools
  BY <1>1, <1>2, <1>4, <1>6 DEF BalancerAt, Chronicle
<1>9. balance = chain.balance
  <2>1. ASSUME NEW k \in BalancerKey
        PROVE  Balancer!Stored(k, Len(block.events)) = chain.balance[k]
    <3>1. PICK m \in 0..Len(block.events) : m = Len(block.events)
      BY <1>2, <1>4
    <3>2. Balancer!Stored(k, m) = h[m].balance[k]
      BY <1>1, <1>6, BalancerStored
    <3> QED  BY <1>2, <1>4, <1>8, <3>1, <3>2
  <2>2. chain.balance = [k \in BalancerKey |-> chain.balance[k]]
    BY BalancerParts
  <2> QED  BY <1>5, <2>1, <2>2
<1>10. DOMAIN deltas = BalancerTrades
       /\ \A i \in BalancerTrades : deltas[i] = Balancer!DeltasOf(evs[i])
  BY <1>2, <1>6 DEF BalancerInv, BalancerDeltas
<1>11. \A i \in BalancerTrades :
          /\ deltas[i].pool = evs[i].pool /\ deltas[i].tx = evs[i].tx
          /\ DOMAIN deltas[i].amounts = {PoolTokens[evs[i].pool][1], PoolTokens[evs[i].pool][2]}
  <2> TAKE i \in BalancerTrades
  <2>1. PICK d : d = [token \in {PoolTokens[evs[i].pool][1], PoolTokens[evs[i].pool][2]} |->
                         Balancer!AmountOf(evs[i], token)]
    OBVIOUS
  <2>2. DOMAIN d = {PoolTokens[evs[i].pool][1], PoolTokens[evs[i].pool][2]}
    BY <2>1
  <2>3. deltas[i] = [pool |-> evs[i].pool, tx |-> evs[i].tx, amounts |-> d]
    BY <1>10, <2>1 DEF Balancer!DeltasOf
  <2> QED  BY <2>2, <2>3
<1>12. ASSUME NEW i \in BalancerTrades,
              NEW token \in {PoolTokens[evs[i].pool][1], PoolTokens[evs[i].pool][2]}
       PROVE  Balancer!Stored(<<deltas[i].pool, token>>, i) = h[i].balance[<<evs[i].pool, token>>]
  <2>1. i \in 1..n /\ evs[i].kind \in TradeKinds
    BY <1>2, <1>4 DEF BalancerTrades
  <2>2. evs[i].pool \in BalancerPool
    <3>1. evs[i] \in BalancerEvent
      BY <1>3, <1>4, <2>1
    <3> QED  BY <2>1, <3>1 DEF BalancerEvent, TradeKinds
  <2>3. PICK k : k = <<evs[i].pool, token>>
    OBVIOUS
  <2>4. k \in BalancerKey
    BY <2>2, <2>3 DEF BalancerKey
  <2>5. PICK m \in 0..Len(block.events) : m = i
    BY <1>2, <1>4, <2>1
  <2>6. Balancer!Stored(k, m) = h[m].balance[k]
    BY <1>1, <1>6, <2>4, BalancerStored
  <2> QED  BY <1>11, <2>3, <2>5, <2>6
<1>13. deltas' = [i \in BalancerTrades |->
           [pool |-> evs[i].pool, tx |-> evs[i].tx,
            new_value |-> [token \in {PoolTokens[evs[i].pool][1], PoolTokens[evs[i].pool][2]} |->
                              h[i].balance[<<evs[i].pool, token>>]]]]
  <2>1. ASSUME NEW i \in BalancerTrades
        PROVE  [pool |-> deltas[i].pool, tx |-> deltas[i].tx,
                new_value |-> [token \in DOMAIN deltas[i].amounts |->
                                  Balancer!Stored(<<deltas[i].pool, token>>, i)]]
               = [pool |-> evs[i].pool, tx |-> evs[i].tx,
                  new_value |-> [token \in {PoolTokens[evs[i].pool][1],
                                            PoolTokens[evs[i].pool][2]} |->
                                    h[i].balance[<<evs[i].pool, token>>]]]
    BY <1>11, <1>12, Zenon
  <2> QED  BY <1>6, <1>10, <2>1, Zenon
<1>14. BalancerTypes'
  BY <1>6, <1>7 DEF BalancerInv, BalancerTypes
<1>15. BalancerAt(h, e)'
  <2>1. BalancerKnown(indexer, block.begin)'
    <3>1. BalancerKnown(indexer, block.begin)
      BY <1>1 DEF BalancerAt
    <3> QED  BY <1>6, <1>7, <3>1 DEF BalancerKnown, ReserveRight
  <2>2. /\ Chronicle(h, e, block'.events, block'.tx, block'.txEnd, chain', BalancerState)
        /\ BalancerSteps(h, block'.events) /\ h[0] = block'.begin
    BY <1>1, <1>6 DEF BalancerAt
  <2>3. BalancerTrades' = BalancerTrades
    BY <1>6 DEF BalancerTrades
  <2>4. (deltas = [i \in BalancerTrades |->
              [pool |-> block.events[i].pool, tx |-> block.events[i].tx,
               new_value |-> [token \in {PoolTokens[block.events[i].pool][1],
                                         PoolTokens[block.events[i].pool][2]} |->
                                 h[i].balance[<<block.events[i].pool, token>>]]]])'
    BY <1>2, <1>6, <1>13, <2>3, Zenon
  <2>5. stores'.pools = chain'.pools /\ stores'.balance = chain'.balance
    BY <1>6, <1>7, <1>8, <1>9
  <2> QED  BY <1>6, <2>1, <2>2, <2>4, <2>5 DEF BalancerAt
<1> QED  BY <1>6, <1>14, <1>15 DEF BalancerInv, BalancerDeltas, BalancerMessage

-----------------------------------------------------------------------------
(* The message: what a transaction says takes the state before it to the   *)
(* state after it.                                                         *)
BalancerSpan(h, e, evs, t, n, lo, hi) ==
    /\ evs \in Seq(BalancerEvent) /\ n = Len(evs) /\ BalancerSteps(h, evs)
    /\ DOMAIN evs = 1..n /\ lo \in 0..n /\ hi \in 0..n /\ lo <= hi
    /\ lo = e[t - 1] /\ hi = e[t]
    /\ \A i \in 1..n : evs[i].tx = t <=> lo < i /\ i <= hi
    /\ h \in [0..n -> BalancerState] /\ h[n] = chain

LEMMA BalancerSpans ==
    ASSUME BalancerInv, NEW h, NEW e, BalancerAt(h, e), NEW t \in 1..block.tx
    PROVE  \E n, lo, hi : n \in Nat /\ BalancerSpan(h, e, block.events, t, n, lo, hi)
<1>1. MaxTxs \in Nat \ {0}
  BY BalancerConstants
<1>2. PICK t0 \in 1..MaxTxs : t0 = block.tx
  BY BalancerParts
<1>3. PICK last : last = t0
  OBVIOUS
<1>4. PICK evs : evs = block.events
  OBVIOUS
<1>5. evs \in Seq(BalancerEvent)
  BY <1>4, BalancerParts
<1>6. PICK n \in Nat : n = Len(evs) /\ DOMAIN evs = 1..n
  BY <1>5
<1>7. /\ Ends(e, evs, last) /\ h \in [0..n -> BalancerState] /\ h[n] = chain
      /\ BalancerSteps(h, evs) /\ last \in 1..MaxTxs
  BY <1>2, <1>3, <1>4, <1>6 DEF BalancerAt, Chronicle
<1>8. PICK u : u = t
  OBVIOUS
<1>9. u \in 1..MaxTxs
  BY <1>1, <1>2, <1>8
<1>10. \A i \in 1..Len(evs) : evs[i].tx = u <=> e[u - 1] < i /\ i <= e[u]
  BY <1>1, <1>5, <1>7, <1>9, EndsSplit
<1>11. e[u - 1] \in 0..n /\ e[u] \in 0..n /\ e[u - 1] <= e[u]
  BY <1>1, <1>5, <1>6, <1>7, <1>9, EndsFacts
<1>12. BalancerSpan(h, e, evs, t, n, e[t - 1], e[t])
  BY <1>5, <1>6, <1>7, <1>8, <1>10, <1>11 DEF BalancerSpan
<1> QED  BY <1>4, <1>6, <1>12

(* The states at the two ends of a transaction.                            *)
LEMMA BalancerEnds ==
    ASSUME BalancerInv, NEW h, NEW e, BalancerAt(h, e), NEW t \in 1..block.tx
    PROVE  /\ (IF t = 1 THEN block.begin ELSE block.txEnd[t - 1]) = h[e[t - 1]]
           /\ block.txEnd[t] = h[e[t]] /\ e[0] = 0 /\ h[0] = block.begin
<1>1. MaxTxs \in Nat \ {0} /\ block.tx \in 1..MaxTxs
  BY BalancerConstants, BalancerParts
<1>2. block.txEnd[t] = h[e[t]] /\ h[0] = block.begin /\ e[0] = 0
  BY DEF BalancerAt, Chronicle, Ends
<1>3. CASE t = 1
  <2>1. t - 1 = 0
    BY <1>3
  <2> QED  BY <1>2, <1>3, <2>1
<1>4. CASE t # 1
  <2>1. t - 1 \in 1..block.tx
    BY <1>1, <1>4
  <2> QED  BY <1>2, <1>4, <2>1 DEF BalancerAt, Chronicle
<1> QED  BY <1>3, <1>4

LEMMA BalancerPoolsTold ==
    ASSUME BalancerInv, NEW h, NEW e, BalancerAt(h, e), NEW t \in 1..block.tx
    PROVE  h[e[t]].pools = h[e[t - 1]].pools \cup Balancer!NewPools(t)
<1>1. PICK n, lo, hi : n \in Nat /\ BalancerSpan(h, e, block.events, t, n, lo, hi)
  BY BalancerSpans
<1>2. PICK evs : evs = block.events
  OBVIOUS
<1>3. /\ evs \in Seq(BalancerEvent) /\ BalancerSteps(h, evs) /\ n = Len(evs)
      /\ DOMAIN evs = 1..n /\ lo \in 0..n /\ hi \in 0..n /\ lo <= hi
      /\ \A i \in 1..n : evs[i].tx = t <=> lo < i /\ i <= hi
  BY <1>1, <1>2 DEF BalancerSpan
<1>4. h[hi].pools = h[lo].pools \cup Gathered(BalancerNew(evs), lo + 1..hi)
  BY <1>3, BalancerPoolsAlong
<1>5. ASSUME NEW x
      PROVE  x \in Balancer!NewPools(t) <=> x \in Gathered(BalancerNew(evs), lo + 1..hi)
  <2>1. x \in Balancer!NewPools(t) <=> \E i \in 1..n : x \in BalancerNew(evs)[i] /\ evs[i].tx = t
    BY <1>2, <1>3, BalancerNewPools
  <2>2. x \in Gathered(BalancerNew(evs), lo + 1..hi)
           <=> \E i \in lo + 1..hi : x \in BalancerNew(evs)[i]
    BY GatheredIs
  <2>3. \A i \in 1..n : evs[i].tx = t <=> i \in lo + 1..hi
    BY <1>3
  <2>4. \A i \in lo + 1..hi : i \in 1..n
    BY <1>3
  <2> QED  BY <2>1, <2>2, <2>3, <2>4
<1> QED  BY <1>1, <1>4, <1>5 DEF BalancerSpan

(* A pause state that no event changes stays.                              *)
PausedSame(h, p, a, b) ==
    \A i \in a + 1..b : p \in h[i].paused <=> p \in h[i - 1].paused

LEMMA BalancerPausedBetween ==
    ASSUME NEW h, NEW p, NEW a, NEW b, a \in Nat, b \in Nat, a <= b, PausedSame(h, p, a, b)
    PROVE  p \in h[b].paused <=> p \in h[a].paused
<1>1. PICK f : f = [i \in 0..b |-> h[i].paused \cap {p}]
  OBVIOUS
<1>2. \A i \in a + 1..b : f[i] = f[i - 1]
  <2> TAKE i \in a + 1..b
  <2>1. i \in 0..b /\ i - 1 \in 0..b
    OBVIOUS
  <2>2. p \in h[i].paused <=> p \in h[i - 1].paused
    BY DEF PausedSame
  <2> QED  BY <1>1, <2>1, <2>2
<1>3. f[b] = f[a]
  BY <1>2, Unchanged
<1>4. f[a] = h[a].paused \cap {p} /\ f[b] = h[b].paused \cap {p}
  BY <1>1
<1> QED  BY <1>3, <1>4

(* The last change of a transaction is its pause state at the end; if the  *)
(* first set it and the last took it back, it is what it was.              *)
LEMMA BalancerPausedTold ==
    ASSUME BalancerInv, NEW h, NEW e, BalancerAt(h, e), phase \in {"map", "apply"},
           NEW t \in 1..block.tx, NEW p
    PROVE  /\ p \in DOMAIN Balancer!PauseStates(t)
                 => /\ p \in h[e[t]].paused <=> Balancer!PauseStates(t)[p]
                    /\ p \in h[e[t]].pools
           /\ p \notin DOMAIN Balancer!PauseStates(t)
                 => (p \in h[e[t]].paused <=> p \in h[e[t - 1]].paused)
<1>1. PICK n, lo, hi : n \in Nat /\ BalancerSpan(h, e, block.events, t, n, lo, hi)
  BY BalancerSpans
<1>2. PICK evs : evs = block.events
  OBVIOUS
<1>3. /\ evs \in Seq(BalancerEvent) /\ BalancerSteps(h, evs) /\ n = Len(evs)
      /\ DOMAIN evs = 1..n /\ lo \in 0..n /\ hi \in 0..n /\ lo <= hi
      /\ lo = e[t - 1] /\ hi = e[t] /\ h[n] = chain
      /\ \A i \in 1..n : evs[i].tx = t <=> lo < i /\ i <= hi
  BY <1>1, <1>2 DEF BalancerSpan
<1>4. PICK S : S = {i \in Balancer!EventsOf(t, {"PoolPausedStateChanged"}) :
                       block.events[i].pool = p}
  OBVIOUS
<1>5. \A i : i \in S <=> /\ i \in 1..n /\ evs[i].kind = "PoolPausedStateChanged"
                         /\ lo < i /\ i <= hi /\ evs[i].pool = p
  BY <1>2, <1>3, <1>4 DEF Balancer!EventsOf
<1>6. PICK states : states = Balancer!PauseStates(t)
  OBVIOUS
<1>7. /\ p \in DOMAIN states
            <=> /\ p \in stores.pools /\ S # {}
                /\ ~(evs[Balancer!Min(S)].paused /\ ~evs[Balancer!Max(S)].paused)
      /\ p \in DOMAIN states => states[p] = evs[Balancer!Max(S)].paused
  BY <1>2, <1>4, <1>6 DEF Balancer!PauseStates
<1>8. ASSUME NEW i \in 1..n, lo < i, i <= hi, i \notin S
      PROVE  p \in h[i].paused <=> p \in h[i - 1].paused
  <2>1. ~(evs[i].kind = "PoolPausedStateChanged" /\ evs[i].pool = p)
    BY <1>5, <1>8
  <2>2. BalancerStep(h[i - 1], h[i], evs[i])
    BY <1>3 DEF BalancerSteps
  <2> QED  BY <2>1, <2>2 DEF BalancerStep, PausedStep
<1>9. ASSUME S = {} PROVE p \in h[hi].paused <=> p \in h[lo].paused
  <2>1. PausedSame(h, p, lo, hi)
    <3>1. ASSUME NEW i \in lo + 1..hi PROVE p \in h[i].paused <=> p \in h[i - 1].paused
      <4>1. i \in 1..n /\ lo < i /\ i <= hi
        BY <1>3
      <4> QED  BY <1>8, <1>9, <4>1
    <3> QED  BY <3>1 DEF PausedSame
  <2>2. lo \in Nat /\ hi \in Nat /\ lo <= hi
    BY <1>3
  <2> QED  BY <2>1, <2>2, BalancerPausedBetween
<1>10. ASSUME S # {}
       PROVE  /\ p \in stores.pools /\ p \in h[hi].pools
              /\ p \in h[hi].paused <=> evs[Balancer!Max(S)].paused
              /\ p \in h[lo].paused <=> ~evs[Balancer!Min(S)].paused
  <2>1. S \subseteq 1..n
    BY <1>5
  <2>2. PICK b \in S : b = Balancer!Max(S) /\ \A i \in S : i <= b
    <3>1. \E m \in S : \A i \in S : i <= m
      BY <1>1, <1>10, <2>1, LastIndex
    <3> QED  BY <2>1, <3>1 DEF Balancer!Max
  <2>3. PICK a \in S : a = Balancer!Min(S) /\ \A i \in S : a <= i
    <3>1. \E m \in S : \A i \in S : m <= i
      BY <1>1, <1>10, <2>1, FirstIndex
    <3> QED  BY <2>1, <3>1 DEF Balancer!Min
  <2>4. /\ a \in 1..n /\ lo < a /\ evs[a].kind = "PoolPausedStateChanged" /\ evs[a].pool = p
        /\ b \in 1..n /\ b <= hi /\ evs[b].kind = "PoolPausedStateChanged" /\ evs[b].pool = p
        /\ lo < b /\ a <= hi
    BY <1>5
  <2>5. p \in h[b].paused <=> evs[b].paused
    <3>1. BalancerStep(h[b - 1], h[b], evs[b])
      BY <1>3, <2>4 DEF BalancerSteps
    <3> QED  BY <2>4, <3>1 DEF BalancerStep, PausedStep
  <2>6. p \in h[a - 1].paused <=> ~evs[a].paused
    <3>1. BalancerStep(h[a - 1], h[a], evs[a])
      BY <1>3, <2>4 DEF BalancerSteps
    <3> QED  BY <2>4, <3>1 DEF BalancerStep, PausedStep
  <2>7. p \in h[hi].paused <=> p \in h[b].paused
    <3>1. PICK c : c = b
      OBVIOUS
    <3>2. ASSUME NEW i \in c + 1..hi PROVE p \in h[i].paused <=> p \in h[i - 1].paused
      <4>1. i \in 1..n /\ lo < i /\ i <= hi /\ ~(i <= b)
        BY <1>3, <2>4, <3>1
      <4>2. i \notin S
        BY <2>2, <4>1
      <4> QED  BY <1>8, <4>1, <4>2
    <3>3. PausedSame(h, p, c, hi)
      BY <3>2 DEF PausedSame
    <3>4. c \in Nat /\ hi \in Nat /\ c <= hi
      BY <1>3, <2>4, <3>1
    <3> QED  BY <3>1, <3>3, <3>4, BalancerPausedBetween
  <2>8. p \in h[a - 1].paused <=> p \in h[lo].paused
    <3>1. PICK c : c = a - 1
      OBVIOUS
    <3>2. ASSUME NEW i \in lo + 1..c PROVE p \in h[i].paused <=> p \in h[i - 1].paused
      <4>1. i \in 1..n /\ lo < i /\ i <= hi /\ ~(a <= i)
        BY <1>3, <2>4, <3>1
      <4>2. i \notin S
        BY <2>3, <4>1
      <4> QED  BY <1>8, <4>1, <4>2
    <3>3. PausedSame(h, p, lo, c)
      BY <3>2 DEF PausedSame
    <3>4. c \in Nat /\ lo \in Nat /\ lo <= c
      BY <1>3, <2>4, <3>1
    <3> QED  BY <3>1, <3>3, <3>4, BalancerPausedBetween
  <2>9. p \in stores.pools /\ p \in h[hi].pools
    <3>1. PICK i, top : i = b /\ top = n
      OBVIOUS
    <3>2. /\ i \in 1..Len(evs) /\ evs[i].kind \in PoolKinds /\ evs[i].pool = p
          /\ top \in 0..Len(evs) /\ hi \in 0..Len(evs) /\ i <= top /\ i <= hi
      BY <1>3, <2>4, <3>1 DEF PoolKinds
    <3>3. p \in h[top].pools
      BY <1>3, <3>2, BalancerPoolsStay
    <3>4. p \in h[hi].pools
      BY <1>3, <3>2, BalancerPoolsStay
    <3>5. stores.pools = chain.pools
      BY DEF BalancerAt
    <3> QED  BY <1>3, <3>1, <3>3, <3>4, <3>5
  <2> QED  BY <2>2, <2>3, <2>5, <2>6, <2>7, <2>8, <2>9
<1> QED  BY <1>3, <1>6, <1>7, <1>9, <1>10

(* The last delta of a pool in a transaction has its balances at the end.  *)
BalanceSame(h, k, a, b) == \A i \in a + 1..b : h[i].balance[k] = h[i - 1].balance[k]

LEMMA BalancerBalanceBetween ==
    ASSUME NEW h, NEW k, NEW a, NEW b, a \in Nat, b \in Nat, a <= b, BalanceSame(h, k, a, b)
    PROVE  h[b].balance[k] = h[a].balance[k]
<1>1. PICK f : f = [i \in 0..b |-> h[i].balance[k]]
  OBVIOUS
<1>2. \A i \in a + 1..b : f[i] = f[i - 1]
  <2> TAKE i \in a + 1..b
  <2>1. i \in 0..b /\ i - 1 \in 0..b
    OBVIOUS
  <2> QED  BY <1>1, <2>1 DEF BalanceSame
<1>3. f[b] = f[a]
  BY <1>2, Unchanged
<1> QED  BY <1>1, <1>3

LEMMA BalancerBalancesTold ==
    ASSUME BalancerInv, NEW h, NEW e, BalancerAt(h, e), phase \in {"map", "apply"},
           NEW t \in 1..block.tx, NEW k \in BalancerKey
    PROVE  /\ k \in DOMAIN Balancer!Balances(t)
                 => /\ Balancer!Balances(t)[k] = h[e[t]].balance[k]
                    /\ k[1] \in h[e[t]].pools
           /\ k \notin DOMAIN Balancer!Balances(t)
                 => h[e[t]].balance[k] = h[e[t - 1]].balance[k]
<1>1. PICK n, lo, hi : n \in Nat /\ BalancerSpan(h, e, block.events, t, n, lo, hi)
  BY BalancerSpans
<1>2. PICK evs : evs = block.events
  OBVIOUS
<1>3. /\ evs \in Seq(BalancerEvent) /\ BalancerSteps(h, evs) /\ n = Len(evs)
      /\ DOMAIN evs = 1..n /\ lo \in 0..n /\ hi \in 0..n /\ lo <= hi
      /\ lo = e[t - 1] /\ hi = e[t] /\ h \in [0..n -> BalancerState]
      /\ \A i \in 1..n : evs[i].tx = t <=> lo < i /\ i <= hi
  BY <1>1, <1>2 DEF BalancerSpan
<1>4. PICK ds : ds = deltas
  OBVIOUS
<1>5. ds = [i \in BalancerTrades |->
              [pool |-> evs[i].pool, tx |-> evs[i].tx,
               new_value |-> [token \in {PoolTokens[evs[i].pool][1],
                                         PoolTokens[evs[i].pool][2]} |->
                                 h[i].balance[<<evs[i].pool, token>>]]]]
  BY <1>2, <1>4 DEF BalancerAt
<1>6. PICK S : S = {i \in DOMAIN ds : ds[i].tx = t /\ ds[i].pool = k[1]}
  OBVIOUS
<1>7. \A i : i \in S <=> /\ i \in 1..n /\ evs[i].kind \in TradeKinds /\ lo < i /\ i <= hi
                         /\ evs[i].pool = k[1]
  <2>1. DOMAIN ds = BalancerTrades
        /\ \A i \in BalancerTrades : ds[i].pool = evs[i].pool /\ ds[i].tx = evs[i].tx
    BY <1>5
  <2>2. \A i : i \in BalancerTrades <=> i \in 1..n /\ evs[i].kind \in TradeKinds
    BY <1>2, <1>3 DEF BalancerTrades
  <2> QED  BY <1>3, <1>6, <2>1, <2>2
<1>8. ASSUME NEW i \in 1..n, lo < i, i <= hi, i \notin S
      PROVE  h[i].balance[k] = h[i - 1].balance[k]
  <2>1. ~(evs[i].kind \in TradeKinds /\ k[1] = evs[i].pool)
    BY <1>7, <1>8
  <2>2. BalancerStep(h[i - 1], h[i], evs[i])
    BY <1>3 DEF BalancerSteps
  <2> QED  BY <2>1, <2>2 DEF BalancerStep, BalanceStep
<1>9. PICK B : B = Balancer!Balances(t)
  OBVIOUS
<1>10. /\ k \in DOMAIN B <=> S # {}
       /\ S # {} => B[k] = Balancer!Clipped(ds[Balancer!Max(S)].new_value[k[2]])
  BY <1>4, <1>6, <1>9, BalancerConstants DEF Balancer!Balances
<1>11. ASSUME S # {} PROVE B[k] = h[hi].balance[k] /\ k[1] \in h[hi].pools
  <2>1. S \subseteq 1..n
    BY <1>7
  <2>2. PICK m \in S : m = Balancer!Max(S) /\ \A i \in S : i <= m
    <3>1. \E m \in S : \A i \in S : i <= m
      BY <1>1, <1>11, <2>1, LastIndex
    <3> QED  BY <2>1, <3>1 DEF Balancer!Max
  <2>3. /\ m \in 1..n /\ m \in 0..n /\ m <= hi /\ lo < m /\ m \in BalancerTrades
        /\ evs[m].pool = k[1] /\ evs[m].kind \in TradeKinds
    BY <1>2, <1>3, <1>7, <2>2 DEF BalancerTrades
  <2>4. h[hi].balance[k] = h[m].balance[k]
    <3>1. PICK a : a = m
      OBVIOUS
    <3>2. PICK q : q = k
      OBVIOUS
    <3>3. ASSUME NEW i \in a + 1..hi PROVE h[i].balance[q] = h[i - 1].balance[q]
      <4>1. i \in 1..n /\ lo < i /\ i <= hi /\ ~(i <= m)
        BY <1>3, <2>3, <3>1
      <4>2. i \notin S
        BY <2>2, <4>1
      <4> QED  BY <1>8, <3>2, <4>1, <4>2
    <3>4. BalanceSame(h, q, a, hi)
      BY <3>3 DEF BalanceSame
    <3>5. a \in Nat /\ hi \in Nat /\ a <= hi
      BY <1>3, <2>3, <3>1
    <3>6. h[hi].balance[q] = h[a].balance[q]
      BY <3>4, <3>5, BalancerBalanceBetween
    <3> QED  BY <3>1, <3>2, <3>6
  <2>5. /\ k[2] \in {PoolTokens[k[1]][1], PoolTokens[k[1]][2]} /\ k = <<k[1], k[2]>>
    BY DEF BalancerKey
  <2>6. ds[m].new_value[k[2]] = h[m].balance[k]
    BY <1>5, <2>3, <2>5
  <2>7. h[m].balance[k] \in Nat
    BY <1>3, <2>3 DEF BalancerState
  <2>8. Balancer!Clipped(h[m].balance[k]) = h[m].balance[k]
    BY <2>7 DEF Balancer!Clipped
  <2>9. k[1] \in h[hi].pools
    <3>1. PICK i : i = m
      OBVIOUS
    <3>2. /\ i \in 1..Len(evs) /\ evs[i].kind \in PoolKinds /\ hi \in 0..Len(evs) /\ i <= hi
      BY <1>3, <2>3, <3>1 DEF PoolKinds
    <3>3. evs[i].pool \in h[hi].pools
      BY <1>3, <3>2, BalancerPoolsStay
    <3> QED  BY <2>3, <3>1, <3>3
  <2> QED  BY <1>10, <1>11, <2>2, <2>4, <2>6, <2>8, <2>9
<1>12. ASSUME S = {} PROVE h[hi].balance[k] = h[lo].balance[k]
  <2>1. PICK q : q = k
    OBVIOUS
  <2>2. ASSUME NEW i \in lo + 1..hi PROVE h[i].balance[q] = h[i - 1].balance[q]
    <3>1. i \in 1..n /\ lo < i /\ i <= hi
      BY <1>3
    <3> QED  BY <1>8, <1>12, <2>1, <3>1
  <2>3. BalanceSame(h, q, lo, hi)
    BY <2>2 DEF BalanceSame
  <2>4. lo \in Nat /\ hi \in Nat /\ lo <= hi
    BY <1>3
  <2>5. h[hi].balance[q] = h[lo].balance[q]
    BY <2>3, <2>4, BalancerBalanceBetween
  <2> QED  BY <2>1, <2>5
<1> QED  BY <1>3, <1>9, <1>10, <1>11, <1>12

(* A contract whose word changed was written by a transaction that knew    *)
(* its pool, and is reported; those that are reported are known.           *)
WordSame(h, p, a, b) == \A i \in a + 1..b : h[i].word[p] = h[i - 1].word[p]

LEMMA BalancerWordBetween ==
    ASSUME NEW h, NEW p, NEW a, NEW b, a \in Nat, b \in Nat, a <= b, WordSame(h, p, a, b)
    PROVE  h[b].word[p] = h[a].word[p]
<1>1. PICK f : f = [i \in 0..b |-> h[i].word[p]]
  OBVIOUS
<1>2. \A i \in a + 1..b : f[i] = f[i - 1]
  <2> TAKE i \in a + 1..b
  <2>1. i \in 0..b /\ i - 1 \in 0..b
    OBVIOUS
  <2> QED  BY <1>1, <2>1 DEF WordSame
<1>3. f[b] = f[a]
  BY <1>2, Unchanged
<1> QED  BY <1>1, <1>3

LEMMA BalancerWordsTold ==
    ASSUME BalancerInv, NEW h, NEW e, BalancerAt(h, e), phase \in {"map", "apply"},
           NEW t \in 1..block.tx, NEW p \in BalancerPool
    PROVE  /\ p \in DOMAIN Balancer!ChangedContracts(t)
                 => /\ Balancer!ChangedContracts(t)[p] = h[e[t]].word[p]
                    /\ p \in h[e[t]].pools
           /\ p \notin DOMAIN Balancer!ChangedContracts(t)
                 => h[e[t]].word[p] = h[e[t - 1]].word[p]
<1>1. PICK n, lo, hi : n \in Nat /\ BalancerSpan(h, e, block.events, t, n, lo, hi)
  BY BalancerSpans
<1>2. PICK evs : evs = block.events
  OBVIOUS
<1>3. /\ evs \in Seq(BalancerEvent) /\ BalancerSteps(h, evs) /\ n = Len(evs)
      /\ DOMAIN evs = 1..n /\ lo \in 0..n /\ hi \in 0..n /\ lo <= hi
      /\ lo = e[t - 1] /\ hi = e[t] /\ h[n] = chain
      /\ \A i \in 1..n : evs[i].tx = t <=> lo < i /\ i <= hi
  BY <1>1, <1>2 DEF BalancerSpan
<1>4. PICK before : before = IF t = 1 THEN block.begin ELSE block.txEnd[t - 1]
  OBVIOUS
<1>5. before = h[lo] /\ block.txEnd[t] = h[hi]
  BY <1>3, <1>4, BalancerEnds
<1>6. PICK C : C = Balancer!ChangedContracts(t)
  OBVIOUS
<1>7. /\ p \in DOMAIN C
            <=> /\ p \in stores.pools /\ Balancer!EventsOf(t, {"write", "PoolCreated"}) # {}
                /\ \/ h[lo].word[p] # h[hi].word[p]
                   \/ p \in h[hi].pools /\ p \notin h[lo].pools
      /\ p \in DOMAIN C => C[p] = h[hi].word[p]
  BY <1>4, <1>5, <1>6 DEF Balancer!ChangedContracts
<1>8. ASSUME h[lo].word[p] # h[hi].word[p]
      PROVE  /\ p \in stores.pools /\ p \in h[hi].pools
             /\ Balancer!EventsOf(t, {"write", "PoolCreated"}) # {}
  <2>1. \E i \in lo + 1..hi : h[i].word[p] # h[i - 1].word[p]
    <3> SUFFICES ASSUME \A i \in lo + 1..hi : h[i].word[p] = h[i - 1].word[p] PROVE FALSE
      OBVIOUS
    <3>1. PICK q : q = p
      OBVIOUS
    <3>2. WordSame(h, q, lo, hi)
      BY <3>1 DEF WordSame
    <3>3. lo \in Nat /\ hi \in Nat /\ lo <= hi
      BY <1>3
    <3>4. h[hi].word[q] = h[lo].word[q]
      BY <3>2, <3>3, BalancerWordBetween
    <3> QED  BY <1>8, <3>1, <3>4
  <2>2. PICK i \in lo + 1..hi : h[i].word[p] # h[i - 1].word[p]
    BY <2>1
  <2>3. i \in 1..n /\ lo < i /\ i <= hi /\ i <= n
    BY <1>3
  <2>4. BalancerStep(h[i - 1], h[i], evs[i])
    BY <1>3, <2>3 DEF BalancerSteps
  <2>5. evs[i].kind = "write" /\ evs[i].pool = p
    BY <2>2, <2>4 DEF BalancerStep, WordStep
  <2>6. i \in Balancer!EventsOf(t, {"write", "PoolCreated"})
    BY <1>2, <1>3, <2>3, <2>5 DEF Balancer!EventsOf
  <2>7. PICK top : top = n
    OBVIOUS
  <2>8. /\ i \in 1..Len(evs) /\ evs[i].kind \in PoolKinds /\ i <= top
        /\ top \in 0..Len(evs) /\ hi \in 0..Len(evs)
    BY <1>3, <2>3, <2>5, <2>7 DEF PoolKinds
  <2>9. p \in h[top].pools
    BY <1>3, <2>5, <2>8, BalancerPoolsStay
  <2>10. p \in h[hi].pools
    BY <1>3, <2>3, <2>5, <2>8, BalancerPoolsStay
  <2>11. stores.pools = chain.pools
    BY DEF BalancerAt
  <2> QED  BY <1>3, <2>6, <2>7, <2>9, <2>10, <2>11
<1> QED  BY <1>3, <1>6, <1>7, <1>8

(* What the consumer has of a token's reserve stays right until the token  *)
(* is paid in or out.                                                      *)
Unpaid(h, evs, token, a, b) ==
    \A i \in a + 1..b : ReserveStep(h[i - 1], h[i], evs[i]) /\ ~Pays(evs[i], token)

LEMMA BalancerReserveBetween ==
    ASSUME NEW h, NEW evs, NEW token \in VaultToken, NEW value, NEW a, NEW b,
           a \in Nat, b \in Nat, a <= b, Unpaid(h, evs, token, a, b),
           ReserveRight(value, h[a], token)
    PROVE  ReserveRight(value, h[b], token)
<1> DEFINE S == {i \in a..b : ReserveRight(value, h[i], token)}
<1>1. a \in S
  OBVIOUS
<1>2. ASSUME NEW i \in a..b, i < b, i \in S PROVE i + 1 \in S
  <2>1. i + 1 \in a + 1..b /\ (i + 1) - 1 = i /\ i + 1 \in a..b
    BY <1>2
  <2>2. ReserveStep(h[(i + 1) - 1], h[i + 1], evs[i + 1]) /\ ~Pays(evs[i + 1], token)
    BY <2>1 DEF Unpaid
  <2>3. ReserveStep(h[i], h[i + 1], evs[i + 1])
    BY <2>1, <2>2
  <2>4. \/ token \in h[i + 1].wrapped
        \/ h[i + 1].reserve[token] = h[i].reserve[token] /\ token \notin h[i].wrapped
    BY <2>2, <2>3 DEF ReserveStep
  <2>5. ReserveRight(value, h[i], token)
    BY <1>2
  <2>6. ReserveRight(value, h[i + 1], token)
    BY <2>4, <2>5 DEF ReserveRight
  <2> QED  BY <2>1, <2>6
<1>3. \A i \in a..b : i \in S
  <2> HIDE DEF S
  <2> QED  BY <1>1, <1>2, FromTo
<1>4. b \in a..b
  OBVIOUS
<1> QED  BY <1>3, <1>4

LEMMA BalancerReservesTold ==
    ASSUME BalancerInv, NEW h, NEW e, BalancerAt(h, e), NEW t \in 1..block.tx,
           NEW token \in VaultToken, NEW value, ReserveRight(value, h[e[t - 1]], token),
           token \notin stores.tokens => value = NoValue
    PROVE  LET said == Balancer!VaultReserves(t)
               known == IF token \in DOMAIN said THEN said[token] ELSE value
           IN  /\ ReserveRight(known, h[e[t]], token)
               /\ token \notin stores.tokens => known = NoValue
<1>1. PICK n, lo, hi : n \in Nat /\ BalancerSpan(h, e, block.events, t, n, lo, hi)
  BY BalancerSpans
<1>2. PICK evs : evs = block.events
  OBVIOUS
<1>3. /\ BalancerSteps(h, evs) /\ n = Len(evs)
      /\ DOMAIN evs = 1..n /\ lo \in 0..n /\ hi \in 0..n /\ lo <= hi
      /\ lo = e[t - 1] /\ hi = e[t]
      /\ \A i \in 1..n : evs[i].tx = t <=> lo < i /\ i <= hi
  BY <1>1, <1>2 DEF BalancerSpan
<1>4. PICK S : S = Balancer!Payments(t, token)
  OBVIOUS
<1>5. \A i : i \in S <=> i \in 1..n /\ lo < i /\ i <= hi /\ Pays(evs[i], token)
  BY <1>2, <1>3, <1>4 DEF Balancer!Payments, Balancer!EventsOf, Pays
<1>6. PICK said : said = Balancer!VaultReserves(t)
  OBVIOUS
<1>7. /\ token \in DOMAIN said <=> token \in stores.tokens /\ S # {}
      /\ token \in DOMAIN said => said[token] = evs[Balancer!Max(S)].value
  BY <1>2, <1>4, <1>6 DEF Balancer!VaultReserves
<1>8. ASSUME NEW i \in 1..n PROVE ReserveStep(h[i - 1], h[i], evs[i])
  BY <1>3 DEF BalancerSteps, BalancerStep
<1>9. ASSUME S = {} PROVE ReserveRight(value, h[hi], token)
  <2>1. ASSUME NEW i \in lo + 1..hi
        PROVE  ReserveStep(h[i - 1], h[i], evs[i]) /\ ~Pays(evs[i], token)
    <3>1. i \in 1..n /\ lo < i /\ i <= hi
      BY <1>3
    <3> QED  BY <1>5, <1>8, <1>9, <3>1
  <2>2. Unpaid(h, evs, token, lo, hi)
    BY <2>1 DEF Unpaid
  <2>3. lo \in Nat /\ hi \in Nat /\ lo <= hi
    BY <1>3
  <2> QED  BY <1>3, <2>2, <2>3, BalancerReserveBetween
<1>10. ASSUME S # {} PROVE ReserveRight(evs[Balancer!Max(S)].value, h[hi], token)
  <2>1. S \subseteq 1..n
    BY <1>5
  <2>2. PICK m \in S : m = Balancer!Max(S) /\ \A i \in S : i <= m
    <3>1. \E m \in S : \A i \in S : i <= m
      BY <1>1, <1>10, <2>1, LastIndex
    <3> QED  BY <2>1, <3>1 DEF Balancer!Max
  <2>3. m \in 1..n /\ m <= hi /\ lo < m /\ Pays(evs[m], token)
    BY <1>5
  <2>4. PICK a, last : a = m /\ last = evs[m].value
    OBVIOUS
  <2>5. ReserveRight(last, h[a], token)
    BY <1>8, <2>3, <2>4 DEF ReserveStep, ReserveRight
  <2>6. ASSUME NEW i \in a + 1..hi
        PROVE  ReserveStep(h[i - 1], h[i], evs[i]) /\ ~Pays(evs[i], token)
    <3>1. i \in 1..n /\ lo < i /\ i <= hi /\ ~(i <= m)
      BY <1>3, <2>3, <2>4
    <3>2. i \notin S
      BY <2>2, <3>1
    <3> QED  BY <1>5, <1>8, <3>1, <3>2
  <2>7. Unpaid(h, evs, token, a, hi)
    BY <2>6 DEF Unpaid
  <2>8. a \in Nat /\ hi \in Nat /\ a <= hi
    BY <1>3, <2>3, <2>4
  <2>9. ReserveRight(last, h[hi], token)
    BY <2>5, <2>7, <2>8, BalancerReserveBetween
  <2> QED  BY <2>2, <2>4, <2>9
<1>11. ASSUME S # {}, token \notin stores.tokens PROVE ReserveRight(value, h[hi], token)
  BY <1>11 DEF ReserveRight
<1> QED  BY <1>3, <1>6, <1>7, <1>9, <1>10, <1>11

LEMMA BalancerUpdates ==
    ASSUME NEW K, NEW X, NEW was, NEW now, NEW changed,
           was \in [K -> X], now \in [K -> X], Leads(K, was, changed, now)
    PROVE  Balancer!Updated(was, changed) = now
<1>1. Balancer!Updated(was, changed)
         = [k \in K |-> IF k \in DOMAIN changed THEN changed[k] ELSE was[k]]
  BY DEF Balancer!Updated
<1>2. \A k \in K : (IF k \in DOMAIN changed THEN changed[k] ELSE was[k]) = now[k]
  BY DEF Leads
<1>3. now = [k \in K |-> now[k]]
  OBVIOUS
<1> QED  BY <1>1, <1>2, <1>3

LEMMA BalancerTold ==
    ASSUME BalancerInv, NEW h, NEW e, BalancerAt(h, e), phase \in {"map", "apply"},
           NEW t \in 1..block.tx, NEW known, BalancerKnown(known, h[e[t - 1]])
    PROVE  BalancerKnown(Balancer!ApplyTx(known, Balancer!TxChanges(t)), h[e[t]])
<1>1. PICK n, lo, hi : n \in Nat /\ BalancerSpan(h, e, block.events, t, n, lo, hi)
  BY BalancerSpans
<1>2. lo = e[t - 1] /\ hi = e[t] /\ h[lo] \in BalancerState /\ h[hi] \in BalancerState
  BY <1>1 DEF BalancerSpan
<1>3. PICK was \in BalancerState : was = h[e[t - 1]]
  BY <1>2
<1>4. PICK now \in BalancerState : now = h[e[t]]
  BY <1>2
<1>5. /\ was.balance \in [BalancerKey -> Nat] /\ now.balance \in [BalancerKey -> Nat]
      /\ was.word \in [BalancerPool -> Int] /\ now.word \in [BalancerPool -> Int]
      /\ now.paused \subseteq BalancerPool
  BY DEF BalancerState
<1>6. PICK paused, balances, words, paid :
          /\ paused = Balancer!PauseStates(t) /\ balances = Balancer!Balances(t)
          /\ words = Balancer!ChangedContracts(t) /\ paid = Balancer!VaultReserves(t)
  OBVIOUS
<1>7. PICK then : then = Balancer!ApplyTx(known, Balancer!TxChanges(t))
  OBVIOUS
<1>8. then = [pools |-> known.pools \cup Balancer!NewPools(t),
              paused |-> (known.paused \ DOMAIN paused) \cup {p \in DOMAIN paused : paused[p]},
              balance |-> Balancer!Updated(known.balance, balances),
              word |-> Balancer!Updated(known.word, words),
              reserve |-> Balancer!Updated(known.reserve, paid)]
  BY <1>6, <1>7 DEF Balancer!ApplyTx, Balancer!TxChanges
<1>9. then.pools = now.pools
  BY <1>3, <1>4, <1>8, BalancerPoolsTold DEF BalancerKnown
<1>10. then.paused = now.paused
  <2>1. known.paused = was.paused
    BY <1>3 DEF BalancerKnown
  <2>2. ASSUME NEW p PROVE p \in then.paused <=> p \in now.paused
    <3>1. /\ p \in DOMAIN paused => (p \in now.paused <=> paused[p])
          /\ p \notin DOMAIN paused => (p \in now.paused <=> p \in was.paused)
      BY <1>3, <1>4, <1>6, BalancerPausedTold
    <3>2. p \in then.paused <=> \/ p \in known.paused /\ p \notin DOMAIN paused
                                \/ p \in DOMAIN paused /\ paused[p]
      BY <1>8
    <3> QED  BY <2>1, <3>1, <3>2
  <2> QED  BY <2>2
<1>11. then.balance = now.balance
  <2>1. PICK nats, b, c : nats = Nat /\ b = was.balance /\ c = now.balance
    OBVIOUS
  <2>2. b \in [BalancerKey -> nats] /\ c \in [BalancerKey -> nats]
    BY <1>5, <2>1
  <2>3. Leads(BalancerKey, b, balances, c)
    BY <1>3, <1>4, <1>6, <2>1, BalancerBalancesTold DEF Leads
  <2>4. Balancer!Updated(b, balances) = c
    BY <2>2, <2>3, BalancerUpdates
  <2>5. known.balance = b
    BY <1>3, <2>1 DEF BalancerKnown
  <2> QED  BY <1>8, <2>1, <2>4, <2>5
<1>12. then.word = now.word
  <2>1. PICK ints, b, c : ints = Int /\ b = was.word /\ c = now.word
    OBVIOUS
  <2>2. b \in [BalancerPool -> ints] /\ c \in [BalancerPool -> ints]
    BY <1>5, <2>1
  <2>3. Leads(BalancerPool, b, words, c)
    BY <1>3, <1>4, <1>6, <2>1, BalancerWordsTold DEF Leads
  <2>4. Balancer!Updated(b, words) = c
    BY <2>2, <2>3, BalancerUpdates
  <2>5. known.word = b
    BY <1>3, <2>1 DEF BalancerKnown
  <2> QED  BY <1>8, <2>1, <2>4, <2>5
<1>13. PICK r, rThen : r = known.reserve /\ rThen = then.reserve
  OBVIOUS
<1>14. DOMAIN r = VaultToken
  BY <1>13 DEF BalancerKnown
<1>15. rThen = [token \in VaultToken |-> IF token \in DOMAIN paid THEN paid[token]
                                 ELSE r[token]]
  BY <1>8, <1>13, <1>14 DEF Balancer!Updated
<1>16. DOMAIN rThen = VaultToken
  BY <1>15
<1>17. ASSUME NEW token \in VaultToken
       PROVE  /\ ReserveRight(rThen[token], now, token)
              /\ token \notin stores.tokens => rThen[token] = NoValue
  <2>1. PICK value : value = r[token]
    OBVIOUS
  <2>2. /\ ReserveRight(value, h[e[t - 1]], token)
        /\ token \notin stores.tokens => value = NoValue
    BY <1>13, <2>1 DEF BalancerKnown
  <2>3. PICK new : new = IF token \in DOMAIN paid THEN paid[token] ELSE value
    OBVIOUS
  <2>4. ReserveRight(new, h[e[t]], token) /\ (token \notin stores.tokens => new = NoValue)
    BY <1>6, <2>2, <2>3, BalancerReservesTold
  <2>5. rThen[token] = new
    BY <1>15, <2>1, <2>3
  <2> QED  BY <1>4, <2>4, <2>5
<1> QED  BY <1>4, <1>7, <1>9, <1>10, <1>11, <1>12, <1>13, <1>16, <1>17 DEF BalancerKnown

(* What a message says depends on the block, the stores and their deltas.  *)
LEMMA BalancerSameChanges ==
    ASSUME UNCHANGED <<block, stores, deltas>>
    PROVE  \A t : Balancer!TxChanges(t)' = Balancer!TxChanges(t)
<1>1. \A t, kinds : Balancer!EventsOf(t, kinds)' = Balancer!EventsOf(t, kinds)
  BY DEF Balancer!EventsOf
<1>2. \A t : Balancer!NewPools(t)' = Balancer!NewPools(t)
  BY <1>1 DEF Balancer!NewPools
<1>3. \A t : Balancer!PauseStates(t)' = Balancer!PauseStates(t)
  BY <1>1 DEF Balancer!PauseStates
<1>4. \A t : Balancer!Balances(t)' = Balancer!Balances(t)
  BY DEF Balancer!Balances
<1>5. \A t, token : Balancer!Payments(t, token)' = Balancer!Payments(t, token)
  BY <1>1 DEF Balancer!Payments
<1>6. \A t : Balancer!VaultReserves(t)' = Balancer!VaultReserves(t)
  BY <1>5 DEF Balancer!VaultReserves
<1>7. \A t : Balancer!ChangedContracts(t)' = Balancer!ChangedContracts(t)
  BY <1>1 DEF Balancer!ChangedContracts
<1> QED  BY <1>2, <1>3, <1>4, <1>6, <1>7 DEF Balancer!TxChanges

LEMMA BalancerMapChangesKeeps ==
    ASSUME BalancerInv, Balancer!MapProtocolChanges PROVE BalancerInv'
<1>1. /\ phase = "map" /\ phase' = "apply" /\ UNCHANGED <<chain, block, stores, deltas, indexer>>
      /\ message' = [t \in 1..block.tx |-> Balancer!TxChanges(t)]
  BY DEF Balancer!MapProtocolChanges
<1>2. PICK h, e : BalancerAt(h, e)
  BY DEF BalancerInv
<1>3. BalancerTypes'
  BY <1>1 DEF BalancerInv, BalancerTypes
<1>4. BalancerTrades' = BalancerTrades
  BY <1>1 DEF BalancerTrades
<1>5. BalancerAt(h, e)'
  BY <1>1, <1>2, <1>4 DEF BalancerAt, BalancerKnown, ReserveRight
<1>6. BalancerMessage'
  BY <1>1, BalancerSameChanges DEF BalancerMessage
<1> QED  BY <1>1, <1>3, <1>5, <1>6 DEF BalancerInv, BalancerDeltas

(* The consumer follows the history from transaction to transaction.       *)
BalancerFollows(f, n) ==
    f[0] = indexer /\ \A i \in 1..n : f[i] = Balancer!ApplyTx(f[i - 1], message[i])
BalancerKnownEq(f, n) ==
    f = [i \in 0..n |-> IF i = 0 THEN indexer ELSE Balancer!ApplyTx(f[i - 1], message[i])]
BalancerFollowed(n) == CHOOSE f : BalancerKnownEq(f, n)

LEMMA BalancerFollowing == ASSUME NEW n \in Nat PROVE BalancerFollows(BalancerFollowed(n), n)
<1> DEFINE S == {m \in 0..n : \E f : BalancerFollows(f, m)}
<1>1. 0 \in S
  <2>1. PICK f : f = [i \in 0..0 |-> indexer]
    OBVIOUS
  <2>2. BalancerFollows(f, 0)
    BY <2>1 DEF BalancerFollows
  <2> QED  BY <2>2
<1>2. ASSUME NEW m \in 0..n, m < n, m \in S PROVE m + 1 \in S
  <2>1. PICK f : BalancerFollows(f, m)
    BY <1>2
  <2>2. PICK g : g = [i \in 0..m + 1 |-> IF i <= m THEN f[i]
                                         ELSE Balancer!ApplyTx(f[m], message[m + 1])]
    OBVIOUS
  <2>3. \A i \in 0..m : g[i] = f[i]
    BY <2>2
  <2>4. g[m + 1] = Balancer!ApplyTx(f[m], message[m + 1])
    BY <2>2
  <2>5. ASSUME NEW i \in 1..m + 1 PROVE g[i] = Balancer!ApplyTx(g[i - 1], message[i])
    <3>1. CASE i = m + 1
      <4>1. i - 1 = m /\ m \in 0..m
        BY <3>1
      <4> QED  BY <2>3, <2>4, <3>1, <4>1
    <3>2. CASE i # m + 1
      <4>1. i \in 0..m /\ i - 1 \in 0..m /\ i \in 1..m
        BY <3>2
      <4>2. f[i] = Balancer!ApplyTx(f[i - 1], message[i])
        BY <2>1, <4>1 DEF BalancerFollows
      <4> QED  BY <2>3, <4>1, <4>2
    <3> QED  BY <3>1, <3>2
  <2>6. g[0] = indexer
    BY <2>1, <2>3 DEF BalancerFollows
  <2>7. BalancerFollows(g, m + 1)
    BY <2>5, <2>6 DEF BalancerFollows
  <2>8. m + 1 \in 0..n
    BY <1>2
  <2> QED  BY <2>7, <2>8
<1>3. \A m \in 0..n : m \in S
  <2> HIDE DEF S
  <2>1. 0 \in Nat
    OBVIOUS
  <2> QED  BY <1>1, <1>2, <2>1, FromTo
<1>4. PICK f : BalancerFollows(f, n)
  <2>1. n \in 0..n
    OBVIOUS
  <2> QED  BY <1>3, <2>1
<1>5. PICK g : g = [i \in 0..n |-> f[i]]
  OBVIOUS
<1>6. BalancerKnownEq(g, n)
  <2>1. ASSUME NEW i \in 0..n
        PROVE  g[i] = IF i = 0 THEN indexer ELSE Balancer!ApplyTx(g[i - 1], message[i])
    <3>1. CASE i = 0
      BY <1>4, <1>5, <3>1 DEF BalancerFollows
    <3>2. CASE i # 0
      <4>1. i \in 1..n /\ i - 1 \in 0..n
        BY <3>2
      <4> QED  BY <1>4, <1>5, <3>2, <4>1 DEF BalancerFollows
    <3> QED  BY <3>1, <3>2
  <2>2. g = [i \in 0..n |-> g[i]]
    BY <1>5
  <2> QED  BY <2>1, <2>2 DEF BalancerKnownEq
<1>7. PICK c : c = BalancerFollowed(n)
  OBVIOUS
<1>8. BalancerKnownEq(c, n)
  BY <1>6, <1>7 DEF BalancerFollowed
<1>9. c[0] = indexer
  BY <1>8 DEF BalancerKnownEq
<1>10. ASSUME NEW i \in 1..n PROVE c[i] = Balancer!ApplyTx(c[i - 1], message[i])
  <2>1. i \in 0..n /\ i # 0
    OBVIOUS
  <2> QED  BY <1>8, <2>1 DEF BalancerKnownEq
<1> QED  BY <1>7, <1>9, <1>10 DEF BalancerFollows

LEMMA BalancerKnows ==
    ASSUME BalancerInv, NEW h, NEW e, BalancerAt(h, e), phase = "apply"
    PROVE  BalancerKnown(Balancer!KnownAfter(Len(message)), chain)
<1>1. MaxTxs \in Nat \ {0}
  BY BalancerConstants
<1>2. PICK t0 \in 1..MaxTxs : t0 = block.tx
  BY BalancerParts
<1>3. PICK n \in Nat : n = t0
  BY <1>1, <1>2
<1>4. message = [t \in 1..n |-> Balancer!TxChanges(t)]
  BY <1>2, <1>3 DEF BalancerInv, BalancerMessage
<1>5. Len(message) = n
  BY <1>3, <1>4
<1>6. e[0] = 0 /\ BalancerKnown(indexer, h[0]) /\ h[e[n]] = chain
  <2>1. PICK evs : evs = block.events
    OBVIOUS
  <2>2. PICK last : last = n
    OBVIOUS
  <2>3. evs \in Seq(BalancerEvent) /\ Ends(e, evs, last) /\ h[Len(evs)] = chain
        /\ last \in 1..MaxTxs
    BY <1>2, <1>3, <2>1, <2>2, BalancerParts DEF BalancerAt, Chronicle
  <2>4. e[last] = Len(evs) /\ e[0] = 0
    BY <1>1, <2>3, EndsFacts
  <2>5. BalancerKnown(indexer, h[0])
    BY DEF BalancerAt
  <2> QED  BY <2>2, <2>3, <2>4, <2>5
<1>7. PICK c : c = BalancerFollowed(n)
  OBVIOUS
<1>8. BalancerFollows(c, n)
  BY <1>7, BalancerFollowing
<1>9. Balancer!KnownAfter(n) = c[n]
  BY <1>5, <1>7 DEF Balancer!KnownAfter, BalancerFollowed, BalancerKnownEq
<1> DEFINE S == {t \in 0..n : BalancerKnown(c[t], h[e[t]])}
<1>10. 0 \in S
  BY <1>6, <1>8 DEF BalancerFollows
<1>11. ASSUME NEW t \in 0..n, t < n, t \in S PROVE t + 1 \in S
  <2>1. PICK u : u = t + 1
    OBVIOUS
  <2>2. u \in 1..n /\ u \in 1..block.tx /\ u - 1 = t /\ u \in 0..n
    BY <1>2, <1>3, <1>11, <2>1
  <2>3. BalancerKnown(c[u - 1], h[e[u - 1]])
    BY <1>11, <2>2
  <2>4. PICK known : known = c[u - 1]
    OBVIOUS
  <2>5. BalancerKnown(Balancer!ApplyTx(known, Balancer!TxChanges(u)), h[e[u]])
    BY <2>2, <2>3, <2>4, BalancerTold
  <2>6. c[u] = Balancer!ApplyTx(known, Balancer!TxChanges(u))
    BY <1>4, <1>8, <2>2, <2>4 DEF BalancerFollows
  <2> QED  BY <2>1, <2>2, <2>5, <2>6
<1>12. \A t \in 0..n : t \in S
  <2> HIDE DEF S
  <2>1. 0 \in Nat
    OBVIOUS
  <2> QED  BY <1>10, <1>11, <2>1, FromTo
<1>13. n \in S
  <2>1. n \in 0..n
    OBVIOUS
  <2> QED  BY <1>12, <2>1
<1> QED  BY <1>5, <1>6, <1>9, <1>13

LEMMA BalancerApplyKeeps == ASSUME BalancerInv, Balancer!Apply PROVE BalancerInv'
<1>1. /\ phase = "apply" /\ phase' = "mine" /\ UNCHANGED <<chain, stores>>
      /\ indexer' = Balancer!KnownAfter(Len(message)) /\ block' = Balancer!NewBlock(chain)
  BY DEF Balancer!Apply
<1>2. PICK h, e : BalancerAt(h, e)
  BY DEF BalancerInv
<1>3. BalancerKnown(indexer', chain)
  BY <1>1, <1>2, BalancerKnows
<1>4. chain \in BalancerState
  BY DEF BalancerInv, BalancerTypes
<1>5. PICK b : b = block'
  OBVIOUS
<1>6. /\ b \in [tx : 1..MaxTxs, events : Seq(BalancerEvent), begin : BalancerState,
                txEnd : [1..MaxTxs -> BalancerState]]
      /\ b.begin = chain
  BY <1>1, <1>4, <1>5, BalancerNewBlock
<1>7. PICK h2, e2 : /\ Chronicle(h2, e2, b.events, b.tx, b.txEnd, chain, BalancerState)
                    /\ BalancerSteps(h2, b.events) /\ h2[0] = chain
  BY <1>1, <1>4, <1>5, BalancerNewBlock
<1>8. BalancerTypes'
  BY <1>1, <1>4, <1>5, <1>6 DEF BalancerInv, BalancerTypes
<1>9. stores.pools = chain.pools /\ stores.balance = chain.balance
  BY <1>1, <1>2 DEF BalancerAt
<1>10. BalancerAt(h2, e2)'
  <2>1. /\ Chronicle(h2, e2, block'.events, block'.tx, block'.txEnd, chain', BalancerState)
        /\ BalancerSteps(h2, block'.events) /\ h2[0] = block'.begin
    BY <1>1, <1>5, <1>6, <1>7
  <2>2. BalancerKnown(indexer, block.begin)'
    BY <1>1, <1>3, <1>5, <1>6 DEF BalancerKnown, ReserveRight
  <2>3. stores'.pools = block'.begin.pools /\ stores'.balance = block'.begin.balance
    BY <1>1, <1>5, <1>6, <1>9
  <2> QED  BY <1>1, <2>1, <2>2, <2>3 DEF BalancerAt
<1> QED  BY <1>1, <1>8, <1>10 DEF BalancerInv, BalancerDeltas, BalancerMessage

LEMMA BalancerNextInv == BalancerInv /\ [Balancer!Next]_Balancer!vars => BalancerInv'
<1> SUFFICES ASSUME BalancerInv, [Balancer!Next]_Balancer!vars PROVE BalancerInv'
  OBVIOUS
<1>1. ASSUME NEW p \in BalancerPool, Balancer!CreatePool(p) PROVE BalancerInv'
  BY <1>1, BalancerCreateKeeps
<1>2. ASSUME NEW p \in BalancerPool, Balancer!Trade(p) PROVE BalancerInv'
  <2>1. PICK kind \in TradeKinds, amounts \in Int \X Int : Balancer!Move(p, kind, amounts)
    <3>1. /\ "Swap" \in TradeKinds /\ "LiquidityAdded" \in TradeKinds
          /\ "LiquidityRemoved" \in TradeKinds
      BY DEF TradeKinds
    <3>2. /\ <<1, -1>> \in Int \X Int /\ <<-1, 1>> \in Int \X Int
          /\ <<1, 1>> \in Int \X Int /\ <<-1, -1>> \in Int \X Int
      OBVIOUS
    <3> QED  BY <1>2, <3>1, <3>2, Zenon DEF Balancer!Trade
  <2> QED  BY <2>1, BalancerMoveKeeps
<1>3. ASSUME NEW p \in BalancerPool, Balancer!WritePool(p) PROVE BalancerInv'
  BY <1>3, BalancerWriteKeeps
<1>4. ASSUME NEW p \in BalancerPool, NEW paused \in BOOLEAN, Balancer!SetPaused(p, paused)
      PROVE  BalancerInv'
  BY <1>4, BalancerPauseKeeps
<1>5. ASSUME NEW token \in VaultToken, Balancer!Settle(token) \/ Balancer!SendTo(token)
      PROVE  BalancerInv'
  <2>1. CASE Balancer!Settle(token)
    <3>1. PICK value : Balancer!Pay("Settle", token, value)
      BY <2>1, Zenon DEF Balancer!Settle
    <3> QED  BY <3>1, BalancerPayKeeps
  <2>2. CASE Balancer!SendTo(token)
    <3>1. PICK value : Balancer!Pay("SendTo", token, value)
      BY <2>2, Zenon DEF Balancer!SendTo
    <3> QED  BY <3>1, BalancerPayKeeps
  <2> QED  BY <1>5, <2>1, <2>2
<1>6. ASSUME NEW wrapped \in VaultToken, NEW underlying \in VaultToken,
             Balancer!Wrap(wrapped, underlying)
      PROVE  BalancerInv'
  BY <1>6, BalancerWrapKeeps
<1>7. CASE Balancer!NextTx
  BY <1>7, BalancerNextTxKeeps
<1>8. CASE Balancer!MapRelativeBalances
  BY <1>8, BalancerMapKeeps
<1>9. CASE Balancer!StoreBalances
  BY <1>9, BalancerStoreKeeps
<1>10. CASE Balancer!MapProtocolChanges
  BY <1>10, BalancerMapChangesKeeps
<1>11. CASE Balancer!Apply
  BY <1>11, BalancerApplyKeeps
<1>12. CASE UNCHANGED Balancer!vars
  <2>1. UNCHANGED <<chain, block, phase, stores, deltas, message, indexer>>
    BY <1>12 DEF Balancer!vars
  <2>2. PICK h, e : BalancerAt(h, e)
    BY DEF BalancerInv
  <2>3. BalancerTrades' = BalancerTrades
    BY <2>1 DEF BalancerTrades
  <2>4. BalancerTypes' /\ BalancerDeltas'
    BY <2>1, <2>3 DEF BalancerInv, BalancerTypes, BalancerDeltas
  <2>5. BalancerAt(h, e)'
    BY <2>1, <2>2, <2>3 DEF BalancerAt, BalancerKnown, ReserveRight
  <2>6. BalancerMessage'
    <3>1. \A t : Balancer!TxChanges(t)' = Balancer!TxChanges(t)
      BY <2>1, BalancerSameChanges
    <3> QED  BY <2>1, <3>1 DEF BalancerInv, BalancerMessage
  <2> QED  BY <2>4, <2>5, <2>6 DEF BalancerInv
<1> QED
  BY <1>1, <1>2, <1>3, <1>4, <1>5, <1>6, <1>7, <1>8, <1>9, <1>10, <1>11, <1>12
     DEF Balancer!Next

(* The pools the consumer has heard of by the end of a transaction.        *)
LEMMA BalancerHeard ==
    ASSUME BalancerInv, NEW h, NEW e, BalancerAt(h, e), phase = "apply", NEW t \in 1..block.tx
    PROVE  indexer.pools \cup UNION {message[i].components : i \in 1..t} = h[e[t]].pools
<1>1. PICK last \in Nat : last = block.tx
  BY BalancerConstants, BalancerParts
<1>2. PICK f : f = [i \in 0..last |-> h[e[i]].pools]
  OBVIOUS
<1>3. PICK new : new = [i \in 1..last |-> message[i].components]
  OBVIOUS
<1>4. PICK a, b : a = 0 /\ b = t
  OBVIOUS
<1>5. a \in Nat /\ b \in Nat /\ a <= b /\ b <= last
  BY <1>1, <1>4
<1>6. Adds(f, new, a, b)
  <2>1. ASSUME NEW i \in a + 1..b PROVE f[i] = f[i - 1] \cup new[i]
    <3>1. i \in 1..last /\ i \in 0..last /\ i - 1 \in 0..last /\ i \in 1..block.tx
      BY <1>1, <1>4, <1>5
    <3>2. h[e[i]].pools = h[e[i - 1]].pools \cup Balancer!NewPools(i)
      BY <3>1, BalancerPoolsTold
    <3>3. message[i].components = Balancer!NewPools(i)
      BY <3>1 DEF BalancerInv, BalancerMessage, Balancer!TxChanges
    <3> QED  BY <1>2, <1>3, <3>1, <3>2, <3>3
  <2> QED  BY <2>1 DEF Adds
<1>7. f[b] = f[a] \cup Gathered(new, a + 1..b)
  BY <1>5, <1>6, Accumulated
<1>8. f[a] = indexer.pools
  <2>1. f[a] = h[e[0]].pools
    BY <1>1, <1>2, <1>4
  <2>2. e[0] = 0 /\ h[0] = block.begin
    BY BalancerEnds
  <2>3. indexer.pools = block.begin.pools
    BY DEF BalancerAt, BalancerKnown
  <2> QED  BY <2>1, <2>2, <2>3
<1>9. f[b] = h[e[t]].pools
  BY <1>2, <1>4, <1>5
<1>10. Gathered(new, a + 1..b) = UNION {message[i].components : i \in 1..t}
  <2>1. \A i \in 1..t : new[i] = message[i].components
    BY <1>1, <1>3, <1>4, <1>5
  <2>2. a + 1..b = 1..t
    BY <1>4
  <2>3. ASSUME NEW x PROVE x \in Gathered(new, 1..t)
                             <=> x \in UNION {message[i].components : i \in 1..t}
    <3>1. x \in Gathered(new, 1..t) <=> \E i \in 1..t : x \in new[i]
      BY GatheredIs
    <3> QED  BY <2>1, <3>1
  <2> QED  BY <2>2, <2>3
<1> QED  BY <1>7, <1>8, <1>9, <1>10

BalancerMarks(t, before, told) ==
    /\ \A p \in BalancerPool :
          before.word[p] # block.txEnd[t].word[p] => p \in message[t].updated
    /\ message[t].updated \cup DOMAIN message[t].paused \subseteq told
    /\ \A k \in DOMAIN message[t].balances : k[1] \in told

LEMMA BalancerInvMirrors ==
    BalancerInv => /\ Balancer!PoolsMirrored /\ Balancer!ReservesMatchVault
                   /\ Balancer!MarkedWhenChanged
<1> SUFFICES ASSUME BalancerInv
             PROVE  /\ Balancer!PoolsMirrored /\ Balancer!ReservesMatchVault
                    /\ Balancer!MarkedWhenChanged
  OBVIOUS
<1>1. PICK h, e : BalancerAt(h, e)
  BY DEF BalancerInv
<1>2. ASSUME Balancer!Between PROVE BalancerKnown(indexer, chain)
  <2>1. h[Len(block.events)] = chain /\ h[0] = block.begin /\ Len(block.events) = 0
    BY <1>1, <1>2 DEF Balancer!Between, BalancerAt, Chronicle
  <2> QED  BY <1>1, <2>1 DEF BalancerAt
<1>3. Balancer!PoolsMirrored
  BY <1>2 DEF Balancer!PoolsMirrored, BalancerKnown
<1>4. Balancer!ReservesMatchVault
  BY <1>2 DEF Balancer!ReservesMatchVault, BalancerKnown, ReserveRight
<1>5. ASSUME phase = "apply", NEW t \in DOMAIN message,
             NEW before, before = IF t = 1 THEN block.begin ELSE block.txEnd[t - 1],
             NEW told, told = indexer.pools \cup UNION {message[i].components : i \in 1..t}
      PROVE  BalancerMarks(t, before, told)
  <2>1. t \in 1..block.tx /\ message[t] = Balancer!TxChanges(t)
    BY <1>5 DEF BalancerInv, BalancerMessage
  <2>2. PICK paused, balances, words :
            /\ paused = Balancer!PauseStates(t) /\ balances = Balancer!Balances(t)
            /\ words = Balancer!ChangedContracts(t)
    OBVIOUS
  <2>3. /\ message[t].updated = DOMAIN words /\ message[t].paused = paused
        /\ message[t].balances = balances
    BY <2>1, <2>2 DEF Balancer!TxChanges
  <2>4. told = h[e[t]].pools
    BY <1>1, <1>5, <2>1, BalancerHeard
  <2>5. before = h[e[t - 1]] /\ block.txEnd[t] = h[e[t]]
    BY <1>1, <1>5, <2>1, BalancerEnds
  <2>6. ASSUME NEW p \in BalancerPool, before.word[p] # block.txEnd[t].word[p]
        PROVE  p \in DOMAIN words
    BY <1>1, <1>5, <2>1, <2>2, <2>5, <2>6, BalancerWordsTold
  <2>7. ASSUME NEW p \in DOMAIN words PROVE p \in told
    <3>1. stores.pools \subseteq BalancerPool
      BY <1>1, <1>5, BalancerParts DEF BalancerAt
    <3>2. p \in BalancerPool
      BY <2>2, <3>1 DEF Balancer!ChangedContracts
    <3> QED  BY <1>1, <1>5, <2>1, <2>2, <2>4, <3>2, BalancerWordsTold
  <2>8. ASSUME NEW p \in DOMAIN paused PROVE p \in told
    BY <1>1, <1>5, <2>1, <2>2, <2>4, BalancerPausedTold
  <2>9. ASSUME NEW k \in DOMAIN balances PROVE k[1] \in told
    <3>1. k \in BalancerKey
      BY <2>2, BalancerConstants DEF Balancer!Balances
    <3> QED  BY <1>1, <1>5, <2>1, <2>2, <2>4, <3>1, BalancerBalancesTold
  <2> QED  BY <2>3, <2>6, <2>7, <2>8, <2>9 DEF BalancerMarks
<1>6. Balancer!MarkedWhenChanged
  <2> SUFFICES ASSUME phase = "apply", NEW t \in DOMAIN message
               PROVE  LET before == IF t = 1 THEN block.begin ELSE block.txEnd[t - 1]
                          told == indexer.pools \cup UNION {message[i].components : i \in 1..t}
                      IN  /\ \A p \in BalancerPool : before.word[p] # block.txEnd[t].word[p]
                                                        => p \in message[t].updated
                          /\ message[t].updated \cup DOMAIN message[t].paused \subseteq told
                          /\ \A k \in DOMAIN message[t].balances : k[1] \in told
    BY Zenon DEF Balancer!MarkedWhenChanged
  <2>1. PICK before : before = IF t = 1 THEN block.begin ELSE block.txEnd[t - 1]
    OBVIOUS
  <2>2. PICK told : told = indexer.pools \cup UNION {message[i].components : i \in 1..t}
    OBVIOUS
  <2>3. BalancerMarks(t, before, told)
    BY <1>5, <2>1, <2>2, Zenon
  <2> QED  BY <2>1, <2>2, <2>3, Zenon DEF BalancerMarks
<1> QED  BY <1>3, <1>4, <1>6

BalancerRunning == integration = "balancer-v3" => BalancerInv

LEMMA BalancerRuns == IntegrationSpec => []BalancerRunning
<1>1. IntegrationInit => BalancerRunning
  BY BalancerInit DEF IntegrationInit, BalancerRunning
<1>2. BalancerRunning /\ [IntegrationNext]_<<integration, vars, pipelineVars>>
         => BalancerRunning'
  <2> SUFFICES ASSUME BalancerRunning, [IntegrationNext]_<<integration, vars, pipelineVars>>
               PROVE  BalancerRunning'
    OBVIOUS
  <2>1. CASE integration = "balancer-v3"
    <3>1. integration' = integration /\ [Balancer!Next]_Balancer!vars
      BY <2>1 DEF IntegrationNext, Balancer!vars, vars, pipelineVars
    <3> QED  BY <2>1, <3>1, BalancerNextInv DEF BalancerRunning
  <2>2. CASE integration # "balancer-v3"
    <3>1. integration' = integration
      BY DEF IntegrationNext
    <3> QED  BY <2>2, <3>1 DEF BalancerRunning
  <2> QED  BY <2>1, <2>2
<1> QED  BY <1>1, <1>2, PTL DEF IntegrationSpec

(* The consumer of Balancer v3 has the pools, pause states, balances and   *)
(* contracts of the chain at the end of every block; what it has of the    *)
(* vault's reserves is right but for tokens that a wrap moved; and every   *)
(* transaction marks the pools whose contract it changed, and no unknown   *)
(* one: for any pools, tokens, amounts and interleaving of the events.     *)
THEOREM BalancerIsMirrored == IntegrationSpec => []BalancerMirrored
<1>1. BalancerRunning => BalancerMirrored
  BY BalancerInvMirrors DEF BalancerRunning, BalancerMirrored
<1> QED  BY <1>1, BalancerRuns, PTL

-----------------------------------------------------------------------------
(* Lido.  The history h has the slots after each write of the block, as    *)
(* the calls that have failed so far leave them: when a call fails, the    *)
(* history since it began is rewritten.                                    *)
LidoSlot == Lido!Pooled \cup Lido!Direct
LidoValue == Nat \cup Lido!LimitWord
LidoStates == [LidoSlot -> LidoValue]
LidoCall == [kind : {"impl", "wst", "delegate"}, tx : 1..MaxTxs, reverted : BOOLEAN]
LidoWrite == [call : Nat, tx : 1..MaxTxs, slot : LidoSlot, value : LidoValue]
LidoOpen == [call : Nat, before : LidoStates]
LidoBlock == [start : BOOLEAN, begin : LidoStates, tx : 1..MaxTxs, calls : Seq(LidoCall),
              open : Seq(LidoOpen), writes : Seq(LidoWrite), txEnd : [1..MaxTxs -> LidoStates]]

LidoTypes == chain \in LidoStates /\ block \in LidoBlock /\ phase \in {"mine", "map", "apply"}

LidoStep(was, now, w, calls) ==
    \A slot \in LidoSlot :
        now[slot] = IF ~calls[w.call].reverted /\ w.slot = slot THEN w.value ELSE was[slot]

LidoSteps(h, writes, calls) ==
    \A i \in 1..Len(writes) : LidoStep(h[i - 1], h[i], writes[i], calls)

(* The writes in the order of their calls, for no call writes late.        *)
LidoTrace(writes, calls) ==
    \A i \in 1..Len(writes) :
        /\ writes[i].call \in 1..Len(calls)
        /\ writes[i].slot \in Lido!Pooled => calls[writes[i].call].kind = "impl"
        /\ \A j \in 1..Len(writes) : i <= j => writes[i].call <= writes[j].call

(* The state before an open call, to which the chain may return: that      *)
(* after the writes of the calls before it.                                *)
LidoBefore(h, writes, last, o, n) ==
    /\ n \in 0..Len(writes) /\ o.before = h[n]
    /\ \A i \in 1..Len(writes) : /\ i <= n <=> writes[i].call < o.call
                                 /\ writes[i].tx # last => i <= n

LidoOpened(h, writes, calls, last, open) ==
    \A k \in 1..Len(open) :
        /\ open[k].call \in 1..Len(calls) /\ ~calls[open[k].call].reverted
        /\ \A l \in 1..Len(open) : k < l => open[k].call < open[l].call
        /\ \E n : LidoBefore(h, writes, last, open[k], n)

(* What the consumer knows when the chain is in the state: in the start    *)
(* block the totals, which are not reported, are unknown.                  *)
LidoTotals == {"stETH:pooled", "wstETH:pooled"}
LidoKnown(known, state, start) ==
    /\ DOMAIN known = Lido!Field
    /\ \A f \in Lido!Field : known[f] = NoValue \/ known[f] = Lido!OnChain(state, f)
    /\ start => \A f \in LidoTotals : known[f] = NoValue
    /\ known["stETH:pooled"] = known["wstETH:pooled"]
    /\ known["stETH:total_shares"] = known["wstETH:total_shares"]

LidoSets == {i \in 1..Len(block.writes) : /\ block.writes[i].slot \in Lido!Pooled
                                          /\ ~block.calls[block.writes[i].call].reverted}

LidoStored(h) ==
    /\ phase = "mine" =>
          \A slot \in Lido!Pooled : Lido!StartValue(slot) = block.begin[slot]
    /\ phase # "mine" =>
          /\ \A slot \in Lido!Pooled : stores[slot] = chain[slot]
          /\ deltas = [i \in LidoSets |->
                [tx |-> block.writes[i].tx, slot |-> block.writes[i].slot,
                 value |-> block.writes[i].value, old |-> h[i - 1][block.writes[i].slot]]]

(* What a transaction reports of the states before and after it.           *)
LidoReport(told, was, now, start) ==
    /\ \A f \in DOMAIN told : f \in Lido!Field /\ told[f] = Lido!OnChain(now, f)
    /\ \A f \in Lido!Field : \/ f \in DOMAIN told
                             \/ Lido!OnChain(was, f) = Lido!OnChain(now, f)
                             \/ start /\ f \in LidoTotals
    /\ start => \A f \in LidoTotals : f \notin DOMAIN told
    /\ "stETH:pooled" \in DOMAIN told <=> "wstETH:pooled" \in DOMAIN told
    /\ "stETH:total_shares" \in DOMAIN told <=> "wstETH:total_shares" \in DOMAIN told

LidoReported(h, e) ==
    phase = "apply" => \A t \in 1..MaxTxs :
        /\ LidoReport(message[t], h[e[t - 1]], h[e[t]], block.start)
        /\ t > block.tx => DOMAIN message[t] = {}

LidoAt(h, e) ==
    /\ Chronicle(h, e, block.writes, block.tx, block.txEnd, chain, LidoStates)
    /\ LidoSteps(h, block.writes, block.calls) /\ LidoTrace(block.writes, block.calls)
    /\ LidoOpened(h, block.writes, block.calls, block.tx, block.open)
    /\ h[0] = block.begin /\ LidoStored(h) /\ LidoReported(h, e)

LidoInv ==
    /\ LidoTypes /\ LidoKnown(indexer, block.begin, block.start)
    /\ \E h, e : LidoAt(h, e)

LEMMA LidoConstants ==
    /\ MaxTxs \in Nat \ {0} /\ Lido!Tx = 1..MaxTxs /\ NoValue \notin LidoValue
    /\ \A slot \in Lido!Pooled : StartSlots[slot] \in Nat
    /\ \A slot : Lido!Value(slot) \subseteq LidoValue
    /\ Lido!Pooled \subseteq LidoSlot
    /\ \A kind \in DOMAIN Lido!CallKind :
          /\ kind \in {"impl", "wst", "delegate"} /\ Lido!CallKind[kind] \subseteq LidoSlot
          /\ \A slot \in Lido!CallKind[kind] : slot \in Lido!Pooled => kind = "impl"
<1>1. /\ MaxTxs \in Nat \ {0} /\ NoValue \notin LidoValue /\ MaxWord \in Nat
      /\ StartSlots \in [Lido!Pooled -> 0..MaxWord]
  BY IntegrationBounds DEF Lido!LidoBounds, LidoValue
<1>2. \A slot \in Lido!Pooled : StartSlots[slot] \in Nat
  BY <1>1
<1>3. \A slot : Lido!Value(slot) \subseteq LidoValue
  BY <1>1 DEF Lido!Value, LidoValue
<1>4. \A kind \in DOMAIN Lido!CallKind :
          /\ kind \in {"impl", "wst", "delegate"} /\ Lido!CallKind[kind] \subseteq LidoSlot
          /\ \A slot \in Lido!CallKind[kind] : slot \in Lido!Pooled => kind = "impl"
  BY DEF Lido!CallKind, LidoSlot, Lido!Pooled, Lido!Direct
<1> QED  BY <1>1, <1>2, <1>3, <1>4 DEF Lido!Tx, LidoSlot

LEMMA LidoParts ==
    ASSUME LidoTypes
    PROVE  /\ block = [start |-> block.start, begin |-> block.begin, tx |-> block.tx,
                       calls |-> block.calls, open |-> block.open, writes |-> block.writes,
                       txEnd |-> block.txEnd]
           /\ block.start \in BOOLEAN /\ block.begin \in LidoStates /\ block.tx \in 1..MaxTxs
           /\ block.calls \in Seq(LidoCall) /\ block.open \in Seq(LidoOpen)
           /\ block.writes \in Seq(LidoWrite) /\ block.txEnd \in [1..MaxTxs -> LidoStates]
<1>1. PICK Calls, Opens, Writes, X, Ends0 :
          /\ Calls = Seq(LidoCall) /\ Opens = Seq(LidoOpen) /\ Writes = Seq(LidoWrite)
          /\ X = LidoStates /\ Ends0 = [1..MaxTxs -> LidoStates]
  OBVIOUS
<1>2. block \in [start : BOOLEAN, begin : X, tx : 1..MaxTxs, calls : Calls,
                 open : Opens, writes : Writes, txEnd : Ends0]
  BY <1>1 DEF LidoTypes, LidoBlock
<1> QED  BY <1>1, <1>2

(* A block that has just begun.                                            *)
LidoHistory(b, s, h, e) ==
    /\ Chronicle(h, e, b.writes, b.tx, b.txEnd, s, LidoStates)
    /\ LidoSteps(h, b.writes, b.calls) /\ LidoTrace(b.writes, b.calls)
    /\ LidoOpened(h, b.writes, b.calls, b.tx, b.open) /\ h[0] = s
LidoBegun(b, s) == \E h, e : LidoHistory(b, s, h, e)

LEMMA LidoNewBlock ==
    ASSUME NEW s \in LidoStates, NEW start \in BOOLEAN, NEW b, b = Lido!NewBlock(start, s)
    PROVE  /\ b \in LidoBlock /\ b.start = start /\ b.begin = s
           /\ b.open = <<>> /\ b.writes = <<>> /\ LidoBegun(b, s)
<1>1. MaxTxs \in Nat \ {0}
  BY LidoConstants
<1>2. PICK ends : ends = [t \in 1..MaxTxs |-> s]
  OBVIOUS
<1>3. PICK X : X = LidoStates
  OBVIOUS
<1>4. ends \in [1..MaxTxs -> X] /\ s \in X
  BY <1>2, <1>3
<1>5. b = [start |-> start, begin |-> s, tx |-> 1, calls |-> <<>>, open |-> <<>>,
           writes |-> <<>>, txEnd |-> ends]
  BY <1>2, LidoConstants DEF Lido!NewBlock
<1>6. /\ b.tx = 1 /\ b.writes = <<>> /\ b.begin = s /\ b.txEnd = ends /\ b.start = start
      /\ b.open = <<>>
  BY <1>5
<1>7. PICK h, e : Chronicle(h, e, <<>>, 1, ends, s, X) /\ h[0] = s
  BY <1>1, <1>2, <1>4, ChronicleNew
<1>8. Len(b.writes) = 0 /\ Len(b.open) = 0
  BY <1>6
<1>9. /\ LidoSteps(h, b.writes, b.calls) /\ LidoTrace(b.writes, b.calls)
      /\ LidoOpened(h, b.writes, b.calls, b.tx, b.open)
  BY <1>8 DEF LidoSteps, LidoTrace, LidoOpened
<1>10. b \in LidoBlock
  <2>1. PICK Calls, Opens, Writes, Ends0 :
          /\ Calls = Seq(LidoCall) /\ Opens = Seq(LidoOpen) /\ Writes = Seq(LidoWrite)
          /\ Ends0 = [1..MaxTxs -> X]
    OBVIOUS
  <2>2. 1 \in 1..MaxTxs /\ <<>> \in Calls /\ <<>> \in Opens /\ <<>> \in Writes /\ ends \in Ends0
    BY <1>1, <1>4, <2>1
  <2>3. b \in [start : BOOLEAN, begin : X, tx : 1..MaxTxs, calls : Calls,
               open : Opens, writes : Writes, txEnd : Ends0]
    BY <1>4, <1>5, <2>2
  <2> QED  BY <1>3, <2>1, <2>3 DEF LidoBlock
<1>11. LidoHistory(b, s, h, e)
  BY <1>3, <1>6, <1>7, <1>9 DEF LidoHistory
<1>12. LidoBegun(b, s)
  BY <1>11 DEF LidoBegun
<1> QED  BY <1>6, <1>10, <1>12

LEMMA LidoInit == Lido!Init => LidoInv
<1> SUFFICES ASSUME Lido!Init PROVE LidoInv
  OBVIOUS
<1>1. /\ chain = [slot \in LidoSlot |->
                    IF slot \in Lido!Pooled THEN StartSlots[slot]
                    ELSE IF slot = "stake_limit" THEN <<1, 1>> ELSE 0]
      /\ block = Lido!NewBlock(TRUE, chain) /\ phase = "mine"
      /\ indexer = [f \in Lido!Field |-> NoValue]
  BY DEF Lido!Init, LidoSlot
<1>2. chain \in LidoStates
  <2>1. <<1, 1>> \in LidoValue /\ 0 \in LidoValue
    BY DEF LidoValue, Lido!LimitWord
  <2>2. \A slot \in Lido!Pooled : StartSlots[slot] \in LidoValue
    BY LidoConstants DEF LidoValue
  <2> QED  BY <1>1, <2>1, <2>2 DEF LidoStates
<1>3. block \in LidoBlock /\ block.start = TRUE /\ block.begin = chain
  BY <1>1, <1>2, LidoNewBlock
<1>4. PICK h, e : /\ Chronicle(h, e, block.writes, block.tx, block.txEnd, chain, LidoStates)
                  /\ LidoSteps(h, block.writes, block.calls)
                  /\ LidoTrace(block.writes, block.calls)
                  /\ LidoOpened(h, block.writes, block.calls, block.tx, block.open)
                  /\ h[0] = chain
  <2>1. LidoBegun(block, chain)
    BY <1>1, <1>2, LidoNewBlock
  <2>2. PICK h, e : LidoHistory(block, chain, h, e)
    BY <2>1 DEF LidoBegun
  <2> QED  BY <2>2, Zenon DEF LidoHistory
<1>5. LidoStored(h)
  <2>1. \A slot \in Lido!Pooled : chain[slot] = StartSlots[slot]
    BY <1>1, LidoConstants
  <2> QED  BY <1>1, <1>3, <2>1 DEF LidoStored, Lido!StartValue
<1>6. LidoKnown(indexer, block.begin, block.start)
  <2>1. \A f \in LidoTotals \cup {"stETH:total_shares", "wstETH:total_shares"} : f \in Lido!Field
    BY DEF Lido!Field, LidoTotals
  <2>2. \A f \in Lido!Field : indexer[f] = NoValue
    BY <1>1
  <2>3. DOMAIN indexer = Lido!Field
    BY <1>1
  <2> QED  BY <2>1, <2>2, <2>3 DEF LidoKnown, LidoTotals
<1> QED  BY <1>1, <1>2, <1>3, <1>4, <1>5, <1>6 DEF LidoInv, LidoTypes, LidoReported, LidoAt

-----------------------------------------------------------------------------
(* The steps of the chain.                                                 *)
LEMMA LidoMineKeeps ==
    ASSUME LidoInv, phase = "mine", Lido!MineOnly, chain' \in LidoStates,
           NEW calls \in Seq(LidoCall), NEW open \in Seq(LidoOpen), NEW writes \in Seq(LidoWrite),
           NEW last \in 1..MaxTxs, NEW ends \in [1..MaxTxs -> LidoStates],
           block' = [start |-> block.start, begin |-> block.begin, tx |-> last, calls |-> calls,
                     open |-> open, writes |-> writes, txEnd |-> ends],
           NEW h, NEW e, Chronicle(h, e, writes, last, ends, chain', LidoStates),
           LidoSteps(h, writes, calls), LidoTrace(writes, calls),
           LidoOpened(h, writes, calls, last, open), h[0] = block.begin
    PROVE  LidoInv'
<1>1. phase' = "mine" /\ UNCHANGED <<stores, deltas, message, indexer>>
  BY DEF Lido!MineOnly
<1>2. /\ block'.start = block.start /\ block'.begin = block.begin /\ block'.tx = last
      /\ block'.calls = calls /\ block'.open = open /\ block'.writes = writes
      /\ block'.txEnd = ends
  OBVIOUS
<1>3. block' \in LidoBlock
  <2>1. PICK Calls, Opens, Writes, X, Ends0 :
          /\ Calls = Seq(LidoCall) /\ Opens = Seq(LidoOpen) /\ Writes = Seq(LidoWrite)
          /\ X = LidoStates /\ Ends0 = [1..MaxTxs -> LidoStates]
    OBVIOUS
  <2>2. /\ calls \in Calls /\ open \in Opens /\ writes \in Writes /\ ends \in Ends0
        /\ block.start \in BOOLEAN /\ block.begin \in X
    BY <2>1, LidoParts DEF LidoInv
  <2>3. block' \in [start : BOOLEAN, begin : X, tx : 1..MaxTxs, calls : Calls,
                    open : Opens, writes : Writes, txEnd : Ends0]
    BY <2>2
  <2> QED  BY <2>1, <2>3 DEF LidoBlock
<1>4. LidoTypes'
  BY <1>1, <1>3 DEF LidoTypes
<1>5. LidoStored(h)'
  <2>1. \A slot \in Lido!Pooled : Lido!StartValue(slot) = block.begin[slot]
    BY DEF LidoInv, LidoAt, LidoStored
  <2>2. \A slot \in Lido!Pooled : Lido!StartValue(slot)' = Lido!StartValue(slot)
    BY <1>1, <1>2 DEF Lido!StartValue
  <2> QED  BY <1>1, <1>2, <2>1, <2>2 DEF LidoStored
<1>6. LidoAt(h, e)'
  BY <1>1, <1>2, <1>5 DEF LidoAt, LidoReported
<1>7. LidoKnown(indexer, block.begin, block.start)'
  BY <1>1, <1>2 DEF LidoInv, LidoKnown
<1> QED  BY <1>1, <1>4, <1>6, <1>7 DEF LidoInv

(* The parts of the block with names of their own.                         *)
LidoNamed(calls, open, writes, last, ends, n, m, k) ==
    /\ calls = block.calls /\ open = block.open /\ writes = block.writes /\ last = block.tx
    /\ ends = block.txEnd
    /\ calls \in Seq(LidoCall) /\ open \in Seq(LidoOpen) /\ writes \in Seq(LidoWrite)
    /\ last \in 1..MaxTxs /\ ends \in [1..MaxTxs -> LidoStates]
    /\ n \in Nat /\ n = Len(writes) /\ m \in Nat /\ m = Len(calls)
    /\ k \in Nat /\ k = Len(open) /\ DOMAIN calls = 1..m /\ DOMAIN writes = 1..n
    /\ block = [start |-> block.start, begin |-> block.begin, tx |-> last, calls |-> calls,
                open |-> open, writes |-> writes, txEnd |-> ends]
    /\ chain \in LidoStates

LEMMA LidoNames ==
    ASSUME LidoInv
    PROVE  \E calls, open, writes, last, ends, n, m, k :
               LidoNamed(calls, open, writes, last, ends, n, m, k)
<1>1. PICK calls, open, writes, last, ends :
          /\ calls = block.calls /\ open = block.open /\ writes = block.writes
          /\ last = block.tx /\ ends = block.txEnd
  OBVIOUS
<1>2. /\ calls \in Seq(LidoCall) /\ open \in Seq(LidoOpen) /\ writes \in Seq(LidoWrite)
      /\ last \in 1..MaxTxs /\ ends \in [1..MaxTxs -> LidoStates] /\ chain \in LidoStates
      /\ block = [start |-> block.start, begin |-> block.begin, tx |-> last, calls |-> calls,
                  open |-> open, writes |-> writes, txEnd |-> ends]
  BY <1>1, LidoParts DEF LidoInv, LidoTypes
<1>3. PICK n, m, k : n = Len(writes) /\ m = Len(calls) /\ k = Len(open)
  OBVIOUS
<1>4. n \in Nat /\ m \in Nat /\ k \in Nat /\ DOMAIN calls = 1..m /\ DOMAIN writes = 1..n
  BY <1>2, <1>3
<1>5. LidoNamed(calls, open, writes, last, ends, n, m, k)
  BY <1>1, <1>2, <1>3, <1>4 DEF LidoNamed
<1> QED  BY <1>5

LEMMA LidoCallKeeps ==
    ASSUME LidoInv, NEW kind \in DOMAIN Lido!CallKind, Lido!Call(kind)
    PROVE  LidoInv'
<1>1. PICK calls, open, writes, last, ends, n, m, k :
          LidoNamed(calls, open, writes, last, ends, n, m, k)
  BY LidoNames
<1>2. PICK h, e : LidoAt(h, e)
  BY DEF LidoInv
<1>3. /\ calls \in Seq(LidoCall) /\ open \in Seq(LidoOpen) /\ writes \in Seq(LidoWrite)
      /\ last \in 1..MaxTxs /\ n \in Nat /\ n = Len(writes) /\ m \in Nat /\ m = Len(calls)
      /\ k \in Nat /\ k = Len(open) /\ chain \in LidoStates
  BY <1>1 DEF LidoNamed
<1>4. PICK c : c = [kind |-> kind, tx |-> last, reverted |-> FALSE]
  OBVIOUS
<1>5. PICK o : o = [call |-> m + 1, before |-> chain]
  OBVIOUS
<1>6. PICK calls2, open2 : calls2 = Append(calls, c) /\ open2 = Append(open, o)
  OBVIOUS
<1>7. c \in LidoCall /\ ~c.reverted /\ o \in LidoOpen /\ o.call = m + 1 /\ o.before = chain
  BY <1>3, <1>4, <1>5, LidoConstants DEF LidoCall, LidoOpen
<1>8. /\ calls2 \in Seq(LidoCall) /\ open2 \in Seq(LidoOpen)
      /\ Len(calls2) = m + 1 /\ Len(open2) = k + 1
      /\ calls2[m + 1] = c /\ \A i \in 1..m : calls2[i] = calls[i]
      /\ open2[k + 1] = o /\ \A i \in 1..k : open2[i] = open[i]
  BY <1>3, <1>6, <1>7
<1>9. phase = "mine" /\ Lido!MineOnly /\ chain' = chain
  BY DEF Lido!Call
<1>10. block' = [start |-> block.start, begin |-> block.begin, tx |-> last, calls |-> calls2,
                 open |-> open2, writes |-> writes, txEnd |-> ends]
  BY <1>1, <1>4, <1>5, <1>6 DEF Lido!Call, LidoNamed
<1>11. /\ Chronicle(h, e, writes, last, ends, chain, LidoStates)
       /\ LidoSteps(h, writes, calls) /\ LidoTrace(writes, calls)
       /\ LidoOpened(h, writes, calls, last, open) /\ h[0] = block.begin
       /\ ends \in [1..MaxTxs -> LidoStates]
  BY <1>1, <1>2 DEF LidoAt, LidoNamed
<1>12. \A i \in 1..n : writes[i].call \in 1..m
  BY <1>3, <1>11 DEF LidoTrace
<1>13. LidoTrace(writes, calls2)
  BY <1>3, <1>8, <1>11, <1>12 DEF LidoTrace
<1>14. LidoSteps(h, writes, calls2)
  BY <1>3, <1>8, <1>11, <1>12 DEF LidoSteps, LidoStep
<1>15. LidoBefore(h, writes, last, o, n)
  <2>1. \A i \in 1..n : i <= n /\ writes[i].call < o.call
    BY <1>3, <1>7, <1>12
  <2>2. n \in 0..n /\ h[n] = chain
    BY <1>3, <1>11 DEF Chronicle
  <2> QED  BY <1>3, <1>7, <2>1, <2>2 DEF LidoBefore
<1>16. ASSUME NEW i \in 1..k + 1
       PROVE  /\ open2[i].call \in 1..m + 1 /\ ~calls2[open2[i].call].reverted
              /\ \A l \in 1..k + 1 : i < l => open2[i].call < open2[l].call
              /\ \E q : LidoBefore(h, writes, last, open2[i], q)
  <2>1. CASE i = k + 1
    BY <1>3, <1>7, <1>8, <1>15, <2>1
  <2>2. CASE i # k + 1
    <3>1. i \in 1..k
      BY <1>3, <2>2
    <3>2. /\ open[i].call \in 1..m /\ ~calls[open[i].call].reverted
          /\ \A l \in 1..k : i < l => open[i].call < open[l].call
          /\ \E q : LidoBefore(h, writes, last, open[i], q)
      BY <1>3, <1>11, <3>1 DEF LidoOpened
    <3>3. ASSUME NEW l \in 1..k + 1, i < l PROVE open2[i].call < open2[l].call
      <4>1. CASE l = k + 1
        BY <1>3, <1>7, <1>8, <3>1, <3>2, <4>1
      <4>2. CASE l # k + 1
        <5>1. l \in 1..k
          BY <1>3, <4>2
        <5> QED  BY <1>8, <3>1, <3>2, <3>3, <5>1
      <4> QED  BY <4>1, <4>2
    <3>4. open[i].call \in 1..m + 1
      BY <1>3, <3>2
    <3> QED  BY <1>8, <3>1, <3>2, <3>3, <3>4
  <2> QED  BY <2>1, <2>2
<1>17. LidoOpened(h, writes, calls2, last, open2)
  BY <1>8, <1>16 DEF LidoOpened
<1>18. chain' \in LidoStates /\ Chronicle(h, e, writes, last, ends, chain', LidoStates)
  BY <1>3, <1>9, <1>11
<1> QED  BY <1>3, <1>8, <1>9, <1>10, <1>11, <1>13, <1>14, <1>17, <1>18, LidoMineKeeps

(* The history, once what came after the a-th event has been undone.       *)
Rewritten(h, a, n) == [i \in 0..n |-> IF i > a THEN h[a] ELSE h[i]]

LEMMA ChronicleRewrite ==
    ASSUME MaxTxs \in Nat \ {0}, NEW D, NEW evs \in Seq(D), NEW last \in 1..MaxTxs,
           NEW X, NEW s, NEW h, NEW e, NEW ends, Chronicle(h, e, evs, last, ends, s, X),
           NEW a \in 0..Len(evs), \A i \in 1..Len(evs) : evs[i].tx # last => i <= a,
           NEW ends2, ends2 = [ends EXCEPT ![last] = h[a]],
           NEW h2, h2 = Rewritten(h, a, Len(evs))
    PROVE  Chronicle(h2, e, evs, last, ends2, h[a], X)
<1>1. PICK n \in Nat : n = Len(evs)
  OBVIOUS
<1>2. Ends(e, evs, last) /\ ends \in [1..MaxTxs -> X] /\ h \in [0..n -> X] /\ a \in 0..n
  BY <1>1 DEF Chronicle
<1>3. h2 \in [0..n -> X] /\ \A i \in 0..n : /\ i > a => h2[i] = h[a]
                                            /\ i <= a => h2[i] = h[i]
  BY <1>1, <1>2 DEF Rewritten
<1>4. h2[n] = h[a]
  <2>1. n \in 0..n /\ (n > a \/ n = a)
    BY <1>1, <1>2
  <2> QED  BY <1>3, <2>1
<1>5. ends2 \in [1..MaxTxs -> X] /\ ends2[last] = h[a]
      /\ \A t \in 1..MaxTxs : t # last => ends2[t] = ends[t]
  BY <1>2
<1>6. ASSUME NEW t \in 1..last PROVE ends2[t] = h2[e[t]]
  <2>1. CASE t = last
    <3>1. e[t] = n
      BY <1>1, <1>2, <2>1, EndsFacts
    <3> QED  BY <1>4, <1>5, <2>1, <3>1
  <2>2. CASE t # last
    <3>1. t \in 1..MaxTxs /\ t \in 0..MaxTxs /\ t < last
      BY <2>2
    <3>2. e[t] \in 0..n /\ ends2[t] = ends[t] /\ ends[t] = h[e[t]]
      BY <1>1, <1>2, <1>5, <2>2, <3>1, EndsFacts DEF Chronicle
    <3>3. e[t] <= a
      <4>1. CASE e[t] = 0
        BY <1>2, <4>1
      <4>2. CASE e[t] # 0
        <5>1. e[t] \in 1..n
          BY <3>2, <4>2
        <5>2. evs[e[t]].tx <= t
          BY <1>1, <1>2, <3>1, <5>1, EndsSplit
        <5>3. evs[e[t]].tx # last
          BY <3>1, <5>2
        <5> QED  BY <1>1, <5>1, <5>3
      <4> QED  BY <4>1, <4>2
    <3> QED  BY <1>3, <3>2, <3>3
  <2> QED  BY <2>1, <2>2
<1> QED  BY <1>1, <1>2, <1>3, <1>4, <1>5, <1>6 DEF Chronicle

LEMMA LidoNextTxKeeps ==
    ASSUME LidoInv, Lido!NextTx
    PROVE  LidoInv'
<1>1. PICK calls, open, writes, last, ends, n, m, k :
          LidoNamed(calls, open, writes, last, ends, n, m, k)
  BY LidoNames
<1>2. PICK h, e : LidoAt(h, e)
  BY DEF LidoInv
<1>3. /\ calls \in Seq(LidoCall) /\ open \in Seq(LidoOpen) /\ writes \in Seq(LidoWrite)
      /\ last \in 1..MaxTxs /\ k = Len(open) /\ chain \in LidoStates /\ MaxTxs \in Nat \ {0}
  BY <1>1, LidoConstants DEF LidoNamed
<1>4. phase = "mine" /\ Lido!MineOnly /\ chain' = chain /\ last < MaxTxs /\ open = <<>>
  BY <1>1 DEF Lido!NextTx, LidoNamed, Lido!Running
<1>5. PICK ends2 : ends2 = [ends EXCEPT ![last + 1] = chain]
  OBVIOUS
<1>6. block' = [start |-> block.start, begin |-> block.begin, tx |-> last + 1, calls |-> calls,
                open |-> open, writes |-> writes, txEnd |-> ends2]
  BY <1>1, <1>5 DEF Lido!NextTx, LidoNamed
<1>7. /\ Chronicle(h, e, writes, last, ends, chain, LidoStates)
      /\ LidoSteps(h, writes, calls) /\ LidoTrace(writes, calls) /\ h[0] = block.begin
  BY <1>1, <1>2 DEF LidoAt, LidoNamed
<1>8. PICK X, D : X = LidoStates /\ D = LidoWrite
  OBVIOUS
<1>9. Chronicle(h, e, writes, last + 1, ends2, chain, X)
  BY <1>3, <1>4, <1>5, <1>7, <1>8, ChronicleNextTx
<1>10. ends2 \in [1..MaxTxs -> LidoStates]
  BY <1>8, <1>9 DEF Chronicle
<1>11. Len(open) = 0
  BY <1>4
<1>12. LidoOpened(h, writes, calls, last + 1, open)
  BY <1>11 DEF LidoOpened
<1>13. last + 1 \in 1..MaxTxs
  BY <1>3, <1>4
<1>14. chain' \in LidoStates /\ Chronicle(h, e, writes, last + 1, ends2, chain', LidoStates)
  BY <1>3, <1>4, <1>8, <1>9
<1> QED  BY <1>3, <1>4, <1>6, <1>7, <1>10, <1>12, <1>13, <1>14, LidoMineKeeps

LEMMA LidoWriteKeeps ==
    ASSUME LidoInv, NEW slot, NEW value \in Lido!Value(slot), Lido!Write(slot, value)
    PROVE  LidoInv'
<1>1. PICK calls, open, writes, last, ends, n, m, k :
          LidoNamed(calls, open, writes, last, ends, n, m, k)
  BY LidoNames
<1>2. PICK h, e : LidoAt(h, e)
  BY DEF LidoInv
<1>3. /\ calls \in Seq(LidoCall) /\ open \in Seq(LidoOpen) /\ writes \in Seq(LidoWrite)
      /\ last \in 1..MaxTxs /\ n \in Nat /\ n = Len(writes) /\ m \in Nat /\ m = Len(calls)
      /\ k \in Nat /\ k = Len(open) /\ chain \in LidoStates /\ MaxTxs \in Nat \ {0}
  BY <1>1, LidoConstants DEF LidoNamed
<1>4. /\ Chronicle(h, e, writes, last, ends, chain, LidoStates)
      /\ LidoSteps(h, writes, calls) /\ LidoTrace(writes, calls) /\ h[0] = block.begin
      /\ LidoOpened(h, writes, calls, last, open)
  BY <1>1, <1>2 DEF LidoAt, LidoNamed
<1>5. k \in 1..k /\ Lido!Top = open[k] /\ open[k].call = m
  <2>1. Lido!Running /\ Lido!Top.call = Len(block.calls)
    BY DEF Lido!Write
  <2>2. open # <<>> /\ Lido!Top = open[k]
    BY <1>1, <2>1 DEF Lido!Running, Lido!Top, LidoNamed
  <2> QED  BY <1>1, <1>3, <2>1, <2>2 DEF LidoNamed
<1>6. m \in 1..m /\ ~calls[m].reverted /\ \A l \in 1..k : open[l].call \in 1..m
  BY <1>3, <1>4, <1>5 DEF LidoOpened
<1>7. calls[m].kind \in DOMAIN Lido!CallKind /\ slot \in Lido!CallKind[calls[m].kind]
  <2>1. calls[m].kind \in {"impl", "wst", "delegate"}
    <3>1. calls[m] \in LidoCall
      BY <1>3, <1>6
    <3> QED  BY <3>1 DEF LidoCall
  <2>2. slot \in Lido!CallKind[calls[m].kind]
    BY <1>1, <1>5 DEF Lido!Write, LidoNamed
  <2> QED  BY <2>1, <2>2 DEF Lido!CallKind
<1>8. slot \in LidoSlot /\ value \in LidoValue /\ (slot \in Lido!Pooled => calls[m].kind = "impl")
  BY <1>7, LidoConstants
<1>9. PICK w : w = [call |-> m, tx |-> last, slot |-> slot, value |-> value]
  OBVIOUS
<1>10. w \in LidoWrite /\ w.call = m /\ w.tx = last /\ w.slot = slot /\ w.value = value
  BY <1>3, <1>8, <1>9 DEF LidoWrite
<1>11. PICK s2, writes2, ends2 :
           /\ s2 = [chain EXCEPT ![slot] = value] /\ writes2 = Append(writes, w)
           /\ ends2 = [ends EXCEPT ![last] = s2]
  OBVIOUS
<1>12. s2 \in LidoStates /\ \A x \in LidoSlot : s2[x] = IF x = slot THEN value ELSE chain[x]
  BY <1>3, <1>8, <1>11 DEF LidoStates
<1>13. phase = "mine" /\ Lido!MineOnly /\ chain' = s2
  BY <1>11 DEF Lido!Write
<1>14. block' = [start |-> block.start, begin |-> block.begin, tx |-> last, calls |-> calls,
                 open |-> open, writes |-> writes2, txEnd |-> ends2]
  <2>1. block' = [block EXCEPT !.writes = Append(@, w), !.txEnd = [@ EXCEPT ![last] = s2]]
    BY <1>1, <1>5, <1>9, <1>13 DEF Lido!Write, LidoNamed
  <2> QED  BY <1>1, <1>11, <2>1 DEF LidoNamed
<1>15. PICK X, D : X = LidoStates /\ D = LidoWrite
  OBVIOUS
<1>16. PICK h2, e2 : Chronicle(h2, e2, writes2, last, ends2, s2, X) /\ Extends(h2, h, n)
  BY <1>3, <1>4, <1>10, <1>11, <1>12, <1>15, ChronicleAppend
<1>17. /\ writes2 \in Seq(LidoWrite) /\ Len(writes2) = n + 1 /\ writes2[n + 1] = w
       /\ \A i \in 1..n : writes2[i] = writes[i]
  BY <1>3, <1>10, <1>11
<1>18. ends2 \in [1..MaxTxs -> LidoStates] /\ h2[n + 1] = s2 /\ h2[0] = block.begin
       /\ \A i \in 0..n : h2[i] = h[i]
  BY <1>3, <1>4, <1>15, <1>16, <1>17 DEF Chronicle, Extends
<1>19. ASSUME NEW i \in 1..n + 1
       PROVE  LidoStep(h2[i - 1], h2[i], writes2[i], calls)
  <2>1. CASE i = n + 1
    <3>1. h2[n] = chain /\ (n + 1) - 1 = n
      BY <1>3, <1>4, <1>18 DEF Chronicle
    <3>2. LidoStep(h2[n], h2[n + 1], w, calls)
      BY <1>6, <1>10, <1>12, <1>18, <3>1 DEF LidoStep
    <3> QED  BY <1>17, <2>1, <3>1, <3>2
  <2>2. CASE i # n + 1
    <3>1. i \in 1..n /\ i - 1 \in 0..n /\ i \in 0..n
      BY <1>3, <2>2
    <3>2. LidoStep(h[i - 1], h[i], writes[i], calls)
      BY <1>3, <1>4, <3>1 DEF LidoSteps
    <3> QED  BY <1>17, <1>18, <3>1, <3>2
  <2> QED  BY <2>1, <2>2
<1>20. LidoSteps(h2, writes2, calls)
  BY <1>17, <1>19 DEF LidoSteps
<1>21. LidoTrace(writes2, calls)
  <2>1. ASSUME NEW i \in 1..n + 1
        PROVE  /\ writes2[i].call \in 1..m
               /\ writes2[i].slot \in Lido!Pooled => calls[writes2[i].call].kind = "impl"
               /\ \A j \in 1..n + 1 : i <= j => writes2[i].call <= writes2[j].call
    <3>1. CASE i = n + 1
      <4>1. \A j \in 1..n + 1 : i <= j => j = n + 1
        BY <1>3, <3>1
      <4> QED  BY <1>3, <1>6, <1>8, <1>10, <1>17, <3>1, <4>1
    <3>2. CASE i # n + 1
      <4>1. i \in 1..n
        BY <1>3, <3>2
      <4>2. /\ writes[i].call \in 1..m
            /\ writes[i].slot \in Lido!Pooled => calls[writes[i].call].kind = "impl"
            /\ \A j \in 1..n : i <= j => writes[i].call <= writes[j].call
        BY <1>3, <1>4, <4>1 DEF LidoTrace
      <4>3. ASSUME NEW j \in 1..n + 1, i <= j PROVE writes2[i].call <= writes2[j].call
        <5>1. CASE j = n + 1
          BY <1>3, <1>10, <1>17, <4>1, <4>2, <5>1
        <5>2. CASE j # n + 1
          <6>1. j \in 1..n
            BY <1>3, <5>2
          <6> QED  BY <1>17, <4>1, <4>2, <4>3, <6>1
        <5> QED  BY <5>1, <5>2
      <4> QED  BY <1>17, <4>1, <4>2, <4>3
    <3> QED  BY <3>1, <3>2
  <2> QED  BY <1>3, <1>17, <2>1 DEF LidoTrace
<1>22. ASSUME NEW o, o.call \in 1..m, NEW q, LidoBefore(h, writes, last, o, q)
       PROVE  LidoBefore(h2, writes2, last, o, q)
  <2>1. /\ q \in 0..n /\ o.before = h[q]
        /\ \A i \in 1..n : /\ i <= q <=> writes[i].call < o.call
                           /\ writes[i].tx # last => i <= q
    BY <1>3, <1>22 DEF LidoBefore
  <2>2. ASSUME NEW i \in 1..n + 1
        PROVE  /\ i <= q <=> writes2[i].call < o.call
               /\ writes2[i].tx # last => i <= q
    <3>1. CASE i = n + 1
      BY <1>3, <1>10, <1>17, <1>22, <2>1, <3>1
    <3>2. CASE i # n + 1
      <4>1. i \in 1..n
        BY <1>3, <3>2
      <4> QED  BY <1>17, <2>1, <4>1
    <3> QED  BY <3>1, <3>2
  <2>3. q \in 0..n + 1 /\ o.before = h2[q]
    BY <1>3, <1>18, <2>1
  <2> QED  BY <1>17, <2>2, <2>3 DEF LidoBefore
<1>23. LidoOpened(h2, writes2, calls, last, open)
  <2>1. ASSUME NEW l \in 1..k PROVE \E q : LidoBefore(h2, writes2, last, open[l], q)
    <3>1. PICK q : LidoBefore(h, writes, last, open[l], q)
      BY <1>3, <1>4 DEF LidoOpened
    <3>2. LidoBefore(h2, writes2, last, open[l], q)
      BY <1>6, <1>22, <3>1
    <3> QED  BY <3>2
  <2> QED  BY <1>3, <1>4, <2>1 DEF LidoOpened
<1>24. chain' \in LidoStates /\ Chronicle(h2, e2, writes2, last, ends2, chain', LidoStates)
  BY <1>12, <1>13, <1>15, <1>16
<1> QED  BY <1>3, <1>13, <1>14, <1>17, <1>18, <1>20, <1>21, <1>23, <1>24, LidoMineKeeps

LEMMA ListOfFunction ==
    ASSUME NEW C, NEW m \in Nat, NEW list \in [1..m -> C]
    PROVE  list \in Seq(C) /\ Len(list) = m
OBVIOUS

(* A call that fails rewrites the history since it began.                  *)
LEMMA LidoReturnKeeps ==
    ASSUME LidoInv, NEW failed \in BOOLEAN, Lido!Return(failed)
    PROVE  LidoInv'
<1>1. PICK calls, open, writes, last, ends, n, m, k :
          LidoNamed(calls, open, writes, last, ends, n, m, k)
  BY LidoNames
<1>2. PICK h, e : LidoAt(h, e)
  BY DEF LidoInv
<1>3. /\ calls \in Seq(LidoCall) /\ open \in Seq(LidoOpen) /\ writes \in Seq(LidoWrite)
      /\ last \in 1..MaxTxs /\ n \in Nat /\ n = Len(writes) /\ m \in Nat /\ m = Len(calls)
      /\ k \in Nat /\ k = Len(open) /\ chain \in LidoStates /\ MaxTxs \in Nat \ {0}
      /\ DOMAIN calls = 1..m
  BY <1>1, LidoConstants DEF LidoNamed
<1>4. /\ Chronicle(h, e, writes, last, ends, chain, LidoStates)
      /\ LidoSteps(h, writes, calls) /\ LidoTrace(writes, calls) /\ h[0] = block.begin
      /\ LidoOpened(h, writes, calls, last, open)
  BY <1>1, <1>2 DEF LidoAt, LidoNamed
<1>5. k \in 1..k /\ Lido!Top = open[k]
  <2>1. Lido!Running
    BY DEF Lido!Return
  <2>2. open # <<>> /\ Lido!Top = open[k]
    BY <1>1, <2>1 DEF Lido!Running, Lido!Top, LidoNamed
  <2> QED  BY <1>3, <2>2
<1>6. PICK c \in 1..m : c = open[k].call
  BY <1>3, <1>4, <1>5 DEF LidoOpened
<1>7. PICK q : LidoBefore(h, writes, last, open[k], q)
  BY <1>3, <1>4, <1>5 DEF LidoOpened
<1>8. /\ q \in 0..n /\ open[k].before = h[q]
      /\ \A i \in 1..n : /\ i <= q <=> writes[i].call < c
                         /\ writes[i].tx # last => i <= q
  BY <1>3, <1>6, <1>7 DEF LidoBefore
<1>9. PICK a : a = IF failed THEN q ELSE n
  OBVIOUS
<1>10. a \in 0..n /\ \A i \in 1..n : writes[i].tx # last => i <= a
  BY <1>3, <1>8, <1>9
<1>11. /\ failed => \A i \in 1..n : i <= a <=> writes[i].call < c
       /\ ~failed => a = n
  BY <1>8, <1>9
<1>12. chain' = h[a]
  <2>1. chain' = IF failed THEN Lido!Top.before ELSE chain
    BY DEF Lido!Return
  <2>2. h[n] = chain
    BY <1>3, <1>4 DEF Chronicle
  <2> QED  BY <1>5, <1>8, <1>9, <2>1, <2>2
<1>13. PICK open2, calls2, ends2 :
           /\ open2 = SubSeq(open, 1, k - 1)
           /\ calls2 = IF failed THEN Lido!FailedFrom(calls, c) ELSE calls
           /\ ends2 = [ends EXCEPT ![last] = h[a]]
  OBVIOUS
<1>14. phase = "mine" /\ Lido!MineOnly
  BY DEF Lido!Return
<1>15. block' = [start |-> block.start, begin |-> block.begin, tx |-> last, calls |-> calls2,
                 open |-> open2, writes |-> writes, txEnd |-> ends2]
  <2>1. block' = [block EXCEPT
           !.open = SubSeq(@, 1, Len(@) - 1),
           !.calls = IF failed THEN Lido!FailedFrom(@, Lido!Top.call) ELSE @,
           !.txEnd = [@ EXCEPT ![block.tx] = chain']]
    BY DEF Lido!Return
  <2>2. SubSeq(block.open, 1, Len(block.open) - 1) = open2
    BY <1>1, <1>13 DEF LidoNamed
  <2>3. (IF failed THEN Lido!FailedFrom(block.calls, Lido!Top.call) ELSE block.calls) = calls2
    BY <1>1, <1>5, <1>6, <1>13 DEF LidoNamed
  <2>4. [block.txEnd EXCEPT ![block.tx] = chain'] = ends2
    BY <1>1, <1>12, <1>13 DEF LidoNamed
  <2>5. block' = [block EXCEPT !.open = open2, !.calls = calls2, !.txEnd = ends2]
    BY <2>1, <2>2, <2>3, <2>4, Zenon
  <2> QED  BY <1>1, <2>5 DEF LidoNamed
<1>16. /\ open2 \in Seq(LidoOpen) /\ Len(open2) = k - 1
       /\ \A l \in 1..k - 1 : open2[l] = open[l]
  BY <1>3, <1>5, <1>13
<1>17. /\ calls2 \in Seq(LidoCall) /\ Len(calls2) = m
       /\ \A i \in 1..m : /\ calls2[i].kind = calls[i].kind
                          /\ calls2[i].reverted <=> calls[i].reverted \/ (failed /\ i >= c)
  <2>1. ASSUME NEW i \in 1..m
        PROVE  /\ calls2[i] \in LidoCall /\ calls2[i].kind = calls[i].kind
               /\ calls2[i].reverted <=> calls[i].reverted \/ (failed /\ i >= c)
    <3>1. calls[i] \in LidoCall
      BY <1>3
    <3>2. calls2[i] = IF failed /\ i >= c THEN [calls[i] EXCEPT !.reverted = TRUE]
                      ELSE calls[i]
      BY <1>3, <1>13 DEF Lido!FailedFrom
    <3> QED  BY <3>1, <3>2 DEF LidoCall
  <2>2. calls2 \in [1..m -> LidoCall]
    <3>1. CASE failed
      <4>1. calls2 = [i \in 1..m |-> IF i >= c THEN [calls[i] EXCEPT !.reverted = TRUE]
                                    ELSE calls[i]]
        BY <1>3, <1>13, <3>1 DEF Lido!FailedFrom
      <4>2. calls2 = [i \in 1..m |-> calls2[i]]
        BY <4>1
      <4> QED  BY <2>1, <4>2
    <3>2. CASE ~failed
      <4>1. calls2 = calls /\ calls \in [1..m -> LidoCall]
        BY <1>3, <1>13, <3>2
      <4> QED  BY <4>1
    <3> QED  BY <3>1, <3>2
  <2>3. PICK C : C = LidoCall
    OBVIOUS
  <2>4. calls2 \in Seq(C) /\ Len(calls2) = m
    <3>1. m \in Nat /\ calls2 \in [1..m -> C]
      BY <1>3, <2>2, <2>3
    <3> QED  BY <3>1, ListOfFunction
  <2> QED  BY <2>1, <2>3, <2>4
<1>18. PICK X, D, h2 : X = LidoStates /\ D = LidoWrite /\ h2 = Rewritten(h, a, n)
  OBVIOUS
<1>19. Chronicle(h2, e, writes, last, ends2, h[a], X)
  BY <1>3, <1>4, <1>10, <1>13, <1>18, ChronicleRewrite
<1>20. /\ \A i \in 0..n : /\ i > a => h2[i] = h[a]
                          /\ i <= a => h2[i] = h[i]
       /\ h2[0] = block.begin
  BY <1>3, <1>4, <1>10, <1>18 DEF Rewritten
<1>21. ASSUME NEW i \in 1..n
       PROVE  LidoStep(h2[i - 1], h2[i], writes[i], calls2)
  <2>1. /\ LidoStep(h[i - 1], h[i], writes[i], calls) /\ writes[i].call \in 1..m
        /\ i - 1 \in 0..n /\ i \in 0..n
    BY <1>3, <1>4 DEF LidoSteps, LidoTrace
  <2>2. CASE i <= a
    <3>1. h2[i] = h[i] /\ h2[i - 1] = h[i - 1]
      BY <1>3, <1>10, <1>20, <2>1, <2>2
    <3>2. calls2[writes[i].call].reverted <=> calls[writes[i].call].reverted
      BY <1>3, <1>11, <1>17, <2>1, <2>2
    <3> QED  BY <2>1, <3>1, <3>2 DEF LidoStep
  <2>3. CASE ~(i <= a)
    <3>1. h2[i] = h[a] /\ h2[i - 1] = h[a]
      BY <1>3, <1>10, <1>20, <2>1, <2>3
    <3>2. failed /\ ~(writes[i].call < c)
      BY <1>3, <1>11, <2>3
    <3>3. calls2[writes[i].call].reverted
      BY <1>3, <1>17, <2>1, <3>2
    <3> QED  BY <3>1, <3>3 DEF LidoStep
  <2> QED  BY <2>2, <2>3
<1>22. LidoSteps(h2, writes, calls2)
  BY <1>3, <1>21 DEF LidoSteps
<1>23. LidoTrace(writes, calls2)
  BY <1>3, <1>4, <1>17 DEF LidoTrace
<1>24. ASSUME NEW l \in 1..k - 1
       PROVE  /\ open2[l].call \in 1..m /\ ~calls2[open2[l].call].reverted
              /\ \A j \in 1..k - 1 : l < j => open2[l].call < open2[j].call
              /\ \E q2 : LidoBefore(h2, writes, last, open2[l], q2)
  <2>1. l \in 1..k /\ l < k /\ k \in 1..k
    BY <1>3, <1>5
  <2>2. /\ open[l].call \in 1..m /\ ~calls[open[l].call].reverted
        /\ \A j \in 1..k : l < j => open[l].call < open[j].call
        /\ \E q2 : LidoBefore(h, writes, last, open[l], q2)
    BY <1>3, <1>4, <2>1 DEF LidoOpened
  <2>3. open[l].call < c
    BY <1>6, <2>1, <2>2
  <2>4. ~calls2[open[l].call].reverted
    BY <1>17, <2>2, <2>3
  <2>5. PICK q2 : LidoBefore(h, writes, last, open[l], q2)
    BY <2>2
  <2>6. /\ q2 \in 0..n /\ open[l].before = h[q2]
        /\ \A i \in 1..n : /\ i <= q2 <=> writes[i].call < open[l].call
                           /\ writes[i].tx # last => i <= q2
    BY <1>3, <2>5 DEF LidoBefore
  <2>7. q2 <= a
    <3>1. CASE q2 = 0 \/ ~failed
      BY <1>3, <1>10, <1>11, <2>6, <3>1
    <3>2. CASE q2 # 0 /\ failed
      <4>1. q2 \in 1..n
        BY <2>6, <3>2
      <4>2. writes[q2].call < open[l].call /\ writes[q2].call \in 1..m
        BY <1>3, <1>4, <2>6, <4>1 DEF LidoTrace
      <4>3. writes[q2].call < c
        BY <2>2, <2>3, <4>2
      <4> QED  BY <1>11, <3>2, <4>1, <4>3
    <3> QED  BY <3>1, <3>2
  <2>8. h2[q2] = h[q2]
    BY <1>20, <2>6, <2>7
  <2>9. LidoBefore(h2, writes, last, open[l], q2)
    BY <1>3, <2>6, <2>8 DEF LidoBefore
  <2>10. \A j \in 1..k - 1 : l < j => open2[l].call < open2[j].call
    <3> TAKE j \in 1..k - 1
    <3>1. j \in 1..k
      BY <1>3
    <3> QED  BY <1>16, <2>2, <3>1
  <2> QED  BY <1>16, <2>2, <2>4, <2>9, <2>10
<1>25. LidoOpened(h2, writes, calls2, last, open2)
  BY <1>16, <1>17, <1>24 DEF LidoOpened
<1>26. /\ ends2 \in [1..MaxTxs -> LidoStates] /\ chain' \in LidoStates
       /\ Chronicle(h2, e, writes, last, ends2, chain', LidoStates)
  <2>1. h2[n] \in X /\ h2[n] = h[a]
    BY <1>3, <1>19 DEF Chronicle
  <2> QED  BY <1>12, <1>18, <1>19, <2>1 DEF Chronicle
<1> QED  BY <1>3, <1>14, <1>15, <1>16, <1>17, <1>20, <1>22, <1>23, <1>25, <1>26, LidoMineKeeps

-----------------------------------------------------------------------------
(* The modules.  As no call writes late, the order of the calls is that of *)
(* the writes.                                                             *)
LEMMA LidoOrder ==
    ASSUME LidoInv, NEW h, NEW e, LidoAt(h, e),
           NEW i \in 1..Len(block.writes), NEW j \in 1..Len(block.writes)
    PROVE  Lido!Earlier(i, j) <=> i < j
<1>1. PICK calls, open, writes, last, ends, n, m, k :
          LidoNamed(calls, open, writes, last, ends, n, m, k)
  BY LidoNames
<1>2. /\ n \in Nat /\ n = Len(writes) /\ m \in Nat /\ m = Len(calls) /\ writes = block.writes
      /\ LidoTrace(writes, calls) /\ i \in 1..n /\ j \in 1..n
  BY <1>1 DEF LidoNamed, LidoAt
<1>3. writes[i].call \in 1..m /\ writes[j].call \in 1..m
  BY <1>2 DEF LidoTrace
<1>4. /\ i <= j => writes[i].call <= writes[j].call
      /\ j <= i => writes[j].call <= writes[i].call
  BY <1>2 DEF LidoTrace
<1> QED  BY <1>2, <1>3, <1>4 DEF Lido!Earlier

LEMMA LidoLatest ==
    ASSUME LidoInv, NEW h, NEW e, LidoAt(h, e), NEW S, S # {}, S \subseteq 1..Len(block.writes)
    PROVE  Lido!Latest(S) \in S /\ \A j \in S : j <= Lido!Latest(S)
<1>1. PICK n \in Nat : n = Len(block.writes)
  BY LidoNames DEF LidoNamed
<1>2. \A i, j \in 1..n : Lido!Earlier(i, j) <=> i < j
  BY <1>1, LidoOrder
<1>3. PICK x \in S : \A j \in S : j <= x
  BY <1>1, LastIndex
<1>4. \A j \in S \ {x} : Lido!Earlier(j, x)
  BY <1>1, <1>2, <1>3
<1>5. /\ Lido!Latest(S) \in S
      /\ \A j \in S \ {Lido!Latest(S)} : Lido!Earlier(j, Lido!Latest(S))
  BY <1>3, <1>4, Zenon DEF Lido!Latest
<1>6. PICK y : y = Lido!Latest(S)
  OBVIOUS
<1>7. ASSUME NEW j \in S PROVE j <= y
  <2>1. j \in 1..n /\ y \in 1..n
    BY <1>1, <1>5, <1>6
  <2>2. j # y => Lido!Earlier(j, y)
    BY <1>5, <1>6
  <2> QED  BY <1>2, <2>1, <2>2
<1> QED  BY <1>5, <1>6, <1>7

LEMMA LidoSetsAre ==
    ASSUME LidoInv, NEW h, NEW e, LidoAt(h, e)
    PROVE  Lido!Sets = LidoSets /\ LidoSets \subseteq 1..Len(block.writes)
<1>1. PICK calls, open, writes, last, ends, n, m, k :
          LidoNamed(calls, open, writes, last, ends, n, m, k)
  BY LidoNames
<1>2. /\ n = Len(writes) /\ m = Len(calls) /\ writes = block.writes /\ calls = block.calls
      /\ DOMAIN writes = 1..n /\ DOMAIN calls = 1..m /\ LidoTrace(writes, calls)
  BY <1>1 DEF LidoNamed, LidoAt
<1>3. \A i \in 1..n : /\ writes[i].call \in 1..m
                      /\ writes[i].slot \in Lido!Pooled => calls[writes[i].call].kind = "impl"
  BY <1>2 DEF LidoTrace
<1> QED  BY <1>2, <1>3 DEF LidoSets, Lido!Sets, Lido!SettingCalls

(* A slot has the value of its last write, unless that was reverted.       *)
LidoSetting(i, slot) ==
    block.writes[i].slot = slot /\ ~block.calls[block.writes[i].call].reverted

LEMMA LidoHolds ==
    ASSUME LidoInv, NEW h, NEW e, LidoAt(h, e), NEW slot \in LidoSlot,
           NEW i \in 1..Len(block.writes), LidoSetting(i, slot)
    PROVE  h[i][slot] = block.writes[i].value
BY DEF LidoAt, LidoSteps, LidoStep, LidoSetting

LEMMA LidoSame ==
    ASSUME LidoInv, NEW h, NEW e, LidoAt(h, e), NEW slot \in LidoSlot,
           NEW a \in 0..Len(block.writes), NEW b \in 0..Len(block.writes), a <= b,
           \A i \in a + 1..b : ~LidoSetting(i, slot)
    PROVE  h[b][slot] = h[a][slot]
<1>1. PICK n \in Nat : n = Len(block.writes)
  BY LidoNames DEF LidoNamed
<1>2. PICK f : f = [i \in 0..n |-> h[i][slot]]
  OBVIOUS
<1>3. ASSUME NEW i \in a + 1..b PROVE f[i] = f[i - 1]
  <2>1. i \in 1..n /\ i \in 0..n /\ i - 1 \in 0..n
    BY <1>1
  <2>2. LidoStep(h[i - 1], h[i], block.writes[i], block.calls)
    BY <1>1, <2>1 DEF LidoAt, LidoSteps
  <2>3. h[i][slot] = h[i - 1][slot]
    BY <2>2 DEF LidoStep, LidoSetting
  <2> QED  BY <1>2, <2>1, <2>3
<1>4. a \in Nat /\ b \in Nat
  BY <1>1
<1>5. f[b] = f[a]
  BY <1>3, <1>4, Unchanged
<1> QED  BY <1>1, <1>2, <1>5

(* The writes after the a-th, up to the b-th, that set a slot.             *)
LidoSettings(a, b, slot) == {i \in a + 1..b : LidoSetting(i, slot)}

LEMMA LidoLatestSets ==
    ASSUME LidoInv, NEW h, NEW e, LidoAt(h, e), NEW slot \in LidoSlot,
           NEW a \in 0..Len(block.writes), NEW b \in 0..Len(block.writes), a <= b,
           NEW S, S = LidoSettings(a, b, slot)
    PROVE  /\ S = {} => h[b][slot] = h[a][slot]
           /\ S # {} => h[b][slot] = block.writes[Lido!Latest(S)].value
<1>1. PICK n \in Nat : n = Len(block.writes)
  BY LidoNames DEF LidoNamed
<1>2. ASSUME S = {} PROVE h[b][slot] = h[a][slot]
  BY <1>2, LidoSame DEF LidoSettings
<1>3. ASSUME S # {} PROVE h[b][slot] = block.writes[Lido!Latest(S)].value
  <2>1. S \subseteq 1..n
    BY <1>1 DEF LidoSettings
  <2>2. PICK x : x = Lido!Latest(S)
    OBVIOUS
  <2>3. x \in S /\ \A j \in S : j <= x
    BY <1>1, <1>3, <2>1, <2>2, LidoLatest
  <2>4. x \in 1..n /\ x \in 0..n /\ x <= b /\ LidoSetting(x, slot)
    BY <1>1, <2>1, <2>3 DEF LidoSettings
  <2>5. h[x][slot] = block.writes[x].value
    BY <1>1, <2>4, LidoHolds
  <2>6. \A i \in x + 1..b : ~LidoSetting(i, slot)
    BY <1>1, <2>3, <2>4 DEF LidoSettings
  <2>7. h[b][slot] = h[x][slot]
    BY <1>1, <2>4, <2>6, LidoSame
  <2> QED  BY <2>2, <2>5, <2>7
<1> QED  BY <1>2, <1>3

LidoSetsTo(a) == {i \in LidoSets : i <= a}

LEMMA LidoLastSet ==
    ASSUME LidoInv, NEW h, NEW e, LidoAt(h, e), NEW slot \in Lido!Pooled,
           NEW a \in 0..Len(block.writes), NEW sets, NEW is, is = LidoSetsTo(a),
           \A i \in LidoSets : /\ sets[i].slot = block.writes[i].slot
                               /\ sets[i].value = block.writes[i].value
    PROVE  Lido!LastSet(sets, slot, is, h[0][slot]) = h[a][slot]
<1>1. PICK n \in Nat : n = Len(block.writes)
  BY LidoNames DEF LidoNamed
<1>2. slot \in LidoSlot
  BY LidoConstants
<1>3. PICK S : S = {i \in is : sets[i].slot = slot}
  OBVIOUS
<1>4. PICK z, b : z = 0 /\ b = a
  OBVIOUS
<1>5. /\ z \in 0..Len(block.writes) /\ b \in 0..Len(block.writes) /\ z <= b
      /\ S = LidoSettings(z, b, slot)
  BY <1>1, <1>3, <1>4 DEF LidoSets, LidoSetting, LidoSettings, LidoSetsTo
<1>6. /\ S = {} => h[b][slot] = h[z][slot]
      /\ S # {} => h[b][slot] = block.writes[Lido!Latest(S)].value
  BY <1>2, <1>5, LidoLatestSets
<1>7. Lido!LastSet(sets, slot, is, h[0][slot]) =
          IF S = {} THEN h[0][slot] ELSE sets[Lido!Latest(S)].value
  BY <1>3, Zenon DEF Lido!LastSet
<1>8. ASSUME S # {} PROVE Lido!Latest(S) \in LidoSets
  <2>1. S \subseteq 1..n
    BY <1>1, <1>4, <1>5 DEF LidoSettings
  <2>2. Lido!Latest(S) \in S
    BY <1>1, <1>8, <2>1, LidoLatest
  <2> QED  BY <1>3, <2>2 DEF LidoSetsTo
<1> QED  BY <1>4, <1>6, <1>7, <1>8

LEMMA LidoStoreKeeps ==
    ASSUME LidoInv, Lido!StoreStorageVariables
    PROVE  LidoInv'
<1>1. PICK h, e : LidoAt(h, e)
  BY DEF LidoInv
<1>2. PICK n \in Nat : n = Len(block.writes)
  BY LidoNames DEF LidoNamed
<1>3. phase = "mine" /\ phase' = "map" /\ UNCHANGED <<chain, block, message, indexer>>
  BY DEF Lido!StoreStorageVariables
<1>4. h[n] = chain /\ h[0] = block.begin
      /\ \A slot \in Lido!Pooled : Lido!StartValue(slot) = h[0][slot]
  BY <1>1, <1>2, <1>3 DEF LidoAt, Chronicle, LidoStored
<1>5. LidoSets \subseteq 1..n /\ Lido!Sets = LidoSets
  BY <1>1, <1>2, LidoSetsAre
<1>6. ASSUME NEW slot \in Lido!Pooled PROVE stores'[slot] = chain'[slot]
  <2>1. stores' = [x \in Lido!Pooled |->
                      Lido!LastSet(block.writes, x, Lido!Sets, Lido!StartValue(x))]
    BY DEF Lido!StoreStorageVariables
  <2>2. stores'[slot] = Lido!LastSet(block.writes, slot, LidoSets, h[0][slot])
    BY <1>4, <1>5, <2>1
  <2>3. LidoSets = LidoSetsTo(n) /\ n \in 0..Len(block.writes)
    <3>1. \A i \in LidoSets : i <= n
      BY <1>2, <1>5
    <3> QED  BY <1>2, <3>1 DEF LidoSetsTo
  <2>4. Lido!LastSet(block.writes, slot, LidoSets, h[0][slot]) = h[n][slot]
    BY <1>1, <2>3, LidoLastSet
  <2> QED  BY <1>3, <1>4, <2>2, <2>4
<1>7. deltas' = [i \in LidoSets |->
          [tx |-> block.writes[i].tx, slot |-> block.writes[i].slot,
           value |-> block.writes[i].value, old |-> h[i - 1][block.writes[i].slot]]]
  <2>1. deltas' = [i \in Lido!Sets |->
           [tx |-> block.writes[i].tx, slot |-> block.writes[i].slot,
            value |-> block.writes[i].value,
            old |-> Lido!LastSet(block.writes, block.writes[i].slot,
                                 {j \in Lido!Sets : Lido!Earlier(j, i)},
                                 Lido!StartValue(block.writes[i].slot))]]
    BY DEF Lido!StoreStorageVariables
  <2>2. ASSUME NEW i \in LidoSets
        PROVE  Lido!LastSet(block.writes, block.writes[i].slot,
                            {j \in Lido!Sets : Lido!Earlier(j, i)},
                            Lido!StartValue(block.writes[i].slot))
               = h[i - 1][block.writes[i].slot]
    <3>1. PICK a, is, slot : /\ a = i - 1 /\ is = {j \in Lido!Sets : Lido!Earlier(j, i)}
                             /\ slot = block.writes[i].slot
      OBVIOUS
    <3>2. i \in 1..n /\ a \in 0..Len(block.writes)
      BY <1>2, <1>5, <3>1
    <3>3. slot \in Lido!Pooled
      BY <3>1 DEF LidoSets
    <3>4. \A j \in LidoSets : Lido!Earlier(j, i) <=> j <= a
      <4> TAKE j \in LidoSets
      <4>1. j \in 1..n /\ (Lido!Earlier(j, i) <=> j < i)
        BY <1>1, <1>2, <1>5, <3>2, LidoOrder
      <4> QED  BY <3>1, <3>2, <4>1
    <3>5. is = LidoSetsTo(a)
      BY <1>5, <3>1, <3>4 DEF LidoSetsTo
    <3>6. Lido!LastSet(block.writes, slot, is, h[0][slot]) = h[a][slot]
      BY <1>1, <3>2, <3>3, <3>5, LidoLastSet
    <3> QED  BY <1>4, <3>1, <3>3, <3>6
  <2> QED  BY <1>5, <2>1, <2>2
<1>8. LidoStored(h)'
  <2>1. LidoSets' = LidoSets
    BY <1>3 DEF LidoSets
  <2> QED  BY <1>3, <1>6, <1>7, <2>1 DEF LidoStored
<1>9. LidoAt(h, e)'
  BY <1>1, <1>3, <1>8 DEF LidoAt, LidoReported
<1>10. LidoTypes' /\ LidoKnown(indexer, block.begin, block.start)'
  BY <1>3 DEF LidoInv, LidoTypes, LidoKnown
<1> QED  BY <1>9, <1>10 DEF LidoInv

(* What the replay of the deltas starts from.                              *)
LEMMA LidoInitialValue ==
    ASSUME LidoInv, phase = "map", NEW h, NEW e, LidoAt(h, e), NEW slot \in Lido!Pooled
    PROVE  Lido!InitialValueForBlock(slot) = h[0][slot]
<1>1. PICK n \in Nat : n = Len(block.writes)
  BY LidoNames DEF LidoNamed
<1>2. LidoSets \subseteq 1..n /\ slot \in LidoSlot
  BY <1>1, LidoSetsAre, LidoConstants
<1>3. /\ stores[slot] = chain[slot] /\ h[n] = chain /\ h \in [0..n -> LidoStates]
      /\ deltas = [i \in LidoSets |->
            [tx |-> block.writes[i].tx, slot |-> block.writes[i].slot,
             value |-> block.writes[i].value, old |-> h[i - 1][block.writes[i].slot]]]
  BY <1>1 DEF LidoAt, LidoStored, Chronicle
<1>4. PICK S : S = {i \in DOMAIN deltas : deltas[i].slot = slot}
  OBVIOUS
<1>5. S = {i \in LidoSets : block.writes[i].slot = slot}
  BY <1>3, <1>4
<1>6. ASSUME NEW i \in 1..n PROVE LidoSetting(i, slot) <=> i \in S
  BY <1>1, <1>5 DEF LidoSetting, LidoSets
<1>7. PICK z : z = 0
  OBVIOUS
<1>8. CASE S = {}
  <2>1. z \in 0..Len(block.writes) /\ n \in 0..Len(block.writes) /\ z <= n
    BY <1>1, <1>7
  <2>2. \A i \in z + 1..n : ~LidoSetting(i, slot)
    BY <1>6, <1>7, <1>8
  <2>3. h[n][slot] = h[z][slot]
    BY <1>2, <2>1, <2>2, LidoSame
  <2>4. Lido!InitialValueForBlock(slot) = stores[slot]
    BY <1>4, <1>8, Zenon DEF Lido!InitialValueForBlock
  <2> QED  BY <1>3, <1>7, <2>3, <2>4
<1>9. CASE S # {}
  <2>1. PICK x \in S : \A j \in S : x <= j
    BY <1>1, <1>2, <1>5, <1>9, FirstIndex
  <2>2. PICK first : first = Lido!First(S)
    OBVIOUS
  <2>3. \A i, j \in S : Lido!Earlier(i, j) <=> i < j
    BY <1>1, <1>2, <1>5, LidoOrder
  <2>4. \A j \in S \ {x} : Lido!Earlier(x, j)
    BY <1>2, <1>5, <2>1, <2>3
  <2>5. first \in S /\ \A j \in S \ {first} : Lido!Earlier(first, j)
    BY <2>1, <2>2, <2>4, Zenon DEF Lido!First
  <2>6. first \in 1..n /\ \A j \in S : first <= j
    BY <1>2, <1>5, <2>3, <2>5
  <2>7. PICK a : a = first - 1
    OBVIOUS
  <2>8. z \in 0..Len(block.writes) /\ a \in 0..Len(block.writes) /\ z <= a
    BY <1>1, <1>7, <2>6, <2>7
  <2>9. \A i \in z + 1..a : ~LidoSetting(i, slot)
    BY <1>6, <1>7, <2>6, <2>7
  <2>10. h[a][slot] = h[z][slot]
    BY <1>2, <2>8, <2>9, LidoSame
  <2>11. deltas[first].old = h[a][slot]
    BY <1>3, <1>5, <2>5, <2>7
  <2>12. h[a][slot] # NoValue
    <3>1. h[a] \in LidoStates
      BY <1>1, <1>3, <2>8
    <3>2. h[a][slot] \in LidoValue
      BY <1>2, <3>1 DEF LidoStates
    <3> QED  BY <3>2, LidoConstants
  <2>13. Lido!InitialValueForBlock(slot) =
             IF deltas[first].old = NoValue THEN 0 ELSE deltas[first].old
    BY <1>4, <1>9, <2>2, Zenon DEF Lido!InitialValueForBlock
  <2> QED  BY <1>7, <2>10, <2>11, <2>12, <2>13
<1> QED  BY <1>8, <1>9

(* The totals depend on the four slots only.                               *)
SamePooled(s, s2) == \A slot \in Lido!Pooled : s[slot] = s2[slot]

LEMMA LidoTotal == \A s, s2 : SamePooled(s, s2) => Lido!TotalPooled(s) = Lido!TotalPooled(s2)
BY DEF SamePooled, Lido!TotalPooled, Lido!Pooled

(* The replayed total is that of the state after the write.                *)
LEMMA LidoTotalAfter ==
    ASSUME LidoInv, phase = "map", NEW h, NEW e, LidoAt(h, e), NEW i \in LidoSets
    PROVE  Lido!TotalAfter(i) = Lido!TotalPooled(h[i])
<1>1. PICK n \in Nat : n = Len(block.writes)
  BY LidoNames DEF LidoNamed
<1>2. LidoSets \subseteq 1..n
  BY <1>1, LidoSetsAre
<1>3. deltas = [j \in LidoSets |->
            [tx |-> block.writes[j].tx, slot |-> block.writes[j].slot,
             value |-> block.writes[j].value, old |-> h[j - 1][block.writes[j].slot]]]
  BY <1>1 DEF LidoAt, LidoStored
<1>4. DOMAIN deltas = LidoSets
      /\ \A j \in LidoSets : /\ deltas[j].slot = block.writes[j].slot
                             /\ deltas[j].value = block.writes[j].value
  BY <1>3
<1>5. PICK is, a : is = {j \in DOMAIN deltas : j = i \/ Lido!Earlier(j, i)} /\ a = i
  OBVIOUS
<1>6. \A j \in LidoSets : Lido!Earlier(j, i) <=> j < i
  BY <1>1, <1>2, LidoOrder
<1>7. is = LidoSetsTo(a) /\ a \in 0..Len(block.writes)
  <2>1. \A j \in LidoSets : j = i \/ Lido!Earlier(j, i) <=> j <= a
    BY <1>2, <1>5, <1>6
  <2>2. is = LidoSetsTo(a)
    BY <1>4, <1>5, <2>1 DEF LidoSetsTo
  <2> QED  BY <1>1, <1>2, <1>5, <2>2
<1>8. PICK s : s = [slot \in Lido!Pooled |->
                      Lido!LastSet(deltas, slot, is, Lido!InitialValueForBlock(slot))]
  OBVIOUS
<1>9. ASSUME NEW slot \in Lido!Pooled PROVE s[slot] = h[a][slot]
  <2>1. Lido!LastSet(deltas, slot, is, h[0][slot]) = h[a][slot]
    BY <1>4, <1>7, LidoLastSet
  <2> QED  BY <1>8, <2>1, LidoInitialValue
<1>10. Lido!TotalPooled(s) = Lido!TotalPooled(h[a])
  BY <1>9, LidoTotal DEF SamePooled
<1>11. Lido!TotalAfter(i) = Lido!TotalPooled(s)
  BY <1>5, <1>8, Zenon DEF Lido!TotalAfter
<1> QED  BY <1>5, <1>10, <1>11

(* The fields but for the totals, each of which follows one slot.          *)
LidoSlotOf(f) ==
    CASE f \in {"stETH:total_shares", "wstETH:total_shares"} -> "total_shares"
      [] f = "stETH:staking" -> "stake_limit"
      [] OTHER -> "total_wstETH"
LidoShown(f, value) == IF f = "stETH:staking" THEN Lido!StakingStatus(value) ELSE value

LEMMA LidoFields ==
    ASSUME NEW f \in Lido!Field
    PROVE  /\ f \in LidoTotals => /\ \A s : Lido!OnChain(s, f) = Lido!TotalPooled(s)
                                  /\ \A slot : f \notin Lido!FieldsOf(slot)
           /\ f \notin LidoTotals =>
                 /\ \A s : Lido!OnChain(s, f) = LidoShown(f, s[LidoSlotOf(f)])
                 /\ \A slot : f \in Lido!FieldsOf(slot) <=> slot = LidoSlotOf(f)
                 /\ LidoSlotOf(f) \in LidoSlot
<1>1. f \in {"stETH:pooled", "wstETH:pooled", "stETH:total_shares", "wstETH:total_shares",
             "stETH:staking", "wstETH:total_wstETH"}
  BY DEF Lido!Field
<1>2. CASE f \in LidoTotals
  <2>1. f = "stETH:pooled" \/ f = "wstETH:pooled"
    BY <1>2 DEF LidoTotals
  <2>2. \A s : Lido!OnChain(s, f) = Lido!TotalPooled(s)
    BY <2>1 DEF Lido!OnChain
  <2>3. \A slot : f \notin Lido!FieldsOf(slot)
    BY <2>1 DEF Lido!FieldsOf
  <2> QED  BY <1>2, <2>2, <2>3
<1>3. CASE f \in {"stETH:total_shares", "wstETH:total_shares"}
  <2>1. f \notin LidoTotals
    BY <1>3 DEF LidoTotals
  <2>2. LidoSlotOf(f) = "total_shares" /\ \A value : LidoShown(f, value) = value
    BY <1>3 DEF LidoSlotOf, LidoShown
  <2>3. \A s : Lido!OnChain(s, f) = s["total_shares"]
    BY <1>3 DEF Lido!OnChain
  <2>4. \A slot : f \in Lido!FieldsOf(slot) <=> slot = "total_shares"
    BY <1>3 DEF Lido!FieldsOf
  <2> QED  BY <2>1, <2>2, <2>3, <2>4 DEF LidoSlot, Lido!Direct
<1>4. CASE f = "stETH:staking"
  <2>1. f \notin LidoTotals
    BY <1>4 DEF LidoTotals
  <2>2. LidoSlotOf(f) = "stake_limit"
        /\ \A value : LidoShown(f, value) = Lido!StakingStatus(value)
    BY <1>4 DEF LidoSlotOf, LidoShown
  <2>3. \A s : Lido!OnChain(s, f) = Lido!StakingStatus(s["stake_limit"])
    BY <1>4 DEF Lido!OnChain
  <2>4. \A slot : f \in Lido!FieldsOf(slot) <=> slot = "stake_limit"
    BY <1>4 DEF Lido!FieldsOf
  <2> QED  BY <2>1, <2>2, <2>3, <2>4 DEF LidoSlot, Lido!Direct
<1>5. CASE f = "wstETH:total_wstETH"
  <2>1. f \notin LidoTotals
    BY <1>5 DEF LidoTotals
  <2>2. LidoSlotOf(f) = "total_wstETH" /\ \A value : LidoShown(f, value) = value
    BY <1>5 DEF LidoSlotOf, LidoShown
  <2>3. \A s : Lido!OnChain(s, f) = s["total_wstETH"]
    BY <1>5 DEF Lido!OnChain
  <2>4. \A slot : f \in Lido!FieldsOf(slot) <=> slot = "total_wstETH"
    BY <1>5 DEF Lido!FieldsOf
  <2> QED  BY <2>1, <2>2, <2>3, <2>4 DEF LidoSlot, Lido!Direct
<1> QED  BY <1>1, <1>2, <1>3, <1>4, <1>5 DEF LidoTotals

(* A transaction goes from the state after the a-th write to that after    *)
(* the b-th.                                                               *)
LidoSpan(t, a, b) ==
    /\ a \in 0..Len(block.writes) /\ b \in 0..Len(block.writes) /\ a <= b
    /\ \A i \in 1..Len(block.writes) : block.writes[i].tx = t <=> a < i /\ i <= b
    /\ t > block.tx => \A i \in 1..Len(block.writes) : block.writes[i].tx # t

LEMMA LidoSpans ==
    ASSUME LidoInv, NEW h, NEW e, LidoAt(h, e), NEW t \in 1..MaxTxs
    PROVE  LidoSpan(t, e[t - 1], e[t])
<1>1. PICK calls, open, writes, last, ends, n, m, k :
          LidoNamed(calls, open, writes, last, ends, n, m, k)
  BY LidoNames
<1>2. PICK X, D : X = LidoStates /\ D = LidoWrite
  OBVIOUS
<1>3. /\ writes \in Seq(D) /\ last \in 1..MaxTxs /\ n = Len(writes) /\ MaxTxs \in Nat \ {0}
      /\ Chronicle(h, e, writes, last, ends, chain, X)
      /\ writes = block.writes /\ last = block.tx /\ n \in Nat
  BY <1>1, <1>2, LidoConstants DEF LidoNamed, LidoAt
<1>4. /\ e[t - 1] \in 0..Len(writes) /\ e[t] \in 0..Len(writes) /\ e[t - 1] <= e[t]
      /\ \A i \in 1..Len(writes) : writes[i].tx = t <=> e[t - 1] < i /\ i <= e[t]
  BY <1>3, ChronicleSpan
<1>5. t > last => \A i \in 1..Len(writes) : writes[i].tx # t
  <2>1. \A i \in 1..Len(writes) : writes[i].tx \in 1..last
    BY <1>3 DEF Chronicle, Ends
  <2> QED  BY <1>3, <2>1
<1> QED  BY <1>3, <1>4, <1>5 DEF LidoSpan

LEMMA LidoEntityTold ==
    ASSUME LidoInv, NEW h, NEW e, LidoAt(h, e), NEW t \in 1..MaxTxs, NEW a, NEW b,
           LidoSpan(t, a, b), NEW told, told = Lido!EntityFields(t)
    PROVE  /\ DOMAIN told \subseteq Lido!Field \ LidoTotals
           /\ \A f \in DOMAIN told : told[f] = Lido!OnChain(h[b], f)
           /\ \A f \in Lido!Field \ LidoTotals :
                 f \in DOMAIN told \/ h[b][LidoSlotOf(f)] = h[a][LidoSlotOf(f)]
           /\ "stETH:total_shares" \in DOMAIN told <=> "wstETH:total_shares" \in DOMAIN told
           /\ t > block.tx => DOMAIN told = {}
<1>1. PICK n \in Nat : n = Len(block.writes) /\ DOMAIN block.writes = 1..n
  BY LidoNames DEF LidoNamed
<1>2. /\ a \in 0..n /\ b \in 0..n /\ a <= b
      /\ \A i \in 1..n : block.writes[i].tx = t <=> a < i /\ i <= b
  BY <1>1 DEF LidoSpan
<1>3. /\ DOMAIN told = {f \in Lido!Field : Lido!Changing(t, f) # {}}
      /\ \A f \in DOMAIN told :
            told[f] = LidoShown(f, block.writes[Lido!Latest(Lido!Changing(t, f))].value)
  <2>1. told = [f \in {f \in Lido!Field : Lido!Changing(t, f) # {}} |->
                  LidoShown(f, block.writes[Lido!Latest(Lido!Changing(t, f))].value)]
    BY Zenon DEF Lido!EntityFields, LidoShown
  <2> QED  BY <2>1
<1>4. ASSUME NEW f \in LidoTotals, f \in Lido!Field PROVE Lido!Changing(t, f) = {}
  BY <1>4, LidoFields DEF Lido!Changing
<1>5. ASSUME NEW f \in Lido!Field \ LidoTotals
      PROVE  Lido!Changing(t, f) = LidoSettings(a, b, LidoSlotOf(f))
  <2>1. \A slot : f \in Lido!FieldsOf(slot) <=> slot = LidoSlotOf(f)
    BY LidoFields
  <2>2. ASSUME NEW i PROVE i \in Lido!Changing(t, f) <=> i \in LidoSettings(a, b, LidoSlotOf(f))
    <3>1. i \in a + 1..b <=> i \in 1..n /\ block.writes[i].tx = t
      BY <1>1, <1>2
    <3> QED  BY <1>1, <2>1, <3>1 DEF Lido!Changing, LidoSettings, LidoSetting
  <2> QED  BY <2>2
<1>6. ASSUME NEW f \in Lido!Field \ LidoTotals
      PROVE  /\ f \in DOMAIN told => told[f] = Lido!OnChain(h[b], f)
             /\ f \notin DOMAIN told => h[b][LidoSlotOf(f)] = h[a][LidoSlotOf(f)]
  <2>1. PICK S : S = Lido!Changing(t, f)
    OBVIOUS
  <2>2. S = LidoSettings(a, b, LidoSlotOf(f)) /\ LidoSlotOf(f) \in LidoSlot
        /\ a \in 0..Len(block.writes) /\ b \in 0..Len(block.writes)
    BY <1>1, <1>2, <1>5, <2>1, LidoFields
  <2>3. /\ S = {} => h[b][LidoSlotOf(f)] = h[a][LidoSlotOf(f)]
        /\ S # {} => h[b][LidoSlotOf(f)] = block.writes[Lido!Latest(S)].value
    BY <1>2, <2>2, LidoLatestSets
  <2>4. Lido!OnChain(h[b], f) = LidoShown(f, h[b][LidoSlotOf(f)])
    BY LidoFields
  <2>5. f \in DOMAIN told <=> S # {}
    BY <1>3, <2>1
  <2> QED  BY <1>3, <2>1, <2>3, <2>4, <2>5
<1>7. "stETH:total_shares" \in DOMAIN told <=> "wstETH:total_shares" \in DOMAIN told
  <2>1. PICK f, g : f = "stETH:total_shares" /\ g = "wstETH:total_shares"
    OBVIOUS
  <2>2. f \in Lido!Field \ LidoTotals /\ g \in Lido!Field \ LidoTotals
    BY <2>1 DEF Lido!Field, LidoTotals
  <2>3. LidoSlotOf(f) = LidoSlotOf(g)
    BY <2>1 DEF LidoSlotOf
  <2> QED  BY <1>3, <1>5, <2>1, <2>2, <2>3
<1>8. ASSUME t > block.tx PROVE DOMAIN told = {}
  <2>1. \A i \in 1..n : block.writes[i].tx # t
    BY <1>1, <1>8 DEF LidoSpan
  <2>2. \A f : Lido!Changing(t, f) = {}
    BY <1>1, <2>1 DEF Lido!Changing
  <2> QED  BY <1>3, <2>2
<1> QED  BY <1>3, <1>4, <1>6, <1>7, <1>8

LEMMA LidoPooledTold ==
    ASSUME LidoInv, phase = "map", NEW h, NEW e, LidoAt(h, e), NEW t \in 1..MaxTxs,
           NEW a, NEW b, LidoSpan(t, a, b), NEW told, told = Lido!PooledFields(t)
    PROVE  /\ DOMAIN told \in {{}, LidoTotals}
           /\ \A f \in DOMAIN told : told[f] = Lido!TotalPooled(h[b])
           /\ \/ DOMAIN told = LidoTotals \/ block.start
              \/ Lido!TotalPooled(h[a]) = Lido!TotalPooled(h[b])
           /\ block.start \/ t > block.tx => DOMAIN told = {}
<1>1. PICK n \in Nat : n = Len(block.writes)
  BY LidoNames DEF LidoNamed
<1>2. /\ a \in 0..n /\ b \in 0..n /\ a <= b
      /\ \A i \in 1..n : block.writes[i].tx = t <=> a < i /\ i <= b
  BY <1>1 DEF LidoSpan
<1>3. LidoSets \subseteq 1..n
  BY <1>1, LidoSetsAre
<1>4. PICK S : S = {i \in DOMAIN deltas : deltas[i].tx = t}
  OBVIOUS
<1>5. S = {i \in LidoSets : block.writes[i].tx = t}
  <2>1. deltas = [j \in LidoSets |->
            [tx |-> block.writes[j].tx, slot |-> block.writes[j].slot,
             value |-> block.writes[j].value, old |-> h[j - 1][block.writes[j].slot]]]
    BY DEF LidoAt, LidoStored
  <2>2. DOMAIN deltas = LidoSets /\ \A i \in LidoSets : deltas[i].tx = block.writes[i].tx
    BY <2>1
  <2> QED  BY <1>4, <2>2
<1>6. /\ DOMAIN told = {f \in LidoTotals : ~block.start /\ S # {}}
      /\ \A f \in DOMAIN told : told[f] = Lido!TotalAfter(Lido!Latest(S))
  <2>1. told = [f \in {f \in {"stETH:pooled", "wstETH:pooled"} : ~block.start /\ S # {}} |->
                  Lido!TotalAfter(Lido!Latest(S))]
    BY <1>4, Zenon DEF Lido!PooledFields
  <2> QED  BY <2>1 DEF LidoTotals
<1>7. ASSUME S # {} PROVE Lido!TotalAfter(Lido!Latest(S)) = Lido!TotalPooled(h[b])
  <2>1. PICK x : x = Lido!Latest(S)
    OBVIOUS
  <2>2. S \subseteq 1..Len(block.writes)
    BY <1>1, <1>3, <1>5
  <2>3. x \in S /\ \A j \in S : j <= x
    BY <1>7, <2>1, <2>2, LidoLatest
  <2>4. x \in LidoSets /\ x \in 1..n /\ x <= b /\ a < x
    BY <1>2, <1>3, <1>5, <2>3
  <2>5. Lido!TotalAfter(x) = Lido!TotalPooled(h[x])
    BY <2>4, LidoTotalAfter
  <2>6. ASSUME NEW slot \in Lido!Pooled PROVE h[x][slot] = h[b][slot]
    <3>1. slot \in LidoSlot /\ x \in 0..Len(block.writes) /\ b \in 0..Len(block.writes)
      BY <1>1, <1>2, <2>4, LidoConstants
    <3>2. ASSUME NEW i \in x + 1..b PROVE ~LidoSetting(i, slot)
      <4>1. i \in 1..n /\ block.writes[i].tx = t /\ ~(i <= x)
        BY <1>2, <2>4
      <4>2. LidoSetting(i, slot) => i \in S
        BY <1>1, <1>5, <4>1 DEF LidoSets, LidoSetting
      <4> QED  BY <2>3, <4>1, <4>2
    <3> QED  BY <2>4, <3>1, <3>2, LidoSame
  <2>7. Lido!TotalPooled(h[x]) = Lido!TotalPooled(h[b])
    BY <2>6, LidoTotal DEF SamePooled
  <2> QED  BY <2>1, <2>5, <2>7
<1>8. ASSUME S = {} PROVE Lido!TotalPooled(h[a]) = Lido!TotalPooled(h[b])
  <2>1. ASSUME NEW slot \in Lido!Pooled PROVE h[a][slot] = h[b][slot]
    <3>1. slot \in LidoSlot /\ a \in 0..Len(block.writes) /\ b \in 0..Len(block.writes)
      BY <1>1, <1>2, LidoConstants
    <3>2. ASSUME NEW i \in a + 1..b PROVE ~LidoSetting(i, slot)
      <4>1. i \in 1..n /\ block.writes[i].tx = t
        BY <1>2
      <4>2. LidoSetting(i, slot) => i \in S
        BY <1>1, <1>5, <4>1 DEF LidoSets, LidoSetting
      <4> QED  BY <1>8, <4>2
    <3> QED  BY <1>2, <3>1, <3>2, LidoSame
  <2> QED  BY <2>1, LidoTotal DEF SamePooled
<1>9. ASSUME t > block.tx PROVE S = {}
  <2>1. \A i \in 1..n : block.writes[i].tx # t
    BY <1>1, <1>9 DEF LidoSpan
  <2> QED  BY <1>3, <1>5, <2>1
<1>10. block.start \in BOOLEAN
  BY LidoParts DEF LidoInv
<1>11. CASE block.start \/ S = {}
  BY <1>6, <1>8, <1>11
<1>12. CASE ~block.start /\ S # {}
  BY <1>6, <1>7, <1>9, <1>12
<1> QED  BY <1>11, <1>12

LEMMA LidoReports ==
    ASSUME LidoInv, phase = "map", NEW h, NEW e, LidoAt(h, e), NEW t \in 1..MaxTxs,
           NEW told, told = Lido!With(Lido!EntityFields(t), Lido!PooledFields(t))
    PROVE  /\ LidoReport(told, h[e[t - 1]], h[e[t]], block.start)
           /\ t > block.tx => DOMAIN told = {}
<1>1. PICK a, b : a = e[t - 1] /\ b = e[t]
  OBVIOUS
<1>2. LidoSpan(t, a, b)
  BY <1>1, LidoSpans
<1>3. PICK entity, pooled : entity = Lido!EntityFields(t) /\ pooled = Lido!PooledFields(t)
  OBVIOUS
<1>4. /\ DOMAIN entity \subseteq Lido!Field \ LidoTotals
      /\ \A f \in DOMAIN entity : entity[f] = Lido!OnChain(h[b], f)
      /\ \A f \in Lido!Field \ LidoTotals :
            f \in DOMAIN entity \/ h[b][LidoSlotOf(f)] = h[a][LidoSlotOf(f)]
      /\ "stETH:total_shares" \in DOMAIN entity <=> "wstETH:total_shares" \in DOMAIN entity
      /\ t > block.tx => DOMAIN entity = {}
  BY <1>2, <1>3, LidoEntityTold
<1>5. /\ DOMAIN pooled \in {{}, LidoTotals}
      /\ \A f \in DOMAIN pooled : pooled[f] = Lido!TotalPooled(h[b])
      /\ \/ DOMAIN pooled = LidoTotals \/ block.start
         \/ Lido!TotalPooled(h[a]) = Lido!TotalPooled(h[b])
      /\ block.start \/ t > block.tx => DOMAIN pooled = {}
  BY <1>2, <1>3, LidoPooledTold
<1>6. LidoTotals \subseteq Lido!Field /\ block.start \in BOOLEAN
  BY LidoParts DEF LidoTotals, Lido!Field, LidoInv
<1>7. told = [f \in DOMAIN entity \cup DOMAIN pooled |->
                 IF f \in DOMAIN pooled THEN pooled[f] ELSE entity[f]]
  BY <1>3 DEF Lido!With
<1>8. DOMAIN told = DOMAIN entity \cup DOMAIN pooled
  BY <1>7
<1>9. ASSUME NEW f \in DOMAIN told PROVE f \in Lido!Field /\ told[f] = Lido!OnChain(h[b], f)
  <2>1. CASE f \in DOMAIN pooled
    <3>1. f \in LidoTotals
      BY <1>5, <2>1
    <3> QED  BY <1>5, <1>6, <1>7, <1>9, <2>1, <3>1, LidoFields
  <2>2. CASE f \notin DOMAIN pooled
    BY <1>4, <1>7, <1>8, <1>9, <2>2
  <2> QED  BY <2>1, <2>2
<1>10. ASSUME NEW f \in Lido!Field, f \notin DOMAIN told
       PROVE  Lido!OnChain(h[a], f) = Lido!OnChain(h[b], f) \/ (block.start /\ f \in LidoTotals)
  <2>1. CASE f \in LidoTotals
    BY <1>5, <1>8, <1>10, <2>1, LidoFields
  <2>2. CASE f \notin LidoTotals
    BY <1>4, <1>8, <1>10, <2>2, LidoFields
  <2> QED  BY <2>1, <2>2
<1>11. "stETH:pooled" \in LidoTotals /\ "wstETH:pooled" \in LidoTotals
       /\ "stETH:total_shares" \notin LidoTotals /\ "wstETH:total_shares" \notin LidoTotals
  BY DEF LidoTotals
<1>12. "stETH:pooled" \in DOMAIN told <=> "wstETH:pooled" \in DOMAIN told
  BY <1>4, <1>5, <1>8, <1>11
<1>13. "stETH:total_shares" \in DOMAIN told <=> "wstETH:total_shares" \in DOMAIN told
  BY <1>4, <1>5, <1>8, <1>11
<1>14. block.start => \A f \in LidoTotals : f \notin DOMAIN told
  BY <1>4, <1>5, <1>8
<1>15. t > block.tx => DOMAIN told = {}
  BY <1>4, <1>5, <1>8
<1>16. LidoReport(told, h[a], h[b], block.start)
  BY <1>9, <1>10, <1>12, <1>13, <1>14 DEF LidoReport
<1> QED  BY <1>1, <1>15, <1>16

LEMMA LidoMapChangesKeeps ==
    ASSUME LidoInv, Lido!MapProtocolChanges
    PROVE  LidoInv'
<1>1. /\ phase = "map" /\ phase' = "apply" /\ UNCHANGED <<chain, block, stores, deltas, indexer>>
      /\ message' = [t \in 1..MaxTxs |-> Lido!With(Lido!EntityFields(t), Lido!PooledFields(t))]
  BY LidoConstants DEF Lido!MapProtocolChanges
<1>2. PICK h, e : LidoAt(h, e)
  BY DEF LidoInv
<1>3. ASSUME NEW t \in 1..MaxTxs
      PROVE  /\ LidoReport(message'[t], h[e[t - 1]], h[e[t]], block.start)
             /\ t > block.tx => DOMAIN message'[t] = {}
  <2>1. message'[t] = Lido!With(Lido!EntityFields(t), Lido!PooledFields(t))
    BY <1>1
  <2>2. PICK told : told = message'[t]
    OBVIOUS
  <2>3. /\ LidoReport(told, h[e[t - 1]], h[e[t]], block.start)
        /\ t > block.tx => DOMAIN told = {}
    BY <1>1, <1>2, <2>1, <2>2, LidoReports
  <2> QED  BY <2>2, <2>3
<1>4. block' = block
  BY <1>1
<1>5. LidoReported(h, e)'
  <2>1. ASSUME NEW t \in 1..MaxTxs
        PROVE  /\ LidoReport(message'[t], h[e[t - 1]], h[e[t]], block'.start)
               /\ t > block'.tx => DOMAIN message'[t] = {}
    BY <1>3, <1>4
  <2> QED  BY <2>1 DEF LidoReported
<1>6. LidoSets' = LidoSets
  BY <1>1 DEF LidoSets
<1>7. LidoStored(h)'
  BY <1>1, <1>2, <1>6 DEF LidoAt, LidoStored
<1>8. LidoAt(h, e)'
  BY <1>1, <1>2, <1>5, <1>7 DEF LidoAt
<1>9. LidoTypes' /\ LidoKnown(indexer, block.begin, block.start)'
  BY <1>1 DEF LidoInv, LidoTypes, LidoKnown
<1> QED  BY <1>8, <1>9 DEF LidoInv

(* A consumer that knew the state before a transaction knows the one after *)
(* it.                                                                     *)
LEMMA LidoTold ==
    ASSUME NEW known, NEW told, NEW was, NEW now, NEW start \in BOOLEAN,
           LidoKnown(known, was, start), LidoReport(told, was, now, start),
           NEW after, after = Lido!With(known, told)
    PROVE  LidoKnown(after, now, start)
<1>1. after = [f \in DOMAIN known \cup DOMAIN told |->
                  IF f \in DOMAIN told THEN told[f] ELSE known[f]]
  BY DEF Lido!With
<1>2. /\ DOMAIN known = Lido!Field /\ DOMAIN told \subseteq Lido!Field
  BY DEF LidoKnown, LidoReport
<1>3. DOMAIN after = Lido!Field
      /\ \A f \in Lido!Field : after[f] = IF f \in DOMAIN told THEN told[f] ELSE known[f]
  BY <1>1, <1>2
<1>4. ASSUME NEW f \in Lido!Field PROVE after[f] = NoValue \/ after[f] = Lido!OnChain(now, f)
  <2>1. CASE f \in DOMAIN told
    BY <1>3, <2>1 DEF LidoReport
  <2>2. CASE f \notin DOMAIN told
    BY <1>3, <2>2 DEF LidoReport, LidoKnown
  <2> QED  BY <2>1, <2>2
<1>5. LidoTotals \subseteq Lido!Field
  BY DEF LidoTotals, Lido!Field
<1>6. ASSUME start, NEW f \in LidoTotals PROVE after[f] = NoValue
  BY <1>3, <1>5, <1>6 DEF LidoReport, LidoKnown
<1>7. PICK f, g : f = "stETH:pooled" /\ g = "wstETH:pooled"
  OBVIOUS
<1>8. after[f] = after[g]
  <2>1. f \in Lido!Field /\ g \in Lido!Field
    BY <1>7 DEF Lido!Field
  <2>2. f \in DOMAIN told <=> g \in DOMAIN told
    BY <1>7 DEF LidoReport
  <2>3. Lido!OnChain(now, f) = Lido!OnChain(now, g)
    BY <1>7 DEF Lido!OnChain
  <2>4. known[f] = known[g]
    BY <1>7 DEF LidoKnown
  <2>5. f \in DOMAIN told => told[f] = told[g]
    BY <2>2, <2>3 DEF LidoReport
  <2> QED  BY <1>3, <2>1, <2>2, <2>4, <2>5
<1>9. PICK f2, g2 : f2 = "stETH:total_shares" /\ g2 = "wstETH:total_shares"
  OBVIOUS
<1>10. after[f2] = after[g2]
  <2>1. f2 \in Lido!Field /\ g2 \in Lido!Field
    BY <1>9 DEF Lido!Field
  <2>2. f2 \in DOMAIN told <=> g2 \in DOMAIN told
    BY <1>9 DEF LidoReport
  <2>3. Lido!OnChain(now, f2) = Lido!OnChain(now, g2)
    BY <1>9 DEF Lido!OnChain
  <2>4. known[f2] = known[g2]
    BY <1>9 DEF LidoKnown
  <2>5. f2 \in DOMAIN told => told[f2] = told[g2]
    BY <2>2, <2>3 DEF LidoReport
  <2> QED  BY <1>3, <2>1, <2>2, <2>4, <2>5
<1> QED  BY <1>3, <1>4, <1>6, <1>7, <1>8, <1>9, <1>10 DEF LidoKnown

LidoFollows(f, n) ==
    f[0] = indexer /\ \A i \in 1..n : f[i] = Lido!With(f[i - 1], message[i])
LidoKnownEq(f, n) ==
    f = [i \in 0..n |-> IF i = 0 THEN indexer ELSE Lido!With(f[i - 1], message[i])]
LidoFollowed(n) == CHOOSE f : LidoKnownEq(f, n)

LEMMA LidoFollowing == ASSUME NEW n \in Nat PROVE LidoFollows(LidoFollowed(n), n)
<1> DEFINE S == {m \in 0..n : \E f : LidoFollows(f, m)}
<1>1. 0 \in S
  <2>1. PICK f : f = [i \in 0..0 |-> indexer]
    OBVIOUS
  <2>2. LidoFollows(f, 0)
    BY <2>1 DEF LidoFollows
  <2> QED  BY <2>2
<1>2. ASSUME NEW m \in 0..n, m < n, m \in S PROVE m + 1 \in S
  <2>1. PICK f : LidoFollows(f, m)
    BY <1>2
  <2>2. PICK g : g = [i \in 0..m + 1 |-> IF i <= m THEN f[i]
                                         ELSE Lido!With(f[m], message[m + 1])]
    OBVIOUS
  <2>3. \A i \in 0..m : g[i] = f[i]
    BY <2>2
  <2>4. g[m + 1] = Lido!With(f[m], message[m + 1])
    BY <2>2
  <2>5. ASSUME NEW i \in 1..m + 1 PROVE g[i] = Lido!With(g[i - 1], message[i])
    <3>1. CASE i = m + 1
      <4>1. i - 1 = m /\ m \in 0..m
        BY <3>1
      <4> QED  BY <2>3, <2>4, <3>1, <4>1
    <3>2. CASE i # m + 1
      <4>1. i \in 0..m /\ i - 1 \in 0..m /\ i \in 1..m
        BY <3>2
      <4>2. f[i] = Lido!With(f[i - 1], message[i])
        BY <2>1, <4>1 DEF LidoFollows
      <4> QED  BY <2>3, <4>1, <4>2
    <3> QED  BY <3>1, <3>2
  <2>6. g[0] = indexer
    BY <2>1, <2>3 DEF LidoFollows
  <2>7. LidoFollows(g, m + 1)
    BY <2>5, <2>6 DEF LidoFollows
  <2>8. m + 1 \in 0..n
    BY <1>2
  <2> QED  BY <2>7, <2>8
<1>3. \A m \in 0..n : m \in S
  <2> HIDE DEF S
  <2>1. 0 \in Nat
    OBVIOUS
  <2> QED  BY <1>1, <1>2, <2>1, FromTo
<1>4. PICK f : LidoFollows(f, n)
  <2>1. n \in 0..n
    OBVIOUS
  <2> QED  BY <1>3, <2>1
<1>5. PICK g : g = [i \in 0..n |-> f[i]]
  OBVIOUS
<1>6. LidoKnownEq(g, n)
  <2>1. ASSUME NEW i \in 0..n
        PROVE  g[i] = IF i = 0 THEN indexer ELSE Lido!With(g[i - 1], message[i])
    <3>1. CASE i = 0
      BY <1>4, <1>5, <3>1 DEF LidoFollows
    <3>2. CASE i # 0
      <4>1. i \in 1..n /\ i - 1 \in 0..n
        BY <3>2
      <4> QED  BY <1>4, <1>5, <3>2, <4>1 DEF LidoFollows
    <3> QED  BY <3>1, <3>2
  <2>2. g = [i \in 0..n |-> g[i]]
    BY <1>5
  <2> QED  BY <2>1, <2>2 DEF LidoKnownEq
<1>7. PICK c : c = LidoFollowed(n)
  OBVIOUS
<1>8. LidoKnownEq(c, n)
  BY <1>6, <1>7 DEF LidoFollowed
<1>9. c[0] = indexer
  BY <1>8 DEF LidoKnownEq
<1>10. ASSUME NEW i \in 1..n PROVE c[i] = Lido!With(c[i - 1], message[i])
  <2>1. i \in 0..n /\ i # 0
    OBVIOUS
  <2> QED  BY <1>8, <2>1 DEF LidoKnownEq
<1> QED  BY <1>7, <1>9, <1>10 DEF LidoFollows

(* The states at both ends of the history.                                 *)
LEMMA LidoBothEnds ==
    ASSUME LidoInv, NEW h, NEW e, LidoAt(h, e)
    PROVE  /\ h[e[0]] = block.begin /\ h[e[MaxTxs]] = chain
           /\ \A t \in 1..block.tx : block.txEnd[t] = h[e[t]]
           /\ Len(block.writes) = 0 => chain = block.begin
<1>1. PICK calls, open, writes, last, ends, n, m, k :
          LidoNamed(calls, open, writes, last, ends, n, m, k)
  BY LidoNames
<1>2. PICK X, D : X = LidoStates /\ D = LidoWrite
  OBVIOUS
<1>3. /\ writes \in Seq(D) /\ last \in 1..MaxTxs /\ n = Len(writes) /\ MaxTxs \in Nat \ {0}
      /\ Chronicle(h, e, writes, last, ends, chain, X)
      /\ writes = block.writes /\ last = block.tx /\ ends = block.txEnd /\ n \in Nat
  BY <1>1, <1>2, LidoConstants DEF LidoNamed, LidoAt
<1>4. Ends(e, writes, last) /\ h[n] = chain /\ \A t \in 1..last : ends[t] = h[e[t]]
  BY <1>3 DEF Chronicle
<1>5. e[0] = 0 /\ e[MaxTxs] = n
  BY <1>3, <1>4 DEF Ends
<1>6. h[0] = block.begin
  BY DEF LidoAt
<1>7. Len(writes) = 0 => n = 0
  BY <1>3
<1> QED  BY <1>3, <1>4, <1>5, <1>6, <1>7

LEMMA LidoKnows ==
    ASSUME LidoInv, NEW h, NEW e, LidoAt(h, e), phase = "apply"
    PROVE  LidoKnown(Lido!KnownAfter(MaxTxs), chain, block.start)
<1>1. PICK n \in Nat : n = MaxTxs
  BY LidoConstants
<1>2. /\ \A t \in 1..n : LidoReport(message[t], h[e[t - 1]], h[e[t]], block.start)
      /\ LidoKnown(indexer, h[e[0]], block.start) /\ h[e[n]] = chain
      /\ block.start \in BOOLEAN
  BY <1>1, LidoBothEnds, LidoParts DEF LidoInv, LidoAt, LidoReported
<1>3. PICK c : c = LidoFollowed(n)
  OBVIOUS
<1>4. LidoFollows(c, n)
  BY <1>3, LidoFollowing
<1>5. Lido!KnownAfter(n) = c[n]
  BY <1>1, <1>3 DEF Lido!KnownAfter, LidoFollowed, LidoKnownEq
<1> DEFINE S == {t \in 0..n : LidoKnown(c[t], h[e[t]], block.start)}
<1>6. 0 \in S
  BY <1>2, <1>4 DEF LidoFollows
<1>7. ASSUME NEW t \in 0..n, t < n, t \in S PROVE t + 1 \in S
  <2>1. PICK u : u = t + 1
    OBVIOUS
  <2>2. u \in 1..n /\ u - 1 = t /\ u \in 0..n
    BY <1>7, <2>1
  <2>3. PICK known, told, was, now, after :
            /\ known = c[u - 1] /\ told = message[u] /\ was = h[e[u - 1]] /\ now = h[e[u]]
            /\ after = Lido!With(known, told)
    OBVIOUS
  <2>4. LidoKnown(known, was, block.start) /\ LidoReport(told, was, now, block.start)
    BY <1>2, <1>7, <2>2, <2>3
  <2>5. LidoKnown(after, now, block.start)
    BY <1>2, <2>3, <2>4, LidoTold
  <2>6. c[u] = after
    BY <1>4, <2>2, <2>3 DEF LidoFollows
  <2> QED  BY <2>1, <2>2, <2>3, <2>5, <2>6
<1>8. \A t \in 0..n : t \in S
  <2> HIDE DEF S
  <2>1. 0 \in Nat
    OBVIOUS
  <2> QED  BY <1>6, <1>7, <2>1, FromTo
<1>9. n \in S
  <2>1. n \in 0..n
    OBVIOUS
  <2> QED  BY <1>8, <2>1
<1> QED  BY <1>1, <1>2, <1>5, <1>9

LEMMA LidoApplyKeeps == ASSUME LidoInv, Lido!Apply PROVE LidoInv'
<1>1. /\ phase = "apply" /\ phase' = "mine" /\ UNCHANGED <<chain, stores>>
      /\ indexer' = Lido!KnownAfter(MaxTxs) /\ block' = Lido!NewBlock(FALSE, chain)
  BY DEF Lido!Apply
<1>2. PICK h0, e0 : LidoAt(h0, e0)
  BY DEF LidoInv
<1>3. chain \in LidoStates
  BY DEF LidoInv, LidoTypes
<1>4. block' \in LidoBlock /\ block'.start = FALSE /\ block'.begin = chain
      /\ LidoBegun(block', chain)
  BY <1>1, <1>3, LidoNewBlock
<1>5. LidoKnown(indexer, block.begin, block.start)'
  <2>1. LidoKnown(indexer', chain, block.start)
    BY <1>1, <1>2, LidoKnows
  <2> QED  BY <1>4, <2>1 DEF LidoKnown
<1>6. PICK h, e : LidoHistory(block', chain, h, e)
  BY <1>4 DEF LidoBegun
<1>7. LidoStored(h)'
  <2>1. \A slot \in Lido!Pooled : stores[slot] = chain[slot]
    BY <1>1, <1>2 DEF LidoAt, LidoStored
  <2>2. \A slot \in Lido!Pooled : stores'[slot] = block'.begin[slot]
    BY <1>1, <1>4, <2>1
  <2> QED  BY <1>1, <1>4, <2>2 DEF LidoStored, Lido!StartValue
<1>8. LidoAt(h, e)'
  BY <1>1, <1>4, <1>6, <1>7 DEF LidoAt, LidoHistory, LidoReported
<1>9. LidoTypes'
  BY <1>1, <1>3, <1>4 DEF LidoTypes
<1> QED  BY <1>5, <1>8, <1>9 DEF LidoInv

LEMMA LidoNextInv == LidoInv /\ [Lido!Next]_Lido!vars => LidoInv'
<1> SUFFICES ASSUME LidoInv, [Lido!Next]_Lido!vars PROVE LidoInv'
  OBVIOUS
<1>1. ASSUME NEW kind \in DOMAIN Lido!CallKind, Lido!Call(kind) PROVE LidoInv'
  BY <1>1, LidoCallKeeps
<1>2. ASSUME NEW slot \in WrittenSlots, NEW value \in Lido!Value(slot), Lido!Write(slot, value)
      PROVE  LidoInv'
  BY <1>2, LidoWriteKeeps
<1>3. ASSUME NEW failed \in BOOLEAN, Lido!Return(failed) PROVE LidoInv'
  BY <1>3, LidoReturnKeeps
<1>4. CASE Lido!NextTx
  BY <1>4, LidoNextTxKeeps
<1>5. CASE Lido!StoreStorageVariables
  BY <1>5, LidoStoreKeeps
<1>6. CASE Lido!MapProtocolChanges
  BY <1>6, LidoMapChangesKeeps
<1>7. CASE Lido!Apply
  BY <1>7, LidoApplyKeeps
<1>8. CASE UNCHANGED Lido!vars
  <2>1. UNCHANGED <<chain, block, phase, stores, deltas, message, indexer>>
    BY <1>8 DEF Lido!vars
  <2>2. PICK h, e : LidoAt(h, e)
    BY DEF LidoInv
  <2>3. LidoSets' = LidoSets
    BY <2>1 DEF LidoSets
  <2>4. LidoStored(h)'
    BY <2>1, <2>2, <2>3 DEF LidoAt, LidoStored, Lido!StartValue
  <2>5. LidoAt(h, e)'
    BY <2>1, <2>2, <2>4 DEF LidoAt, LidoReported
  <2>6. LidoTypes' /\ LidoKnown(indexer, block.begin, block.start)'
    BY <2>1 DEF LidoInv, LidoTypes, LidoKnown
  <2> QED  BY <2>5, <2>6 DEF LidoInv
<1> QED  BY <1>1, <1>2, <1>3, <1>4, <1>5, <1>6, <1>7, <1>8 DEF Lido!Next

LEMMA LidoInvMirrors ==
    LidoInv => Lido!ReportedPerTransaction /\ Lido!BothMirrored /\ Lido!StoreFollowsSlots
<1> SUFFICES ASSUME LidoInv
             PROVE  Lido!ReportedPerTransaction /\ Lido!BothMirrored /\ Lido!StoreFollowsSlots
  OBVIOUS
<1>1. PICK h, e : LidoAt(h, e)
  BY DEF LidoInv
<1>2. /\ h[e[0]] = block.begin /\ h[e[MaxTxs]] = chain
      /\ \A t \in 1..block.tx : block.txEnd[t] = h[e[t]]
      /\ Len(block.writes) = 0 => chain = block.begin
  BY <1>1, LidoBothEnds
<1>3. PICK last \in 1..MaxTxs : last = block.tx
  BY LidoParts DEF LidoInv
<1>4. Lido!StoreFollowsSlots
  BY <1>1 DEF Lido!StoreFollowsSlots, LidoAt, LidoStored
<1>5. Lido!BothMirrored
  <2> SUFFICES ASSUME phase = "mine", block.calls = <<>>
               PROVE  /\ \A f \in Lido!Field : indexer[f] \in {NoValue, Lido!OnChain(chain, f)}
                      /\ indexer["stETH:pooled"] = indexer["wstETH:pooled"]
                      /\ indexer["stETH:total_shares"] = indexer["wstETH:total_shares"]
    BY DEF Lido!BothMirrored
  <2>1. Len(block.writes) = 0
    <3>1. Len(block.calls) = 0 /\ LidoTrace(block.writes, block.calls)
      BY <1>1 DEF LidoAt
    <3>2. PICK writes, D, n : /\ writes = block.writes /\ writes \in Seq(D)
                              /\ n = Len(writes) /\ n \in Nat
      BY LidoNames DEF LidoNamed
    <3>3. ~(1 \in 1..n)
      BY <3>1, <3>2 DEF LidoTrace
    <3>4. n = 0
      BY <3>2, <3>3
    <3> QED  BY <3>2, <3>4
  <2>2. LidoKnown(indexer, chain, block.start)
    BY <1>2, <2>1 DEF LidoInv
  <2> QED  BY <2>2 DEF LidoKnown
<1>6. Lido!ReportedPerTransaction
  <2> SUFFICES ASSUME phase = "apply", NEW t \in 1..MaxTxs, NEW f \in Lido!Field
               PROVE  LET before == IF t = 1 THEN block.begin ELSE block.txEnd[t - 1]
                      IN  /\ f \in DOMAIN message[t]
                                => message[t][f] = Lido!OnChain(block.txEnd[t], f)
                          /\ t <= block.tx
                             /\ Lido!OnChain(before, f) # Lido!OnChain(block.txEnd[t], f)
                                => \/ f \in DOMAIN message[t]
                                   \/ block.start /\ f \in {"stETH:pooled", "wstETH:pooled"}
    BY LidoConstants, Zenon DEF Lido!ReportedPerTransaction
  <2>1. PICK told, before : /\ told = message[t]
                            /\ before = IF t = 1 THEN block.begin ELSE block.txEnd[t - 1]
    OBVIOUS
  <2>2. /\ LidoReport(told, h[e[t - 1]], h[e[t]], block.start)
        /\ t > last => DOMAIN told = {}
    BY <1>1, <1>3, <2>1 DEF LidoAt, LidoReported
  <2>3. ASSUME t <= last
        PROVE  block.txEnd[t] = h[e[t]] /\ before = h[e[t - 1]]
    <3>1. t \in 1..block.tx
      BY <1>3, <2>3
    <3>2. CASE t = 1
      <4>1. t - 1 = 0
        BY <3>2
      <4> QED  BY <1>2, <2>1, <3>1, <3>2, <4>1
    <3>3. CASE t # 1
      <4>1. t - 1 \in 1..block.tx
        BY <1>3, <2>3, <3>3
      <4> QED  BY <1>2, <2>1, <3>1, <3>3, <4>1
    <3> QED  BY <3>2, <3>3
  <2>4. f \in DOMAIN told => told[f] = Lido!OnChain(block.txEnd[t], f)
    <3>1. ASSUME f \in DOMAIN told PROVE t <= last
      BY <1>3, <2>2, <3>1
    <3> QED  BY <2>2, <2>3, <3>1 DEF LidoReport
  <2>5. t <= block.tx /\ Lido!OnChain(before, f) # Lido!OnChain(block.txEnd[t], f)
           => f \in DOMAIN told \/ (block.start /\ f \in {"stETH:pooled", "wstETH:pooled"})
    BY <1>3, <2>2, <2>3 DEF LidoReport, LidoTotals
  <2> QED  BY <2>1, <2>4, <2>5, Zenon
<1> QED  BY <1>4, <1>5, <1>6

LidoRunning == integration = "lido" => LidoInv

LEMMA LidoRuns == IntegrationSpec => []LidoRunning
<1>1. IntegrationInit => LidoRunning
  BY LidoInit DEF IntegrationInit, LidoRunning
<1>2. LidoRunning /\ [IntegrationNext]_<<integration, vars, pipelineVars>> => LidoRunning'
  <2> SUFFICES ASSUME LidoRunning, [IntegrationNext]_<<integration, vars, pipelineVars>>
               PROVE  LidoRunning'
    OBVIOUS
  <2>1. CASE integration = "lido"
    <3>1. integration' = integration /\ [Lido!Next]_Lido!vars
      BY <2>1 DEF IntegrationNext, Lido!vars, vars, pipelineVars
    <3> QED  BY <2>1, <3>1, LidoNextInv DEF LidoRunning
  <2>2. CASE integration # "lido"
    <3>1. integration' = integration
      BY DEF IntegrationNext
    <3> QED  BY <2>2, <3>1 DEF LidoRunning
  <2> QED  BY <2>1, <2>2
<1> QED  BY <1>1, <1>2, PTL DEF IntegrationSpec

(* Whatever a transaction reports of Lido is the value at its end, every   *)
(* field that it changes is reported but for the totals of the start       *)
(* block, both components are told alike, and the store follows the four   *)
(* slots: for any values, any number of transactions and any nesting and   *)
(* failure of the calls, provided that none writes after one nested in it. *)
THEOREM LidoIsMirrored == IntegrationSpec => []LidoMirrored
<1>1. LidoRunning => LidoMirrored
  BY LidoInvMirrors DEF LidoRunning, LidoMirrored
<1> QED  BY <1>1, LidoRuns, PTL
=============================================================================
