-------------------------- MODULE PortfolioProofs ---------------------------
(***************************************************************************)
(* Proofs about the scanner's pick, about the price a position is marked   *)
(* with, about its gain, and about the sums of compute_pnl over any list   *)
(* of results, for any quotes.                                             *)
(***************************************************************************)
EXTENDS Portfolio, TLAPS, FiniteSetTheorems

Quote == [usd : Nat, change : Int]
Prices == [Coins -> Quote]

\* The pick for a bitcoin score b and an ether score e of the momentum, when
\* all pairs have the same size score.
Leader(prices) ==
  IF NormaliseMomentum(prices["bitcoin"].change)
       - NormaliseMomentum(prices["ethereum"].change) > 66 THEN 3 ELSE 1

-----------------------------------------------------------------------------

\* The clamped momentum of scanner.py is a score.
LEMMA MomentumScore ==
  ASSUME NEW x \in Int
  PROVE  /\ NormaliseMomentum(x) \in Int
         /\ 0 <= NormaliseMomentum(x) /\ NormaliseMomentum(x) <= 1000
  BY DEF NormaliseMomentum, Clamp

\* So is the fit of the size, which never falls below 0.3.
LEMMA SizeScore ==
  ASSUME NEW a \in Nat, NEW sym \in {"ETH", "WETH", "cbBTC"}
  PROVE  /\ SizeFit(a, sym) \in Int
         /\ 300 <= SizeFit(a, sym) /\ SizeFit(a, sym) <= 1000
  <1>1. PICK eth \in Nat : eth = IF sym = "cbBTC" THEN 30 * a ELSE a
    <2>1. 30 * a \in Nat
      OBVIOUS
    <2> QED BY <2>1
  <1>2. SizeFit(a, sym) = IF eth < 10 THEN Clamp(100 * eth, 300, 1000)
                          ELSE IF eth <= 100000 THEN 1000
                          ELSE Clamp(100000000 \div eth, 300, 1000)
    BY <1>1 DEF SizeFit
  <1>3. \A x \in Int : /\ Clamp(x, 300, 1000) \in Int
                      /\ 300 <= Clamp(x, 300, 1000) /\ Clamp(x, 300, 1000) <= 1000
    BY DEF Clamp
  <1>4. CASE eth < 10
    BY <1>2, <1>3, <1>4
  <1>5. CASE eth >= 10 /\ eth <= 100000
    BY <1>2, <1>5
  <1>6. CASE eth > 100000
    <2>1. 100000000 \div eth \in Int
      BY <1>6
    <2> QED BY <2>1, <1>2, <1>3, <1>6
  <1> QED BY <1>4, <1>5, <1>6

\* The four composites, the priors put in.
LEMMA Composites ==
  ASSUME NEW prices \in Prices, NEW a \in Nat
  PROVE  LET e == NormaliseMomentum(prices["ethereum"].change)
             b == NormaliseMomentum(prices["bitcoin"].change)
             s == SizeFit(a, "ETH")
         IN  /\ Composite(PAIRS[1], prices, a) = 40 * e + 43400 + 15 * s
             /\ Composite(PAIRS[2], prices, a) = 40 * e + 41350 + 15 * s
             /\ Composite(PAIRS[3], prices, a) = 40 * b + 40750 + 15 * SizeFit(a, "cbBTC")
             /\ Composite(PAIRS[4], prices, a) = 40 * e + 41100 + 15 * s
  <1> DEFINE e == NormaliseMomentum(prices["ethereum"].change)
             b == NormaliseMomentum(prices["bitcoin"].change)
  <1>1. prices["ethereum"].change \in Int /\ prices["bitcoin"].change \in Int
    BY DEF Prices, Quote, Coins
  <1>2. e \in Int /\ b \in Int
    BY <1>1, MomentumScore
  <1>3. SizeFit(a, "ETH") \in Int /\ SizeFit(a, "cbBTC") \in Int
    BY SizeScore
  <1>4. SizeFit(a, "WETH") = SizeFit(a, "ETH")
    BY DEF SizeFit
  <1> HIDE DEF e, b
  <1>5. /\ Composite(PAIRS[1], prices, a) = 40 * e + 25 * 1000 + 20 * 920 + 15 * SizeFit(a, "ETH")
        /\ Composite(PAIRS[2], prices, a) = 40 * e + 25 * 950 + 20 * 880 + 15 * SizeFit(a, "ETH")
        /\ Composite(PAIRS[3], prices, a) = 40 * b + 25 * 950 + 20 * 850 + 15 * SizeFit(a, "cbBTC")
        /\ Composite(PAIRS[4], prices, a) = 40 * e + 25 * 900 + 20 * 930 + 15 * SizeFit(a, "WETH")
    BY DEF Composite, PAIRS, e, b
  <1>6. /\ Composite(PAIRS[1], prices, a) = 40 * e + 43400 + 15 * SizeFit(a, "ETH")
        /\ Composite(PAIRS[2], prices, a) = 40 * e + 41350 + 15 * SizeFit(a, "ETH")
        /\ Composite(PAIRS[3], prices, a) = 40 * b + 40750 + 15 * SizeFit(a, "cbBTC")
        /\ Composite(PAIRS[4], prices, a) = 40 * e + 41100 + 15 * SizeFit(a, "ETH")
    BY <1>2, <1>3, <1>4, <1>5
  <1> QED BY <1>6 DEF e, b

\* The pick is the pair that comes before the three others.
LEMMA TheBest ==
  ASSUME NEW prices, NEW a, NEW i \in 1 .. 4,
         \A j \in 1 .. 4 : i # j => Before(i, j, prices, a),
         \A j \in 1 .. 4 : i # j => ~Before(j, i, prices, a)
  PROVE  BestOf(prices, a) = i
  <1>1. Len(PAIRS) = 4
    BY DEF PAIRS
  <1>2. \A k \in 1 .. 4 : (\A j \in 1 .. 4 : k # j => Before(k, j, prices, a)) => k = i
    OBVIOUS
  <1> QED BY <1>1, <1>2 DEF BestOf

\* scan_pairs: whatever the prices and the size, the pick is ETH_USDC or
\* cbBTC_USDC; the other two pairs are listed and never traded.
THEOREM TwoPairs ==
  ASSUME NEW prices \in Prices, NEW a \in Nat
  PROVE  BestOf(prices, a) \in {1, 3}
  <1> DEFINE c(i) == Composite(PAIRS[i], prices, a)
  <1>1. c(1) \in Int /\ c(2) \in Int /\ c(3) \in Int /\ c(4) \in Int /\ c(1) > c(2) /\ c(1) > c(4)
    <2>1. prices["ethereum"].change \in Int /\ prices["bitcoin"].change \in Int
      BY DEF Prices, Quote, Coins
    <2>2. /\ NormaliseMomentum(prices["ethereum"].change) \in Int
          /\ NormaliseMomentum(prices["bitcoin"].change) \in Int
          /\ SizeFit(a, "ETH") \in Int /\ SizeFit(a, "cbBTC") \in Int
      BY <2>1, MomentumScore, SizeScore
    <2> QED BY <2>2, Composites
  <1>2. \A i, j \in 1 .. 4 : Before(i, j, prices, a) <=> c(i) > c(j) \/ (c(i) = c(j) /\ i < j)
    BY DEF Before
  <1> HIDE DEF c
  <1>3. CASE c(3) > c(1)
    <2>1. /\ \A j \in 1 .. 4 : 3 # j => Before(3, j, prices, a)
          /\ \A j \in 1 .. 4 : 3 # j => ~Before(j, 3, prices, a)
      BY <1>1, <1>2, <1>3
    <2> QED BY <2>1, TheBest
  <1>4. CASE c(3) <= c(1)
    <2>1. /\ \A j \in 1 .. 4 : 1 # j => Before(1, j, prices, a)
          /\ \A j \in 1 .. 4 : 1 # j => ~Before(j, 1, prices, a)
      BY <1>1, <1>2, <1>4
    <2> QED BY <2>1, TheBest
  <1> QED BY <1>1, <1>3, <1>4

\* For the demo's sizes the momentum decides between the two.
LEMMA MomentumDecides ==
  ASSUME NEW prices \in Prices, NEW a \in {0, 100}
  PROVE  BestOf(prices, a) = Leader(prices)
  <1> DEFINE c(i) == Composite(PAIRS[i], prices, a)
             e == NormaliseMomentum(prices["ethereum"].change)
             b == NormaliseMomentum(prices["bitcoin"].change)
  <1>0. prices["ethereum"].change \in Int /\ prices["bitcoin"].change \in Int
    BY DEF Prices, Quote, Coins
  <1>1. e \in Int /\ b \in Int
    BY <1>0, MomentumScore
  <1>2. SizeFit(a, "ETH") = SizeFit(a, "cbBTC") /\ SizeFit(a, "ETH") \in Int
    BY DEF SizeFit, Clamp
  <1>3. c(1) = 40 * e + 43400 + 15 * SizeFit(a, "ETH") /\ c(2) = 40 * e + 41350 + 15 * SizeFit(a, "ETH")
        /\ c(3) = 40 * b + 40750 + 15 * SizeFit(a, "ETH") /\ c(4) = 40 * e + 41100 + 15 * SizeFit(a, "ETH")
    BY <1>2, Composites
  <1>4. \A i, j \in 1 .. 4 : Before(i, j, prices, a) <=> c(i) > c(j) \/ (c(i) = c(j) /\ i < j)
    BY DEF Before
  <1>5. Leader(prices) = IF b - e > 66 THEN 3 ELSE 1
    BY DEF Leader
  <1> HIDE DEF c, e, b
  <1>6. CASE b - e > 66
    <2>1. c(3) > c(1) /\ c(3) > c(2) /\ c(3) > c(4) /\ c(1) \in Int /\ c(2) \in Int /\ c(3) \in Int /\ c(4) \in Int
      BY <1>1, <1>2, <1>3, <1>6
    <2>2. /\ \A j \in 1 .. 4 : 3 # j => Before(3, j, prices, a)
          /\ \A j \in 1 .. 4 : 3 # j => ~Before(j, 3, prices, a)
      BY <2>1, <1>4
    <2> QED BY <2>2, <1>5, <1>6, TheBest
  <1>7. CASE b - e <= 66
    <2>1. c(1) >= c(3) /\ c(1) > c(2) /\ c(1) > c(4) /\ c(1) \in Int /\ c(2) \in Int /\ c(3) \in Int /\ c(4) \in Int
      BY <1>1, <1>2, <1>3, <1>7
    <2>2. /\ \A j \in 1 .. 4 : 1 # j => Before(1, j, prices, a)
          /\ \A j \in 1 .. 4 : 1 # j => ~Before(j, 1, prices, a)
      BY <2>1, <1>4
    <2> QED BY <2>2, <1>5, <1>7, <1>1, TheBest
  <1> QED BY <1>1, <1>6, <1>7
-----------------------------------------------------------------------------

USE MarketAssumption

\* The inductive invariant: the caches hold quotes, and the signal of a cycle
\* under way is the pick for the cache as it is, since only a scan of the
\* same cycle changes the demo's cache.
IInv ==
  /\ time \in 1 .. Len(Market)
  /\ demoCache \in Prices
  /\ pair \in DemoPairs
  /\ pc \in {"scan", "decide", "buy", "sell", "done"}
  /\ pc \in {"decide", "buy", "sell"} => sig.coin = PAIRS[Leader(demoCache)].coin

\* A cache that takes an answer over still holds quotes.
LEMMA RefreshedPrices ==
  ASSUME time \in 1 .. Len(Market), NEW cache \in Prices, NEW S
  PROVE  Refreshed(cache, S) \in Prices
  <1>1. Market[time] \in [Coins -> Quote]
    BY DEF Quote
  <1> QED BY <1>1 DEF Refreshed, Prices

\* Empty caches, and no cycle under way.
LEMMA InitIInv == Init => IInv
  <1> SUFFICES ASSUME Init PROVE IInv
    OBVIOUS
  <1>1. time \in 1 .. Len(Market)
    BY DEF Init
  <1>2. NoQuote \in Quote
    BY DEF NoQuote, Quote
  <1>3. demoCache \in Prices
    BY <1>2 DEF Init, NoPrices, Prices
  <1> QED BY <1>1, <1>3 DEF Init, IInv

\* Every step of the demo and of the dashboard keeps the invariant.
LEMMA NextIInv == IInv /\ [Next]_vars => IInv'
  <1> SUFFICES ASSUME IInv, [Next]_vars PROVE IInv'
    OBVIOUS
  <1>1. ASSUME NEW S \in SUBSET Coins, DemoScan(S) PROVE IInv'
    <2> DEFINE b == BestOf(demoCache', pair.amount)
    <2>1. demoCache' \in Prices
      BY <1>1, RefreshedPrices DEF IInv, DemoScan
    <2>2. pair.amount \in {0, 100}
      BY DEF IInv, DemoPairs
    <2>3. b = Leader(demoCache')
      BY <2>1, <2>2, MomentumDecides
    <2>4. sig' = Signal(PAIRS[b].in_sym, demoCache'[PAIRS[b].coin].usd, PAIRS[b].coin)
      BY <1>1 DEF DemoScan
    <2>5. sig'.coin = PAIRS[b].coin
      BY <2>4 DEF Signal
    <2> HIDE DEF b
    <2>6. Leader(demoCache)' = Leader(demoCache')
      BY DEF Leader
    <2>7. pc' = "decide" /\ pair' = pair /\ time' = time
      BY <1>1 DEF DemoScan
    <2> QED BY <2>1, <2>3, <2>5, <2>6, <2>7 DEF IInv
  <1>2. ASSUME NEW a \in Decisions, DemoDecide(a) PROVE IInv'
    <2>1. pc' \in {"scan", "buy", "sell"} /\ UNCHANGED <<time, demoCache, pair, sig>> /\ pc = "decide"
      BY <1>2 DEF DemoDecide, Record, Decisions
    <2> QED BY <2>1 DEF IInv, Leader
  <1>3. CASE (\E failed \in BOOLEAN : DemoExecute(failed)) \/ DemoPublish
    <2>1. pc' \in {"scan", "done"} /\ UNCHANGED <<time, demoCache, pair>>
      BY <1>3 DEF DemoExecute, DemoPublish, Record
    <2> QED BY <2>1 DEF IInv
  <1>4. ASSUME UNCHANGED <<demoCache, pair, pc, sig>>, time' \in 1 .. Len(Market) PROVE IInv'
    BY <1>4 DEF IInv, Leader
  <1>5. CASE MarketMoves
    <2>1. time' \in 1 .. Len(Market)
      BY <1>5 DEF MarketMoves, IInv
    <2> QED BY <1>4, <1>5, <2>1 DEF MarketMoves
  <1>6. ASSUME NEW S, DashScan(S) PROVE IInv'
    BY <1>4, <1>6 DEF DashScan, IInv
  <1>7. ASSUME NEW known, InjectSignal(known) PROVE IInv'
    BY <1>4, <1>7 DEF InjectSignal, IInv
  <1>8. ASSUME NEW r, NEW a, NEW failed, CycleEnds(r, a, failed) PROVE IInv'
    BY <1>4, <1>8 DEF CycleEnds, IInv
  <1>9. CASE UNCHANGED vars
    BY <1>4, <1>9 DEF vars, IInv
  <1> QED BY <1>1, <1>2, <1>3, <1>5, <1>6, <1>7, <1>8, <1>9 DEF Next

\* scan_pairs in the demo: for any market the momentum gap alone decides
\* which coin is traded, from the scan to the end of the cycle.
THEOREM PickSafe == Spec => []PickIsDecided
  <1>1. IInv => PickIsDecided
    <2>1. PAIRS[1].coin = "ethereum" /\ PAIRS[3].coin = "bitcoin"
      BY DEF PAIRS
    <2> QED BY <2>1 DEF IInv, PickIsDecided, Leader, Decisions
  <1>2. Spec => []IInv
    BY InitIInv, NextIInv, PTL DEF Spec
  <1> QED BY <1>1, <1>2, PTL

-----------------------------------------------------------------------------
(* Which positions are marked with the price of another pair.              *)

Signals == [in_sym : {"ETH", "WETH", "cbBTC", "USDC"}, price : Nat, coin : Coins]
ResultSet == [action : Decisions, signal : Signals, failed : BOOLEAN]

\* A signal of the dashboard names ether and has the price of ether; a result
\* of the demo names the symbol of its --pair, whatever the pick was.
Named(x) == x.in_sym = pair.in_sym \/ (x.in_sym = "ETH" /\ x.coin = "ethereum")

AllNamed(results) == \A i \in DOMAIN results : Named(results[i].signal)

SignalsOK ==
  /\ sig \in Signals
  /\ \A r \in running : r.signal \in Signals /\ Named(r.signal)
  /\ demoResults \in Seq(ResultSet) /\ AllNamed(demoResults)
  /\ file \in Seq(ResultSet) /\ AllNamed(file)

\* A position that is not marked with the known price of its own coin is one
\* of the demo's, run for USDC or with a pick of bitcoin.
MismarkedIsDemos ==
  \A i \in Positions :
    LET x == file[i].signal
    IN  dashCache[x.coin].usd # 0 /\ Current(file[i], dashCache) # dashCache[x.coin].usd
          => x.in_sym = pair.in_sym /\ (pair.in_sym = "USDC" \/ x.coin = "bitcoin")

\* A result is added to a list of named ones.
LEMMA NamedAppend ==
  ASSUME NEW results \in Seq(ResultSet), AllNamed(results), NEW x \in ResultSet,
         Named(x.signal), NEW t, t = Append(results, x)
  PROVE  t \in Seq(ResultSet) /\ AllNamed(t)
  <1>1. /\ t \in Seq(ResultSet) /\ DOMAIN t = 1 .. Len(results) + 1
        /\ DOMAIN results = 1 .. Len(results) /\ Len(results) \in Nat
        /\ \A i \in 1 .. Len(results) : t[i] = results[i]
        /\ t[Len(results) + 1] = x
    OBVIOUS
  <1>2. ASSUME NEW i \in DOMAIN t
        PROVE  Named(t[i].signal)
    <2>1. i \in 1 .. Len(results) \/ i = Len(results) + 1
      BY <1>1
    <2> QED BY <1>1, <2>1 DEF AllNamed
  <1> QED BY <1>1, <1>2 DEF AllNamed

\* Every step of the demo and of the dashboard keeps the names.
LEMMA SignalsStep ==
  ASSUME IInv, SignalsOK, [Next]_vars
  PROVE  SignalsOK'
  <1>0. pair' = pair /\ pair.in_sym \in {"ETH", "USDC"}
    <2>1. pair' = pair
      BY DEF Next, vars, DemoScan, DashScan, DemoDecide, DemoExecute, DemoPublish,
             InjectSignal, CycleEnds, MarketMoves
    <2> QED BY <2>1 DEF IInv, DemoPairs
  <1>1. ASSUME UNCHANGED <<sig, running, demoResults, file>>
        PROVE  SignalsOK'
    BY <1>0, <1>1 DEF SignalsOK, AllNamed, Named
  <1>2. ASSUME NEW S \in SUBSET Coins, DemoScan(S)
        PROVE  SignalsOK'
    <2> DEFINE b == BestOf(demoCache', pair.amount)
    <2>1. demoCache' \in Prices
      BY <1>2, RefreshedPrices DEF IInv, DemoScan
    <2>2. pair.amount \in {0, 100}
      BY DEF IInv, DemoPairs
    <2>3. b = Leader(demoCache')
      BY <2>1, <2>2, MomentumDecides
    <2>4. sig' = Signal(PAIRS[b].in_sym, demoCache'[PAIRS[b].coin].usd, PAIRS[b].coin)
      BY <1>2 DEF DemoScan
    <2> HIDE DEF b
    <2>5. b \in {1, 3}
      BY <2>3 DEF Leader
    <2>6. PAIRS[b].in_sym \in {"ETH", "cbBTC"} /\ PAIRS[b].coin \in Coins
      BY <2>5 DEF PAIRS, Coins
    <2>7. demoCache'[PAIRS[b].coin].usd \in Nat
      BY <2>1, <2>6 DEF Prices, Quote
    <2>8. sig' \in Signals
      BY <2>4, <2>6, <2>7 DEF Signal, Signals
    <2> QED BY <1>0, <1>2, <2>8 DEF SignalsOK, AllNamed, Named, DemoScan
  <1>3. ASSUME NEW a \in Decisions, NEW failed \in BOOLEAN, Record(a, failed),
               UNCHANGED <<sig, running, file>>
        PROVE  SignalsOK'
    <2> DEFINE x == Result(a, SigView, failed)
    <2>1. SigView \in Signals /\ SigView.in_sym = pair.in_sym
      BY <1>0 DEF SignalsOK, SigView, Signals
    <2>2. x \in ResultSet /\ x.signal = SigView
      BY <2>1 DEF Result, ResultSet
    <2>3. demoResults' = Append(demoResults, x)
      BY <1>3 DEF Record
    <2> HIDE DEF x
    <2>4. demoResults' \in Seq(ResultSet) /\ AllNamed(demoResults')
      BY <2>1, <2>2, <2>3, NamedAppend DEF SignalsOK, Named
    <2> QED BY <1>0, <1>3, <2>4 DEF SignalsOK, AllNamed, Named
  <1>4. ASSUME NEW a \in Decisions, DemoDecide(a)
        PROVE  SignalsOK'
    <2>1. CASE a = "hold"
      BY <1>3, <1>4, <2>1 DEF DemoDecide
    <2>2. CASE a # "hold"
      BY <1>1, <1>4, <2>2 DEF DemoDecide
    <2> QED BY <2>1, <2>2
  <1>5. CASE \E failed \in BOOLEAN : DemoExecute(failed)
    BY <1>3, <1>5 DEF DemoExecute, Decisions
  <1>6. CASE DemoPublish
    BY <1>0, <1>6 DEF DemoPublish, SignalsOK, AllNamed, Named
  <1>7. ASSUME NEW known \in BOOLEAN, InjectSignal(known)
        PROVE  SignalsOK'
    <2>1. PICK p \in Nat : running' = running \cup
            {[n |-> started', signal |-> Signal("ETH", p, "ethereum")]}
      <3>1. Market[time] \in [Coins -> [usd : Nat, change : Int]]
        BY DEF IInv
      <3>2. Market[time]["ethereum"].usd \in Nat
        BY <3>1 DEF Coins
      <3> QED BY <1>7, <3>2 DEF InjectSignal
    <2>2. Signal("ETH", p, "ethereum") \in Signals /\ Named(Signal("ETH", p, "ethereum"))
      BY DEF Signal, Signals, Named, Coins
    <2>3. \A r \in running' : r.signal \in Signals /\ Named(r.signal)
      BY <2>1, <2>2 DEF SignalsOK
    <2> QED BY <1>0, <1>7, <2>3 DEF InjectSignal, SignalsOK, AllNamed, Named
  <1>8. ASSUME NEW r \in running, NEW a \in Decisions, NEW failed \in BOOLEAN,
               CycleEnds(r, a, failed)
        PROVE  SignalsOK'
    <2> DEFINE x == Result(a, r.signal, failed)
    <2>1. x \in ResultSet /\ x.signal = r.signal /\ Named(r.signal)
      BY DEF Result, ResultSet, SignalsOK
    <2>2. file' = Append(file, x) /\ running' \subseteq running
      BY <1>8 DEF CycleEnds
    <2> HIDE DEF x
    <2>3. file' \in Seq(ResultSet) /\ AllNamed(file')
      BY <2>1, <2>2, NamedAppend DEF SignalsOK
    <2> QED BY <1>0, <1>8, <2>2, <2>3 DEF CycleEnds, SignalsOK, AllNamed, Named
  <1>9. CASE MarketMoves \/ UNCHANGED vars \/ \E S \in SUBSET Coins : DashScan(S)
    BY <1>1, <1>9 DEF MarketMoves, vars, DashScan
  <1> QED BY <1>2, <1>4, <1>5, <1>6, <1>7, <1>8, <1>9 DEF Next

\* No signal has been recorded yet.
LEMMA InitSignals == Init => SignalsOK
  <1> SUFFICES ASSUME Init PROVE SignalsOK
    OBVIOUS
  <1>1. sig \in Signals
    BY DEF Init, NoSignal, Signal, Signals, Coins
  <1> QED BY <1>1 DEF Init, SignalsOK, AllNamed

\* The positions that _pnl of the dashboard marks with another pair's price
\* are results of demo.py, whose sig_view replaces the symbol of the pick: the
\* cycles of /api/signal, and a demo for ETH that picks ether, are marked with
\* their own price.
THEOREM OnlyDemoMismarked == Spec => []MismarkedIsDemos
  <1>1. IInv /\ SignalsOK => MismarkedIsDemos
    <2> SUFFICES ASSUME IInv, SignalsOK, NEW i \in Positions,
                        dashCache[file[i].signal.coin].usd # 0,
                        Current(file[i], dashCache) # dashCache[file[i].signal.coin].usd
                 PROVE  /\ file[i].signal.in_sym = pair.in_sym
                        /\ pair.in_sym = "USDC" \/ file[i].signal.coin = "bitcoin"
      BY DEF MismarkedIsDemos
    <2>1. file[i] \in ResultSet /\ Named(file[i].signal)
      BY DEF SignalsOK, AllNamed, Positions
    <2>2. file[i].signal.coin \in {"ethereum", "bitcoin"} /\ pair.in_sym \in {"ETH", "USDC"}
      BY <2>1 DEF ResultSet, Signals, Coins, IInv, DemoPairs
    <2>3. ~ (file[i].signal.in_sym = "ETH" /\ file[i].signal.coin = "ethereum")
      BY DEF Current, PriceOf
    <2> QED BY <2>1, <2>2, <2>3 DEF Named
  <1> QED BY <1>1, InitSignals, InitIInv, NextIInv, SignalsStep, PTL DEF Spec

-----------------------------------------------------------------------------

\* Dividing a multiple of the price by the price.
LEMMA DivExact ==
  ASSUME NEW p \in Nat \ {0}, NEW x \in Int
  PROVE  (p * x) \div p = x
  OBVIOUS

\* compute_pnl: for any position and any prices, the gain that is added is
\* the size times the move in the predicted direction, so that shorts win
\* when the price falls.
THEOREM GainIsDirected ==
  ASSUME NEW r, NEW cache, Counted(r), r.signal.price \in Nat,
         Current(r, cache) \in Nat, SizeInUnits(r, cache) \in Nat
  PROVE  ValueNow(r, cache) - Invested(r, cache) = GainOf(r, cache)
  <1> DEFINE p == r.signal.price
             c == Current(r, cache)
             n == SizeInUnits(r, cache)
  <1>1. p \in Nat \ {0} /\ c \in Nat /\ n \in Nat /\ Invested(r, cache) = p * n
    BY DEF Counted, Invested
  <1>2. CASE r.action = "sell"
    <2>1. ValueNow(r, cache) = 2 * (p * n) - ((p * n) * c) \div p
      BY <1>1, <1>2 DEF ValueNow
    <2>2. GainOf(r, cache) = n * (p - c)
      BY <1>2 DEF GainOf
    <2> HIDE DEF p, c, n
    <2>3. (p * n) * c = p * (n * c) /\ n * c \in Int /\ p * n \in Int
      BY <1>1
    <2>4. ((p * n) * c) \div p = n * c
      BY <1>1, <2>3, DivExact
    <2>5. n * (p - c) = p * n - n * c
      BY <1>1
    <2> QED BY <1>1, <2>1, <2>2, <2>3, <2>4, <2>5
  <1>3. CASE r.action = "buy"
    <2>1. ValueNow(r, cache) = c * n
      BY <1>3 DEF ValueNow
    <2>2. GainOf(r, cache) = n * (c - p)
      BY <1>3 DEF GainOf
    <2> HIDE DEF p, c, n
    <2>3. n * (c - p) = c * n - p * n
      BY <1>1
    <2> QED BY <1>1, <2>1, <2>2, <2>3
  <1> QED BY <1>2, <1>3 DEF Counted

-----------------------------------------------------------------------------
(* Induction, and finite sets.                                             *)

HIDE MarketAssumption

\* Induction over the naturals, for a set of numbers.
LEMMA CountUp ==
  ASSUME NEW T, 0 \in T, \A n \in Nat : n \in T => n + 1 \in T
  PROVE  Nat \subseteq T
  <1> DEFINE U == Nat \ T
             R == OpToRel(<, Nat)
  <1>1. ASSUME U # {} PROVE FALSE
    <2>1. IsWellFoundedOn(R, Nat)
      BY NatLessThanWellFounded
    <2> HIDE DEF R
    <2>2. PICK x \in U : \A y \in U : ~ (<<y, x>> \in R)
      BY <1>1, <2>1, WFMin
    <2>3. x \in Nat /\ x # 0 /\ x - 1 \in Nat /\ x - 1 < x
      BY <2>2
    <2>4. <<x - 1, x>> \in R
      BY <2>3 DEF R, OpToRel
    <2>5. x - 1 \in T
      BY <2>2, <2>3, <2>4
    <2>6. (x - 1) + 1 \in T
      BY <2>3, <2>5
    <2>7. (x - 1) + 1 = x
      BY <2>3
    <2> QED BY <2>2, <2>6, <2>7
  <1> QED BY <1>1

\* A set of positions in a list has a last one.
LEMMA LastOne ==
  ASSUME NEW m \in Nat, NEW s \in SUBSET (1 .. m), s # {}
  PROVE  Max(s) \in s /\ \A y \in s : Max(s) >= y
  <1> DEFINE T == {k \in Nat : \A t \in SUBSET (1 .. k) :
                                 t # {} => \E x \in t : \A y \in t : x >= y}
  <1>1. 0 \in T
    <2>1. 1 .. 0 = {}
      OBVIOUS
    <2>2. \A t \in SUBSET (1 .. 0) : t = {}
      BY <2>1
    <2> QED BY <2>2
  <1>2. ASSUME NEW k \in Nat, k \in T
        PROVE  k + 1 \in T
    <2>1. ASSUME NEW t \in SUBSET (1 .. k + 1), t # {}
          PROVE  \E x \in t : \A y \in t : x >= y
      <3>1. CASE k + 1 \in t
        BY <3>1
      <3>2. CASE k + 1 \notin t
        <4>1. t \in SUBSET (1 .. k)
          BY <3>2
        <4> QED BY <4>1, <1>2, <2>1
      <3> QED BY <3>1, <3>2
    <2> QED BY <2>1
  <1>3. m \in T
    <2> HIDE DEF T
    <2> QED BY <1>1, <1>2, CountUp
  <1>4. \E x \in s : \A y \in s : x >= y
    BY <1>3
  <1> QED BY <1>4 DEF Max

\* Taking an element out of a part of a finite set.
LEMMA OneLess ==
  ASSUME NEW S, IsFiniteSet(S), NEW s \in SUBSET S, NEW x \in s
  PROVE  /\ s \ {x} \in SUBSET S
         /\ Cardinality(s) \in Nat /\ Cardinality(s \ {x}) \in Nat
         /\ Cardinality(s \ {x}) = Cardinality(s) - 1
  <1>1. IsFiniteSet(s) /\ IsFiniteSet(s \ {x})
    BY FS_Subset, FS_RemoveElement
  <1> QED BY <1>1, FS_CardinalityType, FS_RemoveElement

-----------------------------------------------------------------------------
(* The loop of compute_pnl.  FoldLeft is a function on the sets of places  *)
(* in the list; that there is such a function is shown by approximation: a *)
(* function that fits the sets of at most n places gives, after one more   *)
(* iteration, one that fits those of at most n + 1.                        *)

LoopBody(g, s, results, cache) ==
  IF s = {} THEN NoCycles ELSE AddCycle(g[s \ {Max(s)}], results[Max(s)], cache)

Loop(results, cache) ==
  CHOOSE g : g = [s \in SUBSET DOMAIN results |-> LoopBody(g, s, results, cache)]

\* FoldLeft by its recursive function.
LEMMA LoopIs ==
  ASSUME NEW results, NEW cache
  PROVE  ComputePnL(results, cache) = Loop(results, cache)[DOMAIN results]
  BY DEF ComputePnL, FoldLeft, MapThenFoldSet, Loop, LoopBody

\* The function that the loop is defined by satisfies its equation.
LEMMA LoopEquation ==
  ASSUME NEW m \in Nat, NEW results, DOMAIN results = 1 .. m, NEW cache
  PROVE  Loop(results, cache) =
           [s \in SUBSET DOMAIN results |-> LoopBody(Loop(results, cache), s, results, cache)]
  <1> DEFINE D == DOMAIN results
             Fits(g, n) == \A s \in SUBSET D :
                             Cardinality(s) <= n => g[s] = LoopBody(g, s, results, cache)
             T == {n \in Nat : \E g : g = [s \in SUBSET D |-> g[s]] /\ Fits(g, n)}
  <1>0. IsFiniteSet(D)
    BY FS_Interval
  <1>1. 0 \in T
    <2> DEFINE g == [s \in SUBSET D |-> NoCycles]
    <2>1. \A s \in SUBSET D : Cardinality(s) <= 0 => s = {}
      <3> TAKE s \in SUBSET D
      <3>1. IsFiniteSet(s) /\ Cardinality(s) \in Nat
        BY <1>0, FS_Subset, FS_CardinalityType
      <3> QED BY <3>1, FS_EmptySet
    <2>2. Fits(g, 0)
      BY <2>1 DEF LoopBody
    <2>3. g = [s \in SUBSET D |-> g[s]]
      OBVIOUS
    <2> HIDE DEF g, Fits
    <2> QED BY <2>2, <2>3
  <1>2. ASSUME NEW n \in Nat, n \in T
        PROVE  n + 1 \in T
    <2>1. PICK g : g = [s \in SUBSET D |-> g[s]] /\ Fits(g, n)
      BY <1>2
    <2> DEFINE h == [s \in SUBSET D |-> LoopBody(g, s, results, cache)]
    <2>2. ASSUME NEW s \in SUBSET D, Cardinality(s) <= n + 1
          PROVE  h[s] = LoopBody(h, s, results, cache)
      <3>1. CASE s = {}
        BY <3>1 DEF LoopBody
      <3>2. CASE s # {}
        <4> DEFINE t == s \ {Max(s)}
        <4>1. Max(s) \in s
          BY <3>2, LastOne
        <4>2. t \in SUBSET D /\ Cardinality(t) <= n
          BY <1>0, <2>2, <4>1, OneLess
        <4>3. h[t] = g[t]
          BY <2>1, <4>2
        <4>4. h[s] = AddCycle(g[t], results[Max(s)], cache)
          BY <3>2 DEF LoopBody
        <4>5. LoopBody(h, s, results, cache) = AddCycle(h[t], results[Max(s)], cache)
          BY <3>2 DEF LoopBody
        <4> HIDE DEF h, t
        <4> QED BY <4>3, <4>4, <4>5
      <3> QED BY <3>1, <3>2
    <2>3. h = [s \in SUBSET D |-> h[s]]
      OBVIOUS
    <2> HIDE DEF h
    <2>4. Fits(h, n + 1)
      BY <2>2
    <2> HIDE DEF Fits
    <2> QED BY <2>3, <2>4
  <1>3. Cardinality(D) \in T
    <2>1. Cardinality(D) \in Nat
      BY <1>0, FS_CardinalityType
    <2> HIDE DEF T
    <2> QED BY <1>1, <1>2, <2>1, CountUp
  <1>4. PICK g : g = [s \in SUBSET D |-> g[s]] /\ Fits(g, Cardinality(D))
    BY <1>3
  <1>5. \A s \in SUBSET D : Cardinality(s) <= Cardinality(D)
    BY <1>0, FS_Subset
  <1>6. \A s \in SUBSET D : g[s] = LoopBody(g, s, results, cache)
    BY <1>4, <1>5
  <1>7. g = [s \in SUBSET D |-> LoopBody(g, s, results, cache)]
    <2>1. [s \in SUBSET D |-> g[s]] = [s \in SUBSET D |-> LoopBody(g, s, results, cache)]
      BY <1>6
    <2> QED BY <1>4, <2>1
  <1> HIDE DEF D
  <1>8. \E k : k = [s \in SUBSET D |-> LoopBody(k, s, results, cache)]
    BY <1>7
  <1> QED BY <1>8 DEF Loop, D

-----------------------------------------------------------------------------
(* The sum of the gains.                                                   *)

SumBody(g, s, results, cache) ==
  IF s = {} THEN 0
  ELSE GainOf(results[CHOOSE x \in s : TRUE], cache) + g[s \ {CHOOSE x \in s : TRUE}]

\* The sums of the gains of all the parts of S.
Sums(S, results, cache) ==
  CHOOSE g : g = [s \in SUBSET S |-> SumBody(g, s, results, cache)]

\* MapThenSumSet by its recursive function.
LEMMA SumIs ==
  ASSUME NEW S, NEW results, NEW cache
  PROVE  MapThenSumSet(LAMBDA i : GainOf(results[i], cache), S) = Sums(S, results, cache)[S]
  BY DEF MapThenSumSet, MapThenFoldSet, Sums, SumBody

\* It satisfies its equation, by the same argument.
LEMMA SumEquation ==
  ASSUME NEW S, IsFiniteSet(S), NEW results, NEW cache
  PROVE  \A s \in SUBSET S :
           Sums(S, results, cache)[s] = SumBody(Sums(S, results, cache), s, results, cache)
  <1> DEFINE Fits(g, n) == \A s \in SUBSET S :
                             Cardinality(s) <= n => g[s] = SumBody(g, s, results, cache)
             T == {n \in Nat : \E g : g = [s \in SUBSET S |-> g[s]] /\ Fits(g, n)}
  <1>1. 0 \in T
    <2> DEFINE g == [s \in SUBSET S |-> 0]
    <2>1. \A s \in SUBSET S : Cardinality(s) <= 0 => s = {}
      <3> TAKE s \in SUBSET S
      <3>1. IsFiniteSet(s) /\ Cardinality(s) \in Nat
        BY FS_Subset, FS_CardinalityType
      <3> QED BY <3>1, FS_EmptySet
    <2>2. Fits(g, 0)
      BY <2>1 DEF SumBody
    <2>3. g = [s \in SUBSET S |-> g[s]]
      OBVIOUS
    <2> HIDE DEF g, Fits
    <2> QED BY <2>2, <2>3
  <1>2. ASSUME NEW n \in Nat, n \in T
        PROVE  n + 1 \in T
    <2>1. PICK g : g = [s \in SUBSET S |-> g[s]] /\ Fits(g, n)
      BY <1>2
    <2> DEFINE h == [s \in SUBSET S |-> SumBody(g, s, results, cache)]
    <2>2. ASSUME NEW s \in SUBSET S, Cardinality(s) <= n + 1
          PROVE  h[s] = SumBody(h, s, results, cache)
      <3>1. CASE s = {}
        BY <3>1 DEF SumBody
      <3>2. CASE s # {}
        <4> DEFINE x == CHOOSE x \in s : TRUE
                   t == s \ {x}
        <4>1. x \in s
          BY <3>2
        <4>2. h[s] = GainOf(results[x], cache) + g[t]
          BY <3>2 DEF SumBody
        <4>3. SumBody(h, s, results, cache) = GainOf(results[x], cache) + h[t]
          BY <3>2 DEF SumBody
        <4> HIDE DEF x
        <4>4. t \in SUBSET S /\ Cardinality(t) <= n
          BY <2>2, <4>1, OneLess
        <4>5. h[t] = g[t]
          BY <2>1, <4>4
        <4> HIDE DEF h, t
        <4> QED BY <4>2, <4>3, <4>5
      <3> QED BY <3>1, <3>2
    <2>3. h = [s \in SUBSET S |-> h[s]]
      OBVIOUS
    <2> HIDE DEF h
    <2>4. Fits(h, n + 1)
      BY <2>2
    <2> HIDE DEF Fits
    <2> QED BY <2>3, <2>4
  <1>3. Cardinality(S) \in T
    <2>1. Cardinality(S) \in Nat
      BY FS_CardinalityType
    <2> HIDE DEF T
    <2> QED BY <1>1, <1>2, <2>1, CountUp
  <1>4. PICK g : g = [s \in SUBSET S |-> g[s]] /\ Fits(g, Cardinality(S))
    BY <1>3
  <1>5. \A s \in SUBSET S : Cardinality(s) <= Cardinality(S)
    BY FS_Subset
  <1>6. \A s \in SUBSET S : g[s] = SumBody(g, s, results, cache)
    BY <1>4, <1>5
  <1>7. [s \in SUBSET S |-> g[s]] = [s \in SUBSET S |-> SumBody(g, s, results, cache)]
    BY <1>6
  <1>8. \E k : k = [s \in SUBSET S |-> SumBody(k, s, results, cache)]
    BY <1>4, <1>7
  <1>9. Sums(S, results, cache) =
          [s \in SUBSET S |-> SumBody(Sums(S, results, cache), s, results, cache)]
    BY <1>8 DEF Sums
  <1> QED BY <1>9

\* sum adds up the gains of every part of S, the one first picks and the rest.
SumsOver(S, gain, sum, first) ==
  /\ sum[{}] = 0
  /\ \A s \in SUBSET S :
       s # {} => first[s] \in s /\ sum[s] = gain[first[s]] + sum[s \ {first[s]}]

TakesAny(S, gain, sum) ==
  \A s \in SUBSET S : sum[s] \in Int /\ \A x \in s : sum[s] = gain[x] + sum[s \ {x}]

\* Whichever element a sum takes first, taking any other first gives the same.
LEMMA TakeAny ==
  ASSUME NEW S, IsFiniteSet(S), NEW gain \in [S -> Int], NEW sum, NEW first,
         SumsOver(S, gain, sum, first)
  PROVE  TakesAny(S, gain, sum)
  <1> USE DEF SumsOver
  <1> DEFINE AnyFirst(s) == sum[s] \in Int /\ \A x \in s : sum[s] = gain[x] + sum[s \ {x}]
             T == {n \in Nat : \A s \in SUBSET S : Cardinality(s) <= n => AnyFirst(s)}
  <1>1. 0 \in T
    <2>1. \A s \in SUBSET S : Cardinality(s) <= 0 => s = {}
      <3> TAKE s \in SUBSET S
      <3>1. IsFiniteSet(s) /\ Cardinality(s) \in Nat
        BY FS_Subset, FS_CardinalityType
      <3> QED BY <3>1, FS_EmptySet
    <2>2. AnyFirst({})
      OBVIOUS
    <2> HIDE DEF AnyFirst
    <2> QED BY <2>1, <2>2
  <1>2. ASSUME NEW n \in Nat, n \in T
        PROVE  n + 1 \in T
    <2>1. ASSUME NEW s \in SUBSET S, Cardinality(s) <= n + 1, s # {}
          PROVE  AnyFirst(s)
      <3> DEFINE y == first[s]
      <3>1. y \in s /\ sum[s] = gain[y] + sum[s \ {y}]
        BY <2>1
      <3>2. \A x \in s : s \ {x} \in SUBSET S /\ Cardinality(s \ {x}) <= n
        BY <2>1, OneLess
      <3>3. \A x \in s : AnyFirst(s \ {x})
        BY <1>2, <3>2
      <3>4. gain[y] \in Int /\ sum[s] \in Int
        <4>1. gain[y] \in Int
          BY <3>1
        <4>2. sum[s \ {y}] \in Int
          BY <3>1, <3>3
        <4> HIDE DEF y
        <4> QED BY <3>1, <4>1, <4>2
      <3> HIDE DEF y
      <3>5. ASSUME NEW x \in s, x # y
            PROVE  sum[s] = gain[x] + sum[s \ {x}]
        <4>1. x \in s \ {y} /\ y \in s \ {x}
          BY <3>1, <3>5
        <4>2. sum[s \ {y}] = gain[x] + sum[(s \ {y}) \ {x}]
          BY <3>1, <3>3, <4>1
        <4>3. sum[s \ {x}] = gain[y] + sum[(s \ {x}) \ {y}]
          BY <3>3, <4>1
        <4>4. (s \ {y}) \ {x} = (s \ {x}) \ {y}
          OBVIOUS
        <4>5. gain[x] \in Int /\ (s \ {y}) \ {x} \in SUBSET S
          OBVIOUS
        <4>6. sum[(s \ {y}) \ {x}] \in Int
          <5>1. Cardinality((s \ {y}) \ {x}) <= n
            BY <2>1, <3>1, <3>2, <4>1, OneLess
          <5> DEFINE t == (s \ {y}) \ {x}
          <5> HIDE DEF t
          <5>2. t \in SUBSET S /\ Cardinality(t) <= n
            BY <4>5, <5>1 DEF t
          <5>3. AnyFirst(t)
            BY <1>2, <5>2
          <5>4. sum[t] \in Int
            BY <5>3
          <5> QED BY <5>4 DEF t
        <4>7. \A a, b, z \in Int : b + (a + z) = a + (b + z)
          OBVIOUS
        <4>8. sum[s] = gain[y] + (gain[x] + sum[(s \ {y}) \ {x}])
          BY <3>1, <4>2
        <4>9. gain[x] + sum[s \ {x}] = gain[x] + (gain[y] + sum[(s \ {y}) \ {x}])
          BY <4>3, <4>4
        <4> QED BY <3>4, <4>5, <4>6, <4>7, <4>8, <4>9
      <3> QED BY <3>1, <3>4, <3>5
    <2>2. AnyFirst({})
      OBVIOUS
    <2> HIDE DEF AnyFirst
    <2> QED BY <2>1, <2>2
  <1>3. Cardinality(S) \in T
    <2>1. Cardinality(S) \in Nat
      BY FS_CardinalityType
    <2> HIDE DEF T
    <2> QED BY <1>1, <1>2, <2>1, CountUp
  <1>4. \A s \in SUBSET S : Cardinality(s) <= Cardinality(S)
    BY FS_Subset
  <1> QED BY <1>3, <1>4 DEF TakesAny

-----------------------------------------------------------------------------
(* compute_pnl for any list of results.                                    *)

\* The positions among the first n results, and those of them that are won.
Taken(results, n) == {i \in 1 .. n : Counted(results[i])}

IsWon(r, cache) ==
  IF r.action = "buy" THEN Current(r, cache) > r.signal.price
                      ELSE Current(r, cache) < r.signal.price

Winners(results, cache, n) == {i \in Taken(results, n) : IsWon(results[i], cache)}

\* A list of results whose positions have a size.
Sized(results, cache) ==
  /\ results \in Seq(ResultSet)
  /\ cache \in Prices
  /\ \A i \in DOMAIN results : Counted(results[i]) => SizeInUnits(results[i], cache) \in Nat \ {0}

\* What AddCycle adds for one position.
LEMMA OnePosition ==
  ASSUME NEW r \in ResultSet, NEW cache \in Prices, Counted(r), SizeInUnits(r, cache) \in Nat \ {0}
  PROVE  /\ ValueNow(r, cache) - Invested(r, cache) = GainOf(r, cache)
         /\ ValueNow(r, cache) \in Int /\ Invested(r, cache) \in Int /\ GainOf(r, cache) \in Int
         /\ GainOf(r, cache) > 0 <=> IsWon(r, cache)
  <1> DEFINE p == r.signal.price
             c == Current(r, cache)
             n == SizeInUnits(r, cache)
  <1>1. p \in Nat \ {0}
    BY DEF ResultSet, Signals, Counted
  <1>2. c \in Nat
    <2>1. cache["ethereum"].usd \in Nat /\ cache["bitcoin"].usd \in Nat
      BY DEF Prices, Quote, Coins
    <2>2. \A sym : PriceOf(cache, sym) \in Nat
      BY <2>1 DEF PriceOf
    <2> QED BY <1>1, <2>2 DEF Current
  <1>3. ValueNow(r, cache) - Invested(r, cache) = GainOf(r, cache)
    BY <1>1, <1>2, GainIsDirected
  <1>4. Invested(r, cache) = p * n /\ n \in Nat \ {0}
    BY DEF Invested
  <1>5. CASE r.action = "buy"
    <2>1. /\ ValueNow(r, cache) = c * n /\ GainOf(r, cache) = n * (c - p)
          /\ IsWon(r, cache) <=> c > p
      BY <1>5 DEF ValueNow, GainOf, IsWon
    <2> HIDE DEF p, c, n
    <2>2. c - p \in Int /\ (n * (c - p) > 0 <=> c > p) /\ n * (c - p) \in Int
      <3>1. c - p \in Int /\ n * (c - p) \in Int
        BY <1>1, <1>2, <1>4
      <3>2. c > p => n * (c - p) > 0
        BY <1>1, <1>2, <1>4
      <3>3. c <= p => n * (c - p) <= 0
        BY <1>1, <1>2, <1>4
      <3> QED BY <1>1, <1>2, <3>1, <3>2, <3>3
    <2>3. c * n \in Int /\ p * n \in Int
      BY <1>1, <1>2, <1>4
    <2> QED BY <1>3, <1>4, <2>1, <2>2, <2>3
  <1>6. CASE r.action = "sell"
    <2>1. /\ ValueNow(r, cache) = 2 * (p * n) - ((p * n) * c) \div p
          /\ GainOf(r, cache) = n * (p - c)
          /\ IsWon(r, cache) <=> c < p
      BY <1>4, <1>6 DEF ValueNow, GainOf, IsWon
    <2> HIDE DEF p, c, n
    <2>2. p - c \in Int /\ (n * (p - c) > 0 <=> c < p) /\ n * (p - c) \in Int
      <3>1. p - c \in Int /\ n * (p - c) \in Int
        BY <1>1, <1>2, <1>4
      <3>2. p > c => n * (p - c) > 0
        BY <1>1, <1>2, <1>4
      <3>3. p <= c => n * (p - c) <= 0
        BY <1>1, <1>2, <1>4
      <3> QED BY <1>1, <1>2, <3>1, <3>2, <3>3
    <2>3. (p * n) * c \in Int /\ p * n \in Int
      BY <1>1, <1>2, <1>4
    <2>4. ((p * n) * c) \div p \in Int
      BY <1>1, <2>3
    <2> QED BY <1>3, <1>4, <2>1, <2>2, <2>3, <2>4
  <1> QED BY <1>5, <1>6 DEF Counted

\* The accumulators after n iterations.
AddsUpTo(p, sum, results, cache, n) ==
  LET Gains == {GainOf(results[i], cache) : i \in Taken(results, n)}
  IN  /\ p.approved = Cardinality(Taken(results, n))
      /\ p.won = Cardinality(Winners(results, cache, n))
      /\ p.value \in Int /\ p.invested \in Int
      /\ p.value - p.invested = sum[Taken(results, n)]
      /\ Taken(results, n) # {} => /\ p.best \in Gains /\ \A g \in Gains : p.best >= g
                                   /\ p.worst \in Gains /\ \A g \in Gains : p.worst <= g

\* One iteration: what holds of the first n results holds of the first n + 1.
LEMMA OneIteration ==
  ASSUME NEW results, NEW cache, Sized(results, cache), NEW n \in Nat, n + 1 \in DOMAIN results,
         NEW sum, \A x \in Taken(results, n + 1) :
                    sum[Taken(results, n + 1)] =
                      GainOf(results[x], cache) + sum[Taken(results, n + 1) \ {x}],
         sum[Taken(results, n)] \in Int,
         NEW p, AddsUpTo(p, sum, results, cache, n)
  PROVE  AddsUpTo(AddCycle(p, results[n + 1], cache), sum, results, cache, n + 1)
  <1> DEFINE r == results[n + 1]
             q == AddCycle(p, r, cache)
             A == Taken(results, n)
             B == Taken(results, n + 1)
             W == Winners(results, cache, n)
             V == Winners(results, cache, n + 1)
             G == {GainOf(results[i], cache) : i \in A}
             H == {GainOf(results[i], cache) : i \in B}
  <1>0. 1 .. n + 1 = (1 .. n) \cup {n + 1} /\ n + 1 \notin 1 .. n
    OBVIOUS
  <1>1. /\ IsFiniteSet(A) /\ IsFiniteSet(W) /\ W \subseteq A /\ n + 1 \notin A
        /\ Cardinality(A) \in Nat /\ Cardinality(W) \in Nat
    <2>1. A \subseteq 1 .. n /\ W \subseteq A
      BY DEF Taken, Winners
    <2>2. IsFiniteSet(1 .. n)
      <3>1. 1 \in Int /\ n \in Int
        OBVIOUS
      <3> QED BY <3>1, FS_Interval
    <2>3. IsFiniteSet(A) /\ IsFiniteSet(W)
      BY <2>1, <2>2, FS_Subset
    <2> QED BY <1>0, <2>1, <2>3, FS_CardinalityType
  <1>2. /\ p.approved = Cardinality(A) /\ p.won = Cardinality(W)
        /\ p.value \in Int /\ p.invested \in Int /\ p.value - p.invested = sum[A]
        /\ A # {} => /\ p.best \in G /\ \A g \in G : p.best >= g
                     /\ p.worst \in G /\ \A g \in G : p.worst <= g
    BY DEF AddsUpTo
  <1>3. CASE ~Counted(r)
    <2>1. q = p
      BY <1>3 DEF AddCycle
    <2>2. B = A
      BY <1>0, <1>3 DEF Taken
    <2>3. V = W
      BY <2>2 DEF Winners
    <2> HIDE DEF q, A, B, W, V
    <2>4. AddsUpTo(q, sum, results, cache, n) <=> AddsUpTo(q, sum, results, cache, n + 1)
      BY <2>2, <2>3 DEF AddsUpTo, A, B, W, V
    <2> QED BY <2>1, <2>4 DEF q
  <1>4. CASE Counted(r)
    <2> DEFINE gain == GainOf(r, cache)
    <2>1. /\ r \in ResultSet /\ cache \in Prices /\ SizeInUnits(r, cache) \in Nat \ {0}
      BY <1>4 DEF Sized
    <2>2. /\ ValueNow(r, cache) - Invested(r, cache) = gain
          /\ ValueNow(r, cache) \in Int /\ Invested(r, cache) \in Int /\ gain \in Int
          /\ gain > 0 <=> IsWon(r, cache)
      BY <1>4, <2>1, OnePosition
    <2>3. q = [ approved |-> p.approved + 1,
                won      |-> p.won + (IF gain > 0 THEN 1 ELSE 0),
                invested |-> p.invested + Invested(r, cache),
                value    |-> p.value + ValueNow(r, cache),
                best     |-> IF p.approved = 0 \/ gain > p.best THEN gain ELSE p.best,
                worst    |-> IF p.approved = 0 \/ gain < p.worst THEN gain ELSE p.worst ]
      BY <1>4, <2>2 DEF AddCycle
    <2>4. B = A \cup {n + 1} /\ B \ {n + 1} = A /\ n + 1 \in B
      BY <1>0, <1>1, <1>4 DEF Taken
    <2>5. V = IF IsWon(r, cache) THEN W \cup {n + 1} ELSE W
      BY <2>4 DEF Winners
    <2>6. H = G \cup {gain}
      BY <2>4
    <2>7. sum[B] = gain + sum[A]
      BY <2>4
    <2>8. G \subseteq Int
      <3>1. ASSUME NEW i \in A
            PROVE  GainOf(results[i], cache) \in Int
        <4>1. i \in 1 .. n /\ Counted(results[i])
          BY DEF Taken
        <4>2. i \in DOMAIN results
          BY <4>1 DEF Sized
        <4>3. /\ results[i] \in ResultSet /\ cache \in Prices
              /\ SizeInUnits(results[i], cache) \in Nat \ {0}
          BY <4>1, <4>2 DEF Sized
        <4> QED BY <4>1, <4>3, OnePosition
      <3> QED BY <3>1
    <2> HIDE DEF q, A, B, W, V, G, H, gain
    <2>9. q.approved = Cardinality(B)
      BY <1>1, <1>2, <2>3, <2>4, FS_AddElement
    <2>10. q.won = Cardinality(V)
      <3>1. Cardinality(W \cup {n + 1}) = Cardinality(W) + 1
        BY <1>1, FS_AddElement
      <3> QED BY <1>1, <1>2, <2>2, <2>3, <2>5, <3>1
    <2>11. q.value \in Int /\ q.invested \in Int /\ q.value - q.invested = sum[B]
      BY <1>2, <2>2, <2>3, <2>7
    <2>12. /\ q.best \in H /\ \A g \in H : q.best >= g
           /\ q.worst \in H /\ \A g \in H : q.worst <= g
      <3>1. CASE A = {}
        <4>1. p.approved = 0
          BY <1>2, <3>1, FS_EmptySet
        <4>2. H = {gain}
          BY <2>6, <3>1 DEF G
        <4> QED BY <2>2, <2>3, <4>1, <4>2
      <3>2. CASE A # {}
        <4>1. p.approved # 0
          BY <1>1, <1>2, <3>2, FS_EmptySet
        <4>2. p.best \in Int /\ p.worst \in Int
          BY <1>2, <2>8, <3>2
        <4> QED BY <1>2, <2>2, <2>3, <2>6, <2>8, <3>2, <4>1, <4>2
      <3> QED BY <3>1, <3>2
    <2> QED BY <2>9, <2>10, <2>11, <2>12 DEF AddsUpTo, q, B, V, H
  <1> QED BY <1>3, <1>4

\* compute_pnl over any list of results: by induction over its length.
LEMMA LoopAddsUp ==
  ASSUME NEW results, NEW cache, Sized(results, cache)
  PROVE  LET S == Taken(results, Len(results))
         IN  AddsUpTo(ComputePnL(results, cache), Sums(S, results, cache),
                      results, cache, Len(results))
  <1> DEFINE m == Len(results)
             S == Taken(results, m)
             sum == Sums(S, results, cache)
             loop == Loop(results, cache)
             gain == [i \in S |-> GainOf(results[i], cache)]
             first == [s \in SUBSET S |-> CHOOSE x \in s : TRUE]
             T == {n \in Nat : n <= m => AddsUpTo(loop[1 .. n], sum, results, cache, n)}
  <1>1. m \in Nat /\ DOMAIN results = 1 .. m /\ S \subseteq 1 .. m
    BY DEF Sized, Taken
  <1>2. IsFiniteSet(S)
    <2>1. 1 \in Int /\ m \in Int
      BY <1>1
    <2>2. IsFiniteSet(1 .. m)
      BY <2>1, FS_Interval
    <2> QED BY <1>1, <2>2, FS_Subset
  <1>3. loop = [s \in SUBSET (1 .. m) |-> LoopBody(loop, s, results, cache)]
    <2> HIDE DEF m
    <2>1. Loop(results, cache) =
            [s \in SUBSET DOMAIN results |-> LoopBody(Loop(results, cache), s, results, cache)]
      BY <1>1, LoopEquation
    <2> QED BY <1>1, <2>1
  <1>4. \A s \in SUBSET S : sum[s] = SumBody(sum, s, results, cache)
    <2> HIDE DEF S
    <2> QED BY <1>2, SumEquation
  <1>5. gain \in [S -> Int]
    <2>1. ASSUME NEW i \in S
          PROVE  GainOf(results[i], cache) \in Int
      <3>1. i \in DOMAIN results /\ Counted(results[i])
        BY <1>1 DEF Taken
      <3>2. /\ results[i] \in ResultSet /\ cache \in Prices
            /\ SizeInUnits(results[i], cache) \in Nat \ {0}
        BY <3>1 DEF Sized
      <3> QED BY <3>1, <3>2, OnePosition
    <2> QED BY <2>1
  <1> HIDE DEF m, S, sum, loop
  <1>6. \A s \in SUBSET S : sum[s] \in Int /\ \A x \in s : sum[s] = gain[x] + sum[s \ {x}]
    <2>1. sum[{}] = 0
      BY <1>4 DEF SumBody
    <2>2. ASSUME NEW s \in SUBSET S, s # {}
          PROVE  first[s] \in s /\ sum[s] = gain[first[s]] + sum[s \ {first[s]}]
      <3>1. first[s] \in s /\ first[s] = CHOOSE x \in s : TRUE
        BY <2>2
      <3>2. sum[s] = GainOf(results[first[s]], cache) + sum[s \ {first[s]}]
        BY <1>4, <2>2, <3>1 DEF SumBody
      <3>3. gain[first[s]] = GainOf(results[first[s]], cache)
        BY <3>1
      <3> QED BY <3>1, <3>2, <3>3
    <2> HIDE DEF gain, first
    <2>3. SumsOver(S, gain, sum, first)
      BY <2>1, <2>2 DEF SumsOver
    <2>4. TakesAny(S, gain, sum)
      BY <1>2, <1>5, <2>3, TakeAny
    <2> QED BY <2>4 DEF TakesAny
  <1>7. 0 \in T
    <2>1. 1 .. 0 = {}
      OBVIOUS
    <2>2. loop[1 .. 0] = NoCycles
      BY <1>3, <2>1 DEF LoopBody
    <2>3. Taken(results, 0) = {} /\ Winners(results, cache, 0) = {}
      BY <2>1 DEF Taken, Winners
    <2>4. sum[{}] = 0
      BY <1>4 DEF SumBody
    <2>5. AddsUpTo(NoCycles, sum, results, cache, 0)
      BY <2>3, <2>4, FS_EmptySet DEF AddsUpTo, NoCycles
    <2> QED BY <2>2, <2>5
  <1>8. ASSUME NEW n \in Nat, n \in T
        PROVE  n + 1 \in T
    <2> SUFFICES ASSUME n + 1 <= m
                 PROVE  AddsUpTo(loop[1 .. n + 1], sum, results, cache, n + 1)
      OBVIOUS
    <2> DEFINE s == 1 .. n + 1
               A == Taken(results, n)
               B == Taken(results, n + 1)
    <2>1. /\ s \in SUBSET (1 .. m) /\ n + 1 \in s /\ s \ {n + 1} = 1 .. n
          /\ \A y \in s : n + 1 >= y
      BY <1>1
    <2>2. Max(s) = n + 1
      <3>1. Max(s) \in s /\ \A y \in s : Max(s) >= y
        BY <1>1, <2>1, LastOne
      <3> QED BY <2>1, <3>1
    <2>3. loop[s] = AddCycle(loop[1 .. n], results[n + 1], cache)
      BY <1>3, <2>1, <2>2 DEF LoopBody
    <2>4. A \in SUBSET S /\ B \in SUBSET S
      BY <1>1, <2>1 DEF Taken, S
    <2>5. sum[A] \in Int /\ \A x \in B : sum[B] = GainOf(results[x], cache) + sum[B \ {x}]
      BY <1>6, <2>4
    <2>6. AddsUpTo(loop[1 .. n], sum, results, cache, n) /\ n + 1 \in DOMAIN results
      BY <1>1, <1>8
    <2>7. AddsUpTo(AddCycle(loop[1 .. n], results[n + 1], cache), sum, results, cache, n + 1)
      BY <2>5, <2>6, OneIteration
    <2> QED BY <2>3, <2>7
  <1>9. m \in T
    <2> HIDE DEF T
    <2> QED BY <1>1, <1>7, <1>8, CountUp
  <1>10. ComputePnL(results, cache) = loop[1 .. m]
    BY <1>1, LoopIs DEF loop
  <1> QED BY <1>1, <1>9, <1>10 DEF sum, S, m

\* The largest and the smallest of a set of numbers.
LEMMA MaxMinOf ==
  ASSUME NEW S \in SUBSET Int, NEW a \in S, NEW b \in S,
         \A x \in S : a >= x, \A x \in S : b <= x
  PROVE  a = Max(S) /\ b = Min(S)
  <1>1. \A x \in S : (\A y \in S : x >= y) => x = a
    OBVIOUS
  <1>2. \A x \in S : (\A y \in S : x =< y) => x = b
    OBVIOUS
  <1> QED BY <1>1, <1>2 DEF Max, Min

\* The dashboard's cache holds quotes.
DashOK == dashCache \in Prices

\* A scan of the dashboard takes quotes over; nothing else writes its cache.
LEMMA DashStep ==
  ASSUME IInv, DashOK, [Next]_vars
  PROVE  DashOK'
  <1>1. ASSUME NEW S, DashScan(S)
        PROVE  DashOK'
    BY <1>1, MarketAssumption, RefreshedPrices DEF DashScan, IInv, DashOK
  <1>2. CASE UNCHANGED dashCache
    BY <1>2 DEF DashOK
  <1> QED BY <1>1, <1>2 DEF Next, vars, DemoScan, DemoDecide, DemoExecute, DemoPublish,
                            InjectSignal, CycleEnds, MarketMoves

\* Every result in the state file names ether or USDC, so that the size of a
\* position is the commitment.
LEMMA FileIsSized ==
  ASSUME IInv, SignalsOK, DashOK
  PROVE  Sized(file, dashCache)
  <1>1. ASSUME NEW i \in DOMAIN file
        PROVE  SizeInUnits(file[i], dashCache) \in Nat \ {0}
    <2>1. file[i].signal.in_sym \in {"ETH", "USDC"}
      BY DEF SignalsOK, AllNamed, Named, IInv, DemoPairs
    <2>2. SizeInUnits(file[i], dashCache) = Commitment
      BY <2>1 DEF SizeInUnits
    <2> QED BY <2>2, CommitmentAssumption
  <1> QED BY <1>1 DEF Sized, SignalsOK, DashOK

\* compute_pnl: whatever results the demo and the dashboard have put into the
\* file and whatever the prices, the P&L it reports is the sum of the directed
\* gains, the wins are counted right, and the best and the worst cycle are the
\* extremes.
THEOREM PnLSafe == Spec => []PnLAddsUp
  <1>1. IInv /\ SignalsOK /\ DashOK => PnLAddsUp
    <2> SUFFICES ASSUME IInv, SignalsOK, DashOK PROVE PnLAddsUp
      OBVIOUS
    <2> DEFINE m == Len(file)
               S == Taken(file, m)
               sum == Sums(S, file, dashCache)
               p == ComputePnL(file, dashCache)
               Gains == {GainOf(file[i], dashCache) : i \in Positions}
               Won == {i \in Positions :
                   IF file[i].action = "buy" THEN Current(file[i], dashCache) > file[i].signal.price
                                             ELSE Current(file[i], dashCache) < file[i].signal.price}
    <2>1. Sized(file, dashCache)
      BY FileIsSized
    <2>2. AddsUpTo(p, sum, file, dashCache, m)
      BY <2>1, LoopAddsUp
    <2>3. S = Positions /\ DOMAIN file = 1 .. m
      BY <2>1 DEF Sized, Taken, Positions
    <2>4. Winners(file, dashCache, m) = Won
      BY <2>3 DEF Winners, IsWon
    <2>5. MapThenSumSet(LAMBDA i : GainOf(file[i], dashCache), Positions)
            = Sums(Positions, file, dashCache)[Positions]
      BY SumIs
    <2>6. /\ p.approved = Cardinality(Positions) /\ p.won = Cardinality(Won)
          /\ p.value - p.invested = sum[Positions]
          /\ Positions # {} => /\ p.best \in Gains /\ \A g \in Gains : p.best >= g
                               /\ p.worst \in Gains /\ \A g \in Gains : p.worst <= g
      <3> HIDE DEF p, sum, Won, m
      <3> QED BY <2>2, <2>3, <2>4 DEF AddsUpTo
    <2>7. Gains \in SUBSET Int
      <3>1. ASSUME NEW i \in Positions
            PROVE  GainOf(file[i], dashCache) \in Int
        <4>1. /\ Counted(file[i]) /\ file[i] \in ResultSet /\ dashCache \in Prices
              /\ SizeInUnits(file[i], dashCache) \in Nat \ {0}
          BY <2>1 DEF Positions, Sized
        <4> QED BY <4>1, OnePosition
      <3> QED BY <3>1
    <2>8. Positions # {} => p.best = Max(Gains) /\ p.worst = Min(Gains)
      <3> HIDE DEF Gains, p
      <3> QED BY <2>6, <2>7, MaxMinOf
    <2>9. p.value - p.invested = MapThenSumSet(LAMBDA i : GainOf(file[i], dashCache), Positions)
      BY <2>3, <2>5, <2>6
    <2>10. p.approved - Cardinality(Committed) = Cardinality(Errors)
      <3>1. Positions \subseteq 1 .. m /\ m \in Nat
        BY <2>3 DEF Positions, SignalsOK
      <3>2. IsFiniteSet(1 .. m)
        <4>1. 1 \in Int /\ m \in Int
          BY <3>1
        <4> QED BY <4>1, FS_Interval
      <3>3. IsFiniteSet(Positions) /\ Errors \subseteq Positions
        BY <3>1, <3>2, FS_Subset DEF Errors
      <3>4. IsFiniteSet(Errors) /\ IsFiniteSet(Committed)
        BY <3>3, FS_Subset DEF Committed
      <3>5. Positions = Errors \cup Committed /\ Errors \cap Committed = {}
        BY <3>3 DEF Committed
      <3>6. Cardinality(Errors) \in Nat /\ Cardinality(Committed) \in Nat
        BY <3>4, FS_CardinalityType
      <3>7. Cardinality(Positions) = Cardinality(Errors) + Cardinality(Committed)
        <4>1. Cardinality(Errors \cup Committed)
                = Cardinality(Errors) + Cardinality(Committed) - Cardinality(Errors \cap Committed)
          BY <3>4, FS_Union
        <4>2. Cardinality(Errors \cap Committed) = 0
          BY <3>5, FS_EmptySet
        <4> QED BY <3>5, <3>6, <4>1, <4>2
      <3> HIDE DEF p
      <3> QED BY <2>6, <3>6, <3>7
    <2>11. Positions # {} => p.best = Max(Gains) /\ p.worst = Min(Gains)
      BY <2>8
    <2> QED BY <2>6, <2>9, <2>10, <2>11 DEF PnLAddsUp
  <1>2. Init => DashOK
    <2>1. NoQuote \in Quote
      BY DEF NoQuote, Quote
    <2> QED BY <2>1 DEF Init, DashOK, NoPrices, Prices
  <1> QED BY <1>1, <1>2, InitSignals, InitIInv, NextIInv, SignalsStep, DashStep, PTL DEF Spec
=============================================================================
