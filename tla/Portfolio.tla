----------------------------- MODULE Portfolio ------------------------------
(***************************************************************************)
(* From a scan to the P&L the dashboard shows: the demo scans, has the     *)
(* pick scored and executed and records the cycle (demo.py); a signal put  *)
(* in through /api/signal runs a cycle of the dashboard; the results meet  *)
(* in the state file, and compute_pnl (core/pnl.py) marks them with the    *)
(* prices in the dashboard's own cache.                                    *)
(*                                                                         *)
(* Demo and dashboard are two processes, each with a price cache: a scan   *)
(* takes over what CoinGecko answers, which may be nothing (PriceCache has *)
(* the details).  The concurrency of cycles and the writes of the file are *)
(* in TradeCycle; here a cycle of the dashboard is the price it starts     *)
(* with and the result it ends with.                                       *)
(***************************************************************************)
EXTENDS EdgeScore, FiniteSets, FiniteSetsExt, SequencesExt

CONSTANTS Market,      \* the quotes of all coins, one after the other in time
          Commitment,  \* SWARMFI_COMMITMENT_ETH
          MaxDemo,     \* bound on the cycles of the demo
          MaxDash      \* bound on the cycles of the dashboard

ASSUME MarketAssumption ==
  /\ Market \in Seq([Coins -> [usd : Nat, change : Int]])
  /\ Market # <<>>
  /\ \A t \in 1 .. Len(Market), c \in Coins : Market[t][c].usd > 0
\* Divisions by a price are exact.
ASSUME CommitmentAssumption ==
  /\ Commitment \in Nat \ {0}
  /\ \A t \in 1 .. Len(Market), c \in Coins : Commitment % Market[t][c].usd = 0
ASSUME CyclesAssumption == MaxDemo \in Nat /\ MaxDash \in Nat

VARIABLES
  time,        \* where the market is
  demoCache,   \* _price_cache of the demo's process
  dashCache,   \* _price_cache of the dashboard's process
  pair,        \* the demo's --pair
  pc,          \* where the demo stands in its cycle
  sig,         \* its signal
  demoResults, \* its _results
  running,     \* the signals of the dashboard's cycles under way, by number
  started,     \* the number of those cycles
  file         \* results in the state file

vars == <<time, demoCache, dashCache, pair, pc, sig, demoResults, running, started, file>>

\* PAIRS of the demo: 0.001 ETH or 100 USDC.
DemoPairs == { [in_sym |-> "ETH",  amount |-> 100],
               [in_sym |-> "USDC", amount |-> 0] }

\* A signal names its symbol (the default of compute_pnl where it has none)
\* and the price.  coin is history: the coin whose price it is.
Signal(in_sym, price, coin) == [in_sym |-> in_sym, price |-> price, coin |-> coin]
NoSignal == Signal("ETH", 0, "ethereum")

Decisions == {"buy", "sell", "hold"}

\* A result keeps the action; "error" instead of "tx" tells that the swap
\* failed.
Result(action, s, failed) == [action |-> action, signal |-> s, failed |-> failed]

NoPrices == [c \in Coins |-> NoQuote]

\* A scan takes the answer for the coins S into the cache.
Refreshed(cache, S) == [c \in Coins |-> IF c \in S THEN Market[time][c] ELSE cache[c]]

-----------------------------------------------------------------------------
(* core/pnl.py                                                             *)

\* _pnl of the dashboard: the prices by symbol; 0 is a missing price.
PriceOf(cache, sym) ==
  CASE sym \in {"ETH", "WETH"} -> cache["ethereum"].usd
    [] sym = "cbBTC"           -> cache["bitcoin"].usd
    [] OTHER                   -> 0

Current(r, cache) ==
  IF PriceOf(cache, r.signal.in_sym) # 0
    THEN PriceOf(cache, r.signal.in_sym) ELSE r.signal.price

SizeInUnits(r, cache) ==
  IF r.signal.in_sym = "cbBTC" /\ PriceOf(cache, "ETH") > 0
    THEN (Commitment * PriceOf(cache, "ETH")) \div r.signal.price
    ELSE Commitment

Invested(r, cache) == r.signal.price * SizeInUnits(r, cache)

\* Mutant: a short is valued like a long.
ValueNowLong(r, cache) == Current(r, cache) * SizeInUnits(r, cache)

\* A SELL is a short.
ValueNow(r, cache) ==
  IF r.action = "sell"
    THEN 2 * Invested(r, cache) - (Invested(r, cache) * Current(r, cache)) \div r.signal.price
    ELSE Current(r, cache) * SizeInUnits(r, cache)

\* Cycles that compute_pnl counts: it does not look at "error" or "tx".
Counted(r) == r.action \in {"buy", "sell"} /\ r.signal.price > 0

\* The accumulators before the loop: the totals, the wins, and the best and
\* the worst gain so far (None before the first).
NoCycles ==
  [approved |-> 0, won |-> 0, invested |-> 0, value |-> 0, best |-> 0, worst |-> 0]

\* One iteration of the loop of compute_pnl.
AddCycle(acc, r, cache) ==
  LET gain == ValueNow(r, cache) - Invested(r, cache)
  IN  IF ~Counted(r) THEN acc
      ELSE [ approved |-> acc.approved + 1,
             won      |-> acc.won + (IF gain > 0 THEN 1 ELSE 0),
             invested |-> acc.invested + Invested(r, cache),
             value    |-> acc.value + ValueNow(r, cache),
             best     |-> IF acc.approved = 0 \/ gain > acc.best THEN gain ELSE acc.best,
             worst    |-> IF acc.approved = 0 \/ gain < acc.worst THEN gain ELSE acc.worst ]

ComputePnL(results, cache) ==
  FoldLeft(LAMBDA acc, r : AddCycle(acc, r, cache), NoCycles, results)

-----------------------------------------------------------------------------

\* The demo scans and takes the best pair for its signal.  PAIRS is not
\* empty, so there always is one, and the fallback is never used.
DemoScan(S) ==
  /\ pc = "scan"
  /\ Len(demoResults) < MaxDemo
  /\ demoCache' = Refreshed(demoCache, S)
  /\ LET best == PAIRS[BestOf(demoCache', pair.amount)]
     IN  sig' = Signal(best.in_sym, demoCache'[best.coin].usd, best.coin)
  /\ pc' = "decide"
  /\ UNCHANGED <<time, dashCache, pair, demoResults, running, started, file>>

\* sig_view: the symbols of the demo's own pair replace those of the pick.
SigView == [sig EXCEPT !.in_sym = pair.in_sym]

Record(action, failed) ==
  /\ demoResults' = Append(demoResults, Result(action, SigView, failed))
  /\ pc' = "scan"

\* The risk agent decides.  A hold ends the cycle.
DemoDecide(action) ==
  /\ pc = "decide"
  /\ IF action = "hold"
       THEN Record("hold", FALSE)
       ELSE pc' = action /\ UNCHANGED demoResults
  /\ UNCHANGED <<time, demoCache, dashCache, pair, sig, running, started, file>>

\* The swap is made or fails; the result has the action in both cases.
DemoExecute(failed) ==
  /\ pc \in {"buy", "sell"}
  /\ Record(pc, failed)
  /\ UNCHANGED <<time, demoCache, dashCache, pair, sig, running, started, file>>

\* The demo's cycles are over: its results replace those in the file.
DemoPublish ==
  /\ pc = "scan"
  /\ file' = demoResults
  /\ pc' = "done"
  /\ UNCHANGED <<time, demoCache, dashCache, pair, sig, demoResults, running, started>>

\* /api/signal: the signal has no symbols; its price is that of ETH, or 0
\* when it could not be fetched.
InjectSignal(known) ==
  /\ started < MaxDash
  /\ started' = started + 1
  /\ running' = running \cup
       {[n |-> started', signal |-> Signal("ETH", IF known THEN Market[time]["ethereum"].usd ELSE 0,
                                           "ethereum")]}
  /\ UNCHANGED <<time, demoCache, dashCache, pair, pc, sig, demoResults, file>>

\* The cycle of an injected signal ends, held, traded or with a swap that
\* failed, and its result is appended.
CycleEnds(r, action, failed) ==
  /\ failed => action # "hold"
  /\ running' = running \ {r}
  /\ file' = Append(file, Result(action, r.signal, failed))
  /\ UNCHANGED <<time, demoCache, dashCache, pair, pc, sig, demoResults, started>>

\* A poll of the dashboard scans.
DashScan(S) ==
  /\ dashCache' = Refreshed(dashCache, S)
  /\ UNCHANGED <<time, demoCache, pair, pc, sig, demoResults, running, started, file>>

MarketMoves ==
  /\ time < Len(Market)
  /\ time' = time + 1
  /\ UNCHANGED <<demoCache, dashCache, pair, pc, sig, demoResults, running, started, file>>

Init ==
  /\ time = 1
  /\ demoCache = NoPrices
  /\ dashCache = NoPrices
  /\ pair \in DemoPairs
  /\ pc = "scan"
  /\ sig = NoSignal
  /\ demoResults = <<>>
  /\ running = {}
  /\ started = 0
  /\ file = <<>>

Next ==
  \/ \E S \in SUBSET Coins : DemoScan(S) \/ DashScan(S)
  \/ \E a \in Decisions : DemoDecide(a)
  \/ \E failed \in BOOLEAN : DemoExecute(failed)
  \/ DemoPublish
  \/ \E known \in BOOLEAN : InjectSignal(known)
  \/ \E r \in running, a \in Decisions, failed \in BOOLEAN : CycleEnds(r, a, failed)
  \/ MarketMoves

Spec == Init /\ [][Next]_vars

-----------------------------------------------------------------------------
(* Properties.                                                             *)

\* Results the swarm decided to trade on, at a known price; those that ended
\* with an error; those it committed to.
Positions == {i \in DOMAIN file : Counted(file[i])}
Errors    == {i \in Positions : file[i].failed}
Committed == Positions \ Errors

\* What a position has gained, from the definition: the size times the move
\* in the predicted direction.
GainOf(r, cache) ==
  SizeInUnits(r, cache) * (IF r.action = "buy" THEN Current(r, cache) - r.signal.price
                                               ELSE r.signal.price - Current(r, cache))

\* compute_pnl sums up what the swarm decided, committed or not: the net P&L
\* is the sum of the gains of all decisions to trade, a win is a price that
\* moved in the predicted direction, and best and worst bound all the others.
\* The count of approved cycles, which is documented to leave errors out
\* (core/pnl.py:33, 81), is therefore too high by the failed swaps exactly, and
\* what a failed swap would have gained is in the totals.
PnLAddsUp ==
  LET p == ComputePnL(file, dashCache)
      Gains == {GainOf(file[i], dashCache) : i \in Positions}
  IN  /\ p.approved - Cardinality(Committed) = Cardinality(Errors)
      /\ p.value - p.invested = MapThenSumSet(LAMBDA i : GainOf(file[i], dashCache), Positions)
      /\ p.won = Cardinality({i \in Positions :
                   IF file[i].action = "buy" THEN Current(file[i], dashCache) > file[i].signal.price
                                             ELSE Current(file[i], dashCache) < file[i].signal.price})
      /\ Positions # {} => p.best = Max(Gains) /\ p.worst = Min(Gains)

\* scan_pairs: the demo trades the pair of bitcoin exactly when the 24 h change
\* of bitcoin, between -5% and +5%, is more than 0.66 points above that of
\* ether, whether or not there is a price, and else a pair of ether.
PickIsDecided ==
  pc \in Decisions \cup {"decide"} =>
    sig.coin = IF NormaliseMomentum(demoCache["bitcoin"].change)
                    - NormaliseMomentum(demoCache["ethereum"].change) > 66
                 THEN "bitcoin" ELSE "ethereum"

\* A cycle is marked with the current price of its own pair, where that is
\* known.
MarksItsOwnPair ==
  \A i \in Positions :
    dashCache[file[i].signal.coin].usd # 0 =>
      Current(file[i], dashCache) = dashCache[file[i].signal.coin].usd
=============================================================================
