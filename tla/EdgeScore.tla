----------------------------- MODULE EdgeScore ------------------------------
(***************************************************************************)
(* The edge profile of core/scanner.py: the score of each pair of PAIRS    *)
(* for given prices and a given size, and the pick.                        *)
(*                                                                         *)
(* Numbers are integers: scores in thousandths, weights in hundredths (so  *)
(* a composite is in 1/100000), a 24 h change in hundredths of a percent,  *)
(* amounts in 10^13 wei (1/100000 ETH; the demo's 10^8 wei count as 0).    *)
(***************************************************************************)
EXTENDS Integers, Sequences

PAIRS ==
  << [pair_id |-> "ETH_USDC",   in_sym |-> "ETH",   coin |-> "ethereum", bluechip |-> 1000, spread |-> 920],
     [pair_id |-> "ETH_USDT",   in_sym |-> "ETH",   coin |-> "ethereum", bluechip |-> 950,  spread |-> 880],
     [pair_id |-> "cbBTC_USDC", in_sym |-> "cbBTC", coin |-> "bitcoin",  bluechip |-> 950,  spread |-> 850],
     [pair_id |-> "WETH_USDC",  in_sym |-> "WETH",  coin |-> "ethereum", bluechip |-> 900,  spread |-> 930] >>

Coins == {"ethereum", "bitcoin"}

\* What CoinGecko says of a coin; a coin it does not answer for reads as 0.
NoQuote == [usd |-> 0, change |-> 0]

Clamp(x, lo, hi) == IF x < lo THEN lo ELSE IF x > hi THEN hi ELSE x

\* -5% is 0, +5% is 1.
NormaliseMomentum(change) == Clamp(change + 500, 0, 1000)

\* Full marks from 0.0001 to 1 ETH, less outside, never below 0.3.
SizeFit(amount, in_sym) ==
  LET eth == IF in_sym = "cbBTC" THEN 30 * amount ELSE amount
  IN  IF eth < 10 THEN Clamp(100 * eth, 300, 1000)
      ELSE IF eth <= 100000 THEN 1000
      ELSE Clamp(100000000 \div eth, 300, 1000)

Composite(p, prices, amount) ==
  40 * NormaliseMomentum(prices[p.coin].change)
  + 25 * p.bluechip + 20 * p.spread + 15 * SizeFit(amount, p.in_sym)

\* The stable descending sort puts i before j.
Before(i, j, prices, amount) ==
  LET a == Composite(PAIRS[i], prices, amount)
      b == Composite(PAIRS[j], prices, amount)
  IN  a > b \/ (a = b /\ i < j)

\* Mutant: the sort is ascending.
BestOfAscending(prices, amount) ==
  CHOOSE i \in 1 .. Len(PAIRS) :
    \A j \in 1 .. Len(PAIRS) : i # j => Before(j, i, prices, amount)

\* The first of the ranked pairs.
BestOf(prices, amount) ==
  CHOOSE i \in 1 .. Len(PAIRS) :
    \A j \in 1 .. Len(PAIRS) : i # j => Before(i, j, prices, amount)
=============================================================================
