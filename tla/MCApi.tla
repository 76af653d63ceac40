-------------------------------- MODULE MCApi --------------------------------
(* Api for TLC: a chain of three blocks and small amounts.                     *)
EXTENDS Api, TLC

(* Doubles of three digits.                                                    *)
MCAsFloat(n) ==
  LET unit == IF n < 1000 THEN 1 ELSE IF n < 10000 THEN 10 ELSE 100
  IN ((n + unit \div 2) \div unit) * unit
MCTimes08(n) == MCAsFloat((8 * MCAsFloat(n)) \div 10)

MCLowerCase(s) == IF s = "A" THEN "a" ELSE IF s = "B" THEN "b" ELSE s

(* Block 2 differs from block 1 in everything that is read; it takes away a    *)
(* position, gives both assets symbols that differ in case, and names a        *)
(* transaction that is not found and one without a recipient.  Block 3 has a   *)
(* debt in a token of more than WadDecimals digits, and gives one of block 1   *)
(* the symbol of the other.  An amount of 1045 is not a double.                *)
MCChain ==
  LET token(s, d) == [symbol |-> s, decimals |-> d]
      tx(found, to, time) == [found |-> found, to |-> to, timestamp |-> time]
      entry(asset, held, owed) == [asset |-> asset, collateral |-> held, debt |-> owed]
      v3(price, liquidity) == [price |-> price, liquidity |-> liquidity, fee |-> 500]
  IN << [v2 |-> <<11, 12>>, v3 |-> (2 :> v3(21, 22) @@ 3 :> v3(31, 32)),
         reserves |-> <<entry("a", 5, 0), entry("b", 104, 3)>>,
         token |-> ("a" :> token("A", 2) @@ "b" :> token("B", 1)),
         positions |-> << [id |-> 7], [id |-> 8] >>, position |-> (7 :> 71 @@ 8 :> 81),
         logs |-> << [topic |-> "SWAP", tx |-> "t1"], [topic |-> "LIQUIDATION", tx |-> "t2"] >>,
         tx |-> ("t1" :> tx(TRUE, "pool", 1) @@ "t2" :> tx(TRUE, "pool", 1))],
        [v2 |-> <<13, 14>>, v3 |-> (2 :> v3(23, 24) @@ 3 :> v3(33, 34)),
         reserves |-> <<entry("a", 5, 1), entry("b", 1, 3)>>,
         token |-> ("a" :> token("A", 2) @@ "b" :> token("a", 1)),
         positions |-> << [id |-> 8] >>, position |-> (7 :> 0 @@ 8 :> 82),
         logs |-> << [topic |-> "SWAP", tx |-> "t3"], [topic |-> "SWAP", tx |-> "t4"] >>,
         tx |-> ("t3" :> tx(FALSE, "pool", 2) @@ "t4" :> tx(TRUE, "None", 2)
                 @@ "t1" :> tx(TRUE, "pool", 1) @@ "t2" :> tx(FALSE, "pool", 1))],
        [v2 |-> <<13, 14>>, v3 |-> (2 :> v3(23, 24) @@ 3 :> v3(33, 34)),
         reserves |-> <<entry("a", 5, 0), entry("c", 0, 7)>>,
         token |-> ("a" :> token("A", 2) @@ "c" :> token("C", 3) @@ "b" :> token("A", 1)),
         positions |-> <<>>, position |-> (7 :> 0 @@ 8 :> 0), logs |-> <<>>,
         tx |-> ("t1" :> tx(TRUE, "pool", 1) @@ "t2" :> tx(TRUE, "pool", 1)
                 @@ "t3" :> tx(FALSE, "pool", 2) @@ "t4" :> tx(TRUE, "None", 2))] >>

MCReserves == {0, 1, 5, 8}
MCAmounts == {0, 1, 4}
MCFees == {0, 3000, 500000, 1000000}
MCRatios == {<<0, 1>>, <<1, 1>>, <<3, 2>>}
MCIds == {"sandwich-wbtc-eth-v3", "il-eth-usdc", "unknown"}
=============================================================================
