-------------------------- MODULE MCWalletCrawler --------------------------
(* TLC instance of WalletCrawler: pay is spent by move or, if that one is  *)
(* replaced, by swap; away spends the output of move that is watched, and  *)
(* pays to nobody watched.  Blocks spend their own outputs or not.         *)
EXTENDS WalletCrawler

CONSTANTS alice, bob, other

Pays(a, v) == [address |-> a, value |-> v]

MCTx ==
  [pay  |-> [vin |-> <<>>, vout |-> <<Pays(alice, 5), Pays(bob, 1)>>, rbf |-> FALSE],
   move |-> [vin |-> << <<"pay", 1>> >>, vout |-> <<Pays(other, 2), Pays(alice, 3)>>, rbf |-> TRUE],
   swap |-> [vin |-> << <<"pay", 1>>, <<"pay", 2>> >>, vout |-> <<Pays(bob, 6)>>, rbf |-> FALSE],
   away |-> [vin |-> << <<"move", 2>> >>, vout |-> <<Pays(other, 3)>>, rbf |-> FALSE]]

MCWatched == {alice, bob}

MCBlocks == {<<>>, <<"pay">>, <<"pay", "move">>, <<"move">>, <<"swap">>, <<"move", "away">>}

MCPool == {"move", "swap", "away"}
=============================================================================
