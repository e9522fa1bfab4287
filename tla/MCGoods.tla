------------------------------- MODULE MCGoods -------------------------------
(***************************************************************************)
(* Small instances of Items, Market and Houses in one state space.  They   *)
(* share no state (the models of the market and of a house have goods and  *)
(* players of their own), so a behaviour of all is an interleaving of      *)
(* independent ones: which says whose behaviour this is, and the others    *)
(* stay as they begin.                                                     *)
(***************************************************************************)
EXTENDS Houses, Market

VARIABLES
  which,
  inside, weight, traded, bank, lost

itemVars == <<inside, weight, traded, bank, lost>>

\* Two bags, one in the other, and a large coin next to a player.
CoinWorth == [gold |-> 1, plat |-> 3]
Currency == <<"plat", "gold">>
Of(k, n) == [kind |-> k, n |-> n]
AtFirst ==
  [back |-> <<Of("b1", 1)>>, ammo |-> <<>>,
   tile |-> <<Of("plat", 1)>>,
   b1 |-> <<Of("b2", 1)>>, b2 |-> <<>>]

I == INSTANCE Items WITH Bag <- {"b1", "b2"}, Stackable <- {"gold", "plat"}, worth <- CoinWorth,
                         currency <- Currency, Stack <- 2, Capacity <- 2, Load <- 7, Begin <- AtFirst

\* A seller with goods, a buyer with money, each with a store coin.
OwnAccount == [p \in Trader |-> p]
Belongings == [anna |-> [cash |-> 0, bank |-> 1, goods |-> 2], carl |-> [cash |-> 1, bank |-> 1, goods |-> 0]]

\* Two players, one of whom lists may name, two beds and a lamp; of what can be
\* done with a house, the parts that may get into each other's way.
HouseThemes ==
  {{"ann", "ben", "things", "saves"}, {"ben", "guests", "saves"}, {"ann", "ben", "sale", "guests"},
   {"ben", "bunk", "saves"}, {"ben", "bunk", "cot"}, {"ann", "ben", "bunk"},
   {"ann", "ben", "rent", "saves"}}

ASSUME GoodsAssumption == I!ItemsAssumption

Init == which \in {"items", "market", "house"} /\ I!ItemsInit /\ MarketInit
        /\ HousesInit /\ (which # "house" => theme = {"ann", "ben", "sale", "guests"})

Next ==
  \/ which = "items" /\ I!ItemsNext /\ UNCHANGED <<which, marketVars, housesVars>>
  \/ which = "market" /\ MarketNext /\ UNCHANGED <<which, itemVars, housesVars>>
  \/ which = "house" /\ HousesNext /\ UNCHANGED <<which, itemVars, marketVars>>

Spec ==
  /\ Init /\ [][Next]_<<which, itemVars, marketVars, housesVars>>
  /\ WF_marketVars(which = "market" /\ CheckExpiredOffers)
  /\ WF_marketVars(which = "market" /\ Select)
  /\ WF_marketVars(which = "market" /\ ProcessExpiredOffers)

----------------------------------------------------------------------------
(* What is checked, of the part that moves: the others stay as they begin *)

\* What a player has: money is kept and only lost in a trade, bags nest and weigh
\* what they hold.
GoodsKept ==
  /\ [](which = "items" => I!MoneyConserved /\ I!BagsSound)
  /\ I!LostOnlyInTrade
==============================================================================
