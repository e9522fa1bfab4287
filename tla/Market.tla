------------------------------- MODULE Market -------------------------------
(***************************************************************************)
(* The market (game.cpp, iomarket.cpp).  A player who opens an offer hands  *)
(* over what the offer promises: the goods of a sale, the price of a        *)
(* purchase.  It comes back when the offer is cancelled or expires, or goes *)
(* to whoever accepts.  All of this runs on the dispatcher thread, except   *)
(* for the search for expired offers: the database thread selects them, and *)
(* the rows it found are worked off later, as they were when selected.      *)
(*                                                                          *)
(* A player who is in the game is changed in memory (live) and saved when   *)
(* leaving; for one who is not, the code changes the database (saved).      *)
(* Goods are all of one kind, and so are store coins, which belong to an    *)
(* account and are kept in memory for everybody.  Left out: the history and *)
(* the statistics, premium accounts, tiers, and the choice of the items     *)
(* that make up an amount.                                                  *)
(***************************************************************************)
EXTENDS Integers, Sequences, FiniteSets

CONSTANTS
    Trader,         \* characters
    account,        \* the account of each
    Price,          \* prices of one piece
    Amount,         \* amounts of an offer or an acceptance
    Fee,            \* what opening an offer costs
    MaxOffersEach,  \* maxMarketOffersAtATimePerPlayer
    MaxOffers,      \* bound: offers that are ever opened
    MaxChecks,      \* bound: searches for expired offers on their way
    Start,          \* the records of the players at the beginning
    StartCoins      \* the store coins of each account

ASSUME MarketAssumption ==
    /\ IsFiniteSet(Trader)
    /\ Price \subseteq Nat \ {0} /\ Amount \subseteq Nat \ {0}
    /\ {Fee, MaxOffersEach, MaxOffers, MaxChecks, StartCoins} \subseteq Nat
    /\ Start \in [Trader -> [cash : Nat, bank : Nat, goods : Nat]]

VARIABLES
    online,     \* players in the game
    inMarket,   \* Player::inMarket
    live,       \* players in memory, of those who are in the game
    saved,      \* table players
    coins,      \* accountStorageMap: store coins of the accounts
    offers,     \* table market_offers
    opened,     \* the last id of market_offers
    old,        \* offers that have been open longer than marketOfferDuration
    asked,      \* searches that wait for the database thread
    rows,       \* results that wait for the dispatcher
    excess      \* history: what stale rows gave back beyond what was left

marketVars == <<online, inMarket, live, saved, coins, offers, opened, old, asked, rows,
          excess>>

Accounts == {account[p] : p \in Trader}
Id == 1 .. MaxOffers
Kind == {"item", "coin"}
Sort == Kind \cup {"money"}
Offer == [id : Id, owner : Trader, sale : BOOLEAN, kind : Kind, amount : Nat,
          price : Price]
Purse == [cash : Nat, bank : Nat, goods : Nat]

\* The sum of the values of a function to numbers, counted piece by piece.
Total(f) == Cardinality(UNION {{x} \X (1 .. f[x]) : x \in DOMAIN f})

\* What an offer holds of a sort: its goods, or the price of what is wanted.
Held(o, sort) ==
    IF o.sale THEN IF o.kind = sort THEN o.amount ELSE 0
              ELSE IF sort = "money" THEN o.price * o.amount ELSE 0

\* What a set of offers or rows holds.
Value(S, sort) == Total([o \in S |-> Held(o, sort)])

(***************************************************************************)
(* The purses that an operation changes, handed from one step of it to the  *)
(* next.                                                                    *)
(***************************************************************************)
Now == [live |-> live, saved |-> saved, coins |-> coins]

\* Changes the record of p where it is kept: in memory, or in the database.
Add(s, p, field, n) ==
    IF p \in online THEN [s EXCEPT !.live[p][field] = @ + n]
                    ELSE [s EXCEPT !.saved[p][field] = @ + n]

\* Mutant: as if everybody were offline.
CreditSaved(s, p, n) == [s EXCEPT !.saved[p].bank = @ + n]

\* Credits the bank account of somebody else.
Credit(s, p, n) == Add(s, p, "bank", n)

\* Goods go to the inbox, coins to the account.
Deliver(s, p, kind, n) ==
    IF kind = "item" THEN Add(s, p, "goods", n)
                     ELSE [s EXCEPT !.coins[account[p]] = @ + n]

\* What p, who is in the game, has of a kind.
Has(p, kind) == IF kind = "item" THEN live[p].goods ELSE coins[account[p]]

Money(p) == live[p].cash + live[p].bank

\* Debits the sum: cash first, the rest from the bank.
Pay(s, p, sum) ==
    LET cash == IF live[p].cash < sum THEN live[p].cash ELSE sum
    IN  [s EXCEPT !.live[p].cash = @ - cash, !.live[p].bank = @ - (sum - cash)]

\* Gives back what offer o holds for amount n: the goods, or the price.
HandBack(s, o, n) ==
    IF o.sale THEN Deliver(s, o.owner, o.kind, n)
              ELSE Credit(s, o.owner, o.price * n)

PursesAre(s) == live' = s.live /\ saved' = s.saved /\ coins' = s.coins

-----------------------------------------------------------------------------

MarketInit ==
    /\ online = {} /\ inMarket = {}
    /\ live = Start /\ saved = Start
    /\ coins = [a \in Accounts |-> StartCoins]
    /\ offers = {} /\ opened = 0 /\ old = {}
    /\ asked = 0 /\ rows = <<>>
    /\ excess = [sort \in Sort |-> 0]

EnterGame(p) ==
    /\ p \notin online
    /\ online' = online \cup {p}
    /\ live' = [live EXCEPT ![p] = saved[p]]
    /\ UNCHANGED <<inMarket, saved, coins, offers, opened, old, asked, rows, excess>>

LeaveGame(p) ==
    /\ p \in online
    /\ online' = online \ {p} /\ inMarket' = inMarket \ {p}
    /\ saved' = [saved EXCEPT ![p] = live[p]]
    /\ live' = [live EXCEPT ![p] = Start[p]]
    /\ UNCHANGED <<coins, offers, opened, old, asked, rows, excess>>

\* The market opens at a depot and closes on request or with the first step.
Enter(p) ==
    /\ p \in online \ inMarket
    /\ inMarket' = inMarket \cup {p}
    /\ UNCHANGED <<online, live, saved, coins, offers, opened, old, asked, rows, excess>>

Leave(p) ==
    /\ p \in inMarket
    /\ inMarket' = inMarket \ {p}
    /\ UNCHANGED <<online, live, saved, coins, offers, opened, old, asked, rows, excess>>

-----------------------------------------------------------------------------

MayOpen(p) ==
    \/ MaxOffersEach = 0
    \/ Cardinality({o \in offers : o.owner = p}) < MaxOffersEach

\* Opens an offer: the goods or the price, and the fee, are taken at once.
Create(p, sale, kind, n, price) ==
    LET due == IF sale THEN Fee ELSE price * n + Fee
        paid == Pay(Now, p, due)
    IN  /\ opened < MaxOffers
        /\ p \in inMarket
        /\ MayOpen(p)
        /\ due <= Money(p)
        /\ sale => n <= Has(p, kind)
        /\ PursesAre(IF sale THEN Deliver(paid, p, kind, -n) ELSE paid)
        /\ opened' = opened + 1
        /\ offers' = offers \cup {[id |-> opened', owner |-> p, sale |-> sale,
                                   kind |-> kind, amount |-> n, price |-> price]}
        /\ UNCHANGED <<online, inMarket, old, asked, rows, excess>>

Cancel(p, o) ==
    /\ p \in inMarket /\ o.owner = p
    /\ PursesAre(HandBack(Now, o, o.amount))
    /\ offers' = offers \ {o}
    /\ UNCHANGED <<online, inMarket, opened, old, asked, rows, excess>>

\* Mutant: the owner pays a second time.
SellCharging(p, o, n) ==
    /\ ~o.sale
    /\ n <= Has(p, o.kind)
    /\ PursesAre(Deliver(Add(Deliver(Credit(Now, o.owner, -o.price * n), p, o.kind, -n),
                           p, "bank", o.price * n), o.owner, o.kind, n))

\* p accepts n pieces of an offer to buy: the goods go to the owner's inbox,
\* whether the owner is in the game or not.
Sell(p, o, n) ==
    /\ ~o.sale
    /\ n <= Has(p, o.kind)
    /\ PursesAre(Deliver(Add(Deliver(Now, p, o.kind, -n), p, "bank", o.price * n),
                       o.owner, o.kind, n))

\* p accepts n pieces of an offer to sell.
Buy(p, o, n) ==
    /\ o.sale
    /\ o.price * n <= Money(p)
    /\ PursesAre(Credit(Deliver(Pay(Now, p, o.price * n), p, o.kind, n),
                      o.owner, o.price * n))

\* What is left of the offers when n pieces of o have been accepted.
Without(o, n) ==
    (offers \ {o}) \cup
        IF o.amount = n THEN {} ELSE {[o EXCEPT !.amount = @ - n]}

Accept(p, o, n) ==
    /\ p \in inMarket
    /\ account[o.owner] # account[p]
    /\ n <= o.amount
    /\ Sell(p, o, n) \/ Buy(p, o, n)
    /\ offers' = Without(o, n)
    /\ UNCHANGED <<online, inMarket, opened, old, asked, rows, excess>>

-----------------------------------------------------------------------------

\* Time passes; an offer that is old may still be accepted or cancelled.
Age(o) ==
    /\ o.id \notin old
    /\ old' = old \cup {o.id}
    /\ UNCHANGED <<online, inMarket, live, saved, coins, offers, opened, asked, rows,
                   excess>>

\* Posts the search, and schedules itself again.
CheckExpiredOffers ==
    /\ asked + Len(rows) < MaxChecks
    /\ asked' = asked + 1
    /\ UNCHANGED <<online, inMarket, live, saved, coins, offers, opened, old, rows,
                   excess>>

\* What the query selects.
Expired(o) == o.id \in old

\* Mutant: the query does not keep its result, so the callback has none.
SelectSilently ==
    /\ asked > 0
    /\ asked' = asked - 1
    /\ UNCHANGED <<online, inMarket, live, saved, coins, offers, opened, old, rows, excess>>

\* The database thread executes the query and posts the result.
Select ==
    /\ asked > 0
    /\ asked' = asked - 1
    /\ rows' = Append(rows, {o \in offers : Expired(o)})
    /\ UNCHANGED <<online, inMarket, live, saved, coins, offers, opened, old,
                   excess>>

\* moveOfferToHistory finds the offer of a row and deletes it.
MovedToHistory(row) == \E o \in offers : o.id = row.id

\* The offer of a row as it is now, and what the row has beyond it.
OfRow(row) == CHOOSE o \in offers : o.id = row.id
Stale(row) == [row EXCEPT !.amount = @ - OfRow(row).amount]

\* Gives back what a set of rows holds: money and goods to their owners, whether
\* in the game or not, and coins to their accounts.
HandBackAll(found) ==
    LET Owned(p) == {row \in found : row.owner = p}
        OfAccount(a) == {row \in found : account[row.owner] = a}
        Given(purse, p) == [purse EXCEPT !.bank = @ + Value(Owned(p), "money"),
                                         !.goods = @ + Value(Owned(p), "item")]
    IN  [live |-> [p \in Trader |-> IF p \in online THEN Given(live[p], p) ELSE live[p]],
         saved |-> [p \in Trader |-> IF p \in online THEN saved[p] ELSE Given(saved[p], p)],
         coins |-> [a \in Accounts |-> coins[a] + Value(OfAccount(a), "coin")]]

\* Gives back the amounts that the rows had when they were selected.
ProcessExpiredOffers ==
    LET found == {row \in Head(rows) : MovedToHistory(row)}
    IN  /\ rows # <<>>
        /\ rows' = Tail(rows)
        /\ PursesAre(HandBackAll(found))
        /\ offers' = {o \in offers : \A row \in found : row.id # o.id}
        /\ excess' = [sort \in Sort |->
                        excess[sort] + Total([row \in found |-> Held(Stale(row), sort)])]
        /\ UNCHANGED <<online, inMarket, opened, old, asked>>

-----------------------------------------------------------------------------

Request(p) ==
    \/ EnterGame(p) \/ LeaveGame(p) \/ Enter(p) \/ Leave(p)
    \/ \E sale \in BOOLEAN, kind \in Kind, n \in Amount, price \in Price :
           Create(p, sale, kind, n, price)
    \/ \E o \in offers : Cancel(p, o)
    \/ \E o \in offers, n \in Amount : Accept(p, o, n)

MarketNext ==
    \/ \E p \in Trader : Request(p)
    \/ \E o \in offers : Age(o)
    \/ CheckExpiredOffers \/ Select \/ ProcessExpiredOffers

MarketSpec == MarketInit /\ [][MarketNext]_marketVars
             /\ WF_marketVars(CheckExpiredOffers) /\ WF_marketVars(Select)
             /\ WF_marketVars(ProcessExpiredOffers)

-----------------------------------------------------------------------------

\* The record of p that counts.
Record(p) == IF p \in online THEN live[p] ELSE saved[p]

MarketTypeOK ==
    /\ inMarket \subseteq online /\ online \subseteq Trader
    /\ live \in [Trader -> Purse] /\ saved \in [Trader -> Purse]
    /\ coins \in [Accounts -> Nat]
    /\ offers \subseteq Offer /\ opened \in 0 .. MaxOffers
    /\ excess \in [Sort -> Nat]

\* Money, goods and coins are never made and never lost, wherever their owner
\* is and whatever is accepted, cancelled and expires meanwhile: what the
\* players have, the offers hold and the fees took is what there was at the
\* beginning and what expired rows gave back too much, because they were no
\* longer true when they were worked off (processExpiredOffers takes the amount
\* from them).  They never give back too little.
Conserved ==
    /\ MarketTypeOK
    /\ Total([p \in Trader |-> Record(p).cash + Record(p).bank])
           + Value(offers, "money") + Fee * opened
         = Total([p \in Trader |-> Start[p].cash + Start[p].bank]) + excess["money"]
    /\ Total([p \in Trader |-> Record(p).goods]) + Value(offers, "item")
         = Total([p \in Trader |-> Start[p].goods]) + excess["item"]
    /\ Total(coins) + Value(offers, "coin")
         = Total([a \in Accounts |-> StartCoins]) + excess["coin"]

\* Nobody loses anything by what others do: the possessions of a player grow, or
\* stay, with each step that is not a request of a character of the account.
OthersNeverTake ==
    [][\A p \in Trader :
          \/ \E q \in Trader : account[q] = account[p] /\ Request(q)
          \/ /\ Record(p)'.cash + Record(p)'.bank >= Record(p).cash + Record(p).bank
             /\ Record(p)'.goods >= Record(p).goods
             /\ coins'[account[p]] >= coins[account[p]]]_marketVars

\* An offer that is older than its duration leaves the market.
ExpiredLeave ==
    \A id \in Id : id \in old ~> \A o \in offers : o.id # id
=============================================================================
