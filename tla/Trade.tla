-------------------------------- MODULE Trade --------------------------------
(***************************************************************************)
(* Prices (backend/app/engine/rules/economy.py).  Modifiers are percents.  *)
(***************************************************************************)
EXTENDS Integers, FiniteSets

CONSTANTS
    Items,         \* tradeable, visible and not stolen
    BasePrice,     \* of each item
    Merchants,
    BuyModifier,   \* buy_price_modifier of each merchant, in percent
    SellModifier,  \* sell_price_modifier of each
    Bands          \* reputation bands the factions of merchants may be in

\* Modifiers are not negative; nothing relates those of one merchant, or of two.
ASSUME TradeAssumption ==
    /\ IsFiniteSet(Items) /\ BasePrice \in [Items -> Nat]
    /\ IsFiniteSet(Merchants)
    /\ BuyModifier \in [Merchants -> Nat] /\ SellModifier \in [Merchants -> Nat]
    /\ Bands \subseteq {"hostile", "suspicious", "neutral", "friendly", "trusted"}

\* Mutant: the table of purchases serves sales too.
RateOfPurchase(direction, band) ==
    CASE band = "hostile" -> 150 [] band = "suspicious" -> 120 [] band = "neutral" -> 100
      [] band = "friendly" -> 90 [] band = "trusted" -> 80

\* _reputation_price_modifier
Rate(direction, band) ==
    IF direction = "buy"
    THEN CASE band = "hostile" -> 150 [] band = "suspicious" -> 120 [] band = "neutral" -> 100
           [] band = "friendly" -> 90 [] band = "trusted" -> 80
    ELSE CASE band = "hostile" -> 50 [] band = "suspicious" -> 80 [] band = "neutral" -> 100
           [] band = "friendly" -> 110 [] band = "trusted" -> 120

\* round: half goes to the even neighbour.
Rounded(n, d) ==
    LET q == n \div d
        twice == 2 * (n % d)
    IN  IF twice > d \/ (twice = d /\ q % 2 = 1) THEN q + 1 ELSE q

\* _merchant_modifier
Modifier(direction, n) == IF direction = "buy" THEN BuyModifier[n] ELSE SellModifier[n]

\* get_item_price, at merchant n.
Price(i, direction, n, band) ==
    Rounded(BasePrice[i] * Modifier(direction, n) * Rate(direction, band), 10000)
=============================================================================
