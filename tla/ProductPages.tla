---------------------------- MODULE ProductPages -----------------------------
(***************************************************************************)
(* What the pages of the shops say: how the fields that the providers read *)
(* are related to the product that is sold.  Shops and services are not    *)
(* under the control of the program; this module says which of their pages *)
(* the program can be expected to read right.                              *)
(*                                                                         *)
(* A page sells a product (sold): its price, the price before a discount,  *)
(* the stock and the currency, None for what it does not say.              *)
(***************************************************************************)
EXTENDS ProductPayload

(* A name that ends in U stands for kopecks, and so do the prices of sizes *)
(* and the basic price.                                                    *)
NamedInKopecks ==
  {"salePriceU", "sale_price_u", "priceU", "retailPriceU", "oldPriceU",
   "old_price_u", "price.salePriceU", "price.oldPriceU"}
OfSizes ==
  {"sizes.price.product", "sizes.price.sale", "sizes.price.total",
   "sizes.price.basic", "price.basic"}

Unit(path) == IF path \in NamedInKopecks \cup OfSizes THEN 100 ELSE 1

(* An amount as a number, or written with blanks between the thousands, or *)
(* with commas there and a dot before the kopecks.                         *)
Says(v, n) ==
  \/ v = Number(n)
  \/ /\ v.is = "text"
     /\ n = 100 * v.whole + v.cents
     /\ \/ v.group \in {"none", "space"}
        \/ v.group = "comma" /\ v.point = "dot"

(* The fields of paths P that are filled say the price n.                  *)
PriceIn(fields, P, n) ==
  \A path \in P : \A i \in Filled(fields, path) :
    n # None /\ Says(fields[path][i], Unit(path) * n)

SomeFilled(fields, P) == \E path \in P : Filled(fields, path) # {}

(* A Wildberries page shows the price before the discount as priceU.  With *)
(* a discount it shows the price too, in a field that is read before that. *)
Discounted ==
  {"salePriceU", "sale_price_u", "salePrice", "sale_price", "salePriceRub",
   "sale_price_rub"}

WildberriesPrices(fields, sale, base, sold) ==
  /\ PriceIn(fields, Range(sale) \ {"priceU"}, sold.price)
  /\ PriceIn(fields, Range(base), sold.old)
  /\ sold.price # None => SomeFilled(fields, Range(sale))
  /\ sold.old # None => SomeFilled(fields, Range(base))
  /\ Filled(fields, "priceU") # {} /\ sold.price # sold.old
       => SomeFilled(fields, Discounted)

OtherPrices(fields, sale, base, sold) ==
  /\ PriceIn(fields, Range(sale), sold.price)
  /\ PriceIn(fields, Range(base), sold.old)
  /\ sold.price # None => SomeFilled(fields, Range(sale))
  /\ sold.old # None => SomeFilled(fields, Range(base))

(* The currency, by its code or by a sign that the provider knows.  A page *)
(* that has a price and no currency means roubles.                         *)
RoubleSigns == {"rouble sign", "R", "RUR"}
Foreign ==
  [w \in {"dollar sign", "euro sign"} |-> IF w = "dollar sign" THEN "USD" ELSE "EUR"]

CurrencyIn(fields, P, signs, sold) ==
  /\ \A path \in P : \A i \in Filled(fields, path) :
       LET v == fields[path][i]
       IN  /\ v.is = "word"
           /\ \/ v.word \in RoubleSigns /\ sold.currency = "RUB"
              \/ v.word \in signs /\ sold.currency = Foreign[v.word]
              \/ v.word \notin RoubleSigns \cup DOMAIN Foreign /\ sold.currency = v.word
  /\ ~SomeFilled(fields, P)
       => sold.currency = IF sold.price = None THEN None ELSE "RUB"

(* A flag, a number or a word that tells of the stock n.                   *)
TellsStock(v, n) ==
  \/ v.is = "flag" /\ n # None /\ (v.set <=> n > 0)
  \/ v.is = "number" /\ n # None /\ v.amount \in Int /\ (v.amount > 0 <=> n > 0)
  \/ /\ v.is = "word"
     /\ v.word \in {"true", "available", "in_stock", "instock", "yes", "1"}
          => n # None /\ n > 0
     /\ v.word \in {"false", "unavailable", "out_of_stock", "outofstock", "no",
                    "sold_out", "0", "net_v_nalichii"}
          => n = 0

StockIn(fields, P, n) ==
  \A path \in P : \A i \in Filled(fields, path) : TellsStock(fields[path][i], n)

(* The stocks of the sizes add up to the stock.                            *)
StockOfSizes(fields, n) ==
  LET stocks == StockValues(fields)
      total == Total([i \in DOMAIN stocks |-> stocks[i].amount])
  IN  /\ \A i \in DOMAIN stocks : stocks[i] # None /\ stocks[i].is = "number"
      /\ stocks # << >> => n # None /\ total \in Int /\ (total > 0 <=> n > 0)

(* The fields that tell of the stock.                                      *)
StockPaths ==
  {"availability", "availabilityStatus", "status", "inStock", "isAvailable",
   "available", "stock", "quantity", "totalQuantity", "total_quantity"}
-----------------------------------------------------------------------------
(* What a provider finds where it looks for the product.                   *)
IsFields(fields) ==
  \A path \in DOMAIN fields :
    /\ DOMAIN fields[path] \subseteq Nat
    /\ None \notin Range(fields[path])

IsSale(sold) ==
  /\ sold.price \in Int \cup {None} /\ sold.old \in Int \cup {None}
  /\ sold.stock \in Nat \cup {None}

DirectPageSays(fields, sold) ==
  /\ IsFields(fields) /\ IsSale(sold)
  /\ WildberriesPrices(fields, DirectPrice, DirectOldPrice, sold)
  /\ CurrencyIn(fields, Range(CurrencyPaths), {}, sold)
  /\ StockIn(fields, StockPaths, sold.stock)
  /\ StockOfSizes(fields, sold.stock)

(* isSoldOut is a flag of its own: it is set when nothing is left.         *)
SoldOutIn(fields, n) ==
  \A i \in Filled(fields, "isSoldOut") :
    LET v == fields["isSoldOut"][i]
    IN  v.is = "flag" /\ v.set \in BOOLEAN /\ n # None /\ (v.set <=> n = 0)

(* A page that tells of its stock by isSoldOut alone.                      *)
SaysOnlySoldOut(fields) ==
  Filled(fields, "isSoldOut") # {} /\ ~SomeFilled(fields, StockPaths)

ApifyPageSays(fields, sold) ==
  /\ IsFields(fields) /\ IsSale(sold)
  /\ WildberriesPrices(fields, ApifyPrice, ApifyOldPrice, sold)
  /\ CurrencyIn(fields, Range(CurrencyPaths), {}, sold)
  /\ StockIn(fields, StockPaths, sold.stock)
  /\ SoldOutIn(fields, sold.stock)

GenericPageSays(fields, sold) ==
  /\ IsFields(fields) /\ IsSale(sold)
  /\ OtherPrices(fields, GenericPrice, GenericOldPrice, sold)
  /\ CurrencyIn(fields, Range(GenericCurrencyPaths), DOMAIN Foreign, sold)
  /\ StockIn(fields, StockPaths, sold.stock)
=============================================================================
