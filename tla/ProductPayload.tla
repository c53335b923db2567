--------------------------- MODULE ProductPayload ----------------------------
(***************************************************************************)
(* What a provider reads from the JSON of an answer: the price, the price  *)
(* before the discount, the currency and the availability of a product.    *)
(*                                                                         *)
(* A page is one JSON document: where the product lies in it (at), the     *)
(* fields found there, which markers the text of the whole document        *)
(* contains or which status an item reports (marks), and whether the       *)
(* answer had a proof-of-work header (pow).  fields maps the path of a     *)
(* field to the values found there in order; a path through sizes has one  *)
(* for each size that has the field.                                       *)
(*                                                                         *)
(* Amounts are in hundredths: a price of 15 roubles is 1500, and a field   *)
(* that holds it in kopecks is the number 150000.                          *)
(***************************************************************************)
EXTENDS Integers, Sequences, SequencesExt

CONSTANT None

(* Values: a number, true or false, a word (lower case, with underscores   *)
(* for blanks and hyphens), an empty value, or an amount written as text.  *)
(* That has a separator between the thousands and one before the kopecks,  *)
(* each "none", "space", "comma" or "dot", and may carry a currency sign.  *)
Number(n) == [is |-> "number", amount |-> n]
Flag(b) == [is |-> "flag", set |-> b]
Word(w) == [is |-> "word", word |-> w]
Empty == [is |-> "empty"]
Written(whole, cents, group, point) ==
  [is |-> "text", whole |-> whole, cents |-> cents, group |-> group,
   point |-> point]

(* The text of an amount without blanks and signs.  Commas go if there are *)
(* dots too, otherwise they become dots; a group separator that is left is *)
(* taken for the decimal point, and two dots are no number.                *)
Kept(separator, t) ==
  \/ separator = "dot"
  \/ separator = "comma" /\ "dot" \notin {t.group, t.point}

ReadText(t) ==
  IF ~Kept(t.group, t) THEN 100 * t.whole + t.cents
  ELSE IF Kept(t.point, t) THEN None
  ELSE 100 * (t.whole \div 1000) + (t.whole % 1000) \div 10

(* _parse_decimal.                                                         *)
Amount(v) ==
  IF v = None THEN None
  ELSE CASE v.is = "number" -> v.amount
         [] v.is = "text" -> ReadText(v)
         [] OTHER -> None

(* Where a path has a value that is not empty, and the first such value    *)
(* at a path and along paths.                                              *)
Filled(fields, path) ==
  IF path \in DOMAIN fields
  THEN {i \in DOMAIN fields[path] : fields[path][i].is # "empty"}
  ELSE {}

ValueAt(fields, path) ==
  LET filled == Filled(fields, path)
  IN  IF filled = {} THEN None ELSE fields[path][Min(filled)]

FirstValue(fields, paths) ==
  LET filled == {i \in DOMAIN paths : Filled(fields, paths[i]) # {}}
  IN  IF filled = {} THEN None ELSE ValueAt(fields, paths[Min(filled)])

(* _first_price of two providers: the first path whose value is a number;  *)
(* the paths in kopecks are a hundred times the price.  The variant has    *)
(* forgotten that about the prices of sizes.                               *)
FlatKopecks ==
  {"salePriceU", "sale_price_u", "priceU", "retailPriceU", "oldPriceU",
   "old_price_u", "price.salePriceU", "price.oldPriceU", "price.basic"}
InKopecks ==
  FlatKopecks \cup {"sizes.price.product", "sizes.price.sale",
                    "sizes.price.total", "sizes.price.basic"}

FirstPrice(fields, paths) ==
  LET readable == {i \in DOMAIN paths : Amount(ValueAt(fields, paths[i])) # None}
      path == paths[Min(readable)]
      amount == Amount(ValueAt(fields, path))
  IN  IF readable = {} THEN None
      ELSE IF path \in InKopecks THEN amount \div 100 ELSE amount

(* The currency: roubles if the product has a price and names none.        *)
(* Cyrillic letters are transliterated, here and below.                    *)
Sign == [w \in {"rouble sign", "R", "RUB", "RUR"} |-> "RUB"]
GenericSign ==
  [w \in DOMAIN Sign \cup {"dollar sign", "euro sign"} |->
     CASE w = "dollar sign" -> "USD"
       [] w = "euro sign" -> "EUR"
       [] OTHER -> "RUB"]

CurrencyOf(v, price, signs) ==
  IF v = None THEN IF price = None THEN None ELSE "RUB"
  ELSE IF v.word \in DOMAIN signs THEN signs[v.word] ELSE v.word

(* The words of availability.                                              *)
Yes == {"true", "available", "in_stock", "instock", "yes"}
No == {"false", "unavailable", "out_of_stock", "outofstock", "no"}
Preorder == {"preorder", "pre_order"}

Worded(w, yes, no, unavailable) ==
  CASE w \in yes -> "in_stock"
    [] w \in no -> unavailable
    [] w \in Preorder -> "preorder"
    [] OTHER -> "unknown"

InStock(b) == IF b THEN "in_stock" ELSE "unavailable"
-----------------------------------------------------------------------------
(* wildberries_direct.                                                     *)

(* _extract_product: the fields of the product, or None.  A basket host    *)
(* answers with the product itself.                                        *)
DirectProduct(page) ==
  IF \/ page.at \in {"products", "data.products", "data.product", "product"}
     \/ /\ page.at = "root"
        /\ {"nm_id", "imt_name", "vendor_code", "description"}
             \cap DOMAIN page.fields # {}
  THEN page.fields ELSE None

DirectPrice ==
  <<"salePriceU", "sale_price_u", "salePrice", "sale_price", "salePriceRub",
    "sale_price_rub", "priceU", "price.salePriceU", "price.salePrice",
    "price.current", "currentPrice", "current_price", "finalPriceRub",
    "finalPrice", "sizes.price.product", "sizes.price.sale",
    "sizes.price.total">>
DirectOldPrice ==
  <<"priceU", "retailPriceU", "oldPriceU", "old_price_u", "priceRub",
    "retailPriceRub", "oldPriceRub", "old_price_rub", "retailPrice",
    "oldPrice", "old_price", "price.basic", "price.old", "sizes.price.basic">>

(* _total_quantity: the total if there is one, else the sum over the       *)
(* stocks of all sizes.  The variant looks at the first.                   *)
Total(amounts) == FoldLeft(+, 0, amounts)
InFirstStock(amounts) == Head(amounts)
InAllStocks(amounts) == Total(amounts)

(* What stocks there are, of any size.                                     *)
FilledValues(fields, path) ==
  IF path \in DOMAIN fields
  THEN SelectSeq(fields[path], LAMBDA v : v.is # "empty")
  ELSE << >>

StockValues(fields) ==
  FilledValues(fields, "sizes.stocks.qty") \o FilledValues(fields, "sizes.qty")

TotalQuantity(fields) ==
  LET total == Amount(FirstValue(fields, <<"totalQuantity", "total_quantity">>))
      stocks == StockValues(fields)
  IN  IF total # None THEN total
      ELSE IF stocks = << >> THEN None
      ELSE InAllStocks([i \in DOMAIN stocks |-> Amount(stocks[i])])

DirectAvailability(fields) ==
  LET quantity == TotalQuantity(fields)
      v == FirstValue(fields,
             <<"availability", "availabilityStatus", "status", "inStock",
               "isAvailable", "available", "stock", "quantity">>)
  IN  IF quantity # None THEN InStock(quantity > 0)
      ELSE IF v = None THEN "unknown"
      ELSE CASE v.is = "flag" -> InStock(v.set)
             [] Amount(v) # None -> InStock(Amount(v) > 0)
             [] OTHER -> Worded(v.word, Yes, No \cup {"sold_out"}, "unavailable")

DirectTitle == {"name", "title", "goodsName", "productName", "imt_name"}
CurrencyPaths ==
  <<"currency", "currencyCode", "currency_code", "price.currency">>

(* _map_product, the seller and the image left out.                        *)
DirectValues(fields) ==
  LET price == FirstPrice(fields, DirectPrice)
  IN  [titled |-> DirectTitle \cap DOMAIN fields # {},
       price |-> price,
       old |-> FirstPrice(fields, DirectOldPrice),
       currency |-> CurrencyOf(FirstValue(fields, CurrencyPaths), price, Sign),
       availability |-> DirectAvailability(fields)]
-----------------------------------------------------------------------------
(* Apify.                                                                  *)

(* _extract_product_payload: a container that is not empty, or the item    *)
(* itself if it has a field of a product.                                  *)
ApifyProduct(page) ==
  IF \/ /\ page.at \in {"product", "productData", "data.product",
                        "result.product", "item", "pageFunctionResult"}
        /\ DOMAIN page.fields # {}
     \/ /\ page.at = "root"
        /\ {"name", "title", "productName", "salePriceU", "priceU", "inStock",
            "availability", "sellerName", "supplierName"}
             \cap DOMAIN page.fields # {}
  THEN page.fields ELSE None

ApifyPrice ==
  <<"salePriceU", "sale_price_u", "salePriceRub", "sale_price_rub",
    "salePrice", "sale_price", "priceU", "price.salePriceU",
    "price.salePriceRub", "price.salePrice", "price.current", "currentPrice",
    "current_price", "finalPriceRub", "finalPrice">>
ApifyOldPrice ==
  <<"priceU", "retailPriceU", "oldPriceU", "old_price_u", "priceRub",
    "retailPriceRub", "oldPriceRub", "old_price_rub", "retailPrice",
    "oldPrice", "old_price", "price.oldPriceU", "price.oldPriceRub",
    "price.old">>

(* isSoldOut is read like the other fields: true is "in stock".            *)
ApifyAvailability(fields) ==
  LET v == FirstValue(fields,
             <<"availability", "availabilityStatus", "status", "inStock",
               "isAvailable", "available", "stock", "quantity",
               "totalQuantity", "total_quantity", "isSoldOut">>)
  IN  IF v = None THEN "unknown"
      ELSE CASE v.is = "flag" -> InStock(v.set)
             [] v.is = "number" -> InStock(v.amount > 0)
             [] OTHER -> Worded(v.word, Yes \cup {"1"},
                                No \cup {"sold_out", "0", "net_v_nalichii"},
                                "unavailable")

ApifyTitle == {"title", "name", "productName", "goodsName", "card.name"}

(* map_product_payload.                                                    *)
ApifyValues(fields) ==
  LET price == FirstPrice(fields, ApifyPrice)
  IN  [titled |-> ApifyTitle \cap DOMAIN fields # {},
       price |-> price,
       old |-> FirstPrice(fields, ApifyOldPrice),
       currency |-> CurrencyOf(FirstValue(fields, CurrencyPaths), price, Sign),
       availability |-> ApifyAvailability(fields)]
-----------------------------------------------------------------------------
(* Zyte and the mock provider.                                             *)

(* The product, or whatever object there is in its place.                  *)
ZyteProduct(page) ==
  IF page.at \in {"product", "productData", "root"} THEN page.fields
  ELSE [path \in {} |-> << >>]

GenericPrice ==
  <<"current_price", "currentPrice", "price", "priceValue", "salePrice",
    "finalPrice", "discountedPrice">>
GenericOldPrice ==
  <<"old_price", "oldPrice", "originalPrice", "listPrice", "regularPrice">>

(* A number other than 1 and 0 is no word.                                 *)
GenericAvailability(fields) ==
  LET v == FirstValue(fields,
             <<"availability", "availabilityStatus", "inStock", "isAvailable",
               "stock">>)
  IN  IF v = None THEN "unknown"
      ELSE CASE v.is = "flag" -> IF v.set THEN "in_stock" ELSE "out_of_stock"
             [] v.is = "number" -> IF v.amount = 100 THEN "in_stock"
                                   ELSE IF v.amount = 0 THEN "out_of_stock"
                                   ELSE "unknown"
             [] OTHER -> Worded(v.word, Yes \cup {"1"}, No \cup {"0"},
                                "out_of_stock")

GenericCurrencyPaths == <<"currency", "currencyCode", "currencyRaw">>

(* extract_snapshot_values.                                                *)
GenericValues(fields) ==
  LET price == Amount(FirstValue(fields, GenericPrice))
  IN  [titled |-> {"title", "name", "productName"} \cap DOMAIN fields # {},
       price |-> price,
       old |-> Amount(FirstValue(fields, GenericOldPrice)),
       currency |-> CurrencyOf(FirstValue(fields, GenericCurrencyPaths), price,
                               GenericSign),
       availability |-> GenericAvailability(fields)]
-----------------------------------------------------------------------------
(* _has_product_signal, and the validation of ProductSnapshot.             *)
HasProductSignal(values) ==
  values.titled \/ values.price # None \/ values.availability # "unknown"

IsValid(values) ==
  /\ values.price = None \/ values.price >= 0
  /\ values.old = None \/ values.old >= 0
=============================================================================
